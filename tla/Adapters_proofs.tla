--------------------------- MODULE Adapters_proofs ---------------------------
(***************************************************************************)
(* Theorems about the two adapters of MCAdapters. ArmAdapter, for any jobs,  *)
(* stoppers and calls, and in both stop modes: latches tell the truth and a  *)
(* stopped move writes no setpoint. ShortcutControl, for any callers,        *)
(* events, bindings and bounds: the robot moves for a key that is held, a    *)
(* heartbeat counts once, and the result of a mission outlives it.           *)
(***************************************************************************)
EXTENDS ShortcutControl, ArmAdapter, FiniteSetTheorems, SequenceTheorems, TLAPS


-----------------------------------------------------------------------------
(* The arm. *)

Place  == InMotion \cup {"idle", "clear", "known", "keep", "lock", "apply",
                         "confirm", "latch", "fault", "done"}
OnTheBus == {"apply", "confirm"}

(* One thread changes its place, ...                                         *)
LEMMA GoMoves ==
  ASSUME ArmTypeOK, NEW t \in Thread, NEW from, NEW to \in Place, Go(t, from, to)
  PROVE  /\ pc' \in [Thread -> Place] /\ pc[t] = from /\ pc'[t] = to
         /\ \A u \in Thread \ {t} : pc'[u] = pc[u]
BY DEF ArmTypeOK, Go, Place

(* ... and the lock is still of the stop on the bus, if it is left alone.    *)
LEMMA LockKept ==
  ASSUME ArmTypeOK, UNCHANGED lock, NEW t \in Thread, NEW from, NEW to \in Place, Go(t, from, to),
         from \notin OnTheBus, to \notin OnTheBus
  PROVE  pc' \in [Thread -> Place] /\ \A u \in Thread : lock' = u <=> pc'[u] \in OnTheBus
<1>1. /\ pc' \in [Thread -> Place] /\ pc[t] = from /\ pc'[t] = to
      /\ \A u \in Thread \ {t} : pc'[u] = pc[u]
  BY GoMoves
<1>2. \A u \in Thread : lock = u <=> pc[u] \in OnTheBus
  BY DEF ArmTypeOK, OnTheBus
<1> QED
  BY <1>1, <1>2

(* What a step of a motion leaves alone, and the types of what it changes.   *)
MotionTypes ==
    /\ pc' \in [Thread -> Place] /\ \A u \in Thread : lock' = u <=> pc'[u] \in OnTheBus
    /\ out' \in [Job -> Outcome \cup {"none", "refused"}] /\ requested' \in BOOLEAN
    /\ torque' \in BOOLEAN /\ unknown' \in BOOLEAN /\ lost' \in BOOLEAN /\ raced' \in BOOLEAN
    /\ UNCHANGED <<mode, lock, kept, unconfirmed, call, kind, late, ok, stopped, last>>

(* What a step of a motion has to keep of the types.                         *)
LEMMA MotionTyped == ArmTypeOK /\ MotionTypes => ArmTypeOK'
BY DEF ArmTypeOK, MotionTypes, Place, OnTheBus

(* A motion that ends leaves the lock alone, ...                             *)
LEMMA EndTyped ==
  ASSUME ArmTypeOK, UNCHANGED lock, NEW j \in Job, NEW from, NEW o \in Outcome \cup {"refused"},
         End(j, from, o), from \notin OnTheBus
  PROVE  /\ pc' \in [Thread -> Place] /\ \A u \in Thread : lock' = u <=> pc'[u] \in OnTheBus
         /\ out' \in [Job -> Outcome \cup {"none", "refused"}]
<1>1. j \in Thread /\ "keep" \in Place /\ "keep" \notin OnTheBus /\ Go(j, from, "keep")
  BY DEF Thread, Place, OnTheBus, End
<1>2. pc' \in [Thread -> Place] /\ \A u \in Thread : lock' = u <=> pc'[u] \in OnTheBus
  BY <1>1, LockKept
<1>3. out' \in [Job -> Outcome \cup {"none", "refused"}]
  BY DEF End, ArmTypeOK
<1> QED
  BY <1>2, <1>3

(* ... a motion that fails does, ...                                         *)
LEMMA FaultTyped ==
  ASSUME ArmTypeOK, NEW j \in Job, NEW from, Fault(j, from), from \notin OnTheBus, torque' \in BOOLEAN
  PROVE  MotionTypes
<1>1. UNCHANGED lock /\ End(j, from, "failed") /\ "failed" \in Outcome \cup {"refused"}
  BY DEF Fault, Outcome
<1>2. /\ pc' \in [Thread -> Place] /\ \A u \in Thread : lock' = u <=> pc'[u] \in OnTheBus
      /\ out' \in [Job -> Outcome \cup {"none", "refused"}]
  BY <1>1, EndTyped
<1> QED
  BY <1>2 DEF Fault, ArmTypeOK, MotionTypes, req

(* ... and so does one that goes on, ...                                     *)
LEMMA OnBusTyped ==
  ASSUME ArmTypeOK, NEW j \in Job, NEW from, NEW to \in Place, OnBus(j, from, to),
         from \notin OnTheBus, to \notin OnTheBus, torque' \in BOOLEAN
  PROVE  MotionTypes
<1>1. UNCHANGED lock /\ Go(j, from, to) /\ j \in Thread
  BY DEF OnBus, Thread
<1>2. pc' \in [Thread -> Place] /\ \A u \in Thread : lock' = u <=> pc'[u] \in OnTheBus
  BY <1>1, LockKept
<1> QED
  BY <1>2 DEF OnBus, ArmTypeOK, MotionTypes, req, latches, hist

(* ... one that calls for its own stop, ...                                  *)
LEMMA StopOfItsOwn ==
  ASSUME ArmTypeOK, NEW j \in Job, NEW from, NEW o \in Outcome, EndWithStop(j, from, o), from \notin OnTheBus,
         UNCHANGED <<mode, bus, requested, kept, latches, req, late, ok, hist>>
  PROVE  MotionTypes
<1>1. UNCHANGED lock /\ Go(j, from, "lock") /\ j \in Thread /\ "lock" \in Place /\ "lock" \notin OnTheBus
  BY DEF EndWithStop, Thread, bus, Place, OnTheBus
<1>2. pc' \in [Thread -> Place] /\ \A u \in Thread : lock' = u <=> pc'[u] \in OnTheBus
  BY <1>1, LockKept
<1>3. out' \in [Job -> Outcome \cup {"none", "refused"}]
  BY DEF EndWithStop, ArmTypeOK
<1> QED
  BY <1>2, <1>3 DEF ArmTypeOK, MotionTypes, bus, req, latches, hist

(* ... and one that ends without another word.                               *)
LEMMA PlainEnd ==
  ASSUME ArmTypeOK, NEW j \in Job, NEW from, NEW o \in Outcome \cup {"refused"}, End(j, from, o),
         from \notin OnTheBus, UNCHANGED <<mode, bus, requested, kept, latches, req, late, ok, hist>>
  PROVE  MotionTypes
<1>1. /\ pc' \in [Thread -> Place] /\ \A u \in Thread : lock' = u <=> pc'[u] \in OnTheBus
      /\ out' \in [Job -> Outcome \cup {"none", "refused"}]
  BY EndTyped DEF bus
<1> QED
  BY <1>1 DEF ArmTypeOK, MotionTypes, bus, req, latches, hist

(* Every step of a motion keeps the types.                                   *)
LEMMA MotionStep ==
  ASSUME ArmTypeOK, NEW j \in Job,
         \/ Clear(j) \/ Pose(j) \/ Torque(j) \/ Enable(j) \/ ReadBack(j) \/ Loop(j) \/ Write(j)
         \/ Read(j) \/ Settle(j) \/ Known(j)
  PROVE  MotionTypes
<1> USE DEF Place, OnTheBus, Outcome, InMotion
<1>0. j \in Thread /\ torque \in BOOLEAN
  BY DEF Thread, ArmTypeOK
<1>1. CASE Clear(j)
  BY <1>0, <1>1, LockKept DEF Clear, ArmTypeOK, MotionTypes, bus, req, latches, hist
<1>2. CASE Pose(j)
  BY <1>0, <1>2, OnBusTyped, PlainEnd, FaultTyped DEF Pose
<1>3. CASE Torque(j)
  BY <1>0, <1>3, OnBusTyped, FaultTyped DEF Torque
<1>4. CASE Enable(j)
  BY <1>0, <1>4, OnBusTyped, FaultTyped DEF Enable
<1>5. CASE ReadBack(j)
  BY <1>0, <1>5, OnBusTyped, PlainEnd, FaultTyped DEF ReadBack
<1>6. CASE Loop(j)
  <2>1. CASE requested /\ End(j, "loop", "cancelled")
    BY <1>6, <2>1, PlainEnd DEF Loop
  <2>2. CASE Go(j, "loop", "lock") /\ out' = [out EXCEPT ![j] = "timeout"]
    BY <1>6, <2>2, StopOfItsOwn DEF Loop, EndWithStop
  <2>3. CASE Go(j, "loop", "write") /\ UNCHANGED out
    BY <1>0, <1>6, <2>3, LockKept DEF Loop, ArmTypeOK, MotionTypes, bus, req, latches, hist
  <2> QED
    BY <1>6, <2>1, <2>2, <2>3 DEF Loop
<1>7. CASE Write(j)
  BY <1>0, <1>7, OnBusTyped, FaultTyped DEF Write
<1>8. CASE Read(j)
  BY <1>0, <1>8, OnBusTyped, PlainEnd, StopOfItsOwn, FaultTyped DEF Read
<1>9. CASE Settle(j)
  BY <1>0, <1>9, PlainEnd, StopOfItsOwn, FaultTyped DEF Settle, StaysPut, ConfirmHold
<1>10. CASE Known(j)
  <2>1. UNCHANGED lock /\ End(j, "known", "completed")
    BY <1>10 DEF Known, bus
  <2>2. /\ pc' \in [Thread -> Place] /\ \A u \in Thread : lock' = u <=> pc'[u] \in OnTheBus
        /\ out' \in [Job -> Outcome \cup {"none", "refused"}]
    BY <2>1, EndTyped
  <2> QED
    BY <1>10, <2>2 DEF Known, ArmTypeOK, MotionTypes, bus, req, hist
<1> QED
  BY <1>1, <1>2, <1>3, <1>4, <1>5, <1>6, <1>7, <1>8, <1>9, <1>10

(* The lock is taken, or given back, by the thread that moves.               *)
LEMMA LockMoves ==
  ASSUME ArmTypeOK, NEW t \in Thread, NEW from, NEW to \in Place, Go(t, from, to),
         \/ lock = Nobody /\ lock' = t /\ to \in OnTheBus
         \/ lock' = Nobody /\ from \in OnTheBus /\ to \notin OnTheBus
         \/ UNCHANGED lock /\ from \in OnTheBus /\ to \in OnTheBus
  PROVE  /\ pc' \in [Thread -> Place] /\ lock' \in Thread \cup {Nobody}
         /\ \A u \in Thread : lock' = u <=> pc'[u] \in OnTheBus
<1>1. /\ pc' \in [Thread -> Place] /\ pc[t] = from /\ pc'[t] = to
      /\ \A u \in Thread \ {t} : pc'[u] = pc[u]
  BY GoMoves
<1>2. \A u \in Thread : lock = u <=> pc[u] \in OnTheBus
  BY DEF ArmTypeOK, OnTheBus
<1>3. Nobody \notin Thread
  BY ArmAssumption
<1> QED
  BY <1>1, <1>2, <1>3 DEF ArmTypeOK

(* Initially every type holds, ...                                           *)
LEMMA TypeInit == ArmInit => ArmTypeOK
<1> SUFFICES ASSUME ArmInit PROVE ArmTypeOK
  OBVIOUS
<1>1. pc \in [Thread -> Place] /\ \A t \in Thread : lock = t <=> pc[t] \in OnTheBus
  BY ArmAssumption DEF ArmInit, Place, OnTheBus
<1>2. /\ call \in [Job -> Call \cup {Nobody}] /\ kind \in [Job -> Kind]
      /\ out \in [Job -> Outcome \cup {"none", "refused"}]
  BY DEF ArmInit, Kind
<1>3. late \in [Job -> BOOLEAN] /\ ok \in [Thread -> BOOLEAN]
  BY DEF ArmInit
<1> QED
  BY <1>1, <1>2, <1>3 DEF ArmInit, ArmTypeOK, Place, OnTheBus

(* A job that is not idle makes a call.                                      *)
CallInv == \A j \in Job : pc[j] # "idle" => call[j] \in Call

(* ... and every step keeps them.                                            *)
LEMMA TypeStep == ArmTypeOK /\ CallInv /\ [ArmNext]_armVars => ArmTypeOK'
<1> SUFFICES ASSUME ArmTypeOK, CallInv, [ArmNext]_armVars PROVE ArmTypeOK'
  OBVIOUS
<1> USE DEF Place, OnTheBus
<1>1. ASSUME NEW j \in Job, NEW c \in Call, ReadState(j, c) PROVE ArmTypeOK'
  <2>1. UNCHANGED lock /\ j \in Thread
    BY <1>1 DEF ReadState, bus, Thread
  <2>2. /\ pc' \in [Thread -> Place] /\ \A u \in Thread : lock' = u <=> pc'[u] \in OnTheBus
        /\ out' \in [Job -> Outcome \cup {"none", "refused"}]
    <3>1. CASE Go(j, "idle", "known") /\ UNCHANGED out
      BY <2>1, <3>1, LockKept DEF ArmTypeOK
    <3>2. CASE End(j, "idle", "failed")
      BY <2>1, <3>2, EndTyped DEF Outcome
    <3> QED
      BY <1>1, <3>1, <3>2 DEF ReadState
  <2>3. call' \in [Job -> Call \cup {Nobody}] /\ kind' \in [Job -> Kind]
    BY <1>1 DEF ReadState, Ask, ArmTypeOK, Kind
  <2>4. unknown' \in BOOLEAN /\ lost' \in BOOLEAN /\ raced' \in BOOLEAN
    BY <1>1 DEF ReadState, ArmTypeOK
  <2> QED
    BY <1>1, <2>2, <2>3, <2>4 DEF ReadState, ArmTypeOK, bus
<1>2. ASSUME NEW j \in Job, NEW c \in Call, NEW k \in MotionKind, Start(j, c, k) PROVE ArmTypeOK'
  <2>1. pc' \in [Thread -> Place] /\ \A u \in Thread : lock' = u <=> pc'[u] \in OnTheBus
    BY <1>2, LockKept DEF Start, bus, Thread
  <2>2. call' \in [Job -> Call \cup {Nobody}] /\ kind' \in [Job -> Kind]
    BY <1>2 DEF Start, Ask, ArmTypeOK, Kind
  <2> QED
    BY <1>2, <2>1, <2>2 DEF Start, ArmTypeOK, bus, latches, hist
<1>3. ASSUME NEW j \in Job, ~Keep(j), Motion(j) PROVE ArmTypeOK'
  BY <1>3, MotionStep, MotionTyped DEF Motion
<1>4. ASSUME NEW j \in Job, Keep(j) PROVE ArmTypeOK'
  <2>1. pc' \in [Thread -> Place] /\ \A u \in Thread : lock' = u <=> pc'[u] \in OnTheBus
    BY <1>4, LockKept DEF Keep, bus, Thread
  <2>2. call' \in [Job -> Call \cup {Nobody}] /\ kind' \in [Job -> Kind]
    BY <1>4 DEF Keep, Ask, ArmTypeOK, Kind
  <2>3. kept' \subseteq Call
    <3>1. call[j] \in Call
      BY <1>4 DEF Keep, Go, CallInv
    <3> QED
      BY <1>4, <3>1 DEF Keep, ArmTypeOK
  <2>4. out' \in [Job -> Outcome \cup {"none", "refused"}] /\ late' \in [Job -> BOOLEAN]
    BY <1>4 DEF Keep, ArmTypeOK
  <2> QED
    BY <1>4, <2>1, <2>2, <2>3, <2>4 DEF Keep, ArmTypeOK, bus, latches
<1>5. ASSUME NEW j \in Job, Expire(j) PROVE ArmTypeOK'
  BY <1>5 DEF Expire, ArmTypeOK, bus, latches, req, hist
<1>6. ASSUME NEW s \in Stopper, Request(s) PROVE ArmTypeOK'
  <2>1. pc' \in [Thread -> Place] /\ \A u \in Thread : lock' = u <=> pc'[u] \in OnTheBus
    BY <1>6, LockKept DEF Request, bus, Thread
  <2> QED
    BY <1>6, <2>1 DEF Request, ArmTypeOK, bus, latches, req
<1>7. ASSUME NEW t \in Thread, Acquire(t) PROVE ArmTypeOK'
  <2>1. /\ pc' \in [Thread -> Place] /\ lock' \in Thread \cup {Nobody}
        /\ \A u \in Thread : lock' = u <=> pc'[u] \in OnTheBus
    BY <1>7, LockMoves DEF Acquire, Free
  <2> QED
    BY <1>7, <2>1 DEF Acquire, ArmTypeOK, latches, req, hist
<1>8. ASSUME NEW t \in Thread, NEW from \in OnTheBus, StopFault(t, from), torque' \in BOOLEAN PROVE ArmTypeOK'
  <2>1. /\ pc' \in [Thread -> Place] /\ lock' \in Thread \cup {Nobody}
        /\ \A u \in Thread : lock' = u <=> pc'[u] \in OnTheBus
    BY <1>8, LockMoves DEF StopFault
  <2> QED
    BY <1>8, <2>1 DEF StopFault, ArmTypeOK, latches, req
<1>9. ASSUME NEW t \in Thread, Apply(t) PROVE ArmTypeOK'
  <2>1. torque' \in BOOLEAN
    BY <1>9 DEF Apply, HoldPose, TorqueOff, ArmTypeOK
  <2>2. CASE StopFault(t, "apply")
    BY <1>8, <2>1, <2>2
  <2>3. CASE Go(t, "apply", "confirm") /\ UNCHANGED <<mode, lock, requested, kept, latches, req, out, late, ok, hist>>
    <3>1. /\ pc' \in [Thread -> Place] /\ lock' \in Thread \cup {Nobody}
          /\ \A u \in Thread : lock' = u <=> pc'[u] \in OnTheBus
      BY <2>3, LockMoves
    <3> QED
      BY <2>1, <2>3, <3>1 DEF ArmTypeOK, latches, req, hist
  <2> QED
    BY <1>9, <2>2, <2>3 DEF Apply, HoldPose, TorqueOff
<1>10. ASSUME NEW t \in Thread, Confirm(t) PROVE ArmTypeOK'
  <2>1. CASE StopFault(t, "confirm") /\ UNCHANGED torque
    <3>1. torque' \in BOOLEAN
      BY <2>1 DEF ArmTypeOK
    <3> QED
      BY <1>8, <2>1, <3>1
  <2>2. CASE Go(t, "confirm", "latch") /\ lock' = Nobody /\ ~StopFault(t, "confirm")
    <3>1. /\ pc' \in [Thread -> Place] /\ lock' \in Thread \cup {Nobody}
          /\ \A u \in Thread : lock' = u <=> pc'[u] \in OnTheBus
      BY <2>2, LockMoves
    <3>2. ok' \in [Thread -> BOOLEAN]
      BY <1>10, <2>2 DEF Confirm, ArmTypeOK
    <3>3. last' \in BOOLEAN
      BY <1>10, <2>2, <3>2 DEF Confirm
    <3> QED
      BY <1>10, <2>2, <3>1, <3>2, <3>3 DEF Confirm, ArmTypeOK, latches, req
  <2> QED
    BY <1>10, <2>1, <2>2 DEF Confirm
<1>11. ASSUME NEW t \in Thread, Latch(t) \/ LatchFault(t) PROVE ArmTypeOK'
  <2>1. pc' \in [Thread -> Place] /\ \A u \in Thread : lock' = u <=> pc'[u] \in OnTheBus
    BY <1>11, LockKept DEF Latch, LatchFault, Return, bus
  <2>2. ok' \in [Thread -> BOOLEAN] /\ unconfirmed' \in BOOLEAN /\ unknown' \in BOOLEAN
    BY <1>11 DEF Latch, LatchFault, ArmTypeOK
  <2>3. UNCHANGED stopped
    BY <1>11 DEF Latch, LatchFault, ArmTypeOK, hist
  <2> QED
    BY <1>11, <2>1, <2>2, <2>3 DEF Latch, LatchFault, ArmTypeOK, bus, req, hist
<1>12. CASE UNCHANGED armVars
  BY <1>12 DEF armVars, ArmTypeOK
<1> QED
  BY <1>1, <1>2, <1>3, <1>4, <1>5, <1>6, <1>7, <1>9, <1>10, <1>11, <1>12 DEF ArmNext, Stopping

(* A call is known from its first step to its last, ...                      *)
LEMMA CallStep == ArmTypeOK /\ CallInv /\ [ArmNext]_armVars => CallInv'
<1> SUFFICES ASSUME ArmTypeOK, CallInv, [ArmNext]_armVars PROVE CallInv'
  OBVIOUS
<1> USE DEF Place, InMotion
<1>0. Job \subseteq Thread /\ Stopper \subseteq Thread /\ Job \cap Stopper = {}
  BY ArmAssumption DEF Thread
<1>1. ASSUME UNCHANGED call, NEW t \in Thread, NEW from, NEW to \in Place, Go(t, from, to),
             from # "idle" \/ t \in Stopper
      PROVE  CallInv'
  BY <1>0, <1>1, GoMoves DEF CallInv
<1>2. ASSUME NEW j \in Job, NEW c \in Call, ReadState(j, c) \/ \E k \in MotionKind : Start(j, c, k)
      PROVE  CallInv'
  <2>1. \A u \in Thread \ {j} : pc'[u] = pc[u]
    BY <1>0, <1>2, GoMoves DEF ReadState, Start, End
  <2>2. call'[j] = c /\ \A i \in Job \ {j} : call'[i] = call[i]
    BY <1>2 DEF ReadState, Start, Ask, ArmTypeOK
  <2> QED
    BY <1>0, <2>1, <2>2 DEF CallInv
<1>3. ASSUME NEW j \in Job, Clear(j) \/ Pose(j) \/ Torque(j) \/ Enable(j) PROVE CallInv'
  BY <1>0, <1>1, <1>3 DEF Clear, Pose, Torque, Enable, OnBus, Fault, End, req
<1>4. ASSUME NEW j \in Job, ReadBack(j) \/ Loop(j) \/ Write(j) PROVE CallInv'
  BY <1>0, <1>1, <1>4 DEF ReadBack, Loop, Write, OnBus, Fault, End, req
<1>5. ASSUME NEW j \in Job, Read(j) \/ Settle(j) \/ Known(j) PROVE CallInv'
  BY <1>0, <1>1, <1>5 DEF Read, Settle, StaysPut, ConfirmHold, Known, OnBus, Fault, End, EndWithStop, req
<1>6. ASSUME NEW j \in Job, Keep(j) PROVE CallInv'
  <2>1. pc'[j] = "idle" /\ \A u \in Thread \ {j} : pc'[u] = pc[u]
    BY <1>0, <1>6, GoMoves DEF Keep
  <2>2. \A i \in Job \ {j} : call'[i] = call[i]
    BY <1>6 DEF Keep, Ask, ArmTypeOK
  <2> QED
    BY <1>0, <2>1, <2>2 DEF CallInv
<1>7. ASSUME NEW j \in Job, Expire(j) PROVE CallInv'
  BY <1>7 DEF Expire, CallInv, req
<1>8. ASSUME NEW s \in Stopper, Request(s) PROVE CallInv'
  BY <1>0, <1>1, <1>8 DEF Request, req
<1>9. ASSUME NEW t \in Thread, Acquire(t) \/ Apply(t) \/ Confirm(t) \/ Latch(t) \/ LatchFault(t)
      PROVE  CallInv'
  BY <1>1, <1>9 DEF Acquire, Apply, HoldPose, TorqueOff, Confirm, StopFault, Latch, LatchFault, Return, req
<1>10. CASE UNCHANGED armVars
  BY <1>10 DEF armVars, CallInv
<1> QED
  BY <1>2, <1>3, <1>4, <1>5, <1>6, <1>7, <1>8, <1>9, <1>10 DEF ArmNext, Motion, Stopping

(* ... and nobody calls at the beginning.                                    *)
LEMMA CallInit == ArmInit => CallInv
BY DEF ArmInit, CallInv, Thread

(* Every reachable state is in its type, and the lock is a stop's as long as *)
(* the stop is on the bus: no motion touches it in the middle of one.        *)
THEOREM ArmTyping == ArmSpec => []ArmTypeOK
<1>1. (ArmTypeOK /\ CallInv) /\ [ArmNext]_armVars => (ArmTypeOK /\ CallInv)'
  BY TypeStep, CallStep
<1> QED
  BY <1>1, TypeInit, CallInit, PTL DEF ArmSpec

-----------------------------------------------------------------------------
(* At most one thread is about to write how its stop ended, and what it is   *)
(* about to write is how the last stop ended; while a fault is only about to *)
(* be written, its thread is at it. (As long as nothing raced.)              *)
Telling == {t \in Thread : pc[t] \in {"latch", "fault"}}

LatchInv ==
    ~raced =>
        /\ \A t, u \in Telling : t = u
        /\ \A t \in Thread : /\ pc[t] = "latch" => last = ok[t]
                             /\ pc[t] = "fault" => ~last
        /\ Telling = {} => unconfirmed = ~last
        /\ lost => unknown \/ \E t \in Thread : pc[t] = "fault"
        /\ lost => \A j \in Job : pc[j] # "known"

(* A step that neither tells nor reads the state leaves the latches alone.   *)
LEMMA LatchFrame ==
  ASSUME ArmTypeOK, LatchInv, UNCHANGED <<unknown, unconfirmed, ok, last, lost, raced>>,
         NEW t \in Thread, NEW from, NEW to \in Place, Go(t, from, to),
         {from, to} \cap {"known", "latch", "fault"} = {}
  PROVE  LatchInv'
<1>1. /\ pc[t] = from /\ pc'[t] = to /\ \A u \in Thread \ {t} : pc'[u] = pc[u]
  BY GoMoves
<1>2. \A u \in Thread : \A p \in {"known", "latch", "fault"} : pc'[u] = p <=> pc[u] = p
  BY <1>1
<1>3. Telling' = Telling
  BY <1>2 DEF Telling
<1> QED
  BY <1>2, <1>3 DEF LatchInv, Thread

(* A fault of a motion on the bus is latched at once.                        *)
LEMMA FaultLatches ==
  ASSUME ArmTypeOK, LatchInv, NEW j \in Job, NEW from, Fault(j, from),
         from \notin {"known", "latch", "fault"}
  PROVE  LatchInv'
<1>1. j \in Thread /\ "keep" \in Place
  BY DEF Thread, Place
<1>2. pc[j] = from /\ pc'[j] = "keep" /\ \A u \in Thread \ {j} : pc'[u] = pc[u]
  BY <1>1, GoMoves DEF Fault, End
<1>3. \A u \in Thread : \A p \in {"known", "latch", "fault"} : pc'[u] = p <=> pc[u] = p
  BY <1>2
<1>4. Telling' = Telling
  BY <1>3 DEF Telling
<1> QED
  BY <1>3, <1>4 DEF LatchInv, Fault, Thread

(* A stop that leaves the bus is the last, and nobody else is telling.       *)
LEMMA LeavesTheBus ==
  ASSUME ArmTypeOK, LatchInv, NEW t \in Thread, NEW from \in OnTheBus, NEW to \in {"latch", "fault"},
         Go(t, from, to), raced' = (raced \/ Latching # {}), UNCHANGED unconfirmed, UNCHANGED unknown,
         to = "latch" => last' = ok'[t] /\ UNCHANGED lost,
         to = "fault" => ~last'
  PROVE  LatchInv'
<1> USE DEF Place, OnTheBus
<1>1. /\ pc[t] = from /\ pc'[t] = to /\ \A u \in Thread \ {t} : pc'[u] = pc[u]
  BY GoMoves
<1>2. SUFFICES ASSUME ~raced' PROVE LatchInv'
  BY DEF LatchInv
<1>3. ~raced /\ Latching = {}
  BY <1>2 DEF ArmTypeOK
<1>4. \A u \in Thread : pc[u] \notin {"known", "latch", "fault"}
  BY <1>3 DEF Latching
<1>5. Telling' = {t} /\ \A j \in Job : pc'[j] # "known"
  BY <1>1, <1>4 DEF Telling, Thread
<1>6. lost' => unknown' \/ \E u \in Thread : pc'[u] = "fault"
  <2>1. CASE to = "fault"
    BY <1>1, <2>1
  <2>2. CASE to = "latch"
    BY <1>3, <1>4, <2>2 DEF LatchInv
  <2> QED
    BY <2>1, <2>2
<1> QED
  BY <1>1, <1>4, <1>5, <1>6 DEF LatchInv, Telling

(* Every step keeps the latches true.                                        *)
LEMMA LatchStep == ArmTypeOK /\ LatchInv /\ [ArmNext]_armVars => LatchInv'
<1> SUFFICES ASSUME ArmTypeOK, LatchInv, [ArmNext]_armVars PROVE LatchInv'
  OBVIOUS
<1> USE DEF Place, InMotion
<1>0. Job \subseteq Thread /\ Stopper \subseteq Thread
  BY DEF Thread
<1>1. ASSUME NEW j \in Job, NEW c \in Call, ReadState(j, c) PROVE LatchInv'
  <2>1. CASE Go(j, "idle", "known") /\ lost' = FALSE /\ UNCHANGED <<unknown, raced>>
    <3>1. /\ pc[j] = "idle" /\ pc'[j] = "known" /\ \A u \in Thread \ {j} : pc'[u] = pc[u]
      BY <1>0, <2>1, GoMoves
    <3>2. Telling' = Telling
      BY <1>0, <3>1 DEF Telling
    <3>3. UNCHANGED <<unconfirmed, ok, last>>
      BY <1>1 DEF ReadState
    <3> QED
      BY <2>1, <3>1, <3>2, <3>3 DEF LatchInv, Telling
  <2>2. CASE /\ End(j, "idle", "failed") /\ unknown' = TRUE /\ lost' = TRUE
             /\ raced' = (raced \/ \E t \in Job : pc[t] = "known")
    <3>1. /\ pc[j] = "idle" /\ pc'[j] = "keep" /\ \A u \in Thread \ {j} : pc'[u] = pc[u]
      BY <1>0, <2>2, GoMoves DEF End
    <3>2. Telling' = Telling /\ (~raced' => ~raced /\ \A t \in Job : pc'[t] # "known")
      BY <1>0, <2>2, <3>1 DEF Telling, ArmTypeOK
    <3>3. UNCHANGED <<unconfirmed, ok, last>>
      BY <1>1 DEF ReadState
    <3> QED
      BY <2>2, <3>1, <3>2, <3>3 DEF LatchInv, Telling
  <2>3. CASE End(j, "idle", "failed") /\ UNCHANGED <<lost, unknown, raced>>
    BY <1>0, <1>1, <2>3, LatchFrame DEF ReadState, End
  <2> QED
    BY <1>1, <2>1, <2>2, <2>3 DEF ReadState
<1>2. ASSUME NEW j \in Job, NEW c \in Call, NEW k \in MotionKind, Start(j, c, k) PROVE LatchInv'
  BY <1>0, <1>2, LatchFrame DEF Start, latches, hist
<1>3. ASSUME NEW j \in Job, Clear(j) PROVE LatchInv'
  BY <1>0, <1>3, LatchFrame DEF Clear, latches, hist
<1>4. ASSUME NEW j \in Job, Pose(j) PROVE LatchInv'
  BY <1>0, <1>4, LatchFrame, FaultLatches DEF Pose, OnBus, End, latches, hist
<1>5. ASSUME NEW j \in Job, Torque(j) PROVE LatchInv'
  BY <1>0, <1>5, LatchFrame, FaultLatches DEF Torque, OnBus, latches, hist
<1>6. ASSUME NEW j \in Job, Enable(j) PROVE LatchInv'
  BY <1>0, <1>6, LatchFrame, FaultLatches DEF Enable, OnBus, latches, hist
<1>7. ASSUME NEW j \in Job, ReadBack(j) PROVE LatchInv'
  BY <1>0, <1>7, LatchFrame, FaultLatches DEF ReadBack, OnBus, End, latches, hist
<1>8. ASSUME NEW j \in Job, Loop(j) PROVE LatchInv'
  BY <1>0, <1>8, LatchFrame DEF Loop, End, latches, hist
<1>9. ASSUME NEW j \in Job, Write(j) PROVE LatchInv'
  BY <1>0, <1>9, LatchFrame, FaultLatches DEF Write, OnBus, latches, hist
<1>10. ASSUME NEW j \in Job, Read(j) PROVE LatchInv'
  BY <1>0, <1>10, LatchFrame, FaultLatches DEF Read, OnBus, End, EndWithStop, latches, hist
<1>11. ASSUME NEW j \in Job, Settle(j) PROVE LatchInv'
  BY <1>0, <1>11, LatchFrame, FaultLatches DEF Settle, StaysPut, ConfirmHold, End, EndWithStop, latches, hist
<1>12. ASSUME NEW j \in Job, Known(j) PROVE LatchInv'
  <2>1. /\ pc[j] = "known" /\ pc'[j] = "keep" /\ \A u \in Thread \ {j} : pc'[u] = pc[u]
    BY <1>0, <1>12, GoMoves DEF Known, End
  <2>2. Telling' = Telling
    BY <1>0, <2>1 DEF Telling
  <2> QED
    BY <1>12, <2>1, <2>2 DEF Known, LatchInv, Telling, hist
<1>13. ASSUME NEW j \in Job, Keep(j) PROVE LatchInv'
  BY <1>0, <1>13, LatchFrame DEF Keep, latches
<1>14. ASSUME NEW j \in Job, Expire(j) PROVE LatchInv'
  BY <1>14 DEF Expire, LatchInv, Telling, latches, hist
<1>15. ASSUME NEW s \in Stopper, Request(s) PROVE LatchInv'
  BY <1>0, <1>15, LatchFrame DEF Request, latches
<1>16. ASSUME NEW t \in Thread, Acquire(t) PROVE LatchInv'
  BY <1>16, LatchFrame DEF Acquire, latches, hist
<1>17. ASSUME NEW t \in Thread, NEW from \in OnTheBus, StopFault(t, from) PROVE LatchInv'
  BY <1>17, LeavesTheBus DEF StopFault, latches
<1>18. ASSUME NEW t \in Thread, Apply(t) PROVE LatchInv'
  <2>1. CASE StopFault(t, "apply")
    BY <1>17, <2>1 DEF OnTheBus
  <2>2. CASE Go(t, "apply", "confirm") /\ UNCHANGED <<mode, lock, requested, kept, latches, req, out, late, ok, hist>>
    BY <2>2, LatchFrame DEF latches, hist
  <2> QED
    BY <1>18, <2>1, <2>2 DEF Apply, HoldPose, TorqueOff
<1>19. ASSUME NEW t \in Thread, Confirm(t) PROVE LatchInv'
  <2>1. CASE StopFault(t, "confirm")
    BY <1>17, <2>1 DEF OnTheBus
  <2>2. CASE ~StopFault(t, "confirm")
    BY <1>19, <2>2, LeavesTheBus DEF Confirm, OnTheBus, latches
  <2> QED
    BY <2>1, <2>2
<1>20. ASSUME NEW t \in Thread, Latch(t) \/ LatchFault(t) PROVE LatchInv'
  <2>1. PICK to \in {"done", "keep"} :
          pc[t] \in {"latch", "fault"} /\ pc'[t] = to /\ \A u \in Thread \ {t} : pc'[u] = pc[u]
    BY <1>20, GoMoves DEF Latch, LatchFault, Return
  <2>2. SUFFICES ASSUME ~raced' PROVE LatchInv'
    BY DEF LatchInv
  <2>3. ~raced /\ Telling = {t} /\ UNCHANGED <<last, lost>>
    BY <1>20, <2>1, <2>2 DEF LatchInv, Telling, Latch, LatchFault, hist
  <2>4. Telling' = {}
    BY <2>1, <2>3 DEF Telling
  <2>5. \A j \in Job : pc'[j] = "known" => pc[j] = "known"
    BY <1>0, <2>1
  <2>6. unconfirmed' = ~last
    BY <1>20, <2>1, <2>3 DEF Latch, LatchFault, LatchInv, Return, Go
  <2>7. lost => unknown'
    <3>1. CASE Latch(t)
      <4>1. \A u \in Thread : pc[u] # "fault"
        BY <2>3, <3>1 DEF Latch, Return, Go, Telling
      <4> QED
        BY <2>3, <3>1, <4>1 DEF LatchInv, Latch
    <3>2. CASE LatchFault(t)
      BY <3>2 DEF LatchFault
    <3> QED
      BY <1>20, <3>1, <3>2
  <2> QED
    BY <2>2, <2>3, <2>4, <2>5, <2>6, <2>7 DEF LatchInv, Telling
<1>21. CASE UNCHANGED armVars
  BY <1>21 DEF armVars, LatchInv, Telling
<1> QED
  BY <1>1, <1>2, <1>3, <1>4, <1>5, <1>6, <1>7, <1>8, <1>9, <1>10, <1>11, <1>12, <1>13, <1>14,
     <1>15,
     <1>16, <1>18, <1>19, <1>20, <1>21 DEF ArmNext, Motion, Stopping

(* Whatever jobs and stoppers share the bus, in both stop modes: once every  *)
(* thread has written what it found, the latches tell how the last stop and  *)
(* the last access of the bus went, unless two of them crossed between the   *)
(* bus and the latch, which is written without the lock                      *)
(* (SerialArmAdapter._stop, _run_guarded, read_state).                       *)
THEOREM LatchesAreTrue == ArmSpec => []LatchesTellTheTruth
<1>1. ArmInit => LatchInv
  BY DEF ArmInit, LatchInv, Telling, Thread
<1>2. ArmTypeOK /\ LatchInv /\ [ArmNext]_armVars => LatchInv'
  BY LatchStep
<1>3. LatchInv => LatchesTellTheTruth
  BY DEF LatchInv, LatchesTellTheTruth, LatchTellsLastStop, LostStateIsUnknown, Latching, Telling
<1> QED
  BY <1>1, <1>2, <1>3, ArmTyping, PTL DEF ArmSpec

-----------------------------------------------------------------------------
(* The host runs one motion of an arm at a time: a second one would clear    *)
(* the stop event under the first.                                           *)
OneMotion == \A i, j \in Job : i = j

(* A motion that was under way when a stop was requested can still see it.   *)
StoppedInv == \A j \in stopped : requested /\ pc[j] \notin {"idle", "clear"}

(* With one motion at a time, every step keeps a stopped one stopped.        *)
LEMMA StoppedStep == OneMotion /\ ArmTypeOK /\ StoppedInv /\ [ArmNext]_armVars => StoppedInv'
<1> SUFFICES ASSUME OneMotion, ArmTypeOK, StoppedInv, [ArmNext]_armVars PROVE StoppedInv'
  OBVIOUS
<1> USE DEF Place, InMotion
<1>0. Job \subseteq Thread /\ Stopper \subseteq Thread
  BY DEF Thread
<1>1. ASSUME UNCHANGED <<stopped, requested>>, NEW t \in Thread, NEW from, NEW to \in Place \ {"idle", "clear"},
             Go(t, from, to)
      PROVE  StoppedInv'
  BY <1>1, GoMoves DEF StoppedInv, ArmTypeOK, Thread
<1>2. ASSUME NEW j \in Job, NEW c \in Call, ReadState(j, c) PROVE StoppedInv'
  BY <1>0, <1>1, <1>2 DEF ReadState, End
<1>3. ASSUME NEW j \in Job, NEW c \in Call, NEW k \in MotionKind, Start(j, c, k) PROVE StoppedInv'
  BY <1>0, <1>3, GoMoves DEF Start, StoppedInv, OneMotion, ArmTypeOK, hist
<1>4. ASSUME NEW j \in Job, Clear(j) PROVE StoppedInv'
  <2>1. pc[j] = "clear" /\ UNCHANGED stopped
    BY <1>4 DEF Clear, Go, hist
  <2>2. stopped = {}
    BY <2>1 DEF StoppedInv, OneMotion, ArmTypeOK
  <2> QED
    BY <2>1, <2>2 DEF StoppedInv
<1>5. ASSUME NEW j \in Job, Pose(j) \/ Torque(j) \/ Enable(j) PROVE StoppedInv'
  BY <1>0, <1>1, <1>5 DEF Pose, Torque, Enable, OnBus, Fault, End, hist
<1>6. ASSUME NEW j \in Job, ReadBack(j) \/ Loop(j) \/ Write(j) PROVE StoppedInv'
  BY <1>0, <1>1, <1>6 DEF ReadBack, Loop, Write, OnBus, Fault, End, hist
<1>7. ASSUME NEW j \in Job, Read(j) \/ Settle(j) \/ Known(j) PROVE StoppedInv'
  BY <1>0, <1>1, <1>7 DEF Read, Settle, StaysPut, ConfirmHold, Known, OnBus, Fault, End, EndWithStop, hist
<1>8. ASSUME NEW j \in Job, Keep(j) PROVE StoppedInv'
  BY <1>0, <1>8, GoMoves DEF Keep, StoppedInv, ArmTypeOK
<1>9. ASSUME NEW j \in Job, Expire(j) PROVE StoppedInv'
  BY <1>9 DEF Expire, StoppedInv, hist
<1>10. ASSUME NEW s \in Stopper, Request(s) PROVE StoppedInv'
  <2>1. pc[s] = "idle" /\ pc'[s] = "lock" /\ \A u \in Thread \ {s} : pc'[u] = pc[u]
    BY <1>0, <1>10, GoMoves DEF Request
  <2> QED
    BY <1>0, <1>10, <2>1 DEF Request, StoppedInv, ArmTypeOK
<1>11. ASSUME NEW t \in Thread, Acquire(t) \/ Apply(t) \/ Confirm(t) \/ Latch(t) \/ LatchFault(t)
       PROVE  StoppedInv'
  BY <1>1, <1>11 DEF Acquire, Apply, HoldPose, TorqueOff, Confirm, StopFault, Latch, LatchFault, Return, hist
<1>12. CASE UNCHANGED armVars
  BY <1>12 DEF armVars, StoppedInv
<1> QED
  BY <1>2, <1>3, <1>4, <1>5, <1>6, <1>7, <1>8, <1>9, <1>10, <1>11, <1>12 DEF ArmNext, Motion,
     Stopping

(* Only a motion that looked at the stop event under the lock, and did not   *)
(* find it set, writes a setpoint.                                           *)
LEMMA OnlyWriteWrites ==
  ASSUME ArmTypeOK, ArmNext, requested, NEW j \in Thread
  PROVE  ~(pc[j] = "write" /\ pc'[j] = "read")
<1> USE DEF Place, InMotion
<1>0. Job \subseteq Thread /\ Stopper \subseteq Thread
  BY DEF Thread
<1>1. ASSUME NEW t \in Thread, NEW from, NEW to \in Place, Go(t, from, to), ~(from = "write" /\ to = "read")
      PROVE  ~(pc[j] = "write" /\ pc'[j] = "read")
  BY <1>1, GoMoves
<1>2. ASSUME NEW i \in Job, NEW c \in Call, ReadState(i, c) \/ \E k \in MotionKind : Start(i, c, k)
      PROVE  ~(pc[j] = "write" /\ pc'[j] = "read")
  BY <1>0, <1>1, <1>2 DEF ReadState, Start, End
<1>3. ASSUME NEW i \in Job, Clear(i) \/ Pose(i) \/ Torque(i) \/ Enable(i) \/ ReadBack(i) \/ Loop(i)
      PROVE  ~(pc[j] = "write" /\ pc'[j] = "read")
  BY <1>0, <1>1, <1>3 DEF Clear, Pose, Torque, Enable, ReadBack, Loop, OnBus, Fault, End
<1>4. ASSUME NEW i \in Job, Write(i) \/ Read(i) \/ Settle(i) \/ Known(i) \/ Keep(i)
      PROVE  ~(pc[j] = "write" /\ pc'[j] = "read")
  BY <1>0, <1>1, <1>4 DEF Write, Read, Settle, StaysPut, ConfirmHold, Known, Keep, OnBus, Fault, End, EndWithStop
<1>5. ASSUME NEW i \in Job, Expire(i) PROVE ~(pc[j] = "write" /\ pc'[j] = "read")
  BY <1>5 DEF Expire
<1>6. ASSUME NEW s \in Stopper, Request(s) PROVE ~(pc[j] = "write" /\ pc'[j] = "read")
  BY <1>0, <1>1, <1>6 DEF Request
<1>7. ASSUME NEW t \in Thread, Acquire(t) \/ Apply(t) \/ Confirm(t) \/ Latch(t) \/ LatchFault(t)
      PROVE  ~(pc[j] = "write" /\ pc'[j] = "read")
  BY <1>1, <1>7 DEF Acquire, Apply, HoldPose, TorqueOff, Confirm, StopFault, Latch, LatchFault, Return
<1> QED
  BY <1>2, <1>3, <1>4, <1>5, <1>6, <1>7 DEF ArmNext, Motion, Stopping

(* When motions do not overlap: one that was under way when a stop was       *)
(* requested writes no setpoint any more, wherever the request found it      *)
(* (SerialArmAdapter._write_under_lock and _stop).                           *)
THEOREM StopEndsTheMove == ASSUME OneMotion PROVE ArmSpec => StoppedMoveWritesNoSetpoint
<1>1. ArmInit => StoppedInv
  BY DEF ArmInit, StoppedInv
<1>2. ArmTypeOK /\ StoppedInv /\ [ArmNext]_armVars => StoppedInv'
  BY OneMotion, StoppedStep
<1>3. ArmTypeOK /\ StoppedInv /\ [ArmNext]_armVars => [\A j \in stopped : ~(pc[j] = "write" /\ pc'[j] = "read")]_armVars
  <2> SUFFICES ASSUME ArmTypeOK, StoppedInv, ArmNext, NEW j \in stopped
               PROVE  ~(pc[j] = "write" /\ pc'[j] = "read")
    OBVIOUS
  <2>1. requested /\ j \in Thread
    BY DEF StoppedInv, ArmTypeOK, Thread
  <2> QED
    BY <2>1, OnlyWriteWrites
<1> QED
  BY <1>1, <1>2, <1>3, ArmTyping, PTL DEF ArmSpec, StoppedMoveWritesNoSetpoint

-----------------------------------------------------------------------------
(* The shortcut keys. *)

Posted  == Event \cup TopicEvent
Ids     == {e.id : e \in Posted}
Pressed == [binding : Bindings, sequence : Nat, session : {e.session : e \in Posted}]

(* The two halves of TypeOK: request threads and control thread, and what    *)
(* the dispatcher and the node remember.                                     *)
ThreadType ==
    /\ pending \in Seq(Caller) /\ Len(pending) <= MaxPending
    /\ at \in [Caller -> {"idle", "wait", "giveup", "told", "timedout"}]
    /\ event \in [Caller -> Event \cup {None}]
    /\ answered \subseteq Caller /\ abandoned \subseteq Caller
    /\ heard \in 0 .. MaxMessages
    /\ ctl \in {"idle", "drain", "handle", "acknowledge", "down"}
    /\ taken \in 0 .. MaxDrain /\ batch \in Seq(Caller) /\ Len(batch) <= taken
    /\ cmd \in {"stop", "move"}

AgeType == age \in 0 .. Deadman + 1 /\ tickAge \in 0 .. Deadman + 1

SeenType == seen \subseteq Ids /\ IsFiniteSet(seen) /\ Cardinality(seen) <= MaxSeen

HeldType ==
    /\ active \in {None} \cup Pressed
    /\ counted \subseteq Ids /\ twice \in BOOLEAN
    /\ mission \in [state : {"none", "running", "ended"}, address : Address \cup {None},
                   binding : Bindings \cup {None}, by : Caller \cup {None}]
    /\ mission.state # "none" => mission.address \in Address
    /\ archived \subseteq Address

(* A caller is queued once, and its event stays with it until it is          *)
(* acknowledged: at[c] never becomes "idle" again.                           *)
Kept(c) == at[c] # "idle" /\ event[c] \in Event

QueueInv ==
    /\ \A i, j \in 1..Len(pending) : pending[i] = pending[j] => i = j
    /\ \A i, j \in 1..Len(batch) : batch[i] = batch[j] => i = j
    /\ \A i \in 1..Len(pending), j \in 1..Len(batch) : pending[i] # batch[j]
    /\ \A i \in 1..Len(pending) : Kept(pending[i])
    /\ \A j \in 1..Len(batch) : Kept(batch[j])
    /\ ctl = "acknowledge" => batch # <<>>

(* A mission runs for the binding that is held; what counted for a binding   *)
(* is no newer than the last that did; a node that is down has its result    *)
(* on file.                                                                  *)
HoldInv ==
    /\ mission.state = "running" => active # None /\ active.binding = mission.binding
    /\ ctl = "down" => mission.state = "none" \/ (mission.state = "ended" /\ mission.address \in archived)

CountInv ==
    /\ ~twice
    /\ active # None => \A e \in Posted : e.id \in counted => e.sequence <= active.sequence

(* An id names one event, however often it is delivered.                     *)
IdsAreUnique == \A e, f \in Posted : e.id = f.id => e.sequence = f.sequence

Inv == ThreadType /\ AgeType /\ SeenType /\ HeldType /\ QueueInv /\ HoldInv

-----------------------------------------------------------------------------
(* The invariant begins.                                                     *)
LEMMA InitInv == Init => Inv /\ CountInv
<1> SUFFICES ASSUME Init PROVE Inv /\ CountInv
  OBVIOUS
<1>1. ThreadType /\ AgeType
  BY ShortcutAssumption DEF Init, ThreadType, AgeType
<1>2. SeenType
  BY ShortcutAssumption, FS_EmptySet DEF Init, SeenType
<1>3. HeldType
  BY DEF Init, HeldType
<1>4. QueueInv
  BY DEF Init, QueueInv
<1>5. HoldInv /\ CountInv
  BY DEF Init, HoldInv, CountInv
<1> QED
  BY <1>1, <1>2, <1>3, <1>4, <1>5 DEF Inv

(* _remember_event() keeps the ids it holds bounded.                         *)
LEMMA RememberKeeps == ASSUME SeenType, NEW e \in Posted, Remember(e) PROVE SeenType'
<1> DEFINE left == IF Cardinality(seen) >= MaxSeen THEN {} ELSE seen
<1>1. IsFiniteSet(left) /\ Cardinality(left) \in Nat /\ Cardinality(left) < MaxSeen /\ left \subseteq Ids
  BY FS_EmptySet, FS_CardinalityType, ShortcutAssumption DEF SeenType
<1>2. IsFiniteSet(left \cup {e.id}) /\ Cardinality(left \cup {e.id}) <= Cardinality(left) + 1
  BY <1>1, FS_AddElement
<1>3. seen' = left \cup {e.id} /\ e.id \in Ids
  BY DEF Remember, Ids
<1>4. Cardinality(left \cup {e.id}) \in Nat
  BY <1>2, FS_CardinalityType
<1>5. Cardinality(left \cup {e.id}) <= MaxSeen
  BY <1>1, <1>2, <1>4, ShortcutAssumption
<1> HIDE DEF left
<1> QED
  BY <1>1, <1>2, <1>3, <1>5 DEF SeenType

(* What becomes of the dispatcher and the mission by one event.              *)
LEMMA HandleKeeps ==
    ASSUME AgeType, SeenType, HeldType, HoldInv, NEW e \in Posted, NEW who \in Caller \cup {None},
           Handle(e, who), ctl # "down", ctl' # "down"
    PROVE  AgeType' /\ SeenType' /\ HeldType' /\ HoldInv'
<1>1. SeenType'
  BY RememberKeeps DEF Handle, SeenType
<1>2. CASE UNCHANGED <<active, age, tickAge, counted, twice, outcome>>
  BY <1>1, <1>2 DEF AgeType, HeldType, HoldInv, outcome
<1>3. CASE StartWorkflow(e, who)
  <2> USE <1>3 DEF StartWorkflow, Begin, Starts
  <2>1. AgeType'
    BY ShortcutAssumption DEF AgeType
  <2>2. active' \in Pressed /\ active' # None /\ e.id \in Ids /\ BindingOf(e) \in Bindings
    BY ShortcutAssumption DEF Pressed, Ids, Posted
  <2> QED
    BY <1>1, <2>1, <2>2 DEF HeldType, HoldInv, Archive
<1>4. CASE Keepalive(e)
  BY <1>1, <1>4, ShortcutAssumption
  DEF Keepalive, Holds, Newer, InSession, AgeType, HeldType, HoldInv, outcome, Pressed, Ids, Posted
<1>5. CASE SafeStop(e)
  BY <1>1, <1>5, ShortcutAssumption DEF SafeStop, Ended, AgeType, HeldType, HoldInv
<1> QED
  BY <1>1, <1>2, <1>3, <1>4, <1>5 DEF Handle

(* A step of a callback that hears an event, or of the control thread that   *)
(* handles one.                                                              *)
Handling == \E e \in Posted, who \in Caller \cup {None} : Handle(e, who)

(* The event the control thread handles next was posted.                    *)
LEMMA HeadOfBatch == ASSUME ThreadType, QueueInv, batch # <<>>
                     PROVE  /\ Head(batch) = batch[1] /\ Head(batch) \in Caller /\ Kept(Head(batch))
                            /\ Tail(batch) \in Seq(Caller) /\ Len(Tail(batch)) = Len(batch) - 1
                            /\ \A i \in 1..Len(Tail(batch)) : Tail(batch)[i] = batch[i + 1]
                            /\ 1 \in 1..Len(batch)
<1>1. Len(batch) \in Nat \ {0} /\ 1 \in 1..Len(batch)
  BY EmptySeq DEF ThreadType
<1> QED
  BY <1>1 DEF ThreadType, QueueInv

(* A step that handles an event handles one that was posted.                 *)
LEMMA HandledIsPosted == ASSUME ThreadType, QueueInv, HandleNext PROVE Handling
<1>1. Kept(Head(batch)) /\ Head(batch) \in Caller
  BY HeadOfBatch DEF HandleNext
<1>2. event[Head(batch)] \in Posted
  BY <1>1 DEF Kept, Posted
<1> QED
  BY <1>1, <1>2 DEF HandleNext, Handling

(* The dispatcher and the mission, after any step.                           *)
LEMMA InputStep == Inv /\ [Next]_vars => AgeType' /\ SeenType' /\ HeldType' /\ HoldInv'
<1> SUFFICES ASSUME Inv, [Next]_vars PROVE AgeType' /\ SeenType' /\ HeldType' /\ HoldInv'
  OBVIOUS
<1> USE DEF Inv
<1>1. ASSUME UNCHANGED <<input, outcome>>, ctl' = "down" => ctl = "down"
      PROVE  AgeType' /\ SeenType' /\ HeldType' /\ HoldInv'
  BY <1>1 DEF input, outcome, AgeType, SeenType, HeldType, HoldInv
<1>2. ASSUME Handling, ctl # "down", ctl' # "down"
      PROVE  AgeType' /\ SeenType' /\ HeldType' /\ HoldInv'
  BY <1>2, HandleKeeps DEF Handling
<1>3. ASSUME NEW c \in Caller, Wait(c) \/ Abandon(c) \/ \E e \in Event : Post(c, e)
      PROVE  AgeType' /\ SeenType' /\ HeldType' /\ HoldInv'
  BY <1>1, <1>3 DEF Wait, Abandon, Post
<1>4. ASSUME NEW e \in TopicEvent, Hear(e) PROVE AgeType' /\ SeenType' /\ HeldType' /\ HoldInv'
  BY <1>2, <1>4 DEF Hear, Handling, Posted
<1>5. CASE Tick
  BY <1>5 DEF Tick, AgeType, SeenType, HeldType, HoldInv, outcome
<1>6. CASE Drain \/ Acknowledge
  BY <1>1, <1>6 DEF Drain, Acknowledge
<1>7. CASE HandleNext
  BY <1>2, <1>7, HandledIsPosted DEF HandleNext
<1>8. CASE Update
  <2> USE <1>8 DEF Update
  <2>1. AgeType' /\ SeenType'
    BY ShortcutAssumption DEF AgeType, SeenType
  <2>2. HeldType'
    BY DEF HeldType, PolledMission, Ended, Archive, outcome
  <2>3. HoldInv'
    BY DEF HoldInv, PolledMission, Expired, Ended, outcome, HeldType
  <2> QED
    BY <2>1, <2>2, <2>3
<1>9. CASE Shutdown
  BY <1>9 DEF Shutdown, input, AgeType, SeenType, HeldType, HoldInv, Ended, Archive
<1>10. CASE Pass
  BY <1>10, ShortcutAssumption DEF Pass, outcome, AgeType, SeenType, HeldType, HoldInv
<1>11. CASE UNCHANGED vars
  BY <1>1, <1>11 DEF vars
<1> QED
  BY <1>3, <1>4, <1>5, <1>6, <1>7, <1>8, <1>9, <1>10, <1>11 DEF Next, Control

(* The threads and the queue, after any step.                                *)
LEMMA ThreadStep == Inv /\ [Next]_vars => ThreadType' /\ QueueInv'
<1> SUFFICES ASSUME ThreadType, QueueInv, [Next]_vars PROVE ThreadType' /\ QueueInv'
  BY DEF Inv
<1>1. ASSUME UNCHANGED <<pending, callers, inbox>>, heard' \in 0 .. MaxMessages, cmd' \in {"stop", "move"},
             ctl' \in {"idle", "drain", "handle", "acknowledge", "down"},
             ctl' = "acknowledge" => batch # <<>>
      PROVE  ThreadType' /\ QueueInv'
  BY <1>1 DEF callers, inbox, ThreadType, QueueInv, Kept
<1>2. ASSUME NEW c \in Caller, Wait(c) PROVE ThreadType' /\ QueueInv'
  BY <1>2 DEF Wait, inbox, input, outcome, ThreadType, QueueInv, Kept
<1>3. ASSUME NEW c \in Caller, Abandon(c) PROVE ThreadType' /\ QueueInv'
  BY <1>3 DEF Abandon, inbox, input, outcome, ThreadType, QueueInv, Kept
<1>4. ASSUME NEW c \in Caller, NEW e \in Event, Post(c, e) PROVE ThreadType' /\ QueueInv'
  <2> USE DEF inbox, input, outcome
  <2>2. /\ \A i \in 1..Len(pending) : pending[i] # c
        /\ \A j \in 1..Len(batch) : batch[j] # c
    BY <1>4 DEF Post, QueueInv, Kept
  <2>3. CASE Len(pending) = MaxPending
    <3>1. UNCHANGED <<pending, event>>
      BY <1>4, <2>3, ShortcutAssumption DEF Post, ThreadType
    <3> QED
      BY <1>4, <3>1 DEF Post, ThreadType, QueueInv, Kept
  <2>4. CASE Len(pending) < MaxPending
    <3>1. /\ pending' = Append(pending, c) /\ at' = [at EXCEPT ![c] = "wait"]
          /\ event' = [event EXCEPT ![c] = e] /\ UNCHANGED <<taken, batch, ctl>>
      BY <1>4, <2>4, ShortcutAssumption DEF Post, ThreadType
    <3>2. /\ pending' \in Seq(Caller) /\ Len(pending') = Len(pending) + 1
          /\ \A i \in 1..Len(pending') : pending'[i] = IF i <= Len(pending) THEN pending[i] ELSE c
          /\ \A i \in 1..Len(pending') : i <= Len(pending) => i \in 1..Len(pending)
      BY <3>1 DEF ThreadType
    <3>3. ThreadType'
      BY <1>4, <2>4, <3>1, <3>2, ShortcutAssumption DEF Post, ThreadType
    <3>4. QueueInv'
      BY <3>1, <3>2, <2>2 DEF ThreadType, QueueInv, Kept
    <3> QED
      BY <3>3, <3>4
  <2> QED
    BY <1>4, <2>3, <2>4, ShortcutAssumption DEF Post, ThreadType
<1>5. ASSUME NEW e \in TopicEvent, Hear(e) PROVE ThreadType' /\ QueueInv'
  BY <1>1, <1>5, ShortcutAssumption DEF Hear, ThreadType
<1>6. CASE Tick \/ HandleNext \/ Shutdown \/ Pass \/ UNCHANGED vars
  BY <1>1, <1>6 DEF Tick, HandleNext, Shutdown, Pass, vars, ThreadType, QueueInv
<1>7. CASE Drain
  <2> USE DEF input, outcome
  <2>1. CASE taken < MaxDrain /\ pending # <<>>
    <3> DEFINE c == Head(pending)
    <3>1. Len(pending) \in Nat \ {0} /\ c = pending[1] /\ c \in Caller /\ 1 \in 1..Len(pending)
      BY <2>1, EmptySeq DEF ThreadType
    <3>2. /\ Tail(pending) \in Seq(Caller) /\ Len(Tail(pending)) = Len(pending) - 1
          /\ \A i \in 1..Len(Tail(pending)) : i + 1 \in 1..Len(pending) /\ Tail(pending)[i] = pending[i + 1]
      BY <3>1 DEF ThreadType
    <3>3. /\ \A i \in 1..Len(Tail(pending)) : Tail(pending)[i] # c
          /\ \A j \in 1..Len(batch) : batch[j] # c
      BY <3>1, <3>2 DEF QueueInv, ThreadType
    <3>a. /\ pending' = Tail(pending) /\ taken' = taken + 1 /\ ctl' = "drain"
          /\ UNCHANGED <<at, answered, heard, cmd>>
          /\ \/ Forget(c) /\ UNCHANGED batch
             \/ batch' = Append(batch, c) /\ UNCHANGED <<event, abandoned>>
      <4>1. ~ (taken = MaxDrain \/ pending = <<>>)
        BY <2>1, ShortcutAssumption DEF ThreadType
      <4> HIDE DEF input, outcome
      <4> QED
        BY <1>7, <4>1 DEF Drain
    <3>4. CASE Forget(c) /\ UNCHANGED batch
      <4>1. /\ event' \in [Caller -> Event \cup {None}] /\ abandoned' \subseteq Caller
            /\ \A d \in Caller : d # c => event'[d] = event[d]
        BY <3>4, <3>1 DEF Forget, ThreadType
      <4>2. ThreadType'
        BY <2>1, <3>a, <3>4, <3>1, <3>2, <4>1, ShortcutAssumption DEF ThreadType
      <4> HIDE DEF c
      <4>3. \A d \in Caller : d # c /\ Kept(d) => Kept(d)'
        BY <3>a, <4>1 DEF Kept
      <4>4. /\ \A i \in 1..Len(Tail(pending)), d \in Caller : d = Tail(pending)[i] => Kept(d)'
            /\ \A i \in 1..Len(batch), d \in Caller : d = batch[i] => Kept(d)'
        BY <3>2, <3>3, <4>3 DEF QueueInv, ThreadType
      <4>5. QueueInv'
        BY <3>a, <3>4, <3>1, <3>2, <4>4 DEF QueueInv, ThreadType, Kept
      <4> QED
        BY <4>2, <4>5
    <3>5. CASE batch' = Append(batch, c) /\ UNCHANGED <<event, abandoned>>
      <4>1. ThreadType'
        BY <2>1, <3>a, <3>5, <3>1, <3>2, ShortcutAssumption DEF ThreadType
      <4>2. /\ Len(batch') = Len(batch) + 1
            /\ \A j \in 1..Len(batch') : batch'[j] = IF j <= Len(batch) THEN batch[j] ELSE c
            /\ \A j \in 1..Len(batch') : j <= Len(batch) => j \in 1..Len(batch)
        BY <3>5, <3>1 DEF ThreadType
      <4> HIDE DEF c
      <4>a. \A i, j \in 1..Len(pending') : pending'[i] = pending'[j] => i = j
        BY <3>a, <3>2 DEF QueueInv, ThreadType
      <4>b. (\A i \in 1..Len(pending) : Kept(pending[i]))'
        BY <3>a, <3>5, <3>2 DEF QueueInv, ThreadType, Kept
      <4>3. /\ \A i, j \in 1..Len(pending') : pending'[i] = pending'[j] => i = j
            /\ (\A i \in 1..Len(pending) : Kept(pending[i]))'
        BY <4>a, <4>b
      <4>4. at'[c] # "idle" /\ event'[c] \in Event
        BY <3>a, <3>5, <3>1 DEF QueueInv, ThreadType, Kept
      <4>5. (\A j \in 1..Len(batch) : Kept(batch[j]))'
        BY <3>a, <3>5, <4>2, <4>4 DEF QueueInv, ThreadType, Kept
      <4>6. \A i, j \in 1..Len(batch') : batch'[i] = batch'[j] => i = j
        BY <3>5, <4>2, <3>1, <3>3 DEF QueueInv, ThreadType
      <4>7. \A i \in 1..Len(pending'), j \in 1..Len(batch') : pending'[i] # batch'[j]
        BY <3>a, <4>2, <3>1, <3>2, <3>3 DEF QueueInv, ThreadType
      <4>8. ctl' # "acknowledge"
        BY <3>a
      <4>9. QueueInv'
        BY <4>3, <4>5, <4>6, <4>7, <4>8 DEF QueueInv
      <4> QED
        BY <4>1, <4>9
    <3> QED
      BY <3>a, <3>4, <3>5
  <2>2. CASE taken = MaxDrain \/ pending = <<>>
    BY <1>7, <1>1, <2>2 DEF Drain, callers, inbox, ThreadType
  <2> QED
    BY <1>7, <2>1, <2>2 DEF Drain
<1>8. CASE Acknowledge
  <2>1. batch # <<>>
    BY <1>8 DEF Acknowledge, QueueInv
  <2>2. Head(batch) \notin {Tail(batch)[i] : i \in 1..Len(Tail(batch))}
    BY <2>1, HeadOfBatch DEF QueueInv, ThreadType
  <2>3. ThreadType'
    BY <1>8, <2>1, HeadOfBatch DEF Acknowledge, Forget, input, outcome, ThreadType
  <2>4. QueueInv'
    BY <1>8, <2>1, <2>2, HeadOfBatch DEF Acknowledge, Forget, input, outcome, ThreadType, QueueInv, Kept
  <2> QED
    BY <2>3, <2>4
<1>9. CASE Update
  BY <1>9, EmptySeq, ShortcutAssumption DEF Update, callers, ThreadType, QueueInv, Kept
<1> QED
  BY <1>2, <1>3, <1>4, <1>5, <1>6, <1>7, <1>8, <1>9 DEF Next, Control

(* Every step keeps the invariant.                                           *)
LEMMA NextInv == Inv /\ [Next]_vars => Inv'
BY ThreadStep, InputStep DEF Inv

-----------------------------------------------------------------------------
(* Every variable stays in its type: the queue, a tick's share of it and     *)
(* the ids remembered are bounded, for any bounds.                           *)
THEOREM ShortcutTyping == Spec => []TypeOK
<1>1. Inv => TypeOK
  BY DEF Inv, TypeOK, ThreadType, AgeType, SeenType, HeldType, Pressed, Posted, Ids
<1> QED
  BY <1>1, InitInv, NextInv, PTL DEF Spec

(* The robot moves only for the binding that is held, whose last input was   *)
(* no older than the dead-man when the tick began.                           *)
THEOREM MotionNeedsItsKey == Spec => MotionIsHeld
<1>1. ASSUME Inv, Update, cmd' = "move"
      PROVE  active' # None /\ active'.binding = mission.binding /\ tickAge <= Deadman
  BY <1>1, ShortcutAssumption
  DEF Update, PolledMission, Ended, Expired, Inv, HoldInv, HeldType, AgeType
<1>2. Inv => [Update /\ cmd' = "move" =>
                active' # None /\ active'.binding = mission.binding /\ tickAge <= Deadman]_vars
  BY <1>1
<1> QED
  BY <1>2, InitInv, NextInv, PTL DEF Spec, MotionIsHeld

(* The sequence of the held binding is the newest that counted.              *)
LEMMA CountStep ==
    ASSUME IdsAreUnique
    PROVE  Inv /\ CountInv /\ [Next]_vars => CountInv'
<1> SUFFICES ASSUME Inv, CountInv, [Next]_vars PROVE CountInv'
  OBVIOUS
<1>1. ASSUME UNCHANGED <<active, counted, twice>> PROVE CountInv'
  BY <1>1 DEF CountInv
<1>2. ASSUME NEW e \in Posted, NEW who \in Caller \cup {None}, Handle(e, who)
      PROVE  CountInv'
  <2>1. e.sequence \in Nat
    BY ShortcutAssumption DEF Posted
  <2>2. CASE StartWorkflow(e, who)
    BY <2>1, <2>2, IdsAreUnique DEF IdsAreUnique, StartWorkflow, Begin, CountInv
  <2>3. CASE Keepalive(e)
    <3>1. active # None /\ active \in Pressed /\ e.sequence > active.sequence /\ active.sequence \in Nat
      BY <2>3 DEF Keepalive, Holds, Newer, InSession, Inv, HeldType, Pressed
    <3>2. \A f \in Posted : f.sequence \in Nat
      BY ShortcutAssumption DEF Posted
    <3>3. e.id \notin counted
      BY <3>1, <2>1, <3>2 DEF CountInv
    <3>4. active'.sequence = e.sequence
      BY <2>3, <3>1 DEF Keepalive, Pressed
    <3>5. ~twice'
      BY <2>3, <3>3 DEF Keepalive, CountInv
    <3>6. \A f \in Posted : f.id \in counted' => f.sequence <= active'.sequence
      BY <2>1, <2>3, <3>1, <3>2, <3>4, IdsAreUnique DEF IdsAreUnique, Keepalive, CountInv
    <3> QED
      BY <3>5, <3>6 DEF CountInv
  <2>4. CASE SafeStop(e)
    BY <2>4 DEF SafeStop, CountInv
  <2> QED
    BY <1>1, <1>2, <2>2, <2>3, <2>4 DEF Handle
<1>3. ASSUME NEW c \in Caller, Wait(c) \/ Abandon(c) \/ \E e \in Event : Post(c, e)
      PROVE  CountInv'
  BY <1>1, <1>3 DEF Wait, Abandon, Post, input
<1>4. ASSUME NEW e \in TopicEvent, Hear(e) PROVE CountInv'
  BY <1>2, <1>4 DEF Hear, Posted
<1>5. CASE HandleNext
  BY <1>2, <1>5, HandledIsPosted DEF Handling, Inv
<1>6. CASE Tick \/ Drain \/ Acknowledge \/ Shutdown \/ Pass \/ UNCHANGED vars
  BY <1>1, <1>6 DEF Tick, Drain, Acknowledge, Shutdown, Pass, vars, input
<1>7. CASE Update
  BY <1>7 DEF Update, CountInv
<1> QED
  BY <1>3, <1>4, <1>5, <1>6, <1>7 DEF Next, Control

(* A heartbeat delivered twice extends the dead-man once, also after its id  *)
(* was forgotten, as long as an id names one event.                          *)
THEOREM RepeatedHeartbeatIsOld == ASSUME IdsAreUnique PROVE Spec => []HeartbeatCountsOnce
<1>1. CountInv => HeartbeatCountsOnce
  BY DEF CountInv, HeartbeatCountsOnce
<1>2. Inv /\ CountInv /\ [Next]_vars => CountInv'
  BY IdsAreUnique, CountStep
<1> QED
  BY <1>1, <1>2, InitInv, NextInv, PTL DEF Spec

(* The result of a mission is on file when another takes its place and when  *)
(* the node is down (the safety half of MissionIsAccountedFor).              *)
THEOREM ResultsAreKept == Spec => ResultOutlivesMission
<1> DEFINE Leaves == mission.state # "none" /\ (mission'.address # mission.address \/ ctl' = "down")
<1>1. ASSUME Inv, Next, Leaves PROVE mission.address \in archived'
  <2> USE DEF Inv
  <2>1. ASSUME NEW e \in Posted, NEW who \in Caller \cup {None}, Handle(e, who), ctl' # "down"
        PROVE  mission.address \in archived'
    <3>1. CASE StartWorkflow(e, who)
      BY <1>1, <3>1 DEF StartWorkflow, Begin, Starts, Archive, HoldInv, HeldType
    <3> QED
      BY <1>1, <2>1, <3>1 DEF Handle, Keepalive, SafeStop, Ended, outcome, HeldType
  <2>2. ASSUME NEW e \in TopicEvent, Hear(e) PROVE mission.address \in archived'
    BY <2>1, <2>2 DEF Hear, Posted
  <2>3. CASE HandleNext
    <3>1. PICK e \in Posted, who \in Caller \cup {None} : Handle(e, who)
      BY <1>1, <2>3, HandledIsPosted DEF Handling
    <3> QED
      BY <2>1, <2>3, <3>1 DEF HandleNext
  <2>4. ASSUME UNCHANGED outcome, ctl' = "down" => ctl = "down" PROVE mission.address \in archived'
    BY <1>1, <2>4 DEF outcome, HoldInv
  <2>5. ASSUME NEW c \in Caller, Wait(c) \/ Abandon(c) \/ \E e \in Event : Post(c, e)
        PROVE  mission.address \in archived'
    BY <2>4, <2>5 DEF Wait, Abandon, Post
  <2>6. CASE Tick \/ Drain \/ Acknowledge \/ Pass
    BY <2>4, <2>6 DEF Tick, Drain, Acknowledge, Pass
  <2>7. CASE Update
    BY <1>1, <2>7 DEF Update, PolledMission, Ended, outcome, HeldType
  <2>8. CASE Shutdown
    BY <1>1, <2>8 DEF Shutdown, Ended, Archive, HeldType
  <2> QED
    BY <1>1, <2>2, <2>3, <2>5, <2>6, <2>7, <2>8 DEF Next, Control
<1>2. Inv /\ [Next]_vars => [Leaves => mission.address \in archived']_vars
  BY <1>1
<1> QED
  BY <1>2, InitInv, NextInv, PTL DEF Spec, ResultOutlivesMission
===============================================================================
