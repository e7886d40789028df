----------------------------- MODULE ArmAdapter -----------------------------
(***************************************************************************)
(* A serial-bus arm: SerialArmAdapter of arm_adapter.py.                   *)
(*                                                                         *)
(* A Job is a host thread that calls invoke() again and again, for a move, *)
(* a grasp, a release or a state read; a Stopper is a thread that calls    *)
(* safe_stop() (or cancel(), which is the same) once. They share the bus   *)
(* behind one lock, the stop event, the kept results and two latches. The  *)
(* lock is held for one bus access by a motion and for the whole           *)
(* confirmation by a stop; the latches are read and written outside it.    *)
(*                                                                         *)
(* Poses are abstracted away: what a read finds is nondeterministic. Joint *)
(* limits that are not accepted, which refuse every motion, are left out.  *)
(***************************************************************************)
EXTENDS FiniteSets

CONSTANTS
    Job, Stopper,   \* threads
    Call,           \* call ids
    Nobody          \* nobody holds the lock; no call is made

Thread == Job \cup Stopper

ASSUME ArmAssumption ==
    /\ Job \cap Stopper = {} /\ Nobody \notin Thread \cup Call

VARIABLES
    mode,           \* profile.stop_mode: "hold" or "torque_off"
    lock,           \* who holds _lock
    torque,         \* torque is enabled
    requested,      \* _stop_requested
    kept,           \* the calls in _kept
    unknown,        \* _state_unknown
    unconfirmed,    \* _stop_unconfirmed
    pc,             \* pc[t]: place of thread t
    call, kind,     \* call[j]: the call j makes, and what it asks for
    out,            \* out[j]: how the call of j ended
    late,           \* late[j]: the deadline of j's motion has passed
    ok,             \* ok[t]: the stop of t was confirmed
    stopped,        \* history: jobs in motion when a stop was requested
    last,           \* history: the last stop to leave the bus was confirmed
    lost,           \* history: the bus failed after the last complete state read
    raced           \* history: the bus failed, or a stop left it, when another
                    \* thread was about to write a latch

bus     == <<lock, torque>>
req     == <<call, kind>>
latches == <<unknown, unconfirmed>>
hist    == <<stopped, last, lost, raced>>
armVars == <<mode, lock, torque, requested, kept, unknown, unconfirmed, pc, call, kind,
             out, late, ok, stopped, last, lost, raced>>

MotionKind == {"move", "grasp"}   \* a release ends in the ways a move does
Free == lock = Nobody
InMotion == {"pose", "torque", "enable", "readback", "loop", "write", "read", "settle"}
Latching == {t \in Thread : pc[t] \in {"known", "latch", "fault"}}

Go(t, from, to) == pc[t] = from /\ pc' = [pc EXCEPT ![t] = to]
End(j, from, o) == Go(j, from, "keep") /\ out' = [out EXCEPT ![j] = o]

-----------------------------------------------------------------------------
ArmInit ==
    /\ mode \in {"hold", "torque_off"}
    /\ lock = Nobody /\ torque \in BOOLEAN
    /\ requested = FALSE
    /\ kept = {}
    /\ unknown = FALSE /\ unconfirmed = FALSE
    /\ pc = [t \in Thread |-> "idle"]
    /\ call = [j \in Job |-> Nobody] /\ kind = [j \in Job |-> "none"]
    /\ out = [j \in Job |-> "none"]
    /\ late = [j \in Job |-> FALSE] /\ ok = [t \in Thread |-> FALSE]
    /\ stopped = {} /\ last = TRUE /\ lost = FALSE /\ raced = FALSE

-----------------------------------------------------------------------------
(* invoke(), on job j.                                                      *)

Ask(j, c, k) == call' = [call EXCEPT ![j] = c] /\ kind' = [kind EXCEPT ![j] = k]

\* A call that was kept gets its first result and changes nothing, nor does a
\* motion _motion_refusal() refuses for a latch.
Start(j, c, k) ==
    /\ c \notin kept /\ ~unconfirmed /\ ~unknown
    /\ Go(j, "idle", "clear") /\ Ask(j, c, k)
    /\ UNCHANGED <<mode, bus, requested, kept, latches, out, late, ok, hist>>

\* _run_guarded()
Clear(j) ==
    /\ Go(j, "clear", "pose")
    /\ requested' = FALSE
    /\ UNCHANGED <<mode, bus, kept, latches, req, out, late, ok, hist>>

\* Mutant: a fault in a motion is only reported.
FaultReported(j, from) ==
    /\ End(j, from, "failed")
    /\ lost' = TRUE
    /\ raced' = (raced \/ \E t \in Job : pc[t] = "known")
    /\ UNCHANGED <<mode, lock, requested, kept, latches, req, late, ok, stopped, last>>

\* The except clauses of _run_guarded(): a bus fault, or a joint that reports
\* nothing.
Fault(j, from) ==
    /\ End(j, from, "failed")
    /\ unknown' = TRUE
    /\ lost' = TRUE
    /\ raced' = (raced \/ \E t \in Job : pc[t] = "known")
    /\ UNCHANGED <<mode, lock, requested, kept, unconfirmed, req, late, ok, stopped, last>>

\* A step of the motion that needs the bus and leaves everything else alone.
OnBus(j, from, to) ==
    /\ Free /\ Go(j, from, to)
    /\ UNCHANGED <<mode, lock, requested, kept, latches, req, out, late, ok, hist>>

\* _start_pose(): outside the limits, or for a grasp not open, is a refusal.
Pose(j) ==
    \/ OnBus(j, "pose", "torque") /\ UNCHANGED torque
    \/ /\ Free /\ End(j, "pose", "refused")
       /\ UNCHANGED <<mode, bus, requested, kept, latches, req, late, ok, hist>>
    \/ Free /\ Fault(j, "pose") /\ UNCHANGED torque

\* _enable_torque(): torque is read ...
Torque(j) ==
    \/ OnBus(j, "torque", IF torque THEN "loop" ELSE "enable") /\ UNCHANGED torque
    \/ Free /\ Fault(j, "torque") /\ UNCHANGED torque

\* ... enabled, holding the measured pose (the bus may not obey) ...
Enable(j) ==
    \/ OnBus(j, "enable", "readback") /\ torque' \in {torque, TRUE}
    \/ Free /\ Fault(j, "enable") /\ torque' \in {torque, TRUE}

\* ... and read back.
ReadBack(j) ==
    \/ torque /\ OnBus(j, "readback", "loop") /\ UNCHANGED torque
    \/ /\ ~torque /\ Free /\ End(j, "readback", "failed")
       /\ UNCHANGED <<mode, bus, requested, kept, latches, req, late, ok, hist>>
    \/ Free /\ Fault(j, "readback") /\ UNCHANGED torque

\* Mutant: the motion has no deadline.
LoopForever(j) ==
    /\ \/ requested /\ End(j, "loop", "cancelled")
       \/ ~requested /\ Go(j, "loop", "write") /\ UNCHANGED out
    /\ UNCHANGED <<mode, bus, requested, kept, latches, req, late, ok, hist>>

\* _run_move(), _run_grip(): stopped, out of time, or one more setpoint.
Loop(j) ==
    /\ \/ requested /\ End(j, "loop", "cancelled")
       \/ /\ ~requested /\ late[j]
          /\ Go(j, "loop", "lock") /\ out' = [out EXCEPT ![j] = "timeout"]
       \/ ~requested /\ ~late[j] /\ Go(j, "loop", "write") /\ UNCHANGED out
    /\ UNCHANGED <<mode, bus, requested, kept, latches, req, late, ok, hist>>

\* Mutant: the event is not looked at again under the lock.
WriteUnchecked(j) ==
    \/ OnBus(j, "write", "read") /\ UNCHANGED torque
    \/ Free /\ Fault(j, "write") /\ UNCHANGED torque

\* The stop event is looked at again under the lock.
Write(j) ==
    \/ requested /\ OnBus(j, "write", "loop") /\ UNCHANGED torque
    \/ ~requested /\ OnBus(j, "write", "read") /\ UNCHANGED torque
    \/ ~requested /\ Free /\ Fault(j, "write") /\ UNCHANGED torque

\* A motion ends with a stop of its own.
EndWithStop(j, from, o) == Go(j, from, "lock") /\ out' = [out EXCEPT ![j] = o]

\* The pose after a period: on its way, arrived, stalled; a grasp may have
\* closed on nothing, which ends it without a stop.
Read(j) ==
    \/ \E to \in {"loop", "settle"} : OnBus(j, "read", to) /\ UNCHANGED torque
    \/ /\ Free
       /\ \/ EndWithStop(j, "read", "failed")
          \/ kind[j] = "grasp" /\ End(j, "read", "failed")
       /\ UNCHANGED <<mode, bus, requested, kept, latches, req, late, ok, hist>>
    \/ Free /\ Fault(j, "read") /\ UNCHANGED torque

\* _confirm_open() of a release, like a move: where it arrived, or not.
StaysPut(j) == kind[j] # "grasp" /\ \E o \in {"completed", "failed"} : End(j, "settle", o)

\* _confirm_hold(): an object that slips is followed by a stop.
ConfirmHold(j) ==
    kind[j] = "grasp" /\ (End(j, "settle", "completed") \/ EndWithStop(j, "settle", "failed"))

\* _settle(): what is read after the arrival decides.
Settle(j) ==
    \/ /\ Free
       /\ StaysPut(j) \/ ConfirmHold(j)
       /\ UNCHANGED <<mode, bus, requested, kept, latches, req, late, ok, hist>>
    \/ Free /\ Fault(j, "settle") /\ UNCHANGED torque

\* read_state(): a bus error latches; a joint that reports nothing does not.
ReadState(j, c) ==
    /\ Free /\ c \notin kept /\ Ask(j, c, "state")
    /\ \/ /\ Go(j, "idle", "known") /\ lost' = FALSE /\ UNCHANGED <<out, unknown, raced>>
       \/ /\ End(j, "idle", "failed") /\ unknown' = TRUE /\ lost' = TRUE
          /\ raced' = (raced \/ \E t \in Job : pc[t] = "known")
       \/ /\ End(j, "idle", "failed") /\ UNCHANGED <<lost, unknown, raced>>
    /\ UNCHANGED <<mode, bus, requested, kept, unconfirmed, late, ok, stopped, last>>

\* A complete read makes the state known again, after the lock was released.
Known(j) ==
    /\ End(j, "known", "completed")
    /\ unknown' = FALSE
    /\ UNCHANGED <<mode, bus, requested, kept, unconfirmed, req, late, ok, hist>>

\* The rest of invoke(): what was not refused is kept under its call id.
Keep(j) ==
    /\ Go(j, "keep", "idle")
    /\ kept' = IF out[j] = "refused" THEN kept ELSE kept \cup {call[j]}
    /\ stopped' = stopped \ {j}
    /\ late' = [late EXCEPT ![j] = FALSE] /\ Ask(j, Nobody, "none")
    /\ out' = [out EXCEPT ![j] = "none"]
    /\ UNCHANGED <<mode, bus, requested, latches, ok, last, lost, raced>>

-----------------------------------------------------------------------------
(* safe_stop() on a stopper, and _stop() on any thread.                     *)

Request(s) ==
    /\ Go(s, "idle", "lock")
    /\ requested' = TRUE
    /\ stopped' = stopped \cup {j \in Job : pc[j] \in InMotion}
    /\ UNCHANGED <<mode, bus, kept, latches, req, out, late, ok, last, lost, raced>>

Acquire(t) ==
    /\ Free /\ Go(t, "lock", "apply")
    /\ lock' = t
    /\ UNCHANGED <<mode, torque, requested, kept, latches, req, out, late, ok, hist>>

\* Mutant: an exception leaves the lock held.
StopFaultHolds(t, from) ==
    /\ Go(t, from, "fault")
    /\ UNCHANGED lock
    /\ last' = FALSE /\ lost' = TRUE
    /\ raced' = (raced \/ Latching # {})
    /\ UNCHANGED <<mode, requested, kept, latches, req, out, late, ok, stopped>>

\* The bus fails: the lock is released, and the latches are about to be set.
StopFault(t, from) ==
    /\ Go(t, from, "fault")
    /\ lock' = Nobody
    /\ last' = FALSE /\ lost' = TRUE
    /\ raced' = (raced \/ Latching # {})
    /\ UNCHANGED <<mode, requested, kept, latches, req, out, late, ok, stopped>>

\* _torque_off() lets the arm go; the bus may not obey.
TorqueOff == mode = "torque_off" /\ torque' \in {torque, FALSE}

\* _hold() writes the measured pose and drives it.
HoldPose == mode = "hold" /\ torque' \in {torque, TRUE}

Apply(t) ==
    \/ /\ Go(t, "apply", "confirm") /\ (HoldPose \/ TorqueOff)
       /\ UNCHANGED <<mode, lock, requested, kept, latches, req, out, late, ok, hist>>
    \/ StopFault(t, "apply") /\ (HoldPose \/ TorqueOff)

\* Read back: torque as it should be and, in hold mode, no drift.
Confirm(t) ==
    \/ /\ Go(t, "confirm", "latch")
       /\ lock' = Nobody
       /\ \E drift \in BOOLEAN :
             ok' = [ok EXCEPT ![t] = IF mode = "hold" THEN torque /\ ~drift ELSE ~torque]
       /\ last' = ok'[t]
       /\ raced' = (raced \/ Latching # {})
       /\ UNCHANGED <<mode, torque, requested, kept, latches, req, out, late, stopped, lost>>
    \/ StopFault(t, "confirm") /\ UNCHANGED torque

\* A stopper returns what it latched; a motion, the outcome it ended with.
Return(t, from) == Go(t, from, IF t \in Stopper THEN "done" ELSE "keep")

Latch(t) ==
    /\ Return(t, "latch")
    /\ unconfirmed' = ~ok[t]
    /\ ok' = [ok EXCEPT ![t] = FALSE]
    /\ UNCHANGED <<mode, bus, requested, kept, unknown, req, out, late, stopped, last,
                   lost, raced>>

\* Mutant: a stop the bus failed in does not latch.
LatchFaultKnown(t) ==
    /\ Return(t, "fault")
    /\ unknown' = TRUE
    /\ UNCHANGED <<mode, bus, requested, kept, unconfirmed, req, out, late, ok, hist>>

LatchFault(t) ==
    /\ Return(t, "fault")
    /\ unconfirmed' = TRUE /\ unknown' = TRUE
    /\ UNCHANGED <<mode, bus, requested, kept, req, out, late, ok, hist>>

-----------------------------------------------------------------------------
\* move_deadline_s passes, counted from the motion's first look at the clock.
Expire(j) ==
    /\ pc[j] \in {"loop", "write", "read", "settle"} /\ ~late[j]
    /\ late' = [late EXCEPT ![j] = TRUE]
    /\ UNCHANGED <<mode, bus, requested, kept, latches, pc, req, out, ok, hist>>

Motion(j) ==
    \/ Clear(j) \/ Pose(j) \/ Torque(j) \/ Enable(j) \/ ReadBack(j) \/ Loop(j) \/ Write(j)
    \/ Read(j) \/ Settle(j) \/ Known(j) \/ Keep(j)

\* _stop()
Stopping(t) == Acquire(t) \/ Apply(t) \/ Confirm(t) \/ Latch(t) \/ LatchFault(t)

ArmNext ==
    \/ \E j \in Job, c \in Call : ReadState(j, c) \/ \E k \in MotionKind : Start(j, c, k)
    \/ \E j \in Job : Motion(j) \/ Expire(j)
    \/ \E s \in Stopper : Request(s)
    \/ \E t \in Thread : Stopping(t)

ArmSpec == ArmInit /\ [][ArmNext]_armVars

-----------------------------------------------------------------------------
Kind    == MotionKind \cup {"state", "none"}
Outcome == {"completed", "failed", "cancelled", "timeout"}

\* Every variable stays in its type, and the lock is a stop's as long as the
\* stop is on the bus.
ArmTypeOK ==
    /\ mode \in {"hold", "torque_off"} /\ lock \in Thread \cup {Nobody}
    /\ \A t \in Thread : lock = t <=> pc[t] \in {"apply", "confirm"}
    /\ torque \in BOOLEAN /\ requested \in BOOLEAN
    /\ kept \subseteq Call
    /\ unknown \in BOOLEAN /\ unconfirmed \in BOOLEAN
    /\ pc \in [Thread -> InMotion \cup {"idle", "clear", "known", "keep", "lock", "apply",
                                        "confirm", "latch", "fault", "done"}]
    /\ call \in [Job -> Call \cup {Nobody}] /\ kind \in [Job -> Kind]
    /\ out \in [Job -> Outcome \cup {"none", "refused"}]
    /\ late \in [Job -> BOOLEAN] /\ ok \in [Thread -> BOOLEAN]
    /\ stopped \subseteq Job
    /\ last \in BOOLEAN /\ lost \in BOOLEAN /\ raced \in BOOLEAN

\* "A stop interrupts a running move": a motion under way when a stop is
\* requested writes no setpoint any more, not even before the stop has the bus.
StoppedMoveWritesNoSetpoint ==
    [][\A j \in stopped : ~(pc[j] = "write" /\ pc'[j] = "read")]_armVars

\* "a stop that cannot be confirmed latches": once every stop has written what
\* it found, the latch is what the last one on the bus found. The latch is
\* written outside the lock, so two stops may cross.
LatchTellsLastStop == ~raced /\ Latching = {} => unconfirmed = ~last

\* "refuses further moves until a state read succeeds": after a fault on the
\* bus the state is unknown until it was read again.
LostStateIsUnknown == ~raced /\ Latching = {} /\ lost => unknown

\* Both latches tell how the last stop and the last access of the bus went.
LatchesTellTheTruth == LatchTellsLastStop /\ LostStateIsUnknown

\* A motion ends, whatever the bus and the stops do: by its deadline.
MotionEnds == \A j \in Job : pc[j] \in InMotion ~> pc[j] = "idle"
=============================================================================
