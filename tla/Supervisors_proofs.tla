-------------------------- MODULE Supervisors_proofs --------------------------
(***************************************************************************)
(* Theorems about the watchers of things that may fail: SshTunnel, for any   *)
(* children and operators, and whether or not close() gives up on a slow     *)
(* attempt; SafetySupervisor, for any timeout and clock, with or without     *)
(* resets; ForwardHolders, for any finite number of adapters and any number  *)
(* of forwards; and BridgeGuard, for any number of markers and signals.      *)
(***************************************************************************)
EXTENDS SshTunnel, SafetySupervisor, ForwardHolders, BridgeGuard, FiniteSetTheorems, TLAPS

(* The types of every state are inductive as they stand: initially, ...      *)
LEMMA TypeInit == Init => TypeOK
<1> SUFFICES ASSUME Init PROVE TypeOK
  OBVIOUS
<1>1. ssh \in [Ssh -> [at : {"free", "running", "exited"}, read : BOOLEAN, woke : BOOLEAN]]
  BY DEF Init, Free
<1>2. /\ opc \in [Operator -> {"idle", "flag", "wake", "await", "done"}]
      /\ answer \in [Operator -> {"none", "connected", "down"}]
  BY DEF Init
<1> QED
  BY <1>1, <1>2 DEF Init, TypeOK, Fate

(* What a stop of a child leaves of the children.                            *)
LEMMA StoppedType ==
  ASSUME TypeOK, NEW p \in Ssh \cup {NoSsh}
  PROVE  /\ Stopped(p) \in [Ssh -> [at : {"free", "running", "exited"}, read : BOOLEAN, woke : BOOLEAN]]
         /\ \A q \in Ssh : Stopped(p)[q].at = "running" <=> q \in Running /\ q # p
BY DEF TypeOK, Stopped, Running

(* ... and after every step of the supervisor, a child, an operator and the  *)
(* closer.                                                                   *)
LEMMA TypeStep == TypeOK /\ [Next]_vars => TypeOK'
<1> SUFFICES ASSUME TypeOK, [Next]_vars PROVE TypeOK'
  OBVIOUS
<1>1. CASE Top \/ Clear \/ Ready \/ Poll \/ Up \/ Follow \/ Sleep \/ After \/ Decide \/ Backoff
  <2>1. UNCHANGED <<stop, process, ssh, threads, cpc>> /\ child' \in Ssh \cup {NoSsh}
    BY <1>1 DEF TypeOK, Top, Clear, Ready, Poll, Up, Follow, Sleep, After, Decide, Backoff,
       threads
  <2>2. pc' \in {"top", "clear", "resolve", "spawn", "ready", "probe", "poll", "up", "follow",
               "sleep", "kill", "exited", "after", "decide", "backoff", "last", "ended"}
    BY <1>1 DEF TypeOK, Top, Clear, Ready, Poll, Up, Follow, Sleep, After, Decide, Backoff, Go
  <2>3. refresh' \in BOOLEAN /\ wake' \in BOOLEAN
    BY <1>1 DEF TypeOK, Top, Clear, Ready, Poll, Up, Follow, Sleep, After, Decide, Backoff
  <2>4. state' \in {"reconnecting", "connected", "failed", "stopped"} /\ last' \in Fate
    BY <1>1 DEF TypeOK, Fate, Top, Clear, Ready, Poll, Up, Follow, Sleep, After, Decide, Backoff
  <2> QED
    BY <2>1, <2>2, <2>3, <2>4 DEF TypeOK, threads
<1>2. CASE Resolve \/ Exited
  BY <1>2 DEF TypeOK, Fate, Resolve, Exited, Go, threads
<1>3. CASE Probe
  BY <1>3, StoppedType DEF TypeOK, Fate, Probe, Go, threads
<1>4. CASE Kill \/ Last
  BY <1>4, StoppedType DEF TypeOK, Kill, Last, Go, threads
<1>5. ASSUME NEW p \in Ssh, Spawn(p) PROVE TypeOK'
  BY <1>5 DEF TypeOK, Spawn, Free, Go, threads
<1>6. ASSUME NEW p \in Ssh, Exit(p) \/ Watch(p) PROVE TypeOK'
  <2>1. ssh' \in [Ssh -> [at : {"free", "running", "exited"}, read : BOOLEAN, woke : BOOLEAN]]
    <3>1. CASE Exit(p)
      BY <3>1 DEF TypeOK, Exit
    <3>2. CASE Read(p) \/ OnExit(p)
      BY <3>2 DEF TypeOK, Read, OnExit
    <3>3. CASE Collect(p)
      BY <3>3 DEF TypeOK, Collect, Free
    <3> QED
      BY <1>6, <3>1, <3>2, <3>3 DEF Watch
  <2>2. wake' \in BOOLEAN
    BY <1>6 DEF TypeOK, Exit, Watch, Read, OnExit, Collect
  <2> QED
    BY <1>6, <2>1, <2>2 DEF TypeOK, Exit, Watch, Read, OnExit, Collect, threads
<1>7. ASSUME NEW o \in Operator, Reset(o) \/ Operate(o) PROVE TypeOK'
  <2>1. opc' \in [Operator -> {"idle", "flag", "wake", "await", "done"}]
    BY <1>7 DEF TypeOK, Reset, Operate, Flag, Wake, Await, OGo
  <2>2. answer' \in [Operator -> {"none", "connected", "down"}]
    BY <1>7 DEF TypeOK, Reset, Operate, Flag, Wake, Await
  <2>3. refresh' \in BOOLEAN /\ wake' \in BOOLEAN
    BY <1>7 DEF TypeOK, Reset, Operate, Flag, Wake, Await
  <2>4. state' \in {"reconnecting", "connected", "failed", "stopped"}
    BY <1>7 DEF TypeOK, Reset, Operate, Flag, Wake, Await
  <2> QED
    BY <1>7, <2>1, <2>2, <2>3, <2>4 DEF TypeOK, Reset, Operate, Flag, Wake, Await
<1>8. CASE CloseStops \/ CloseWakes \/ CloseJoins \/ CloseSets
  <2>1. cpc' \in {"idle", "wake", "join", "take", "set", "done"} /\ stop' \in BOOLEAN /\ wake' \in BOOLEAN
    BY <1>8 DEF TypeOK, CloseStops, CloseWakes, CloseJoins, CloseSets, CGo
  <2>2. state' \in {"reconnecting", "connected", "failed", "stopped"}
    BY <1>8 DEF TypeOK, CloseStops, CloseWakes, CloseJoins, CloseSets
  <2> QED
    BY <1>8, <2>1, <2>2 DEF TypeOK, CloseStops, CloseWakes, CloseJoins, CloseSets, threads
<1>9. CASE CloseTakes
  BY <1>9, StoppedType DEF TypeOK, CloseTakes, CGo, threads
<1>10. CASE UNCHANGED vars
  BY <1>10 DEF TypeOK, vars, threads
<1> QED
  BY <1>1, <1>2, <1>3, <1>4, <1>5, <1>6, <1>7, <1>8, <1>9, <1>10 DEF Next, Supervise, Close

(* Every reachable state is in its type.                                     *)
THEOREM Typing == Init /\ [][Next]_vars => []TypeOK
  BY TypeInit, TypeStep, PTL

-----------------------------------------------------------------------------
(* The process that anybody may stop is the child of this attempt, and it is *)
(* the only one that runs; between attempts there is none, nor after an exit *)
(* that the supervisor has seen.                                             *)
OwnerInv ==
    /\ Running \subseteq {process} /\ process \in {child, NoSsh}
    /\ pc \in {"top", "clear", "resolve", "spawn", "after", "decide", "backoff", "last", "ended"} =>
          process = NoSsh
    /\ pc = "exited" => Running = {}

(* Every step keeps the one child with its owner.                            *)
LEMMA OwnerStep == TypeOK /\ OwnerInv /\ [Next]_vars => OwnerInv'
<1> SUFFICES ASSUME TypeOK, OwnerInv, [Next]_vars PROVE OwnerInv'
  OBVIOUS
<1> USE TunnelAssumption
<1>1. CASE Top \/ Clear \/ Poll \/ Up \/ Sleep \/ Decide \/ Backoff
  BY <1>1 DEF OwnerInv, Running, Top, Clear, Poll, Up, Sleep, Decide, Backoff, Go
<1>2. CASE Ready \/ Follow
  BY <1>2 DEF OwnerInv, Running, Alive, Ready, Follow, TypeOK
<1>3. CASE Resolve \/ Exited
  BY <1>3 DEF OwnerInv, Running, Resolve, Exited, Go
<1>4. CASE After
  BY <1>4 DEF OwnerInv, Running, After, Go
<1>5. CASE Probe
  BY <1>5, StoppedType DEF OwnerInv, Running, Probe, Go, TypeOK
<1>6. CASE Kill \/ Last
  BY <1>6, StoppedType DEF OwnerInv, Running, Kill, Last, Go, TypeOK
<1>7. ASSUME NEW p \in Ssh, Spawn(p) PROVE OwnerInv'
  BY <1>7 DEF OwnerInv, Running, Spawn, Free, Go, TypeOK
<1>8. ASSUME NEW p \in Ssh, Exit(p) \/ Watch(p) PROVE OwnerInv'
  BY <1>8 DEF OwnerInv, Running, Alive, Exit, Watch, Read, OnExit, Collect, Free, TypeOK
<1>9. ASSUME NEW o \in Operator, Reset(o) \/ Operate(o) PROVE OwnerInv'
  BY <1>9 DEF OwnerInv, Running, Reset, Operate, Flag, Wake, Await
<1>10. CASE CloseStops \/ CloseWakes \/ CloseJoins \/ CloseSets
  BY <1>10 DEF OwnerInv, Running, CloseStops, CloseWakes, CloseJoins, CloseSets, CGo
<1>11. CASE CloseTakes
  BY <1>11, StoppedType DEF OwnerInv, Running, CloseTakes, CGo, TypeOK
<1>12. CASE UNCHANGED vars
  BY <1>12 DEF OwnerInv, Running, vars
<1> QED
  BY <1>1, <1>2, <1>3, <1>4, <1>5, <1>6, <1>7, <1>8, <1>9, <1>10, <1>11, <1>12
  DEF Next, Supervise, Close

(* However attempts, refreshes, exits and close() interleave, also when      *)
(* close() gives up waiting for a slow attempt: no ssh runs but the child of *)
(* the attempt under way, so two never fight for the ports; and when close() *)
(* and the supervisor are through, none is left (ManagedTunnel._run, close). *)
THEOREM SshIsNeverOrphaned == Init /\ [][Next]_vars => []SshIsOwned
<1>1. Init => TypeOK /\ OwnerInv
  BY TypeInit DEF Init, OwnerInv, Running, Free
<1>2. (TypeOK /\ OwnerInv) /\ [Next]_vars => (TypeOK /\ OwnerInv)'
  BY TypeStep, OwnerStep
<1>3. TypeOK /\ OwnerInv => SshIsOwned
  BY TunnelAssumption DEF OwnerInv, SshIsOwned, OneForward, NoSshAfterClose, Running
<1> QED
  BY <1>1, <1>2, <1>3, PTL

-----------------------------------------------------------------------------
(* The topics of the emergency supervisor.                                   *)
SafetySpec == SafetyInit /\ [][SafetyNext]_safetyVars

(* Where a thread of the supervisor is in its callback or its poll.          *)
Place == {"idle", "gated", "disarm", "tell", "evaluate", "check", "latch", "reason", "state", "hold"}

(* What the argument needs of the types. A thread that latches has a reason, *)
(* and was_latched is a local of the callback or the poll that read it.      *)
LatchType ==
    /\ latched \in Reason \cup {NoReason} /\ raced \in BOOLEAN /\ toldState \in BOOLEAN
    /\ at \in [Thread -> Place] /\ was \in [Thread -> BOOLEAN]
    /\ because \in [Thread -> Reason \cup {NoReason}]
    /\ \A t \in Thread : at[t] = "latch" => because[t] # NoReason
    /\ \A t \in Thread : at[t] = "idle" => ~was[t]

(* A thread that latched first goes on to publish the reason and the state.  *)
Names(t) == at[t] = "reason" \/ (at[t] = "latch" /\ ~was[t])
Tells(t) == at[t] = "state" \/ Names(t)

(* While no reset raced a poll: what was latched when a thread began still   *)
(* is; a thread publishes the reason that is latched; and where a topic does *)
(* not tell the latch, a thread is on its way to say so, one that latched    *)
(* first or the reset that is about to tell.                                 *)
TopicInv ==
    /\ \A t \in Thread : was[t] => Latched
    /\ \A t \in Thread : at[t] = "reason" => Latched /\ because[t] = latched
    /\ ~Latched /\ toldState => at["ros"] \in {"disarm", "tell"}
    /\ Latched /\ ~toldState => \E t \in Thread : Tells(t)
    /\ Latched /\ toldReason # latched => \E t \in Thread : Names(t)

(* Both hold at the start, with nothing latched and nothing told.            *)
LEMMA LatchTypeInit == SafetyInit => LatchType /\ TopicInv
BY DEF SafetyInit, LatchType, TopicInv, Place, Latched, Reason, Thread

(* Every step of either thread keeps the types.                              *)
LEMMA LatchTypeStep == LatchType /\ [SafetyNext]_safetyVars => LatchType'
<1> SUFFICES ASSUME LatchType, [SafetyNext]_safetyVars PROVE LatchType'
  OBVIOUS
<1> USE SupervisorAssumption DEF LatchType
<1>0. {"ros", "watchdog"} = Thread /\ "emergency_stop" \in Reason /\ Source \subseteq Reason
  BY DEF Thread, Reason
<1>1. ASSUME UNCHANGED <<latched, raced, toldState, at, was, because>> PROVE LatchType'
  BY <1>1
<1>2. ASSUME NEW t \in Thread, NEW from, Return(t, from), UNCHANGED <<latched, raced>>,
             toldState' \in BOOLEAN
      PROVE  LatchType'
  BY <1>2 DEF Return, Moves, Place
<1>3. ASSUME NEW t \in Thread, NEW from, NEW to \in Place \ {"idle", "latch"}, Moves(t, from, to),
             UNCHANGED <<was, because>>, latched' \in Reason \cup {NoReason}, raced' \in BOOLEAN,
             toldState' \in BOOLEAN
      PROVE  LatchType'
  BY <1>3 DEF Moves
<1>4. CASE Tick \/ (\E s \in Sensor : Observe(s)) \/ (\E active \in BOOLEAN : ObserveExecution(active))
           \/ (\E s \in Source : ObserveFault(s)) \/ UNCHANGED safetyVars
  BY <1>1, <1>4 DEF Tick, Observe, ObserveExecution, ObserveFault, Stay, safetyVars, watch, told, local
<1>5. CASE \E wish \in {"zero", "moving"} : GateCommand(wish)
  BY <1>0, <1>3, <1>5 DEF GateCommand, told, watch, Place
<1>6. CASE SendCommand
  BY <1>0, <1>2, <1>6 DEF SendCommand
<1>7. CASE StopRequest
  BY <1>0, <1>7 DEF StopRequest, told, Moves, Place, watch, Latched
<1>8. CASE ResetStop
  <2>1. raced' \in BOOLEAN
    BY <1>8 DEF ResetStop
  <2> QED
    BY <1>0, <1>3, <1>8, <2>1 DEF ResetStop, told, Place
<1>9. CASE Disarm
  BY <1>0, <1>3, <1>9 DEF Disarm, told, Place
<1>10. CASE PollStep
  BY <1>0, <1>10 DEF PollStep, told, Moves, Place, watch, Latched
<1>11. CASE Evaluate
  BY <1>0, <1>2, <1>3, <1>11 DEF Evaluate, told, Moves, Place, watch, Latched
<1>12. CASE CheckReceipts
  <2>1. First(Stale) \in Reason
    BY DEF First, Reason, Source, Sensor
  <2> QED
    BY <1>0, <1>2, <1>12, <2>1 DEF CheckReceipts, told, Latch, Latched, Moves, Place, watch
<1>13. ASSUME NEW t \in Thread, LatchSteps(t) PROVE LatchType'
  <2>1. CASE LatchStep(t)
    BY <1>13, <2>1 DEF LatchStep, told, Latch, Latched, Moves, Place
  <2>2. CASE PublishReason(t)
    BY <1>3, <1>13, <2>2 DEF PublishReason, watch, Place
  <2>3. CASE PublishState(t)
    <3>1. toldState' \in BOOLEAN
      BY <2>3 DEF PublishState, Latched
    <3> QED
      BY <3>1, <1>2, <1>3, <1>13, <2>3 DEF PublishState, watch, Place
  <2>4. CASE Hold(t)
    BY <1>2, <1>13, <2>4 DEF Hold, watch
  <2> QED
    BY <1>13, <2>1, <2>2, <2>3, <2>4 DEF LatchSteps
<1> QED
  BY <1>0, <1>4, <1>5, <1>6, <1>7, <1>8, <1>9, <1>10, <1>11, <1>12, <1>13
  DEF SafetyNext, WatchdogStep, RosContinues

(* ... and, as long as no reset raced a poll, keeps the topics' account.     *)
LEMMA TopicStep ==
  ASSUME LatchType, TopicInv, [SafetyNext]_safetyVars, ~raced, ~raced' PROVE TopicInv'
<1> USE SupervisorAssumption DEF LatchType
<1>0. {"ros", "watchdog"} = Thread /\ \A t \in Thread : at[t] \in Place
  BY DEF Thread
<1>1. ASSUME UNCHANGED <<latched, at, was, because, toldState, toldReason>> PROVE TopicInv'
  BY <1>1 DEF TopicInv, Latched, Names, Tells
<1>2. ASSUME NEW t \in Thread, NEW from \in {"gated", "evaluate", "check", "hold"}, Return(t, from),
             UNCHANGED <<latched, toldState, toldReason>>
      PROVE  TopicInv'
  BY <1>2 DEF Return, Moves, TopicInv, Latched, Names, Tells
<1>3. CASE Tick \/ (\E s \in Sensor : Observe(s)) \/ (\E active \in BOOLEAN : ObserveExecution(active))
           \/ (\E s \in Source : ObserveFault(s)) \/ UNCHANGED safetyVars
  BY <1>1, <1>3 DEF Tick, Observe, ObserveExecution, ObserveFault, Stay, safetyVars, watch, local, told
<1>4. CASE \E wish \in {"zero", "moving"} : GateCommand(wish)
  BY <1>0, <1>4 DEF GateCommand, watch, told, Moves, TopicInv, Latched, Names, Tells
<1>5. CASE SendCommand
  BY <1>0, <1>2, <1>5 DEF SendCommand
<1>6. CASE StopRequest
  BY <1>0, <1>6 DEF StopRequest, watch, told, Moves, TopicInv, Latched, Names, Tells
<1>7. CASE ResetStop
  <2>1. at["watchdog"] = "idle" /\ at["ros"] = "idle" /\ \A t \in Thread : ~was[t]
    BY <1>0, <1>7 DEF ResetStop, Moves
  <2>2. /\ at' = [at EXCEPT !["ros"] = "disarm"] /\ latched' = NoReason
        /\ UNCHANGED <<was, because, toldState, toldReason>>
    BY <1>7 DEF ResetStop, Moves, told
  <2> QED
    BY <1>0, <2>1, <2>2 DEF TopicInv, Latched
<1>8. CASE Disarm
  BY <1>0, <1>8 DEF Disarm, told, Moves, TopicInv, Latched, Names, Tells
<1>9. CASE PollStep
  BY <1>0, <1>9 DEF PollStep, watch, told, Moves, TopicInv, Latched, Names, Tells
<1>10. CASE Evaluate
  <2>1. CASE Latched /\ Moves("watchdog", "evaluate", "latch")
    BY <1>0, <1>10, <2>1 DEF Evaluate, watch, told, Moves, TopicInv, Latched, Names, Tells
  <2>2. CASE Return("watchdog", "evaluate")
    BY <1>0, <1>2, <1>10, <2>2 DEF Evaluate, watch, told
  <2>3. CASE Moves("watchdog", "evaluate", "check")
    BY <1>0, <1>10, <2>3 DEF Evaluate, watch, told, Moves, TopicInv, Latched, Names, Tells, Return
  <2> QED
    BY <1>10, <2>1, <2>2, <2>3 DEF Evaluate
<1>11. CASE CheckReceipts
  <2>1. CASE Stale = {}
    BY <1>0, <1>2, <1>11, <2>1 DEF CheckReceipts, watch, told
  <2>2. CASE Stale # {}
    <3>1. /\ at["watchdog"] = "check" /\ at' = [at EXCEPT !["watchdog"] = "latch"]
          /\ Latched => latched' = latched
          /\ because' = [because EXCEPT !["watchdog"] = latched']
          /\ UNCHANGED <<was, toldState, toldReason>>
      BY <1>11, <2>2 DEF CheckReceipts, told, Moves, Latch
    <3>2. CASE Latched
      BY <1>0, <3>1, <3>2 DEF TopicInv, Latched, Names, Tells
    <3>3. CASE ~Latched
      <4>1. /\ \A t \in Thread : ~was[t] /\ at[t] # "reason"
            /\ First(Stale) \in Reason /\ latched' = First(Stale)
        BY <1>11, <2>2, <3>3 DEF TopicInv, First, Reason, Source, Sensor, CheckReceipts, Latch
      <4>2. Names("watchdog")' /\ Tells("watchdog")' /\ Latched'
        BY <1>0, <3>1, <4>1 DEF Names, Tells, Latched
      <4> QED
        BY <1>0, <3>1, <4>1, <4>2 DEF TopicInv
    <3> QED
      BY <3>2, <3>3
  <2> QED
    BY <1>11, <2>1, <2>2 DEF CheckReceipts
<1>12. ASSUME NEW t \in Thread, LatchSteps(t) PROVE TopicInv'
  <2>1. CASE LatchStep(t)
    <3>1. /\ at[t] = "latch" /\ at' = [at EXCEPT ![t] = IF was[t] THEN "hold" ELSE "reason"]
          /\ because' = [because EXCEPT ![t] = latched']
          /\ UNCHANGED <<was, toldState, toldReason>>
          /\ Latched => latched' = latched
          /\ ~Latched => latched' = because[t]
      BY <2>1 DEF LatchStep, Moves, told, Latch
    <3>2. CASE Latched
      BY <3>1, <3>2 DEF TopicInv, Latched, Names, Tells
    <3>3. CASE ~Latched
      <4>1. (\A s \in Thread : ~was[s] /\ at[s] # "reason") /\ latched' # NoReason
        BY <3>1, <3>3 DEF TopicInv
      <4>2. Names(t)' /\ Tells(t)' /\ Latched' /\ \A s \in Thread : at'[s] = "reason" => s = t
        BY <3>1, <4>1 DEF Names, Tells, Latched
      <4> QED
        BY <3>1, <4>1, <4>2 DEF TopicInv
    <3> QED
      BY <3>2, <3>3
  <2>2. CASE PublishReason(t)
    BY <1>12, <2>2 DEF PublishReason, watch, Moves, TopicInv, Latched, Names, Tells
  <2>3. CASE PublishState(t)
    <3>1. UNCHANGED <<latched, toldReason>> /\ toldState' = Latched
      BY <2>3 DEF PublishState, watch
    <3>2. toldState' <=> Latched
      BY <3>1
    <3>3. \/ at[t] = "state" /\ at' = [at EXCEPT ![t] = "hold"] /\ UNCHANGED <<was, because>>
          \/ /\ at[t] = "tell" /\ at' = [at EXCEPT ![t] = "idle"]
             /\ was' = [was EXCEPT ![t] = FALSE] /\ because' = [because EXCEPT ![t] = NoReason]
      BY <2>3 DEF PublishState, Moves, Return
    <3>4. \A u \in Thread : (was'[u] => was[u]) /\ (at'[u] = "reason" => at[u] = "reason" /\ because'[u] = because[u])
      BY <3>3
    <3>5. \A u \in Thread : Names(u) => Names(u)'
      BY <3>3 DEF Names
    <3> QED
      BY <3>1, <3>2, <3>4, <3>5 DEF TopicInv, Latched
  <2>4. CASE Hold(t)
    BY <1>2, <1>12, <2>4 DEF Hold, watch
  <2> QED
    BY <1>12, <2>1, <2>2, <2>3, <2>4 DEF LatchSteps
<1> QED
  BY <1>0, <1>3, <1>4, <1>5, <1>6, <1>7, <1>8, <1>9, <1>10, <1>11, <1>12
  DEF SafetyNext, WatchdogStep, RosContinues

(* With both threads between two callbacks, state_topic tells whether the    *)
(* robot is latched and reason_topic the reason of the latch: of two threads *)
(* that latch at once the loser publishes nothing, and a poll that finds the *)
(* robot latched tells nobody again. Only a reset in the middle of a poll    *)
(* breaks it, and raced is then set. This is the safety part of SafetyActs.  *)
THEOREM TopicsAreTrue == SafetySpec => []TopicsTellTheLatch
<1> DEFINE I == LatchType /\ (~raced => TopicInv)
<1>1. SafetyInit => I
  BY LatchTypeInit
<1>2. I /\ [SafetyNext]_safetyVars => I'
  <2> SUFFICES ASSUME I, [SafetyNext]_safetyVars PROVE I'
    OBVIOUS
  <2>1. LatchType'
    BY LatchTypeStep
  <2>2. raced => raced'
    BY DEF SafetyNext, safetyVars, Tick, WatchdogStep, PollStep, Evaluate, CheckReceipts, RosContinues,
       SendCommand, Disarm, LatchSteps, LatchStep, PublishReason, PublishState, Hold, StopRequest,
       ResetStop, Observe, GateCommand, ObserveExecution, ObserveFault
  <2> QED
    BY <2>1, <2>2, TopicStep
<1>3. I => TopicsTellTheLatch
  <2> SUFFICES ASSUME LatchType, TopicInv, \A t \in Thread : at[t] = "idle"
               PROVE  toldState = Latched /\ (Latched => toldReason = latched)
    BY DEF TopicsTellTheLatch, ToldTheLatch
  <2>1. "ros" \in Thread
    BY DEF Thread
  <2>2. Latched => toldState /\ toldReason = latched
    BY DEF TopicInv, Tells, Names
  <2>3. ~Latched => ~toldState
    BY <2>1 DEF TopicInv
  <2>4. toldState = Latched
    <3>1. CASE Latched
      <4>1. toldState = TRUE /\ Latched = TRUE
        BY <2>2, <3>1 DEF LatchType, Latched
      <4> QED
        BY <4>1
    <3>2. CASE ~Latched
      <4>1. toldState = FALSE /\ Latched = FALSE
        BY <2>3, <3>2 DEF LatchType, Latched
      <4> QED
        BY <4>1
    <3> QED
      BY <3>1, <3>2
  <2> QED
    BY <2>2, <2>4
<1> QED
  BY <1>1, <1>2, <1>3, PTL DEF SafetySpec

-----------------------------------------------------------------------------
(* The holders of a forward, and nothing else.                               *)
HoldersSpec == HoldersInit /\ [][HoldersNext]_holderVars

(* Who still has to let the forward go: the owner from acquire() to           *)
(* release(), and the refresh that took hold again.                          *)
Claimants == {a \in Adapters : owner[a] \in {"waits", "has", "lets go"}}
HandClaims == IF hand.at \in {"set", "done"} THEN 1 ELSE 0

Shape == [state : {"none", "open", "closing", "closed"}, holders : Nat, timer : BOOLEAN, firing : Nat]

HoldersTypes ==
    /\ current \in 0..MaxForwards
    /\ forward \in [Forwards -> Shape]
    /\ lent \in [Adapters -> 0..MaxForwards] /\ holding \in [Adapters -> BOOLEAN]
    /\ owner \in [Adapters -> {"none", "waits", "has", "lets go", "gone"}]
    /\ hand \in [at : {"idle", "acquire", "set", "done"}, adapter : Adapters]
    /\ lingers \in BOOLEAN /\ exiting \in BOOLEAN
    /\ \A a \in Claimants : lent[a] \in Forwards

(* The forward that is handed out is the open one; every claim is on it, and *)
(* it counts at least as many holders as there are claims. Who marks itself  *)
(* as holding has a claim.                                                   *)
OneIsOpen ==
    /\ \A k \in Forwards : forward[k].state = "open" => k = current
    /\ current # 0 => forward[current].state = "open"

ClaimsCount ==
    /\ \A a \in Claimants : current # 0 /\ lent[a] = current
    /\ HandClaims = 1 => current # 0 /\ lent[hand.adapter] = current
    /\ current # 0 => forward[current].holders >= Cardinality(Claimants) + HandClaims

MarksAreClaims ==
    /\ \A a \in Adapters : holding[a] => owner[a] = "has" \/ (hand.at = "done" /\ hand.adapter = a)
    /\ \A a \in Adapters : owner[a] = "has" => holding[a]
    /\ hand.at # "idle" => owner[hand.adapter] \in {"lets go", "gone"}

HoldersInv == HoldersTypes /\ (~exiting => OneIsOpen /\ ClaimsCount /\ MarksAreClaims)

LEMMA ForwardsAre ==
  /\ 0 \notin Forwards /\ Forwards \subseteq 0..MaxForwards /\ 0 \in 0..MaxForwards
  /\ \A k \in 0..MaxForwards : k # 0 => k \in Forwards
BY HoldersAssumption DEF Forwards

LEMMA HoldersInvInit == HoldersInit => HoldersInv
<1> SUFFICES ASSUME HoldersInit PROVE HoldersInv
  OBVIOUS
<1>1. /\ current = 0 /\ forward = [k \in Forwards |-> Unused]
      /\ lent = [a \in Adapters |-> 0] /\ owner = [a \in Adapters |-> "none"]
      /\ hand.at = "idle" /\ hand \in [at : {"idle"}, adapter : Adapters]
  BY HoldersAssumption DEF HoldersInit
<1>2. holding = [a \in Adapters |-> FALSE] /\ exiting \in BOOLEAN /\ lingers \in BOOLEAN
  BY HoldersAssumption, Zenon DEF HoldersInit
<1>3. Claimants = {} /\ HandClaims = 0
  BY <1>1 DEF Claimants, HandClaims
<1>4. HoldersTypes
  BY <1>1, <1>2, <1>3, HoldersAssumption DEF HoldersTypes, Unused, Shape
<1>5. OneIsOpen /\ ClaimsCount /\ MarksAreClaims
  BY <1>1, <1>2, <1>3 DEF OneIsOpen, ClaimsCount, MarksAreClaims, Unused
<1> QED
  BY <1>4, <1>5 DEF HoldersInv

(* What acquire() does: one more holder, of the open forward or of a new one. *)
LEMMA AcquireForm ==
  ASSUME HoldersTypes, NEW k \in Forwards, Acquire(k)
  PROVE  /\ current' = k /\ (current # 0 => k = current)
         /\ forward' \in [Forwards -> Shape]
         /\ \A j \in Forwards : j # k => forward'[j] = forward[j]
         /\ forward'[k].state = "open" /\ forward'[k].holders = forward[k].holders + 1
<1> DEFINE off  == FALSE
           more == forward[k].holders + 1
           new  == [forward[k] EXCEPT !.state = "open", !.holders = more, !.timer = off]
<1>1. current' = k /\ (current # 0 => k = current)
  BY DEF Acquire
<1>2. forward' = [forward EXCEPT ![k] = new]
  BY DEF Acquire, HoldersTypes
<1>3. forward[k] \in Shape
  BY DEF HoldersTypes
<1>4. off \in BOOLEAN
  BY Zenon
<1>5. more \in Nat
  BY <1>3 DEF Shape
<1> HIDE DEF off, more
<1>6. new \in Shape /\ new.state = "open" /\ new.holders = more
  BY <1>3, <1>4, <1>5 DEF Shape
<1> HIDE DEF new
<1> QED
  BY <1>1, <1>2, <1>6 DEF HoldersTypes, more

(* ... and release(): one holder less, and no forward changes its state.     *)
LEMMA ReleaseForm ==
  ASSUME HoldersTypes, NEW k \in Forwards, Release(k)
  PROVE  /\ forward' \in [Forwards -> Shape]
         /\ \A j \in Forwards : forward'[j].state = forward[j].state
         /\ \A j \in Forwards : j # k => forward'[j].holders = forward[j].holders
         /\ forward[k].holders > 0 => forward'[k].holders = forward[k].holders - 1
<1> DEFINE left  == IF forward[k].holders = 0 THEN 0 ELSE forward[k].holders - 1
           ends  == left = 0 /\ forward[k].state = "open"
           waits == forward[k].timer \/ (ends /\ lingers)
           more  == IF ends /\ ~lingers THEN forward[k].firing + 1 ELSE forward[k].firing
           new   == [forward[k] EXCEPT !.holders = left, !.timer = waits, !.firing = more]
<1>1. forward' = [forward EXCEPT ![k] = new]
  BY DEF Release, HoldersTypes
<1>2. forward[k] \in Shape
  BY DEF HoldersTypes
<1>3. /\ left \in Nat /\ more \in Nat
      /\ forward[k].holders > 0 => left = forward[k].holders - 1
  BY <1>2 DEF Shape
<1>4. waits \in BOOLEAN
  BY <1>2, Zenon DEF Shape
<1> HIDE DEF left, waits, more
<1>5. new \in Shape
  BY <1>2, <1>3, <1>4 DEF Shape
<1>6. new.state = forward[k].state /\ new.holders = left
  BY <1>2 DEF Shape
<1> HIDE DEF new
<1> QED
  BY <1>1, <1>3, <1>5, <1>6 DEF HoldersTypes

(* ... and the timers: a callback that began closes the forward only when it  *)
(* finds no holder, and then nobody is handed it any more.                    *)
LEMMA TimersForm ==
  ASSUME HoldersTypes, NEW k \in Forwards, TimerFires(k) \/ Closed(k) \/ Forget(k)
  PROVE  /\ forward' \in [Forwards -> Shape]
         /\ \A j \in Forwards : forward'[j].holders = forward[j].holders
         /\ \A j \in Forwards : j # k => forward'[j].state = forward[j].state
         /\ \/ /\ current' = current
               /\ \/ forward'[k].state = forward[k].state
                  \/ forward[k].state # "open" /\ forward'[k].state # "open"
            \/ /\ forward[k].holders = 0 /\ current' = (IF current = k THEN 0 ELSE current)
               /\ forward'[k].state = (IF forward[k].state = "open" THEN "closing"
                                       ELSE forward[k].state)
<1>0. forward \in [Forwards -> Shape] /\ forward[k] \in Shape
  BY DEF HoldersTypes
<1>1. CASE TimerFires(k)
  <2> DEFINE off  == FALSE
             more == forward[k].firing + 1
             new  == [forward[k] EXCEPT !.timer = off, !.firing = more]
  <2>1. current' = current /\ forward' = [forward EXCEPT ![k] = new]
    BY <1>0, <1>1 DEF TimerFires
  <2>2. off \in BOOLEAN
    BY Zenon
  <2>3. more \in Nat
    BY <1>0 DEF Shape
  <2> HIDE DEF off, more
  <2>4. new \in Shape /\ new.state = forward[k].state /\ new.holders = forward[k].holders
    BY <1>0, <2>2, <2>3 DEF Shape
  <2> HIDE DEF new
  <2> QED
    BY <1>0, <2>1, <2>4
<1>2. CASE Closed(k)
  <2> DEFINE new == [forward[k] EXCEPT !.state = "closed"]
  <2>1. /\ current' = current /\ forward' = [forward EXCEPT ![k] = new]
        /\ forward[k].state = "closing"
    BY <1>0, <1>2 DEF Closed
  <2>2. new \in Shape /\ new.state = "closed" /\ new.holders = forward[k].holders
    BY <1>0 DEF Shape
  <2> HIDE DEF new
  <2> QED
    BY <1>0, <2>1, <2>2
<1>3. CASE Forget(k) /\ forward[k].holders > 0
  <2> DEFINE new == [forward[k] EXCEPT !.firing = @ - 1]
  <2>1. current' = current /\ forward' = [forward EXCEPT ![k] = new] /\ forward[k].firing > 0
    BY <1>0, <1>3 DEF Forget
  <2>2. new \in Shape /\ new.state = forward[k].state /\ new.holders = forward[k].holders
    BY <1>0, <2>1 DEF Shape
  <2> HIDE DEF new
  <2> QED
    BY <1>0, <2>1, <2>2
<1>4. CASE Forget(k) /\ ~(forward[k].holders > 0)
  <2> DEFINE end  == IF forward[k].state = "open" THEN "closing" ELSE forward[k].state
             less == forward[k].firing - 1
             new  == [forward[k] EXCEPT !.firing = less, !.state = end]
  <2>1. /\ current' = (IF current = k THEN 0 ELSE current)
        /\ forward' = [forward EXCEPT ![k] = new] /\ forward[k].firing > 0
    BY <1>0, <1>4 DEF Forget
  <2>2. end \in {"none", "open", "closing", "closed"}
    BY <1>0 DEF Shape
  <2>3. forward[k].holders = 0
    BY <1>0, <1>4 DEF Shape
  <2>4. less \in Nat
    BY <1>0, <2>1 DEF Shape
  <2> HIDE DEF end, less
  <2>5. new \in Shape /\ new.state = end /\ new.holders = forward[k].holders
    BY <1>0, <2>2, <2>4 DEF Shape
  <2> HIDE DEF new
  <2> QED
    BY <1>0, <2>1, <2>3, <2>5 DEF end
<1> QED
  BY <1>1, <1>2, <1>3, <1>4

(* The refresh has a claim from its acquire() on.                            *)
LEMMA HandHolds ==
  ASSUME HoldersTypes, HandClaims = 1
  PROVE  hand.at # "idle" /\ hand.adapter \in Adapters
<1>1. hand.adapter \in Adapters
  BY DEF HoldersTypes
<1>2. hand.at \in {"set", "done"}
  BY DEF HandClaims
<1> QED
  BY <1>1, <1>2

(* A claim more is a claimant more, and a claim less one less.               *)
LEMMA ClaimsAreFinite == IsFiniteSet(Claimants) /\ Cardinality(Claimants) \in Nat
BY HoldersAssumption, FS_Subset, FS_CardinalityType DEF Claimants

LEMMA ClaimMade ==
  ASSUME HoldersTypes, NEW a \in Adapters \ Claimants, Claimants' = Claimants \cup {a}
  PROVE  Cardinality(Claimants') = Cardinality(Claimants) + 1
BY ClaimsAreFinite, FS_AddElement DEF HoldersTypes

LEMMA ClaimDropped ==
  ASSUME HoldersTypes, NEW a \in Claimants, Claimants' = Claimants \ {a}
  PROVE  /\ Cardinality(Claimants') = Cardinality(Claimants) - 1
         /\ Cardinality(Claimants') \in Nat
BY ClaimsAreFinite, FS_RemoveElement, FS_CardinalityType DEF HoldersTypes

(* Every step keeps it.                                                      *)
LEMMA HoldersInvStep == HoldersInv /\ [HoldersNext]_holderVars => HoldersInv'
<1> SUFFICES ASSUME HoldersInv, [HoldersNext]_holderVars PROVE HoldersInv'
  OBVIOUS
<1>0. HoldersTypes /\ (~exiting => OneIsOpen /\ ClaimsCount /\ MarksAreClaims)
  BY DEF HoldersInv
<1>1. ASSUME NEW a \in Adapters, Build(a) PROVE HoldersInv'
  <2>1. PICK k \in Forwards : Acquire(k) /\ lent' = [lent EXCEPT ![a] = k]
    BY <1>1 DEF Build
  <2>2. /\ owner[a] = "none" /\ owner' = [owner EXCEPT ![a] = "waits"] /\ ~exiting
        /\ UNCHANGED <<lingers, holding, hand, exiting>>
    BY <1>1 DEF Build
  <2>3. /\ current' = k /\ (current # 0 => k = current) /\ forward' \in [Forwards -> Shape]
        /\ \A j \in Forwards : j # k => forward'[j] = forward[j]
        /\ forward'[k].state = "open" /\ forward'[k].holders = forward[k].holders + 1
        /\ forward[k].holders \in Nat
    BY <1>0, <2>1, AcquireForm DEF HoldersTypes, Shape
  <2>4. a \notin Claimants /\ Claimants' = Claimants \cup {a} /\ HandClaims' = HandClaims
    BY <1>0, <2>2 DEF HoldersTypes, Claimants, HandClaims
  <2>5. HoldersTypes'
    <3>1. lent' \in [Adapters -> 0..MaxForwards] /\ current' \in 0..MaxForwards
      BY <1>0, <2>1, <2>3, ForwardsAre DEF HoldersTypes
    <3>2. owner' \in [Adapters -> {"none", "waits", "has", "lets go", "gone"}]
      BY <1>0, <2>2 DEF HoldersTypes
    <3>3. \A b \in Claimants' : lent'[b] \in Forwards
      BY <1>0, <2>1, <2>4 DEF HoldersTypes, Claimants
    <3> QED
      BY <1>0, <2>2, <2>3, <3>1, <3>2, <3>3 DEF HoldersTypes
  <2>6. OneIsOpen'
    BY <1>0, <2>2, <2>3, ForwardsAre DEF HoldersTypes, OneIsOpen
  <2>7. ClaimsCount'
    <3>1. \A b \in Claimants' : lent'[b] = k
      BY <1>0, <2>1, <2>2, <2>3, <2>4 DEF HoldersTypes, ClaimsCount, Claimants
    <3>2. HandClaims = 1 => lent'[hand.adapter] = k
      <4> SUFFICES ASSUME HandClaims = 1 PROVE lent'[hand.adapter] = k
        OBVIOUS
      <4>1. hand.at # "idle" /\ hand.adapter \in Adapters
        BY <1>0, HandHolds
      <4>2. hand.adapter # a
        BY <1>0, <2>2, <4>1 DEF MarksAreClaims
      <4> QED
        BY <1>0, <2>1, <2>2, <2>3, <4>1, <4>2 DEF HoldersTypes, ClaimsCount
    <3>3. forward[k].holders >= Cardinality(Claimants) + HandClaims
      <4>1. CASE current = 0
        <5>1. Claimants = {} /\ HandClaims = 0
          BY <1>0, <2>2, <4>1 DEF ClaimsCount, HandClaims
        <5> QED
          BY <2>3, <5>1, FS_EmptySet
      <4>2. CASE current # 0
        BY <1>0, <2>2, <2>3, <4>2 DEF ClaimsCount
      <4> QED
        BY <4>1, <4>2
    <3>4. Cardinality(Claimants') = Cardinality(Claimants) + 1
      BY <1>0, <2>4, ClaimMade
    <3>5. forward'[k].holders >= Cardinality(Claimants') + HandClaims'
      <4>1. HandClaims \in {0, 1} /\ Cardinality(Claimants) \in Nat
        BY ClaimsAreFinite DEF HandClaims
      <4> QED
        BY <2>3, <2>4, <3>3, <3>4, <4>1
    <3> QED
      BY <2>2, <2>3, <2>4, <3>1, <3>2, <3>5, ForwardsAre DEF ClaimsCount
  <2>8. MarksAreClaims'
    BY <1>0, <2>2 DEF HoldersTypes, MarksAreClaims
  <2> QED
    BY <2>5, <2>6, <2>7, <2>8 DEF HoldersInv
<1>2. ASSUME NEW a \in Adapters, Built(a) PROVE HoldersInv'
  <2>1. /\ owner[a] = "waits" /\ owner' = [owner EXCEPT ![a] = "has"]
        /\ holding' = [holding EXCEPT ![a] = TRUE]
        /\ UNCHANGED <<lingers, current, forward, lent, hand, exiting>>
    BY <1>2 DEF Built
  <2>2. Claimants' = Claimants /\ HandClaims' = HandClaims
    BY <1>0, <2>1 DEF HoldersTypes, Claimants, HandClaims
  <2>3. HoldersTypes'
    BY <1>0, <2>1, <2>2 DEF HoldersTypes
  <2>4. ~exiting => OneIsOpen' /\ ClaimsCount'
    BY <1>0, <2>1, <2>2 DEF OneIsOpen, ClaimsCount
  <2>5. ~exiting => MarksAreClaims'
    BY <1>0, <2>1 DEF HoldersTypes, MarksAreClaims
  <2> QED
    BY <2>1, <2>3, <2>4, <2>5 DEF HoldersInv
<1>3. ASSUME NEW a \in Adapters, BuildFails(a) \/ LetGo(a) PROVE HoldersInv'
  <2>1. /\ owner[a] \in {"waits", "lets go"} /\ Release(lent[a])
        /\ UNCHANGED <<lingers, current, holding, hand, exiting>>
        /\ \/ owner[a] = "waits" /\ owner' = [owner EXCEPT ![a] = "none"]
                 /\ lent' = [lent EXCEPT ![a] = 0]
           \/ owner[a] = "lets go" /\ owner' = [owner EXCEPT ![a] = "gone"] /\ lent' = lent
    BY <1>3 DEF BuildFails, LetGo
  <2>2. a \in Claimants /\ Claimants' = Claimants \ {a} /\ HandClaims' = HandClaims
    BY <1>0, <2>1 DEF HoldersTypes, Claimants, HandClaims
  <2>3. PICK k \in Forwards : k = lent[a]
    BY <1>0, <2>2 DEF HoldersTypes
  <2>4. /\ forward' \in [Forwards -> Shape]
        /\ \A j \in Forwards : forward'[j].state = forward[j].state
        /\ \A j \in Forwards : j # k => forward'[j].holders = forward[j].holders
        /\ forward[k].holders > 0 => forward'[k].holders = forward[k].holders - 1
        /\ forward[k].holders \in Nat
    BY <1>0, <2>1, <2>3, ReleaseForm DEF HoldersTypes, Shape
  <2>5. HoldersTypes'
    <3>1. lent' \in [Adapters -> 0..MaxForwards]
      BY <1>0, <2>1, ForwardsAre DEF HoldersTypes
    <3>2. owner' \in [Adapters -> {"none", "waits", "has", "lets go", "gone"}]
      BY <1>0, <2>1 DEF HoldersTypes
    <3>3. \A b \in Claimants' : lent'[b] \in Forwards
      BY <1>0, <2>1, <2>2 DEF HoldersTypes, Claimants
    <3> QED
      BY <1>0, <2>1, <2>4, <3>1, <3>2, <3>3 DEF HoldersTypes
  <2>6. ~exiting => OneIsOpen'
    BY <1>0, <2>1, <2>4, ForwardsAre DEF HoldersTypes, OneIsOpen
  <2>7. ~exiting => ClaimsCount'
    <3> SUFFICES ASSUME ~exiting PROVE ClaimsCount'
      OBVIOUS
    <3>1. current # 0 /\ k = current
      BY <1>0, <2>2, <2>3 DEF ClaimsCount
    <3>2. \A b \in Claimants' : lent'[b] = current
      BY <1>0, <2>1, <2>2 DEF HoldersTypes, ClaimsCount, Claimants
    <3>3. HandClaims = 1 => lent'[hand.adapter] = current
      <4> SUFFICES ASSUME HandClaims = 1 PROVE lent'[hand.adapter] = current
        OBVIOUS
      <4>1. hand.at # "idle" /\ hand.adapter \in Adapters
        BY <1>0, HandHolds
      <4>2. owner[hand.adapter] # "waits"
        BY <1>0, <4>1 DEF MarksAreClaims
      <4> QED
        BY <1>0, <2>1, <4>1, <4>2 DEF HoldersTypes, ClaimsCount
    <3>4. forward[k].holders >= Cardinality(Claimants) + HandClaims
      BY <1>0, <3>1 DEF ClaimsCount
    <3>5. /\ Cardinality(Claimants) \in Nat /\ Cardinality(Claimants') \in Nat
          /\ Cardinality(Claimants') = Cardinality(Claimants) - 1
      BY <1>0, <2>2, ClaimDropped, ClaimsAreFinite
    <3>6. HandClaims \in {0, 1}
      BY DEF HandClaims
    <3>7. forward'[k].holders >= Cardinality(Claimants') + HandClaims'
      BY <2>2, <2>4, <3>4, <3>5, <3>6
    <3> QED
      BY <2>1, <2>2, <3>1, <3>2, <3>3, <3>7 DEF ClaimsCount
  <2>8. ~exiting => MarksAreClaims'
    BY <1>0, <2>1 DEF HoldersTypes, MarksAreClaims
  <2> QED
    BY <2>1, <2>5, <2>6, <2>7, <2>8 DEF HoldersInv
<1>4. ASSUME NEW a \in Adapters, Disconnect(a) PROVE HoldersInv'
  <2>1. /\ owner[a] = "has"
        /\ owner' = [owner EXCEPT ![a] = IF holding[a] THEN "lets go" ELSE "gone"]
        /\ holding' = [holding EXCEPT ![a] = FALSE]
        /\ UNCHANGED <<lingers, current, forward, lent, hand, exiting>>
    BY <1>4 DEF Disconnect
  <2>2. Claimants' \subseteq Claimants /\ HandClaims' = HandClaims
    BY <1>0, <2>1 DEF HoldersTypes, Claimants, HandClaims
  <2>3. ~exiting => Claimants' = Claimants
    BY <1>0, <2>1 DEF HoldersTypes, Claimants, MarksAreClaims
  <2>4. HoldersTypes'
    BY <1>0, <2>1, <2>2 DEF HoldersTypes
  <2>5. ~exiting => OneIsOpen' /\ ClaimsCount'
    BY <1>0, <2>1, <2>2, <2>3 DEF OneIsOpen, ClaimsCount
  <2>6. ~exiting => MarksAreClaims'
    BY <1>0, <2>1 DEF HoldersTypes, MarksAreClaims
  <2> QED
    BY <2>1, <2>4, <2>5, <2>6 DEF HoldersInv
<1>5. ASSUME NEW a \in Adapters, Refresh(a) PROVE HoldersInv'
  <2>1. /\ hand.at = "idle" /\ owner[a] \in {"has", "lets go", "gone"} /\ ~holding[a]
        /\ hand' = [at |-> "acquire", adapter |-> a]
        /\ UNCHANGED <<lingers, current, forward, lent, holding, owner, exiting>>
    BY <1>5 DEF Refresh
  <2>2. Claimants' = Claimants /\ HandClaims = 0 /\ HandClaims' = 0
    BY <1>0, <2>1 DEF Claimants, HandClaims
  <2>3. HoldersTypes'
    BY <1>0, <2>1, <2>2 DEF HoldersTypes
  <2>4. ~exiting => OneIsOpen' /\ ClaimsCount'
    <3>1. ~exiting => OneIsOpen'
      BY <1>0, <2>1 DEF OneIsOpen
    <3>2. ~exiting => \A b \in Claimants : current # 0 /\ lent[b] = current
      BY <1>0 DEF ClaimsCount
    <3>3. ~exiting /\ current # 0 => forward[current].holders >= Cardinality(Claimants)
      BY <1>0, <2>2, ClaimsAreFinite DEF ClaimsCount
    <3>4. current' = current /\ forward' = forward /\ lent' = lent
      BY <2>1
    <3>5. ~exiting => ClaimsCount'
      BY <2>2, <3>2, <3>3, <3>4, ClaimsAreFinite DEF ClaimsCount
    <3> QED
      BY <3>1, <3>5
  <2>5. ~exiting => MarksAreClaims'
    BY <1>0, <2>1 DEF HoldersTypes, MarksAreClaims
  <2> QED
    BY <2>1, <2>3, <2>4, <2>5 DEF HoldersInv
<1>6. CASE Rehold
  <2>1. PICK k \in Forwards : /\ Acquire(k) /\ hand' = [at |-> "set", adapter |-> hand.adapter]
                             /\ lent' = [lent EXCEPT ![hand.adapter] = k]
    BY <1>6 DEF Rehold
  <2>2. hand.at = "acquire" /\ ~exiting /\ UNCHANGED <<lingers, holding, owner, exiting>>
    BY <1>6 DEF Rehold
  <2>3. /\ current' = k /\ (current # 0 => k = current) /\ forward' \in [Forwards -> Shape]
        /\ \A j \in Forwards : j # k => forward'[j] = forward[j]
        /\ forward'[k].state = "open" /\ forward'[k].holders = forward[k].holders + 1
        /\ forward[k].holders \in Nat
    BY <1>0, <2>1, AcquireForm DEF HoldersTypes, Shape
  <2>4. Claimants' = Claimants /\ HandClaims = 0 /\ HandClaims' = 1 /\ hand.adapter \in Adapters
    BY <1>0, <2>1, <2>2 DEF HoldersTypes, Claimants, HandClaims
  <2>5. HoldersTypes'
    <3>1. lent' \in [Adapters -> 0..MaxForwards] /\ \A a \in Claimants' : lent'[a] \in Forwards
      BY <1>0, <2>1, <2>4, ForwardsAre DEF HoldersTypes, Claimants
    <3>2. hand' \in [at : {"idle", "acquire", "set", "done"}, adapter : Adapters]
      BY <2>1, <2>4
    <3> QED
      BY <1>0, <2>2, <2>3, <3>1, <3>2, ForwardsAre DEF HoldersTypes
  <2>6. OneIsOpen'
    BY <1>0, <2>2, <2>3, ForwardsAre DEF HoldersTypes, OneIsOpen
  <2>7. ClaimsCount'
    <3>1. \A b \in Claimants' : lent'[b] = k
      BY <1>0, <2>1, <2>2, <2>3, <2>4 DEF HoldersTypes, ClaimsCount, Claimants
    <3>2. forward[k].holders >= Cardinality(Claimants)
      <4>1. CASE current = 0
        <5>1. Claimants = {}
          BY <1>0, <2>2, <4>1 DEF ClaimsCount
        <5> QED
          BY <2>3, <5>1, FS_EmptySet
      <4>2. CASE current # 0
        BY <1>0, <2>2, <2>3, <2>4, <4>2, ClaimsAreFinite DEF ClaimsCount
      <4> QED
        BY <4>1, <4>2
    <3>3. forward'[k].holders >= Cardinality(Claimants') + HandClaims'
      BY <2>3, <2>4, <3>2, ClaimsAreFinite
    <3>4. hand'.adapter = hand.adapter /\ lent'[hand'.adapter] = k
      BY <1>0, <2>1, <2>4 DEF HoldersTypes
    <3> QED
      BY <2>3, <2>4, <3>1, <3>3, <3>4, ForwardsAre DEF ClaimsCount
  <2>8. MarksAreClaims'
    BY <1>0, <2>1, <2>2 DEF HoldersTypes, MarksAreClaims
  <2> QED
    BY <2>5, <2>6, <2>7, <2>8 DEF HoldersInv
<1>7. CASE Reheld
  <2>1. /\ hand.at = "set" /\ hand' = [hand EXCEPT !.at = "done"]
        /\ holding' = [holding EXCEPT ![hand.adapter] = TRUE]
        /\ UNCHANGED <<lingers, current, forward, lent, owner, exiting>>
    BY <1>7 DEF Reheld
  <2>2. /\ Claimants' = Claimants /\ HandClaims' = HandClaims
        /\ hand'.at = "done" /\ hand'.adapter = hand.adapter
    BY <1>0, <2>1 DEF HoldersTypes, Claimants, HandClaims
  <2>3. HoldersTypes'
    BY <1>0, <2>1, <2>2 DEF HoldersTypes
  <2>4. ~exiting => OneIsOpen' /\ ClaimsCount'
    BY <1>0, <2>1, <2>2 DEF OneIsOpen, ClaimsCount
  <2>5. ~exiting => MarksAreClaims'
    BY <1>0, <2>1, <2>2 DEF HoldersTypes, MarksAreClaims
  <2> QED
    BY <2>1, <2>3, <2>4, <2>5 DEF HoldersInv
<1>8. CASE CloseAll
  <2>1. /\ exiting' /\ exiting' \in BOOLEAN
        /\ current' = 0 /\ UNCHANGED <<lingers, lent, holding, owner, hand>>
    BY <1>8, Zenon DEF CloseAll
  <2>2. forward' \in [Forwards -> Shape]
    <3>1. CASE current = 0
      BY <1>0, <1>8, <3>1 DEF CloseAll, HoldersTypes
    <3>2. CASE current # 0
      <4>1. PICK k \in Forwards : k = current
        BY <1>0, <3>2, ForwardsAre DEF HoldersTypes
      <4>2. forward' = [forward EXCEPT ![k].state = "closing"]
        BY <1>8, <3>2, <4>1 DEF CloseAll
      <4>3. [forward[k] EXCEPT !.state = "closing"] \in Shape
        BY <1>0 DEF HoldersTypes, Shape
      <4> QED
        BY <1>0, <4>2, <4>3 DEF HoldersTypes
    <3> QED
      BY <3>1, <3>2
  <2>3. Claimants' = Claimants
    BY <2>1 DEF Claimants
  <2> QED
    BY <1>0, <2>1, <2>2, <2>3, ForwardsAre DEF HoldersTypes, HoldersInv
<1>9. ASSUME NEW k \in Forwards, TimerFires(k) \/ Closed(k) \/ Forget(k) PROVE HoldersInv'
  <2>1. UNCHANGED <<lingers, lent, holding, owner, hand, exiting>>
    BY <1>9 DEF TimerFires, Closed, Forget
  <2>2. Claimants' = Claimants /\ HandClaims' = HandClaims
    BY <2>1 DEF Claimants, HandClaims
  <2>3. /\ forward' \in [Forwards -> Shape]
        /\ \A j \in Forwards : forward'[j].holders = forward[j].holders
        /\ \A j \in Forwards : j # k => forward'[j].state = forward[j].state
    BY <1>0, <1>9, TimersForm
  <2>4. ~exiting => MarksAreClaims'
    BY <1>0, <2>1 DEF MarksAreClaims
  <2>5. CASE /\ current' = current
             /\ \/ forward'[k].state = forward[k].state
                \/ forward[k].state # "open" /\ forward'[k].state # "open"
    <3>1. HoldersTypes'
      BY <1>0, <2>1, <2>2, <2>3, <2>5 DEF HoldersTypes
    <3>2. ~exiting => OneIsOpen'
      BY <1>0, <2>3, <2>5, ForwardsAre DEF HoldersTypes, OneIsOpen
    <3>3. current # 0 => forward'[current].holders = forward[current].holders
      BY <1>0, <2>3, ForwardsAre DEF HoldersTypes
    <3>4. ~exiting => ClaimsCount'
      BY <1>0, <2>1, <2>2, <2>5, <3>3 DEF ClaimsCount
    <3> QED
      BY <2>1, <2>4, <3>1, <3>2, <3>4 DEF HoldersInv
  <2>6. CASE /\ forward[k].holders = 0 /\ current' = (IF current = k THEN 0 ELSE current)
             /\ forward'[k].state = (IF forward[k].state = "open" THEN "closing"
                                     ELSE forward[k].state)
    <3>1. current' \in 0..MaxForwards
      BY <1>0, <2>6, ForwardsAre DEF HoldersTypes
    <3>2. HoldersTypes'
      BY <1>0, <2>1, <2>2, <2>3, <3>1 DEF HoldersTypes
    <3>3. ~exiting => OneIsOpen'
      BY <1>0, <2>3, <2>6, ForwardsAre DEF HoldersTypes, OneIsOpen
    <3>4. ~exiting => ClaimsCount'
      <4>1. CASE current = k
        <5> SUFFICES ASSUME ~exiting PROVE ClaimsCount'
          OBVIOUS
        <5>1. 0 >= Cardinality(Claimants) + HandClaims
          BY <1>0, <2>6, <4>1, ForwardsAre DEF ClaimsCount
        <5>2. HandClaims \in {0, 1}
          BY DEF HandClaims
        <5>3. Cardinality(Claimants) = 0 /\ HandClaims = 0
          BY <5>1, <5>2, ClaimsAreFinite
        <5>4. Claimants = {}
          BY <5>3, ClaimsAreFinite, FS_EmptySet
        <5> QED
          BY <2>2, <2>6, <4>1, <5>3, <5>4 DEF ClaimsCount
      <4>2. CASE current # k
        <5>1. current' = current
          BY <2>6, <4>2
        <5>2. current # 0 => forward'[current].holders = forward[current].holders
          BY <1>0, <2>3, ForwardsAre DEF HoldersTypes
        <5> QED
          BY <1>0, <2>1, <2>2, <5>1, <5>2 DEF ClaimsCount
      <4> QED
        BY <4>1, <4>2
    <3> QED
      BY <2>1, <2>4, <3>2, <3>3, <3>4 DEF HoldersInv
  <2> QED
    BY <1>0, <1>9, <2>5, <2>6, TimersForm
<1>10. CASE UNCHANGED holderVars
  <2>1. Claimants' = Claimants /\ HandClaims' = HandClaims
    BY <1>10 DEF holderVars, Claimants, HandClaims
  <2>2. HoldersTypes'
    BY <1>0, <1>10, <2>1 DEF holderVars, HoldersTypes
  <2>3. ~exiting => OneIsOpen' /\ MarksAreClaims'
    BY <1>0, <1>10 DEF holderVars, OneIsOpen, MarksAreClaims
  <2>4. ~exiting => ClaimsCount'
    BY <1>0, <1>10, <2>1 DEF holderVars, ClaimsCount
  <2> QED
    BY <1>10, <2>2, <2>3, <2>4 DEF holderVars, HoldersInv
<1> QED
  BY <1>1, <1>2, <1>3, <1>4, <1>5, <1>6, <1>7, <1>8, <1>9, <1>10
  DEF HoldersNext, Owner, Timers

(* As long as the process runs, the forward an adapter holds is open: the     *)
(* linger timer of a forward that is taken hold of again while its callback   *)
(* runs, the adapter that is built while another one lets go, and the refresh *)
(* of an adapter that is being disconnected never close it under its holder,  *)
(* and there is never a second open forward of the configuration.             *)
THEOREM HeldStaysOpen == HoldersSpec => []HeldIsOpen
<1>1. HoldersInv => HeldIsOpen
  <2> SUFFICES ASSUME HoldersInv, ~exiting PROVE HeldIsOpen
    BY DEF HeldIsOpen
  <2>1. ASSUME NEW a \in Adapters, holding[a] PROVE forward[lent[a]].state = "open"
    <3>1. a \in Claimants \/ (HandClaims = 1 /\ hand.adapter = a)
      BY <2>1 DEF HoldersInv, MarksAreClaims, Claimants, HandClaims
    <3> QED
      BY <3>1 DEF HoldersInv, ClaimsCount, OneIsOpen
  <2> QED
    BY <2>1 DEF HeldIsOpen, HoldersInv, OneIsOpen
<1> QED
  BY <1>1, HoldersInvInit, HoldersInvStep, PTL DEF HoldersSpec

-----------------------------------------------------------------------------
(* The guard of the bridge, and nothing else.                                *)
GuardSpec == GuardInit /\ [][GuardNext]_guardVars

GuardTypes ==
    /\ expected \in Nat /\ inbox \in Nat /\ count \in Nat /\ markers \in Nat
    /\ passed \in BOOLEAN /\ deadline \in BOOLEAN /\ forceFirst \in BOOLEAN
    /\ sent \subseteq {"term", "kill"}

(* What allows the pending signal to go: every announced bridge was seen, or *)
(* the start-up has lasted too long. It stays allowed.                       *)
MayPass == deadline \/ (markers > 0 /\ markers >= expected)

(* The signal is taken once it may pass; it is on its way in the relay, and  *)
(* goes to the bridge, only when it was taken. A bridge is killed, or never  *)
(* let start, only when somebody insisted or the grace period is over.       *)
GuardInv ==
    /\ GuardTypes
    /\ passed => MayPass
    /\ relay = "forward" => passed
    /\ "term" \in sent => passed
    /\ "kill" \in sent => count > 1 \/ grace = "over"
    /\ forceFirst => count > 1

LEMMA GuardInvInit == GuardInit => GuardInv
<1> SUFFICES ASSUME GuardInit PROVE GuardInv
  OBVIOUS
<1>1. /\ passed \in BOOLEAN /\ deadline \in BOOLEAN /\ forceFirst \in BOOLEAN
      /\ ~passed /\ ~forceFirst
  BY Zenon DEF GuardInit
<1>2. expected \in Nat /\ inbox \in Nat /\ count \in Nat /\ markers \in Nat
  BY GuardAssumption DEF GuardInit
<1>3. sent = {} /\ relay = "reading"
  BY DEF GuardInit
<1> QED
  BY <1>1, <1>2, <1>3 DEF GuardInv, GuardTypes

(* Of the signals the guard sends only a kill adds "kill", and only forward() *)
(* adds "term".                                                              *)
LEMMA ForwardForm ==
  ASSUME Forward
  PROVE  /\ sent' = sent \cup {"term"}
         /\ grace = "over" => grace' = "over"
BY DEF Forward, Signal

LEMMA ForceForm ==
  ASSUME ForceGroup
  PROVE  /\ sent' = sent \cup {"kill"} \/ sent' = sent
         /\ grace' = grace
BY DEF ForceGroup, Signal

LEMMA GuardInvStep == GuardInv /\ [GuardNext]_guardVars => GuardInv'
<1> SUFFICES ASSUME GuardInv, [GuardNext]_guardVars PROVE GuardInv'
  OBVIOUS
<1>1. CASE Drain
  <2>1. /\ inbox > 0 /\ inbox' = inbox - 1 /\ count' = count + 1
        /\ UNCHANGED <<expected, markers, deadline, relay>>
    BY <1>1 DEF Drain, HandleSignal
  <2>2. CASE count > 0 /\ bridge = "none"
    <3>1. forceFirst' = TRUE /\ UNCHANGED <<passed, sent, grace>>
      BY <1>1, <2>2 DEF GuardInv, GuardTypes, Drain, HandleSignal, NothingSent, gateVars
    <3> QED
      BY <2>1, <2>2, <3>1 DEF GuardInv, GuardTypes, MayPass
  <2>3. CASE count > 0 /\ bridge # "none"
    <3>1. ForceGroup /\ UNCHANGED <<passed, forceFirst>>
      BY <1>1, <2>3 DEF GuardInv, GuardTypes, Drain, HandleSignal, gateVars
    <3>2. /\ sent' = sent \cup {"kill"} \/ sent' = sent
          /\ grace' = grace /\ count' > 1
      BY <2>1, <2>3, <3>1, ForceForm DEF GuardInv, GuardTypes
    <3>3. expected' \in Nat /\ inbox' \in Nat /\ count' \in Nat /\ markers' \in Nat
      BY <2>1 DEF GuardInv, GuardTypes
    <3>4. sent' \subseteq {"term", "kill"}
      <4>1. CASE sent' = sent
        BY <4>1 DEF GuardInv, GuardTypes
      <4>2. CASE sent' = sent \cup {"kill"}
        BY <4>2 DEF GuardInv, GuardTypes
      <4> QED
        BY <3>2, <4>1, <4>2
    <3>5. passed' \in BOOLEAN /\ deadline' \in BOOLEAN /\ forceFirst' \in BOOLEAN
      BY <2>1, <3>1, Zenon DEF GuardInv, GuardTypes
    <3>6. GuardTypes'
      BY <3>3, <3>5, <3>4 DEF GuardTypes
    <3>7. MayPass' <=> MayPass
      BY <2>1 DEF MayPass
    <3>8. "term" \in sent' => "term" \in sent
      BY <3>2
    <3> QED
      BY <2>1, <3>1, <3>2, <3>6, <3>8, <3>7 DEF GuardInv
  <2>4. CASE count = 0 /\ Started(markers, calm) /\ ~passed
    <3>1. passed' = TRUE /\ Forward /\ UNCHANGED forceFirst
      BY <1>1, <2>4 DEF Drain, HandleSignal
    <3>2. markers > 0 /\ markers >= expected
      BY <2>4 DEF GuardInv, GuardTypes, Started
    <3>3. /\ sent' = sent \cup {"term"}
          /\ grace = "over" => grace' = "over"
      BY <3>1, ForwardForm
    <3>4. GuardTypes' /\ MayPass'
      BY <2>1, <3>1, <3>2, <3>3 DEF GuardInv, GuardTypes, MayPass
    <3>5. "kill" \in sent' => "kill" \in sent
      BY <3>3
    <3> QED
      BY <2>1, <2>4, <3>1, <3>3, <3>4, <3>5 DEF GuardInv, GuardTypes
  <2>5. CASE count = 0 /\ ~(Started(markers, calm) /\ ~passed)
    <3>1. UNCHANGED <<passed, forceFirst, sent, grace>>
      BY <1>1, <2>5 DEF Drain, HandleSignal, NothingSent
    <3> QED
      BY <2>1, <2>5, <3>1 DEF GuardInv, GuardTypes, MayPass
  <2> QED
    BY <2>2, <2>3, <2>4, <2>5 DEF GuardInv, GuardTypes
<1>2. CASE SpawnBridge
  BY <1>2 DEF GuardInv, GuardTypes, MayPass, SpawnBridge, gateVars
<1>3. CASE GuardTick
  <2>1. /\ passed' = TRUE /\ Forward
        /\ UNCHANGED <<expected, inbox, count, forceFirst, markers, deadline, relay>>
    BY <1>3 DEF GuardTick, mainVars
  <2>2. MayPass
    BY <1>3 DEF GuardInv, GuardTypes, GuardTick, Takes, Started, MayPass
  <2> QED
    BY <2>1, <2>2, ForwardForm DEF GuardInv, GuardTypes, MayPass
<1>4. CASE GraceIsOver
  <2>1. /\ ForceGroup /\ grace = "over"
        /\ UNCHANGED <<expected, inbox, count, forceFirst, passed, markers, deadline, relay>>
    BY <1>4 DEF GraceIsOver, mainVars, gateVars
  <2> QED
    BY <2>1, ForceForm DEF GuardInv, GuardTypes, MayPass
<1>5. CASE RelayReads
  <2>1. /\ markers' = markers + 1
        /\ UNCHANGED <<expected, inbox, count, forceFirst, deadline, grace, sent>>
    BY <1>5 DEF RelayReads, mainVars
  <2>2. CASE Takes(pending, markers + 1, FALSE)
    <3>1. passed' = TRUE /\ relay' = "forward" /\ deadline
      BY <1>5, <2>2 DEF GuardInv, GuardTypes, RelayReads, Takes, Started
    <3> QED
      BY <2>1, <3>1 DEF GuardInv, GuardTypes, MayPass
  <2>3. CASE ~Takes(pending, markers + 1, FALSE)
    <3>1. UNCHANGED <<passed, relay>>
      BY <1>5, <2>3 DEF RelayReads
    <3> QED
      BY <2>1, <3>1 DEF GuardInv, GuardTypes, MayPass
  <2> QED
    BY <2>2, <2>3
<1>6. CASE RelayForwards
  <2>1. /\ relay = "forward" /\ relay' = "reading" /\ Forward
        /\ UNCHANGED <<expected, inbox, count, forceFirst, passed, markers, deadline>>
    BY <1>6 DEF RelayForwards, mainVars, gateVars
  <2> QED
    BY <2>1, ForwardForm DEF GuardInv, GuardTypes, MayPass
<1>7. CASE Reap \/ GuardReturns \/ SpawnFails \/ Prints \/ Ends \/ Quiet
  <2>1. UNCHANGED <<expected, inbox, count, passed, markers, deadline, forceFirst, relay, grace, sent>>
    BY <1>7 DEF Reap, GuardReturns, SpawnFails, Prints, Ends, Quiet, mainVars, gateVars
  <2> QED
    BY <2>1 DEF GuardInv, GuardTypes, MayPass
<1>8. CASE Arrives
  <2>1. /\ UNCHANGED <<expected, count, passed, markers, deadline, forceFirst, relay, grace, sent>>
        /\ inbox' = inbox + 1
    BY <1>8 DEF Arrives, gateVars
  <2> QED
    BY <2>1 DEF GuardInv, GuardTypes, MayPass
<1>9. CASE DeadlinePasses
  <2>1. UNCHANGED <<expected, inbox, count, passed, markers, forceFirst, relay, grace, sent>>
    BY <1>9 DEF DeadlinePasses, mainVars, gateVars
  <2>2. deadline' /\ deadline' \in BOOLEAN
    BY <1>9, Zenon DEF DeadlinePasses
  <2> QED
    BY <2>1, <2>2 DEF GuardInv, GuardTypes, MayPass
<1>10. CASE GracePasses
  BY <1>10 DEF GuardInv, GuardTypes, MayPass, GracePasses, mainVars, gateVars
<1>11. CASE UNCHANGED guardVars
  BY <1>11 DEF GuardInv, GuardTypes, MayPass, guardVars
<1> QED
  BY <1>1, <1>2, <1>3, <1>4, <1>5, <1>6, <1>7, <1>8, <1>9, <1>10, <1>11
  DEF GuardNext, Main, Relay, Deadlines

(* The bridge is protected in its start-up: SIGTERM reaches it only when every *)
(* announced bridge was seen or the deadline has passed, whether the main loop, *)
(* the handling of a signal or the relay sends it, and SIGKILL only when       *)
(* somebody insisted or the grace period is over.                              *)
THEOREM BridgeIsProtected == GuardSpec => []GuardKeeps
<1>1. GuardInv => GuardKeeps
  BY DEF GuardInv, GuardKeeps, MayPass
<1> QED
  BY <1>1, GuardInvInit, GuardInvStep, PTL DEF GuardSpec
=============================================================================
