--------------------------- MODULE OperatorRefresh ---------------------------
(***************************************************************************)
(* Admission of calls on one SSH forward, and the operator refresh.        *)
(*                                                                         *)
(* Adapters (GenericROS2Adapter) that reach one robot share the forward    *)
(* and its CallGate (ssh_transport.py). A Job is a host thread in          *)
(* invoke(); an Operator is a thread in reconnect(): it pauses the gate,   *)
(* safe stops what is admitted, and only then tears the link down.         *)
(*                                                                         *)
(* What happens below an admitted call is RosbridgeGoals; here a call      *)
(* sends one goal, and a safe stop that succeeds ends every goal its       *)
(* adapter counts as active. So what goes wrong here goes wrong even with  *)
(* a stop that always works.                                               *)
(***************************************************************************)
EXTENDS FiniteSets

CONSTANTS
    Adapter,     \* adapters on the forward
    Job,         \* host threads, each with one actuating call
    Operator,    \* operator threads, each refreshing once
    JobAdapter,  \* JobAdapter[j]: the adapter job j calls
    OpAdapter,   \* OpAdapter[o]: the adapter operator o refreshes
    NoOp         \* nobody holds an adapter's _refresh_lock

ASSUME AdapterAssumption ==
    /\ JobAdapter \in [Job -> Adapter]
    /\ OpAdapter \in [Operator -> Adapter]
    /\ NoOp \notin Operator

VARIABLES
    forward,     \* the forward is connected (ManagedTunnel.connected)
    link,        \* link[a]: the rosbridge session of adapter a is connected
    paused,      \* CallGate._paused
    admitted,    \* CallGate._active, the actuating calls
    lock,        \* lock[a]: who holds _refresh_lock of adapter a
    active,      \* jobs whose goal the adapter can cancel (_active_actions)
    goal,        \* goal[j]: "none", "driving" or "ended", on the robot
    pc, out,     \* jobs
    opc, todo, confirmed,   \* operators: place, adapters to stop, all stopped
    early,       \* history: early[o]: goals the pause of operator o found driving and active
    torn,        \* history: torn[o]: goals that were driving when o tore the forward down
    lost         \* history: lost[j]: "no", or how the session that carries goal j
                 \* went when it was replaced: "down" already, or still "up"

gate == <<paused, admitted>>
jobs == <<pc, out>>
ops  == <<opc, todo, confirmed>>
hist == <<early, torn, lost>>
vars == <<forward, link, paused, admitted, lock, active, goal, pc, out, opc, todo, confirmed,
          early, torn, lost>>

Refreshing(o) == opc[o] \in {"stop", "tear", "wait"}
On(a)         == {j \in Job : JobAdapter[j] = a}
Moving        == {j \in Job : goal[j] = "driving"}

Step(j, from, to)  == pc[j] = from /\ pc' = [pc EXCEPT ![j] = to]
OStep(o, from, to) == opc[o] = from /\ opc' = [opc EXCEPT ![o] = to]

-----------------------------------------------------------------------------
Init ==
    /\ forward = TRUE /\ link = [a \in Adapter |-> TRUE]
    /\ paused = FALSE /\ admitted = {}
    /\ lock = [a \in Adapter |-> NoOp]
    /\ active = {} /\ goal = [j \in Job |-> "none"]
    /\ pc = [j \in Job |-> "idle"] /\ out = [j \in Job |-> "none"]
    /\ opc = [o \in Operator |-> "idle"] /\ todo = [o \in Operator |-> {}]
    /\ confirmed = [o \in Operator |-> TRUE]
    /\ early = [o \in Operator |-> {}] /\ torn = [o \in Operator |-> {}]
    /\ lost = [j \in Job |-> "no"]

-----------------------------------------------------------------------------
(* invoke(), on job j.                                                      *)

\* _link_unavailable(): fail fast without the forward, reopen a dropped link.
Call(j) ==
    \/ /\ ~forward
       /\ Step(j, "idle", "done") /\ out' = [out EXCEPT ![j] = "refused"]
       /\ UNCHANGED <<forward, link, gate, lock, active, goal, ops, hist>>
    \/ /\ forward
       /\ Step(j, "idle", IF link[JobAdapter[j]] THEN "gate" ELSE "reopen")
       /\ UNCHANGED <<forward, link, gate, lock, active, goal, out, ops, hist>>

\* RosbridgeROS2Backend.reconnect(): whatever session adapter a has is closed,
\* and its goals are nobody's any more.
NewSession(a) ==
    /\ link' = [link EXCEPT ![a] = TRUE]
    /\ active' = active \ On(a)
    /\ lost' = [j \in Job |-> IF j \notin active \cap On(a) \cap Moving THEN lost[j]
                              ELSE IF link[a] THEN "up" ELSE "down"]

Reopen(j) ==
    /\ forward
    /\ Step(j, "reopen", "gate")
    /\ NewSession(JobAdapter[j])
    /\ UNCHANGED <<forward, gate, lock, goal, out, ops, early, torn>>

\* rosbridge does not answer through the forward.
ReopenFails(j) ==
    /\ Step(j, "reopen", "done")
    /\ out' = [out EXCEPT ![j] = "refused"]
    /\ UNCHANGED <<forward, link, gate, lock, active, goal, ops, hist>>

\* CallGate.begin()
Begin(j) ==
    \/ /\ paused
       /\ Step(j, "gate", "done") /\ out' = [out EXCEPT ![j] = "refused"]
       /\ UNCHANGED <<forward, link, gate, lock, active, goal, ops, hist>>
    \/ /\ ~paused
       /\ Step(j, "gate", "preflight")
       /\ admitted' = admitted \cup {j}
       /\ UNCHANGED <<forward, link, paused, lock, active, goal, out, ops, hist>>

\* _motion_preflight(): the deployment, the odometry, the LiDAR or the path may refuse.
Refuse(j) == Step(j, "preflight", "end") /\ out' = [out EXCEPT ![j] = "refused"]

\* _invoke() up to the goal: declaration, preflight, plan, observation.
Preflight(j) ==
    \/ Step(j, "preflight", "send") /\ UNCHANGED out
       /\ UNCHANGED <<forward, link, gate, lock, active, goal, ops, hist>>
    \/ Refuse(j) /\ UNCHANGED <<forward, link, gate, lock, active, goal, ops, hist>>

Send(j) ==
    \/ /\ link[JobAdapter[j]]
       /\ Step(j, "send", "wait")
       /\ active' = active \cup {j}
       /\ goal' = [goal EXCEPT ![j] = "driving"]
       /\ UNCHANGED <<forward, link, gate, lock, out, ops, hist>>
    \/ /\ ~link[JobAdapter[j]]
       /\ Step(j, "send", "end") /\ out' = [out EXCEPT ![j] = "refused"]
       /\ UNCHANGED <<forward, link, gate, lock, active, goal, ops, hist>>

\* The result arrives, or the connection drops or the deadline passes first.
Wait(j) ==
    \/ /\ goal[j] = "ended" /\ j \in active
       /\ Step(j, "wait", "end") /\ out' = [out EXCEPT ![j] = "ended"]
       /\ active' = active \ {j}
       /\ UNCHANGED <<forward, link, gate, lock, goal, ops, hist>>
    \/ /\ Step(j, "wait", "end") /\ out' = [out EXCEPT ![j] = "timeout"]
       /\ UNCHANGED <<forward, link, gate, lock, active, goal, ops, hist>>

\* CallGate.end()
End(j) ==
    /\ Step(j, "end", "done")
    /\ admitted' = admitted \ {j}
    /\ UNCHANGED <<forward, link, paused, lock, active, goal, out, ops, hist>>

-----------------------------------------------------------------------------
(* reconnect(), on operator o.                                              *)

\* Mutant: the calls are taken for their adapters.
PauseTokens(o) ==
    LET a == OpAdapter[o] IN
    /\ lock[a] = NoOp
    /\ OStep(o, "idle", "stop")
    /\ lock' = [lock EXCEPT ![a] = o]
    /\ paused' = TRUE
    /\ todo' = [todo EXCEPT ![o] = admitted]
    /\ early' = [early EXCEPT ![o] = Moving \cap admitted \cap active]
    /\ UNCHANGED <<forward, link, admitted, active, goal, jobs, confirmed, torn, lost>>

\* Mutant: only the refreshing adapter is stopped.
PauseOwn(o) ==
    LET a == OpAdapter[o] IN
    /\ lock[a] = NoOp
    /\ OStep(o, "idle", "stop")
    /\ lock' = [lock EXCEPT ![a] = o]
    /\ paused' = TRUE
    /\ todo' = [todo EXCEPT ![o] = {a}]
    /\ early' = [early EXCEPT ![o] = Moving \cap admitted \cap active]
    /\ UNCHANGED <<forward, link, admitted, active, goal, jobs, confirmed, torn, lost>>

\* The adapter's own lock, then CallGate.pause(): the adapters with an
\* admitted actuating call are to be stopped.
Pause(o) ==
    LET a == OpAdapter[o] IN
    /\ lock[a] = NoOp
    /\ OStep(o, "idle", "stop")
    /\ lock' = [lock EXCEPT ![a] = o]
    /\ paused' = TRUE
    /\ todo' = [todo EXCEPT ![o] = {JobAdapter[j] : j \in admitted}]
    /\ early' = [early EXCEPT ![o] = Moving \cap admitted \cap active]
    /\ UNCHANGED <<forward, link, admitted, active, goal, jobs, confirmed, torn, lost>>

\* safe_stop() of one adapter: it needs the forward and the session, and
\* cmd_vel on the graph; it ends the goals that are active.
Stop(o) ==
    /\ opc[o] = "stop"
    /\ \E a \in todo[o], ok \in BOOLEAN :
        /\ ok => forward /\ link[a]
        /\ todo' = [todo EXCEPT ![o] = @ \ {a}]
        /\ confirmed' = [confirmed EXCEPT ![o] = @ /\ ok]
        /\ goal' = IF ok THEN [j \in Job |-> IF j \in active \cap On(a) THEN "ended" ELSE goal[j]]
                   ELSE goal
    /\ UNCHANGED <<forward, link, gate, lock, active, jobs, opc, hist>>

\* Mutant: an unconfirmed stop does not refuse the refresh.
DecideAnyway(o) ==
    /\ todo[o] = {}
    /\ OStep(o, "stop", "tear")
    /\ UNCHANGED <<forward, link, gate, lock, active, goal, jobs, todo, confirmed, hist>>

\* Mutant: the refusal returns outside the try.
DecideReturns(o) ==
    /\ todo[o] = {}
    /\ OStep(o, "stop", IF confirmed[o] THEN "tear" ELSE "idle2")
    /\ UNCHANGED <<forward, link, gate, lock, active, goal, jobs, todo, confirmed, hist>>

\* An unconfirmed stop refuses the refresh; the link is left as it was.
Decide(o) ==
    /\ todo[o] = {}
    /\ OStep(o, "stop", IF confirmed[o] THEN "tear" ELSE "resume")
    /\ UNCHANGED <<forward, link, gate, lock, active, goal, jobs, todo, confirmed, hist>>

\* Mutant: the gate is resumed before the link is back.
TearResumes(o) ==
    /\ OStep(o, "tear", "wait")
    /\ forward' = FALSE
    /\ paused' = FALSE
    /\ torn' = [torn EXCEPT ![o] = Moving]
    /\ UNCHANGED <<link, admitted, lock, active, goal, jobs, todo, confirmed, early, lost>>

\* ManagedTunnel.refresh(): the forward is down at once.
Tear(o) ==
    /\ OStep(o, "tear", "wait")
    /\ forward' = FALSE
    /\ torn' = [torn EXCEPT ![o] = Moving]
    /\ UNCHANGED <<link, gate, lock, active, goal, jobs, todo, confirmed, early, lost>>

\* wait_connected() ended: reopen the session, or drop it.
Rebuild(o) ==
    LET a == OpAdapter[o] IN
    /\ OStep(o, "wait", "resume")
    /\ \/ forward /\ NewSession(a)
       \/ ~forward /\ link' = [link EXCEPT ![a] = FALSE] /\ UNCHANGED <<active, lost>>
    /\ UNCHANGED <<forward, gate, lock, goal, jobs, todo, confirmed, early, torn>>

\* finally: CallGate.resume(), and the lock is released.
Resume(o) ==
    /\ OStep(o, "resume", "idle2")
    /\ paused' = FALSE
    /\ lock' = [lock EXCEPT ![OpAdapter[o]] = NoOp]
    /\ UNCHANGED <<forward, link, admitted, active, goal, jobs, todo, confirmed, hist>>

-----------------------------------------------------------------------------
(* The forward's supervisor (SshTunnel), the network and the robot.         *)

ForwardDrops ==
    /\ forward /\ forward' = FALSE
    /\ UNCHANGED <<link, gate, lock, active, goal, jobs, ops, hist>>

ForwardReturns ==
    /\ ~forward /\ forward' = TRUE
    /\ UNCHANGED <<link, gate, lock, active, goal, jobs, ops, hist>>

LinkDrops(a) ==
    /\ link[a] /\ link' = [link EXCEPT ![a] = FALSE]
    /\ UNCHANGED <<forward, gate, lock, active, goal, jobs, ops, hist>>

GoalEnds(j) ==
    /\ goal[j] = "driving" /\ goal' = [goal EXCEPT ![j] = "ended"]
    /\ UNCHANGED <<forward, link, gate, lock, active, jobs, ops, hist>>

-----------------------------------------------------------------------------
JobStep(j) ==
    Reopen(j) \/ ReopenFails(j) \/ Begin(j) \/ Preflight(j) \/ Send(j) \/ Wait(j) \/ End(j)

OpStep(o) == Stop(o) \/ Decide(o) \/ Tear(o) \/ Rebuild(o) \/ Resume(o)

Next ==
    \/ \E j \in Job : Call(j) \/ JobStep(j) \/ GoalEnds(j)
    \/ \E o \in Operator : Pause(o) \/ OpStep(o)
    \/ ForwardDrops \/ ForwardReturns
    \/ \E a \in Adapter : LinkDrops(a)

Spec == Init /\ [][Next]_vars

\* A refresh that began runs on: every wait in it is bounded (safe_stop() by
\* its cancels' three seconds, wait_connected() by ready_timeout_s).
FairSpec == Spec /\ \A o \in Operator : WF_vars(OpStep(o))

-----------------------------------------------------------------------------
TypeOK ==
    /\ forward \in BOOLEAN /\ link \in [Adapter -> BOOLEAN]
    /\ paused \in BOOLEAN /\ admitted \subseteq Job
    /\ lock \in [Adapter -> Operator \cup {NoOp}]
    /\ active \subseteq Job /\ goal \in [Job -> {"none", "driving", "ended"}]
    /\ pc \in [Job -> {"idle", "reopen", "gate", "preflight", "send", "wait", "end", "done"}]
    /\ out \in [Job -> {"none", "refused", "ended", "timeout"}]
    /\ opc \in [Operator -> {"idle", "stop", "tear", "wait", "resume", "idle2"}]
    /\ todo \in [Operator -> SUBSET Adapter] /\ confirmed \in [Operator -> BOOLEAN]
    /\ early \in [Operator -> SUBSET Job] /\ torn \in [Operator -> SUBSET Job]
    /\ lost \in [Job -> {"no", "down", "up"}]

\* CallGate: an operator refresh "stops the actuating calls still running, and
\* only then tears the link down". A goal that a refresh found driving, in a call
\* that its adapter could cancel, was stopped before this refresh took the
\* forward down, or its session had been replaced in between. (A call that was
\* admitted but had sent nothing when it was to be stopped still drives then.)
FoundMotionIsStopped == \A o \in Operator : \A j \in torn[o] \cap early[o] : lost[j] # "no"

\* CallGate: a refresh "pauses the gate (new calls fail fast)". No call is
\* admitted between the pause and the end of a refresh.
GateHoldsDuringRefresh == (\E o \in Operator : Refreshing(o)) => paused

\* A refresh admits nobody while it lasts and tears nothing it could not stop:
\* with an unconfirmed stop "the link was left as it is".
RefreshKeepsTheLink ==
    [][/\ GateHoldsDuringRefresh'
       /\ \A o \in Operator : ~confirmed[o] /\ OpStep(o) => UNCHANGED <<forward, link, active>>]_vars

\* The gate reopens however the refresh went.
GateReopens == paused ~> ~paused
=============================================================================
