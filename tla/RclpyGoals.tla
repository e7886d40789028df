------------------------------ MODULE RclpyGoals ------------------------------
(* The goals one RclpyROS2Backend (generic_ros2_adapter.py) has on the robot.  *)
(* Unlike the rosbridge transport it keeps a goal handle and a result future   *)
(* per call, and nothing is read from a socket: one background thread, the     *)
(* executor, completes futures and runs callbacks for the adapter's whole      *)
(* life. When it ends, messages can still be sent but nothing is answered.     *)
(*                                                                             *)
(* For each drive a host thread runs invoke(), and runs it again after a       *)
(* timeout; other threads run cancel() and safe_stop(); the host reconnects.   *)
(* A goal is <<call, number>>, numbered as the host sends it. Deadlines may    *)
(* pass whenever their wait blocks. The action server is what the code         *)
(* assumes of it, and disconnect(), after which the node is gone, is left out. *)
EXTENDS Integers

CONSTANTS
    Drive,          \* call ids, each invoked by a host thread of its own
    Watched,        \* the drives that get a braking guard
    Withdrawers,    \* threads that cancel one call or safe stop the robot
    MaxRuns,        \* invokes of a drive: the first and its retries
    MaxReconnects

ASSUME RclpyAssumption ==
    /\ Watched \subseteq Drive /\ Drive \cap Withdrawers = {}
    /\ MaxRuns \in Nat /\ MaxReconnects \in Nat

VARIABLES
    linked,         \* _connected
    spinning,       \* the executor thread is alive
    clearing,       \* reconnect() has dropped the goals, the new executor is not up
    reconnects,
    issued,         \* issued[d]: how many goals were sent for d
    fate,           \* fate[g]: the goal on its action server
    admitted,       \* goals whose acceptance the executor has delivered
    ended,          \* ended[g]: the status its result future holds, 0 before
    requests,       \* cancels on their way to the server: <<who, goal>>
    handle,         \* _goal_handles: a goal's number, 0 for none
    future,         \* _result_futures
    watch,          \* _guards
    results,        \* _results
    runs, at, mine, judged,     \* the invoking threads
    rat, stopping, revoked, verdict, left \* the cancelling and stopping threads

RclpyGoal == Drive \X (1..MaxRuns)
Unwatched == [on |-> FALSE, tripped |-> FALSE, sent |-> FALSE]
Armed     == [on |-> TRUE, tripped |-> FALSE, sent |-> FALSE]

VARIABLES
    askedOf,        \* history: goals a cancel was requested for
    unfollowed,     \* history: goals whose acceptance was waited for in vain
    dropped,        \* history: goals sent before a reconnect
    crossed,        \* history: drives withdrawn since their invoke() began
    overtaken       \* history: goals whose invoke() a withdrawal had crossed by then, or
                    \* that a stop found beside the result of the goal before

linkState  == <<linked, spinning, clearing, reconnects>>
goalState  == <<issued, fate, admitted, ended>>
heldState  == <<handle, future>>
runState   == <<runs, at, mine, judged>>
haltState  == <<rat, stopping, revoked, verdict, left>>
pastState  == <<askedOf, unfollowed, dropped, crossed, overtaken>>
rclpyVars  == <<linkState, goalState, requests, heldState, watch, results, runState, haltState,
                pastState>>

RclpyInit ==
    /\ linked = TRUE /\ spinning = TRUE /\ clearing = FALSE /\ reconnects = 0
    /\ issued = [d \in Drive |-> 0]
    /\ fate = [g \in RclpyGoal |-> "none"] /\ ended = [g \in RclpyGoal |-> 0]
    /\ admitted = {} /\ requests = {}
    /\ handle = [d \in Drive |-> 0] /\ future = [d \in Drive |-> 0]
    /\ watch = [d \in Drive |-> Unwatched]
    /\ results = [d \in Drive |-> "none"]
    /\ runs = [d \in Drive |-> 0] /\ at = [d \in Drive |-> "idle"]
    /\ mine = [d \in Drive |-> 0] /\ judged = [d \in Drive |-> "none"]
    /\ rat = [k \in Withdrawers |-> "idle"] /\ stopping = [k \in Withdrawers |-> FALSE]
    /\ revoked = [k \in Withdrawers |-> <<>>]
    /\ verdict = [k \in Withdrawers |-> "none"] /\ left = [k \in Withdrawers |-> {}]
    /\ askedOf = {} /\ unfollowed = {} /\ dropped = {} /\ crossed = {} /\ overtaken = {}

\* A thread's place: where it is in its call, or what the call has told the host.
Returned == {"idle", "refused", "timeout", "raised", "completed", "failed", "cancelled"}

Goes(d, from, to) == at[d] = from /\ at' = [at EXCEPT ![d] = to]
RGoes(k, from, to) == rat[k] = from /\ rat' = [rat EXCEPT ![k] = to]

\* _forget_goal(): by call id, whichever goal that is by now.
Forget(d) ==
    /\ handle' = [handle EXCEPT ![d] = 0] /\ future' = [future EXCEPT ![d] = 0]
    /\ watch' = [watch EXCEPT ![d] = Unwatched]

Request(who, g) == requests' = requests \cup {<<who, g>>} /\ askedOf' = askedOf \cup {g}

-----------------------------------------------------------------------------
(* invoke() of one drive.                                                   *)

\* The adapter arms the guard; "a resumed call keeps the guard it started with".
RclpyArm(d) ==
    /\ runs[d] < MaxRuns
    /\ at[d] \in Returned /\ at' = [at EXCEPT ![d] = "look"]
    /\ runs' = [runs EXCEPT ![d] = @ + 1]
    /\ watch' = IF results[d] = "none" /\ d \in Watched /\ ~watch[d].on
                THEN [watch EXCEPT ![d] = Armed] ELSE watch
    /\ crossed' = crossed \ {d}
    /\ UNCHANGED <<linkState, goalState, requests, heldState, results, mine, judged, haltState,
                   askedOf, unfollowed, dropped, overtaken>>

\* Refused without an executor, answered from a kept result, resumed, or new.
LookUp(d) ==
    /\ \/ ~linked /\ Goes(d, "look", "refused")
       \/ linked /\ results[d] # "none" /\ Goes(d, "look", results[d])
       \/ /\ linked /\ results[d] = "none"
          /\ Goes(d, "look", IF handle[d] # 0 THEN "fetch" ELSE "issue")
         
    /\ UNCHANGED <<linkState, goalState, requests, heldState, watch, results, runs, mine,
                   judged, haltState, pastState>>

NoServer(d) ==
    /\ Goes(d, "issue", "refused")
    /\ UNCHANGED <<linkState, goalState, requests, heldState, watch, results, runs, mine,
                   judged, haltState, pastState>>

Withdrawing(d) ==
    \E k \in Withdrawers :
        d \in left[k] \/ (rat[k] \in {"await", "forget", "keep", "drop"} /\ revoked[k][1] = d)

\* send_goal_async: the request leaves whether or not an executor spins.
Issue(d) ==
    LET g == <<d, issued[d] + 1>> IN
    /\ Goes(d, "issue", "accepting")
    /\ issued' = [issued EXCEPT ![d] = @ + 1]
    /\ fate' = [fate EXCEPT ![g] = "sent"]
    /\ mine' = [mine EXCEPT ![d] = issued[d] + 1]
    /\ overtaken' = IF Withdrawing(d) \/ d \in crossed THEN overtaken \cup {g} ELSE overtaken
    /\ UNCHANGED <<linkState, admitted, ended, requests, heldState, watch, results, runs,
                   judged, haltState, askedOf, unfollowed, dropped, crossed>>

\* Two seconds without an answer: TIMEOUT, and no handle of the goal is kept.
AcceptanceLapses(d) ==
    LET g == <<d, mine[d]>> IN
    /\ g \notin admitted
    /\ Goes(d, "accepting", "timeout")
    /\ unfollowed' = unfollowed \cup {g}
    /\ UNCHANGED <<linkState, goalState, requests, heldState, watch, results, runs, mine,
                   judged, haltState, askedOf, dropped, crossed, overtaken>>

Rejected(d) ==
    /\ Goes(d, "accepting", "refused")
    /\ <<d, mine[d]>> \in admitted /\ fate[<<d, mine[d]>>] = "rejected"
    /\ UNCHANGED <<linkState, goalState, requests, heldState, watch, results, runs, mine,
                   judged, haltState, pastState>>

\* From here cancel() and safe_stop() know the goal; its result is asked for next.
HoldHandle(d) ==
    /\ Goes(d, "accepting", "request")
    /\ <<d, mine[d]>> \in admitted /\ fate[<<d, mine[d]>>] # "rejected"
    /\ handle' = [handle EXCEPT ![d] = mine[d]]
    /\ UNCHANGED <<linkState, goalState, requests, future, watch, results, runs, mine, judged,
                   haltState, pastState>>

HoldFuture(d) ==
    /\ Goes(d, "request", "fetch")
    /\ future' = [future EXCEPT ![d] = mine[d]]
    /\ UNCHANGED <<linkState, goalState, requests, handle, watch, results, runs, mine, judged,
                   haltState, pastState>>

\* _result_futures[call_id] is read again: a withdrawal that popped it in
\* between ends invoke() in a KeyError.
FetchFuture(d) ==
    /\ \/ future[d] = 0 /\ Goes(d, "fetch", "raised") /\ UNCHANGED mine
       \/ /\ future[d] # 0 /\ Goes(d, "fetch", "wait")
          /\ mine' = [mine EXCEPT ![d] = future[d]]
    /\ UNCHANGED <<linkState, goalState, requests, heldState, watch, results, runs, judged,
                   haltState, pastState>>

(* _await_guarded(): the result, the deadline, or the tripped guard.        *)

\* Mutant: a drive that timed out is dropped.
DeadlinePassesDrops(d) ==
    /\ Goes(d, "wait", "timeout")
    /\ ended[<<d, mine[d]>>] = 0
    /\ Forget(d)
    /\ UNCHANGED <<linkState, goalState, requests, results, runs, mine, judged, haltState,
                   pastState>>

\* The goal keeps its handle, its future and its guard for a retry.
DeadlinePasses(d) ==
    /\ Goes(d, "wait", "timeout")
    /\ ended[<<d, mine[d]>>] = 0
    /\ UNCHANGED <<linkState, goalState, requests, heldState, watch, results, runs, mine,
                   judged, haltState, pastState>>

TripSeen(d) ==
    /\ Goes(d, "wait", "brake")
    /\ ended[<<d, mine[d]>>] = 0
    /\ watch[d].on /\ watch[d].tripped /\ ~watch[d].sent
    /\ watch' = [watch EXCEPT ![d].sent = TRUE]
    /\ UNCHANGED <<linkState, goalState, requests, heldState, results, runs, mine, judged,
                   haltState, pastState>>

\* Zero velocity, then a cancel nobody waits for, of whatever goal is held now.
TripCancels(d) ==
    /\ Goes(d, "brake", "wait")
    /\ IF handle[d] # 0 THEN Request(d, <<d, handle[d]>>) ELSE UNCHANGED <<requests, askedOf>>
    /\ UNCHANGED <<linkState, goalState, heldState, watch, results, runs, mine, judged,
                   haltState, unfollowed, dropped, crossed, overtaken>>

\* The result is there: a braked drive is held at zero until it stands.
Conclude(d) ==
    LET s == ended[<<d, mine[d]>>] IN
    /\ Goes(d, "wait", "drop")
    /\ s # 0
    /\ judged' = [judged EXCEPT ![d] = CASE s = 4 -> "completed"
                                         [] s # 4 /\ watch[d].tripped -> "failed"
                                         [] s = 5 /\ ~watch[d].tripped -> "cancelled"
                                         [] OTHER -> "failed"]
    /\ UNCHANGED <<linkState, goalState, requests, heldState, watch, results, runs, mine,
                   haltState, pastState>>

DropGoal(d) ==
    /\ Goes(d, "drop", "keep")
    /\ Forget(d)
    /\ UNCHANGED <<linkState, goalState, requests, results, runs, mine, judged, haltState,
                   pastState>>

KeepResult(d) ==
    /\ Goes(d, "keep", judged[d])
    /\ results' = [results EXCEPT ![d] = judged[d]]
    /\ judged' = [judged EXCEPT ![d] = "none"]
    /\ UNCHANGED <<linkState, goalState, requests, heldState, watch, runs, mine, haltState,
                   pastState>>

-----------------------------------------------------------------------------
(* cancel(), by a revoker of its own accord or by a safe stop in turn.      *)

AskCancel(k, d) ==
    /\ revoked' = [revoked EXCEPT ![k] = <<d, handle[d]>>]
    /\ verdict' = [verdict EXCEPT ![k] = "none"]
    /\ Request(k, <<d, handle[d]>>)

RevokeBegins(k, d) ==
    /\ \/ /\ handle[d] = 0 /\ RGoes(k, "idle", "refused")
          /\ UNCHANGED <<revoked, verdict, requests, askedOf>>
       \/ handle[d] # 0 /\ RGoes(k, "idle", "await") /\ AskCancel(k, d)
    /\ UNCHANGED <<linkState, goalState, heldState, watch, results, runState, stopping, left,
                   unfollowed, dropped, crossed, overtaken>>

\* Two seconds, or "goals_canceling" empty, or no topic to send zero on: not
\* confirmed. cancel() keeps the goal then; a safe stop drops it all the same.
RevokeFails(k) ==
    /\ \/ ~stopping[k] /\ RGoes(k, "await", "failed")
       \/ stopping[k] /\ RGoes(k, "await", "drop")
    /\ UNCHANGED <<linkState, goalState, requests, heldState, watch, results, runState,
                   stopping, revoked, verdict, left, pastState>>

RevokeConfirmed(k) ==
    /\ spinning /\ verdict[k] = "canceling"
    /\ RGoes(k, "await", "forget")
    /\ UNCHANGED <<linkState, goalState, requests, heldState, watch, results, runState,
                   stopping, revoked, verdict, left, pastState>>

RevokeForgets(k) ==
    /\ RGoes(k, "forget", "keep")
    /\ Forget(revoked[k][1])
    /\ crossed' = crossed \cup {revoked[k][1]}
    /\ UNCHANGED <<linkState, goalState, requests, results, runState, stopping, revoked,
                   verdict, left, askedOf, unfollowed, dropped, overtaken>>

RevokeKeeps(k) ==
    /\ \/ ~stopping[k] /\ RGoes(k, "keep", "cancelled")
       \/ stopping[k] /\ RGoes(k, "keep", "drop")
    /\ results' = [results EXCEPT ![revoked[k][1]] = "cancelled"]
    /\ crossed' = crossed \cup {revoked[k][1]}
    /\ UNCHANGED <<linkState, goalState, requests, heldState, watch, runState, stopping,
                   revoked, verdict, left, askedOf, unfollowed, dropped, overtaken>>

-----------------------------------------------------------------------------
(* safe_stop(): zero first, then the goals it found, then zero again.       *)

HaltBegins(k) ==
    /\ RGoes(k, "idle", "each") /\ stopping' = [stopping EXCEPT ![k] = TRUE]
    /\ left' = [left EXCEPT ![k] = {d \in Drive : handle[d] # 0}]
    /\ UNCHANGED <<linkState, goalState, requests, heldState, watch, results, runState, revoked,
                   verdict, pastState>>

\* A goal whose result is there, and one somebody else has popped, needs no cancel.
\* A stop between the two assignments of a retry (3720, 3721) takes the result of
\* the goal before for that of the new one.
HaltEach(k, d) ==
    LET over == future[d] # 0 /\ ended[<<d, future[d]>>] # 0 IN
    /\ d \in left[k]
    /\ left' = [left EXCEPT ![k] = @ \ {d}]
    /\ \/ /\ ~over /\ handle[d] # 0 /\ RGoes(k, "each", "await") /\ AskCancel(k, d)
          /\ UNCHANGED overtaken
       \/ /\ over \/ handle[d] = 0
          /\ RGoes(k, "each", "drop")
          /\ revoked' = [revoked EXCEPT ![k] = <<d, handle[d]>>]
          /\ overtaken' = IF handle[d] \notin {0, future[d]} THEN overtaken \cup {<<d, handle[d]>>}
                          ELSE overtaken
          /\ UNCHANGED <<verdict, requests, askedOf>>
    /\ UNCHANGED <<linkState, goalState, heldState, watch, results, runState, stopping,
                   unfollowed, dropped, crossed>>

\* "Tried once: a goal whose cancel went unanswered (Nav2 restarted) must not
\* cost every later emergency stop another wait."
HaltDrops(k) ==
    /\ RGoes(k, "drop", "each")
    /\ Forget(revoked[k][1])
    /\ crossed' = crossed \cup {revoked[k][1]}
    /\ UNCHANGED <<linkState, goalState, requests, results, runState, stopping, revoked,
                   verdict, left, askedOf, unfollowed, dropped, overtaken>>

\* COMPLETED or FAILED, by whether a zero velocity was published and no more.
HaltEnds(k) ==
    /\ left[k] = {}
    /\ RGoes(k, "each", "stopped")
    /\ UNCHANGED <<linkState, goalState, requests, heldState, watch, results, runState,
                   stopping, revoked, verdict, left, pastState>>

-----------------------------------------------------------------------------
(* The executor, its callbacks, and the server behind it.                   *)

Backend == <<requests, heldState, results, runState, haltState, pastState>>

\* A scan trips the guard, or the waiting thread finds the scans too old.
WatchTrips(d) ==
    /\ watch[d].on /\ ~watch[d].tripped
    /\ spinning \/ at[d] = "wait"
    /\ watch' = [watch EXCEPT ![d].tripped = TRUE]
    /\ UNCHANGED <<linkState, goalState, Backend>>

Admit(g) ==
    /\ spinning /\ fate[g] \notin {"none", "sent"} /\ g \notin admitted
    /\ admitted' = admitted \cup {g}
    /\ UNCHANGED <<linkState, issued, fate, ended, watch, Backend>>

Resolve(g) ==
    /\ spinning /\ ended[g] = 0
    /\ future[g[1]] = g[2] \/ (at[g[1]] = "wait" /\ mine[g[1]] = g[2])
    /\ \/ fate[g] = "succeeded" /\ ended' = [ended EXCEPT ![g] = 4]
       \/ fate[g] = "canceled" /\ ended' = [ended EXCEPT ![g] = 5]
       \/ fate[g] = "aborted" /\ ended' = [ended EXCEPT ![g] = 6]
    /\ UNCHANGED <<linkState, issued, fate, admitted, watch, Backend>>

\* A goal preempts the one its server runs.
ServerTakes(g) ==
    /\ fate[g] = "sent"
    /\ \/ fate' = [h \in RclpyGoal |-> IF h = g THEN "running"
                                       ELSE IF fate[h] \in {"running", "canceling"} THEN "aborted"
                                       ELSE fate[h]]
       \/ fate' = [fate EXCEPT ![g] = "rejected"]
    /\ UNCHANGED <<linkState, issued, admitted, ended, watch, Backend>>

ServerEnds(g) ==
    /\ \/ fate[g] = "running" /\ \E f \in {"succeeded", "aborted"} : fate' = [fate EXCEPT ![g] = f]
       \/ fate[g] = "canceling" /\ fate' = [fate EXCEPT ![g] = "canceled"]
    /\ UNCHANGED <<linkState, issued, admitted, ended, watch, Backend>>

ServerCancels(who, g) ==
    /\ <<who, g>> \in requests
    /\ requests' = requests \ {<<who, g>>}
    /\ fate' = IF fate[g] = "running" THEN [fate EXCEPT ![g] = "canceling"] ELSE fate
    /\ verdict' = IF who \in Withdrawers /\ rat[who] = "await" /\ revoked[who] = g
                  THEN [verdict EXCEPT ![who] = IF fate[g] = "running" THEN "canceling" ELSE "no"]
                  ELSE verdict
    /\ UNCHANGED <<linkState, issued, admitted, ended, heldState, watch, results, runState, rat,
                   stopping, revoked, left, pastState>>

\* spin() raised: nothing delivers readings or results any more.
ExecutorEnds ==
    /\ spinning
    /\ spinning' = FALSE /\ linked' = FALSE
    /\ UNCHANGED <<clearing, reconnects, goalState, watch, Backend>>

\* reconnect(): "Goals sent before the drop are no longer followed by this
\* executor". The guards, and the results, stay.
ReconnectClears ==
    /\ ~linked /\ ~clearing /\ reconnects < MaxReconnects
    /\ clearing' = TRUE /\ reconnects' = reconnects + 1
    /\ handle' = [d \in Drive |-> 0] /\ future' = [d \in Drive |-> 0]
    /\ dropped' = {g \in RclpyGoal : fate[g] # "none"}
    /\ UNCHANGED <<linked, spinning, goalState, requests, watch, results, runState, haltState,
                   askedOf, unfollowed, crossed, overtaken>>

\* The node is the same: what its clients still wait for is delivered again.
ReconnectStarts ==
    /\ clearing
    /\ clearing' = FALSE /\ linked' = TRUE /\ spinning' = TRUE
    /\ UNCHANGED <<reconnects, goalState, watch, Backend>>

-----------------------------------------------------------------------------
DriveStep(d) ==
    \/ RclpyArm(d) \/ LookUp(d) \/ NoServer(d) \/ Issue(d) \/ AcceptanceLapses(d) \/ Rejected(d)
    \/ HoldHandle(d) \/ HoldFuture(d) \/ FetchFuture(d) \/ DeadlinePasses(d) \/ TripSeen(d)
    \/ TripCancels(d) \/ Conclude(d) \/ DropGoal(d) \/ KeepResult(d) \/ WatchTrips(d)

HaltStep(k) ==
    \/ \E d \in Drive : RevokeBegins(k, d) \/ HaltEach(k, d)
    \/ RevokeFails(k) \/ RevokeConfirmed(k) \/ RevokeForgets(k) \/ RevokeKeeps(k)
    \/ HaltBegins(k) \/ HaltDrops(k) \/ HaltEnds(k)

RclpyNext ==
    \/ \E d \in Drive : DriveStep(d)
    \/ \E k \in Withdrawers : HaltStep(k)
    \/ \E g \in RclpyGoal : Admit(g) \/ Resolve(g) \/ ServerTakes(g) \/ ServerEnds(g)
    \/ \E who \in Drive \cup Withdrawers, g \in RclpyGoal : ServerCancels(who, g)
    \/ ExecutorEnds \/ ReconnectClears \/ ReconnectStarts

-----------------------------------------------------------------------------
(* What the code promises.                                                  *)

InHand(g) == handle[g[1]] = g[2] \/ (at[g[1]] = "accepting" /\ mine[g[1]] = g[2])

\* ARCHITECTURE.md: "cancellation must actually withdraw/stop the active action".
\* A goal that drives is one that cancel() and safe_stop() can reach, or its cancel
\* was asked for. The code leaves three gaps: a goal whose acceptance was waited for
\* in vain, one whose call was being withdrawn as it was sent (a withdrawal forgets by
\* call id) or as its handle was put beside the future of the goal before, and what a
\* reconnect drops.
DrivingIsInHand ==
    \A g \in RclpyGoal :
        fate[g] = "running" /\ reconnects = 0 /\ g \notin unfollowed \cup overtaken
        => InHand(g) \/ g \in askedOf

\* arm_braking_guard(): "Watch the straight drive ``call_id`` against ``profile``
\* from now on". The goal a thread waits for, while it is held, has its guard, and
\* a guard that has acted has asked for that goal to be cancelled, not for an
\* earlier one. Dropping a call's goal without its guard would break it: a drive
\* that was not followed, or was overtaken, and a reconnect may leave a spent guard.
HeldIsWatched ==
    \A d \in Watched :
        /\ at[d] = "wait" /\ handle[d] = mine[d] /\ mine[d] # 0
        /\ reconnects = 0 /\ <<d, mine[d]>> \notin overtaken
        => /\ watch[d].on
           /\ watch[d].tripped /\ watch[d].sent => <<d, mine[d]>> \in askedOf

\* A drive told CANCELLED has no goal that drives on uncancelled, with the same gaps.
CancelledIsCancelled ==
    \A g \in RclpyGoal :
        results[g[1]] = "cancelled" /\ fate[g] = "running"
        => g \in unfollowed \cup overtaken \cup dropped

RclpyKeepsHold == DrivingIsInHand /\ HeldIsWatched /\ CancelledIsCancelled
===============================================================================
