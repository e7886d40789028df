---------------------------- MODULE FleetDispatch ----------------------------
(***************************************************************************)
(* Calls handed to a fleet's dispatcher: OpenRmfAdapter                    *)
(* (open_rmf_adapter.py). A caller posts a task, remembers the id the      *)
(* dispatcher gave it and reads the task's state until it has ended or the *)
(* call's deadline has passed; a canceller withdraws it by that id.        *)
(* The adapter has no lock. Between a post and its answer the dispatcher   *)
(* and the other threads go on, and either of the two may be lost.         *)
(* The dispatcher is external: it may refuse, may give no id, and chooses  *)
(* the robot. Waypoints are either usable or not.                          *)
(***************************************************************************)
EXTENDS Naturals, FiniteSets, Sequences, SequencesExt

CONSTANTS
    Caller,      \* host threads in invoke()
    FleetCall,   \* call ids
    Asked,       \* what each call may ask for: [capability, usable waypoint]
    MaxTask,     \* tasks the dispatcher hands out, at most
    Kept,        \* results kept (256 in the code)
    NoId,        \* the task of a call the dispatcher gave no id
    NoTask

Task == 1..MaxTask

ASSUME FleetAssumption ==
    /\ MaxTask \in Nat /\ Kept \in Nat
    /\ NoTask \notin FleetCall /\ NoId # NoTask /\ {NoId, NoTask} \cap Task = {}

VARIABLES
    request,     \* what each call asks for: a capability and whether its waypoint is usable
    accepts,     \* the categories the fleet says it takes
    fat, fcall, ftask,  \* each caller's place, its call, and the task it waits for
    wat, wcall, wtask,  \* the canceller's
    dispatched,  \* _dispatched: a task, NoId, or NoTask
    kept,        \* _results, oldest first
    task,        \* the dispatcher's: the call, "queued" or how it ended, and whether withdrawn
    said,        \* history: the last answer anybody got
    doubtful     \* history: calls whose answer was lost, or that two callers posted at once

callers   == <<fat, fcall, ftask>>
canceller == <<wat, wcall, wtask>>
fleetVars == <<request, accepts, callers, canceller, dispatched, kept, task, said, doubtful>>

\* CAPABILITY_TO_CATEGORY and NOT_FLEET_WORK.
Category ==
    [navigate |-> "patrol", navigate_to_waypoint |-> "patrol", dock |-> "patrol",
     load |-> "delivery", unload |-> "delivery"]
NotFleetWork == {"advance", "retreat", "rotate", "hop", "ascend", "halt"}

\* describe() of a fleet: a bound adapter declares the waypoint navigation, an
\* unbound one a robot's.
Described(bound) ==
    {c \in DOMAIN Category : Category[c] \in accepts
                             /\ c # IF bound THEN "navigate" ELSE "navigate_to_waypoint"}

\* discover_fleet_manifests(): an unbound reader's declarations, as a fleet offers them.
Discovered == {IF c = "navigate" THEN "navigate_to_waypoint" ELSE c : c \in Described(FALSE)}

Tasks(call) == {t \in Task : task[t].call = call}
Ended       == {"completed", "failed", "canceled"}

FleetInit ==
    /\ request \in Asked
    /\ accepts \in {{"patrol"}, {"patrol", "delivery"}}
    /\ fat = [c \in Caller |-> "idle"] /\ fcall = [c \in Caller |-> NoTask]
    /\ ftask = [c \in Caller |-> NoTask]
    /\ wat = "idle" /\ wcall = NoTask /\ wtask = NoTask
    /\ dispatched = [f \in FleetCall |-> NoTask] /\ kept = <<>>
    /\ task = [t \in Task |-> [call |-> NoTask, status |-> "queued", withdrawn |-> FALSE]]
    /\ said = [outcome |-> "none", call |-> NoTask, tasks |-> {}]
    /\ doubtful = {}

Result(outcome, call) == [outcome |-> outcome, call |-> call, tasks |-> Tasks(call)]

Return(c, call, outcome) ==
    /\ said' = Result(outcome, call)
    /\ fat' = [fat EXCEPT ![c] = "idle"] /\ fcall' = [fcall EXCEPT ![c] = NoTask]
    /\ ftask' = [ftask EXCEPT ![c] = NoTask]

Settling(c, call, t) ==
    /\ fat' = [fat EXCEPT ![c] = "poll"] /\ fcall' = [fcall EXCEPT ![c] = call]
    /\ ftask' = [ftask EXCEPT ![c] = t] /\ UNCHANGED said

KeptOf(call) == {k \in ToSet(kept) : k.call = call}

(***************************************************************************)
(* invoke()                                                                *)
(***************************************************************************)

Lookup(c, call) ==
    /\ fat[c] = "idle"
    /\ LET asked == request[call] IN
       \/ /\ asked.capability \in NotFleetWork \/ asked.capability \notin DOMAIN Category
          /\ Return(c, call, "refused")
       \/ /\ asked.capability \in DOMAIN Category
          /\ \/ \E k \in KeptOf(call) : Return(c, call, k.outcome)
             \/ KeptOf(call) = {} /\ dispatched[call] = NoId /\ Return(c, call, "failed")
             \/ KeptOf(call) = {} /\ dispatched[call] \in Task /\ Settling(c, call, dispatched[call])
             \/ /\ KeptOf(call) = {} /\ dispatched[call] = NoTask
                /\ \/ ~asked.place /\ Return(c, call, "refused")
                   \/ /\ asked.place /\ fat' = [fat EXCEPT ![c] = "post"]
                      /\ fcall' = [fcall EXCEPT ![c] = call] /\ UNCHANGED <<ftask, said>>
    /\ doubtful' = IF fat'[c] = "post" /\ \E d \in Caller \ {c} : fcall[d] = call
                                                                   /\ fat[d] \in {"post", "record"}
                   THEN doubtful \cup {call} ELSE doubtful
    /\ UNCHANGED <<request, accepts, canceller, dispatched, kept, task>>

\* The dispatcher could not be reached, or returned no state: refused.
PostRefused(c) ==
    /\ fat[c] = "post" /\ Return(c, fcall[c], "refused")
    /\ UNCHANGED <<request, accepts, canceller, dispatched, kept, task, doubtful>>

\* The dispatcher took the task. Its answer has an id, or none, or is lost: refused.
PostAccepted(c) ==
    /\ fat[c] = "post" /\ Category[request[fcall[c]].capability] \in accepts
    /\ \E t \in Tasks(NoTask) :
          /\ \A u \in Tasks(NoTask) : t <= u
          /\ task' = [task EXCEPT ![t].call = fcall[c]]
          /\ \/ /\ fat' = [fat EXCEPT ![c] = "record"]
                /\ ftask' \in {[ftask EXCEPT ![c] = t], [ftask EXCEPT ![c] = NoId]}
                /\ UNCHANGED <<fcall, said, doubtful>>
             \/ /\ Return(c, fcall[c], "refused") /\ doubtful' = doubtful \cup {fcall[c]}
    /\ UNCHANGED <<request, accepts, canceller, dispatched, kept>>

Remember(c) ==
    /\ fat[c] = "record" /\ dispatched' = [dispatched EXCEPT ![fcall[c]] = ftask[c]]
    /\ \/ ftask[c] = NoId /\ Return(c, fcall[c], "failed")
       \/ ftask[c] \in Task /\ Settling(c, fcall[c], ftask[c])
    /\ UNCHANGED <<request, accepts, canceller, kept, task, doubtful>>

\* _keep(): a result of the call is replaced where it is; the oldest goes when there
\* are too many.
Keep(outcome, call) ==
    LET new == [call |-> call, outcome |-> outcome]
        all == IF KeptOf(call) = {} THEN Append(kept, new)
               ELSE [i \in DOMAIN kept |-> IF kept[i].call = call THEN new ELSE kept[i]]
    IN  kept' = IF Len(all) > Kept THEN Tail(all) ELSE all

\* _settle(): a read of the state finds the task ended.
Settle(c) ==
    /\ fat[c] = "poll" /\ task[ftask[c]].status \in Ended
    /\ LET outcome == IF task[ftask[c]].status = "completed" THEN "completed" ELSE "failed" IN
       Return(c, fcall[c], outcome) /\ Keep(outcome, fcall[c])
    /\ UNCHANGED <<request, accepts, canceller, dispatched, task, doubtful>>

\* The mutant forgets the task of a call that timed out.
OverdueForgets(c) ==
    /\ fat[c] = "poll" /\ Return(c, fcall[c], "timeout")
    /\ dispatched' = [dispatched EXCEPT ![fcall[c]] = NoTask]
    /\ UNCHANGED <<request, accepts, canceller, kept, task, doubtful>>

\* _settle(): the deadline passed after a read that was lost or found it running.
Overdue(c) ==
    /\ fat[c] = "poll" /\ Return(c, fcall[c], "timeout")
    /\ UNCHANGED <<request, accepts, canceller, dispatched, kept, task, doubtful>>

(***************************************************************************)
(* cancel()                                                                *)
(***************************************************************************)

Withdraw(call) ==
    /\ wat = "idle"
    /\ \/ /\ dispatched[call] \notin Task /\ said' = Result("not cancelled", call)
          /\ UNCHANGED canceller
       \/ /\ dispatched[call] \in Task /\ UNCHANGED said
          /\ wat' = "post" /\ wcall' = call /\ wtask' = dispatched[call]
    /\ UNCHANGED <<request, accepts, callers, dispatched, kept, task, doubtful>>

WithdrawReturns(outcome) ==
    /\ said' = Result(outcome, wcall)
    /\ wat' = "idle" /\ wcall' = NoTask /\ wtask' = NoTask
    /\ UNCHANGED <<request, accepts, callers, dispatched, kept, doubtful>>

\* The dispatcher withdraws a task that has not ended; its answer may be lost.
WithdrawHeard ==
    /\ wat = "post" /\ task[wtask].status \notin Ended
    /\ task' = [task EXCEPT ![wtask].withdrawn = TRUE]
    /\ \E outcome \in {"cancelled", "not cancelled"} : WithdrawReturns(outcome)

\* The request is lost, or the dispatcher declines it.
WithdrawRefused == wat = "post" /\ WithdrawReturns("not cancelled") /\ UNCHANGED task

\* The fleet ends a task; one that was withdrawn may have been done already.
Finish(t) ==
    /\ task[t].call # NoTask /\ task[t].status = "queued"
    /\ \E status \in IF task[t].withdrawn THEN Ended ELSE Ended \ {"canceled"} :
          task' = [task EXCEPT ![t].status = status]
    /\ UNCHANGED <<request, accepts, callers, canceller, dispatched, kept, said,
                   doubtful>>

FleetNext ==
    \/ \E c \in Caller : \/ \E call \in FleetCall : Lookup(c, call)
                         \/ PostRefused(c) \/ PostAccepted(c) \/ Remember(c)
                         \/ Settle(c) \/ Overdue(c)
    \/ \E call \in FleetCall : Withdraw(call)
    \/ WithdrawHeard \/ WithdrawRefused
    \/ \E t \in Task : Finish(t)

-----------------------------------------------------------------------------

\* A call is what its task is: no call has two tasks, "completed" and "failed" are
\* what its task came to (a task without an id counts as failed), a refused call has
\* no task, and a cancel that is told as done withdrew every task of the call that
\* was not over. Exempt are calls whose answer was lost, which are told refused
\* while their task runs, and calls two threads posted at once: a retry of the first
\* is dispatched anew, and no cancel finds the task that was lost. Discovery offers
\* what a bound adapter declares.
FleetCallIsItsTask ==
    /\ Discovered = Described(TRUE)
    /\ \A call \in FleetCall \ doubtful : Cardinality(Tasks(call)) <= 1
    /\ said.outcome = "completed" => \E t \in said.tasks : task[t].status = "completed"
    /\ said.call \notin doubtful =>
          /\ said.outcome = "failed" =>
                \/ dispatched[said.call] = NoId
                \/ \E t \in said.tasks : task[t].status \in Ended \ {"completed"}
          /\ said.outcome = "refused" => said.tasks = {}
          /\ said.outcome = "timeout" => dispatched[said.call] \in Task
          /\ said.outcome = "cancelled" => \A t \in said.tasks : task[t].withdrawn
=============================================================================
