------------------------- MODULE NavigationExecution -------------------------
(***************************************************************************)
(* One authorized navigation: execute_rclpy_navigation() and its           *)
(* NavigationExecutionMonitor (ros2_action_executor.py).                   *)
(*                                                                         *)
(* The executor is one thread. Callbacks run inside its spin_once() only,  *)
(* so it alternates between a spin, which delivers at most one message,    *)
(* and a look at what it knows by then. Nav2 and the safety supervisor     *)
(* (SafetySupervisor) are the environment: Nav2 answers late or never, and *)
(* the supervisor's two state topics reach the executor independently of   *)
(* each other, each with its last message. A fault scenario has a sensor   *)
(* guard (ros2_sensor_guard.py), which injects the fault once the robot    *)
(* moves and tells it on a topic. The evidence of the outcome, and its     *)
(* verdict, are ros2_execution_evidence.py's; poses and times are left out.*)
(***************************************************************************)
EXTENDS Naturals

CONSTANTS
    Fault,        \* FAULT_SCENARIOS' keys
    Expects,      \* the stop reason each of them is to end in
    Scenario,     \* the scenarios to execute: "success", "cancel", "emergency_stop", faults
    Stop,         \* SAFETY_STOP_REASONS
    OldReason,    \* what the reason topic still holds from an earlier latch
    MaxPending,   \* feedback kept before the acceptance (256 in the code)
    None

ASSUME ExecutionAssumption ==
    /\ Scenario \subseteq {"success", "cancel", "emergency_stop"} \cup Fault
    /\ Expects \in [Fault -> Stop]
    /\ "emergency_stop" \in Stop
    /\ {None, "timeout", "operator_cancel"} \cap Stop = {}
    /\ None \notin {"accepted", "rejected"}
    /\ OldReason \in Stop \cup {None} /\ MaxPending \in Nat

VARIABLES
    scenario,     \* the one executed here
    pc, time,
    active,       \* the last message on the execution state topic
    state, pending, feedback, cancelReason, stopReason, observed,  \* the monitor's
    asked,        \* cancel_future, stop_future: what was asked for and is not answered
    ended,        \* result_future.done()
    called,       \* stop_future is not None
    safety, reason, faultSeen,   \* latest's: the two topics, and whether the fault was told
    outcome,      \* "none", an outcome's status, or "raised"
    goal,         \* Nav2's goal
    reply,        \* send_future: None, "accepted" or "rejected"
    latch,        \* the supervisor's latched reason
    topicState, topicReason,   \* the last messages on its topics
    injected,     \* the guard's fault is active
    latchedNow    \* history: reasons latched since the execution began

monitor == <<state, pending, feedback, cancelReason, stopReason, observed>>
futures == <<asked, ended, called>>
latest  == <<safety, reason, faultSeen>>
nav2    == <<goal, reply>>
stopper == <<latch, topicState, topicReason, latchedNow>>
executionVars ==
    <<scenario, pc, time, active, monitor, futures, latest, outcome, nav2, stopper, injected>>

Running  == {"executing", "canceling"}
Terminal == {"succeeded", "canceled", "aborted"}
Spinning == pc \in {"ready", "handshake", "spin", "drain", "settle"}

Go(from, to) == pc = from /\ pc' = to

\* The node's spin_once() returns: the loop around it looks again.
Spun == pc' = IF pc = "spin" THEN "judge" ELSE pc

\* An exception leaves through the finally clause.
Raise ==
    /\ pc' = "done" /\ outcome' = "raised" /\ active' = FALSE

-----------------------------------------------------------------------------
ExecutionInit ==
    /\ scenario \in Scenario
    /\ pc = "ready" /\ time = "early" /\ active = FALSE
    /\ state = "prepared" /\ pending = 0 /\ feedback = 0
    /\ cancelReason = None /\ stopReason = None /\ observed = FALSE
    /\ asked = {} /\ ended = FALSE /\ called = FALSE
    /\ safety = None /\ reason = None /\ faultSeen = FALSE /\ injected = FALSE /\ outcome = "none"
    /\ goal = "none" /\ reply = None
    /\ latch = None /\ topicState = FALSE /\ topicReason = OldReason
    /\ latchedNow = {}

-----------------------------------------------------------------------------
(* The executor.                                                            *)

\* Fresh inputs and a reset supervisor were observed: arm the watchdog, submit.
Submit ==
    /\ Go("ready", "handshake")
    /\ safety = FALSE
    /\ active' = TRUE /\ state' = "awaiting_acceptance" /\ goal' = "sent"
    /\ UNCHANGED <<time, pending, feedback, cancelReason, stopReason, observed, futures, latest, outcome,
                   reply, stopper>>

\* They were not, within 30 s.
NotReady ==
    /\ pc = "ready" /\ Raise
    /\ UNCHANGED <<time, monitor, futures, latest, nav2, stopper>>

\* accept_goal() replays what came before the acceptance.
Accepted ==
    /\ reply = "accepted"
    /\ Go("handshake", "spin")
    /\ state' = "executing" /\ pending' = 0
    /\ feedback' = IF pending > 0 THEN 1 ELSE feedback
    /\ UNCHANGED <<time, active, cancelReason, stopReason, observed, futures, latest, outcome, nav2,
                   stopper>>

Rejected ==
    /\ reply = "rejected"
    /\ Go("handshake", "done")
    /\ state' = "rejected" /\ pending' = 0 /\ outcome' = "rejected" /\ active' = FALSE
    /\ UNCHANGED <<time, feedback, cancelReason, stopReason, observed, futures, latest, nav2, stopper>>

\* _spin_future(send_future): "ROS operation timed out"
NoReply ==
    /\ pc = "handshake" /\ reply = None /\ Raise
    /\ UNCHANGED <<time, monitor, futures, latest, nav2, stopper>>

\* request_cancel(), and cancel_goal_async()
RequestCancel(why) ==
    /\ cancelReason' = why
    /\ stopReason' = IF why \in Stop THEN why ELSE stopReason
    /\ observed' = IF why \in Stop THEN faultSeen ELSE observed
    /\ state' = "canceling"
    /\ asked' = asked \cup {"cancel"}
    /\ UNCHANGED <<ended, called>>

\* The stop call of the emergency-stop scenario.
CallStop ==
    /\ called' = TRUE /\ asked' = asked \cup {"stop"}
    /\ UNCHANGED <<cancelReason, stopReason, observed, state, ended>>

\* Mutant: every safety stop is recorded as an emergency stop.
LookAnyStop(far) ==
    LET stopped == safety = TRUE /\ reason # None /\ state = "executing"
        cancel  == scenario = "cancel" /\ far /\ state = "executing"
        stop    == scenario = "emergency_stop" /\ far /\ ~called IN
    \/ stopped /\ RequestCancel("emergency_stop")
    \/ ~stopped /\ cancel /\ RequestCancel("operator_cancel")
    \/ ~stopped /\ ~cancel /\ stop /\ CallStop
    \/ /\ ~stopped /\ ~cancel /\ ~stop
       /\ time # "early" /\ state = "executing"
       /\ RequestCancel("timeout")
    \/ /\ ~stopped /\ ~cancel /\ ~stop
       /\ ~(time # "early" /\ state = "executing")
       /\ UNCHANGED <<cancelReason, stopReason, observed, state, futures>>

\* Mutant: the deadline does not cancel.
LookNoDeadline(far) ==
    LET stopped == safety = TRUE /\ reason # None /\ state = "executing"
        cancel  == scenario = "cancel" /\ far /\ state = "executing"
        stop    == scenario = "emergency_stop" /\ far /\ ~called IN
    \/ stopped /\ RequestCancel(reason)
    \/ ~stopped /\ cancel /\ RequestCancel("operator_cancel")
    \/ ~stopped /\ ~cancel /\ stop /\ CallStop
    \/ /\ ~stopped /\ ~cancel /\ ~stop
       /\ FALSE
       /\ RequestCancel("timeout")
    \/ /\ ~stopped /\ ~cancel /\ ~stop
       /\ ~(time # "early" /\ state = "executing")
       /\ UNCHANGED <<cancelReason, stopReason, observed, state, futures>>

\* The chain of conditions after a spin, in its order; far says whether the
\* robot has moved cancel_after_displacement_m.
Look(far) ==
    LET stopped == safety = TRUE /\ reason # None /\ state = "executing"
        cancel  == scenario = "cancel" /\ far /\ state = "executing"
        stop    == scenario = "emergency_stop" /\ far /\ ~called IN
    \/ stopped /\ RequestCancel(reason)
    \/ ~stopped /\ cancel /\ RequestCancel("operator_cancel")
    \/ ~stopped /\ ~cancel /\ stop /\ CallStop
    \/ /\ ~stopped /\ ~cancel /\ ~stop
       /\ time # "early" /\ state = "executing"
       /\ RequestCancel("timeout")
    \/ /\ ~stopped /\ ~cancel /\ ~stop
       /\ ~(time # "early" /\ state = "executing")
       /\ UNCHANGED <<cancelReason, stopReason, observed, state, futures>>

Judge ==
    /\ pc = "judge"
    /\ \E far \in BOOLEAN : Look(far)
    /\ IF state' = "canceling" /\ time = "overdue" THEN Raise
       ELSE pc' = "check" /\ UNCHANGED <<outcome, active>>
    /\ UNCHANGED <<time, pending, feedback, latest, nav2, stopper>>

\* while not result_future.done(): the result was delivered by a spin
Check ==
    /\ pc = "check"
    /\ pc' = IF ended THEN "drain" ELSE "spin"
    /\ UNCHANGED <<time, active, monitor, futures, latest, outcome, nav2, stopper>>

\* Wait for the answer to the cancel request; then the watchdog is disarmed,
\* but for an injected fault.
Drain ==
    \/ /\ "cancel" \notin asked
       /\ Go("drain", "settle")
       /\ active' = (active /\ scenario \in Fault)
       /\ UNCHANGED <<time, monitor, futures, latest, outcome, nav2, stopper>>
    \/ /\ pc = "drain" /\ "cancel" \in asked /\ Raise
       /\ UNCHANGED <<time, monitor, futures, latest, nav2, stopper>>

\* finish()
Status(stopped) ==
    CASE goal = "succeeded" -> IF state = "executing" /\ feedback > 0 THEN "succeeded" ELSE "raised"
      [] goal = "canceled"  -> IF cancelReason = None THEN "raised"
                               ELSE IF cancelReason \in Stop THEN "safety_stopped"
                               ELSE IF cancelReason = "timeout" THEN "timed_out" ELSE "canceled"
      [] goal = "aborted"   -> IF stopped # None THEN "safety_stopped" ELSE "aborted"

\* After 0.75 s a stop that was seen meanwhile is recorded too.
Finish ==
    /\ Go("settle", "done")
    /\ stopReason' = IF safety = TRUE /\ reason # None /\ stopReason = None THEN reason
                     ELSE stopReason
    /\ observed' = IF stopReason' # stopReason THEN faultSeen ELSE observed
    /\ outcome' = Status(stopReason')
    /\ active' = FALSE
    /\ UNCHANGED <<time, state, pending, feedback, cancelReason, futures, latest, nav2, stopper>>

Execute ==
    \/ Submit \/ NotReady \/ Accepted \/ Rejected \/ NoReply \/ Judge \/ Check \/ Drain \/ Finish

-----------------------------------------------------------------------------
(* What a spin delivers.                                                    *)

\* on_feedback(): before the acceptance it is kept, up to the limit.
DeliverFeedback ==
    /\ Spinning /\ goal \in Running \cup Terminal
    /\ \/ /\ state = "awaiting_acceptance" /\ pending < MaxPending
          /\ pending' = pending + 1
          /\ Spun /\ UNCHANGED <<feedback, outcome, active>>
       \/ /\ state = "awaiting_acceptance" /\ pending = MaxPending
          /\ Raise /\ UNCHANGED <<pending, feedback>>
       \/ /\ state \in {"executing", "canceling"}
          /\ feedback' = 1
          /\ Spun /\ UNCHANGED <<pending, outcome, active>>
    /\ UNCHANGED <<time, state, cancelReason, stopReason, observed, futures, latest, nav2, stopper>>

DeliverState ==
    /\ Spinning /\ Spun
    /\ safety' = topicState
    /\ UNCHANGED <<time, active, monitor, futures, reason, faultSeen, outcome, nav2, stopper>>

DeliverReason ==
    /\ Spinning /\ Spun
    /\ topicReason # None /\ reason' = topicReason
    /\ UNCHANGED <<time, active, monitor, futures, safety, faultSeen, outcome, nav2, stopper>>

\* on_fault()
DeliverFault ==
    /\ Spinning /\ Spun
    /\ injected /\ ~faultSeen /\ faultSeen' = TRUE
    /\ UNCHANGED <<time, active, monitor, futures, safety, reason, outcome, nav2, stopper>>

DeliverResult ==
    /\ pc = "spin" /\ Spun
    /\ goal \in Terminal
    /\ ended' = TRUE
    /\ UNCHANGED <<time, active, monitor, asked, called, latest, outcome, nav2, stopper>>

\* Nav2 acknowledges the cancel request; the robot may end the goal itself.
DeliverCancelAnswer ==
    /\ pc \in {"spin", "drain"} /\ Spun
    /\ "cancel" \in asked /\ asked' = asked \ {"cancel"}
    /\ goal' = IF goal = "executing" THEN "canceling" ELSE goal
    /\ UNCHANGED <<time, active, monitor, ended, called, latest, outcome, reply, stopper>>

\* 0.1 s without a message.
Quiet ==
    /\ pc = "spin" /\ Spun
    /\ UNCHANGED <<time, active, monitor, futures, latest, outcome, nav2, stopper>>

Deliver ==
    \/ DeliverFeedback \/ DeliverState \/ DeliverReason \/ DeliverFault \/ DeliverResult
    \/ DeliverCancelAnswer \/ Quiet

-----------------------------------------------------------------------------
(* Nav2, the supervisor and the clock.                                      *)

Answer ==
    /\ goal = "sent"
    /\ \/ goal' = "executing" /\ reply' = "accepted"
       \/ goal' = "none" /\ reply' = "rejected"
    /\ UNCHANGED <<pc, time, active, monitor, futures, latest, outcome, stopper>>

End ==
    /\ \/ goal = "executing" /\ goal' \in {"succeeded", "aborted"}
       \/ goal = "canceling" /\ goal' \in Terminal
    /\ UNCHANGED <<pc, time, active, monitor, futures, latest, outcome, reply, stopper>>

\* The supervisor latches: an operator, or its watchdog while it is armed. It
\* tells the reason first, and then the state.
LatchStop(why) ==
    /\ latch = None
    /\ latch' = why /\ topicReason' = why /\ topicState' = TRUE
    /\ latchedNow' = latchedNow \cup {why}
    /\ UNCHANGED <<pc, time, active, monitor, futures, latest, outcome, nav2>>

\* The scenario's own stop request arrives.
StopService ==
    /\ "stop" \in asked /\ asked' = asked \ {"stop"}
    /\ latch' = IF latch = None THEN "emergency_stop" ELSE latch
    /\ topicReason' = latch' /\ topicState' = TRUE
    /\ latchedNow' = latchedNow \cup {latch'}
    /\ UNCHANGED <<pc, time, active, monitor, ended, called, latest, outcome, nav2>>

\* target.timeout_seconds pass, and ten seconds more.
Pass ==
    /\ \/ time = "early" /\ time' = "late"
       \/ time = "late" /\ time' = "overdue"
    /\ UNCHANGED <<pc, active, monitor, futures, latest, outcome, nav2, stopper>>

\* The guard injects its fault once, some time after the robot began to move.
Inject ==
    /\ scenario \in Fault /\ ~injected /\ injected' = TRUE
    /\ goal \in Running \cup Terminal
    /\ UNCHANGED <<pc, time, active, monitor, futures, latest, outcome, nav2, stopper>>

Act ==
    \/ Execute \/ Deliver \/ Answer \/ End \/ StopService \/ Pass
    \/ \E why \in Stop : LatchStop(why)

ExecutionNext == UNCHANGED scenario /\ (Inject \/ (Act /\ UNCHANGED injected))

-----------------------------------------------------------------------------
(* The evidence of an outcome.                                              *)

\* parse_ros2_execution_evidence(): the fields agree with each other and the scenario.
EvidenceAccepted ==
    /\ outcome \notin {"none", "raised"}
    /\ cancelReason \in Stop => cancelReason = stopReason
    /\ observed = (scenario \in Fault)
    /\ scenario \in Fault => stopReason # None

\* evaluate_closed_loop_evidence()
Passed ==
    /\ EvidenceAccepted /\ outcome # "rejected" /\ feedback > 0
    /\ CASE scenario = "success" ->
               outcome = "succeeded" /\ cancelReason = None /\ stopReason = None
         [] scenario = "cancel" ->
               outcome = "canceled" /\ cancelReason = "operator_cancel" /\ stopReason = None
         [] scenario = "emergency_stop" ->
               outcome = "safety_stopped" /\ cancelReason = "emergency_stop"
         [] OTHER -> outcome = "safety_stopped" /\ stopReason = Expects[scenario]

-----------------------------------------------------------------------------
\* Every variable stays in its type.
TypeOK ==
    /\ scenario \in Scenario
    /\ pc \in {"ready", "handshake", "spin", "judge", "check", "drain", "settle", "done"}
    /\ time \in {"early", "late", "overdue"} /\ active \in BOOLEAN
    /\ state \in {"prepared", "awaiting_acceptance", "executing", "canceling", "rejected"}
    /\ pending \in 0 .. MaxPending /\ feedback \in 0 .. 1
    /\ cancelReason \in Stop \cup {None, "timeout", "operator_cancel"}
    /\ stopReason \in Stop \cup {None}
    /\ observed \in BOOLEAN /\ faultSeen \in BOOLEAN /\ injected \in BOOLEAN
    /\ asked \subseteq {"cancel", "stop"} /\ ended \in BOOLEAN /\ called \in BOOLEAN
    /\ safety \in BOOLEAN \cup {None} /\ reason \in Stop \cup {None}
    /\ outcome \in {"none", "raised", "rejected", "succeeded", "canceled", "timed_out",
                    "safety_stopped", "aborted"}
    /\ goal \in {"none", "sent"} \cup Running \cup Terminal
    /\ reply \in {None, "accepted", "rejected"}
    /\ latch \in Stop \cup {None} /\ topicState \in BOOLEAN
    /\ topicReason \in Stop \cup {None} /\ latchedNow \subseteq Stop

\* An outcome that is reported is what became of the goal on the robot: no
\* success of a goal that was asked to stop, no cancel of one that was not, and
\* nothing at all of one that still runs.
OutcomeIsTheGoals ==
    /\ outcome = "succeeded" => goal = "succeeded" /\ cancelReason = None
    /\ outcome \in {"canceled", "timed_out"} => goal = "canceled"
    /\ outcome = "safety_stopped" => goal \in {"canceled", "aborted"} /\ latchedNow # {}
    /\ outcome = "aborted" => goal = "aborted"
    /\ outcome = "rejected" => goal = "none"

\* CONTRACTS.md: "the exact safety reason was latched". The stop an execution
\* records has a reason that the supervisor latched during it.
RecordedReasonWasLatched == stopReason # None => stopReason \in latchedNow

\* A verdict that passes is earned: the goal ended the way the scenario asks, the stop
\* it tells of was latched during the execution, and its fault was injected. Nothing is
\* said of which came first: a stop that was latched before the fault, but is told
\* after it, passes, and so does one that was seen before it (its latency is zero).
VerdictIsEarned ==
    Passed =>
        CASE scenario = "success"        -> goal = "succeeded"
          [] scenario = "cancel"         -> goal = "canceled"
          [] scenario = "emergency_stop" -> goal \in {"canceled", "aborted"}
                                            /\ "emergency_stop" \in latchedNow
          [] OTHER -> /\ goal \in {"canceled", "aborted"}
                      /\ injected /\ Expects[scenario] \in latchedNow

\* The record of an execution is what happened to its goal, and why.
RecordIsTrue == OutcomeIsTheGoals /\ RecordedReasonWasLatched /\ VerdictIsEarned

\* An execution that submitted its goal ends: each wait has a deadline of its own.
ExecutionEnds == pc \notin {"ready", "done"} ~> pc = "done"
=============================================================================
