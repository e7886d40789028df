---------------------------- MODULE Execution_proofs ----------------------------
(***************************************************************************)
(* Theorems about a navigation execution (NavigationExecution), for any    *)
(* faults, scenarios, stop reasons and number of feedbacks kept; and about *)
(* the programs that run executions and judge what they left               *)
(* (ClosedLoopLab, ScenarioRun, ResilienceSeries, AcceptanceProof,         *)
(* StressCampaign), for any nodes, tests, profiles, faults and rounds.     *)
(***************************************************************************)
EXTENDS MCExecution, TLAPS, SequenceTheorems

ExecutionSpec == ExecutionInit /\ [][ExecutionNext]_executionVars

(* The types, in parts: of the thread, of the monitor, of what the thread    *)
(* asked for and heard, and of Nav2 and the supervisor.                      *)
ThreadType ==
    /\ scenario \in Scenario /\ injected \in BOOLEAN
    /\ pc \in {"ready", "handshake", "spin", "judge", "check", "drain", "settle", "done"}
    /\ time \in {"early", "late", "overdue"} /\ active \in BOOLEAN
    /\ outcome \in {"none", "raised", "rejected", "succeeded", "canceled", "timed_out",
                    "safety_stopped", "aborted"}

MonitorType ==
    /\ state \in {"prepared", "awaiting_acceptance", "executing", "canceling", "rejected"}
    /\ pending \in 0 .. MaxPending /\ feedback \in 0 .. 1
    /\ cancelReason \in Stop \cup {None, "timeout", "operator_cancel"}
    /\ stopReason \in Stop \cup {None} /\ observed \in BOOLEAN

HeardType ==
    /\ asked \subseteq {"cancel", "stop"} /\ ended \in BOOLEAN /\ called \in BOOLEAN
    /\ safety \in BOOLEAN \cup {None} /\ reason \in Stop \cup {None} /\ faultSeen \in BOOLEAN

RobotType ==
    /\ goal \in {"none", "sent"} \cup Running \cup Terminal
    /\ reply \in {None, "accepted", "rejected"}
    /\ latch \in Stop \cup {None} /\ topicState \in BOOLEAN
    /\ topicReason \in Stop \cup {None} /\ latchedNow \subseteq Stop

(* The parts together are the type invariant.                                *)
LEMMA TypeParts == TypeOK <=> ThreadType /\ MonitorType /\ HeardType /\ RobotType
BY DEF TypeOK, ThreadType, MonitorType, HeardType, RobotType

(* Initially every type holds, ...                                           *)
LEMMA TypeInit == ExecutionInit => TypeOK
<1> SUFFICES ASSUME ExecutionInit PROVE ThreadType /\ MonitorType /\ HeardType /\ RobotType
  BY TypeParts
<1>1. ThreadType
  BY DEF ExecutionInit, ThreadType
<1>5. MaxPending \in Nat
  BY ExecutionAssumption
<1>4. MonitorType
  <2>1. state = "prepared" /\ pending = 0 /\ feedback = 0
    BY DEF ExecutionInit
  <2>2. cancelReason = None /\ stopReason = None /\ observed = FALSE
    BY DEF ExecutionInit
  <2>3. pending \in 0 .. MaxPending /\ feedback \in 0 .. 1
    BY <1>5, <2>1
  <2> QED
    BY <2>1, <2>2, <2>3 DEF MonitorType
<1>2. HeardType
  BY DEF ExecutionInit, HeardType
<1>3. RobotType
  BY ExecutionAssumption DEF ExecutionInit, RobotType
<1> QED
  BY <1>1, <1>2, <1>3, <1>4

(* What finish() may only be asked once Nav2 told how the goal ended: the    *)
(* result ends the loop.                                                     *)
ResultInv ==
    /\ ended => goal \in Terminal
    /\ pc \in {"drain", "settle"} => ended
    /\ pc = "ready" => goal = "none" /\ ~ended /\ reply = None
    /\ pc \in {"ready", "handshake"} => state # "canceling"
    /\ reply = "rejected" => goal = "none"
    /\ outcome = "none" <=> pc # "done"

(* The statuses a terminal goal can be told as.                              *)
LEMMA StatusType ==
  ASSUME goal \in Terminal, NEW stopped
  PROVE  Status(stopped) \in {"raised", "succeeded", "canceled", "timed_out", "safety_stopped", "aborted"}
BY DEF Status, Terminal

(* ... and every step keeps them.                                            *)
LEMMA TypeStep == TypeOK /\ ResultInv /\ [ExecutionNext]_executionVars => TypeOK'
<1> SUFFICES ASSUME TypeOK, ResultInv, [ExecutionNext]_executionVars
             PROVE  TypeOK'
  OBVIOUS
<1> SUFFICES ThreadType' /\ MonitorType' /\ HeardType' /\ RobotType'
  BY DEF TypeOK, ThreadType, MonitorType, HeardType, RobotType
<1> ThreadType /\ MonitorType /\ HeardType /\ RobotType
  BY TypeParts
<1> USE DEF monitor, futures, latest, nav2, stopper
<1>1. CASE Submit /\ UNCHANGED <<scenario, injected>>
  <2>1. ThreadType'
    BY <1>1 DEF Submit, Go, ThreadType
  <2>2. MonitorType'
    BY <1>1 DEF Submit, Go, MonitorType
  <2>3. HeardType'
    BY <1>1 DEF Submit, Go, HeardType
  <2>4. RobotType'
    BY <1>1 DEF Submit, Go, RobotType
  <2> QED
    BY <2>1, <2>2, <2>3, <2>4
<1>2. CASE NotReady /\ UNCHANGED <<scenario, injected>>
  <2>1. ThreadType'
    BY <1>2 DEF NotReady, Raise, ThreadType
  <2>2. MonitorType'
    BY <1>2 DEF NotReady, Raise, MonitorType
  <2>3. HeardType'
    BY <1>2 DEF NotReady, Raise, HeardType
  <2>4. RobotType'
    BY <1>2 DEF NotReady, Raise, RobotType
  <2> QED
    BY <2>1, <2>2, <2>3, <2>4
<1>3. CASE Accepted /\ UNCHANGED <<scenario, injected>>
  <2>1. ThreadType'
    BY <1>3 DEF Accepted, Go, ThreadType
  <2>2. MonitorType'
    BY <1>3, ExecutionAssumption DEF Accepted, Go, MonitorType
  <2>3. HeardType'
    BY <1>3 DEF Accepted, Go, HeardType
  <2>4. RobotType'
    BY <1>3, ExecutionAssumption DEF Accepted, Go, RobotType
  <2> QED
    BY <2>1, <2>2, <2>3, <2>4
<1>4. CASE Rejected /\ UNCHANGED <<scenario, injected>>
  <2>1. ThreadType'
    BY <1>4 DEF Rejected, Go, ThreadType
  <2>2. MonitorType'
    BY <1>4, ExecutionAssumption DEF Rejected, Go, MonitorType
  <2>3. HeardType'
    BY <1>4 DEF Rejected, Go, HeardType
  <2>4. RobotType'
    BY <1>4 DEF Rejected, Go, RobotType
  <2> QED
    BY <2>1, <2>2, <2>3, <2>4
<1>5. CASE NoReply /\ UNCHANGED <<scenario, injected>>
  <2>1. ThreadType'
    BY <1>5 DEF NoReply, Raise, ThreadType
  <2>2. MonitorType'
    BY <1>5 DEF NoReply, Raise, MonitorType
  <2>3. HeardType'
    BY <1>5 DEF NoReply, Raise, HeardType
  <2>4. RobotType'
    BY <1>5 DEF NoReply, Raise, RobotType
  <2> QED
    BY <2>1, <2>2, <2>3, <2>4
<1>6. CASE Judge /\ UNCHANGED <<scenario, injected>>
  <2>1. PICK far \in BOOLEAN : Look(far)
    BY <1>6 DEF Judge
  <2>2. ThreadType'
    BY <1>6 DEF Judge, Raise, ThreadType
  <2>3. state' \in {"executing", "canceling", state} /\ asked' \subseteq {"cancel", "stop"}
    BY <2>1 DEF Look, RequestCancel, CallStop, HeardType
  <2>4. /\ cancelReason' \in Stop \cup {None, "timeout", "operator_cancel"}
        /\ stopReason' \in Stop \cup {None} /\ observed' \in BOOLEAN
    BY <2>1 DEF Look, RequestCancel, CallStop, HeardType, MonitorType
  <2>5. ended' \in BOOLEAN /\ called' \in BOOLEAN
    BY <2>1 DEF Look, RequestCancel, CallStop, HeardType
  <2>6. MonitorType'
    BY <1>6, <2>3, <2>4 DEF Judge, MonitorType
  <2>7. HeardType' /\ RobotType'
    BY <1>6, <2>3, <2>5 DEF Judge, HeardType, RobotType
  <2> QED
    BY <2>2, <2>6, <2>7
<1>7. CASE Check /\ UNCHANGED <<scenario, injected>>
  <2>1. ThreadType'
    BY <1>7 DEF Check, ThreadType
  <2>2. MonitorType'
    BY <1>7 DEF Check, MonitorType
  <2>3. HeardType'
    BY <1>7 DEF Check, HeardType
  <2>4. RobotType'
    BY <1>7 DEF Check, RobotType
  <2> QED
    BY <2>1, <2>2, <2>3, <2>4
<1>8. CASE Drain /\ UNCHANGED <<scenario, injected>>
  <2>1. ThreadType'
    BY <1>8 DEF Drain, Go, Raise, ThreadType
  <2>2. MonitorType'
    BY <1>8 DEF Drain, Go, Raise, MonitorType
  <2>3. HeardType'
    BY <1>8 DEF Drain, Go, Raise, HeardType
  <2>4. RobotType'
    BY <1>8 DEF Drain, Go, Raise, RobotType
  <2> QED
    BY <2>1, <2>2, <2>3, <2>4
<1>9. CASE Finish /\ UNCHANGED <<scenario, injected>>
  <2>1. outcome' \in {"raised", "succeeded", "canceled", "timed_out", "safety_stopped", "aborted"}
    BY <1>9, StatusType DEF Finish, Go, ResultInv
  <2>2. ThreadType'
    BY <1>9, <2>1 DEF Finish, Go, ThreadType
  <2>3. MonitorType'
    BY <1>9 DEF Finish, MonitorType, HeardType
  <2>4. HeardType' /\ RobotType'
    BY <1>9 DEF Finish, HeardType, RobotType
  <2> QED
    BY <2>2, <2>3, <2>4
<1>10. CASE DeliverFeedback /\ UNCHANGED <<scenario, injected>>
  <2>1. ThreadType'
    BY <1>10 DEF DeliverFeedback, Spun, Raise, ThreadType
  <2>2. MonitorType'
    BY <1>10, ExecutionAssumption DEF DeliverFeedback, Spun, Raise, MonitorType
  <2>3. HeardType'
    BY <1>10 DEF DeliverFeedback, Spun, Raise, HeardType
  <2>4. RobotType'
    BY <1>10, ExecutionAssumption DEF DeliverFeedback, Spun, Raise, RobotType
  <2> QED
    BY <2>1, <2>2, <2>3, <2>4
<1>11. CASE DeliverState /\ UNCHANGED <<scenario, injected>>
  <2>1. ThreadType'
    BY <1>11 DEF DeliverState, Spun, ThreadType
  <2>2. MonitorType'
    BY <1>11 DEF DeliverState, Spun, MonitorType
  <2>3. HeardType'
    BY <1>11 DEF DeliverState, Spun, HeardType, RobotType
  <2>4. RobotType'
    BY <1>11 DEF DeliverState, Spun, RobotType
  <2> QED
    BY <2>1, <2>2, <2>3, <2>4
<1>12. CASE DeliverReason /\ UNCHANGED <<scenario, injected>>
  <2>1. ThreadType'
    BY <1>12 DEF DeliverReason, Spun, ThreadType
  <2>2. MonitorType'
    BY <1>12 DEF DeliverReason, Spun, MonitorType
  <2>3. HeardType'
    BY <1>12 DEF DeliverReason, Spun, HeardType, RobotType
  <2>4. RobotType'
    BY <1>12 DEF DeliverReason, Spun, RobotType
  <2> QED
    BY <2>1, <2>2, <2>3, <2>4
<1>13. CASE DeliverFault /\ UNCHANGED <<scenario, injected>>
  <2>1. ThreadType'
    BY <1>13 DEF DeliverFault, Spun, ThreadType
  <2>2. MonitorType'
    BY <1>13 DEF DeliverFault, Spun, MonitorType
  <2>3. HeardType'
    BY <1>13 DEF DeliverFault, Spun, HeardType
  <2>4. RobotType'
    BY <1>13 DEF DeliverFault, Spun, RobotType
  <2> QED
    BY <2>1, <2>2, <2>3, <2>4
<1>14. CASE DeliverResult /\ UNCHANGED <<scenario, injected>>
  <2>1. ThreadType'
    BY <1>14 DEF DeliverResult, Spun, ThreadType
  <2>2. MonitorType'
    BY <1>14 DEF DeliverResult, Spun, MonitorType
  <2>3. HeardType'
    BY <1>14 DEF DeliverResult, Spun, HeardType
  <2>4. RobotType'
    BY <1>14 DEF DeliverResult, Spun, RobotType
  <2> QED
    BY <2>1, <2>2, <2>3, <2>4
<1>15. CASE DeliverCancelAnswer /\ UNCHANGED <<scenario, injected>>
  <2>1. ThreadType'
    BY <1>15 DEF DeliverCancelAnswer, Spun, ThreadType
  <2>2. MonitorType'
    BY <1>15 DEF DeliverCancelAnswer, Spun, MonitorType
  <2>3. HeardType'
    BY <1>15 DEF DeliverCancelAnswer, Spun, HeardType
  <2>4. RobotType'
    BY <1>15 DEF DeliverCancelAnswer, Spun, RobotType, Running, Terminal
  <2> QED
    BY <2>1, <2>2, <2>3, <2>4
<1>16. CASE Quiet /\ UNCHANGED <<scenario, injected>>
  <2>1. ThreadType'
    BY <1>16 DEF Quiet, Spun, ThreadType
  <2>2. MonitorType'
    BY <1>16 DEF Quiet, Spun, MonitorType
  <2>3. HeardType'
    BY <1>16 DEF Quiet, Spun, HeardType
  <2>4. RobotType'
    BY <1>16 DEF Quiet, Spun, RobotType
  <2> QED
    BY <2>1, <2>2, <2>3, <2>4
<1>17. CASE Answer /\ UNCHANGED <<scenario, injected>>
  <2>1. ThreadType'
    BY <1>17 DEF Answer, ThreadType
  <2>2. MonitorType'
    BY <1>17 DEF Answer, MonitorType
  <2>3. HeardType'
    BY <1>17 DEF Answer, HeardType
  <2>4. RobotType'
    BY <1>17 DEF Answer, RobotType, Running, Terminal
  <2> QED
    BY <2>1, <2>2, <2>3, <2>4
<1>18. CASE End /\ UNCHANGED <<scenario, injected>>
  <2>1. ThreadType'
    BY <1>18 DEF End, ThreadType
  <2>2. MonitorType'
    BY <1>18 DEF End, MonitorType
  <2>3. HeardType'
    BY <1>18 DEF End, HeardType
  <2>4. RobotType'
    BY <1>18 DEF End, RobotType, Running, Terminal
  <2> QED
    BY <2>1, <2>2, <2>3, <2>4
<1>19. CASE StopService /\ UNCHANGED <<scenario, injected>>
  <2>1. ThreadType'
    BY <1>19 DEF StopService, ThreadType
  <2>2. MonitorType'
    BY <1>19, ExecutionAssumption DEF StopService, MonitorType
  <2>3. HeardType'
    BY <1>19 DEF StopService, HeardType
  <2>4. RobotType'
    BY <1>19, ExecutionAssumption DEF StopService, RobotType
  <2> QED
    BY <2>1, <2>2, <2>3, <2>4
<1>20. CASE Pass /\ UNCHANGED <<scenario, injected>>
  <2>1. ThreadType'
    BY <1>20 DEF Pass, ThreadType
  <2>2. MonitorType'
    BY <1>20 DEF Pass, MonitorType
  <2>3. HeardType'
    BY <1>20 DEF Pass, HeardType
  <2>4. RobotType'
    BY <1>20 DEF Pass, RobotType
  <2> QED
    BY <2>1, <2>2, <2>3, <2>4
<1>21. CASE Inject /\ UNCHANGED scenario
  <2>1. ThreadType'
    BY <1>21 DEF Inject, ThreadType
  <2>2. MonitorType'
    BY <1>21 DEF Inject, MonitorType
  <2>3. HeardType'
    BY <1>21 DEF Inject, HeardType
  <2>4. RobotType'
    BY <1>21 DEF Inject, RobotType
  <2> QED
    BY <2>1, <2>2, <2>3, <2>4
<1>22. ASSUME NEW why \in Stop, LatchStop(why), UNCHANGED <<scenario, injected>>
      PROVE  ThreadType' /\ MonitorType' /\ HeardType' /\ RobotType'
  BY <1>22 DEF LatchStop, ThreadType, MonitorType, HeardType, RobotType
<1>23. CASE UNCHANGED executionVars
  BY <1>23 DEF executionVars, ThreadType, MonitorType, HeardType, RobotType
<1> QED
  BY <1>1, <1>2, <1>3, <1>4, <1>5, <1>6, <1>7, <1>8, <1>9, <1>10, <1>11, <1>12, <1>13, <1>14,
     <1>15, <1>16, <1>17, <1>18, <1>19, <1>20, <1>21, <1>22, <1>23 DEF ExecutionNext, Act,
     Execute, Deliver

(* Every step keeps a result with the goal that gave it.                     *)
LEMMA ResultStep == TypeOK /\ ResultInv /\ [ExecutionNext]_executionVars => ResultInv'
<1> SUFFICES ASSUME TypeOK, ResultInv, [ExecutionNext]_executionVars PROVE ResultInv'
  OBVIOUS
<1> USE DEF ResultInv
<1>1. CASE Submit
  BY <1>1, ExecutionAssumption DEF Submit, Go, Terminal, futures
<1>11. CASE NotReady \/ NoReply
  BY <1>11 DEF NotReady, NoReply, Raise, monitor, futures, nav2
<1>12. CASE Accepted \/ Rejected
  BY <1>12 DEF Accepted, Rejected, Go, monitor, futures, nav2
<1>2. CASE Judge
  <2>1. UNCHANGED <<ended, goal, reply>>
    BY <1>2 DEF Judge, Look, RequestCancel, CallStop, monitor, futures, nav2
  <2> QED
    BY <1>2, <2>1 DEF Judge, Raise
<1>3. CASE Check \/ Drain
  BY <1>3 DEF Check, Drain, Go, Raise, monitor, futures, nav2
<1>4. CASE Finish
  <2>1. outcome' \in {"raised", "succeeded", "canceled", "timed_out", "safety_stopped", "aborted"}
    BY <1>4, StatusType DEF Finish, Go
  <2> QED
    BY <1>4, <2>1 DEF Finish, Go, monitor, futures, nav2
<1>5. CASE Deliver
  BY <1>5 DEF Deliver, DeliverFeedback, DeliverState, DeliverReason, DeliverFault, DeliverResult,
              DeliverCancelAnswer, Quiet, Spun, Raise, Terminal, Spinning, monitor, futures, nav2
<1>6. CASE Answer \/ End \/ Pass \/ StopService \/ Inject
  BY <1>6, ExecutionAssumption DEF Answer, End, Pass, StopService, Inject, Terminal, monitor,
     futures, nav2
<1>7. ASSUME NEW why \in Stop, LatchStop(why) PROVE ResultInv'
  BY <1>7 DEF LatchStop, monitor, futures, nav2
<1>8. CASE UNCHANGED executionVars
  BY <1>8 DEF executionVars, monitor, futures, nav2
<1> QED
  BY <1>1, <1>2, <1>3, <1>4, <1>5, <1>6, <1>7, <1>8, <1>11, <1>12
  DEF ExecutionNext, Act, Execute

(* Every reachable state of an execution is in its type.                     *)
THEOREM Typing == ExecutionSpec => []TypeOK
<1>1. ExecutionInit => TypeOK /\ ResultInv
  BY TypeInit DEF ExecutionInit, ResultInv
<1>2. (TypeOK /\ ResultInv) /\ [ExecutionNext]_executionVars => (TypeOK /\ ResultInv)'
  BY TypeStep, ResultStep
<1> QED
  BY <1>1, <1>2, PTL DEF ExecutionSpec

(* Why the record of an execution can be trusted: what the topics tell was   *)
(* latched during it (nothing older is left on them), the monitor asks for a *)
(* cancel once, while it executes, and an outcome is read off a goal that    *)
(* has ended and stays as it is.                                             *)
ReasonInv ==
    /\ topicReason \in latchedNow \cup {None} /\ reason \in latchedNow \cup {None}
    /\ stopReason \in latchedNow \cup {None}
    /\ cancelReason \in Stop => cancelReason = stopReason
    /\ state # "canceling" => cancelReason = None

FaultInv == (faultSeen => injected) /\ (observed => injected)

OutcomeInv ==
    /\ OutcomeIsTheGoals
    /\ outcome = "rejected" => reply = "rejected"

RecordInv == ReasonInv /\ FaultInv /\ OutcomeInv

(* One look asks for a cancel with the reason heard, or for another one that *)
(* is no safety stop, and only of a goal no cancel was asked for.            *)
LEMMA LookReasons ==
  ASSUME NEW far, Look(far), ReasonInv, FaultInv
  PROVE  /\ stopReason' \in latchedNow \cup {None}
         /\ cancelReason' \in Stop => cancelReason' = stopReason'
         /\ state' # "canceling" => cancelReason' = None
         /\ observed' => injected
BY ExecutionAssumption
   DEF Look, RequestCancel, CallStop, ReasonInv, FaultInv

(* Finish reads the outcome off the goal.                                    *)
LEMMA FinishTells ==
  ASSUME TypeOK, ResultInv, ReasonInv, Finish
  PROVE  OutcomeInv'
<1>1. goal \in Terminal /\ UNCHANGED <<goal, cancelReason, reply, latchedNow>>
  BY DEF Finish, Go, ResultInv, nav2, stopper
<1>2. stopReason' \in latchedNow \cup {None} /\ None \notin Stop /\ outcome' = Status(stopReason')
  BY ExecutionAssumption DEF Finish, ReasonInv
<1>3. cancelReason \in Stop => latchedNow # {}
  BY <1>2 DEF ReasonInv
<1>4. state = "executing" => cancelReason = None
  BY DEF ReasonInv
<1>5. CASE goal = "succeeded"
  BY <1>1, <1>2, <1>4, <1>5 DEF Status, OutcomeInv, OutcomeIsTheGoals
<1>6. CASE goal = "canceled"
  BY <1>1, <1>2, <1>3, <1>6 DEF Status, OutcomeInv, OutcomeIsTheGoals
<1>7. CASE goal = "aborted"
  BY <1>1, <1>2, <1>7 DEF Status, OutcomeInv, OutcomeIsTheGoals
<1> QED
  BY <1>1, <1>5, <1>6, <1>7 DEF Terminal

(* A goal that ended stays as it ended, and one that was rejected never is.  *)
LEMMA OutcomeFrame ==
  ASSUME OutcomeInv, ResultInv, UNCHANGED <<outcome, reply>>, latchedNow \subseteq latchedNow',
         outcome # "none" => cancelReason' = cancelReason,
         goal \in Terminal \cup {"none"} /\ reply # None => goal' = goal,
         goal \in Terminal => goal' = goal
  PROVE  OutcomeInv'
BY ExecutionAssumption DEF OutcomeInv, OutcomeIsTheGoals, Terminal

(* Every step keeps the record true.                                         *)
LEMMA RecordStep ==
  TypeOK /\ ResultInv /\ RecordInv /\ [ExecutionNext]_executionVars => RecordInv'
<1> SUFFICES ASSUME TypeOK, ResultInv, RecordInv, [ExecutionNext]_executionVars
             PROVE  RecordInv'
  OBVIOUS
<1> USE DEF RecordInv, monitor, futures, latest, nav2, stopper
<1>1. CASE Submit /\ UNCHANGED <<scenario, injected>>
  <2>1. ReasonInv' /\ FaultInv'
    BY <1>1 DEF Submit, Go, ResultInv, ReasonInv, FaultInv
  <2>2. outcome = "none"
    BY <1>1 DEF Submit, Go, ResultInv
  <2>3. OutcomeInv'
    BY <1>1, <2>2 DEF Submit, OutcomeInv, OutcomeIsTheGoals
  <2> QED
    BY <2>1, <2>3
<1>2. CASE (NotReady \/ NoReply) /\ UNCHANGED <<scenario, injected>>
  BY <1>2 DEF NotReady, NoReply, Raise, ReasonInv, FaultInv, OutcomeInv, OutcomeIsTheGoals
<1>3. CASE (Accepted \/ Rejected) /\ UNCHANGED <<scenario, injected>>
  <2>1. ReasonInv' /\ FaultInv'
    <3>1. cancelReason' = cancelReason /\ stopReason' = stopReason /\ observed' = observed
      BY <1>3 DEF Accepted, Rejected
    <3>2. pc = "handshake" /\ UNCHANGED <<latest, stopper>>
      BY <1>3 DEF Accepted, Rejected, Go
    <3> QED
      BY <1>3, <3>1, <3>2 DEF ResultInv, ReasonInv, FaultInv
  <2>2. OutcomeInv'
    BY <1>3 DEF Accepted, Rejected, OutcomeInv, OutcomeIsTheGoals, ResultInv
  <2> QED
    BY <2>1, <2>2
<1>4. CASE Judge /\ UNCHANGED <<scenario, injected>>
  <2>1. PICK far \in BOOLEAN : Look(far)
    BY <1>4 DEF Judge
  <2>2. ReasonInv' /\ FaultInv'
    BY <1>4, <2>1, LookReasons DEF Judge, ReasonInv, FaultInv
  <2>3. outcome' \in {"none", "raised"}
    BY <1>4 DEF Judge, Raise, ResultInv
  <2>4. OutcomeInv'
    BY <2>3 DEF OutcomeInv, OutcomeIsTheGoals
  <2> QED
    BY <2>2, <2>4
<1>5. CASE Check /\ UNCHANGED <<scenario, injected>>
  BY <1>5 DEF Check, ReasonInv, FaultInv, OutcomeInv, OutcomeIsTheGoals
<1>6. CASE Drain /\ UNCHANGED <<scenario, injected>>
  BY <1>6 DEF Drain, Raise, ReasonInv, FaultInv, OutcomeInv, OutcomeIsTheGoals
<1>7. CASE Finish /\ UNCHANGED <<scenario, injected>>
  <2>1. ReasonInv' /\ FaultInv'
    BY <1>7, ExecutionAssumption DEF Finish, ReasonInv, FaultInv
  <2> QED
    BY <1>7, <2>1, FinishTells
<1>8. CASE Deliver /\ UNCHANGED <<scenario, injected>>
  <2>1. CASE DeliverFeedback
    BY <1>8, <2>1 DEF DeliverFeedback, Raise, ReasonInv, FaultInv, OutcomeInv, OutcomeIsTheGoals
  <2>2. CASE DeliverState \/ DeliverReason \/ DeliverFault \/ DeliverResult \/ Quiet
    BY <1>8, <2>2 DEF DeliverState, DeliverReason, DeliverFault, DeliverResult, Quiet,
                      ReasonInv, FaultInv, OutcomeInv, OutcomeIsTheGoals
  <2>3. CASE DeliverCancelAnswer
    <3>1. ReasonInv' /\ FaultInv'
      BY <1>8, <2>3 DEF DeliverCancelAnswer, ReasonInv, FaultInv
    <3>2. OutcomeInv'
      BY <2>3, OutcomeFrame DEF DeliverCancelAnswer, Terminal
    <3> QED
      BY <3>1, <3>2
  <2> QED
    BY <1>8, <2>1, <2>2, <2>3 DEF Deliver
<1>9. CASE (Answer \/ End \/ Pass) /\ UNCHANGED <<scenario, injected>>
  <2>1. ReasonInv' /\ FaultInv'
    BY <1>9 DEF Answer, End, Pass, ReasonInv, FaultInv
  <2>2. CASE Answer
    <3>1. outcome \in {"none", "raised"}
      BY <2>2 DEF Answer, OutcomeInv, OutcomeIsTheGoals, ResultInv, TypeOK
    <3> QED
      BY <2>1, <2>2, <3>1 DEF Answer, OutcomeInv, OutcomeIsTheGoals
  <2>3. CASE End \/ Pass
    <3>1. OutcomeInv'
      BY <2>3, OutcomeFrame DEF End, Pass, Terminal
    <3> QED
      BY <2>1, <3>1
  <2> QED
    BY <1>9, <2>2, <2>3
<1>10. CASE StopService /\ UNCHANGED <<scenario, injected>>
  <2>1. ReasonInv' /\ FaultInv'
    BY <1>10 DEF StopService, ReasonInv, FaultInv
  <2>2. OutcomeInv'
    BY <1>10 DEF StopService, OutcomeInv, OutcomeIsTheGoals
  <2> QED
    BY <2>1, <2>2
<1>11. ASSUME NEW why \in Stop, LatchStop(why), UNCHANGED <<scenario, injected>>
       PROVE  RecordInv'
  BY <1>11 DEF LatchStop, ReasonInv, FaultInv, OutcomeInv, OutcomeIsTheGoals
<1>12. CASE Inject /\ UNCHANGED scenario
  BY <1>12 DEF Inject, ReasonInv, FaultInv, OutcomeInv, OutcomeIsTheGoals
<1>13. CASE UNCHANGED executionVars
  BY <1>13 DEF executionVars, ReasonInv, FaultInv, OutcomeInv, OutcomeIsTheGoals
<1> QED
  BY <1>1, <1>2, <1>3, <1>4, <1>5, <1>6, <1>7, <1>8, <1>9, <1>10, <1>11, <1>12, <1>13
  DEF ExecutionNext, Act, Execute

(* A verdict that passes is earned.                                          *)
LEMMA Earned == TypeOK /\ RecordInv => VerdictIsEarned
<1> SUFFICES ASSUME TypeOK, RecordInv, Passed
             PROVE  VerdictIsEarned
  BY DEF VerdictIsEarned
<1>1. EvidenceAccepted /\ scenario \in Scenario
  BY DEF Passed, TypeOK
<1>2. CASE scenario = "success"
  BY <1>2 DEF Passed, VerdictIsEarned, RecordInv, OutcomeInv, OutcomeIsTheGoals
<1>3. CASE scenario = "cancel"
  BY <1>3 DEF Passed, VerdictIsEarned, RecordInv, OutcomeInv, OutcomeIsTheGoals
<1>4. CASE scenario = "emergency_stop"
  <2>1. outcome = "safety_stopped" /\ cancelReason = "emergency_stop"
    BY <1>4 DEF Passed
  <2>2. stopReason = "emergency_stop" /\ stopReason # None
    BY <2>1, ExecutionAssumption DEF RecordInv, ReasonInv
  <2> QED
    BY <1>4, <2>1, <2>2
    DEF VerdictIsEarned, RecordInv, ReasonInv, OutcomeInv, OutcomeIsTheGoals
<1>5. CASE scenario \notin {"success", "cancel", "emergency_stop"}
  <2>1. scenario \in Fault
    BY <1>1, <1>5, ExecutionAssumption
  <2>2. outcome = "safety_stopped" /\ stopReason = Expects[scenario]
    BY <1>5 DEF Passed
  <2>3. stopReason \in Stop /\ stopReason # None
    BY <2>1, <2>2, ExecutionAssumption
  <2>4. injected
    BY <1>1, <2>1 DEF EvidenceAccepted, RecordInv, FaultInv
  <2> QED
    BY <1>5, <2>2, <2>3, <2>4
    DEF VerdictIsEarned, RecordInv, ReasonInv, OutcomeInv, OutcomeIsTheGoals
<1> QED
  BY <1>2, <1>3, <1>4, <1>5

(* The record of an execution is what happened to its goal, and why, when no *)
(* reason of an earlier latch is left on the topic                           *)
(* (execute_rclpy_navigation, NavigationExecutionMonitor,                    *)
(* evaluate_closed_loop_evidence): the outcome is the goal's own, a stop it  *)
(* tells of was latched during the execution, and a verdict is earned.       *)
THEOREM TheRecordIsTrue == ASSUME OldReason = None PROVE ExecutionSpec => []RecordIsTrue
<1>1. ExecutionInit => TypeOK /\ ResultInv /\ RecordInv
  BY TypeInit, ExecutionAssumption
  DEF ExecutionInit, ResultInv, RecordInv, ReasonInv, FaultInv, OutcomeInv, OutcomeIsTheGoals
<1>2. (TypeOK /\ ResultInv /\ RecordInv) /\ [ExecutionNext]_executionVars
        => (TypeOK /\ ResultInv /\ RecordInv)'
  BY TypeStep, ResultStep, RecordStep
<1>3. TypeOK /\ ResultInv /\ RecordInv => RecordIsTrue
  BY Earned
  DEF RecordIsTrue, RecordedReasonWasLatched, RecordInv, ReasonInv, OutcomeInv
<1> QED
  BY <1>1, <1>2, <1>3, PTL DEF ExecutionSpec

-----------------------------------------------------------------------------
\* No navigation node is active.
NoneActive == \A n \in NavNode : node[n] # "active"

\* The laboratory: the types its argument needs, ...
LabType ==
    /\ mark \in Nat \ {0} /\ preparing \in BOOLEAN /\ code \in 0..2
    /\ node \in [NavNode -> {"unconfigured", "inactive", "active", "gone"}]
    /\ manager \in [{"navigation", "map"} -> {"idle", "busy", "ok", "failed", "down", "gone"}]
    /\ order \in [{"navigation", "map"} -> {"none", "resume", "shutdown"}]
    /\ heard \in {<<>>, <<{}>>} /\ acked \in {<<>>, <<"navigation">>, Managers}

\* ... what is known until RESUME is heard: it was sent once, with every node inactive, ...
ResumeInv ==
    /\ order["map"] # "resume"
    /\ preparing => place \in {"normalize", "configure", "exited"}
    /\ place \in {"normalize", "configure", "resume"} => heard = <<>> /\ order["navigation"] = "none"
    /\ order["navigation"] = "resume" => heard = <<>> /\ place \in {"resuming", "exited"}
    /\ heard = <<>> => manager["navigation"] \notin {"busy", "ok", "failed"}
    /\ place \in {"normalize", "configure"} =>
          \A i \in 1..Len(NavNodes) : i < mark => node[NavNodes[i]] # "active"
    /\ place = "configure" => mark <= Len(NavNodes)
    /\ place = "resume" \/ order["navigation"] = "resume" => NoneActive

\* ... and, once it was heard, while the robot may drive, ...
MotionInv ==
    /\ place \in {"probe", "close", "drive", "attest"} =>
          heard # <<>> /\ order["navigation"] = "none" /\ manager["navigation"] # "busy"
    /\ place \in {"close", "drive", "attest", "shutdown", "shutting"} => sightings = ToSet(Sweep)

\* ... and how far the managers are shut down, in their order.
ShutdownInv ==
    /\ place \in {"shutdown", "shutting"} =>
          /\ written /\ mark <= 3 /\ (place = "shutting" => mark <= 2)
          /\ acked = IF mark = 1 THEN <<>> ELSE IF mark = 2 THEN <<"navigation">> ELSE Managers
    /\ place \notin {"shutdown", "shutting", "exited"} => acked = <<>>
    /\ acked # <<>> => written /\ NoneActive /\ manager["navigation"] \in {"down", "gone"}
    /\ manager["navigation"] = "down" => NoneActive
    /\ code # 1 => acked = Managers /\ place = "exited"
    /\ code = 0 => verdict

LabInv == LabType /\ ResumeInv /\ MotionInv /\ ShutdownInv

(* The managers, each by its place. *)
LEMMA ManagerNames ==
  /\ ToSet(Managers) = {"navigation", "map"} /\ Len(Managers) = 2
  /\ Managers[1] = "navigation" /\ Managers[2] = "map"
  /\ Managers = <<"navigation", "map">>
<1>1. DOMAIN Managers = {1, 2}
  BY DEF Managers
<1> QED
  BY <1>1 DEF Managers, ToSet

(* The laboratory starts in its invariant, ... *)
LEMMA LabStarts == LabInit => LabInv
BY ManagerNames DEF LabInit, LabInv, LabType, ResumeInv, MotionInv, ShutdownInv, NoneActive,
   Managers

(* ... which says that it is accountable. *)
LEMMA LabHolds == LabInv => LabIsAccountable
<1> SUFFICES ASSUME LabInv PROVE LabIsAccountable
  OBVIOUS
<1>1. Len(heard) <= 1 /\ \A k \in DOMAIN heard : heard[k] = {}
  <2>1. CASE heard = <<>>
    BY <2>1
  <2>2. CASE heard = <<{}>>
    BY <2>2
  <2> QED
    BY <2>1, <2>2 DEF LabInv, LabType
<1>2. IsPrefix(acked, Managers)
  <2>1. CASE acked = <<>>
    BY <2>1 DEF IsPrefix, Managers
  <2>2. CASE acked = <<"navigation">>
    BY <2>2 DEF IsPrefix, Managers
  <2>3. CASE acked = Managers
    BY <2>3 DEF IsPrefix, Managers
  <2> QED
    BY <2>1, <2>2, <2>3 DEF LabInv, LabType
<1>3. Managers # <<>>
  BY DEF Managers
<1> QED
  BY <1>1, <1>2, <1>3 DEF LabIsAccountable, LabInv, LabType, ResumeInv, MotionInv, ShutdownInv,
     NoneActive

(* A pair, put together. *)
LEMMA AppendPair == ASSUME NEW e, NEW f PROVE Append(<<e>>, f) = <<e, f>>
<1>1. <<e>> \in Seq({e, f}) /\ Len(<<e>>) = 1 /\ <<e>>[1] = e
  OBVIOUS
<1>2. <<e, f>> \in Seq({e, f}) /\ Len(<<e, f>>) = 2 /\ <<e, f>>[1] = e /\ <<e, f>>[2] = f
  OBVIOUS
<1> DEFINE both == Append(<<e>>, f)
<1>3. both \in Seq({e, f}) /\ Len(both) = 2 /\ both[1] = e /\ both[2] = f
  BY <1>1
<1> HIDE DEF both
<1>4. both = <<e, f>>
  BY <1>2, <1>3
<1> QED
  BY <1>4 DEF both

(* An acknowledged shutdown is the next in order. *)
LEMMA AckedGrows ==
  ASSUME LabInv, ShutdownAnswered
  PROVE  acked' = IF mark = 1 THEN <<"navigation">> ELSE Managers
<1>1. mark \in {1, 2} /\ acked = IF mark = 1 THEN <<>> ELSE <<"navigation">>
  BY DEF LabInv, LabType, ShutdownInv, ShutdownAnswered, At
<1>2. acked' = Append(acked, Managers[mark])
  BY DEF ShutdownAnswered
<1>3. Append(<<>>, "navigation") = <<"navigation">>
  OBVIOUS
<1>4. Append(<<"navigation">>, "map") = <<"navigation", "map">>
  BY AppendPair
<1> QED
  BY <1>1, <1>2, <1>3, <1>4, ManagerNames

(* A RESUME is heard with no node active and none before it. *)
LEMMA HeardOnce ==
  ASSUME LabInv, NEW m \in ToSet(Managers), ManagerHears(m)
  PROVE  heard' = IF order[m] = "resume" THEN <<{}>> ELSE heard
<1>1. CASE order[m] = "resume"
  <2>1. m = "navigation" /\ heard = <<>> /\ NoneActive
    BY <1>1, ManagerNames DEF LabInv, ResumeInv
  <2>2. heard' = Append(<<>>, {n \in NavNode : node[n] = "active"})
    BY <1>1, <2>1 DEF ManagerHears
  <2>3. {n \in NavNode : node[n] = "active"} = {}
    BY <2>1 DEF NoneActive
  <2>4. Append(<<>>, {}) = <<{}>>
    OBVIOUS
  <2> QED
    BY <1>1, <2>2, <2>3, <2>4
<1>2. CASE order[m] # "resume"
  BY <1>2 DEF ManagerHears
<1> QED
  BY <1>1, <1>2

(* Every step of lab, stack and launch keeps the types, ... *)
LEMMA LabTypeStep ==
  ASSUME LabInv, LabNext PROVE LabType'
<1> USE LabAssumption, ManagerNames DEF LabInv, LabType, NoneActive, labLoop, report, stack, At, Goto, Next1
<1>1. ASSUME Expire PROVE LabType'
  BY <1>1 DEF Expire, Fail, Abandoned, ResumeInv, ShutdownInv
<1>2. ASSUME Normalized PROVE LabType'
  <2>1. mark' = 1
    BY <1>2 DEF Normalized
  <2> QED
    <3>0. preparing' \in BOOLEAN
      BY <1>2 DEF Normalized
    <3>1. /\ mark' = 1 /\ code' = code /\ acked' = acked /\ node' = node
          /\ manager' = manager /\ order' = order /\ heard' = heard
      BY <1>2, <2>1 DEF Normalized
    <3>2. LabType
      BY DEF LabInv
    <3> QED
      BY ONLY <3>0, <3>1, <3>2 DEF LabType
<1>3. ASSUME ReadNode PROVE LabType'
  BY <1>3 DEF ReadNode, Fail, Abandoned, ResumeInv, ShutdownInv
<1>4. ASSUME Configure PROVE LabType'
  BY <1>4 DEF Configure, Abandoned, ResumeInv, ShutdownInv
<1>5. ASSUME Verify PROVE LabType'
  BY <1>5 DEF Verify, Fail, Abandoned, ResumeInv, ShutdownInv
<1>6. ASSUME ResumeUnsent PROVE LabType'
  BY <1>6 DEF ResumeUnsent, Fail, Abandoned, ResumeInv, ShutdownInv
<1>7. ASSUME ResumeSent PROVE LabType'
  BY <1>7 DEF ResumeSent, ResumeInv, ShutdownInv
<1>8. ASSUME ResumeAnswered PROVE LabType'
  BY <1>8 DEF ResumeAnswered, Fail, Abandoned, ResumeInv, ShutdownInv
<1>9. ASSUME ResumeOverdue PROVE LabType'
  BY <1>9 DEF ResumeOverdue, Fail, Abandoned, ResumeInv, ShutdownInv
<1>10. ASSUME Sight PROVE LabType'
  BY <1>10 DEF Sight, ResumeInv, ShutdownInv
<1>11. ASSUME Swept PROVE LabType'
  BY <1>11 DEF Swept, Fail, Abandoned, ResumeInv, ShutdownInv
<1>12. ASSUME Reachable PROVE LabType'
  BY <1>12 DEF Reachable, ResumeInv, ShutdownInv
<1>13. ASSUME Drove PROVE LabType'
  BY <1>13 DEF Drove, ResumeInv, ShutdownInv
<1>14. ASSUME Attested PROVE LabType'
  BY <1>14 DEF Attested, ResumeInv, ShutdownInv
<1>15. ASSUME ShutdownSent PROVE LabType'
  <2>1. CASE Fail
    BY <2>1 DEF Fail, ResumeInv, ShutdownInv
  <2>2. CASE ~Fail
    <3>1. Managers[mark] \in {"navigation", "map"}
      BY <1>15 DEF ShutdownSent
    <3>2. /\ order' = [order EXCEPT ![Managers[mark]] = "shutdown"]
          /\ UNCHANGED <<mark, preparing, report, node, manager, heard>>
      BY <1>15, <2>2 DEF ShutdownSent
    <3> HIDE DEF Goto
    <3> QED
      BY ONLY <3>1, <3>2, LabInv DEF LabInv, LabType, report
  <2> QED
    BY <2>1, <2>2
<1>16. ASSUME ShutdownAnswered PROVE LabType'
  <2>1. acked' \in {<<"navigation">>, Managers}
    BY <1>16, AckedGrows
  <2>2. mark' \in Nat \ {0} /\ UNCHANGED <<preparing, code, node, manager, order, heard>>
    BY <1>16 DEF ShutdownAnswered
  <2> QED
    BY ONLY <2>1, <2>2, LabInv DEF LabInv, LabType
<1>17. ASSUME Report PROVE LabType'
  BY <1>17 DEF Report, ResumeInv, ShutdownInv
<1>18. ASSUME NEW n \in NavNode, NEW mine \in BOOLEAN, Configured(n, mine) PROVE LabType'
  BY <1>18 DEF Configured, ResumeInv, ShutdownInv
<1>19. ASSUME NEW m \in ToSet(Managers), ManagerHears(m) PROVE LabType'
  <2>1. heard' \in {<<>>, <<{}>>}
    BY <1>19, HeardOnce
  <2>2. UNCHANGED <<mark, preparing, code, acked>>
    BY <1>19 DEF ManagerHears
  <2>3. order' \in [{"navigation", "map"} -> {"none", "resume", "shutdown"}]
    BY <1>19 DEF ManagerHears
  <2>4. manager' \in [{"navigation", "map"} -> {"idle", "busy", "ok", "failed", "down", "gone"}]
    BY <1>19 DEF ManagerHears
  <2>5. node' \in [NavNode -> {"unconfigured", "inactive", "active", "gone"}]
    BY <1>19 DEF ManagerHears
  <2> QED
    BY <2>1, <2>2, <2>3, <2>4, <2>5
<1>20. ASSUME ManagerActivates PROVE LabType'
  BY <1>20 DEF ManagerActivates, ResumeInv, ShutdownInv
<1>21. ASSUME LabFault PROVE LabType'
  BY <1>21 DEF LabFault, ResumeInv, ShutdownInv
<1>22. ASSUME LaunchEnds PROVE LabType'
  BY <1>22 DEF LaunchEnds, ResumeInv, ShutdownInv
<1> QED
  BY <1>1, <1>2, <1>3, <1>4, <1>5, <1>6, <1>7, <1>8, <1>9, <1>10, <1>11, <1>12, <1>13, <1>14,
     <1>15, <1>16, <1>17, <1>18, <1>19, <1>20, <1>21, <1>22 DEF LabNext

(* ... sends one RESUME, and only with every node inactive, ... *)
LEMMA ResumeInvStep ==
  ASSUME LabInv, LabNext PROVE ResumeInv'
<1> USE LabAssumption, ManagerNames DEF LabInv, LabType, NoneActive, labLoop, report, stack, At, Goto, Next1
<1>1. ASSUME Expire PROVE ResumeInv'
  BY <1>1 DEF Expire, Fail, Abandoned, ResumeInv, MotionInv, ShutdownInv
<1>2. ASSUME Normalized PROVE ResumeInv'
  <2>1. NoneActive
    <3> SUFFICES ASSUME NEW n \in NavNode PROVE node[n] # "active"
      BY DEF NoneActive
    <3>1. PICK i \in 1..Len(NavNodes) : NavNodes[i] = n
      BY DEF NavNode, ToSet
    <3>2. i < mark /\ place = "normalize"
      BY <1>2 DEF Normalized
    <3> QED
      BY <3>1, <3>2 DEF ResumeInv
  <2>2. NoneActive'
    BY <1>2, <2>1 DEF Normalized
  <2>3. /\ mark' = 1 /\ preparing' = FALSE /\ place' \in {"normalize", "resume"}
        /\ place = "normalize" /\ UNCHANGED <<order, heard, node, manager>>
    BY <1>2 DEF Normalized
  <2> QED
    BY ONLY <2>2, <2>3, LabInv, LabAssumption DEF LabInv, LabType, ResumeInv
<1>3. ASSUME ReadNode PROVE ResumeInv'
  BY <1>3 DEF ReadNode, Fail, Abandoned, ResumeInv, MotionInv, ShutdownInv
<1>4. ASSUME Configure PROVE ResumeInv'
  BY <1>4 DEF Configure, Abandoned, ResumeInv, MotionInv, ShutdownInv
<1>5. ASSUME Verify PROVE ResumeInv'
  BY <1>5 DEF Verify, Fail, Abandoned, ResumeInv, MotionInv, ShutdownInv
<1>6. ASSUME ResumeUnsent PROVE ResumeInv'
  BY <1>6 DEF ResumeUnsent, Fail, Abandoned, ResumeInv, MotionInv, ShutdownInv
<1>7. ASSUME ResumeSent PROVE ResumeInv'
  BY <1>7 DEF ResumeSent, ResumeInv, MotionInv, ShutdownInv
<1>8. ASSUME ResumeAnswered PROVE ResumeInv'
  BY <1>8 DEF ResumeAnswered, Fail, Abandoned, ResumeInv, MotionInv, ShutdownInv
<1>9. ASSUME ResumeOverdue PROVE ResumeInv'
  BY <1>9 DEF ResumeOverdue, Fail, Abandoned, ResumeInv, MotionInv, ShutdownInv
<1>10. ASSUME Sight PROVE ResumeInv'
  BY <1>10 DEF Sight, ResumeInv, MotionInv, ShutdownInv
<1>11. ASSUME Swept PROVE ResumeInv'
  BY <1>11 DEF Swept, Fail, Abandoned, ResumeInv, MotionInv, ShutdownInv
<1>12. ASSUME Reachable PROVE ResumeInv'
  BY <1>12 DEF Reachable, ResumeInv, MotionInv, ShutdownInv
<1>13. ASSUME Drove PROVE ResumeInv'
  BY <1>13 DEF Drove, ResumeInv, MotionInv, ShutdownInv
<1>14. ASSUME Attested PROVE ResumeInv'
  BY <1>14 DEF Attested, ResumeInv, MotionInv, ShutdownInv
<1>15. ASSUME ShutdownSent PROVE ResumeInv'
  <2>1. CASE Fail
    BY <1>15, <2>1 DEF ShutdownSent, Fail, ResumeInv, ShutdownInv
  <2>2. CASE ~Fail
    <3>1. Managers[mark] \in {"navigation", "map"}
      BY <1>15 DEF ShutdownSent
    <3>2. /\ order' = [order EXCEPT ![Managers[mark]] = "shutdown"]
          /\ UNCHANGED <<mark, preparing, node, manager, heard>>
          /\ place' = "shutting" /\ place = "shutdown"
      BY <1>15, <2>2 DEF ShutdownSent
    <3> QED
      BY ONLY <3>1, <3>2, LabInv DEF LabInv, LabType, ResumeInv
  <2> QED
    BY <2>1, <2>2
<1>16. ASSUME ShutdownAnswered PROVE ResumeInv'
  BY <1>16 DEF ShutdownAnswered, ResumeInv, MotionInv, ShutdownInv
<1>17. ASSUME Report PROVE ResumeInv'
  BY <1>17 DEF Report, ResumeInv, MotionInv, ShutdownInv
<1>18. ASSUME NEW n \in NavNode, NEW mine \in BOOLEAN, Configured(n, mine) PROVE ResumeInv'
  BY <1>18 DEF Configured, ResumeInv, MotionInv, ShutdownInv
<1>19. ASSUME NEW m \in ToSet(Managers), ManagerHears(m) PROVE ResumeInv'
  BY <1>19 DEF ManagerHears, Idle, ResumeInv, MotionInv, ShutdownInv
<1>20. ASSUME ManagerActivates PROVE ResumeInv'
  BY <1>20 DEF ManagerActivates, ResumeInv, MotionInv, ShutdownInv
<1>21. ASSUME LabFault PROVE ResumeInv'
  BY <1>21 DEF LabFault, ResumeInv, MotionInv, ShutdownInv
<1>22. ASSUME LaunchEnds PROVE ResumeInv'
  BY <1>22 DEF LaunchEnds, ResumeInv, MotionInv, ShutdownInv
<1> QED
  BY <1>1, <1>2, <1>3, <1>4, <1>5, <1>6, <1>7, <1>8, <1>9, <1>10, <1>11, <1>12, <1>13, <1>14,
     <1>15, <1>16, <1>17, <1>18, <1>19, <1>20, <1>21, <1>22 DEF LabNext

(* ... lets the robot drive only after a sweep that found all, ... *)
LEMMA MotionInvStep ==
  ASSUME LabInv, LabNext PROVE MotionInv'
<1> USE LabAssumption, ManagerNames DEF LabInv, LabType, NoneActive, labLoop, report, stack, At, Goto, Next1
<1>1. ASSUME Expire PROVE MotionInv'
  BY <1>1 DEF Expire, Fail, Abandoned, ResumeInv, MotionInv, ShutdownInv
<1>2. ASSUME Normalized PROVE MotionInv'
  BY <1>2 DEF Normalized, ResumeInv, MotionInv, ShutdownInv
<1>3. ASSUME ReadNode PROVE MotionInv'
  BY <1>3 DEF ReadNode, Fail, Abandoned, ResumeInv, MotionInv, ShutdownInv
<1>4. ASSUME Configure PROVE MotionInv'
  BY <1>4 DEF Configure, Abandoned, ResumeInv, MotionInv, ShutdownInv
<1>5. ASSUME Verify PROVE MotionInv'
  BY <1>5 DEF Verify, Fail, Abandoned, ResumeInv, MotionInv, ShutdownInv
<1>6. ASSUME ResumeUnsent PROVE MotionInv'
  BY <1>6 DEF ResumeUnsent, Fail, Abandoned, ResumeInv, MotionInv, ShutdownInv
<1>7. ASSUME ResumeSent PROVE MotionInv'
  BY <1>7 DEF ResumeSent, ResumeInv, MotionInv, ShutdownInv
<1>8. ASSUME ResumeAnswered PROVE MotionInv'
  BY <1>8 DEF ResumeAnswered, Fail, Abandoned, ResumeInv, MotionInv, ShutdownInv
<1>9. ASSUME ResumeOverdue PROVE MotionInv'
  BY <1>9 DEF ResumeOverdue, Fail, Abandoned, ResumeInv, MotionInv, ShutdownInv
<1>10. ASSUME Sight PROVE MotionInv'
  BY <1>10 DEF Sight, ResumeInv, MotionInv, ShutdownInv
<1>11. ASSUME Swept PROVE MotionInv'
  BY <1>11 DEF Swept, Fail, Abandoned, ResumeInv, MotionInv, ShutdownInv
<1>12. ASSUME Reachable PROVE MotionInv'
  BY <1>12 DEF Reachable, ResumeInv, MotionInv, ShutdownInv
<1>13. ASSUME Drove PROVE MotionInv'
  BY <1>13 DEF Drove, ResumeInv, MotionInv, ShutdownInv
<1>14. ASSUME Attested PROVE MotionInv'
  BY <1>14 DEF Attested, ResumeInv, MotionInv, ShutdownInv
<1>15. ASSUME ShutdownSent PROVE MotionInv'
  BY <1>15 DEF ShutdownSent, Fail, Abandoned, ResumeInv, MotionInv, ShutdownInv
<1>16. ASSUME ShutdownAnswered PROVE MotionInv'
  BY <1>16 DEF ShutdownAnswered, ResumeInv, MotionInv, ShutdownInv
<1>17. ASSUME Report PROVE MotionInv'
  BY <1>17 DEF Report, ResumeInv, MotionInv, ShutdownInv
<1>18. ASSUME NEW n \in NavNode, NEW mine \in BOOLEAN, Configured(n, mine) PROVE MotionInv'
  BY <1>18 DEF Configured, ResumeInv, MotionInv, ShutdownInv
<1>19. ASSUME NEW m \in ToSet(Managers), ManagerHears(m) PROVE MotionInv'
  BY <1>19 DEF ManagerHears, Idle, ResumeInv, MotionInv, ShutdownInv
<1>20. ASSUME ManagerActivates PROVE MotionInv'
  BY <1>20 DEF ManagerActivates, ResumeInv, MotionInv, ShutdownInv
<1>21. ASSUME LabFault PROVE MotionInv'
  BY <1>21 DEF LabFault, ResumeInv, MotionInv, ShutdownInv
<1>22. ASSUME LaunchEnds PROVE MotionInv'
  BY <1>22 DEF LaunchEnds, ResumeInv, MotionInv, ShutdownInv
<1> QED
  BY <1>1, <1>2, <1>3, <1>4, <1>5, <1>6, <1>7, <1>8, <1>9, <1>10, <1>11, <1>12, <1>13, <1>14,
     <1>15, <1>16, <1>17, <1>18, <1>19, <1>20, <1>21, <1>22 DEF LabNext

(* ... and exits with a verdict only with the managers down. *)
LEMMA ShutdownInvStep ==
  ASSUME LabInv, LabNext PROVE ShutdownInv'
<1> USE LabAssumption, ManagerNames DEF LabInv, LabType, NoneActive, labLoop, report, stack, At, Goto, Next1
<1>1. ASSUME Expire PROVE ShutdownInv'
  BY <1>1 DEF Expire, Fail, Abandoned, ResumeInv, MotionInv, ShutdownInv
<1>2. ASSUME Normalized PROVE ShutdownInv'
  BY <1>2 DEF Normalized, ResumeInv, MotionInv, ShutdownInv
<1>3. ASSUME ReadNode PROVE ShutdownInv'
  BY <1>3 DEF ReadNode, Fail, Abandoned, ResumeInv, MotionInv, ShutdownInv
<1>4. ASSUME Configure PROVE ShutdownInv'
  BY <1>4 DEF Configure, Abandoned, ResumeInv, MotionInv, ShutdownInv
<1>5. ASSUME Verify PROVE ShutdownInv'
  BY <1>5 DEF Verify, Fail, Abandoned, ResumeInv, MotionInv, ShutdownInv
<1>6. ASSUME ResumeUnsent PROVE ShutdownInv'
  BY <1>6 DEF ResumeUnsent, Fail, Abandoned, ResumeInv, MotionInv, ShutdownInv
<1>7. ASSUME ResumeSent PROVE ShutdownInv'
  BY <1>7 DEF ResumeSent, ResumeInv, MotionInv, ShutdownInv
<1>8. ASSUME ResumeAnswered PROVE ShutdownInv'
  BY <1>8 DEF ResumeAnswered, Fail, Abandoned, ResumeInv, MotionInv, ShutdownInv
<1>9. ASSUME ResumeOverdue PROVE ShutdownInv'
  BY <1>9 DEF ResumeOverdue, Fail, Abandoned, ResumeInv, MotionInv, ShutdownInv
<1>10. ASSUME Sight PROVE ShutdownInv'
  BY <1>10 DEF Sight, ResumeInv, MotionInv, ShutdownInv
<1>11. ASSUME Swept PROVE ShutdownInv'
  BY <1>11 DEF Swept, Fail, Abandoned, ResumeInv, MotionInv, ShutdownInv
<1>12. ASSUME Reachable PROVE ShutdownInv'
  BY <1>12 DEF Reachable, ResumeInv, MotionInv, ShutdownInv
<1>13. ASSUME Drove PROVE ShutdownInv'
  BY <1>13 DEF Drove, ResumeInv, MotionInv, ShutdownInv
<1>14. ASSUME Attested PROVE ShutdownInv'
  BY <1>14 DEF Attested, ResumeInv, MotionInv, ShutdownInv
<1>15. ASSUME ShutdownSent PROVE ShutdownInv'
  <2>1. CASE Fail
    BY <1>15, <2>1 DEF ShutdownSent, Fail, ResumeInv, ShutdownInv
  <2>2. CASE ~Fail
    <3>2. /\ UNCHANGED <<mark, preparing, node, manager, heard, written, acked, code, verdict>>
          /\ place' = "shutting" /\ place = "shutdown" /\ mark <= 2
      BY <1>15, <2>2 DEF ShutdownSent
    <3> QED
      BY ONLY <3>2, LabInv DEF LabInv, LabType, ShutdownInv, NoneActive
  <2> QED
    BY <2>1, <2>2
<1>16. ASSUME ShutdownAnswered PROVE ShutdownInv'
  <2>1. acked' = IF mark = 1 THEN <<"navigation">> ELSE Managers
    BY <1>16, AckedGrows
  <2>2. /\ mark' = mark + 1 /\ mark \in {1, 2} /\ place' = "shutdown" /\ place = "shutting"
        /\ UNCHANGED <<verdict, written, code, node, manager>> /\ code = 1
    BY <1>16 DEF ShutdownAnswered, ShutdownInv
  <2>3. manager["navigation"] \in {"down", "gone"} /\ NoneActive
    <3>1. CASE mark = 1
      BY <1>16, <3>1 DEF ShutdownAnswered, ShutdownInv
    <3>2. CASE mark = 2
      <4>1. acked = <<"navigation">>
        BY <2>2, <3>2 DEF ShutdownInv
      <4> QED
        BY <4>1 DEF ShutdownInv
    <3> QED
      BY <2>2, <3>1, <3>2
  <2>4. mark' \in {2, 3} /\ acked' = IF mark' = 2 THEN <<"navigation">> ELSE Managers
    BY <2>1, <2>2
  <2> QED
    BY ONLY <2>2, <2>3, <2>4, LabInv, ManagerNames DEF LabInv, LabType, ShutdownInv, NoneActive
<1>17. ASSUME Report PROVE ShutdownInv'
  BY <1>17 DEF Report, ResumeInv, MotionInv, ShutdownInv
<1>18. ASSUME NEW n \in NavNode, NEW mine \in BOOLEAN, Configured(n, mine) PROVE ShutdownInv'
  BY <1>18 DEF Configured, ResumeInv, MotionInv, ShutdownInv
<1>19. ASSUME NEW m \in ToSet(Managers), ManagerHears(m) PROVE ShutdownInv'
  BY <1>19 DEF ManagerHears, Idle, ResumeInv, MotionInv, ShutdownInv
<1>20. ASSUME ManagerActivates PROVE ShutdownInv'
  BY <1>20 DEF ManagerActivates, ResumeInv, MotionInv, ShutdownInv
<1>21. ASSUME LabFault PROVE ShutdownInv'
  BY <1>21 DEF LabFault, ResumeInv, MotionInv, ShutdownInv
<1>22. ASSUME LaunchEnds PROVE ShutdownInv'
  BY <1>22 DEF LaunchEnds, ResumeInv, MotionInv, ShutdownInv
<1> QED
  BY <1>1, <1>2, <1>3, <1>4, <1>5, <1>6, <1>7, <1>8, <1>9, <1>10, <1>11, <1>12, <1>13, <1>14,
     <1>15, <1>16, <1>17, <1>18, <1>19, <1>20, <1>21, <1>22 DEF LabNext

-----------------------------------------------------------------------------
\* What may happen in a container.
Mark == {"active", "moved", "injected", "fault", "stopped", "removed", "attested"}

\* The marks the host took down are of things that happened.
RunInv ==
    /\ happened \in Seq(Mark) /\ seen \subseteq ToSet(happened)
    /\ DOMAIN disk = {"evidence", "pressure"}

\* A sequence, of whatever elements.
IsList(s) == s \in Seq(Range(s))

\* What a run that counts shows for itself.
Shown(run) ==
    /\ run.inOrder
    /\ run.evidence = "mine" \/ (reused /\ run.evidence = "left")

\* The present test is the one whose runs the stress driver makes.
Endurance == tests # <<>> /\ Test = "gazebo-endurance-l4"

\* Of the present test: each run that counts shows for itself, the driver told of its own
\* campaign, and a report is sealed between runs.
SeriesInv ==
    /\ tests \in Seq(TestNames) /\ IsList(runs)
    /\ disk.evidence = NoFile \/ disk.evidence.mine \/ reused
    /\ host # "idle" => tests # <<>> /\ ~Endurance
    /\ Endurance => runs = <<>>
    /\ \A k \in 1..Len(runs) : runs[k].passed /\ runs[k].told => Shown(runs[k])
    /\ driver # NoFile /\ driver.exit = "zero" => driver.campaign.mine /\ driver.pressure.mine
    /\ sealed # NoFile => host = "idle" /\ tests # <<>>
    /\ SeriesIsEarned

(* A mark more in the log. *)
LEMMA MarksGrow ==
  ASSUME NEW s \in Seq(Mark), NEW m \in Mark
  PROVE  Append(s, m) \in Seq(Mark) /\ ToSet(Append(s, m)) = ToSet(s) \cup {m}
<1>1. /\ Append(s, m) \in Seq(Mark) /\ Len(Append(s, m)) = Len(s) + 1
      /\ \A i \in 1..Len(s) : Append(s, m)[i] = s[i]
      /\ Append(s, m)[Len(s) + 1] = m
  OBVIOUS
<1>2. DOMAIN s = 1..Len(s) /\ DOMAIN Append(s, m) = 1..Len(s) + 1 /\ Len(s) \in Nat
  BY <1>1
<1> QED
  BY <1>1, <1>2 DEF ToSet

(* Before the first run there is nothing. *)
LEMMA RunStarts == RunInit => RunInv /\ disk.evidence = NoFile /\ disk.pressure = NoFile
<1> SUFFICES ASSUME RunInit PROVE RunInv /\ disk.evidence = NoFile /\ disk.pressure = NoFile
  OBVIOUS
<1>1. DOMAIN <<>> = {} /\ <<>> \in Seq(Mark)
  OBVIOUS
<1> QED
  BY <1>1 DEF RunInit, RunInv, NoDisk, ToSet

(* A step of a run goes on with it, and what it writes is the container's.   *)
LEMMA RunGoesOn ==
  ASSUME RunInv, RunStep
  PROVE  /\ RunInv'
         /\ (host' = "idle" <=> host = "idle")
         /\ disk'.evidence = disk.evidence \/ disk'.evidence.mine = TRUE
         /\ disk'.pressure = disk.pressure \/ disk'.pressure.mine = TRUE
<1> DEFINE Goal == /\ RunInv'
                   /\ (host' = "idle" <=> host = "idle")
                   /\ disk'.evidence = disk.evidence \/ disk'.evidence.mine = TRUE
                   /\ disk'.pressure = disk.pressure \/ disk'.pressure.mine = TRUE
<1>1. ASSUME Create \/ Start \/ StartObserver \/ Waited \/ Overrun \/ Break PROVE Goal
  BY <1>1 DEF Create, Start, StartObserver, Waited, Overrun, Break, HostGoes, RunInv
<1>2. ASSUME Await PROVE Goal
  BY <1>2 DEF Await, HostGoes, RunInv, Happened
<1>3. ASSUME NEW m \in Mark, happened' = Append(happened, m), seen' \subseteq seen \cup {m},
             UNCHANGED disk
      PROVE  RunInv'
  BY <1>3, MarksGrow DEF RunInv
<1>4. "injected" \in Mark /\ "removed" \in Mark /\ "attested" \in Mark
  BY DEF Mark
<1>5. ASSUME Impair PROVE Goal
  <2>1. CASE happened' = Append(happened, "injected")
    BY <1>3, <1>4, <1>5, <2>1 DEF Impair, HostGoes
  <2>2. CASE UNCHANGED <<happened, seen>>
    BY <1>5, <2>2 DEF Impair, HostGoes, RunInv
  <2> QED
    BY <1>5, <2>1, <2>2 DEF Impair
<1>6. ASSUME Lift PROVE Goal
  <2>1. CASE happened' = Append(happened, "removed")
    BY <1>3, <1>4, <1>6, <2>1 DEF Lift, HostGoes
  <2>2. CASE UNCHANGED <<happened, seen>>
    BY <1>6, <2>2 DEF Lift, HostGoes, RunInv
  <2> QED
    BY <1>6, <2>1, <2>2 DEF Lift
<1>7. ASSUME NEW m \in {"active", "moved", "fault", "stopped"}, Occur(m) PROVE Goal
  <2>1. m \in Mark /\ happened' = Append(happened, m) /\ UNCHANGED <<seen, disk, host>>
    BY <1>7 DEF Occur, Mark
  <2> QED
    BY <1>3, <2>1
<1>8. ASSUME Attest PROVE Goal
  <2>1. happened' = Append(happened, "attested") /\ UNCHANGED <<seen, host>>
    BY <1>8 DEF Attest
  <2>2. happened' \in Seq(Mark) /\ seen' \subseteq ToSet(happened')
    BY <1>4, <2>1, MarksGrow DEF RunInv
  <2>3. /\ DOMAIN disk' = {"evidence", "pressure"} /\ disk'.evidence.mine = TRUE
        /\ disk'.pressure = disk.pressure
    BY <1>8 DEF Attest, RunInv
  <2> QED
    BY <2>1, <2>2, <2>3 DEF RunInv
<1>9. ASSUME Exit PROVE Goal
  <2>1. UNCHANGED <<seen, host, happened>>
    BY <1>9 DEF Exit
  <2>2. /\ DOMAIN disk' = {"evidence", "pressure"} /\ disk'.evidence = disk.evidence
        /\ disk'.pressure = disk.pressure \/ disk'.pressure.mine = TRUE
    BY <1>9 DEF Exit, RunInv
  <2> QED
    BY <2>1, <2>2 DEF RunInv
<1> QED
  BY <1>1, <1>2, <1>5, <1>6, <1>7, <1>8, <1>9 DEF RunStep, HostStep, BoxStep

(* A run that passed and whose timeline was told had it in that order.       *)
LEMMA PassedIsShown ==
  ASSUME RunInv, disk.evidence = NoFile \/ disk.evidence.mine \/ reused, NEW test,
         RunSummary(test, NavRun).passed, RunSummary(test, NavRun).told
  PROVE  Shown(RunSummary(test, NavRun))
<1> DEFINE run == NavRun
           sum == RunSummary(test, run)
<1>1. /\ run.task = task /\ run.seen = Noticed /\ run.evidence = disk.evidence
      /\ run.passed = RunPassed /\ run.happened = IF task.network THEN happened ELSE <<>>
  BY DEF NavRun
<1>2. /\ sum.passed = run.passed
      /\ sum.told = (task.network => RequiredEventsObserved(test, run) /\ TimelineMonotonic(test, run))
      /\ sum.evidence = IF run.evidence = NoFile THEN "none"
                        ELSE IF run.evidence.mine THEN "mine" ELSE "left"
      /\ sum.inOrder = (task.network => /\ ToSet(Wanted(test)) \subseteq ToSet(run.happened)
                                        /\ Rising(Wanted(test), run.happened))
  BY <1>1 DEF RunSummary
<1>3. Noticed \subseteq ToSet(happened)
  BY DEF RunInv, Noticed
<1>4. RunPassed => disk.evidence # NoFile
  BY DEF RunPassed, AsExpected
<1>5. sum.evidence = "mine" \/ (reused /\ sum.evidence = "left")
  BY <1>1, <1>2, <1>4
<1>6. ASSUME task.network
      PROVE  ToSet(Wanted(test)) \subseteq ToSet(happened) /\ Rising(Wanted(test), happened)
  <2>1. ToSet(Wanted(test)) \subseteq Noticed /\ TimelineMonotonic(test, run)
    BY <1>1, <1>2, <1>6 DEF RequiredEventsObserved
  <2>2. \A j \in DOMAIN Wanted(test) : Wanted(test)[j] \in Noticed
    BY <2>1 DEF ToSet
  <2> QED
    BY <1>1, <1>3, <1>6, <2>1, <2>2 DEF TimelineMonotonic, Rising
<1> QED
  BY <1>1, <1>2, <1>5, <1>6 DEF Shown

(* A sequence over any set is a list, ... *)
LEMMA SequenceIsList ==
  ASSUME NEW S, NEW s \in Seq(S)
  PROVE  IsList(s)
<1>1. s \in [1..Len(s) -> S] /\ DOMAIN s = 1..Len(s) /\ Len(s) \in Nat
  BY LenProperties
<1>2. s \in [1..Len(s) -> Range(s)]
  BY <1>1 DEF Range
<1> QED
  BY <1>1, <1>2, SeqDef DEF IsList

(* ... and one longer when an element is appended. *)
LEMMA ListGrows ==
  ASSUME NEW s, IsList(s), NEW e
  PROVE  /\ IsList(Append(s, e)) /\ Len(Append(s, e)) = Len(s) + 1 /\ Len(s) \in Nat
         /\ \A i \in 1..Len(s) : Append(s, e)[i] = s[i]
         /\ Append(s, e)[Len(s) + 1] = e
<1> DEFINE S == Range(s) \cup {e}
           t == Append(s, e)
<1>1. s \in Seq(S) /\ e \in S
  BY DEF IsList
<1>2. t \in Seq(S) /\ Len(t) = Len(s) + 1 /\ Len(s) \in Nat
      /\ (\A i \in 1..Len(s) : t[i] = s[i]) /\ t[Len(s) + 1] = e
  BY <1>1
<1> QED
  BY <1>2, SequenceIsList

(* A series starts in its invariant, ... *)
LEMMA SeriesStarts == SeriesInit /\ RunInit => SeriesInv
<1> SUFFICES ASSUME SeriesInit, RunInit PROVE SeriesInv
  OBVIOUS
<1>1. IsList(<<>>) /\ Len(<<>>) = 0 /\ DOMAIN <<>> = {}
  BY DEF IsList
<1>2. tests \in Seq(TestNames) /\ runs = <<>> /\ driver = NoFile /\ sealed = NoFile
      /\ exitCode = "none" /\ disk.evidence = NoFile /\ host = "idle"
  BY SeriesAssumption DEF SeriesInit, RunInit, NoDisk
<1>3. sealed # TRUE
  BY <1>2, SeriesAssumption
<1> QED
  <2>1. SeriesIsEarned
    <3>1. exitCode # "zero"
      BY <1>2
    <3> QED
      BY ONLY <1>3, <3>1, Zenon DEF SeriesIsEarned
  <2> QED
    BY <1>1, <1>2, <2>1 DEF SeriesInv, Endurance

(* ... and every step of it, of a run or of the driver keeps it. *)
LEMMA SeriesStep ==
  ASSUME RunInv, SeriesInv, SeriesNext
  PROVE  RunInv' /\ SeriesInv'
<1> USE SeriesAssumption DEF SeriesInv, SeriesIsEarned, Endurance, Test
<1>1. ASSUME NextRun PROVE RunInv' /\ SeriesInv'
  <2>1. PICK left \in {NoDisk} \cup (IF reused THEN {LeftBy(Runs(Test)[Len(runs) + 1])} ELSE {}) :
          Call(Runs(Test)[Len(runs) + 1], left)
    BY <1>1 DEF NextRun
  <2>2. /\ DOMAIN left = {"evidence", "pressure"}
        /\ left.evidence = NoFile \/ reused
    BY <2>1 DEF NoDisk, LeftBy
  <2>3. disk' = left /\ host' = "create" /\ seen' = {} /\ happened' = <<>> /\ UNCHANGED seriesVars
    BY <1>1, <2>1 DEF Call, NextRun
  <2>4. RunInv'
    BY <2>2, <2>3 DEF RunInv, ToSet
  <2>5. tests # <<>> /\ sealed = NoFile /\ Len(runs) < Len(Runs(Test))
    BY <1>1 DEF NextRun, Ready
  <2>6. ~Endurance
    <3>1. Test = "gazebo-endurance-l4" => Len(Runs(Test)) = 0
      BY DEF Runs
    <3>2. Len(runs) \in Nat
      BY DEF IsList
    <3> QED
      BY <2>5, <3>1, <3>2
  <2> QED
    BY <2>2, <2>3, <2>4, <2>5, <2>6 DEF seriesVars, Shown
<1>2. ASSUME RunReturns PROVE RunInv' /\ SeriesInv'
  <2> DEFINE sum == RunSummary(Test, NavRun)
  <2>1. /\ runs' = Append(runs, sum) /\ host = "read" /\ host' = "idle" /\ disk' = NoDisk
        /\ seen' = {} /\ happened' = <<>> /\ UNCHANGED <<tests, reused, driver, sealed, failing, exitCode>>
    BY <1>2 DEF RunReturns, HandRun
  <2>2. RunInv' /\ disk'.evidence = NoFile
    BY <2>1 DEF RunInv, ToSet, NoDisk
  <2>3. sum.passed /\ sum.told => Shown(sum)
    BY PassedIsShown
  <2> HIDE DEF sum
  <2>4. /\ IsList(runs') /\ Len(runs') = Len(runs) + 1 /\ Len(runs) \in Nat
        /\ \A i \in 1..Len(runs) : runs'[i] = runs[i]
        /\ runs'[Len(runs) + 1] = sum
    BY <2>1, ListGrows
  <2>5. \A k \in 1..Len(runs') : runs'[k].passed /\ runs'[k].told => Shown(runs[k])'
    BY <2>1, <2>3, <2>4 DEF Shown
  <2> QED
    BY <2>1, <2>2, <2>4, <2>5
<1>3. ASSUME RunRaises PROVE RunInv' /\ SeriesInv'
  BY <1>3 DEF RunRaises, runVars, RunInv, Shown
<1>4. ASSUME DriverEnds PROVE RunInv' /\ SeriesInv'
  <2>1. /\ UNCHANGED <<tests, reused, runs, sealed, failing, exitCode>> /\ UNCHANGED runVars
        /\ sealed = NoFile
    BY <1>4 DEF DriverEnds, Ready
  <2>2. driver'.exit = "zero" => driver'.campaign.mine /\ driver'.pressure.mine
    BY <1>4 DEF DriverEnds
  <2> QED
    BY <2>1, <2>2 DEF runVars, RunInv, Shown
<1>5. ASSUME DriverOverruns PROVE RunInv' /\ SeriesInv'
  BY <1>5 DEF DriverOverruns, runVars, RunInv, Shown
<1>6. ASSUME Seal PROVE RunInv' /\ SeriesInv'
  <2>1. /\ UNCHANGED <<tests, reused, runs, driver>> /\ UNCHANGED runVars
        /\ tests # <<>> /\ exitCode = "none" /\ host = "idle" /\ Complete
    BY <1>6 DEF Seal, Ready
  <2>2. CASE sealed' = ReportPassed(Test) /\ UNCHANGED exitCode
    <3>1. ASSUME ReportPassed(Test), ~Endurance
          PROVE  \A k \in 1..Len(runs) : Shown(runs[k])
      <4>1. \A k \in DOMAIN runs : runs[k].passed /\ runs[k].told /\ runs[k].met
        BY <2>1, <3>1 DEF ReportPassed
      <4>2. DOMAIN runs = 1..Len(runs)
        BY DEF IsList
      <4> QED
        BY <4>1, <4>2
    <3>2. ASSUME ReportPassed(Test), Endurance
          PROVE  driver.campaign.mine /\ driver.pressure.mine
      BY <2>1, <3>2 DEF ReportPassed, EnduranceMet, InnerPassed, Complete
    <3>3. sealed' = TRUE => ReportPassed(Test)
      BY <2>2
    <3>4. DOMAIN runs = 1..Len(runs) /\ (Endurance => runs = <<>>)
      BY DEF IsList
    <3> QED
      BY <2>1, <2>2, <3>1, <3>2, <3>3, <3>4 DEF runVars, RunInv, Shown
  <2>3. CASE exitCode' = "one" /\ UNCHANGED <<sealed, failing>>
    BY <2>1, <2>3 DEF runVars, RunInv, Shown
  <2> QED
    BY <1>6, <2>2, <2>3 DEF Seal
<1>7. ASSUME NextTest PROVE RunInv' /\ SeriesInv'
  <2>1. /\ sealed # NoFile /\ exitCode = "none" /\ tests' = Tail(tests) /\ runs' = <<>>
        /\ driver' = NoFile /\ sealed' = NoFile /\ UNCHANGED <<reused, failing>> /\ UNCHANGED runVars
        /\ exitCode' = IF Len(tests) > 1 THEN "none" ELSE IF AllPassed THEN "zero" ELSE "one"
    BY <1>7 DEF NextTest
  <2>2. host = "idle" /\ tests # <<>> /\ tests' \in Seq(TestNames) /\ (Len(tests) <= 1 => tests' = <<>>)
    <3>1. tests # <<>> /\ host = "idle"
      BY <2>1
    <3>2. Tail(tests) \in Seq(TestNames) /\ Len(Tail(tests)) = Len(tests) - 1 /\ Len(tests) \in Nat
          /\ Len(tests) # 0
      BY <3>1
    <3> QED
      BY <2>1, <3>1, <3>2
  <2>3. IsList(<<>>) /\ Len(<<>>) = 0 /\ DOMAIN <<>> = {}
    BY DEF IsList
  <2>4. exitCode' = "zero" => tests' = <<>> /\ ~failing'
    <3>1. Len(tests) \in Nat
      OBVIOUS
    <3> QED
      BY <2>1, <2>2, <3>1 DEF AllPassed
  <2>5. sealed' # TRUE
    BY <2>1
  <2>6. RunInv' /\ host' = "idle" /\ disk' = disk
    BY <2>1, <2>2 DEF runVars, RunInv
  <2> QED
    <3>1. SeriesIsEarned'
      BY ONLY <2>4, <2>5, Zenon DEF SeriesIsEarned
    <3> HIDE DEF SeriesIsEarned
    <3> QED
      BY <2>1, <2>2, <2>3, <2>6, <3>1
<1>8. ASSUME RunStep, UNCHANGED seriesVars PROVE RunInv' /\ SeriesInv'
  <2>1. /\ RunInv' /\ (host' = "idle" <=> host = "idle")
        /\ disk'.evidence = disk.evidence \/ disk'.evidence.mine = TRUE
    BY <1>8, RunGoesOn
  <2> QED
    BY <1>8, <2>1 DEF seriesVars, Shown
<1> QED
  BY <1>1, <1>2, <1>3, <1>4, <1>5, <1>6, <1>7, <1>8 DEF SeriesNext

-----------------------------------------------------------------------------
\* Whose a run's files are, and that no log was edited.
MineOnly(left) ==
    /\ left.evidence = NoFile \/ left.evidence.mine
    /\ left.pressure = NoFile \/ left.pressure.mine

Unedited(left) == \A k \in 1..LastRun :
    left[k].log = NoFile \/ left[k].log \in [wanted : BOOLEAN, edited : {FALSE}]

FilesInv ==
    /\ DOMAIN files = 1..LastRun
    /\ \A k \in 1..LastRun : DOMAIN files[k] = {"evidence", "pressure", "log"}
    /\ runner \in {"down", "running"} => source = 0 /\ Unedited(files)

\* A summary tells of the files before anyone changed them.
IsReport(summary) ==
    /\ DOMAIN summary = {"files", "stray", "source", "passed"}
    /\ summary.source = 0 /\ Unedited(summary.files)

ReportInv ==
    proofReport # NoFile \/ runner \in {"verifying", "ended"} => IsReport(proofReport)

\* Until a runner is killed, only its own container writes.
OwnInv ==
    /\ kills \in Nat /\ DOMAIN disk = {"evidence", "pressure"}
    /\ kills = 0 => orphan = NoFile /\ MineOnly(disk) /\ \A k \in 1..LastRun : MineOnly(files[k])

AcceptanceInv == FilesInv /\ ReportInv /\ OwnInv

(* An empty directory satisfies the invariant, ... *)
LEMMA AcceptanceStarts == AcceptanceInit /\ RunInit => AcceptanceInv
<1> SUFFICES ASSUME AcceptanceInit, RunInit PROVE AcceptanceInv
  OBVIOUS
<1>1. \A k \in 1..LastRun : files[k] = Nowhere
  BY DEF AcceptanceInit, LastRun
<1>2. FilesInv
  BY <1>1 DEF AcceptanceInit, LastRun, FilesInv, Nowhere, Unedited
<1>3. ReportInv
  BY DEF AcceptanceInit, ReportInv
<1>4. OwnInv
  <2>1. MineOnly(Nowhere) /\ MineOnly(NoDisk) /\ DOMAIN NoDisk = {"evidence", "pressure"}
    BY DEF MineOnly, Nowhere, NoDisk
  <2>2. kills = 0 /\ orphan = NoFile /\ disk = NoDisk
    BY DEF AcceptanceInit, RunInit
  <2> QED
    BY <1>1, <2>1, <2>2 DEF OwnInv
<1> QED
  BY <1>2, <1>3, <1>4 DEF AcceptanceInv

(* ... with which a report can only be accepted if it was earned: it equals 
   what is rebuilt now, and it was written before anyone changed a file. *)
LEMMA AcceptanceHolds == AcceptanceInv => AcceptanceIsEarned
<1> SUFFICES ASSUME AcceptanceInv, Accepts PROVE
       /\ ~stray /\ source = 0
       /\ \A k \in 1..LastRun :
             /\ files[k].log = [wanted |-> TRUE, edited |-> FALSE]
             /\ kills = 0 => files[k].evidence.mine /\ files[k].pressure.mine
  BY DEF AcceptanceIsEarned
<1>1. IsReport(proofReport) /\ Rebuilt = proofReport /\ RunsAccepted(proofReport.files, proofReport.stray)
  BY DEF Accepts, Verified, Consistent, AcceptanceInv, ReportInv
<1>2. files = proofReport.files /\ stray = proofReport.stray /\ source = proofReport.source
  BY <1>1 DEF Rebuilt
<1>3. RunsAccepted(files, stray) /\ source = 0 /\ Unedited(files)
  BY <1>1, <1>2 DEF IsReport
<1>4. ASSUME NEW k \in 1..LastRun PROVE
         /\ files[k].log = [wanted |-> TRUE, edited |-> FALSE]
         /\ kills = 0 => files[k].evidence.mine /\ files[k].pressure.mine
  <2>1. /\ files[k].evidence # NoFile /\ files[k].pressure # NoFile /\ files[k].log # NoFile
        /\ files[k].log.wanted
    BY <1>3 DEF RunsAccepted, RunAccepted
  <2>2. files[k].log \in [wanted : BOOLEAN, edited : {FALSE}]
    BY <1>3, <2>1 DEF Unedited
  <2>3. kills = 0 => MineOnly(files[k])
    BY DEF AcceptanceInv, OwnInv
  <2> QED
    BY <2>1, <2>2, <2>3 DEF MineOnly
<1> QED
  BY <1>3, <1>4 DEF RunsAccepted

(* What is kept of a file keeps whose it is, ... *)
LEMMA FilesAreMine ==
  ASSUME NEW left, MineOnly(left)
  PROVE  MineOnly(Files(left))
BY DEF MineOnly, Files

(* ... and its log is still to come. *)
LEMMA FilesForm ==
  ASSUME NEW left
  PROVE  DOMAIN Files(left) = {"evidence", "pressure", "log"} /\ Files(left).log = NoFile
BY DEF Files

(* Every step of runner, container and others keeps the invariant. *)
LEMMA AcceptanceStep ==
  ASSUME RunInv, AcceptanceInv, AcceptanceNext
  PROVE  RunInv' /\ AcceptanceInv'
<1> USE DEF AcceptanceInv, LastRun
<1>1. ASSUME StartRunner PROVE RunInv' /\ AcceptanceInv'
  BY <1>1 DEF StartRunner, FilesInv, ReportInv, OwnInv, runVars, RunInv, Unedited, IsReport,
     MineOnly
<1>2. ASSUME StartRun PROVE RunInv' /\ AcceptanceInv'
  <2>1. /\ UNCHANGED acceptanceVars /\ disk' = NoDisk /\ seen' = {} /\ happened' = <<>>
    BY <1>2 DEF StartRun, Call
  <2>2. RunInv' /\ MineOnly(NoDisk) /\ DOMAIN NoDisk = {"evidence", "pressure"}
    BY <2>1 DEF RunInv, NoDisk, MineOnly, ToSet
  <2> QED
    BY <2>1, <2>2 DEF acceptanceVars, FilesInv, ReportInv, OwnInv, Unedited, IsReport, MineOnly
<1>3. ASSUME AcceptRun PROVE RunInv' /\ AcceptanceInv'
  <2>1. PICK died \in SUBSET {"gazebo", "other"}, shutdown \in BOOLEAN :
          files' = [files EXCEPT ![CurrentRun] =
                      [Files(disk) EXCEPT !.log = [wanted |-> LogWanted(died, shutdown), edited |-> FALSE]]]
    BY <1>3 DEF AcceptRun
  <2> DEFINE log  == [wanted |-> LogWanted(died, shutdown), edited |-> FALSE]
             left == [Files(disk) EXCEPT !.log = log]
  <2>2. /\ runner = "running" /\ UNCHANGED <<proof, stray, source, orphan, kills>>
        /\ disk' = NoDisk /\ seen' = {} /\ happened' = <<>>
        /\ proofReport' = [files |-> files', stray |-> stray', source |-> source',
                           passed |-> RunsAccepted(files, stray)']
    BY <1>3 DEF AcceptRun, HandRun, WriteReport, Rebuilt
  <2>3. log \in [wanted : BOOLEAN, edited : {FALSE}]
    BY DEF LogWanted
  <2>4. /\ DOMAIN left = {"evidence", "pressure", "log"} /\ left.log = log
        /\ left.evidence = Files(disk).evidence /\ left.pressure = Files(disk).pressure
    BY FilesForm
  <2>5. DOMAIN files' = 1..LastRun /\ \A k \in 1..LastRun : files'[k] = IF k = CurrentRun THEN left ELSE files[k]
    BY <2>1 DEF FilesInv
  <2> HIDE DEF log, left
  <2>6. FilesInv' /\ Unedited(files)'
    BY <2>2, <2>3, <2>4, <2>5 DEF FilesInv, Unedited
  <2>7. ReportInv'
    BY <2>2, <2>6 DEF ReportInv, IsReport, Unedited, FilesInv
  <2>8. kills = 0 => MineOnly(left)
    BY <2>4, FilesAreMine DEF OwnInv, MineOnly
  <2>9. MineOnly(NoDisk) /\ DOMAIN NoDisk = {"evidence", "pressure"} /\ RunInv'
    BY <2>2 DEF NoDisk, MineOnly, RunInv, ToSet
  <2>10. OwnInv'
    BY <2>2, <2>5, <2>8, <2>9 DEF OwnInv, MineOnly
  <2> QED
    BY <2>6, <2>7, <2>9, <2>10
<1>4. ASSUME RunnerRaises PROVE RunInv' /\ AcceptanceInv'
  BY <1>4 DEF RunnerRaises, FilesInv, ReportInv, OwnInv, runVars, RunInv, Unedited, IsReport,
     MineOnly
<1>5. ASSUME VerifyReport PROVE RunInv' /\ AcceptanceInv'
  BY <1>5 DEF VerifyReport, FilesInv, ReportInv, OwnInv, runVars, RunInv, Unedited, IsReport,
     MineOnly
<1>6. ASSUME KillRunner PROVE RunInv' /\ AcceptanceInv'
  <2>1. /\ kills' = kills + 1 /\ files' = [files EXCEPT ![1] = Files(disk)]
        /\ runner = "running" /\ runner' = "down" /\ UNCHANGED <<proof, stray, source, proofReport>>
        /\ disk' = NoDisk /\ seen' = {} /\ happened' = <<>>
    BY <1>6 DEF KillRunner
  <2>2. DOMAIN files' = 1..LastRun /\ \A k \in 1..LastRun : files'[k] = IF k = 1 THEN Files(disk) ELSE files[k]
    BY <2>1 DEF FilesInv
  <2>3. FilesInv'
    BY <2>1, <2>2, FilesForm DEF FilesInv, Unedited
  <2>4. RunInv' /\ DOMAIN NoDisk = {"evidence", "pressure"}
    BY <2>1 DEF NoDisk, RunInv, ToSet
  <2>5. kills' \in Nat /\ kills' # 0
    BY <2>1 DEF OwnInv
  <2>6. OwnInv'
    BY <2>1, <2>4, <2>5 DEF OwnInv
  <2>7. ReportInv'
    BY <2>1 DEF ReportInv, IsReport, Unedited
  <2> QED
    BY <2>3, <2>4, <2>6, <2>7
<1>7. ASSUME OrphanWrites PROVE RunInv' /\ AcceptanceInv'
  <2>1. /\ orphan # NoFile
        /\ UNCHANGED <<proof, runner, stray, source, proofReport, kills, happened, seen>>
    BY <1>7 DEF OrphanWrites
  <2>2. DOMAIN disk' = DOMAIN disk
    BY <1>7 DEF OrphanWrites
  <2>3. /\ DOMAIN files' = 1..LastRun
        /\ \A k \in 1..LastRun : DOMAIN files'[k] = DOMAIN files[k] /\ files'[k].log = files[k].log
    <3>1. CASE UNCHANGED files
      BY <3>1 DEF FilesInv
    <3>2. CASE ~UNCHANGED files
      <4>1. \E x : \/ files' = [files EXCEPT ![1] = [files[1] EXCEPT !.evidence = x]]
                  \/ files' = [files EXCEPT ![1] = [files[1] EXCEPT !.pressure = x]]
        <5>1. CASE orphan = "evidence"
          BY ONLY <1>7, <3>2, <5>1 DEF OrphanWrites
        <5>2. CASE orphan # "evidence"
          BY ONLY <1>7, <3>2, <5>2 DEF OrphanWrites
        <5> QED
          BY ONLY <5>1, <5>2
      <4>2. PICK x : \/ files' = [files EXCEPT ![1] = [files[1] EXCEPT !.evidence = x]]
                    \/ files' = [files EXCEPT ![1] = [files[1] EXCEPT !.pressure = x]]
        BY <4>1
      <4>3. DOMAIN files' = 1..LastRun
        BY <4>2 DEF FilesInv
      <4> SUFFICES ASSUME NEW k \in 1..LastRun
                   PROVE  DOMAIN files'[k] = DOMAIN files[k] /\ files'[k].log = files[k].log
        BY <4>3
      <4>4. CASE k = 1
        BY <4>2, <4>4 DEF FilesInv
      <4>5. CASE k # 1
        BY <4>2, <4>5 DEF FilesInv
      <4> QED
        BY <4>4, <4>5
    <3> QED
      BY <3>1, <3>2
  <2>4. kills # 0
    BY <2>1 DEF OwnInv
  <2> QED
    BY <2>1, <2>2, <2>3, <2>4 DEF FilesInv, ReportInv, OwnInv, RunInv, Unedited, IsReport
<1>8. ASSUME Alter PROVE RunInv' /\ AcceptanceInv'
  <2>1. /\ runner \in {"verifying", "ended"} /\ UNCHANGED <<proof, runner, orphan, kills>> /\ UNCHANGED runVars
        /\ proofReport' \in {proofReport, [proofReport EXCEPT !.passed = ~proofReport.passed]}
    BY <1>8 DEF Alter
  <2>2. IsReport(proofReport)
    BY <2>1 DEF ReportInv
  <2>3. IsReport(proofReport')
    BY <2>1, <2>2 DEF IsReport, Unedited
  <2>4. /\ DOMAIN files' = 1..LastRun
        /\ \A k \in 1..LastRun : /\ DOMAIN files'[k] = DOMAIN files[k]
                                 /\ files'[k].evidence = files[k].evidence
                                 /\ files'[k].pressure = files[k].pressure
    <3>1. CASE UNCHANGED files
      BY <3>1 DEF FilesInv
    <3>2. CASE ~UNCHANGED files
      <4>1. PICK j \in 1..LastRun : \E x : files' = [files EXCEPT ![j].log = x]
        BY ONLY <1>8, <3>2 DEF Alter, LastRun
      <4>2. PICK x : files' = [files EXCEPT ![j] = [files[j] EXCEPT !.log = x]]
        BY <4>1
      <4>3. DOMAIN files' = 1..LastRun
        BY <4>2 DEF FilesInv
      <4> SUFFICES ASSUME NEW k \in 1..LastRun
                   PROVE  /\ DOMAIN files'[k] = DOMAIN files[k]
                          /\ files'[k].evidence = files[k].evidence
                          /\ files'[k].pressure = files[k].pressure
        BY <4>3
      <4>4. CASE k = j
        BY <4>2, <4>4 DEF FilesInv
      <4>5. CASE k # j
        BY <4>2, <4>5 DEF FilesInv
      <4> QED
        BY <4>4, <4>5
    <3> QED
      BY <3>1, <3>2
  <2>5. RunInv' /\ disk' = disk
    BY <2>1 DEF RunInv, runVars
  <2>6. FilesInv'
    BY <2>1, <2>4 DEF FilesInv
  <2>7. ReportInv'
    <3>1. IsReport(proofReport)'
      BY <2>1, <2>3 DEF IsReport, Unedited
    <3> QED
      BY <3>1 DEF ReportInv
  <2>8. ASSUME NEW k \in 1..LastRun, MineOnly(files[k]) PROVE MineOnly(files'[k])
    BY <2>4, <2>8 DEF MineOnly
  <2>9. OwnInv'
    BY <2>1, <2>5, <2>8 DEF OwnInv, MineOnly
  <2> QED
    BY <2>5, <2>6, <2>7, <2>9
<1>9. ASSUME RunStep, UNCHANGED acceptanceVars PROVE RunInv' /\ AcceptanceInv'
  <2>1. /\ RunInv'
        /\ disk'.evidence = disk.evidence \/ disk'.evidence.mine = TRUE
        /\ disk'.pressure = disk.pressure \/ disk'.pressure.mine = TRUE
    BY <1>9, RunGoesOn
  <2> QED
    BY <1>9, <2>1 DEF acceptanceVars, FilesInv, ReportInv, OwnInv, Unedited, IsReport, MineOnly,
       RunInv
<1> QED
  BY <1>1, <1>2, <1>3, <1>4, <1>5, <1>6, <1>7, <1>8, <1>9 DEF AcceptanceNext

-----------------------------------------------------------------------------
\* The scenarios of a round, and what they may be.
Width == Len(Scenarios)
ScenarioName == {"success"} \cup ToSet(LabFaults)

\* How far the campaign is: rounds begun, rounds reported, results so far and to come.
RoundInv ==
    /\ round \in Nat /\ reported \in Nat /\ round <= Planned
    /\ reported <= round /\ round <= reported + 1 /\ (reported = round => todo = <<>>)
    /\ IsList(results) /\ todo \in Seq(ScenarioName) /\ Len(todo) <= Width
    /\ \A k \in 1..Len(todo) : todo[k] = Scenarios[Width - Len(todo) + k]
    /\ Len(results) + Len(todo) = round * Width

\* A result is that of the scenario at its place of its round.
PlaceInv ==
    \A r \in 1..round, k \in 1..Width :
        (r - 1) * Width + k <= Len(results) => results[(r - 1) * Width + k].scenario = Scenarios[k]

\* What a scenario of a campaign that goes on left.
Left(result) ==
    /\ result.scenario \in ScenarioName /\ result.impaired = Impaired(result.scenario)
    /\ result.evidence \in {"mine", "none"} \/ (again /\ result.evidence = "left")
    /\ driverExit # "other" => Counts(result)

LeftInv == \A k \in 1..Len(results) : Left(results[k])

\* What the driver claims with exit zero.
CampaignBody ==
    /\ Len(results) = Planned * Len(Scenarios)
    /\ \A r \in 1..Planned, k \in 1..Len(Scenarios) :
          results[(r - 1) * Len(Scenarios) + k].scenario = Scenarios[k]
    /\ kind # "plain" => ~altered
    /\ \A k \in DOMAIN results :
          /\ results[k].evidence = "mine" \/ (again /\ results[k].evidence = "left")
          /\ results[k].verified
          /\ kind # "plain" =>
                /\ results[k].died \subseteq AsPlanned(results[k].scenario).died
                /\ results[k].prompt
          /\ Pressed =>
                /\ results[k].limited /\ ~results[k].oom
                /\ results[k].impaired = Impaired(results[k].scenario)
                /\ results[k].impaired => results[k].lifted

CampaignInv == RoundInv /\ PlaceInv /\ LeftInv /\ CampaignIsEarned

(* A round is a list of scenario names. *)
LEMMA ScenariosAre == Scenarios \in Seq(ScenarioName) /\ Width \in Nat
<1> DEFINE soak == [k \in 1..Soaks |-> "success"]
<1>1. soak \in Seq(ScenarioName)
  <2>1. soak \in [1..Soaks -> ScenarioName] /\ Soaks \in Nat
    BY CampaignAssumption DEF ScenarioName
  <2> QED
    BY <2>1, SeqDef
<1>2. LabFaults \in Seq(ScenarioName)
  <2>1. LabFaults \in [1..Len(LabFaults) -> ScenarioName] /\ Len(LabFaults) \in Nat
    BY CampaignAssumption DEF ScenarioName
  <2> QED
    BY <2>1, SeqDef
<1> HIDE DEF soak
<1>3. LabFaults \o soak \in Seq(ScenarioName) /\ soak \o LabFaults \in Seq(ScenarioName)
  BY <1>1, <1>2
<1>4. Scenarios \in Seq(ScenarioName)
  BY <1>3 DEF Scenarios, soak
<1> QED
  BY <1>4 DEF Width

(* Two places of a round-robin are the same only in the same round.          *)
LEMMA SamePlace ==
  ASSUME NEW w \in Nat, NEW q \in Nat, NEW r \in Nat, NEW j \in 1..w, NEW k \in 1..w,
         q * w + j = r * w + k
  PROVE  q = r /\ j = k
<1>1. ASSUME NEW a \in Nat, NEW b \in Nat, a < b PROVE a * w + w <= b * w
  <2>1. PICK d \in Nat : b = a + 1 + d
    <3>1. b - a - 1 \in Nat /\ b = a + 1 + (b - a - 1)
      BY <1>1
    <3> QED
      BY <3>1
  <2>2. b * w = a * w + w + d * w
    BY <2>1
  <2>3. d * w \in Nat /\ a * w \in Nat
    OBVIOUS
  <2> QED
    BY <2>2, <2>3
<1>2. q * w \in Nat /\ r * w \in Nat
  OBVIOUS
<1>3. ~(q < r)
  <2> SUFFICES ASSUME q < r PROVE FALSE
    OBVIOUS
  <2>1. q * w + w <= r * w
    BY <1>1
  <2> QED
    BY <1>2, <2>1
<1>4. ~(r < q)
  <2> SUFFICES ASSUME r < q PROVE FALSE
    OBVIOUS
  <2>1. r * w + w <= q * w
    BY <1>1
  <2> QED
    BY <1>2, <2>1
<1>5. q = r
  BY <1>3, <1>4
<1> QED
  BY <1>2, <1>5

(* A campaign starts in its invariant. *)
LEMMA CampaignStarts == CampaignInit => CampaignInv
<1> SUFFICES ASSUME CampaignInit PROVE CampaignInv
  OBVIOUS
<1> USE CampaignAssumption, ScenariosAre DEF CampaignInit
<1>1. IsList(<<>>) /\ Len(<<>>) = 0 /\ <<>> \in Seq(ScenarioName) /\ 0 * Width = 0
  BY DEF IsList
<1>2. RoundInv
  BY <1>1 DEF RoundInv, Planned
<1>3. PlaceInv /\ LeftInv /\ CampaignIsEarned
  BY <1>1 DEF PlaceInv, LeftInv, CampaignIsEarned
<1> QED
  BY <1>2, <1>3 DEF CampaignInv

(* A round begins with all its places free. *)
LEMMA StartRoundKeeps == ASSUME CampaignInv, StartRound PROVE CampaignInv'
<1>1. /\ driverExit = "none" /\ todo = <<>> /\ reported = round /\ round < Planned
      /\ round' = round + 1 /\ todo' = Scenarios
      /\ UNCHANGED <<kind, again, extra, results, reported, altered, driverExit>>
  BY DEF StartRound
<1>2. Planned \in Nat /\ Planned' = Planned /\ Scenarios' = Scenarios /\ Width' = Width
  BY <1>1, CampaignAssumption DEF Planned, Scenarios, Width
<1>3. /\ Len(todo) = 0 /\ Len(results) = round * Width /\ round \in Nat /\ Width \in Nat
      /\ Len(results) \in Nat
  BY <1>1, ScenariosAre DEF CampaignInv, RoundInv, IsList
<1>4. (round + 1) * Width = round * Width + Width
  BY <1>3
<1>5. RoundInv'
  <2>1. Len(todo') = Width /\ todo' \in Seq(ScenarioName)
    BY <1>1, ScenariosAre DEF Width
  <2>2. \A k \in 1..Width : todo'[k] = Scenarios[Width - Width + k]
    BY <1>1, <1>3
  <2> QED
    BY <1>1, <1>2, <1>3, <1>4, <2>1, <2>2 DEF CampaignInv, RoundInv
<1>6. PlaceInv'
  <2> SUFFICES ASSUME NEW r \in 1..(round + 1), NEW k \in 1..Width,
                      (r - 1) * Width + k <= Len(results)
               PROVE  results[(r - 1) * Width + k].scenario = Scenarios[k]
    BY <1>1, <1>2 DEF PlaceInv
  <2>1. r # round + 1
    BY <1>3
  <2> QED
    BY <1>3, <2>1 DEF CampaignInv, PlaceInv
<1>7. LeftInv' /\ CampaignIsEarned'
  BY <1>1 DEF CampaignInv, LeftInv, Left, Counts, Impaired, CampaignIsEarned
<1> QED
  BY <1>5, <1>6, <1>7 DEF CampaignInv

(* A scenario fills the next place of its round. *)
LEMMA RunScenarioKeeps == ASSUME CampaignInv, RunScenario PROVE CampaignInv'
<1> DEFINE n == Len(results)
<1>1. PICK result \in {AsPlanned(Head(todo))}
                        \cup (IF OddCount < MaxOdd THEN Oddities(Head(todo)) ELSE {}) :
         /\ results' = Append(results, result)
         /\ driverExit' = IF Counts(result) THEN "none" ELSE "other"
  BY DEF RunScenario
<1>2. /\ driverExit = "none" /\ todo # <<>> /\ todo' = Tail(todo)
      /\ UNCHANGED <<kind, again, extra, round, reported, altered>>
  BY DEF RunScenario
<1>3. Planned' = Planned /\ Scenarios' = Scenarios /\ Width' = Width
  BY <1>2 DEF Planned, Scenarios, Width
<1>4. /\ todo \in Seq(ScenarioName) /\ Head(todo) \in ScenarioName /\ Len(todo) \in Nat \ {0} /\ Head(todo) = todo[1]
      /\ Len(todo') = Len(todo) - 1 /\ todo' \in Seq(ScenarioName)
      /\ \A k \in 1..Len(todo') : todo'[k] = todo[k + 1]
  <2>1. todo \in Seq(ScenarioName) /\ todo # <<>>
    BY <1>2 DEF CampaignInv, RoundInv
  <2> QED
    BY <1>2, <2>1
<1>5. /\ result.scenario = Head(todo) /\ result.impaired = Impaired(Head(todo))
      /\ result.evidence \in {"mine", "none"} \/ (again /\ result.evidence = "left")
  BY <1>1 DEF AsPlanned, Oddities
<1>6. /\ IsList(results') /\ Len(results') = n + 1 /\ n \in Nat
      /\ \A i \in 1..n : results'[i] = results[i]
      /\ results'[n + 1] = result
  <2>1. IsList(results)
    BY DEF CampaignInv, RoundInv
  <2> QED
    BY <1>1, <2>1, ListGrows
<1>7. /\ round \in Nat /\ Width \in Nat /\ n + Len(todo) = round * Width /\ Len(todo) <= Width
      /\ \A k \in 1..Len(todo) : todo[k] = Scenarios[Width - Len(todo) + k]
  BY ScenariosAre DEF CampaignInv, RoundInv
<1> DEFINE product == round * Width
<1>a. product = round * Width /\ product \in Nat /\ n + Len(todo) = product
  BY <1>7
<1> HIDE DEF n, product
<1>8. RoundInv'
  <2>1. \A k \in 1..Len(todo') : todo'[k] = Scenarios[Width - Len(todo') + k]
    <3> SUFFICES ASSUME NEW k \in 1..Len(todo') PROVE todo'[k] = Scenarios[Width - Len(todo') + k]
      OBVIOUS
    <3>1. k + 1 \in 1..Len(todo) /\ Width - Len(todo) + (k + 1) = Width - Len(todo') + k
      BY <1>4, <1>7
    <3> QED
      BY <1>4, <1>7, <3>1
  <2>2. reported # round
    BY <1>2 DEF CampaignInv, RoundInv
  <2>3. Len(results') + Len(todo') = product /\ Len(todo') <= Width
    <3>1. Len(results') = n + 1 /\ n \in Nat /\ Len(todo') = Len(todo) - 1 /\ Len(todo) \in Nat
      BY <1>4, <1>6
    <3>2. n + Len(todo) = product /\ Len(todo) <= Width /\ product \in Nat /\ Width \in Nat
      BY <1>7, <1>a
    <3> QED
      BY ONLY <3>1, <3>2
  <2> QED
    BY <1>2, <1>3, <1>4, <1>6, <1>a, <2>1, <2>2, <2>3 DEF CampaignInv, RoundInv
<1>9. PlaceInv'
  <2> SUFFICES ASSUME NEW r \in 1..round, NEW k \in 1..Width, (r - 1) * Width + k <= n + 1
               PROVE  results'[(r - 1) * Width + k].scenario = Scenarios[k]
    BY <1>2, <1>3, <1>6 DEF PlaceInv
  <2>0. (r - 1) * Width \in Nat
    BY <1>7
  <2>1. CASE (r - 1) * Width + k <= n
    BY <1>6, <2>0, <2>1 DEF CampaignInv, PlaceInv, n
  <2>2. CASE (r - 1) * Width + k = n + 1
    <3>1. round # 0 /\ round - 1 \in Nat /\ r - 1 \in Nat
      BY <1>7
    <3>2. round * Width = (round - 1) * Width + Width
      BY <1>7
    <3>3. PICK j \in 1..Width : j = Width - Len(todo) + 1 /\ n + 1 = (round - 1) * Width + j
      <4> DEFINE before == (round - 1) * Width
      <4>1. before \in Nat /\ product = before + Width
        BY <1>7, <1>a, <3>1, <3>2
      <4>2. n \in Nat /\ Len(todo) \in Nat \ {0} /\ n + Len(todo) = product /\ Len(todo) <= Width
            /\ Width \in Nat
        BY <1>4, <1>6, <1>7, <1>a
      <4> HIDE DEF before
      <4>3. Width - Len(todo) + 1 \in 1..Width /\ n + 1 = before + (Width - Len(todo) + 1)
        BY ONLY <4>1, <4>2
      <4> QED
        BY <4>3 DEF before
    <3>4. k = j
      <4>1. (r - 1) * Width + k = (round - 1) * Width + j
        BY <2>2, <3>3
      <4>2. Width \in Nat /\ round - 1 \in Nat /\ r - 1 \in Nat
        BY <1>7, <3>1
      <4>3. PICK w \in Nat : w = Width
        BY <4>2
      <4>4. PICK q \in Nat : q = r - 1
        BY <4>2
      <4>5. PICK p \in Nat : p = round - 1
        BY <4>2
      <4>6. q * w + k = p * w + j
        BY ONLY <4>1, <4>3, <4>4, <4>5
      <4>7. k \in 1..w /\ j \in 1..w
        BY <4>3
      <4> QED
        BY ONLY <4>6, <4>7, SamePlace
    <3>5. Head(todo) = Scenarios[j]
      BY <1>4, <1>7, <3>3
    <3> QED
      BY <1>5, <1>6, <2>2, <3>4, <3>5
  <2> QED
    BY <1>6, <2>0, <2>1, <2>2
<1>10. LeftInv'
  <2>2. /\ result.scenario \in ScenarioName /\ result.impaired = Impaired(result.scenario)'
        /\ result.evidence \in {"mine", "none"} \/ (again' /\ result.evidence = "left")
        /\ driverExit' # "other" => Counts(result)
    BY <1>1, <1>2, <1>4, <1>5 DEF Impaired
  <2>3. Len(results') = n + 1 /\ n \in Nat
    BY <1>6
  <2> SUFFICES ASSUME NEW k \in 1..(n + 1) PROVE Left(results[k])'
    BY <2>3 DEF LeftInv
  <2>4. CASE k = n + 1
    <3>1. results'[k] = result
      BY <1>6, <2>4
    <3> QED
      BY ONLY <2>2, <3>1 DEF Left, Impaired, Counts
  <2>5. CASE k \in 1..n
    <3>1. Left(results[k]) /\ results'[k] = results[k]
      BY <1>6, <2>5 DEF CampaignInv, LeftInv, n
    <3>2. driverExit = "none" /\ driverExit' \in {"none", "other"} /\ again' = again /\ kind' = kind
      BY <1>1, <1>2
    <3> QED
      BY ONLY <3>1, <3>2 DEF Left, Impaired, Counts
  <2> QED
    BY <2>3, <2>4, <2>5
<1>11. CampaignIsEarned'
  BY <1>1 DEF CampaignIsEarned
<1> QED
  BY <1>8, <1>9, <1>10, <1>11 DEF CampaignInv

(* Every step keeps the invariant; a driver that concludes has every place
   filled, and the reports it demands imply the rest. *)
LEMMA CampaignStep == ASSUME CampaignInv, CampaignNext PROVE CampaignInv'
<1>1. ASSUME ReportRound PROVE CampaignInv'
  <2>1. /\ driverExit = "none" /\ round > reported /\ todo = <<>>
        /\ UNCHANGED <<kind, again, extra, round, todo, results, altered>>
        /\ \/ reported' = reported + 1 /\ UNCHANGED driverExit
           \/ driverExit' = "other" /\ UNCHANGED reported
    BY <1>1 DEF ReportRound
  <2>a. Planned' = Planned /\ Scenarios' = Scenarios /\ Width' = Width
    BY <2>1 DEF Planned, Scenarios, Width
  <2>b. RoundInv'
    BY <2>1, <2>a DEF CampaignInv, RoundInv
  <2>2. RoundInv' /\ PlaceInv'
    BY <2>1, <2>a, <2>b DEF CampaignInv, PlaceInv
  <2>3. LeftInv' /\ CampaignIsEarned'
    BY <2>1 DEF CampaignInv, LeftInv, Left, Counts, Impaired, CampaignIsEarned
  <2> QED
    BY <2>2, <2>3 DEF CampaignInv
<1>2. ASSUME ChangeReport PROVE CampaignInv'
  <2>1. driverExit = "none" /\ UNCHANGED <<kind, again, extra, round, todo, results, reported, driverExit>>
    BY <1>2 DEF ChangeReport
  <2>2. RoundInv' /\ PlaceInv'
    BY <2>1 DEF CampaignInv, RoundInv, PlaceInv, Planned, Scenarios, Width
  <2>3. LeftInv' /\ CampaignIsEarned'
    BY <2>1 DEF CampaignInv, LeftInv, Left, Counts, Impaired, CampaignIsEarned
  <2> QED
    BY <2>2, <2>3 DEF CampaignInv
<1>3. ASSUME Conclude PROVE CampaignInv'
  <2>1. /\ driverExit = "none" /\ round = Planned /\ reported = Planned
        /\ driverExit' = IF (kind = "plain" \/ CampaignPassed) /\ (Pressed => PressurePassed)
                         THEN "zero" ELSE "other"
        /\ UNCHANGED <<kind, again, extra, round, todo, results, reported, altered>>
    BY <1>3 DEF Conclude
  <2>2. RoundInv' /\ PlaceInv'
    BY <2>1 DEF CampaignInv, RoundInv, PlaceInv, Planned, Scenarios, Width
  <2>3. LeftInv'
    BY <2>1 DEF CampaignInv, LeftInv, Left, Counts, Impaired
  <2>4. ASSUME driverExit' = "zero" PROVE CampaignIsEarned'
    <3>1. (kind = "plain" \/ CampaignPassed) /\ (Pressed => PressurePassed)
      BY <2>1, <2>4
    <3>2. todo = <<>> /\ Len(results) = Planned * Width
      BY <2>1 DEF CampaignInv, RoundInv, IsList
    <3>3. \A r \in 1..Planned, k \in 1..Width : results[(r - 1) * Width + k].scenario = Scenarios[k]
      <4> SUFFICES ASSUME NEW r \in 1..Planned, NEW k \in 1..Width
                   PROVE  (r - 1) * Width + k <= Planned * Width
        BY <2>1, <3>2 DEF CampaignInv, PlaceInv
      <4>1. Width \in Nat /\ Planned \in Nat
        BY ScenariosAre, CampaignAssumption DEF Planned
      <4>2. Planned * Width = (r - 1) * Width + Width + (Planned - r) * Width
        BY <4>1
      <4>3. (Planned - r) * Width \in Nat /\ (r - 1) * Width \in Nat
        BY <4>1
      <4> QED
        BY <4>1, <4>2, <4>3
    <3>4. ASSUME NEW k \in DOMAIN results
          PROVE  /\ results[k].evidence = "mine" \/ (again /\ results[k].evidence = "left")
                 /\ results[k].verified
                 /\ kind # "plain" =>
                       /\ results[k].died \subseteq AsPlanned(results[k].scenario).died
                       /\ results[k].prompt
                 /\ Pressed =>
                       /\ results[k].limited /\ ~results[k].oom
                       /\ results[k].impaired = Impaired(results[k].scenario)
                       /\ results[k].impaired => results[k].lifted
      <4>1. Left(results[k])
        BY <3>4 DEF CampaignInv, LeftInv, RoundInv, IsList
      <4>2. Counts(results[k])
        BY <2>1, <4>1 DEF Left
      <4>3. ASSUME kind # "plain"
            PROVE  results[k].died \subseteq AsPlanned(results[k].scenario).died /\ results[k].prompt
        <5>1. CampaignPassed
          BY <3>1, <4>3
        <5>2. \A death \in results[k].died : Expected(death, results[k].scenario)
          BY <5>1 DEF CampaignPassed, UnexpectedDeaths
        <5> QED
          BY <5>1, <5>2 DEF CampaignPassed, Expected, AsPlanned
      <4>4. ASSUME Pressed
            PROVE  /\ results[k].limited /\ ~results[k].oom
                   /\ results[k].impaired => results[k].lifted
        <5>1. PressurePassed
          BY <3>1, <4>4
        <5>2. results[k].impaired => kind = "network" /\ results[k].scenario # "success"
          BY <4>1 DEF Left, Impaired
        <5>3. results[k].impaired => k \in Executions(ToSet(LabFaults)) /\ kind = "network"
          BY <4>1, <5>2 DEF Left, ScenarioName, Executions
        <5> QED
          BY <5>1, <5>3 DEF PressurePassed
      <4> QED
        BY <4>1, <4>2, <4>3, <4>4 DEF Left, Counts
    <3>5. kind # "plain" => ~altered
      BY <3>1 DEF CampaignPassed, ParsedReports
    <3>6. CampaignBody
      BY <3>2, <3>3, <3>4, <3>5 DEF CampaignBody, Width
    <3>7. CampaignBody'
      <4>1. Planned' = Planned /\ Scenarios' = Scenarios /\ Pressed' = Pressed /\ results' = results
            /\ kind' = kind /\ altered' = altered /\ again' = again
        BY <2>1 DEF Planned, Scenarios, Pressed
      <4>2. \A s : Impaired(s)' = Impaired(s) /\ AsPlanned(s)'.died = AsPlanned(s).died
        BY <4>1 DEF Impaired, AsPlanned
      <4> QED
        BY <3>6, <4>1, <4>2 DEF CampaignBody
    <3> QED
      BY <3>7 DEF CampaignIsEarned, CampaignBody
  <2>5. driverExit' # "zero" => CampaignIsEarned'
    BY DEF CampaignIsEarned
  <2> QED
    BY <2>2, <2>3, <2>4, <2>5 DEF CampaignInv
<1> QED
  BY <1>1, <1>2, <1>3, StartRoundKeeps, RunScenarioKeeps DEF CampaignNext

-----------------------------------------------------------------------------
\* All programs at once: the ones that are not on the scene have not moved.
VerdictInv ==
    /\ LabInv /\ CampaignInv /\ RunInv
    /\ scene = "series" => SeriesInv
    /\ scene # "series" => sealed = NoFile /\ exitCode = "none"
    /\ scene = "acceptance" => AcceptanceInv
    /\ scene # "acceptance" => proofReport = NoFile

(* Initially no program has concluded anything.                              *)
LEMMA VerdictInit == Init => VerdictInv
<1> SUFFICES ASSUME Init PROVE VerdictInv
  OBVIOUS
<1>1. LabInit /\ CampaignInit /\ RunInit /\ SeriesInit /\ AcceptanceInit
  BY DEF Init
<1>2. sealed = NoFile /\ exitCode = "none" /\ proofReport = NoFile
  BY <1>1 DEF SeriesInit, AcceptanceInit
<1> QED
  BY <1>1, <1>2, LabStarts, CampaignStarts, RunStarts, SeriesStarts, AcceptanceStarts DEF VerdictInv

(* What a program that does not move has shown stays shown: of the lab, ...  *)
LEMMA LabStays == ASSUME LabInv, UNCHANGED labVars PROVE LabInv'
BY DEF LabInv, LabType, ResumeInv, MotionInv, ShutdownInv, NoneActive, labVars, labLoop, report,
   stack

(* ... of the campaign, ... *)
LEMMA CampaignStays == ASSUME CampaignInv, UNCHANGED campaignVars PROVE CampaignInv'
<1>1. UNCHANGED <<kind, again, extra, round, todo, results, reported, altered, driverExit>>
  BY DEF campaignVars
<1>2. Planned' = Planned /\ Scenarios' = Scenarios /\ Width' = Width /\ (Pressed' <=> Pressed)
  BY <1>1 DEF Planned, Scenarios, Width, Pressed
<1>3. \A s : (Impaired(s) <=> Impaired(s)') /\ AsPlanned(s)'.died = AsPlanned(s).died
  BY <1>1 DEF Impaired, AsPlanned
<1>4. RoundInv' /\ PlaceInv'
  BY <1>1, <1>2 DEF CampaignInv, RoundInv, PlaceInv
<1>5. LeftInv'
  BY <1>1 DEF CampaignInv, LeftInv, Left, Counts, Impaired
<1>6. CampaignIsEarned'
  <2>1. CampaignBody => CampaignBody'
    BY <1>1, <1>2, <1>3 DEF CampaignBody
  <2>2. driverExit = "zero" => CampaignBody
    BY DEF CampaignInv, CampaignIsEarned, CampaignBody
  <2>3. driverExit' = "zero" => CampaignBody'
    BY <1>1, <2>1, <2>2
  <2> QED
    BY ONLY <2>3 DEF CampaignIsEarned, CampaignBody
<1> QED
  BY <1>4, <1>5, <1>6 DEF CampaignInv

(* ... and of a run. *)
LEMMA RunStays == ASSUME RunInv, UNCHANGED runVars PROVE RunInv'
BY DEF RunInv, runVars

(* Whatever program is on the scene, a step of it keeps what was shown.      *)
LEMMA VerdictStep ==
  VerdictInv /\ [Next]_<<executionVars, safetyVars, labVars, proofVars, scene>> => VerdictInv'
<1> SUFFICES ASSUME VerdictInv, [Next]_<<executionVars, safetyVars, labVars, proofVars, scene>>
             PROVE  VerdictInv'
  OBVIOUS
<1> USE DEF VerdictInv
<1>1. ASSUME UNCHANGED <<labVars, proofVars, scene>> PROVE VerdictInv'
  <2>1. /\ UNCHANGED labVars /\ UNCHANGED runVars /\ UNCHANGED seriesVars
        /\ UNCHANGED acceptanceVars /\ UNCHANGED campaignVars /\ UNCHANGED scene
    BY <1>1 DEF proofVars
  <2>2. LabInv' /\ CampaignInv' /\ RunInv'
    BY <2>1, LabStays, CampaignStays, RunStays
  <2>3. SeriesInv => SeriesInv'
    BY <2>1 DEF SeriesInv, SeriesIsEarned, Endurance, Test, Shown, seriesVars, runVars
  <2>4. AcceptanceInv => AcceptanceInv'
    BY <2>1 DEF AcceptanceInv, FilesInv, ReportInv, OwnInv, Unedited, IsReport, MineOnly, LastRun,
                acceptanceVars, runVars
  <2> QED
    BY <2>1, <2>2, <2>3, <2>4 DEF seriesVars, acceptanceVars
<1>2. ASSUME scene = "lab", LabNext, UNCHANGED <<proofVars, scene>> PROVE VerdictInv'
  <2>1. LabInv'
    BY <1>2, LabTypeStep, ResumeInvStep, MotionInvStep, ShutdownInvStep DEF LabInv
  <2>2. CampaignInv' /\ RunInv'
    BY <1>2, CampaignStays, RunStays DEF proofVars
  <2> QED
    BY <1>2, <2>1, <2>2 DEF proofVars, seriesVars, acceptanceVars
<1>3. ASSUME scene = "series", SeriesNext, UNCHANGED <<labScenes, acceptanceVars, campaignVars, scene>>
      PROVE  VerdictInv'
  <2>1. LabInv' /\ CampaignInv'
    BY <1>3, LabStays, CampaignStays DEF labScenes
  <2> QED
    BY <1>3, <2>1, SeriesStep DEF acceptanceVars
<1>4. ASSUME scene = "acceptance", AcceptanceNext, UNCHANGED <<labScenes, seriesVars, campaignVars, scene>>
      PROVE  VerdictInv'
  <2>1. LabInv' /\ CampaignInv'
    BY <1>4, LabStays, CampaignStays DEF labScenes
  <2> QED
    BY <1>4, <2>1, AcceptanceStep DEF seriesVars
<1>5. ASSUME scene = "campaign", CampaignNext,
             UNCHANGED <<labScenes, runVars, seriesVars, acceptanceVars, scene>>
      PROVE  VerdictInv'
  <2>1. LabInv' /\ RunInv' /\ CampaignInv'
    BY <1>5, LabStays, RunStays, CampaignStep DEF labScenes
  <2> QED
    BY <1>5, <2>1 DEF seriesVars, acceptanceVars
<1> QED
  BY <1>1, <1>2, <1>3, <1>4, <1>5 DEF Next

(* The verdicts follow from what was shown.                                  *)
LEMMA VerdictHolds == VerdictInv => VerdictsAreEarned
<1> SUFFICES ASSUME VerdictInv PROVE VerdictsAreEarned
  OBVIOUS
<1>1. LabIsAccountable
  BY LabHolds DEF VerdictInv
<1>2. SeriesIsEarned
  <2>1. CASE scene = "series"
    BY <2>1 DEF VerdictInv, SeriesInv
  <2>2. CASE scene # "series"
    <3>1. sealed # TRUE /\ exitCode # "zero"
      BY <2>2, SeriesAssumption DEF VerdictInv
    <3> QED
      BY ONLY <3>1, Zenon DEF SeriesIsEarned
  <2> QED
    BY <2>1, <2>2
<1>3. AcceptanceIsEarned
  <2>1. CASE scene = "acceptance"
    BY <2>1, AcceptanceHolds DEF VerdictInv
  <2>2. CASE scene # "acceptance"
    BY <2>2 DEF VerdictInv, AcceptanceIsEarned, Accepts, Verified
  <2> QED
    BY <2>1, <2>2
<1>4. CampaignIsEarned
  BY DEF VerdictInv, CampaignInv
<1> QED
  BY <1>1, <1>2, <1>3, <1>4 DEF VerdictsAreEarned

(* What the programs that run and judge the laboratory conclude is what      *)
(* happened, for any nodes, tests, profiles, faults, rounds and bounds.      *)
THEOREM VerdictsEarned == Spec => []VerdictsAreEarned
<1>1. Spec => []VerdictInv
  BY VerdictInit, VerdictStep, PTL DEF Spec
<1> QED
  BY <1>1, VerdictHolds, PTL
================================================================================
