-------------------------------- MODULE Drives_proofs --------------------------
(***************************************************************************)
(* Theorems about RosbridgeGoals and RclpyGoals, and about their composition *)
(* in MCDrives, for any calls, jobs, drives, threads and bounds.             *)
(***************************************************************************)
EXTENDS MCDrives, TLAPS, SequenceTheorems

(* TypeOK is not inductive: a reconnect only runs while a socket is left,    *)
(* and a withdrawer that is past its choice has chosen a call.               *)
LinkInv == LinkType /\ (reopening => ~up /\ sock < MaxSocket)

WithdrawInv ==
    /\ WithdrawType
    /\ \A k \in Withdrawer :
        wpc[k] \in {"send", "await", "drop", "keep", "pop"} => wcall[k] \in Call

TypeInv ==
    /\ LinkInv /\ RobotType /\ IdType /\ ResultType /\ GuardType
    /\ JobType /\ WithdrawInv /\ HistoryType

(* What goes into a channel, and what comes out of it, is a goal.            *)
LEMMA GoalIsId == ASSUME LinkType, IdType, NEW c \in Call PROVE Goal(c) \in GoalId
  BY DEF Goal, GoalId, LinkType, IdType

(* A message for a goal keeps the channel to the robot well formed.          *)
LEMMA ChannelPut ==
  ASSUME NEW op \in {"goal", "cancel"}, NEW g \in GoalId, RobotType
  PROVE  Append(toRobot, Message(op, g)) \in Seq(Sent)
<1>1. Message(op, g) \in Sent
  BY DEF Message, Sent
<1> QED
  BY <1>1, AppendProperties DEF RobotType

(* What is read from either channel is a message about a goal.               *)
LEMMA ChannelTake ==
  ASSUME RobotType
  PROVE  /\ toRobot # <<>> => Head(toRobot).goal \in GoalId /\ Tail(toRobot) \in Seq(Sent)
         /\ toHost # <<>> => /\ Head(toHost).goal \in GoalId
                            /\ Head(toHost).status \in Status
                            /\ Tail(toHost) \in Seq(Result)
<1>1. ASSUME toRobot # <<>> PROVE Head(toRobot) \in Sent /\ Tail(toRobot) \in Seq(Sent)
  BY <1>1, HeadTailProperties DEF RobotType
<1>2. ASSUME toHost # <<>> PROVE Head(toHost) \in Result /\ Tail(toHost) \in Seq(Result)
  BY <1>2, HeadTailProperties DEF RobotType
<1> QED
  BY <1>1, <1>2 DEF Sent, Result

(* A result the robot reports keeps the channel to the host well formed.     *)
LEMMA ReportType ==
  ASSUME RobotType, NEW g \in GoalId, NEW st \in Status, Report(g, st)
  PROVE  toHost' \in Seq(Result)
<1>1. [goal |-> g, status |-> st] \in Result
  BY DEF Result
<1> QED
  BY <1>1, AppendProperties DEF Report, RobotType

(* No guard and a new guard are guards.                                      *)
LEMMA GuardValues == NoGuard \in Guard /\ NewGuard \in Guard
  BY BoundAssumption DEF Guard, NoGuard, NewGuard

(* A slower goal within the bound has a sequence number within it.           *)
LEMMA NextGoal == ASSUME GuardType, NEW c \in Call, guard[c].n + 1 <= MaxSlow
                  PROVE  guard[c].n + 1 \in 0..MaxSlow
<1>1. guard[c].n \in 0..MaxSlow
  BY DEF GuardType, Guard
<1> QED
  BY <1>1, BoundAssumption

(* The strengthened type invariant holds initially ...                       *)
LEMMA TypeInit == Init => TypeInv
<1> SUFFICES ASSUME Init PROVE TypeInv
  OBVIOUS
<1> USE CallAssumption, BoundAssumption DEF Init
<1>1. LinkInv
  <2>1. 1 \in 1..MaxSocket
    OBVIOUS
  <2> QED
    BY <2>1 DEF LinkInv, LinkType
<1>7. RobotType
  BY DEF RobotType
<1>2. IdType /\ ResultType
  BY DEF IdType, ResultType, Status, NoStatus, Outcome
<1>3. GuardType
  BY GuardValues DEF GuardType
<1>4. JobType
  BY DEF JobType, Status, NoStatus, Outcome
<1>5. WithdrawInv
  BY DEF WithdrawInv, WithdrawType, Outcome
<1>6. HistoryType
  BY DEF HistoryType
<1> QED
  BY <1>1, <1>2, <1>3, <1>4, <1>5, <1>6, <1>7 DEF TypeInv

(* ... and every action of every thread, of the robot and of the link keeps  *)
(* it.                                                                       *)
LEMMA TypeStep == TypeInv /\ [Next]_vars => TypeInv'
<1> SUFFICES ASSUME TypeInv, [Next]_vars PROVE TypeInv'
  OBVIOUS
<1> USE CallAssumption, BoundAssumption DEF TypeInv
<1>1. ASSUME NEW j \in Job, Arm(j) PROVE TypeInv'
  <2>1. GuardType'
    BY <1>1 DEF Arm, Step, GuardType, NoGuard, NewGuard, Guard
  <2>2. JobType'
    BY <1>1 DEF Arm, Step, JobType, Status, NoStatus, Outcome
  <2>3. HistoryType'
    BY <1>1 DEF Arm, Step, HistoryType, GoalId, LinkInv, LinkType, IdType
  <2> QED
    BY <1>1, <2>1, <2>2, <2>3 DEF Arm, LinkInv, LinkType, RobotType, IdType, ResultType,
       WithdrawInv, WithdrawType, robot, ids, jobs, withs, hist
<1>2. ASSUME NEW j \in Job, GiveUp(j) PROVE TypeInv'
  <2>1. JobType'
    BY <1>2 DEF GiveUp, Step, Return, JobType, Status, NoStatus, Outcome
  <2> QED
    BY <1>2, <2>1 DEF GiveUp, LinkInv, LinkType, RobotType, IdType, ResultType, GuardType,
       WithdrawInv, WithdrawType, HistoryType, robot, ids, jobs, withs, hist
<1>3. ASSUME NEW j \in Job, Refuse(j) PROVE TypeInv'
  <2>1. JobType'
    BY <1>3 DEF Refuse, Step, Return, JobType, Status, NoStatus, Outcome
  <2> QED
    BY <1>3, <2>1 DEF Refuse, LinkInv, LinkType, RobotType, IdType, ResultType, GuardType,
       WithdrawInv, WithdrawType, HistoryType, robot, ids, jobs, withs, hist
<1>4. ASSUME NEW j \in Job, Answer(j) PROVE TypeInv'
  <2>1. JobType'
    BY <1>4 DEF Answer, Step, Return, ResultType, JobType, Status, NoStatus, Outcome
  <2> QED
    BY <1>4, <2>1 DEF Answer, LinkInv, LinkType, RobotType, IdType, ResultType, GuardType,
       WithdrawInv, WithdrawType, HistoryType, robot, ids, jobs, withs, hist
<1>5. ASSUME NEW j \in Job, Resume(j) PROVE TypeInv'
  <2>1. JobType'
    BY <1>5 DEF Resume, Step, JobType, Status, NoStatus, Outcome
  <2> QED
    BY <1>5, <2>1 DEF Resume, LinkInv, LinkType, RobotType, IdType, ResultType, GuardType,
       WithdrawInv, WithdrawType, HistoryType, robot, ids, jobs, withs, hist
<1>6. ASSUME NEW j \in Job, Fresh(j) PROVE TypeInv'
  <2>1. JobType'
    BY <1>6 DEF Fresh, Step, JobType, Status, NoStatus, Outcome
  <2> QED
    BY <1>6, <2>1 DEF Fresh, LinkInv, LinkType, RobotType, IdType, ResultType, GuardType,
       WithdrawInv, WithdrawType, HistoryType, robot, ids, jobs, withs, hist
<1>7. ASSUME NEW j \in Job, Send(j) PROVE TypeInv'
  <2>1. RobotType'
    BY <1>7 DEF Send, Step, SendGoal, Message, RobotType, Sent, Result, GoalId, Status,
       LinkType, LinkInv, IdType
  <2>2. JobType'
    BY <1>7 DEF Send, Step, SendGoal, Message, JobType, Status, NoStatus, Outcome
  <2>3. HistoryType'
    <3>1. <<sock, CallOf[j], 0>> \in GoalId
      BY DEF GoalId, LinkInv, LinkType
    <3> QED
      BY <1>7, <3>1 DEF Send, HistoryType
  <2> QED
    BY <1>7, <2>1, <2>2, <2>3 DEF Send, LinkInv, LinkType, IdType, ResultType, GuardType,
       WithdrawInv, WithdrawType, robot, ids, jobs, withs, hist
<1>8. ASSUME NEW j \in Job, SendRefused(j) PROVE TypeInv'
  <2>1. JobType'
    BY <1>8 DEF SendRefused, Step, Return, JobType, Status, NoStatus, Outcome
  <2> QED
    BY <1>8, <2>1 DEF SendRefused, LinkInv, LinkType, RobotType, IdType, ResultType,
       GuardType,
       WithdrawInv, WithdrawType, HistoryType, robot, ids, jobs, withs, hist
<1>9. ASSUME NEW j \in Job, Record(j) PROVE TypeInv'
  <2>1. IdType'
    BY <1>9 DEF Record, Step, IdType
  <2>2. JobType'
    BY <1>9 DEF Record, Step, JobType, Status, NoStatus, Outcome
  <2> QED
    BY <1>9, <2>1, <2>2 DEF Record, LinkInv, LinkType, RobotType, ResultType, GuardType,
       WithdrawInv, WithdrawType, HistoryType, robot, ids, jobs, withs, hist
<1>10. ASSUME NEW j \in Job, Register(j) PROVE TypeInv'
  <2>1. JobType'
    BY <1>10 DEF Register, Step, JobType, Status, NoStatus, Outcome
  <2> QED
    BY <1>10, <2>1 DEF Register, LinkInv, LinkType, RobotType, IdType, ResultType,
       GuardType,
       WithdrawInv, WithdrawType, HistoryType, robot, ids, jobs, withs, hist
<1>11. ASSUME NEW j \in Job, TakeResult(j) PROVE TypeInv'
  <2>1. ResultType'
    BY <1>11 DEF TakeResult, Step, ResultType, Status, NoStatus, Outcome
  <2>2. JobType'
    BY <1>11 DEF TakeResult, Step, ResultType, JobType, Status, NoStatus, Outcome
  <2> QED
    BY <1>11, <2>1, <2>2 DEF TakeResult, LinkInv, LinkType, RobotType, IdType, GuardType,
       WithdrawInv, WithdrawType, HistoryType, robot, ids, jobs, withs, hist
<1>12. ASSUME NEW j \in Job, Brake(j) PROVE TypeInv'
  <2>1. GuardType'
    BY <1>12 DEF Brake, Step, GuardType, NoGuard, NewGuard, Guard
  <2>2. JobType'
    BY <1>12 DEF Brake, Step, JobType, Status, NoStatus, Outcome
  <2> QED
    BY <1>12, <2>1, <2>2 DEF Brake, LinkInv, LinkType, RobotType, IdType, ResultType,
       WithdrawInv, WithdrawType, HistoryType, robot, ids, jobs, withs, hist
<1>13. ASSUME NEW j \in Job, BrakeSend(j) PROVE TypeInv'
  <2>1. RobotType'
    BY <1>13, GoalIsId, ChannelPut DEF BrakeSend, SendCancel, RobotType, robot, LinkInv
  <2>2. JobType'
    BY <1>13 DEF BrakeSend, Step, SendCancel, Message, Goal, JobType, Status, NoStatus,
       Outcome
  <2>3. HistoryType'
    BY <1>13 DEF BrakeSend, Step, SendCancel, Message, Goal, HistoryType, GoalId, LinkInv,
       LinkType, IdType
  <2> QED
    BY <1>13, <2>1, <2>2, <2>3 DEF BrakeSend, LinkInv, LinkType, IdType, ResultType,
       GuardType,
       WithdrawInv, WithdrawType, robot, ids, jobs, withs, hist
<1>14. ASSUME NEW j \in Job, SlowDown(j) PROVE TypeInv'
  <2>1. JobType'
    BY <1>14 DEF SlowDown, Step, JobType, Status, NoStatus, Outcome
  <2> QED
    BY <1>14, <2>1 DEF SlowDown, LinkInv, LinkType, RobotType, IdType, ResultType,
       GuardType,
       WithdrawInv, WithdrawType, HistoryType, robot, ids, jobs, withs, hist
<1>15. ASSUME NEW j \in Job, SlowSwitch(j) PROVE TypeInv'
  <2>1. IdType'
    BY <1>15, NextGoal DEF SlowSwitch, IdType
  <2>2. GuardType'
    <3> DEFINE c == CallOf[j]
               r == [guard[c] EXCEPT !.slow = FALSE, !.n = guard[c].n + 1]
    <3>1. r \in Guard
      BY <1>15 DEF SlowSwitch, GuardType, Guard
    <3>2. guard' = [guard EXCEPT ![c] = r]
      BY <1>15 DEF SlowSwitch, GuardType, Guard
    <3> QED
      BY <3>1, <3>2 DEF GuardType
  <2>3. JobType'
    BY <1>15, NextGoal DEF SlowSwitch, Step, JobType, IdType
  <2> QED
    BY <1>15, <2>1, <2>2, <2>3 DEF SlowSwitch, LinkInv, LinkType, RobotType, ResultType,
       WithdrawInv, WithdrawType, HistoryType, robot, ids, jobs, withs, hist
<1>16. ASSUME NEW j \in Job, SlowSkip(j) PROVE TypeInv'
  <2>1. GuardType'
    BY <1>16 DEF SlowSkip, Step, GuardType, NoGuard, NewGuard, Guard
  <2>2. JobType'
    BY <1>16 DEF SlowSkip, Step, JobType, Status, NoStatus, Outcome
  <2> QED
    BY <1>16, <2>1, <2>2 DEF SlowSkip, LinkInv, LinkType, RobotType, IdType, ResultType,
       WithdrawInv, WithdrawType, HistoryType, robot, ids, jobs, withs, hist
<1>17. ASSUME NEW j \in Job, SlowSend(j) PROVE TypeInv'
  <2>1. RobotType'
    BY <1>17 DEF SlowSend, Step, SendGoal, Message, JobType, RobotType, Sent, Result,
       GoalId,
       Status, LinkType, LinkInv, IdType
  <2>2. JobType'
    BY <1>17 DEF SlowSend, Step, SendGoal, Message, JobType, Status, NoStatus, Outcome
  <2>3. HistoryType'
    BY <1>17 DEF SlowSend, Step, SendGoal, Message, JobType, HistoryType, GoalId, LinkInv,
       LinkType, IdType
  <2> QED
    BY <1>17, <2>1, <2>2, <2>3 DEF SlowSend, LinkInv, LinkType, IdType, ResultType,
       GuardType,
       WithdrawInv, WithdrawType, robot, ids, jobs, withs, hist
<1>18. ASSUME NEW j \in Job, SlowRollback(j) PROVE TypeInv'
  <2>1. IdType'
    BY <1>18 DEF SlowRollback, Step, JobType, IdType
  <2>2. JobType'
    BY <1>18 DEF SlowRollback, Step, JobType, Status, NoStatus, Outcome
  <2> QED
    BY <1>18, <2>1, <2>2 DEF SlowRollback, LinkInv, LinkType, RobotType, ResultType,
       GuardType,
       WithdrawInv, WithdrawType, HistoryType, robot, ids, jobs, withs, hist
<1>19. ASSUME NEW j \in Job, Finish(j) PROVE TypeInv'
  <2>1. IdType'
    BY <1>19 DEF Finish, Step, GuardType, IdType
  <2>2. JobType'
    BY <1>19 DEF Finish, Step, GuardType, JobType, Status, NoStatus, Outcome
  <2> QED
    BY <1>19, <2>1, <2>2 DEF Finish, LinkInv, LinkType, RobotType, ResultType, GuardType,
       WithdrawInv, WithdrawType, HistoryType, robot, ids, jobs, withs, hist
<1>20. ASSUME NEW j \in Job, Keep(j) PROVE TypeInv'
  <2>1. ResultType'
    BY <1>20 DEF Keep, Step, Return, Verdicts, ResultType, Status, NoStatus, Outcome
  <2>2. GuardType'
    BY <1>20 DEF Keep, Step, Return, Verdicts, GuardType, NoGuard, NewGuard, Guard
  <2>3. JobType'
    BY <1>20 DEF Keep, Step, Return, Verdicts, JobType, Status, NoStatus, Outcome
  <2> QED
    BY <1>20, <2>1, <2>2, <2>3 DEF Keep, LinkInv, LinkType, RobotType, IdType, WithdrawInv,
       WithdrawType, HistoryType, robot, ids, jobs, withs, hist
<1>21. ASSUME NEW k \in Withdrawer, NEW c \in Call, Cancel(k, c) PROVE TypeInv'
  <2>1. WithdrawInv'
    BY <1>21 DEF Cancel, WStep, CancelEnds, WithdrawInv, WithdrawType, Outcome
  <2> QED
    BY <1>21, <2>1 DEF Cancel, LinkInv, LinkType, RobotType, IdType, ResultType, GuardType,
       JobType, HistoryType, robot, ids, jobs, withs, hist
<1>22. ASSUME NEW k \in Withdrawer, CancelSend(k) PROVE TypeInv'
  <2>1. RobotType'
    BY <1>22 DEF CancelSend, WStep, SendCancel, Message, Goal, WithdrawInv, WithdrawType,
       RobotType, Sent, Result, GoalId, Status, LinkType, LinkInv, IdType
  <2>2. WithdrawInv'
    BY <1>22 DEF CancelSend, WStep, SendCancel, Message, Goal, WithdrawInv, WithdrawType,
       Outcome
  <2>3. HistoryType'
    BY <1>22 DEF CancelSend, WStep, SendCancel, Message, Goal, WithdrawInv, WithdrawType,
       HistoryType, GoalId, LinkInv, LinkType, IdType
  <2> QED
    BY <1>22, <2>1, <2>2, <2>3 DEF CancelSend, LinkInv, LinkType, IdType, ResultType,
       GuardType,
       JobType, robot, ids, jobs, withs, hist
<1>23. ASSUME NEW k \in Withdrawer, CancelRaises(k) PROVE TypeInv'
  <2>1. WithdrawInv'
    BY <1>23 DEF CancelRaises, WStep, CancelEnds, WithdrawInv, WithdrawType, Outcome
  <2> QED
    BY <1>23, <2>1 DEF CancelRaises, LinkInv, LinkType, RobotType, IdType, ResultType,
       GuardType, JobType, HistoryType, robot, ids, jobs, withs, hist
<1>24. ASSUME NEW k \in Withdrawer, CancelConfirmed(k) PROVE TypeInv'
  <2>1. ResultType'
    BY <1>24 DEF CancelConfirmed, WStep, CancelEnds, ResultType, Status, NoStatus, Outcome
  <2>2. WithdrawInv'
    BY <1>24 DEF CancelConfirmed, WStep, CancelEnds, WithdrawInv, WithdrawType, Outcome
  <2> QED
    BY <1>24, <2>1, <2>2 DEF CancelConfirmed, LinkInv, LinkType, RobotType, IdType,
       GuardType,
       JobType, HistoryType, robot, ids, jobs, withs, hist
<1>25. ASSUME NEW k \in Withdrawer, CancelUnconfirmed(k) PROVE TypeInv'
  <2>1. WithdrawInv'
    BY <1>25 DEF CancelUnconfirmed, WStep, CancelEnds, WithdrawInv, WithdrawType, Outcome
  <2> QED
    BY <1>25, <2>1 DEF CancelUnconfirmed, LinkInv, LinkType, RobotType, IdType, ResultType,
       GuardType, JobType, HistoryType, robot, ids, jobs, withs, hist
<1>26. ASSUME NEW k \in Withdrawer, CancelDrop(k) PROVE TypeInv'
  <2>1. IdType'
    BY <1>26 DEF CancelDrop, WStep, IdType
  <2>2. WithdrawInv'
    BY <1>26 DEF CancelDrop, WStep, WithdrawInv, WithdrawType, Outcome
  <2>3. HistoryType'
    BY <1>26 DEF CancelDrop, WStep, HistoryType, GoalId, LinkInv, LinkType, IdType
  <2> QED
    BY <1>26, <2>1, <2>2, <2>3 DEF CancelDrop, LinkInv, LinkType, RobotType, ResultType,
       GuardType, JobType, robot, ids, jobs, withs, hist
<1>27. ASSUME NEW k \in Withdrawer, CancelKeep(k) PROVE TypeInv'
  <2>1. ResultType'
    BY <1>27 DEF CancelKeep, WStep, CancelEnds, ResultType, Status, NoStatus, Outcome
  <2>2. GuardType'
    BY <1>27, GuardValues DEF CancelKeep, GuardType
  <2>3. WithdrawInv'
    BY <1>27 DEF CancelKeep, WStep, CancelEnds, WithdrawInv, WithdrawType, Outcome
  <2> QED
    BY <1>27, <2>1, <2>2, <2>3 DEF CancelKeep, LinkInv, LinkType, RobotType, IdType,
       JobType,
       HistoryType, robot, ids, jobs, withs, hist
<1>28. ASSUME NEW k \in Withdrawer, StopBegin(k) PROVE TypeInv'
  <2>1. WithdrawInv'
    BY <1>28 DEF StopBegin, WStep, IdType, WithdrawInv, WithdrawType, Outcome
  <2>2. HistoryType'
    BY <1>28 DEF StopBegin, WStep, IdType, HistoryType, GoalId, LinkInv, LinkType
  <2> QED
    BY <1>28, <2>1, <2>2 DEF StopBegin, LinkInv, LinkType, RobotType, IdType, ResultType,
       GuardType, JobType, robot, ids, jobs, withs, hist
<1>29. ASSUME NEW k \in Withdrawer, StopEach(k) PROVE TypeInv'
  <2>1. WithdrawInv'
    BY <1>29 DEF StopEach, WStep, WithdrawInv, WithdrawType, Outcome
  <2> QED
    BY <1>29, <2>1 DEF StopEach, LinkInv, LinkType, RobotType, IdType, ResultType,
       GuardType,
       JobType, HistoryType, robot, ids, jobs, withs, hist
<1>30. ASSUME NEW k \in Withdrawer, StopPop(k) PROVE TypeInv'
  <2>1. IdType'
    BY <1>30 DEF StopPop, WStep, IdType
  <2>2. GuardType'
    BY <1>30, GuardValues DEF StopPop, GuardType
  <2>3. WithdrawInv'
    BY <1>30 DEF StopPop, WStep, WithdrawInv, WithdrawType, Outcome
  <2>4. HistoryType'
    BY <1>30 DEF StopPop, WStep, HistoryType, GoalId, LinkInv, LinkType, IdType
  <2> QED
    BY <1>30, <2>1, <2>2, <2>3, <2>4 DEF StopPop, LinkInv, LinkType, RobotType, ResultType,
       JobType, robot, ids, jobs, withs, hist
<1>31. ASSUME NEW k \in Withdrawer, StopEnd(k) PROVE TypeInv'
  <2>1. WithdrawInv'
    BY <1>31 DEF StopEnd, WStep, WithdrawInv, WithdrawType, Outcome
  <2> QED
    BY <1>31, <2>1 DEF StopEnd, LinkInv, LinkType, RobotType, IdType, ResultType, GuardType,
       JobType, HistoryType, robot, ids, jobs, withs, hist
<1>32. CASE ReadResult
  <2>1. RobotType'
    BY <1>32, ChannelTake DEF ReadResult, RobotType
  <2>2. ResultType'
    <3>1. Head(toHost).status \in Status
      BY <1>32, ChannelTake DEF ReadResult
    <3> QED
      BY <1>32, <3>1 DEF ReadResult, ResultType
  <2>3. HistoryType'
    BY <1>32 DEF ReadResult, Waiting, RobotType, HistoryType, GoalId, LinkInv, LinkType,
       IdType
  <2> QED
    BY <1>32, <2>1, <2>2, <2>3 DEF ReadResult, LinkInv, LinkType, IdType, GuardType,
       JobType,
       WithdrawInv, WithdrawType, robot, ids, jobs, withs, hist
<1>33. ASSUME NEW c \in Call, GuardTrips(c) PROVE TypeInv'
  <2>1. GuardType'
    BY <1>33 DEF GuardTrips, GuardType, NoGuard, NewGuard, Guard
  <2> QED
    BY <1>33, <2>1 DEF GuardTrips, LinkInv, LinkType, RobotType, IdType, ResultType,
       JobType,
       WithdrawInv, WithdrawType, HistoryType, robot, ids, jobs, withs, hist
<1>34. ASSUME NEW c \in Call, GuardSlows(c) PROVE TypeInv'
  <2>1. GuardType'
    BY <1>34 DEF GuardSlows, GuardType, NoGuard, NewGuard, Guard
  <2> QED
    BY <1>34, <2>1 DEF GuardSlows, LinkInv, LinkType, RobotType, IdType, ResultType,
       JobType,
       WithdrawInv, WithdrawType, HistoryType, robot, ids, jobs, withs, hist
<1>35. CASE RobotStarts
  <2>1. RobotType'
    BY <1>35, ChannelTake DEF RobotStarts, RobotType
  <2> QED
    BY <1>35, <2>1 DEF RobotStarts, Host, LinkInv, LinkType, IdType, ResultType, GuardType,
       JobType, WithdrawInv, WithdrawType, HistoryType, robot, ids, jobs, withs, hist
<1>36. CASE RobotPreempts
  <2>1. RobotType'
    <3>1. PICK h \in OnServerOf(Head(toRobot).goal) :
            /\ goal' = [goal EXCEPT ![h] = "ended", ![Head(toRobot).goal] = "running"]
            /\ Report(h, 6)
      BY <1>36 DEF RobotPreempts
    <3>2. h \in GoalId /\ 6 \in Status
      BY DEF OnServerOf, Status
    <3>3. toHost' \in Seq(Result)
      BY <3>1, <3>2, ReportType
    <3> QED
      BY <1>36, <3>1, <3>3, ChannelTake DEF RobotPreempts, RobotType
  <2> QED
    BY <1>36, <2>1 DEF RobotPreempts, Host, Report, OnServerOf, Driving, LinkInv, LinkType,
       IdType, ResultType, GuardType, JobType, WithdrawInv, WithdrawType, HistoryType, robot,
       ids, jobs, withs, hist
<1>37. CASE RobotCancels
  <2>1. RobotType'
    BY <1>37, ChannelTake DEF RobotCancels, RobotType
  <2> QED
    BY <1>37, <2>1 DEF RobotCancels, Host, LinkInv, LinkType, IdType, ResultType, GuardType,
       JobType, WithdrawInv, WithdrawType, HistoryType, robot, ids, jobs, withs, hist
<1>38. ASSUME NEW g \in GoalId, RobotEnds(g) PROVE TypeInv'
  <2>1. RobotType'
    <3>1. PICK st \in Status : Report(g, st)
      BY <1>38 DEF RobotEnds, Status
    <3>2. toHost' \in Seq(Result)
      BY <3>1, ReportType
    <3> QED
      BY <1>38, <3>2 DEF RobotEnds, RobotType
  <2> QED
    BY <1>38, <2>1 DEF RobotEnds, Host, Report, Driving, LinkInv, LinkType, IdType,
       ResultType,
       GuardType, JobType, WithdrawInv, WithdrawType, HistoryType, robot, ids, jobs, withs, hist
<1>39. CASE LinkDrops
  <2>1. LinkInv'
    BY <1>39 DEF LinkDrops, LinkInv, LinkType
  <2>2. RobotType'
    BY <1>39 DEF LinkDrops, RobotType, Sent, Result, GoalId, Status, LinkType, LinkInv,
       IdType
  <2> QED
    BY <1>39, <2>1, <2>2 DEF LinkDrops, IdType, ResultType, GuardType, JobType, WithdrawInv,
       WithdrawType, HistoryType, robot, ids, jobs, withs, hist
<1>40. CASE ReopenClears
  <2>1. LinkInv'
    BY <1>40 DEF ReopenClears, IdType, LinkInv, LinkType
  <2>2. IdType'
    BY <1>40 DEF ReopenClears, IdType
  <2>3. HistoryType'
    BY <1>40 DEF ReopenClears, IdType, HistoryType, GoalId, LinkInv, LinkType
  <2> QED
    BY <1>40, <2>1, <2>2, <2>3 DEF ReopenClears, RobotType, ResultType, GuardType, JobType,
       WithdrawInv, WithdrawType, robot, ids, jobs, withs, hist
<1>41. CASE ReopenConnects
  <2>1. LinkInv'
    <3>1. sock < MaxSocket /\ sock \in 1..MaxSocket
      BY <1>41 DEF ReopenConnects, LinkInv, LinkType
    <3>2. sock' \in 1..MaxSocket
      BY <1>41, <3>1 DEF ReopenConnects
    <3> QED
      BY <1>41, <3>2 DEF ReopenConnects, LinkInv, LinkType
  <2>2. ResultType'
    BY <1>41 DEF ReopenConnects, ResultType, Status, NoStatus, Outcome
  <2> QED
    BY <1>41, <2>1, <2>2 DEF ReopenConnects, RobotType, IdType, GuardType, JobType,
       WithdrawInv,
       WithdrawType, HistoryType, robot, ids, jobs, withs, hist
<1>42. CASE UNCHANGED vars
  BY <1>42 DEF LinkInv, LinkType, RobotType, IdType, ResultType, GuardType, JobType,
     WithdrawInv, WithdrawType, HistoryType, vars
<1> QED
  BY <1>1, <1>2, <1>3, <1>4, <1>5, <1>6, <1>7, <1>8, <1>9, <1>10, <1>11, <1>12, <1>13, <1>14,
     <1>15, <1>16, <1>17, <1>18, <1>19, <1>20, <1>21, <1>22, <1>23, <1>24, <1>25, <1>26, <1>27,
     <1>28, <1>29, <1>30, <1>31, <1>32, <1>33, <1>34, <1>35, <1>36, <1>37, <1>38, <1>39, <1>40,
     <1>41, <1>42 DEF Next, InvokeStep, CancelStep, StopStep, RobotStep

(* The types of every state, for any instance.                               *)
THEOREM Typing == Spec => []TypeOK
<1>1. TypeInv => TypeOK
  BY DEF TypeInv, TypeOK, LinkInv, WithdrawInv
<1> QED
  BY <1>1, TypeInit, TypeStep, PTL DEF Spec

-----------------------------------------------------------------------------
(* One job per call: the host does not invoke a call twice at a time.        *)
OneJobPerCall == \A i, j \in Job : CallOf[i] = CallOf[j] => i = j

(* The backend knows that the goal of c was sent: it is active, its result   *)
(* is kept, or a job is on its way from the one to the other.                *)
Known(c) ==
    \/ c \in active \/ kept[c] # "none"
    \/ \E j \in Job : CallOf[j] = c /\ pc[j] \in {"record", "keep"}

(* Why a retry does not send again: until something drops the call, a goal   *)
(* that was sent is known, and a job about to send has sent nothing.         *)
SendInv ==
    \A c \in Call : c \notin forgot =>
        /\ base[c] \in {0, 1}
        /\ base[c] = 1 => Known(c)
        /\ \A j \in Job : CallOf[j] = c /\ pc[j] = "send" => base[c] = 0


(* A step that keeps what the backend knows, and moves no job to "send" or   *)
(* away from "record" and "keep", keeps SendInv.                             *)
LEMMA SendFrame ==
  ASSUME SendInv, UNCHANGED <<active, kept, base, forgot>>,
         \A j \in Job : /\ pc[j] \in {"record", "keep"} => pc'[j] = pc[j]
                        /\ pc'[j] = "send" => pc[j] = "send"
  PROVE  SendInv'
  BY DEF SendInv, Known

(* Every step keeps SendInv: the goal of a call is sent by its one job only, *)
(* and only when neither an active goal nor a kept result tells it not to.   *)
LEMMA SendStep ==
  ASSUME OneJobPerCall, TypeInv, SendInv, [Next]_vars
  PROVE  SendInv'
<1> USE CallAssumption DEF TypeInv
<1>1. ASSUME NEW j \in Job, Arm(j) PROVE SendInv'
  BY <1>1, SendFrame DEF Arm, Step, JobType, ids, hist
<1>2. ASSUME NEW j \in Job, GiveUp(j) PROVE SendInv'
  BY <1>2, SendFrame DEF GiveUp, Step, JobType, Return, ids, hist
<1>3. ASSUME NEW j \in Job, Refuse(j) PROVE SendInv'
  BY <1>3, SendFrame DEF Refuse, Step, JobType, Return, ids, hist
<1>4. ASSUME NEW j \in Job, Answer(j) PROVE SendInv'
  BY <1>4, SendFrame DEF Answer, Step, JobType, Return, ids, hist
<1>5. ASSUME NEW j \in Job, Resume(j) PROVE SendInv'
  BY <1>5, SendFrame DEF Resume, Step, JobType, ids, hist
<1>6. ASSUME NEW j \in Job, Fresh(j) PROVE SendInv'
  <2>1. ~Known(CallOf[j])
    BY <1>6 DEF Fresh, Step, Known, OneJobPerCall
  <2> QED
    BY <1>6, <2>1 DEF Fresh, Step, SendInv, Known, JobType, ids, hist
<1>7. ASSUME NEW j \in Job, Send(j) PROVE SendInv'
  <2>1. pc' = [pc EXCEPT ![j] = "record"] /\ pc[j] = "send"
    BY <1>7 DEF Send, Step
  <2>2. base' = [base EXCEPT ![CallOf[j]] = @ + 1] /\ UNCHANGED <<active, kept, forgot>>
    BY <1>7 DEF Send, ids
  <2>3. pc'[j] = "record" /\ \A i \in Job : i # j => pc'[i] = pc[i]
    BY <2>1 DEF JobType
  <2> SUFFICES ASSUME NEW c \in Call, c \notin forgot
               PROVE  /\ base'[c] \in {0, 1}
                      /\ base'[c] = 1 => Known(c)'
                      /\ \A i \in Job : CallOf[i] = c /\ pc'[i] = "send" => base'[c] = 0
    BY <2>2 DEF SendInv
  <2>4. CASE c = CallOf[j]
    <3>1. base[c] = 0 /\ base'[c] = 1
      BY <2>1, <2>2, <2>4 DEF SendInv, HistoryType
    <3>2. Known(c)'
      BY <2>3, <2>4 DEF Known
    <3> QED
      BY <3>1, <3>2, <2>3, <2>4 DEF OneJobPerCall
  <2>5. CASE c # CallOf[j]
    <3>1. base'[c] = base[c]
      BY <2>2, <2>5 DEF HistoryType
    <3>2. Known(c) => Known(c)'
      BY <2>2, <2>3, <2>5 DEF Known
    <3> QED
      BY <3>1, <3>2, <2>3, <2>5 DEF SendInv
  <2> QED
    BY <2>4, <2>5
<1>8. ASSUME NEW j \in Job, SendRefused(j) PROVE SendInv'
  BY <1>8, SendFrame DEF SendRefused, Step, JobType, Return, ids, hist
<1>9. ASSUME NEW j \in Job, Record(j) PROVE SendInv'
  BY <1>9 DEF Record, Step, SendInv, Known, JobType, hist
<1>10. ASSUME NEW j \in Job, Register(j) PROVE SendInv'
  BY <1>10, SendFrame DEF Register, Step, JobType, ids, hist
<1>11. ASSUME NEW j \in Job, TakeResult(j) PROVE SendInv'
  BY <1>11, SendFrame DEF TakeResult, Step, JobType, ids, hist
<1>12. ASSUME NEW j \in Job, Brake(j) PROVE SendInv'
  BY <1>12, SendFrame DEF Brake, Step, JobType, ids, hist
<1>13. ASSUME NEW j \in Job, BrakeSend(j) PROVE SendInv'
  BY <1>13, SendFrame DEF BrakeSend, Step, JobType, ids, hist
<1>14. ASSUME NEW j \in Job, SlowDown(j) PROVE SendInv'
  BY <1>14, SendFrame DEF SlowDown, Step, JobType, ids, hist
<1>15. ASSUME NEW j \in Job, SlowSwitch(j) PROVE SendInv'
  BY <1>15, SendFrame DEF SlowSwitch, Step, JobType, ids, hist
<1>16. ASSUME NEW j \in Job, SlowSkip(j) PROVE SendInv'
  BY <1>16, SendFrame DEF SlowSkip, Step, JobType, ids, hist
<1>17. ASSUME NEW j \in Job, SlowSend(j) PROVE SendInv'
  BY <1>17, SendFrame DEF SlowSend, Step, JobType, ids, hist
<1>18. ASSUME NEW j \in Job, SlowRollback(j) PROVE SendInv'
  BY <1>18, SendFrame DEF SlowRollback, Step, JobType, ids, hist
<1>19. ASSUME NEW j \in Job, Finish(j) PROVE SendInv'
  BY <1>19 DEF Finish, Step, SendInv, Known, JobType, hist
<1>20. ASSUME NEW j \in Job, Keep(j) PROVE SendInv'
  <2>1. PICK o \in Outcome : kept' = [kept EXCEPT ![CallOf[j]] = o] /\ Step(j, "keep", "idle")
    BY <1>20 DEF Keep, Verdicts, Return, Outcome
  <2>2. kept'[CallOf[j]] # "none"
    BY <2>1 DEF ResultType, Outcome
  <2> QED
    BY <1>20, <2>1, <2>2 DEF Keep, Step, SendInv, Known, JobType, ResultType, ids, hist
<1>21. ASSUME NEW k \in Withdrawer, NEW c \in Call, Cancel(k, c) PROVE SendInv'
  BY <1>21, SendFrame DEF Cancel, ids, jobs, hist
<1>22. ASSUME NEW k \in Withdrawer, CancelSend(k) PROVE SendInv'
  BY <1>22, SendFrame DEF CancelSend, ids, jobs, hist
<1>23. ASSUME NEW k \in Withdrawer, CancelRaises(k) PROVE SendInv'
  BY <1>23, SendFrame DEF CancelRaises, ids, jobs, hist
<1>24. ASSUME NEW k \in Withdrawer, CancelConfirmed(k) PROVE SendInv'
  BY <1>24, SendFrame DEF CancelConfirmed, ids, jobs, hist
<1>25. ASSUME NEW k \in Withdrawer, CancelUnconfirmed(k) PROVE SendInv'
  BY <1>25, SendFrame DEF CancelUnconfirmed, ids, jobs, hist
<1>26. ASSUME NEW k \in Withdrawer, CancelDrop(k) PROVE SendInv'
  BY <1>26 DEF CancelDrop, SendInv, Known, jobs
<1>27. ASSUME NEW k \in Withdrawer, CancelKeep(k) PROVE SendInv'
  <2>1. kept' = [kept EXCEPT ![wcall[k]] = "cancelled"]
    BY <1>27 DEF CancelKeep
  <2>2. \A c \in Call : kept[c] # "none" => kept'[c] # "none"
    BY <2>1 DEF ResultType
  <2> QED
    BY <1>27, <2>2 DEF CancelKeep, SendInv, Known, jobs, ids, hist
<1>28. ASSUME NEW k \in Withdrawer, StopBegin(k) PROVE SendInv'
  BY <1>28, SendFrame DEF StopBegin, ids, jobs, hist
<1>29. ASSUME NEW k \in Withdrawer, StopEach(k) PROVE SendInv'
  BY <1>29, SendFrame DEF StopEach, ids, jobs, hist
<1>30. ASSUME NEW k \in Withdrawer, StopPop(k) PROVE SendInv'
  BY <1>30 DEF StopPop, SendInv, Known, jobs
<1>31. ASSUME NEW k \in Withdrawer, StopEnd(k) PROVE SendInv'
  BY <1>31, SendFrame DEF StopEnd, ids, jobs, hist
<1>32. CASE ReadResult
  BY <1>32, SendFrame DEF ReadResult, ids, jobs, hist
<1>33. ASSUME NEW c \in Call, GuardTrips(c) PROVE SendInv'
  BY <1>33, SendFrame DEF GuardTrips, ids, jobs, hist
<1>34. ASSUME NEW c \in Call, GuardSlows(c) PROVE SendInv'
  BY <1>34, SendFrame DEF GuardSlows, ids, jobs, hist
<1>35. CASE RobotStarts
  BY <1>35, SendFrame DEF RobotStarts, Host, ids, jobs, hist
<1>36. CASE RobotPreempts
  BY <1>36, SendFrame DEF RobotPreempts, Host, ids, jobs, hist
<1>37. CASE RobotCancels
  BY <1>37, SendFrame DEF RobotCancels, Host, ids, jobs, hist
<1>38. ASSUME NEW g \in GoalId, RobotEnds(g) PROVE SendInv'
  BY <1>38, SendFrame DEF RobotEnds, Host, ids, jobs, hist
<1>39. CASE LinkDrops
  BY <1>39, SendFrame DEF LinkDrops, ids, jobs, hist
<1>40. CASE ReopenClears
  BY <1>40 DEF ReopenClears, SendInv, Known, jobs
<1>41. CASE ReopenConnects
  BY <1>41, SendFrame DEF ReopenConnects, ids, jobs, hist
<1>42. CASE UNCHANGED vars
  BY <1>42, SendFrame DEF vars
<1> QED
  BY <1>1, <1>2, <1>3, <1>4, <1>5, <1>6, <1>7, <1>8, <1>9, <1>10, <1>11, <1>12, <1>13, <1>14,
     <1>15, <1>16, <1>17, <1>18, <1>19, <1>20, <1>21, <1>22, <1>23, <1>24, <1>25, <1>26, <1>27,
     <1>28, <1>29, <1>30, <1>31, <1>32, <1>33, <1>34, <1>35, <1>36, <1>37, <1>38, <1>39, <1>40,
     <1>41, <1>42 DEF Next, InvokeStep, CancelStep, StopStep, RobotStep

(* A job that retries its call, after however many timeouts, never has the   *)
(* robot run it twice, unless a reconnect, a cancel or a safe stop dropped   *)
(* the active call in between.                                               *)
THEOREM RetrySendsOnce ==
  ASSUME OneJobPerCall
  PROVE  Spec => []ResendOnlyIfForgotten
<1>1. Init => SendInv
  BY DEF Init, SendInv
<1>2. TypeInv /\ SendInv /\ [Next]_vars => SendInv'
  BY SendStep
<1>3. SendInv => ResendOnlyIfForgotten
  BY DEF SendInv, ResendOnlyIfForgotten
<1> QED
  BY <1>1, <1>2, <1>3, TypeInit, TypeStep, PTL DEF Spec

-----------------------------------------------------------------------------
(* Nobody answers a job before its call ends, and a job that saw its result  *)
(* arrive finds it until it has taken it.                                    *)
WaitInv ==
    \A j \in Job :
        /\ pc[j] # "idle" => out[j] = "none"
        /\ j \in seen =>
              /\ out[j] # "timeout"
              /\ j \in Waiting(CallOf[j]) => store[CallOf[j]] # NoStatus
              /\ pc[j] \in {"wait", "brake", "slowing", "slowsend", "finish", "keep", "idle"}

(* Every step of every thread keeps it.                                      *)
LEMMA WaitStep ==
  ASSUME OneJobPerCall, TypeInv, WaitInv, [Next]_vars
  PROVE  WaitInv'
<1> USE CallAssumption DEF TypeInv
<1>1. ASSUME NEW j \in Job, Arm(j) PROVE WaitInv'
  BY <1>1 DEF Arm, WaitInv, Waiting, Step, JobType
<1>2. ASSUME NEW j \in Job, GiveUp(j) PROVE WaitInv'
  BY <1>2 DEF GiveUp, Return, WaitInv, Waiting, Step, JobType, hist
<1>3. ASSUME NEW j \in Job, Refuse(j) \/ Answer(j) \/ SendRefused(j) PROVE WaitInv'
  <2>1. PICK o : Return(j, pc[j], o) /\ pc[j] \in {"decide", "send"} /\ UNCHANGED <<seen, store>>
    BY <1>3 DEF Refuse, Answer, SendRefused, Return, Step, hist
  <2> QED
    BY <2>1 DEF Return, WaitInv, Waiting, Step, JobType
<1>4. ASSUME NEW j \in Job, Resume(j) \/ Fresh(j) \/ Send(j) \/ Record(j) \/ Register(j)
          PROVE WaitInv'
  BY <1>4 DEF Resume, Fresh, Send, Record, Register, WaitInv, Waiting, Step, JobType, hist
<1>5. ASSUME NEW j \in Job, TakeResult(j) PROVE WaitInv'
  BY <1>5 DEF TakeResult, OneJobPerCall, WaitInv, Waiting, Step, JobType, hist
<1>6. ASSUME NEW j \in Job, Brake(j) \/ BrakeSend(j) PROVE WaitInv'
  BY <1>6 DEF Brake, BrakeSend, WaitInv, Waiting, Step, JobType, hist
<1>7. ASSUME NEW j \in Job, SlowDown(j) \/ SlowSwitch(j) \/ SlowSkip(j) \/ SlowSend(j) \/
          SlowRollback(j) PROVE WaitInv'
  BY <1>7 DEF SlowDown, SlowSwitch, SlowSkip, SlowSend, SlowRollback, WaitInv, Waiting,
     Step,
     JobType, hist
<1>8. ASSUME NEW j \in Job, Finish(j) PROVE WaitInv'
  BY <1>8 DEF Finish, WaitInv, Waiting, Step, JobType, hist
<1>9. ASSUME NEW j \in Job, Keep(j) PROVE WaitInv'
  <2>1. \A o \in Verdicts(status[j], braked[j]) : o # "timeout"
    BY DEF Verdicts
  <2> QED
    BY <1>9, <2>1 DEF Keep, Return, WaitInv, Waiting, Step, JobType, hist
<1>10. ASSUME NEW k \in Withdrawer, NEW c \in Call, Cancel(k, c) PROVE WaitInv'
  BY <1>10 DEF Cancel, WaitInv, Waiting, jobs, hist
<1>11. ASSUME NEW k \in Withdrawer, CancelSend(k) \/ CancelRaises(k) \/ CancelUnconfirmed(k)
          \/ CancelDrop(k) \/ CancelKeep(k) PROVE WaitInv'
  BY <1>11 DEF CancelSend, CancelRaises, CancelUnconfirmed, CancelDrop, CancelKeep, WaitInv,
     Waiting, jobs, hist
<1>12. ASSUME NEW k \in Withdrawer, CancelConfirmed(k) PROVE WaitInv'
  BY <1>12 DEF CancelConfirmed, WaitInv, Waiting, WithdrawType, ResultType, jobs, hist
<1>13. ASSUME NEW k \in Withdrawer, StopBegin(k) \/ StopEach(k) \/ StopPop(k) \/ StopEnd(k)
          PROVE WaitInv'
  BY <1>13 DEF StopBegin, StopEach, StopPop, StopEnd, WaitInv, Waiting, jobs, hist
<1>14. CASE ReadResult
  <2> DEFINE c == Head(toHost).goal[2]
  <2>1. Head(toHost).status \in Status /\ c \in Call
    BY <1>14, ChannelTake DEF ReadResult, GoalId
  <2>2. \/ UNCHANGED <<store, seen>>
        \/ store' = [store EXCEPT ![c] = Head(toHost).status] /\ seen' = seen \cup Waiting(c)
    BY <1>14 DEF ReadResult
  <2> QED
    BY <1>14, <2>1, <2>2 DEF ReadResult, WaitInv, Waiting, ResultType, Status, NoStatus,
       jobs
<1>15. ASSUME NEW c \in Call, GuardTrips(c) \/ GuardSlows(c) PROVE WaitInv'
  BY <1>15 DEF GuardTrips, GuardSlows, WaitInv, Waiting, jobs, hist
<1>16. ASSUME RobotStarts \/ RobotPreempts \/ RobotCancels PROVE WaitInv'
  BY <1>16 DEF RobotStarts, RobotPreempts, RobotCancels, Host, WaitInv, Waiting, jobs, hist
<1>17. ASSUME NEW g \in GoalId, RobotEnds(g) PROVE WaitInv'
  BY <1>17 DEF RobotEnds, Host, WaitInv, Waiting, jobs, hist
<1>18. ASSUME LinkDrops \/ ReopenClears \/ ReopenConnects PROVE WaitInv'
  BY <1>18 DEF LinkDrops, ReopenClears, ReopenConnects, WaitInv, Waiting, jobs, hist
<1>19. CASE UNCHANGED vars
  BY <1>19 DEF WaitInv, Waiting, vars
<1> QED
  BY <1>1, <1>2, <1>3, <1>4, <1>5, <1>6, <1>7, <1>8, <1>9, <1>10, <1>11, <1>12, <1>13,
     <1>14, <1>15, <1>16, <1>17, <1>18, <1>19 DEF Next, InvokeStep, CancelStep, StopStep,
     RobotStep

-----------------------------------------------------------------------------
(* A call without a braking guard: nothing ever replaces its goal.           *)
Plain == Call \ Guarded

PlainInv ==
    \A c \in Plain :
        /\ guard[c] = NoGuard /\ slowId[c] = 0
        /\ \A j \in Job : CallOf[j] = c => pc[j] \notin {"brake", "slowing", "slowsend"}

(* No step gives a call without a guard one.                                 *)
LEMMA PlainStep ==
  ASSUME TypeInv, PlainInv, [Next]_vars
  PROVE  PlainInv'
<1> USE CallAssumption DEF TypeInv
<1>1. ASSUME NEW j \in Job, Arm(j) PROVE PlainInv'
  BY <1>1 DEF Arm, PlainInv, Plain, Step, JobType, GuardType, ids
<1>2. ASSUME NEW j \in Job, GiveUp(j) \/ Refuse(j) \/ Answer(j) \/ SendRefused(j) PROVE
          PlainInv'
  BY <1>2 DEF GiveUp, Refuse, Answer, SendRefused, Return, PlainInv, Plain, Step, JobType,
     ids
<1>3. ASSUME NEW j \in Job, Resume(j) \/ Fresh(j) \/ Send(j) \/ Record(j) \/ Register(j) \/
          TakeResult(j) PROVE PlainInv'
  BY <1>3 DEF Resume, Fresh, Send, Record, Register, TakeResult, PlainInv, Plain, Step,
     JobType, ids
<1>4. ASSUME NEW j \in Job, Brake(j) \/ SlowDown(j) PROVE PlainInv'
  <2>1. CallOf[j] \notin Plain
    BY <1>4 DEF Brake, SlowDown, PlainInv, NoGuard
  <2> QED
    BY <1>4, <2>1 DEF Brake, SlowDown, PlainInv, Plain, Step, JobType, GuardType, ids
<1>5. ASSUME NEW j \in Job, BrakeSend(j) PROVE PlainInv'
  BY <1>5 DEF BrakeSend, PlainInv, Plain, Step, JobType, ids
<1>6. ASSUME NEW j \in Job, SlowSwitch(j) \/ SlowSkip(j) \/ SlowSend(j) \/ SlowRollback(j)
          PROVE PlainInv'
  BY <1>6 DEF SlowSwitch, SlowSkip, SlowSend, SlowRollback, PlainInv, Plain, Step, JobType,
     GuardType, IdType, ids
<1>7. ASSUME NEW j \in Job, Finish(j) PROVE PlainInv'
  BY <1>7 DEF Finish, PlainInv, Plain, Step, JobType, IdType
<1>8. ASSUME NEW j \in Job, Keep(j) PROVE PlainInv'
  BY <1>8 DEF Keep, Return, PlainInv, Plain, Step, JobType, GuardType, ids
<1>9. ASSUME NEW k \in Withdrawer, NEW c \in Call, Cancel(k, c) PROVE PlainInv'
  BY <1>9 DEF Cancel, PlainInv, jobs, ids
<1>10. ASSUME NEW k \in Withdrawer, CancelSend(k) \/ CancelRaises(k) \/ CancelConfirmed(k)
          \/ CancelUnconfirmed(k) \/ CancelDrop(k) PROVE PlainInv'
  BY <1>10 DEF CancelSend, CancelRaises, CancelConfirmed, CancelUnconfirmed, CancelDrop,
     PlainInv, jobs, ids
<1>11. ASSUME NEW k \in Withdrawer, CancelKeep(k) PROVE PlainInv'
  BY <1>11 DEF CancelKeep, PlainInv, Plain, GuardType, jobs, ids
<1>12. ASSUME NEW k \in Withdrawer, StopBegin(k) \/ StopEach(k) \/ StopEnd(k) PROVE
          PlainInv'
  BY <1>12 DEF StopBegin, StopEach, StopEnd, PlainInv, jobs, ids
<1>13. ASSUME NEW k \in Withdrawer, StopPop(k) PROVE PlainInv'
  BY <1>13 DEF StopPop, PlainInv, Plain, GuardType, jobs, ids
<1>14. CASE ReadResult
  BY <1>14 DEF ReadResult, PlainInv, jobs, ids
<1>15. ASSUME NEW c \in Call, GuardTrips(c) \/ GuardSlows(c) PROVE PlainInv'
  <2>1. c \notin Plain
    BY <1>15 DEF GuardTrips, GuardSlows, PlainInv, NoGuard
  <2> QED
    BY <1>15, <2>1 DEF GuardTrips, GuardSlows, PlainInv, Plain, GuardType, jobs, ids
<1>16. ASSUME RobotStarts \/ RobotPreempts \/ RobotCancels PROVE PlainInv'
  BY <1>16 DEF RobotStarts, RobotPreempts, RobotCancels, Host, PlainInv, jobs
<1>17. ASSUME NEW g \in GoalId, RobotEnds(g) PROVE PlainInv'
  BY <1>17 DEF RobotEnds, Host, PlainInv, jobs
<1>18. ASSUME LinkDrops \/ ReopenClears \/ ReopenConnects PROVE PlainInv'
  BY <1>18 DEF LinkDrops, ReopenClears, ReopenConnects, PlainInv, Plain, jobs, ids
<1>19. CASE UNCHANGED vars
  BY <1>19 DEF PlainInv, vars
<1> QED
  BY <1>1, <1>2, <1>3, <1>4, <1>5, <1>6, <1>7, <1>8, <1>9, <1>10, <1>11, <1>12, <1>13,
     <1>14, <1>15, <1>16, <1>17, <1>18, <1>19 DEF Next, InvokeStep, CancelStep, StopStep,
     RobotStep

(* Twice on its way, and reported: what the channels hold of a goal.         *)
TwiceOnItsWay(g) ==
    \E i, k \in DOMAIN toRobot :
        i # k /\ toRobot[i] = Message("goal", g) /\ toRobot[k] = Message("goal", g)

Reported(g) == \E i \in DOMAIN toHost : toHost[i].goal = g

(* A goal that is sent is on its way, once more than before; a cancel sets   *)
(* nothing on its way.                                                       *)
LEMMA PutOnItsWay ==
  ASSUME RobotType, NEW op \in {"goal", "cancel"}, NEW h,
         toRobot' = Append(toRobot, Message(op, h))
  PROVE  \A g : /\ OnItsWay(g)' <=> OnItsWay(g) \/ (op = "goal" /\ g = h)
                /\ TwiceOnItsWay(g)' => TwiceOnItsWay(g) \/ (op = "goal" /\ g = h /\ OnItsWay(g))
<1>1. /\ DOMAIN toRobot' = 1..(Len(toRobot) + 1) /\ DOMAIN toRobot = 1..Len(toRobot)
      /\ Len(toRobot) \in Nat
      /\ \A i \in 1..Len(toRobot) : toRobot'[i] = toRobot[i]
      /\ toRobot'[Len(toRobot) + 1] = Message(op, h)
  <2>1. Len(Append(toRobot, Message(op, h))) = Len(toRobot) + 1
    BY DEF RobotType
  <2> QED
    BY <2>1 DEF RobotType
<1>2. \A g : Message(op, h) = Message("goal", g) <=> op = "goal" /\ g = h
  BY DEF Message
<1> QED
  BY <1>1, <1>2 DEF OnItsWay, TwiceOnItsWay

(* A goal that is taken was on its way, and if it was so once it is no more. *)
LEMMA TakenFromItsWay ==
  ASSUME RobotType, toRobot # <<>>, toRobot' = Tail(toRobot)
  PROVE  /\ \A g : OnItsWay(g)' => OnItsWay(g)
         /\ \A g : TwiceOnItsWay(g)' => TwiceOnItsWay(g)
         /\ \A g : Head(toRobot).op = "goal" /\ Head(toRobot).goal = g =>
               OnItsWay(g) /\ (OnItsWay(g)' => TwiceOnItsWay(g))
<1>1. /\ DOMAIN toRobot' = 1..(Len(toRobot) - 1) /\ DOMAIN toRobot = 1..Len(toRobot)
      /\ Len(toRobot) \in Nat \ {0}
      /\ \A i \in 1..(Len(toRobot) - 1) : toRobot'[i] = toRobot[i + 1]
      /\ Head(toRobot) = toRobot[1] /\ toRobot[1] \in Sent
  BY HeadTailProperties, EmptySeq DEF RobotType
<1>2. ASSUME Head(toRobot).op = "goal"
      PROVE  toRobot[1] = Message("goal", Head(toRobot).goal)
  BY <1>1, <1>2 DEF Message, Sent
<1>3. \A i \in DOMAIN toRobot' :
         i + 1 \in DOMAIN toRobot /\ i + 1 # 1 /\ toRobot'[i] = toRobot[i + 1]
  BY <1>1
<1>4. 1 \in DOMAIN toRobot /\ \A i, k \in DOMAIN toRobot' : i # k => i + 1 # k + 1
  BY <1>1
<1>5. \A g : OnItsWay(g)' => OnItsWay(g)
  BY <1>3 DEF OnItsWay
<1>6. \A g : TwiceOnItsWay(g)' => TwiceOnItsWay(g)
  BY <1>3, <1>4 DEF TwiceOnItsWay
<1>7. ASSUME NEW g, toRobot[1] = Message("goal", g)
      PROVE  OnItsWay(g) /\ (OnItsWay(g)' => TwiceOnItsWay(g))
  BY <1>3, <1>4, <1>7 DEF OnItsWay, TwiceOnItsWay
<1> QED
  BY <1>2, <1>5, <1>6, <1>7

(* What the robot reports is reported; what the reader takes was.            *)
LEMMA ReportedByRobot ==
  ASSUME RobotType, NEW h \in GoalId, NEW st, Report(h, st)
  PROVE  \A g : Reported(g)' => Reported(g) \/ g = h
<1>1. CASE toHost' = toHost
  BY <1>1 DEF Reported
<1>2. CASE toHost' = Append(toHost, [goal |-> h, status |-> st])
  <2>1. /\ DOMAIN toHost' = 1..(Len(toHost) + 1) /\ DOMAIN toHost = 1..Len(toHost)
        /\ Len(toHost) \in Nat
        /\ \A i \in 1..Len(toHost) : toHost'[i] = toHost[i]
        /\ toHost'[Len(toHost) + 1] = [goal |-> h, status |-> st]
    BY <1>2 DEF RobotType
  <2> QED
    BY <2>1 DEF Reported
<1> QED
  BY <1>1, <1>2 DEF Report

(* What the reader takes was reported, and nothing else becomes so.          *)
LEMMA TakenByReader ==
  ASSUME RobotType, toHost # <<>>, toHost' = Tail(toHost)
  PROVE  Reported(Head(toHost).goal) /\ \A g : Reported(g)' => Reported(g)
<1>1. /\ DOMAIN toHost' = 1..(Len(toHost) - 1) /\ DOMAIN toHost = 1..Len(toHost)
      /\ Len(toHost) \in Nat \ {0}
      /\ \A i \in 1..(Len(toHost) - 1) : toHost'[i] = toHost[i + 1]
      /\ Head(toHost) = toHost[1]
  BY HeadTailProperties, EmptySeq DEF RobotType
<1> QED
  BY <1>1 DEF Reported

(* A call without a guard that got at most one goal. Somebody was told of    *)
(* the end of it only when it has ended, and it is nowhere twice.            *)
Told(c) ==
    \/ store[c] # NoStatus \/ kept[c] # "none"
    \/ \E j \in Job : CallOf[j] = c /\ pc[j] \in {"finish", "keep"}
    \/ \E k \in Withdrawer : wcall[k] = c /\ wpc[k] \in {"drop", "keep"}

Ended(c) == base[c] = 1 /\ latest[c] \in GoalId /\ latest[c][2] = c /\ goal[latest[c]] = "ended"

OnceInPlace(g) ==
    /\ goal[g] # "none" \/ OnItsWay(g) => base[g[2]] = 1 /\ latest[g[2]] = g
    /\ goal[g] # "none" => ~OnItsWay(g)
    /\ ~TwiceOnItsWay(g)
    /\ Reported(g) => goal[g] = "ended"

EndInv ==
    \A c \in Plain : base[c] <= 1 =>
        /\ Told(c) => Ended(c)
        /\ \A g \in GoalId : g[2] = c => OnceInPlace(g)

(* Nothing of it changes while the robot and the channels hold no more than  *)
(* before and nobody is told anything new.                                   *)
LEMMA EndFrame ==
  ASSUME EndInv, UNCHANGED <<goal, base, latest>>,
         \A g \in GoalId : /\ OnItsWay(g)' => OnItsWay(g)
                           /\ TwiceOnItsWay(g)' => TwiceOnItsWay(g)
                           /\ Reported(g)' => Reported(g),
         \A c \in Plain : base[c] <= 1 /\ Told(c)' => Told(c) \/ Ended(c)
  PROVE  EndInv'
<1> SUFFICES ASSUME NEW c \in Plain, base[c] <= 1
             PROVE  /\ Told(c)' => Ended(c)'
                    /\ \A g \in GoalId : g[2] = c => OnceInPlace(g)'
  BY DEF EndInv
<1>1. Told(c)' => Ended(c)'
  BY DEF EndInv, Ended
<1>2. \A g \in GoalId : g[2] = c => OnceInPlace(g)'
  BY DEF EndInv, OnceInPlace
<1> QED
  BY <1>1, <1>2

(* As before, when neither the robot nor the channels change at all.         *)
LEMMA EndSame ==
  ASSUME EndInv, UNCHANGED <<goal, base, latest, toRobot, toHost>>,
         \A c \in Plain : Told(c)' => Told(c)
  PROVE  EndInv'
<1>1. \A g \in GoalId : /\ OnItsWay(g)' => OnItsWay(g)
                        /\ TwiceOnItsWay(g)' => TwiceOnItsWay(g)
                        /\ Reported(g)' => Reported(g)
  BY DEF OnItsWay, TwiceOnItsWay, Reported
<1> QED
  BY <1>1, EndFrame

(* Every step keeps it: a second goal takes the call out of its scope, and   *)
(* only the robot ends a goal.                                               *)
LEMMA EndStep ==
  ASSUME TypeInv, PlainInv, EndInv, [Next]_vars
  PROVE  EndInv'
<1> USE CallAssumption DEF TypeInv
<1>1. ASSUME NEW j \in Job, Arm(j) PROVE EndInv'
  <2>1. UNCHANGED <<goal, base, latest, toRobot, toHost>>
    BY <1>1 DEF Arm, robot
  <2>2. \A x \in Plain : Told(x)' => Told(x)
    BY <1>1 DEF Arm, Told, Step, JobType, withs
  <2> QED
    BY <2>1, <2>2, EndSame
<1>2. ASSUME NEW j \in Job, GiveUp(j) \/ Refuse(j) \/ Answer(j) \/ SendRefused(j) PROVE
          EndInv'
  <2>1. UNCHANGED <<goal, base, latest, toRobot, toHost>>
    BY <1>2 DEF GiveUp, Refuse, Answer, SendRefused, robot, hist
  <2>2. \A x \in Plain : Told(x)' => Told(x)
    BY <1>2 DEF GiveUp, Refuse, Answer, SendRefused, Told, Step, JobType, Return, withs
  <2> QED
    BY <2>1, <2>2, EndSame
<1>3. ASSUME NEW j \in Job, Resume(j) \/ Fresh(j) \/ Record(j) \/ Register(j) PROVE EndInv'
  <2>1. UNCHANGED <<goal, base, latest, toRobot, toHost>>
    BY <1>3 DEF Resume, Fresh, Record, Register, robot, hist
  <2>2. \A x \in Plain : Told(x)' => Told(x)
    BY <1>3 DEF Resume, Fresh, Record, Register, Told, Step, JobType, withs
  <2> QED
    BY <2>1, <2>2, EndSame
<1>4. ASSUME NEW j \in Job, TakeResult(j) PROVE EndInv'
  <2>1. UNCHANGED <<goal, base, latest, toRobot, toHost>>
    BY <1>4 DEF TakeResult, robot, hist
  <2>2. \A x \in Plain : Told(x)' => Told(x)
    BY <1>4 DEF TakeResult, Told, Step, JobType, ResultType, withs
  <2> QED
    BY <2>1, <2>2, EndSame
<1>5. ASSUME NEW j \in Job, Brake(j) \/ SlowDown(j) PROVE EndInv'
  <2>1. UNCHANGED <<goal, base, latest, toRobot, toHost>>
    BY <1>5 DEF Brake, SlowDown, robot, hist
  <2>2. \A x \in Plain : Told(x)' => Told(x)
    BY <1>5 DEF Brake, SlowDown, Told, Step, JobType, withs
  <2> QED
    BY <2>1, <2>2, EndSame
<1>6. ASSUME NEW j \in Job, SlowSwitch(j) \/ SlowSkip(j) \/ SlowRollback(j) PROVE EndInv'
  <2>1. UNCHANGED <<goal, base, latest, toRobot, toHost>>
    BY <1>6 DEF SlowSwitch, SlowSkip, SlowRollback, robot, hist
  <2>2. \A x \in Plain : Told(x)' => Told(x)
    BY <1>6 DEF SlowSwitch, SlowSkip, SlowRollback, Told, Step, JobType, withs
  <2> QED
    BY <2>1, <2>2, EndSame
<1>7. ASSUME NEW j \in Job, Finish(j) PROVE EndInv'
  <2>1. UNCHANGED <<goal, base, latest, toRobot, toHost>>
    BY <1>7 DEF Finish, robot, hist
  <2>2. \A x \in Plain : Told(x)' => Told(x)
    BY <1>7 DEF Finish, Told, Step, JobType, withs
  <2> QED
    BY <2>1, <2>2, EndSame
<1>8. ASSUME NEW j \in Job, Keep(j) PROVE EndInv'
  <2>1. UNCHANGED <<goal, base, latest, toRobot, toHost>>
    BY <1>8 DEF Keep, robot, hist
  <2>2. \A x \in Plain : Told(x)' => Told(x)
    BY <1>8 DEF Keep, Told, Step, JobType, Return, ResultType, withs
  <2> QED
    BY <2>1, <2>2, EndSame
<1>9. ASSUME NEW k \in Withdrawer, NEW c \in Call, Cancel(k, c) PROVE EndInv'
  <2>1. UNCHANGED <<goal, base, latest, toRobot, toHost>>
    BY <1>9 DEF Cancel, robot, hist
  <2>2. \A x \in Plain : Told(x)' => Told(x)
    BY <1>9 DEF Cancel, Told, CancelEnds, WStep, WithdrawInv, WithdrawType, jobs
  <2> QED
    BY <2>1, <2>2, EndSame
<1>10. ASSUME NEW k \in Withdrawer, CancelRaises(k) \/ CancelUnconfirmed(k) PROVE EndInv'
  <2>1. UNCHANGED <<goal, base, latest, toRobot, toHost>>
    BY <1>10 DEF CancelRaises, CancelUnconfirmed, robot, hist
  <2>2. \A x \in Plain : Told(x)' => Told(x)
    BY <1>10 DEF CancelRaises, CancelUnconfirmed, Told, CancelEnds, WStep, WithdrawInv,
       WithdrawType, jobs
  <2> QED
    BY <2>1, <2>2, EndSame
<1>11. ASSUME NEW k \in Withdrawer, CancelConfirmed(k) PROVE EndInv'
  <2>1. UNCHANGED <<goal, base, latest, toRobot, toHost>>
    BY <1>11 DEF CancelConfirmed, robot, hist
  <2>2. \A x \in Plain : Told(x)' => Told(x)
    BY <1>11 DEF CancelConfirmed, Told, CancelEnds, WStep, WithdrawInv, WithdrawType,
       ResultType, NoStatus, jobs
  <2> QED
    BY <2>1, <2>2, EndSame
<1>12. ASSUME NEW k \in Withdrawer, CancelDrop(k) PROVE EndInv'
  <2>1. UNCHANGED <<goal, base, latest, toRobot, toHost>>
    BY <1>12 DEF CancelDrop, robot
  <2>2. \A x \in Plain : Told(x)' => Told(x)
    BY <1>12 DEF CancelDrop, Told, WStep, WithdrawInv, WithdrawType, jobs
  <2> QED
    BY <2>1, <2>2, EndSame
<1>13. ASSUME NEW k \in Withdrawer, CancelKeep(k) PROVE EndInv'
  <2>1. UNCHANGED <<goal, base, latest, toRobot, toHost>>
    BY <1>13 DEF CancelKeep, robot, hist
  <2>2. \A x \in Plain : Told(x)' => Told(x)
    BY <1>13 DEF CancelKeep, Told, CancelEnds, WStep, WithdrawInv, WithdrawType, ResultType,
       jobs
  <2> QED
    BY <2>1, <2>2, EndSame
<1>14. ASSUME NEW k \in Withdrawer, StopBegin(k) PROVE EndInv'
  <2>1. UNCHANGED <<goal, base, latest, toRobot, toHost>>
    BY <1>14 DEF StopBegin, robot
  <2>2. \A x \in Plain : Told(x)' => Told(x)
    BY <1>14 DEF StopBegin, Told, WStep, WithdrawInv, WithdrawType, jobs
  <2> QED
    BY <2>1, <2>2, EndSame
<1>15. ASSUME NEW k \in Withdrawer, StopEach(k) \/ StopEnd(k) PROVE EndInv'
  <2>1. UNCHANGED <<goal, base, latest, toRobot, toHost>>
    BY <1>15 DEF StopEach, StopEnd, robot, hist
  <2>2. \A x \in Plain : Told(x)' => Told(x)
    BY <1>15 DEF StopEach, StopEnd, Told, WStep, WithdrawInv, WithdrawType, jobs
  <2> QED
    BY <2>1, <2>2, EndSame
<1>16. ASSUME NEW k \in Withdrawer, StopPop(k) PROVE EndInv'
  <2>1. UNCHANGED <<goal, base, latest, toRobot, toHost>>
    BY <1>16 DEF StopPop, robot
  <2>2. \A x \in Plain : Told(x)' => Told(x)
    BY <1>16 DEF StopPop, Told, WStep, WithdrawInv, WithdrawType, jobs
  <2> QED
    BY <2>1, <2>2, EndSame
<1>17. ASSUME NEW c \in Call, GuardTrips(c) \/ GuardSlows(c) PROVE EndInv'
  <2>1. UNCHANGED <<goal, base, latest, toRobot, toHost>>
    BY <1>17 DEF GuardTrips, GuardSlows, robot, hist
  <2>2. \A x \in Plain : Told(x)' => Told(x)
    BY <1>17 DEF GuardTrips, GuardSlows, Told, jobs, withs
  <2> QED
    BY <2>1, <2>2, EndSame
<1>18. CASE ReopenClears
  <2>1. UNCHANGED <<goal, base, latest, toRobot, toHost>>
    BY <1>18 DEF ReopenClears, robot
  <2>2. \A x \in Plain : Told(x)' => Told(x)
    BY <1>18 DEF ReopenClears, Told, jobs, withs
  <2> QED
    BY <2>1, <2>2, EndSame
<1>19. CASE ReopenConnects
  <2>1. UNCHANGED <<goal, base, latest, toRobot, toHost>>
    BY <1>19 DEF ReopenConnects, robot
  <2>2. \A x \in Plain : Told(x)' => Told(x)
    BY <1>19 DEF ReopenConnects, Told, Plain, jobs, withs
  <2> QED
    BY <2>1, <2>2, EndSame
<1>20. CASE UNCHANGED vars
  <2>1. UNCHANGED <<goal, base, latest, toRobot, toHost>> /\ \A x \in Plain : Told(x)' => Told(x)
    BY <1>20 DEF vars, Told
  <2> QED
    BY <2>1, EndSame
<1>21. ASSUME NEW j \in Job, BrakeSend(j) PROVE EndInv'
  <2>1. UNCHANGED <<goal, base, latest, toHost>>
    BY <1>21 DEF BrakeSend, SendCancel, robot
  <2>2. \A x \in Plain : Told(x)' => Told(x)
    BY <1>21 DEF BrakeSend, Told, Step, JobType, withs
  <2>3. \/ toRobot' = toRobot
        \/ \E h : toRobot' = Append(toRobot, Message("cancel", h))
    BY <1>21 DEF BrakeSend, SendCancel, robot
  <2>4. \A g \in GoalId : /\ OnItsWay(g)' => OnItsWay(g)
                          /\ TwiceOnItsWay(g)' => TwiceOnItsWay(g)
    <3>1. CASE toRobot' = toRobot
      BY <3>1 DEF OnItsWay, TwiceOnItsWay
    <3>2. CASE \E h : toRobot' = Append(toRobot, Message("cancel", h))
      BY <3>2, PutOnItsWay
    <3> QED
      BY <2>3, <3>1, <3>2
  <2>5. \A g \in GoalId : Reported(g)' => Reported(g)
    BY <2>1 DEF Reported
  <2> QED
    BY <2>1, <2>2, <2>4, <2>5, EndFrame
<1>22. ASSUME NEW k \in Withdrawer, CancelSend(k) PROVE EndInv'
  <2>1. UNCHANGED <<goal, base, latest, toHost>>
    BY <1>22 DEF CancelSend, SendCancel, robot
  <2>2. \A x \in Plain : Told(x)' => Told(x)
    BY <1>22 DEF CancelSend, Told, WStep, WithdrawInv, WithdrawType, jobs
  <2>3. \/ toRobot' = toRobot
        \/ \E h : toRobot' = Append(toRobot, Message("cancel", h))
    BY <1>22 DEF CancelSend, SendCancel, robot
  <2>4. \A g \in GoalId : /\ OnItsWay(g)' => OnItsWay(g)
                          /\ TwiceOnItsWay(g)' => TwiceOnItsWay(g)
    <3>1. CASE toRobot' = toRobot
      BY <3>1 DEF OnItsWay, TwiceOnItsWay
    <3>2. CASE \E h : toRobot' = Append(toRobot, Message("cancel", h))
      BY <3>2, PutOnItsWay
    <3> QED
      BY <2>3, <3>1, <3>2
  <2>5. \A g \in GoalId : Reported(g)' => Reported(g)
    BY <2>1 DEF Reported
  <2> QED
    BY <2>1, <2>2, <2>4, <2>5, EndFrame
<1>23. ASSUME NEW j \in Job, Send(j) PROVE EndInv'
  <2> DEFINE c == CallOf[j]
             h == <<sock, c, 0>>
  <2>1. /\ base' = [base EXCEPT ![c] = @ + 1] /\ latest' = [latest EXCEPT ![c] = h]
        /\ UNCHANGED <<goal, toHost>> /\ toRobot' = Append(toRobot, Message("goal", h))
    BY <1>23 DEF Send, SendGoal
  <2>2. c \in Call /\ h \in GoalId /\ h[2] = c
    BY BoundAssumption DEF GoalId, LinkInv, LinkType
  <2>3. \A x \in Call : Told(x)' => Told(x)
    BY <1>23 DEF Send, Told, Step, JobType, withs
  <2>4. \A g \in GoalId : /\ OnItsWay(g)' <=> OnItsWay(g) \/ g = h
                          /\ TwiceOnItsWay(g)' => TwiceOnItsWay(g) \/ (g = h /\ OnItsWay(g))
                          /\ Reported(g)' <=> Reported(g)
    <3>1. \A g \in GoalId : Reported(g)' <=> Reported(g)
      BY <2>1 DEF Reported
    <3> QED
      BY <2>1, <3>1, PutOnItsWay
  <2> SUFFICES ASSUME NEW d \in Plain, base'[d] <= 1
               PROVE  /\ Told(d)' => Ended(d)'
                      /\ \A g \in GoalId : g[2] = d => OnceInPlace(g)'
    BY DEF EndInv
  <2>5. d \in Call /\ base[d] \in Nat
    BY DEF Plain, HistoryType
  <2>6. CASE d = c
    <3>1. base[d] = 0 /\ base'[d] = 1 /\ latest'[d] = h
      BY <2>1, <2>2, <2>5, <2>6 DEF HistoryType
    <3>2. ~Told(d) /\ \A g \in GoalId : g[2] = d =>
             goal[g] = "none" /\ ~OnItsWay(g) /\ ~TwiceOnItsWay(g) /\ ~Reported(g)
      BY <3>1 DEF EndInv, Ended, OnceInPlace
    <3> QED
      BY <2>1, <2>3, <2>4, <2>5, <3>1, <3>2 DEF OnceInPlace
  <2>7. CASE d # c
    <3>1. base'[d] = base[d] /\ latest'[d] = latest[d]
      BY <2>1, <2>5, <2>7 DEF HistoryType
    <3>2. \A g \in GoalId : g[2] = d => g # h
      BY <2>2, <2>7
    <3>3. Told(d)' => Ended(d)'
      BY <2>1, <2>3, <2>5, <3>1 DEF EndInv, Ended
    <3>4. \A g \in GoalId : g[2] = d => OnceInPlace(g)'
      BY <2>1, <2>4, <3>1, <3>2 DEF EndInv, OnceInPlace
    <3> QED
      BY <3>3, <3>4
  <2> QED
    BY <2>6, <2>7
<1>24. ASSUME NEW j \in Job, SlowSend(j) PROVE EndInv'
  <2> DEFINE c == CallOf[j]
             h == <<sock, c, swap[j][2]>>
  <2>1. /\ UNCHANGED <<base, goal, toHost>> /\ latest' = [latest EXCEPT ![c] = h]
        /\ toRobot' = Append(toRobot, Message("goal", h))
    BY <1>24 DEF SlowSend, SendGoal
  <2>2. c \in Call /\ c \notin Plain /\ h[2] = c
    BY <1>24 DEF SlowSend, Step, PlainInv
  <2>3. \A x \in Call : Told(x)' => Told(x)
    BY <1>24 DEF SlowSend, Told, Step, JobType, withs
  <2>4. \A g \in GoalId : g # h => /\ OnItsWay(g)' => OnItsWay(g)
                                   /\ TwiceOnItsWay(g)' => TwiceOnItsWay(g)
    BY <2>1, PutOnItsWay
  <2>5. \A g \in GoalId : Reported(g)' => Reported(g)
    BY <2>1 DEF Reported
  <2> SUFFICES ASSUME NEW d \in Plain, base[d] <= 1
               PROVE  /\ Told(d)' => Ended(d)'
                      /\ \A g \in GoalId : g[2] = d => OnceInPlace(g)'
    BY <2>1 DEF EndInv
  <2>6. d \in Call /\ d # c /\ latest'[d] = latest[d]
    BY <2>1, <2>2 DEF Plain, HistoryType
  <2>7. Told(d)' => Ended(d)'
    BY <2>1, <2>3, <2>6 DEF EndInv, Ended
  <2>8. \A g \in GoalId : g[2] = d => OnceInPlace(g)'
    BY <2>1, <2>2, <2>4, <2>5, <2>6 DEF EndInv, OnceInPlace
  <2> QED
    BY <2>7, <2>8
<1>25. CASE ReadResult
  <2> DEFINE h == Head(toHost).goal
  <2>1. UNCHANGED <<goal, base, latest, toRobot>> /\ toHost # <<>> /\ toHost' = Tail(toHost)
    BY <1>25 DEF ReadResult
  <2>2. h \in GoalId /\ Reported(h) /\ \A g \in GoalId : Reported(g)' => Reported(g)
    BY <2>1, TakenByReader, ChannelTake
  <2>3. \A c \in Plain : Told(c)' => Told(c) \/ c = h[2]
    BY <1>25 DEF ReadResult, Told, ResultType, Plain, jobs, withs
  <2>4. \A c \in Plain : base[c] <= 1 /\ Told(c)' => Told(c) \/ Ended(c)
    BY <2>2, <2>3 DEF EndInv, OnceInPlace, Ended
  <2>5. \A g \in GoalId : (OnItsWay(g)' => OnItsWay(g)) /\ (TwiceOnItsWay(g)' => TwiceOnItsWay(g))
    BY <2>1 DEF OnItsWay, TwiceOnItsWay
  <2> QED
    BY <2>1, <2>2, <2>4, <2>5, EndFrame
<1>26. CASE RobotStarts
  <2>0. PICK h : h = Head(toRobot).goal
    OBVIOUS
  <2>1. /\ UNCHANGED <<base, latest, toHost>> /\ toRobot # <<>> /\ Head(toRobot).op = "goal"
        /\ goal' = [goal EXCEPT ![h] = "running"] /\ toRobot' = Tail(toRobot)
    BY <1>26, <2>0 DEF RobotStarts, Host, hist
  <2>2. /\ h \in GoalId /\ OnItsWay(h) /\ (OnItsWay(h)' => TwiceOnItsWay(h))
        /\ \A g \in GoalId :
             (OnItsWay(g)' => OnItsWay(g)) /\ (TwiceOnItsWay(g)' => TwiceOnItsWay(g))
    BY <2>0, <2>1, TakenFromItsWay, ChannelTake
  <2>3. \A x \in Plain : Told(x)' => Told(x)
    BY <1>26 DEF RobotStarts, Host, Told, jobs, withs
  <2>4. \A g \in GoalId : Reported(g)' => Reported(g)
    BY <2>1 DEF Reported
  <2> SUFFICES ASSUME NEW d \in Plain, base[d] <= 1
               PROVE  /\ Told(d)' => Ended(d)'
                      /\ \A x \in GoalId : x[2] = d => OnceInPlace(x)'
    BY <2>1 DEF EndInv
  <2>5. \A x \in GoalId : x[2] = d => OnceInPlace(x)
    BY DEF EndInv
  <2>6. Told(d)' => Ended(d)'
    <3>1. Told(d) => Ended(d) /\ latest[d] # h
      BY <2>2, <2>5 DEF EndInv, Ended, OnceInPlace
    <3> QED
      BY <2>1, <2>3, <3>1 DEF Ended, RobotType
  <2>7. ASSUME NEW x \in GoalId, x[2] = d PROVE OnceInPlace(x)'
    <3>1. CASE x = h
      <4>1. /\ goal[x] = "none" /\ base[d] = 1 /\ latest[d] = x
            /\ ~OnItsWay(x)' /\ ~TwiceOnItsWay(x)' /\ ~Reported(x)'
        BY <2>2, <2>4, <2>5, <2>7, <3>1 DEF OnceInPlace
      <4> QED
        BY <2>1, <2>7, <3>1, <4>1 DEF OnceInPlace, RobotType
    <3>2. CASE x # h
      <4>1. goal'[x] = goal[x]
        BY <2>1, <2>2, <3>2 DEF RobotType
      <4> QED
        BY <2>1, <2>2, <2>4, <2>5, <2>7, <4>1 DEF OnceInPlace
    <3> QED
      BY <3>1, <3>2
  <2> QED
    BY <2>6, <2>7
<1>27. CASE RobotPreempts
  <2>0. PICK h : h = Head(toRobot).goal
    OBVIOUS
  <2>1. /\ UNCHANGED <<base, latest>> /\ toRobot # <<>> /\ Head(toRobot).op = "goal"
        /\ toRobot' = Tail(toRobot)
    BY <1>27, <2>0 DEF RobotPreempts, Host, hist
  <2>2. PICK e \in GoalId : /\ goal[e] # "none" /\ goal[e] # "ended" /\ Report(e, 6)
                            /\ goal' = [goal EXCEPT ![e] = "ended", ![h] = "running"]
    BY <1>27, <2>0 DEF RobotPreempts, OnServerOf, Driving
  <2>3. /\ h \in GoalId /\ OnItsWay(h) /\ (OnItsWay(h)' => TwiceOnItsWay(h))
        /\ \A g \in GoalId :
             (OnItsWay(g)' => OnItsWay(g)) /\ (TwiceOnItsWay(g)' => TwiceOnItsWay(g))
    BY <2>0, <2>1, TakenFromItsWay, ChannelTake
  <2>4. /\ \A x \in Plain : Told(x)' => Told(x)
        /\ \A g \in GoalId : Reported(g)' => Reported(g) \/ g = e
    <3>1. \A x \in Plain : Told(x)' => Told(x)
      BY <1>27 DEF RobotPreempts, Host, Told, jobs, withs
    <3> QED
      BY <2>2, <3>1, ReportedByRobot
  <2> SUFFICES ASSUME NEW d \in Plain, base[d] <= 1
               PROVE  /\ Told(d)' => Ended(d)'
                      /\ \A x \in GoalId : x[2] = d => OnceInPlace(x)'
    BY <2>1 DEF EndInv
  <2>5. \A x \in GoalId : x[2] = d => OnceInPlace(x)
    BY DEF EndInv
  <2>6. Told(d)' => Ended(d)'
    <3>1. Told(d) => Ended(d) /\ latest[d] # h
      BY <2>3, <2>5 DEF EndInv, Ended, OnceInPlace
    <3> QED
      BY <2>1, <2>2, <2>4, <3>1 DEF Ended, RobotType
  <2>7. ASSUME NEW x \in GoalId, x[2] = d PROVE OnceInPlace(x)'
    <3>1. CASE x = h
      <4>1. /\ goal[x] = "none" /\ base[d] = 1 /\ latest[d] = x
            /\ ~OnItsWay(x)' /\ ~TwiceOnItsWay(x)' /\ ~Reported(x)'
        BY <2>2, <2>3, <2>4, <2>5, <2>7, <3>1 DEF OnceInPlace
      <4> QED
        BY <2>1, <2>7, <3>1, <4>1 DEF OnceInPlace
    <3>2. CASE x # h
      <4>1. goal'[x] = IF x = e THEN "ended" ELSE goal[x]
        BY <2>2, <2>3, <3>2 DEF RobotType
      <4> QED
        BY <2>1, <2>2, <2>3, <2>4, <2>5, <2>7, <4>1 DEF OnceInPlace
    <3> QED
      BY <3>1, <3>2
  <2> QED
    BY <2>6, <2>7
<1>28. CASE RobotCancels
  <2> DEFINE h == Head(toRobot).goal
  <2>1. /\ UNCHANGED <<base, latest, toHost>> /\ toRobot # <<>> /\ toRobot' = Tail(toRobot)
        /\ goal' = IF goal[h] = "running" THEN [goal EXCEPT ![h] = "canceling"] ELSE goal
    BY <1>28 DEF RobotCancels, Host, hist
  <2>2. \A g \in GoalId : (OnItsWay(g)' => OnItsWay(g)) /\ (TwiceOnItsWay(g)' => TwiceOnItsWay(g))
    BY <2>1, TakenFromItsWay
  <2>3. \A x \in Plain : Told(x)' => Told(x)
    BY <1>28 DEF RobotCancels, Host, Told, jobs, withs
  <2>4. \A g \in GoalId : /\ Reported(g)' => Reported(g)
                          /\ goal[g] = "ended" => goal'[g] = "ended"
                          /\ goal'[g] # "none" => goal[g] # "none"
    BY <2>1 DEF Reported, RobotType
  <2> SUFFICES ASSUME NEW d \in Plain, base[d] <= 1
               PROVE  /\ Told(d)' => Ended(d)'
                      /\ \A x \in GoalId : x[2] = d => OnceInPlace(x)'
    BY <2>1 DEF EndInv
  <2>5. \A x \in GoalId : x[2] = d => OnceInPlace(x)
    BY DEF EndInv
  <2>6. Told(d)' => Ended(d)'
    BY <2>1, <2>3, <2>4 DEF EndInv, Ended
  <2>7. \A x \in GoalId : x[2] = d => OnceInPlace(x)'
    BY <2>1, <2>2, <2>4, <2>5 DEF OnceInPlace
  <2> QED
    BY <2>6, <2>7
<1>29. ASSUME NEW g \in GoalId, RobotEnds(g) PROVE EndInv'
  <2>1. /\ UNCHANGED <<base, latest, toRobot>> /\ goal[g] # "none"
        /\ goal' = [goal EXCEPT ![g] = "ended"] /\ \E st : Report(g, st)
    BY <1>29 DEF RobotEnds, Driving, Host, hist
  <2>2. \A x \in GoalId : (OnItsWay(x)' => OnItsWay(x)) /\ (TwiceOnItsWay(x)' => TwiceOnItsWay(x))
    BY <2>1 DEF OnItsWay, TwiceOnItsWay
  <2>3. \A x \in Plain : Told(x)' => Told(x)
    BY <1>29 DEF RobotEnds, Host, Told, jobs, withs
  <2>4. \A x \in GoalId : /\ Reported(x)' => Reported(x) \/ x = g
                          /\ goal'[x] = IF x = g THEN "ended" ELSE goal[x]
    BY <2>1, ReportedByRobot DEF RobotType
  <2> SUFFICES ASSUME NEW d \in Plain, base[d] <= 1
               PROVE  /\ Told(d)' => Ended(d)'
                      /\ \A x \in GoalId : x[2] = d => OnceInPlace(x)'
    BY <2>1 DEF EndInv
  <2>5. \A x \in GoalId : x[2] = d => OnceInPlace(x)
    BY DEF EndInv
  <2>6. Told(d)' => Ended(d)'
    BY <2>1, <2>3, <2>4 DEF EndInv, Ended
  <2>7. \A x \in GoalId : x[2] = d => OnceInPlace(x)'
    BY <2>1, <2>2, <2>4, <2>5 DEF OnceInPlace
  <2> QED
    BY <2>6, <2>7
<1>30. CASE LinkDrops
  <2>1. UNCHANGED <<goal, base, latest>> /\ toRobot' = <<>> /\ toHost' = <<>>
    BY <1>30 DEF LinkDrops, hist
  <2>2. \A g \in GoalId : ~OnItsWay(g)' /\ ~TwiceOnItsWay(g)' /\ ~Reported(g)'
    BY <2>1 DEF OnItsWay, TwiceOnItsWay, Reported
  <2>3. \A c \in Plain : Told(c)' => Told(c)
    BY <1>30 DEF LinkDrops, Told, jobs, withs
  <2> QED
    BY <2>1, <2>2, <2>3, EndFrame
<1> QED
  BY <1>1, <1>2, <1>3, <1>4, <1>5, <1>6, <1>7, <1>8, <1>9, <1>10, <1>11, <1>12, <1>13,
     <1>14, <1>15, <1>16, <1>17, <1>18, <1>19, <1>20, <1>21, <1>22, <1>23, <1>24, <1>25,
     <1>26, <1>27, <1>28, <1>29, <1>30 DEF Next, InvokeStep, CancelStep, StopStep, RobotStep

(* At the beginning nothing was sent and nobody was told anything.           *)
LEMMA EndInit == Init => PlainInv /\ EndInv
<1> SUFFICES ASSUME Init PROVE PlainInv /\ EndInv
  OBVIOUS
<1>1. PlainInv
  BY CallAssumption DEF Init, PlainInv, Plain
<1>2. \A c \in Plain : ~Told(c)
  BY DEF Init, Told, Plain
<1>3. \A g \in GoalId : OnceInPlace(g)
  BY DEF Init, OnceInPlace, OnItsWay, TwiceOnItsWay, Reported
<1> QED
  BY <1>1, <1>2, <1>3 DEF EndInv

(* What CANCELLED tells follows: the one goal of the call is the one that    *)
(* has ended.                                                                *)
LEMMA EndTells == TypeInv /\ EndInv => CancelledMeansEnded
<1> SUFFICES ASSUME TypeInv, EndInv, NEW c \in Call, kept[c] = "cancelled", HasOneGoal(c),
                    NEW g \in GoalId, g[2] = c
             PROVE  ~Driving(g) /\ ~OnItsWay(g)
  BY DEF CancelledMeansEnded
<1>1. c \in Plain /\ base[c] <= 1 /\ Told(c)
  BY DEF HasOneGoal, Plain, Told
<1>2. Ended(c) /\ OnceInPlace(g) /\ OnceInPlace(latest[c])
  BY <1>1 DEF EndInv, Ended
<1> QED
  BY <1>2 DEF OnceInPlace, Ended, Driving

(* What a cancel or a safe stop says of a call is true, and its waiter loses *)
(* no result to it: CANCELLED is kept of a call only when the one goal it    *)
(* has is over, and a job whose result arrived while it waited gets it.      *)
THEOREM CancelIsTrue ==
  ASSUME OneJobPerCall
  PROVE  Spec => []CancelTellsWhatEnded
<1>1. Init => WaitInv
  BY CallAssumption DEF Init, WaitInv
<1>2. TypeInv /\ WaitInv /\ [Next]_vars => WaitInv'
  BY WaitStep
<1>3. TypeInv /\ PlainInv /\ [Next]_vars => PlainInv'
  BY PlainStep
<1>4. TypeInv /\ PlainInv /\ EndInv /\ [Next]_vars => EndInv'
  BY EndStep
<1>5. TypeInv /\ EndInv /\ WaitInv => CancelTellsWhatEnded
  <2>1. WaitInv => NoWaiterStranded
    BY DEF WaitInv, NoWaiterStranded
  <2> QED
    BY <2>1, EndTells DEF CancelTellsWhatEnded
<1> QED
  BY <1>1, <1>2, <1>3, <1>4, <1>5, TypeInit, TypeStep, EndInit, PTL DEF Spec

-----------------------------------------------------------------------------
(* Safe stops and braking guards: nothing drives on without having been      *)
(* asked to stop.                                                            *)

(* Where the goal of a call was sent, and what is known of it before it is   *)
(* active: the call stays unknown to cancel() and safe_stop() until the job  *)
(* that sent its goal has recorded it.                                       *)
Recorded(c) == \A j \in Job : CallOf[j] = c => pc[j] # "record"

Named(k, c) ==
    \/ c \in todo[k]
    \/ wcall[k] = c /\ wpc[k] \in {"send", "await", "drop", "keep", "pop"}

LatestInv ==
    /\ \A c \in Call :
        /\ latest[c] \in GoalId => latest[c][2] = c /\ latest[c][1] <= sock
        /\ base[c] >= 1 => latest[c] \in GoalId
        /\ c \in active => base[c] >= 1
    /\ \A j \in Job : pc[j] = "record" => base[CallOf[j]] >= 1

RecordPlace(c) ==
    /\ base[c] = 1 => latest[c][3] = 0
    /\ c \in active => Recorded(c)
    /\ \A i, j \in Job :
         CallOf[i] = c /\ CallOf[j] = c /\ pc[i] = "record" /\ pc[j] = "record" => i = j
    /\ \A k \in Withdrawer : Named(k, c) => base[c] = 1 /\ Recorded(c)

RecordInv == \A c \in Plain : base[c] <= 1 => RecordPlace(c)

(* Only the jobs that send a goal change what was sent last, and a call is   *)
(* recorded as active after that.                                            *)
LEMMA LatestStep ==
  ASSUME TypeInv, LatestInv, [Next]_vars
  PROVE  LatestInv'
<1> USE CallAssumption DEF TypeInv
<1>1. ASSUME NEW j \in Job, Arm(j) PROVE LatestInv'
  BY <1>1 DEF Arm, LatestInv, Step, JobType, ids
<1>2. ASSUME NEW j \in Job, GiveUp(j) \/ Refuse(j) \/ Answer(j) \/ SendRefused(j) PROVE
          LatestInv'
  BY <1>2 DEF GiveUp, Refuse, Answer, SendRefused, LatestInv, Step, JobType, Return, ids,
     hist
<1>3. ASSUME NEW j \in Job, Resume(j) \/ Fresh(j) \/ Register(j) \/ TakeResult(j) PROVE
          LatestInv'
  BY <1>3 DEF Resume, Fresh, Register, TakeResult, LatestInv, Step, JobType, ids, hist
<1>4. ASSUME NEW j \in Job, Send(j) PROVE LatestInv'
  <2> DEFINE h == <<sock, CallOf[j], 0>>
  <2>1. h \in GoalId /\ h[2] = CallOf[j] /\ h[1] <= sock
    BY BoundAssumption DEF GoalId, LinkInv, LinkType
  <2>2. /\ base' = [base EXCEPT ![CallOf[j]] = @ + 1] /\ latest' = [latest EXCEPT ![CallOf[j]] = h]
        /\ UNCHANGED <<sock, active>> /\ pc' = [pc EXCEPT ![j] = "record"]
    BY <1>4 DEF Send, Step, ids
  <2> HIDE DEF h
  <2>3. \A c \in Call : base'[c] >= base[c] /\ base'[c] \in Nat
                        /\ (c # CallOf[j] => base'[c] = base[c] /\ latest'[c] = latest[c])
    BY <2>2 DEF HistoryType
  <2>4. base'[CallOf[j]] >= 1 /\ latest'[CallOf[j]] = h
    BY <2>2 DEF HistoryType
  <2>5. \A c \in Call : c # CallOf[j] =>
          /\ latest'[c] \in GoalId => latest'[c][2] = c /\ latest'[c][1] <= sock'
          /\ base'[c] >= 1 => latest'[c] \in GoalId
          /\ c \in active' => base'[c] >= 1
    BY <2>2, <2>3 DEF LatestInv
  <2>6. \A i \in Job : pc'[i] = "record" => base'[CallOf[i]] >= 1
    BY <2>2, <2>3, <2>4 DEF LatestInv, JobType, HistoryType
  <2> QED
    BY <2>1, <2>2, <2>4, <2>5, <2>6 DEF LatestInv
<1>5. ASSUME NEW j \in Job, Record(j) PROVE LatestInv'
  BY <1>5 DEF Record, LatestInv, Step, JobType, ids, hist
<1>6. ASSUME NEW j \in Job, Brake(j) \/ BrakeSend(j) \/ SlowDown(j) \/ SlowSwitch(j) \/
          SlowSkip(j) \/ SlowRollback(j) PROVE LatestInv'
  BY <1>6 DEF Brake, BrakeSend, SlowDown, SlowSwitch, SlowSkip, SlowRollback, LatestInv,
     Step, JobType, ids, hist
<1>7. ASSUME NEW j \in Job, SlowSend(j) PROVE LatestInv'
  <2> DEFINE h == <<sock, CallOf[j], swap[j][2]>>
  <2>1. h \in GoalId /\ h[2] = CallOf[j] /\ h[1] <= sock
    BY DEF GoalId, LinkInv, LinkType, JobType
  <2>2. /\ latest' = [latest EXCEPT ![CallOf[j]] = h]
        /\ UNCHANGED <<sock, active, base>> /\ pc' = [pc EXCEPT ![j] = "wait"]
    BY <1>7 DEF SlowSend, Step, ids
  <2> HIDE DEF h
  <2> QED
    BY <2>1, <2>2 DEF LatestInv, JobType, HistoryType
<1>8. ASSUME NEW j \in Job, Finish(j) \/ Keep(j) PROVE LatestInv'
  BY <1>8 DEF Finish, Keep, LatestInv, Step, JobType, Return, ids, hist
<1>9. ASSUME NEW k \in Withdrawer, NEW c \in Call, Cancel(k, c) PROVE LatestInv'
  BY <1>9 DEF Cancel, LatestInv, ids, jobs, hist
<1>10. ASSUME NEW k \in Withdrawer, CancelSend(k) \/ CancelRaises(k) \/ CancelConfirmed(k)
          \/ CancelUnconfirmed(k) \/ CancelDrop(k) \/ CancelKeep(k) PROVE LatestInv'
  BY <1>10 DEF CancelSend, CancelRaises, CancelConfirmed, CancelUnconfirmed, CancelDrop,
     CancelKeep, LatestInv, ids, jobs, hist
<1>11. ASSUME NEW k \in Withdrawer, StopBegin(k) \/ StopEach(k) \/ StopPop(k) \/ StopEnd(k)
          PROVE LatestInv'
  BY <1>11 DEF StopBegin, StopEach, StopPop, StopEnd, LatestInv, ids, jobs, hist
<1>12. CASE ReadResult
  BY <1>12 DEF ReadResult, LatestInv, ids, jobs, hist
<1>13. ASSUME NEW c \in Call, GuardTrips(c) \/ GuardSlows(c) PROVE LatestInv'
  BY <1>13 DEF GuardTrips, GuardSlows, LatestInv, ids, jobs, hist
<1>14. ASSUME RobotStarts \/ RobotPreempts \/ RobotCancels PROVE LatestInv'
  BY <1>14 DEF RobotStarts, RobotPreempts, RobotCancels, Host, LatestInv, jobs, hist
<1>15. ASSUME NEW g \in GoalId, RobotEnds(g) PROVE LatestInv'
  BY <1>15 DEF RobotEnds, Host, LatestInv, jobs, hist
<1>16. ASSUME LinkDrops \/ ReopenClears PROVE LatestInv'
  BY <1>16 DEF LinkDrops, ReopenClears, LatestInv, ids, jobs, hist
<1>17. CASE ReopenConnects
  <2>1. sock' = sock + 1 /\ UNCHANGED <<latest, base, active, pc>>
    BY <1>17 DEF ReopenConnects, ids, jobs
  <2>2. \A c \in Call : latest[c] \in GoalId /\ latest[c][1] <= sock => latest[c][1] <= sock + 1
    BY DEF GoalId, LinkInv, LinkType
  <2> QED
    BY <2>1, <2>2 DEF LatestInv
<1>18. CASE UNCHANGED vars
  BY <1>18 DEF LatestInv, vars
<1> QED
  BY <1>1, <1>2, <1>3, <1>4, <1>5, <1>6, <1>7, <1>8, <1>9, <1>10, <1>11, <1>12, <1>13,
     <1>14, <1>15, <1>16, <1>17, <1>18 DEF Next, InvokeStep, CancelStep, StopStep, RobotStep

(* Every step keeps it: cancel() and safe_stop() name active calls only.     *)
LEMMA RecordStep ==
  ASSUME TypeInv, PlainInv, LatestInv, RecordInv, [Next]_vars
  PROVE  RecordInv'
<1> USE CallAssumption DEF TypeInv
<1>1. ASSUME NEW j \in Job, Arm(j) PROVE RecordInv'
  BY <1>1 DEF Arm, RecordInv, RecordPlace, Plain, Recorded, Named, Step, JobType, ids, withs
<1>2. ASSUME NEW j \in Job, GiveUp(j) \/ Refuse(j) \/ Answer(j) \/ SendRefused(j) PROVE
          RecordInv'
  BY <1>2 DEF GiveUp, Refuse, Answer, SendRefused, RecordInv, RecordPlace, Plain, Recorded,
     Named, Step, JobType, Return, ids, hist, withs
<1>3. ASSUME NEW j \in Job, Resume(j) \/ Fresh(j) \/ Register(j) \/ TakeResult(j) PROVE
          RecordInv'
  <2>1. UNCHANGED <<base, latest, todo, wcall, wpc>> /\ active' \subseteq active
    BY <1>3 DEF Resume, Fresh, Register, TakeResult, ids, hist, withs
  <2>2. \A i \in Job : pc'[i] = "record" => pc[i] = "record"
    BY <1>3 DEF Resume, Fresh, Register, TakeResult, Step, JobType
  <2> QED
    BY <2>1, <2>2 DEF RecordInv, RecordPlace, Recorded, Named
<1>4. ASSUME NEW j \in Job, Send(j) PROVE RecordInv'
  <2> SUFFICES ASSUME NEW d \in Plain, base'[d] <= 1 PROVE RecordPlace(d)'
    BY DEF RecordInv
  <2>1. /\ base' = [base EXCEPT ![CallOf[j]] = @ + 1]
        /\ latest' = [latest EXCEPT ![CallOf[j]] = <<sock, CallOf[j], 0>>]
        /\ UNCHANGED <<active, wcall, wpc, todo>> /\ pc' = [pc EXCEPT ![j] = "record"]
    BY <1>4 DEF Send, Step, ids, withs
  <2>2. d \in Call /\ base[d] \in Nat
    BY DEF Plain, HistoryType
  <2>3. CASE d = CallOf[j]
    <3>1. base[d] = 0 /\ base'[d] = 1 /\ latest'[d][3] = 0
      BY <2>1, <2>2, <2>3 DEF HistoryType
    <3>2. d \notin active /\ Recorded(d) /\ \A k \in Withdrawer : ~Named(k, d)
      BY <2>2, <3>1 DEF LatestInv, RecordInv, RecordPlace, Recorded
    <3> QED
      BY <2>1, <2>3, <3>1, <3>2 DEF RecordPlace, Recorded, Named, JobType
  <2>4. CASE d # CallOf[j]
    <3>1. base'[d] = base[d] /\ latest'[d] = latest[d] /\ RecordPlace(d)
      BY <2>1, <2>2, <2>4 DEF HistoryType, RecordInv
    <3> QED
      BY <2>1, <2>4, <3>1 DEF RecordPlace, Recorded, Named, JobType
  <2> QED
    BY <2>3, <2>4
<1>5. ASSUME NEW j \in Job, Record(j) PROVE RecordInv'
  <2> SUFFICES ASSUME NEW d \in Plain, base[d] <= 1 PROVE RecordPlace(d)'
    BY <1>5 DEF RecordInv, Record, hist
  <2>1. /\ active' = active \cup {CallOf[j]} /\ UNCHANGED <<base, latest, wcall, wpc, todo>>
        /\ pc[j] = "record" /\ pc' = [pc EXCEPT ![j] = "register"] /\ RecordPlace(d)
    BY <1>5 DEF Record, Step, hist, withs, RecordInv
  <2> QED
    BY <2>1 DEF RecordPlace, Recorded, Named, JobType
<1>6. ASSUME NEW j \in Job, Brake(j) \/ BrakeSend(j) \/ SlowDown(j) PROVE RecordInv'
  <2>1. UNCHANGED <<base, latest, todo, wcall, wpc>> /\ active' \subseteq active
    BY <1>6 DEF Brake, BrakeSend, SlowDown, ids, hist, withs
  <2>2. \A i \in Job : pc'[i] = "record" => pc[i] = "record"
    BY <1>6 DEF Brake, BrakeSend, SlowDown, Step, JobType
  <2> QED
    BY <2>1, <2>2 DEF RecordInv, RecordPlace, Recorded, Named
<1>7. ASSUME NEW j \in Job, SlowSwitch(j) \/ SlowSkip(j) \/ SlowRollback(j) PROVE RecordInv'
  <2>1. UNCHANGED <<base, latest, todo, wcall, wpc>> /\ active' \subseteq active
    BY <1>7 DEF SlowSwitch, SlowSkip, SlowRollback, ids, hist, withs
  <2>2. \A i \in Job : pc'[i] = "record" => pc[i] = "record"
    BY <1>7 DEF SlowSwitch, SlowSkip, SlowRollback, Step, JobType
  <2> QED
    BY <2>1, <2>2 DEF RecordInv, RecordPlace, Recorded, Named
<1>8. ASSUME NEW j \in Job, SlowSend(j) PROVE RecordInv'
  <2>1. CallOf[j] \notin Plain
    BY <1>8 DEF SlowSend, Step, PlainInv
  <2>2. \A d \in Plain : latest'[d] = latest[d]
    BY <1>8, <2>1 DEF SlowSend, Plain, HistoryType
  <2> QED
    BY <1>8, <2>2 DEF SlowSend, RecordInv, RecordPlace, Recorded, Named, Step, JobType, ids,
       withs
<1>9. ASSUME NEW j \in Job, Finish(j) \/ Keep(j) PROVE RecordInv'
  <2>1. UNCHANGED <<base, latest, todo, wcall, wpc>> /\ active' \subseteq active
    BY <1>9 DEF Finish, Keep, ids, hist, withs
  <2>2. \A i \in Job : pc'[i] = "record" => pc[i] = "record"
    BY <1>9 DEF Finish, Keep, Step, JobType, Return
  <2> QED
    BY <2>1, <2>2 DEF RecordInv, RecordPlace, Recorded, Named
<1>10. ASSUME NEW k \in Withdrawer, NEW c \in Call, Cancel(k, c) PROVE RecordInv'
  <2> SUFFICES ASSUME NEW d \in Plain, base[d] <= 1 PROVE RecordPlace(d)'
    BY <1>10 DEF RecordInv, Cancel, hist
  <2>1. UNCHANGED <<base, latest, active, pc, todo>> /\ RecordPlace(d)
    BY <1>10 DEF Cancel, ids, jobs, hist, RecordInv
  <2>2. \A x \in Withdrawer : Named(x, d)' => Named(x, d) \/ d \in active
    BY <1>10 DEF Cancel, CancelEnds, Named, WStep, WithdrawInv, WithdrawType
  <2>3. d \in active => base[d] = 1
    BY DEF LatestInv, Plain, HistoryType
  <2> QED
    BY <2>1, <2>2, <2>3 DEF RecordPlace, Recorded
<1>11. ASSUME NEW k \in Withdrawer, CancelSend(k) \/ CancelRaises(k) \/ CancelConfirmed(k)
          \/ CancelUnconfirmed(k) \/ CancelDrop(k) \/ CancelKeep(k) PROVE RecordInv'
  <2>1. UNCHANGED <<base, latest, pc>> /\ active' \subseteq active
    BY <1>11 DEF CancelSend, CancelRaises, CancelConfirmed, CancelUnconfirmed, CancelDrop,
       CancelKeep, ids, jobs, hist
  <2>2. \A x \in Withdrawer, d \in Plain : Named(x, d)' => Named(x, d)
    BY <1>11 DEF CancelSend, CancelRaises, CancelConfirmed, CancelUnconfirmed, CancelDrop,
       CancelKeep, CancelEnds, Named, WStep, WithdrawInv, WithdrawType
  <2> QED
    BY <2>1, <2>2 DEF RecordInv, RecordPlace, Recorded
<1>12. ASSUME NEW k \in Withdrawer, StopBegin(k) PROVE RecordInv'
  <2> SUFFICES ASSUME NEW d \in Plain, base[d] <= 1 PROVE RecordPlace(d)'
    BY <1>12 DEF RecordInv, StopBegin
  <2>1. UNCHANGED <<base, latest, active, pc>> /\ RecordPlace(d)
    BY <1>12 DEF StopBegin, ids, jobs, RecordInv
  <2>2. \A x \in Withdrawer : Named(x, d)' => Named(x, d) \/ d \in active
    BY <1>12 DEF StopBegin, Named, WStep, WithdrawInv, WithdrawType
  <2>3. d \in active => base[d] = 1
    BY DEF LatestInv, Plain, HistoryType
  <2> QED
    BY <2>1, <2>2, <2>3 DEF RecordPlace, Recorded
<1>13. ASSUME NEW k \in Withdrawer, StopEach(k) \/ StopPop(k) \/ StopEnd(k) PROVE RecordInv'
  <2>1. UNCHANGED <<base, latest, pc>> /\ active' \subseteq active
    BY <1>13 DEF StopEach, StopPop, StopEnd, ids, jobs, hist
  <2>2. \A x \in Withdrawer, d \in Plain : Named(x, d)' => Named(x, d)
    BY <1>13 DEF StopEach, StopPop, StopEnd, Named, WStep, WithdrawInv, WithdrawType
  <2> QED
    BY <2>1, <2>2 DEF RecordInv, RecordPlace, Recorded
<1>14. CASE ReadResult
  BY <1>14 DEF ReadResult, RecordInv, RecordPlace, Recorded, Named, jobs, withs, hist, ids
<1>15. ASSUME NEW c \in Call, GuardTrips(c) \/ GuardSlows(c) PROVE RecordInv'
  BY <1>15 DEF GuardTrips, GuardSlows, RecordInv, RecordPlace, Recorded, Named, jobs, withs,
     hist, ids
<1>16. ASSUME RobotStarts \/ RobotPreempts \/ RobotCancels PROVE RecordInv'
  BY <1>16 DEF RobotStarts, RobotPreempts, RobotCancels, RecordInv, RecordPlace, Recorded,
     Named, jobs, withs, hist, Host
<1>17. ASSUME NEW g \in GoalId, RobotEnds(g) PROVE RecordInv'
  BY <1>17 DEF RobotEnds, RecordInv, RecordPlace, Recorded, Named, jobs, withs, hist, Host
<1>18. ASSUME LinkDrops \/ ReopenClears \/ ReopenConnects PROVE RecordInv'
  BY <1>18 DEF LinkDrops, ReopenClears, ReopenConnects, RecordInv, RecordPlace, Recorded,
     Named, jobs, withs, hist, ids
<1>19. CASE UNCHANGED vars
  BY <1>19 DEF RecordInv, RecordPlace, Recorded, Named, vars
<1> QED
  BY <1>1, <1>2, <1>3, <1>4, <1>5, <1>6, <1>7, <1>8, <1>9, <1>10, <1>11, <1>12, <1>13,
     <1>14, <1>15, <1>16, <1>17, <1>18, <1>19 DEF Next, InvokeStep, CancelStep, StopStep,
     RobotStep

-----------------------------------------------------------------------------
(* What a safe stop found active when it began is the latest goal of a call  *)
(* as long as the call got no second one.                                    *)
BeforeInv ==
    \A k \in Stopper :
        /\ wout[k] # "none" => todo[k] = {} /\ wpc[k] = "idle"
        /\ \A g \in before[k] :
             base[g[2]] >= 1 /\ (g[2] \in Plain /\ base[g[2]] = 1 => g = latest[g[2]])

(* Every step keeps it: a second goal for the call takes it out of scope.    *)
LEMMA BeforeStep ==
  ASSUME TypeInv, PlainInv, LatestInv, BeforeInv, [Next]_vars
  PROVE  BeforeInv'
<1> USE CallAssumption DEF TypeInv
<1>1. ASSUME NEW j \in Job, Arm(j) PROVE BeforeInv'
  BY <1>1 DEF Arm, BeforeInv, withs, hist
<1>2. ASSUME NEW j \in Job, GiveUp(j) \/ Refuse(j) \/ Answer(j) \/ SendRefused(j) PROVE
          BeforeInv'
  BY <1>2 DEF GiveUp, Refuse, Answer, SendRefused, BeforeInv, withs, hist
<1>3. ASSUME NEW j \in Job, Resume(j) \/ Fresh(j) \/ Record(j) \/ Register(j) \/
          TakeResult(j) PROVE BeforeInv'
  BY <1>3 DEF Resume, Fresh, Record, Register, TakeResult, BeforeInv, withs, hist
<1>4. ASSUME NEW j \in Job, Send(j) PROVE BeforeInv'
  <2>1. /\ base' = [base EXCEPT ![CallOf[j]] = @ + 1]
        /\ latest' = [latest EXCEPT ![CallOf[j]] = <<sock, CallOf[j], 0>>]
        /\ UNCHANGED <<before, wout, todo, wpc>>
    BY <1>4 DEF Send, withs
  <2> SUFFICES ASSUME NEW k \in Stopper, NEW x \in before[k]
               PROVE  base'[x[2]] >= 1 /\ (x[2] \in Plain /\ base'[x[2]] = 1 => x = latest'[x[2]])
    BY <2>1 DEF BeforeInv
  <2>2. x[2] \in Call /\ base[x[2]] >= 1 /\ (x[2] \in Plain /\ base[x[2]] = 1 => x = latest[x[2]])
    BY DEF BeforeInv, HistoryType, Withdrawer, GoalId
  <2> QED
    BY <2>1, <2>2 DEF HistoryType
<1>5. ASSUME NEW j \in Job, Brake(j) \/ BrakeSend(j) \/ SlowDown(j) \/ SlowSwitch(j) \/
          SlowSkip(j) \/ SlowRollback(j) \/ Finish(j) \/ Keep(j) PROVE BeforeInv'
  BY <1>5 DEF Brake, BrakeSend, SlowDown, SlowSwitch, SlowSkip, SlowRollback, Finish, Keep,
     BeforeInv, withs, hist
<1>6. ASSUME NEW j \in Job, SlowSend(j) PROVE BeforeInv'
  <2>1. CallOf[j] \notin Plain
    BY <1>6 DEF SlowSend, Step, PlainInv
  <2>2. \A d \in Plain : latest'[d] = latest[d]
    BY <1>6, <2>1 DEF SlowSend, Plain, HistoryType
  <2> QED
    BY <1>6, <2>2 DEF SlowSend, BeforeInv, withs
<1>7. ASSUME NEW k \in Withdrawer, NEW c \in Call, Cancel(k, c) PROVE BeforeInv'
  BY <1>7 DEF Cancel, CancelEnds, WStep, Withdrawer, WithdrawInv, WithdrawType, BeforeInv,
     hist
<1>8. ASSUME NEW k \in Withdrawer, CancelSend(k) \/ CancelRaises(k) \/ CancelConfirmed(k) \/
          CancelUnconfirmed(k) \/ CancelDrop(k) \/ CancelKeep(k) PROVE BeforeInv'
  BY <1>8 DEF CancelSend, CancelRaises, CancelConfirmed, CancelUnconfirmed, CancelDrop,
     CancelKeep, CancelEnds, WStep, Withdrawer, WithdrawInv, WithdrawType, BeforeInv, hist
<1>9. ASSUME NEW k \in Withdrawer, StopBegin(k) PROVE BeforeInv'
  <2>1. /\ wout[k] = "none" /\ k \in Stopper /\ UNCHANGED <<base, latest, wout>>
        /\ \A x \in Withdrawer : x # k => todo'[x] = todo[x] /\ wpc'[x] = wpc[x]
                                       /\ before'[x] = before[x]
        /\ before'[k] = {latest[c] : c \in active} \ {None}
    BY <1>9 DEF StopBegin, WStep, WithdrawInv, WithdrawType, HistoryType
  <2>2. ASSUME NEW g \in before'[k]
        PROVE  base[g[2]] >= 1 /\ g = latest[g[2]]
    <3>1. PICK c \in active : g = latest[c] /\ g # None
      BY <2>1, <2>2
    <3>2. c \in Call /\ latest[c] \in GoalId /\ latest[c][2] = c /\ base[c] >= 1
      BY <3>1 DEF LatestInv, IdType, HistoryType
    <3> QED
      BY <3>1, <3>2
  <2>3. ASSUME NEW x \in Stopper
        PROVE  /\ wout'[x] # "none" => todo'[x] = {} /\ wpc'[x] = "idle"
               /\ \A g \in before'[x] :
                    base'[g[2]] >= 1 /\ (g[2] \in Plain /\ base'[g[2]] = 1 => g = latest'[g[2]])
    <3>1. CASE x = k
      BY <2>1, <2>2, <3>1
    <3>2. CASE x # k
      BY <2>1, <3>2 DEF BeforeInv, Withdrawer
    <3> QED
      BY <3>1, <3>2
  <2> QED
    BY <2>3 DEF BeforeInv
<1>10. ASSUME NEW k \in Withdrawer, StopEach(k) \/ StopPop(k) \/ StopEnd(k) PROVE BeforeInv'
  BY <1>10 DEF StopEach, StopPop, StopEnd, WStep, WithdrawInv, WithdrawType, BeforeInv,
     Withdrawer, hist
<1>11. CASE ReadResult
  BY <1>11 DEF ReadResult, BeforeInv, withs, hist
<1>12. ASSUME NEW c \in Call, GuardTrips(c) \/ GuardSlows(c) PROVE BeforeInv'
  BY <1>12 DEF GuardTrips, GuardSlows, BeforeInv, withs, hist
<1>13. ASSUME RobotStarts \/ RobotPreempts \/ RobotCancels PROVE BeforeInv'
  BY <1>13 DEF RobotStarts, RobotPreempts, RobotCancels, BeforeInv, withs, hist, Host
<1>14. ASSUME NEW g \in GoalId, RobotEnds(g) PROVE BeforeInv'
  BY <1>14 DEF RobotEnds, BeforeInv, withs, hist, Host
<1>15. ASSUME LinkDrops \/ ReopenClears \/ ReopenConnects PROVE BeforeInv'
  BY <1>15 DEF LinkDrops, ReopenClears, ReopenConnects, BeforeInv, withs, hist
<1>16. CASE UNCHANGED vars
  BY <1>16 DEF BeforeInv, vars
<1> QED
  BY <1>1, <1>2, <1>3, <1>4, <1>5, <1>6, <1>7, <1>8, <1>9, <1>10, <1>11, <1>12, <1>13,
     <1>14, <1>15, <1>16 DEF Next, InvokeStep, CancelStep, StopStep, RobotStep

(* A goal is handled once it is over or a cancel of it was sent; a call is   *)
(* settled while its goal is, or runs on a socket that is gone.              *)
Handled(g) == goal[g] \in {"canceling", "ended"} \/ g \in asked

Settled(c) == up /\ latest[c][1] = sock => Handled(latest[c])

(* ... which it stays: its goal does not start over, and a cancel that was   *)
(* sent is only forgotten when the call gets another goal.                   *)
LEMMA SettledStays ==
  ASSUME TypeInv, PlainInv, EndInv, LatestInv, [Next]_vars,
         NEW d \in Plain, base[d] = 1, base'[d] = 1, Settled(d)
  PROVE  Settled(d)'
<1> USE CallAssumption DEF TypeInv
<1>a. /\ d \in Call /\ latest[d] \in GoalId /\ latest[d][2] = d /\ latest[d][1] <= sock
      /\ OnceInPlace(latest[d])
  BY DEF Plain, LatestInv, EndInv
<1>1. ASSUME NEW j \in Job, Arm(j) PROVE Settled(d)'
  <2>1. UNCHANGED <<up, sock, goal, latest>> /\ asked \subseteq asked'
    BY <1>1 DEF Arm, robot
  <2> QED
    BY <2>1 DEF Settled, Handled
<1>2. ASSUME NEW j \in Job, GiveUp(j) \/ Refuse(j) \/ Answer(j) \/ SendRefused(j) \/
          Resume(j) \/ Fresh(j) \/ Record(j) \/ Register(j) \/ TakeResult(j) PROVE Settled(d)'
  <2>1. UNCHANGED <<up, sock, goal, latest>> /\ asked \subseteq asked'
    BY <1>2 DEF GiveUp, Refuse, Answer, SendRefused, Resume, Fresh, Record, Register,
       TakeResult, robot, hist
  <2> QED
    BY <2>1 DEF Settled, Handled
<1>3. ASSUME NEW j \in Job, Send(j) PROVE Settled(d)'
  <2>1. d # CallOf[j]
    BY <1>3 DEF Send, HistoryType, Plain
  <2>2. latest'[d] = latest[d] /\ asked \ {<<sock, CallOf[j], 0>>} \subseteq asked'
        /\ UNCHANGED <<up, sock, goal>>
    BY <1>3, <2>1 DEF Send, SendGoal, HistoryType, Plain
  <2>3. latest[d] # <<sock, CallOf[j], 0>>
    BY <1>a, <2>1
  <2> QED
    BY <2>2, <2>3 DEF Settled, Handled
<1>4. ASSUME NEW j \in Job, Brake(j) \/ SlowDown(j) \/ SlowSwitch(j) \/ SlowSkip(j) \/
          SlowRollback(j) \/ Finish(j) \/ Keep(j) PROVE Settled(d)'
  <2>1. UNCHANGED <<up, sock, goal, latest>> /\ asked \subseteq asked'
    BY <1>4 DEF Brake, SlowDown, SlowSwitch, SlowSkip, SlowRollback, Finish, Keep, robot,
       hist
  <2> QED
    BY <2>1 DEF Settled, Handled
<1>5. ASSUME NEW j \in Job, BrakeSend(j) PROVE Settled(d)'
  <2>1. UNCHANGED <<up, sock, goal, latest>> /\ asked \subseteq asked'
    BY <1>5 DEF BrakeSend, SendCancel, robot, hist
  <2> QED
    BY <2>1 DEF Settled, Handled
<1>6. ASSUME NEW j \in Job, SlowSend(j) PROVE Settled(d)'
  <2>1. CallOf[j] \notin Plain
    BY <1>6 DEF SlowSend, Step, PlainInv
  <2>2. latest'[d] = latest[d] /\ UNCHANGED <<asked, up, sock, goal>>
    BY <1>6, <2>1 DEF SlowSend, SendGoal, Plain, HistoryType
  <2> QED
    BY <2>2 DEF Settled, Handled
<1>7. ASSUME NEW k \in Withdrawer, NEW c \in Call, Cancel(k, c) PROVE Settled(d)'
  <2>1. UNCHANGED <<up, sock, goal, latest>> /\ asked \subseteq asked'
    BY <1>7 DEF Cancel, robot, hist
  <2> QED
    BY <2>1 DEF Settled, Handled
<1>8. ASSUME NEW k \in Withdrawer, CancelSend(k) PROVE Settled(d)'
  <2>1. UNCHANGED <<up, sock, goal, latest>> /\ asked \subseteq asked'
    BY <1>8 DEF CancelSend, SendCancel, robot, hist
  <2> QED
    BY <2>1 DEF Settled, Handled
<1>9. ASSUME NEW k \in Withdrawer, CancelRaises(k) \/ CancelConfirmed(k) \/
          CancelUnconfirmed(k) \/ CancelDrop(k) \/ CancelKeep(k) PROVE Settled(d)'
  <2>1. UNCHANGED <<up, sock, goal, latest>> /\ asked \subseteq asked'
    BY <1>9 DEF CancelRaises, CancelConfirmed, CancelUnconfirmed, CancelDrop, CancelKeep,
       robot, hist
  <2> QED
    BY <2>1 DEF Settled, Handled
<1>10. ASSUME NEW k \in Withdrawer, StopBegin(k) \/ StopEach(k) \/ StopPop(k) \/ StopEnd(k)
          PROVE Settled(d)'
  <2>1. UNCHANGED <<up, sock, goal, latest>> /\ asked \subseteq asked'
    BY <1>10 DEF StopBegin, StopEach, StopPop, StopEnd, robot, hist
  <2> QED
    BY <2>1 DEF Settled, Handled
<1>11. CASE ReadResult
  <2>1. UNCHANGED <<up, sock, goal, latest>> /\ asked \subseteq asked'
    BY <1>11 DEF ReadResult, robot, hist
  <2> QED
    BY <2>1 DEF Settled, Handled
<1>12. ASSUME NEW c \in Call, GuardTrips(c) \/ GuardSlows(c) PROVE Settled(d)'
  <2>1. UNCHANGED <<up, sock, goal, latest>> /\ asked \subseteq asked'
    BY <1>12 DEF GuardTrips, GuardSlows, robot, hist
  <2> QED
    BY <2>1 DEF Settled, Handled
<1>13. CASE RobotStarts
  <2>1. UNCHANGED <<up, sock, asked, latest>>
    BY <1>13 DEF RobotStarts, Host, hist
  <2>2. goal[latest[d]] \in {"canceling", "ended"} => goal'[latest[d]] \in {"canceling", "ended"}
    <3>1. PICK h : h = Head(toRobot).goal
      OBVIOUS
    <3>2. OnItsWay(h) /\ goal' = [goal EXCEPT ![h] = "running"]
      BY <1>13, <3>1, TakenFromItsWay DEF RobotStarts
    <3>3. goal[latest[d]] \in {"canceling", "ended"} => latest[d] # h
      BY <1>a, <3>2 DEF OnceInPlace
    <3> QED
      BY <1>a, <3>2, <3>3 DEF RobotType
  <2> QED
    BY <2>1, <2>2 DEF Settled, Handled
<1>14. CASE RobotPreempts
  <2>1. UNCHANGED <<up, sock, asked, latest>>
    BY <1>14 DEF RobotPreempts, Host, hist
  <2>2. goal[latest[d]] \in {"canceling", "ended"} => goal'[latest[d]] \in {"canceling", "ended"}
    <3>1. PICK h : h = Head(toRobot).goal
      OBVIOUS
    <3>2. PICK e \in GoalId : goal' = [goal EXCEPT ![e] = "ended", ![h] = "running"]
      BY <1>14, <3>1 DEF RobotPreempts, OnServerOf
    <3>3. OnItsWay(h)
      BY <1>14, <3>1, TakenFromItsWay DEF RobotPreempts
    <3>4. goal[latest[d]] \in {"canceling", "ended"} => latest[d] # h
      BY <1>a, <3>3 DEF OnceInPlace
    <3> QED
      BY <1>a, <3>2, <3>4 DEF RobotType
  <2> QED
    BY <2>1, <2>2 DEF Settled, Handled
<1>15. CASE RobotCancels
  <2>1. UNCHANGED <<up, sock, asked, latest>>
    BY <1>15 DEF RobotCancels, Host, hist
  <2>2. goal[latest[d]] \in {"canceling", "ended"} => goal'[latest[d]] \in {"canceling", "ended"}
    BY <1>15, <1>a DEF RobotCancels, RobotType
  <2> QED
    BY <2>1, <2>2 DEF Settled, Handled
<1>16. ASSUME NEW g \in GoalId, RobotEnds(g) PROVE Settled(d)'
  <2>1. UNCHANGED <<up, sock, asked, latest>>
    BY <1>16 DEF RobotEnds, Host, hist
  <2>2. goal[latest[d]] \in {"canceling", "ended"} => goal'[latest[d]] \in {"canceling", "ended"}
    BY <1>16, <1>a DEF RobotEnds, RobotType
  <2> QED
    BY <2>1, <2>2 DEF Settled, Handled
<1>17. CASE LinkDrops
  BY <1>17 DEF LinkDrops, Settled, hist
<1>18. CASE ReopenClears
  <2>1. UNCHANGED <<up, sock, goal, latest>> /\ asked \subseteq asked'
    BY <1>18 DEF ReopenClears, robot
  <2> QED
    BY <2>1 DEF Settled, Handled
<1>19. CASE ReopenConnects
  <2>1. sock' = sock + 1 /\ latest' = latest /\ sock \in Int /\ latest[d][1] \in Int
    BY <1>19, <1>a DEF ReopenConnects, LinkInv, LinkType, GoalId
  <2> QED
    BY <1>a, <2>1 DEF Settled
<1>20. CASE UNCHANGED vars
  BY <1>20 DEF Settled, Handled, vars
<1> QED
  BY <1>1, <1>2, <1>3, <1>4, <1>5, <1>6, <1>7, <1>8, <1>9, <1>10, <1>11, <1>12, <1>13,
     <1>14, <1>15, <1>16, <1>17, <1>18, <1>19, <1>20 DEF Next, InvokeStep, CancelStep,
     StopStep, RobotStep

(* What a call is when nobody will cancel it any more, and what a safe stop  *)
(* that began with its goal still has to do.                                 *)
StopPlace(c) ==
    /\ Recorded(c) /\ c \notin active => Settled(c)
    /\ \A k \in Withdrawer :
         wcall[k] = c /\ wpc[k] \in {"await", "drop", "keep", "pop"} => Settled(c)
    /\ \A k \in Stopper : latest[c] \in before[k] =>
         c \in todo[k] \/ (wcall[k] = c /\ wpc[k] = "send") \/ Settled(c)

StopInv == \A c \in Plain : base[c] = 1 => StopPlace(c)

(* It stays so while the call is no less active, ...                         *)
LEMMA StopFrame ==
  ASSUME TypeInv, PlainInv, EndInv, LatestInv, [Next]_vars, NEW d \in Plain,
         base[d] = 1, base'[d] = 1, latest'[d] = latest[d], StopPlace(d),
         (Recorded(d) /\ d \notin active)' => (Recorded(d) /\ d \notin active) \/ Settled(d)',
         \A k \in Withdrawer :
            /\ (wcall[k] = d /\ wpc[k] \in {"await", "drop", "keep", "pop"})'
                  => (wcall[k] = d /\ wpc[k] \in {"await", "drop", "keep", "pop"}) \/ Settled(d)'
            /\ (wcall[k] = d /\ wpc[k] = "send")
                  => (wcall[k] = d /\ wpc[k] = "send")' \/ Settled(d)'
            /\ d \in todo[k] => (d \in todo[k] \/ (wcall[k] = d /\ wpc[k] = "send"))' \/ Settled(d)'
            /\ latest[d] \in before'[k] => latest[d] \in before[k] \/ d \in todo'[k]
  PROVE  StopPlace(d)'
<1>1. Settled(d) => Settled(d)'
  BY SettledStays
<1>2. (Recorded(d) /\ d \notin active)' => Settled(d)'
  BY <1>1 DEF StopPlace
<1>3. \A k \in Withdrawer :
         (wcall[k] = d /\ wpc[k] \in {"await", "drop", "keep", "pop"})' => Settled(d)'
  BY <1>1 DEF StopPlace
<1>4. \A k \in Stopper : latest'[d] \in before'[k] =>
         (d \in todo[k] \/ (wcall[k] = d /\ wpc[k] = "send"))' \/ Settled(d)'
  BY <1>1 DEF StopPlace, Withdrawer
<1> QED
  BY <1>2, <1>3, <1>4 DEF StopPlace

(* ... and every step keeps it.                                              *)
LEMMA StopStepHolds ==
  ASSUME TypeInv, PlainInv, EndInv, LatestInv, RecordInv, BeforeInv, StopInv, [Next]_vars
  PROVE  StopInv'
<1> USE CallAssumption DEF TypeInv
<1> SUFFICES ASSUME NEW d \in Plain, base'[d] = 1 PROVE StopPlace(d)'
  BY DEF StopInv
<1>a. d \in Call /\ base[d] \in Nat
  BY DEF Plain, HistoryType
<1>b. base'[d] = 1 /\ (base[d] = 1 => StopPlace(d))
  BY DEF StopInv
<1>1. ASSUME NEW j \in Job, Arm(j) PROVE StopPlace(d)'
  <2>1. UNCHANGED <<base, wcall, wpc, todo, before>> /\ latest'[d] = latest[d]
        /\ active \subseteq active'
    BY <1>1 DEF Arm, ids, withs
  <2>2. (Recorded(d) /\ d \notin active)' => (Recorded(d) /\ d \notin active)
    BY <1>1 DEF Arm, Recorded, Step, JobType, ids
  <2> QED
    BY <1>b, <2>1, <2>2, StopFrame
<1>2. ASSUME NEW j \in Job, GiveUp(j) \/ Refuse(j) \/ Answer(j) \/ SendRefused(j) PROVE
          StopPlace(d)'
  <2>1. UNCHANGED <<base, wcall, wpc, todo, before>> /\ latest'[d] = latest[d]
        /\ active \subseteq active'
    BY <1>2 DEF GiveUp, Refuse, Answer, SendRefused, ids, withs, hist
  <2>2. (Recorded(d) /\ d \notin active)' => (Recorded(d) /\ d \notin active)
    BY <1>2 DEF GiveUp, Refuse, Answer, SendRefused, Recorded, Step, JobType, Return, ids
  <2> QED
    BY <1>b, <2>1, <2>2, StopFrame
<1>3. ASSUME NEW j \in Job, Resume(j) \/ Fresh(j) \/ Register(j) \/ TakeResult(j) PROVE
          StopPlace(d)'
  <2>1. UNCHANGED <<base, wcall, wpc, todo, before>> /\ latest'[d] = latest[d]
        /\ active \subseteq active'
    BY <1>3 DEF Resume, Fresh, Register, TakeResult, ids, withs, hist
  <2>2. (Recorded(d) /\ d \notin active)' => (Recorded(d) /\ d \notin active)
    BY <1>3 DEF Resume, Fresh, Register, TakeResult, Recorded, Step, JobType, ids
  <2> QED
    BY <1>b, <2>1, <2>2, StopFrame
<1>4. ASSUME NEW j \in Job, Record(j) PROVE StopPlace(d)'
  <2>1. UNCHANGED <<base, wcall, wpc, todo, before>> /\ latest'[d] = latest[d]
        /\ active \subseteq active'
    BY <1>4 DEF Record, ids, withs, hist
  <2>2. (Recorded(d) /\ d \notin active)' => (Recorded(d) /\ d \notin active)
    BY <1>4 DEF Record, Recorded, Step, JobType
  <2> QED
    BY <1>b, <2>1, <2>2, StopFrame
<1>5. ASSUME NEW j \in Job, Brake(j) \/ BrakeSend(j) \/ SlowDown(j) \/ SlowSwitch(j) \/
          SlowSkip(j) \/ SlowRollback(j) PROVE StopPlace(d)'
  <2>1. UNCHANGED <<base, wcall, wpc, todo, before>> /\ latest'[d] = latest[d]
        /\ active \subseteq active'
    BY <1>5 DEF Brake, BrakeSend, SlowDown, SlowSwitch, SlowSkip, SlowRollback, ids, withs,
       hist
  <2>2. (Recorded(d) /\ d \notin active)' => (Recorded(d) /\ d \notin active)
    BY <1>5 DEF Brake, BrakeSend, SlowDown, SlowSwitch, SlowSkip, SlowRollback, Recorded,
       Step, JobType, ids
  <2> QED
    BY <1>b, <2>1, <2>2, StopFrame
<1>6. ASSUME NEW j \in Job, Keep(j) PROVE StopPlace(d)'
  <2>1. UNCHANGED <<base, wcall, wpc, todo, before>> /\ latest'[d] = latest[d]
        /\ active \subseteq active'
    BY <1>6 DEF Keep, ids, withs, hist
  <2>2. (Recorded(d) /\ d \notin active)' => (Recorded(d) /\ d \notin active)
    BY <1>6 DEF Keep, Recorded, Step, JobType, Return, ids
  <2> QED
    BY <1>b, <2>1, <2>2, StopFrame
<1>7. ASSUME NEW j \in Job, Send(j) PROVE StopPlace(d)'
  <2>1. /\ base' = [base EXCEPT ![CallOf[j]] = @ + 1]
        /\ latest' = [latest EXCEPT ![CallOf[j]] = <<sock, CallOf[j], 0>>]
        /\ UNCHANGED <<active, wcall, wpc, todo, before>> /\ pc' = [pc EXCEPT ![j] = "record"]
    BY <1>7 DEF Send, Step, ids, withs
  <2>2. CASE d = CallOf[j]
    <3>a. base[d] = 0
      <4>1. base'[d] = base[d] + 1
        BY <2>1, <2>2 DEF HistoryType
      <4> QED
        BY <4>1, <1>a, <1>b
    <3>b. ~Recorded(d)'
      <4>1. pc'[j] = "record"
        BY <2>1 DEF JobType
      <4> QED
        BY <4>1, <2>2 DEF Recorded
    <3>1. base[d] = 0 /\ ~Recorded(d)'
      BY <3>a, <3>b
    <3>2. \A k \in Withdrawer : ~Named(k, d)
      BY <3>1 DEF RecordInv, RecordPlace
    <3>3. \A k \in Stopper : latest'[d] \notin before[k]
      <4>1. latest'[d][2] = d
        BY <2>1, <2>2 DEF HistoryType
      <4> QED
        BY <3>1, <4>1 DEF BeforeInv
    <3> QED
      BY <2>1, <3>1, <3>2, <3>3 DEF StopPlace, Named
  <2>3. CASE d # CallOf[j]
    <3>1. base[d] = 1 /\ latest'[d] = latest[d]
      BY <2>1, <2>3, <1>a DEF HistoryType
    <3>2. Recorded(d)' => Recorded(d)
      BY <2>1, <2>3 DEF Recorded, JobType
    <3> QED
      BY <1>b, <2>1, <3>1, <3>2, StopFrame
  <2> QED
    BY <2>2, <2>3
<1>8. ASSUME NEW j \in Job, SlowSend(j) PROVE StopPlace(d)'
  <2>1. CallOf[j] \notin Plain
    BY <1>8 DEF SlowSend, Step, PlainInv
  <2>2. latest'[d] = latest[d] /\ UNCHANGED <<base, active, wcall, wpc, todo, before>>
    BY <1>8, <2>1, <1>a DEF SlowSend, HistoryType, ids, withs
  <2>3. Recorded(d)' => Recorded(d)
    BY <1>8 DEF SlowSend, Step, Recorded, JobType
  <2> QED
    BY <1>b, <2>2, <2>3, StopFrame
<1>9. ASSUME NEW j \in Job, Finish(j) PROVE StopPlace(d)'
  <2>1. UNCHANGED <<base, latest, goal, wcall, wpc, todo, before>> /\ active' = active \ {CallOf[j]}
    BY <1>9 DEF Finish, robot, withs, hist
  <2>2. Recorded(d)' => Recorded(d)
    BY <1>9 DEF Finish, Step, Recorded, JobType
  <2>3. d = CallOf[j] => Settled(d)
    BY <1>9, <1>b, <2>1 DEF Finish, Step, EndInv, Told, Ended, Settled, Handled
  <2>4. d = CallOf[j] => Settled(d)'
    BY <1>b, <2>1, <2>3, SettledStays
  <2> QED
    BY <1>b, <2>1, <2>2, <2>4, StopFrame
<1>10. ASSUME NEW k \in Withdrawer, NEW c \in Call, Cancel(k, c) PROVE StopPlace(d)'
  <2>1. UNCHANGED <<base, latest, pc, before>>
    BY <1>10 DEF Cancel, jobs, hist
  <2>2. /\ UNCHANGED <<active, todo>> /\ wpc[k] = "idle" /\ k \in Canceller
        /\ \A x \in Withdrawer : x # k => wcall'[x] = wcall[x] /\ wpc'[x] = wpc[x]
        /\ wpc'[k] \in {"send", "idle"}
    BY <1>10 DEF Cancel, CancelEnds, WStep, WithdrawInv, WithdrawType, ids
  <2> QED
    BY <1>b, <2>1, <2>2, StopFrame DEF Recorded
<1>11. ASSUME NEW k \in Withdrawer, CancelSend(k) PROVE StopPlace(d)'
  <2>1. /\ UNCHANGED <<base, latest, pc, before, active, todo, wcall, up, sock>> /\ wpc[k] = "send"
        /\ wpc' = [wpc EXCEPT ![k] = "await"] /\ asked' = asked \cup {Goal(wcall[k])}
    BY <1>11 DEF CancelSend, WStep, ids, jobs
  <2>2. wcall[k] = d => Settled(d)'
    <3>1. ASSUME wcall[k] = d, latest[d][1] = sock PROVE latest[d] = Goal(wcall[k])
      <4>1. latest[d] \in GoalId /\ latest[d][2] = d /\ latest[d][3] = 0 /\ slowId[d] = 0
        BY <1>a, <1>b, <2>1 DEF LatestInv, RecordInv, RecordPlace, PlainInv
      <4> QED
        BY <3>1, <4>1 DEF Goal, GoalId
    <3> QED
      BY <2>1, <3>1 DEF Settled, Handled
  <2>3. \A x \in Withdrawer : wpc'[x] = IF x = k THEN "await" ELSE wpc[x]
    BY <2>1 DEF WithdrawInv, WithdrawType
  <2> QED
    BY <1>b, <2>1, <2>2, <2>3, StopFrame DEF Recorded
<1>12. ASSUME NEW k \in Withdrawer, CancelRaises(k) PROVE StopPlace(d)'
  <2>1. UNCHANGED <<base, latest, pc, before>>
    BY <1>12 DEF CancelRaises, jobs, hist
  <2>2. Settled(d)' /\ UNCHANGED <<active, todo>>
    BY <1>12 DEF CancelRaises, Settled, ids
  <2> QED
    BY <1>b, <2>1, <2>2, StopFrame DEF Recorded
<1>13. ASSUME NEW k \in Withdrawer, CancelConfirmed(k) \/ CancelUnconfirmed(k) \/
          CancelKeep(k) PROVE StopPlace(d)'
  <2>1. UNCHANGED <<base, latest, pc, before>>
    BY <1>13 DEF CancelConfirmed, CancelUnconfirmed, CancelKeep, jobs, hist
  <2>2. /\ UNCHANGED <<active, todo, wcall>> /\ wpc[k] \in {"await", "keep"} /\ wpc'[k] # "send"
        /\ \A x \in Withdrawer : x # k => wpc'[x] = wpc[x]
    BY <1>13 DEF CancelConfirmed, CancelUnconfirmed, CancelKeep, CancelEnds, WStep,
       WithdrawInv, WithdrawType, ids
  <2> QED
    BY <1>b, <2>1, <2>2, StopFrame DEF Recorded
<1>14. ASSUME NEW k \in Withdrawer, CancelDrop(k) \/ StopPop(k) PROVE StopPlace(d)'
  <2>1. UNCHANGED <<base, latest, pc, before>>
    BY <1>14 DEF CancelDrop, StopPop, jobs
  <2>2. /\ UNCHANGED <<todo, wcall>> /\ active' = active \ {wcall[k]} /\ wpc[k] \in {"drop", "pop"}
        /\ wpc'[k] # "send" /\ \A x \in Withdrawer : x # k => wpc'[x] = wpc[x]
    BY <1>14 DEF CancelDrop, StopPop, WStep, WithdrawInv, WithdrawType
  <2>3. wcall[k] = d => Settled(d)
    BY <1>b, <2>1, <2>2 DEF StopPlace
  <2>4. wcall[k] = d => Settled(d)'
    BY <1>b, <2>1, <2>3, SettledStays
  <2> QED
    BY <1>b, <2>1, <2>2, <2>4, StopFrame DEF Recorded
<1>15. ASSUME NEW k \in Withdrawer, StopBegin(k) PROVE StopPlace(d)'
  <2>1. UNCHANGED <<base, latest, pc, active, wcall>>
    BY <1>15 DEF StopBegin, ids, jobs
  <2>2. /\ wpc[k] = "idle" /\ wpc'[k] = "each" /\ todo'[k] = active
        /\ before'[k] = {latest[c] : c \in active} \ {None}
        /\ \A x \in Withdrawer : x # k =>
             wpc'[x] = wpc[x] /\ todo'[x] = todo[x] /\ before'[x] = before[x]
    BY <1>15 DEF StopBegin, WStep, WithdrawInv, WithdrawType, HistoryType
  <2>3. latest[d] \in before'[k] => d \in active
    BY <1>a, <1>b, <2>1, <2>2 DEF LatestInv, IdType, HistoryType
  <2>4. d \in todo[k] => Settled(d)' \/ d \in active
    <3>1. d \in todo[k] => base[d] = 1 /\ Recorded(d)
      BY <1>b, <2>1 DEF RecordInv, RecordPlace, Named
    <3>2. d \in todo[k] /\ d \notin active => Settled(d)
      BY <1>b, <2>1, <3>1 DEF StopPlace
    <3> QED
      BY <1>b, <2>1, <3>2, SettledStays
  <2> QED
    BY <1>b, <2>1, <2>2, <2>3, <2>4, StopFrame DEF Recorded
<1>16. ASSUME NEW k \in Withdrawer, StopEach(k) PROVE StopPlace(d)'
  <2>1. UNCHANGED <<base, latest, pc, active, before>>
    BY <1>16 DEF StopEach, ids, jobs, hist
  <2>2. PICK c \in todo[k] : /\ wpc[k] = "each" /\ wpc'[k] = IF c \in active THEN "send" ELSE "pop"
                             /\ wcall'[k] = c /\ todo'[k] = todo[k] \ {c}
    BY <1>16 DEF StopEach, WStep, WithdrawInv, WithdrawType
  <2>3. \A x \in Withdrawer : x # k => wpc'[x] = wpc[x] /\ todo'[x] = todo[x]
                                    /\ wcall'[x] = wcall[x]
    BY <1>16 DEF StopEach, WStep, WithdrawInv, WithdrawType
  <2>4. c = d /\ c \notin active => Settled(d)'
    <3>1. c = d => base[d] = 1 /\ Recorded(d)
      BY <1>b, <2>1, <2>2 DEF RecordInv, RecordPlace, Named
    <3>2. c = d /\ d \notin active => Settled(d)
      BY <1>b, <2>1, <3>1 DEF StopPlace
    <3> QED
      BY <1>b, <2>1, <3>2, SettledStays
  <2> QED
    BY <1>b, <2>1, <2>2, <2>3, <2>4, StopFrame DEF Recorded
<1>17. ASSUME NEW k \in Withdrawer, StopEnd(k) PROVE StopPlace(d)'
  <2>1. UNCHANGED <<base, latest, pc, before>>
    BY <1>17 DEF StopEnd, jobs, hist
  <2>2. /\ UNCHANGED <<active, todo, wcall>> /\ wpc[k] = "each" /\ wpc'[k] = "idle"
        /\ \A x \in Withdrawer : x # k => wpc'[x] = wpc[x]
    BY <1>17 DEF StopEnd, WStep, WithdrawInv, WithdrawType, ids
  <2> QED
    BY <1>b, <2>1, <2>2, StopFrame DEF Recorded
<1>18. CASE ReadResult
  <2>1. UNCHANGED <<base, latest, pc, active, wcall, wpc, todo, before>>
    BY <1>18 DEF ReadResult, ids, jobs, withs, hist
  <2> QED
    BY <1>b, <2>1, StopFrame DEF Recorded
<1>19. ASSUME NEW c \in Call, GuardTrips(c) \/ GuardSlows(c) PROVE StopPlace(d)'
  <2>1. UNCHANGED <<base, latest, pc, active, wcall, wpc, todo, before>>
    BY <1>19 DEF GuardTrips, GuardSlows, ids, jobs, withs, hist
  <2> QED
    BY <1>b, <2>1, StopFrame DEF Recorded
<1>20. ASSUME RobotStarts \/ RobotPreempts \/ RobotCancels PROVE StopPlace(d)'
  <2>1. UNCHANGED <<base, latest, pc, active, wcall, wpc, todo, before>>
    BY <1>20 DEF RobotStarts, RobotPreempts, RobotCancels, Host, jobs, withs, hist
  <2> QED
    BY <1>b, <2>1, StopFrame DEF Recorded
<1>21. ASSUME NEW g \in GoalId, RobotEnds(g) PROVE StopPlace(d)'
  <2>1. UNCHANGED <<base, latest, pc, active, wcall, wpc, todo, before>>
    BY <1>21 DEF RobotEnds, Host, jobs, withs, hist
  <2> QED
    BY <1>b, <2>1, StopFrame DEF Recorded
<1>22. ASSUME LinkDrops \/ ReopenConnects PROVE StopPlace(d)'
  <2>1. UNCHANGED <<base, latest, pc, active, wcall, wpc, todo, before>>
    BY <1>22 DEF LinkDrops, ReopenConnects, ids, jobs, withs, hist
  <2> QED
    BY <1>b, <2>1, StopFrame DEF Recorded
<1>23. CASE ReopenClears
  <2>1. UNCHANGED <<base, latest, pc, wcall, wpc, todo, before, up>> /\ ~up
    BY <1>23 DEF ReopenClears, jobs, withs
  <2> QED
    BY <1>b, <2>1, StopFrame DEF Recorded, Settled
<1>24. CASE UNCHANGED vars
  <2>1. UNCHANGED <<base, latest, pc, active, wcall, wpc, todo, before>>
    BY <1>24 DEF vars
  <2> QED
    BY <1>b, <2>1, StopFrame DEF Recorded
<1> QED
  BY <1>1, <1>2, <1>3, <1>4, <1>5, <1>6, <1>7, <1>8, <1>9, <1>10, <1>11, <1>12, <1>13,
     <1>14, <1>15, <1>16, <1>17, <1>18, <1>19, <1>20, <1>21, <1>22, <1>23, <1>24 DEF Next,
     InvokeStep, CancelStep, StopStep, RobotStep

(* At the beginning no goal was sent and no stop has begun.                  *)
LEMMA StopInit == Init => LatestInv /\ RecordInv /\ BeforeInv /\ StopInv
<1> SUFFICES ASSUME Init PROVE LatestInv /\ RecordInv /\ BeforeInv /\ StopInv
  OBVIOUS
<1>1. LatestInv
  BY BoundAssumption DEF Init, LatestInv, GoalId
<1>2. RecordInv
  BY CallAssumption DEF Init, RecordInv, RecordPlace, Recorded, Named, Plain
<1>3. BeforeInv /\ StopInv
  BY DEF Init, BeforeInv, StopInv, Withdrawer, Plain
<1> QED
  BY <1>1, <1>2, <1>3

(* When the stop ends nothing is left to do, so the calls it found are       *)
(* settled.                                                                  *)
LEMMA StopAsks == TypeInv /\ BeforeInv /\ StopInv => StopAsksEveryActiveGoal
<1> SUFFICES ASSUME TypeInv, BeforeInv, StopInv, NEW k \in Stopper, wout[k] # "none", up,
                    NEW g \in before[k], g[1] = sock, HasOneGoal(g[2])
             PROVE  goal[g] \in {"canceling", "ended"} \/ g \in asked
  BY DEF StopAsksEveryActiveGoal
<1>1. g \in GoalId /\ g[2] \in Plain /\ base[g[2]] = 1
  BY DEF BeforeInv, HasOneGoal, Plain, GoalId, TypeInv, HistoryType, Withdrawer
<1>2. g = latest[g[2]] /\ todo[k] = {} /\ wpc[k] = "idle"
  BY <1>1 DEF BeforeInv
<1>3. Settled(g[2])
  BY <1>1, <1>2 DEF StopInv, StopPlace
<1> QED
  BY <1>2, <1>3 DEF Settled, Handled

(* Nothing that was active when a safe stop began drives on unasked: each    *)
(* goal is over, or a cancel of it was sent, when the stop ends on a         *)
(* connection that held.                                                     *)
THEOREM StopLeavesNothingUnasked == Spec => []StopAsksEveryActiveGoal
<1>1. TypeInv /\ PlainInv /\ [Next]_vars => PlainInv'
  BY PlainStep
<1>2. TypeInv /\ PlainInv /\ EndInv /\ [Next]_vars => EndInv'
  BY EndStep
<1>3. TypeInv /\ LatestInv /\ [Next]_vars => LatestInv'
  BY LatestStep
<1>4. TypeInv /\ PlainInv /\ LatestInv /\ RecordInv /\ [Next]_vars => RecordInv'
  BY RecordStep
<1>5. TypeInv /\ PlainInv /\ LatestInv /\ BeforeInv /\ [Next]_vars => BeforeInv'
  BY BeforeStep
<1>6. TypeInv /\ PlainInv /\ EndInv /\ LatestInv /\ RecordInv /\ BeforeInv /\ StopInv
      /\ [Next]_vars => StopInv'
  BY StopStepHolds
<1> QED
  BY <1>1, <1>2, <1>3, <1>4, <1>5, <1>6, TypeInit, TypeStep, EndInit, StopInit, StopAsks,
     PTL
  DEF Spec

-----------------------------------------------------------------------------
(* The call of a job, as long as nobody dropped it: its goal is sent once,   *)
(* it is active from the record of the goal to its result, and the goal that *)
(* drives it is the one its sequence names.                                  *)
Over(j) == kept[CallOf[j]] # "none" \/ pc[j] = "keep"
Begun(j) == CallOf[j] \in active \/ Over(j)
Sequence(j) == IF pc[j] = "slowsend" THEN swap[j][1] ELSE slowId[CallOf[j]]

GoalPlace(j) ==
    LET c == CallOf[j] IN
    /\ Over(j) => c \notin active
    /\ c \in active => base[c] = 1 /\ pc[j] \notin {"send", "record", "keep"}
    /\ pc[j] = "send" => base[c] = 0 /\ kept[c] = "none"
    /\ pc[j] = "record" => base[c] = 1 /\ kept[c] = "none" /\ slowId[c] = 0
    /\ base[c] = 1 => pc[j] = "record" \/ Begun(j)
    /\ base[c] \in {0, 1}
    /\ base[c] = 0 => slowId[c] = 0
    /\ pc[j] \in {"register", "wait", "brake", "slowing", "slowsend", "finish"} => c \in active
    /\ pc[j] = "slowsend" => slowId[c] = swap[j][2]
    /\ pc[j] = "record" \/ c \in active => latest[c] \in GoalId /\ latest[c][3] = Sequence(j)

(* Its guard is armed until the result is kept, and a stop it counts as sent *)
(* was sent for the goal that drives, or will be by the job that marked it.  *)
GuardPlace(j) ==
    LET c == CallOf[j] IN
    /\ c \in Guarded /\ kept[c] = "none" /\ (c \in active \/ pc[j] \in {"decide", "send", "record"})
         => guard[c].on
    /\ guard[c].sent => guard[c].tripped /\ Begun(j)
    /\ pc[j] \in {"slowing", "slowsend"} => ~guard[c].sent
    /\ c \in active /\ guard[c].sent /\ pc[j] # "brake" /\ up /\ latest[c][1] = sock
         => latest[c] \in asked

(* A withdrawer names only calls that have begun.                            *)
NamedBegun(j) ==
    \A k \in Withdrawer :
        /\ CallOf[j] \in todo[k] => Begun(j)
        /\ wcall[k] = CallOf[j] /\ wpc[k] \in {"send", "await", "drop", "pop"} => Begun(j)
        /\ wcall[k] = CallOf[j] /\ wpc[k] = "keep" => Over(j)

DriveInv ==
    \A j \in Job : CallOf[j] \notin forgot => GoalPlace(j) /\ GuardPlace(j) /\ NamedBegun(j)

(* A step of another job, or of nobody this job depends on, changes nothing  *)
(* of it.                                                                    *)
Untouched(i) ==
    LET c == CallOf[i] IN
    /\ pc'[i] = pc[i] /\ swap'[i] = swap[i]
    /\ kept'[c] = kept[c] /\ base'[c] = base[c] /\ slowId'[c] = slowId[c] /\ latest'[c] = latest[c]
    /\ c \in active' <=> c \in active

GuardUntouched(i) ==
    LET c == CallOf[i] IN
    /\ guard'[c] = guard[c] /\ (up' => up) /\ sock' = sock
    /\ latest[c] \in asked => latest[c] \in asked'

(* The place of a goal depends on nothing else, ...                          *)
LEMMA GoalFrame == ASSUME NEW i \in Job, GoalPlace(i), Untouched(i) PROVE GoalPlace(i)'
  BY DEF GoalPlace, Untouched, Over, Begun, Sequence

(* ... and neither does that of its guard.                                   *)
LEMMA GuardFrame ==
  ASSUME NEW i \in Job, GuardPlace(i), Untouched(i), GuardUntouched(i) PROVE GuardPlace(i)'
  BY DEF GuardPlace, Untouched, GuardUntouched, Over, Begun

(* The steps of a job touch no other call.                                   *)
LEMMA OthersUntouched ==
  ASSUME OneJobPerCall, TypeInv, LatestInv, NEW j \in Job, NEW i \in Job, i # j,
         Arm(j) \/ GiveUp(j) \/ InvokeStep(j)
  PROVE  Untouched(i) /\ GuardUntouched(i)
<1> USE CallAssumption DEF TypeInv
<1>a. CallOf[i] \in Call /\ CallOf[j] \in Call /\ CallOf[i] # CallOf[j]
  BY DEF OneJobPerCall
<1>1. CASE Arm(j)
  BY <1>1, <1>a DEF Arm, Untouched, GuardUntouched, Step, JobType, HistoryType, GuardType,
     ids
<1>2. CASE GiveUp(j) \/ Refuse(j) \/ Answer(j) \/ SendRefused(j)
  BY <1>2, <1>a DEF GiveUp, Refuse, Answer, SendRefused, Untouched, GuardUntouched, Step,
     JobType, HistoryType, Return, ids, hist
<1>3. CASE Resume(j) \/ Fresh(j) \/ Register(j) \/ TakeResult(j)
  BY <1>3, <1>a DEF Resume, Fresh, Register, TakeResult, Untouched, GuardUntouched, Step,
     JobType, HistoryType, ids, hist
<1>4. CASE Record(j)
  BY <1>4, <1>a DEF Record, Untouched, GuardUntouched, Step, JobType, HistoryType, hist
<1>5. CASE Brake(j) \/ SlowDown(j)
  BY <1>5, <1>a DEF Brake, SlowDown, Untouched, GuardUntouched, Step, JobType, HistoryType,
     GuardType, ids, hist
<1>6. CASE BrakeSend(j)
  BY <1>6, <1>a DEF BrakeSend, Untouched, GuardUntouched, Step, JobType, HistoryType, ids
<1>7. CASE SlowSwitch(j)
  BY <1>7, <1>a DEF SlowSwitch, Untouched, GuardUntouched, Step, JobType, HistoryType,
     GuardType, IdType, hist
<1>8. CASE SlowSkip(j)
  BY <1>8, <1>a DEF SlowSkip, Untouched, GuardUntouched, Step, JobType, HistoryType,
     GuardType, ids, hist
<1>9. CASE SlowRollback(j)
  BY <1>9, <1>a DEF SlowRollback, Untouched, GuardUntouched, Step, JobType, HistoryType,
     IdType, hist
<1>10. CASE SlowSend(j)
  BY <1>10, <1>a DEF SlowSend, Untouched, GuardUntouched, Step, JobType, HistoryType, ids
<1>11. CASE Finish(j)
  BY <1>11, <1>a DEF Finish, Untouched, GuardUntouched, Step, JobType, HistoryType, IdType,
     hist
<1>12. CASE Keep(j)
  BY <1>12, <1>a DEF Keep, Untouched, GuardUntouched, Step, JobType, HistoryType, Return,
     ResultType, GuardType, ids, hist
<1>13. CASE Send(j)
  <2>1. latest[CallOf[i]] # <<sock, CallOf[j], 0>>
    <3>1. <<sock, CallOf[j], 0>> \in GoalId
      BY <1>a, BoundAssumption DEF GoalId, LinkInv, LinkType
    <3> QED
      BY <1>a, <3>1 DEF LatestInv
  <2> QED
    BY <1>13, <1>a, <2>1 DEF Send, Untouched, GuardUntouched, Step, JobType, HistoryType,
       ids
<1> QED
  BY <1>1, <1>2, <1>3, <1>4, <1>5, <1>6, <1>7, <1>8, <1>9, <1>10, <1>11, <1>12, <1>13 DEF
     InvokeStep

(* What has begun, or is over, stays so, unless the call is dropped.         *)
LEMMA BegunStays ==
  ASSUME OneJobPerCall, TypeInv, LatestInv, [Next]_vars, NEW i \in Job, CallOf[i] \notin forgot'
  PROVE  (Over(i) => Over(i)') /\ (Begun(i) => Begun(i)') /\ CallOf[i] \notin forgot
<1> USE CallAssumption DEF TypeInv
<1>1. ASSUME NEW j \in Job, Arm(j) \/ GiveUp(j) \/ InvokeStep(j)
      PROVE  (Over(i) => Over(i)') /\ (Begun(i) => Begun(i)') /\ CallOf[i] \notin forgot
  <2>0. CallOf[i] \notin forgot
    BY <1>1 DEF InvokeStep, Arm, GiveUp, Refuse, Answer, Resume, Fresh, Send, SendRefused,
       Record, Register, TakeResult, Brake, BrakeSend, SlowDown, SlowSwitch, SlowSkip,
       SlowSend, SlowRollback, Finish, Keep, hist
  <2>1. CASE i # j
    BY <1>1, <2>0, <2>1, OthersUntouched DEF Untouched, Over, Begun
  <2>2. CASE i = j /\ (Arm(j) \/ GiveUp(j) \/ Refuse(j) \/ Answer(j) \/ Resume(j) \/ Fresh(j)
                       \/ Send(j) \/ SendRefused(j) \/ Record(j) \/ Register(j) \/ TakeResult(j))
    BY <2>0, <2>2 DEF Arm, GiveUp, Refuse, Answer, Resume, Fresh, Send, SendRefused, Record,
       Register, TakeResult, Step, Return, Over, Begun, JobType, ids
  <2>3. CASE i = j /\ (Brake(j) \/ BrakeSend(j) \/ SlowDown(j) \/ SlowSwitch(j) \/ SlowSkip(j)
                       \/ SlowSend(j) \/ SlowRollback(j) \/ Finish(j))
    BY <2>0, <2>3 DEF Brake, BrakeSend, SlowDown, SlowSwitch, SlowSkip, SlowSend,
       SlowRollback,
       Finish, Step, Over, Begun, JobType, ids
  <2>4. CASE i = j /\ Keep(j)
    <3>1. \A o \in Verdicts(status[j], braked[j]) : o # "none"
      BY DEF Verdicts
    <3> QED
      BY <2>0, <2>4, <3>1 DEF Keep, Step, Return, Over, Begun, JobType, ResultType
  <2> QED
    BY <1>1, <2>1, <2>2, <2>3, <2>4 DEF InvokeStep
<1>2. ASSUME NEW k \in Withdrawer, NEW c \in Call, Cancel(k, c)
      PROVE  (Over(i) => Over(i)') /\ (Begun(i) => Begun(i)') /\ CallOf[i] \notin forgot
  BY <1>2 DEF Cancel, Over, Begun, ids, jobs, hist
<1>3. ASSUME NEW k \in Withdrawer, CancelStep(k) \/ StopBegin(k) \/ StopStep(k)
      PROVE  (Over(i) => Over(i)') /\ (Begun(i) => Begun(i)') /\ CallOf[i] \notin forgot
  <2>1. CASE CancelSend(k) \/ CancelRaises(k) \/ CancelConfirmed(k) \/ CancelUnconfirmed(k)
    BY <2>1 DEF CancelSend, CancelRaises, CancelConfirmed, CancelUnconfirmed, Over, Begun,
       ids, jobs, hist
  <2>2. CASE CancelDrop(k) \/ StopPop(k)
    BY <2>2 DEF CancelDrop, StopPop, Over, Begun, jobs
  <2>3. CASE CancelKeep(k)
    BY <2>3 DEF CancelKeep, Over, Begun, ResultType, ids, jobs, hist
  <2>4. CASE StopBegin(k) \/ StopEach(k) \/ StopEnd(k)
    BY <2>4 DEF StopBegin, StopEach, StopEnd, Over, Begun, ids, jobs, hist
  <2> QED
    BY <1>3, <2>1, <2>2, <2>3, <2>4 DEF CancelStep, StopStep
<1>4. ASSUME NEW c \in Call, GuardTrips(c) \/ GuardSlows(c)
      PROVE  (Over(i) => Over(i)') /\ (Begun(i) => Begun(i)') /\ CallOf[i] \notin forgot
  BY <1>4 DEF GuardTrips, GuardSlows, Over, Begun, ids, jobs, hist
<1>5. CASE ReadResult \/ LinkDrops \/ ReopenClears \/ ReopenConnects
  BY <1>5 DEF ReadResult, LinkDrops, ReopenClears, ReopenConnects, Over, Begun, ids, jobs,
     hist
<1>6. CASE RobotStep \/ (\E g \in GoalId : RobotEnds(g)) \/ UNCHANGED vars
  BY <1>6 DEF RobotStep, RobotStarts, RobotPreempts, RobotCancels, RobotEnds, Host, Over,
     Begun, jobs, hist, vars
<1> QED
  BY <1>1, <1>2, <1>3, <1>4, <1>5, <1>6 DEF Next

(* The steps of a job keep its own place ...                                 *)
LEMMA OwnStep ==
  ASSUME OneJobPerCall, TypeInv, LatestInv, NEW j \in Job, GoalPlace(j), GuardPlace(j),
         Arm(j) \/ GiveUp(j) \/ InvokeStep(j)
  PROVE  GoalPlace(j)' /\ GuardPlace(j)'
<1> USE CallAssumption DEF TypeInv
<1>a. CallOf[j] \in Call
  OBVIOUS
<1>1. CASE Arm(j)
  BY <1>1, <1>a DEF Arm, GoalPlace, GuardPlace, Over, Begun, Sequence, Step, JobType,
     HistoryType, NewGuard, GuardType, Guard, ids
<1>2. CASE GiveUp(j)
  BY <1>2, <1>a DEF GiveUp, GoalPlace, GuardPlace, Over, Begun, Sequence, Step, JobType,
     HistoryType, Return, ids, hist
<1>3. CASE Refuse(j)
  BY <1>3, <1>a DEF Refuse, GoalPlace, GuardPlace, Over, Begun, Sequence, Step, JobType,
     HistoryType, Return, ids, hist
<1>4. CASE Answer(j)
  BY <1>4, <1>a DEF Answer, GoalPlace, GuardPlace, Over, Begun, Sequence, Step, JobType,
     HistoryType, Return, ids, hist
<1>5. CASE Resume(j)
  BY <1>5, <1>a DEF Resume, GoalPlace, GuardPlace, Over, Begun, Sequence, Step, JobType,
     HistoryType, ids, hist
<1>6. CASE Fresh(j)
  BY <1>6, <1>a DEF Fresh, GoalPlace, GuardPlace, Over, Begun, Sequence, Step, JobType,
     HistoryType, ids, hist
<1>7. CASE Send(j)
  <2>1. <<sock, CallOf[j], 0>> \in GoalId
    BY BoundAssumption DEF GoalId, LinkInv, LinkType, JobType
  <2> QED
    BY <1>7, <1>a, <2>1 DEF Send, GoalPlace, GuardPlace, Over, Begun, Sequence, Step,
       JobType, HistoryType, ids
<1>8. CASE SendRefused(j)
  BY <1>8, <1>a DEF SendRefused, GoalPlace, GuardPlace, Over, Begun, Sequence, Step,
     JobType, HistoryType, Return, ids, hist
<1>9. CASE Record(j)
  BY <1>9, <1>a DEF Record, GoalPlace, GuardPlace, Over, Begun, Sequence, Step, JobType,
     HistoryType, hist
<1>10. CASE Register(j)
  BY <1>10, <1>a DEF Register, GoalPlace, GuardPlace, Over, Begun, Sequence, Step, JobType,
     HistoryType, ids, hist
<1>11. CASE TakeResult(j)
  BY <1>11, <1>a DEF TakeResult, GoalPlace, GuardPlace, Over, Begun, Sequence, Step,
     JobType, HistoryType, ids, hist
<1>12. CASE Brake(j)
  BY <1>12, <1>a DEF Brake, GoalPlace, GuardPlace, Over, Begun, Sequence, Step, JobType,
     HistoryType, GuardType, Guard, ids, hist
<1>13. CASE BrakeSend(j)
  <2>1. pc[j] = "brake" /\ pc' = [pc EXCEPT ![j] = "wait"] /\ CallOf[j] \in active
        /\ UNCHANGED <<kept, base, slowId, latest, active, swap, guard, up, sock>>
    BY <1>13 DEF BrakeSend, Step, GoalPlace, ids
  <2>2. up /\ latest[CallOf[j]][1] = sock => latest[CallOf[j]] \in asked'
    <3>1. latest[CallOf[j]] \in GoalId /\ latest[CallOf[j]][2] = CallOf[j]
          /\ latest[CallOf[j]][3] = slowId[CallOf[j]]
      BY <1>a, <2>1 DEF GoalPlace, Sequence, LatestInv
    <3>2. latest[CallOf[j]][1] = sock => latest[CallOf[j]] = Goal(CallOf[j])
      BY <3>1 DEF Goal, GoalId
    <3> QED
      BY <1>13, <2>1, <3>2 DEF BrakeSend
  <2> QED
    BY <2>1, <2>2 DEF GoalPlace, GuardPlace, Over, Begun, Sequence, JobType
<1>14. CASE SlowDown(j)
  BY <1>14, <1>a DEF SlowDown, GoalPlace, GuardPlace, Over, Begun, Sequence, Step, JobType,
     HistoryType, ids, hist
<1>15. CASE SlowSwitch(j)
  BY <1>15, <1>a DEF SlowSwitch, GoalPlace, GuardPlace, Over, Begun, Sequence, Step,
     JobType, HistoryType, GuardType, Guard, IdType, hist
<1>16. CASE SlowSkip(j)
  BY <1>16, <1>a DEF SlowSkip, GoalPlace, GuardPlace, Over, Begun, Sequence, Step, JobType,
     HistoryType, GuardType, Guard, ids, hist
<1>17. CASE SlowSend(j)
  <2>1. <<sock, CallOf[j], swap[j][2]>> \in GoalId
    BY BoundAssumption DEF GoalId, LinkInv, LinkType, JobType
  <2> QED
    BY <1>17, <1>a, <2>1 DEF SlowSend, GoalPlace, GuardPlace, Over, Begun, Sequence, Step,
       JobType, HistoryType, ids
<1>18. CASE SlowRollback(j)
  BY <1>18, <1>a DEF SlowRollback, GoalPlace, GuardPlace, Over, Begun, Sequence, Step,
     JobType, HistoryType, IdType, hist
<1>19. CASE Finish(j)
  BY <1>19, <1>a DEF Finish, GoalPlace, GuardPlace, Over, Begun, Sequence, Step, JobType,
     HistoryType, IdType, hist
<1>20. CASE Keep(j)
  BY <1>20, <1>a DEF Keep, GoalPlace, GuardPlace, Over, Begun, Sequence, Step, JobType,
     HistoryType, NoGuard, GuardType, ResultType, Return, Verdicts, ids, hist
<1> QED
  BY <1>1, <1>2, <1>3, <1>4, <1>5, <1>6, <1>7, <1>8, <1>9, <1>10, <1>11, <1>12, <1>13,
     <1>14, <1>15, <1>16, <1>17, <1>18, <1>19, <1>20 DEF InvokeStep

(* ... and so does every other step.                                         *)
LEMMA DrivePlaceStep ==
  ASSUME OneJobPerCall, TypeInv, LatestInv, DriveInv, [Next]_vars
  PROVE  DriveInv'
<1> USE CallAssumption DEF TypeInv
<1> SUFFICES ASSUME NEW i \in Job, CallOf[i] \notin forgot'
             PROVE  GoalPlace(i)' /\ GuardPlace(i)' /\ NamedBegun(i)'
  BY DEF DriveInv
<1>a. GoalPlace(i) /\ GuardPlace(i) /\ NamedBegun(i) /\ CallOf[i] \in Call
  BY BegunStays DEF DriveInv
<1>b. (Over(i) => Over(i)') /\ (Begun(i) => Begun(i)')
  BY BegunStays
<1>1. ASSUME NEW j \in Job, Arm(j) \/ GiveUp(j) \/ InvokeStep(j)
      PROVE  GoalPlace(i)' /\ GuardPlace(i)' /\ NamedBegun(i)'
  <2>1. GoalPlace(i)' /\ GuardPlace(i)'
    BY <1>1, <1>a, OthersUntouched, OwnStep, GoalFrame, GuardFrame
  <2>2. UNCHANGED withs
    BY <1>1 DEF InvokeStep, Arm, GiveUp, Refuse, Answer, Resume, Fresh, Send, SendRefused,
       Record, Register, TakeResult, Brake, BrakeSend, SlowDown, SlowSwitch, SlowSkip,
       SlowSend, SlowRollback, Finish, Keep
  <2> QED
    BY <1>a, <1>b, <2>1, <2>2 DEF NamedBegun, withs
<1>2. ASSUME NEW k \in Withdrawer, NEW c \in Call, Cancel(k, c)
      PROVE  GoalPlace(i)' /\ GuardPlace(i)' /\ NamedBegun(i)'
  <2>1. Untouched(i) /\ GuardUntouched(i)
    BY <1>2 DEF Cancel, Untouched, GuardUntouched, ids, jobs, hist
  <2>2. NamedBegun(i)'
    BY <1>2, <1>a, <1>b DEF Cancel, CancelEnds, NamedBegun, Begun, WStep, WithdrawInv,
       WithdrawType
  <2> QED
    BY <1>a, <2>1, <2>2, GoalFrame, GuardFrame
<1>3. ASSUME NEW k \in Withdrawer, CancelSend(k)
      PROVE  GoalPlace(i)' /\ GuardPlace(i)' /\ NamedBegun(i)'
  <2>1. Untouched(i) /\ GuardUntouched(i)
    BY <1>3 DEF CancelSend, Untouched, GuardUntouched, ids, jobs
  <2>2. NamedBegun(i)'
    BY <1>3, <1>a, <1>b DEF CancelSend, NamedBegun, WStep, WithdrawInv, WithdrawType
  <2> QED
    BY <1>a, <2>1, <2>2, GoalFrame, GuardFrame
<1>4. ASSUME NEW k \in Withdrawer, CancelRaises(k) \/ CancelConfirmed(k) \/ CancelUnconfirmed(k)
      PROVE  GoalPlace(i)' /\ GuardPlace(i)' /\ NamedBegun(i)'
  <2>1. Untouched(i) /\ GuardUntouched(i)
    BY <1>4 DEF CancelRaises, CancelConfirmed, CancelUnconfirmed, Untouched, GuardUntouched,
       ids, jobs, hist
  <2>2. NamedBegun(i)'
    BY <1>4, <1>a, <1>b DEF CancelRaises, CancelConfirmed, CancelUnconfirmed, CancelEnds,
       NamedBegun, WStep, WithdrawInv, WithdrawType
  <2> QED
    BY <1>a, <2>1, <2>2, GoalFrame, GuardFrame
<1>5. ASSUME NEW k \in Withdrawer, CancelDrop(k)
      PROVE  GoalPlace(i)' /\ GuardPlace(i)' /\ NamedBegun(i)'
  <2>1. wcall[k] = CallOf[i] => CallOf[i] \notin active /\ Over(i)
    BY <1>5, <1>a DEF CancelDrop, WStep, NamedBegun, Begun
  <2>2. Untouched(i) /\ GuardUntouched(i)
    BY <1>5, <2>1 DEF CancelDrop, Untouched, GuardUntouched, jobs
  <2>3. NamedBegun(i)'
    BY <1>5, <1>a, <1>b, <2>1 DEF CancelDrop, NamedBegun, WStep, WithdrawInv, WithdrawType
  <2> QED
    BY <1>a, <2>2, <2>3, GoalFrame, GuardFrame
<1>6. ASSUME NEW k \in Withdrawer, CancelKeep(k)
      PROVE  GoalPlace(i)' /\ GuardPlace(i)' /\ NamedBegun(i)'
  <2>1. NamedBegun(i)'
    BY <1>6, <1>a, <1>b DEF CancelKeep, CancelEnds, NamedBegun, Begun, WStep, WithdrawInv,
       WithdrawType
  <2>2. CASE wcall[k] # CallOf[i]
    <3>1. Untouched(i) /\ GuardUntouched(i)
      BY <1>6, <1>a, <2>2 DEF CancelKeep, Untouched, GuardUntouched, ResultType, GuardType,
         ids,
         jobs, hist
    <3> QED
      BY <1>a, <2>1, <3>1, GoalFrame, GuardFrame
  <2>3. CASE wcall[k] = CallOf[i]
    <3>1. Over(i)
      BY <1>6, <1>a, <2>3 DEF CancelKeep, CancelEnds, WStep, NamedBegun
    <3>2. /\ UNCHANGED <<pc, swap, base, slowId, latest, active>>
          /\ kept'[CallOf[i]] = "cancelled" /\ guard'[CallOf[i]] = NoGuard
      BY <1>6, <1>a, <2>3 DEF CancelKeep, ResultType, GuardType, ids, jobs, hist
    <3>3. GoalPlace(i)'
      BY <1>a, <3>1, <3>2 DEF GoalPlace, Over, Begun, Sequence
    <3>4. GuardPlace(i)'
      BY <3>2 DEF GuardPlace, NoGuard
    <3> QED
      BY <2>1, <3>3, <3>4
  <2> QED
    BY <2>2, <2>3
<1>7. ASSUME NEW k \in Withdrawer, StopBegin(k) \/ StopEach(k) \/ StopEnd(k)
      PROVE  GoalPlace(i)' /\ GuardPlace(i)' /\ NamedBegun(i)'
  <2>1. Untouched(i) /\ GuardUntouched(i)
    BY <1>7 DEF StopBegin, StopEach, StopEnd, Untouched, GuardUntouched, ids, jobs, hist
  <2>2. NamedBegun(i)'
    BY <1>7, <1>a, <1>b DEF StopBegin, StopEach, StopEnd, Begun, ids, NamedBegun, WStep,
       WithdrawInv, WithdrawType
  <2> QED
    BY <1>a, <2>1, <2>2, GoalFrame, GuardFrame
<1>8. ASSUME NEW k \in Withdrawer, StopPop(k)
      PROVE  GoalPlace(i)' /\ GuardPlace(i)' /\ NamedBegun(i)'
  <2>1. wcall[k] = CallOf[i] => CallOf[i] \notin active /\ Over(i)
    BY <1>8, <1>a DEF StopPop, WStep, NamedBegun, Begun
  <2>2. Untouched(i)
    BY <1>8, <2>1 DEF StopPop, Untouched, jobs
  <2>3. NamedBegun(i)'
    BY <1>8, <1>a, <1>b DEF StopPop, NamedBegun, WStep, WithdrawInv, WithdrawType
  <2>4. GuardPlace(i)'
    <3>1. CASE wcall[k] # CallOf[i]
      <4>1. GuardUntouched(i)
        BY <1>8, <1>a, <3>1 DEF StopPop, GuardUntouched, GuardType
      <4> QED
        BY <1>a, <2>2, <4>1, GuardFrame
    <3>2. CASE wcall[k] = CallOf[i]
      <4>1. guard'[CallOf[i]] = NoGuard /\ UNCHANGED <<pc, kept>> /\ CallOf[i] \notin active'
        BY <1>8, <1>a, <2>1, <3>2 DEF StopPop, GuardType, jobs
      <4> QED
        BY <2>1, <3>2, <4>1 DEF GuardPlace, NoGuard, Over
    <3> QED
      BY <3>1, <3>2
  <2> QED
    BY <1>a, <2>2, <2>3, <2>4, GoalFrame
<1>9. ASSUME NEW c \in Call, GuardTrips(c) \/ GuardSlows(c)
      PROVE  GoalPlace(i)' /\ GuardPlace(i)' /\ NamedBegun(i)'
  <2>1. Untouched(i) /\ UNCHANGED <<up, sock, asked, withs>>
    BY <1>9 DEF GuardTrips, GuardSlows, Untouched, ids, jobs, hist
  <2>2. /\ guard'[CallOf[i]].on = guard[CallOf[i]].on
        /\ guard'[CallOf[i]].sent = guard[CallOf[i]].sent
        /\ guard[CallOf[i]].tripped => guard'[CallOf[i]].tripped
    BY <1>9, <1>a DEF GuardTrips, GuardSlows, GuardType, Guard
  <2>3. GuardPlace(i)'
    BY <1>a, <2>1, <2>2 DEF GuardPlace, Untouched, Over, Begun
  <2> QED
    BY <1>a, <1>b, <2>1, <2>3, GoalFrame DEF NamedBegun, withs
<1>10. CASE ReadResult \/ LinkDrops
  <2>1. Untouched(i) /\ GuardUntouched(i) /\ UNCHANGED withs
    BY <1>10 DEF ReadResult, LinkDrops, Untouched, GuardUntouched, ids, jobs, withs, hist
  <2> QED
    BY <1>a, <1>b, <2>1, GoalFrame, GuardFrame DEF NamedBegun, withs
<1>11. CASE RobotStep \/ (\E g \in GoalId : RobotEnds(g)) \/ UNCHANGED vars
  <2>1. Untouched(i) /\ GuardUntouched(i) /\ UNCHANGED withs
    BY <1>11 DEF RobotStep, RobotStarts, RobotPreempts, RobotCancels, RobotEnds, Host,
       Untouched, GuardUntouched, jobs, withs, hist, vars
  <2> QED
    BY <1>a, <1>b, <2>1, GoalFrame, GuardFrame DEF NamedBegun, withs
<1>12. CASE ReopenClears
  <2>1. /\ UNCHANGED <<pc, swap, kept, base, latest, guard, withs>> /\ CallOf[i] \notin active
        /\ CallOf[i] \notin active' /\ slowId'[CallOf[i]] = 0
    BY <1>12, <1>a DEF ReopenClears, jobs
  <2>2. GoalPlace(i)'
    BY <1>a, <2>1 DEF GoalPlace, Over, Begun, Sequence
  <2>3. GuardPlace(i)'
    BY <1>a, <2>1 DEF GuardPlace, Over, Begun
  <2> QED
    BY <1>a, <1>b, <2>1, <2>2, <2>3 DEF NamedBegun, withs
<1>13. CASE ReopenConnects
  <2>1. /\ UNCHANGED <<pc, swap, kept, base, latest, guard, withs, active, slowId>>
        /\ sock' = sock + 1 /\ sock \in Int
    BY <1>13 DEF ReopenConnects, jobs, ids, LinkInv, LinkType
  <2>2. Untouched(i)
    BY <2>1 DEF Untouched
  <2>3. CallOf[i] \in active => latest[CallOf[i]][1] <= sock /\ latest[CallOf[i]][1] \in Int
    BY <1>a DEF LatestInv, GoalPlace, GoalId
  <2>4. GuardPlace(i)'
    BY <1>a, <2>1, <2>3 DEF GuardPlace, Over, Begun
  <2> QED
    BY <1>a, <1>b, <2>1, <2>2, <2>4, GoalFrame DEF NamedBegun, withs
<1> QED
  BY <1>1, <1>2, <1>3, <1>4, <1>5, <1>6, <1>7, <1>8, <1>9, <1>10, <1>11, <1>12, <1>13 DEF
     Next, CancelStep, StopStep

(* At the beginning nothing was sent.                                        *)
LEMMA DriveInit == Init => DriveInv
<1> SUFFICES ASSUME Init, NEW j \in Job PROVE GoalPlace(j) /\ GuardPlace(j) /\ NamedBegun(j)
  BY DEF DriveInv
<1> QED
  BY CallAssumption DEF Init, GoalPlace, GuardPlace, NamedBegun, Over, Begun, Sequence,
     NoGuard

(* The three parts of the property follow from the places.                   *)
LEMMA DriveHolds == TypeInv /\ LatestInv /\ DriveInv => DriveIsInHand
<1> SUFFICES ASSUME TypeInv, LatestInv, DriveInv, NEW j \in Job, CallOf[j] \notin forgot,
                    CallOf[j] \in active
             PROVE  /\ pc[j] = "wait" /\ up /\ latest[CallOf[j]][1] = sock
                         => Goal(CallOf[j]) = latest[CallOf[j]]
                    /\ pc[j] = "wait" /\ up /\ latest[CallOf[j]][1] = sock
                         /\ guard[CallOf[j]].tripped /\ guard[CallOf[j]].sent
                         => latest[CallOf[j]] \in asked
                    /\ pc[j] \in {"register", "wait"} /\ CallOf[j] \in Guarded
                         => guard[CallOf[j]].on
  BY DEF DriveIsInHand, GuardIsKept, TrippedDriveWasCancelled, WatchedWhileActive,
     CancelReachesTheLatestGoal
<1>1. GoalPlace(j) /\ GuardPlace(j) /\ CallOf[j] \in Call
  BY CallAssumption DEF DriveInv
<1>2. kept[CallOf[j]] = "none" /\ latest[CallOf[j]] \in GoalId /\ latest[CallOf[j]][2] = CallOf[j]
  BY <1>1 DEF GoalPlace, Over, LatestInv
<1>3. ASSUME pc[j] = "wait", latest[CallOf[j]][1] = sock
      PROVE  Goal(CallOf[j]) = latest[CallOf[j]]
  <2>1. latest[CallOf[j]][3] = slowId[CallOf[j]]
    BY <1>1, <1>3 DEF GoalPlace, Sequence
  <2> QED
    BY <1>2, <1>3, <2>1 DEF Goal, GoalId
<1> QED
  BY <1>1, <1>2, <1>3 DEF GuardPlace

(* A drive stays under control until its call is dropped: it is watched, its *)
(* guard's stop reached it, and whoever cancels the call addresses the goal  *)
(* that drives.                                                              *)
THEOREM DriveControl ==
  ASSUME OneJobPerCall
  PROVE  Spec => []DriveIsInHand
<1>1. TypeInv /\ LatestInv /\ [Next]_vars => LatestInv'
  BY LatestStep
<1>2. TypeInv /\ LatestInv /\ DriveInv /\ [Next]_vars => DriveInv'
  BY DrivePlaceStep
<1> QED
  BY <1>1, <1>2, TypeInit, TypeStep, StopInit, DriveInit, DriveHolds, PTL DEF Spec

-----------------------------------------------------------------------------
(* Drives over rclpy. The threads that invoke, cancel and stop share the     *)
(* handles and futures without a lock, so the invariant says what each of    *)
(* them may find there: whose goal a kept handle is, and what a withdrawal   *)
(* that is under way has asked for.                                          *)

Run == 0..MaxRuns
Fate == {"none", "sent", "rejected", "running", "canceling", "succeeded", "canceled", "aborted"}
UnderWay == {"running", "canceling"}
Final == {"succeeded", "aborted", "canceled"}
Verdict == {"completed", "failed", "cancelled"}

\* Where an invoke() has a goal, and a withdrawal a call to forget.
Followed == {"request", "fetch", "wait", "brake", "drop", "keep"}
Withdraw == {"await", "forget", "keep", "drop"}

(* What the variables can be.                                                *)
SentType ==
    /\ reconnects \in Nat
    /\ issued \in [Drive -> Run] /\ fate \in [RclpyGoal -> Fate]
    /\ ended \in [RclpyGoal -> {0, 4, 5, 6}] /\ admitted \subseteq RclpyGoal
    /\ handle \in [Drive -> Run] /\ future \in [Drive -> Run]
    /\ watch \in [Drive -> [on : BOOLEAN, tripped : BOOLEAN, sent : BOOLEAN]]
    /\ runs \in [Drive -> Run] /\ mine \in [Drive -> Run]

PlaceType ==
    /\ results \in [Drive -> {"none"} \cup Verdict]
    /\ judged \in [Drive -> {"none"} \cup Verdict]
    /\ at \in [Drive -> Returned \cup {"look", "issue", "accepting"} \cup Followed]
    /\ \A d \in Drive : at[d] \in {"drop", "keep"} => judged[d] # "none"

HaltType ==
    /\ stopping \in [Withdrawers -> BOOLEAN]
    /\ rat \in [Withdrawers ->
                  Withdraw \cup {"idle", "refused", "failed", "cancelled", "each", "stopped"}]
    /\ revoked \in [Withdrawers -> {<<>>} \cup (Drive \X Run)]
    /\ \A k \in Withdrawers : rat[k] \in Withdraw => revoked[k] \in Drive \X Run
    /\ left \in [Withdrawers -> SUBSET Drive]
    /\ verdict \in [Withdrawers -> {"none", "canceling", "no"}]

AskedType ==
    requests \subseteq (Drive \cup Withdrawers) \X RclpyGoal /\ askedOf \subseteq RclpyGoal

PastType == unfollowed \subseteq RclpyGoal /\ overtaken \subseteq RclpyGoal

RclpyTypeOK == SentType /\ PlaceType /\ HaltType /\ AskedType /\ PastType

(* A drive's goals are numbered in order, at most one per invoke().          *)
NumbersOf(d) ==
    /\ mine[d] = issued[d] /\ issued[d] <= runs[d]
    /\ at[d] \in {"look", "issue"} => issued[d] < runs[d]
    /\ at[d] \in {"accepting"} \cup Followed => issued[d] # 0
    /\ \A m \in 1..MaxRuns : fate[<<d, m>>] = "none" <=> m > issued[d]

NumbersAgree == \A d \in Drive : NumbersOf(d)

(* A handle is of the latest goal, which was accepted; the future beside it  *)
(* is of the same goal, but between the two assignments of invoke().         *)
HandleOf(d) ==
    /\ handle[d] \in {0, issued[d]}
    /\ at[d] \in {"issue", "accepting"} => handle[d] = 0
    /\ at[d] # "request" => handle[d] \in {0, future[d]}
    /\ at[d] \in {"fetch", "wait", "brake", "drop"} => future[d] \in {0, issued[d]}
    /\ handle[d] # 0 \/ at[d] \in Followed
       => <<d, issued[d]>> \in admitted /\ fate[<<d, issued[d]>>] # "rejected"

HandlesAgree == \A d \in Drive : HandleOf(d)

(* Nobody has an answer to a goal its server has not taken.                  *)
Awaited(g) ==
    /\ g \in admitted => fate[g] \notin {"none", "sent"}
    /\ fate[g] = "sent" => (at[g[1]] = "accepting" /\ mine[g[1]] = g[2]) \/ g \in unfollowed

SentIsAwaited == \A g \in RclpyGoal : Awaited(g)

(* A result is told once the goal is over, and is what ended it.             *)
EndedIsOver ==
    /\ \A g \in RclpyGoal :
          /\ ended[g] # 0 => fate[g] \in {"succeeded", "canceled", "aborted"}
          /\ ended[g] = 5 => fate[g] = "canceled"
    /\ \A d \in Drive : at[d] \in {"drop", "keep"} => ended[<<d, mine[d]>>] # 0

(* The server drives one goal. One that outlasts a later goal of its drive   *)
(* was taken after that goal was: nobody had waited for its acceptance.      *)
Preempts(d, m, n) ==
    fate[<<d, m>>] = "running" /\ m < n /\ fate[<<d, n>>] \notin {"none", "sent", "rejected"}
    => <<d, m>> \in unfollowed

OneRuns ==
    /\ \A g, h \in RclpyGoal : fate[g] \in UnderWay /\ fate[h] \in UnderWay => g = h
    /\ \A d \in Drive : \A m, n \in 1..MaxRuns : Preempts(d, m, n)

(* A goal sent while its call is withdrawn is an overtaken one, and a call   *)
(* gets a result before its goal is sent only by a withdrawal.               *)
CrossingOf(d) ==
    /\ Withdrawing(d) /\ at[d] = "accepting" => <<d, mine[d]>> \in overtaken
    /\ at[d] = "issue" /\ results[d] # "none" => d \in crossed

CrossingsAreKnown == \A d \in Drive : CrossingOf(d)

(* A withdrawal that is about to forget a call asked for the cancel of the   *)
(* goal that is held for it by now, or that goal is over, or an overtaken.   *)
AskedFor(d) ==
    handle[d] # 0
    => <<d, handle[d]>> \in askedOf \cup overtaken \/ ended[<<d, handle[d]>>] # 0

WithdrawnIsAsked == \A k \in Withdrawers : rat[k] \in Withdraw => AskedFor(revoked[k][1])

(* Before a call is told cancelled no goal of it drives, and none can.       *)
Gone(d) ==
    \A m \in 1..MaxRuns :
        fate[<<d, m>>] \in {"sent", "running"}
        => <<d, m>> \in unfollowed \cup overtaken \cup dropped

Confirmed(k) == rat[k] \in {"forget", "keep"} \/ (rat[k] = "await" /\ verdict[k] = "canceling")

CancelledIsGone ==
    /\ \A d \in Drive : results[d] = "cancelled" => Gone(d)
    /\ \A k \in Withdrawers : Confirmed(k) => Gone(revoked[k][1])

(* A guard is on from before its goal is sent until the goal is forgotten,   *)
(* and one that has acted asked for the goal that is held.                   *)
WatchOf(d) ==
    /\ at[d] \in Followed \ {"keep"} /\ handle[d] = 0 => ~watch[d].on
    /\ watch[d].sent
       => watch[d].on /\ handle[d] # 0 /\ (at[d] = "brake" \/ <<d, handle[d]>> \in askedOf)
    /\ d \in Watched =>
       /\ handle[d] # 0 => watch[d].on \/ <<d, handle[d]>> \in overtaken
       /\ at[d] = "accepting" => watch[d].on \/ <<d, mine[d]>> \in overtaken
       /\ at[d] = "issue" \/ (at[d] = "look" /\ results[d] = "none")
          => watch[d].on \/ d \in crossed

WatchesFollow == reconnects = 0 => \A d \in Drive : WatchOf(d)

Driven(g) ==
    fate[g] = "running" /\ g \notin unfollowed \cup overtaken => InHand(g) \/ g \in askedOf

HoldInv ==
    /\ RclpyTypeOK /\ NumbersAgree /\ HandlesAgree /\ SentIsAwaited /\ EndedIsOver /\ OneRuns
    /\ CrossingsAreKnown /\ WithdrawnIsAsked /\ CancelledIsGone /\ WatchesFollow
    /\ DrivingIsInHand

(* What the steps amount to, by the invariant.                               *)
Elsewhere == UNCHANGED <<linkState, goalState, requests, watch, runs, mine, haltState, pastState>>

Looks(d, p) ==
    /\ Goes(d, "look", p)
    /\ p = "fetch" => handle[d] # 0
    /\ p = "issue" => results[d] = "none" /\ handle[d] = 0
    /\ UNCHANGED <<heldState, results, judged>> /\ Elsewhere

Issues(d, g) ==
    /\ Goes(d, "issue", "accepting")
    /\ g = <<d, issued[d] + 1>> /\ g \in RclpyGoal /\ issued[d] < runs[d]
    /\ fate[g] = "none" /\ fate'[g] = "sent" /\ fate' \in [RclpyGoal -> Fate]
    /\ \A h \in RclpyGoal \ {g} : fate'[h] = fate[h]
    /\ issued' = [issued EXCEPT ![d] = @ + 1] /\ mine' = [mine EXCEPT ![d] = issued[d] + 1]
    /\ overtaken' \in SUBSET RclpyGoal /\ overtaken \subseteq overtaken'
    /\ Withdrawing(d) \/ results[d] # "none" \/ d \in crossed => g \in overtaken'
    /\ UNCHANGED <<linkState, admitted, ended, requests, heldState, watch, results, runs, judged,
                   haltState, askedOf, unfollowed, dropped, crossed>>

Holds(d) ==
    /\ Goes(d, "accepting", "request")
    /\ issued[d] # 0 /\ <<d, issued[d]>> \in admitted /\ fate[<<d, issued[d]>>] # "rejected"
    /\ handle' = [handle EXCEPT ![d] = issued[d]]
    /\ UNCHANGED <<future, results, judged>> /\ Elsewhere

Fetches(d, p) ==
    /\ Goes(d, "fetch", p)
    /\ UNCHANGED <<heldState, results, judged>> /\ Elsewhere

Keeps(d, p) ==
    /\ Goes(d, "keep", p)
    /\ judged[d] = p
    /\ results' = [results EXCEPT ![d] = p] /\ judged' = [judged EXCEPT ![d] = "none"]
    /\ UNCHANGED heldState /\ Elsewhere

\* The server takes up what was sent and ends what it took up, once.
FateGoesOn(h) ==
    /\ fate'[h] = "none" <=> fate[h] = "none"
    /\ fate'[h] = "sent" => fate[h] = "sent"
    /\ fate'[h] = "running" => fate[h] \in {"sent", "running"}
    /\ fate'[h] = "rejected" => fate[h] \in {"sent", "rejected"}
    /\ fate[h] \notin {"none", "sent"} => fate'[h] \notin {"none", "sent"}
    /\ fate[h] \in {"succeeded", "canceled", "aborted"} => fate'[h] = fate[h]

\* One goal's fate moves from f to e; what was under way may be preempted.
Moves(g, f, e) ==
    /\ fate[g] = f /\ fate'[g] = e
    /\ fate' \in [RclpyGoal -> Fate] /\ \A h \in RclpyGoal : FateGoesOn(h)
    /\ \A h \in RclpyGoal \ {g} :
          fate'[h] = fate[h] \/ (fate[h] \in {"running", "canceling"} /\ fate'[h] = "aborted")
    /\ UNCHANGED <<linkState, issued, admitted, ended, heldState, watch, results, runState, rat,
                   stopping, revoked, left, pastState>>

Takes(g, e) ==
    /\ Moves(g, "sent", e) /\ UNCHANGED <<requests, verdict>>
    /\ e = "running" => \A h \in RclpyGoal \ {g} : fate'[h] \notin {"running", "canceling"}

Ends(g, f, e) ==
    /\ Moves(g, f, e) /\ UNCHANGED <<requests, verdict>>
    /\ \A h \in RclpyGoal \ {g} : fate'[h] = fate[h]

Cancels(who, g, f) ==
    /\ Moves(g, f, IF f = "running" THEN "canceling" ELSE f)
    /\ \A h \in RclpyGoal \ {g} : fate'[h] = fate[h]
    /\ requests' \subseteq requests
    /\ \/ UNCHANGED verdict
       \/ /\ who \in Withdrawers /\ rat[who] = "await" /\ revoked[who] = g
          /\ verdict' = [verdict EXCEPT ![who] = IF f = "running" THEN "canceling" ELSE "no"]

Forms ==
    \/ \E d \in Drive :
          \/ RclpyArm(d) \/ NoServer(d) \/ AcceptanceLapses(d) \/ Rejected(d)
          \/ Holds(d) \/ HoldFuture(d) \/ DeadlinePasses(d) \/ TripSeen(d) \/ TripCancels(d)
          \/ Conclude(d) \/ DropGoal(d) \/ WatchTrips(d)
          \/ \E g \in RclpyGoal : Issues(d, g)
          \/ \E p \in Returned \cup {"fetch", "issue"} : Looks(d, p)
          \/ \E p \in {"raised", "wait"} : Fetches(d, p)
          \/ \E p \in Verdict : Keeps(d, p)
    \/ \E k \in Withdrawers : HaltStep(k)
    \/ \E g \in RclpyGoal :
          \/ Admit(g) \/ Resolve(g)
          \/ \E e \in {"running", "rejected"} : Takes(g, e)
          \/ \E f \in {"running", "canceling"}, e \in Final : Ends(g, f, e)
          \/ \E who \in Drive \cup Withdrawers, f \in Fate : Cancels(who, g, f)
    \/ ExecutorEnds \/ ReconnectClears \/ ReconnectStarts

(* An invoke() is refused, answered, resumed or goes on to send a goal.      *)
LEMMA LookForm ==
  ASSUME HoldInv, NEW d \in Drive, LookUp(d)
  PROVE  \E p \in Returned \cup {"fetch", "issue"} : Looks(d, p)
<1> USE DEF Looks, LookUp, Goes, Elsewhere
<1>1. results[d] \in {"none"} \cup Verdict
  BY DEF HoldInv, RclpyTypeOK, PlaceType
<1>2. CASE ~linked
  <2>1. Looks(d, "refused")
    BY <1>2
  <2> QED
    BY <2>1 DEF Returned
<1>3. CASE linked /\ results[d] # "none"
  <2>1. Looks(d, results[d]) /\ results[d] \in Returned
    BY <1>1, <1>3 DEF Verdict, Returned
  <2> QED
    BY ONLY <2>1
<1>4. CASE linked /\ results[d] = "none" /\ handle[d] # 0
  <2>1. Looks(d, "fetch")
    BY <1>4
  <2> QED
    BY ONLY <2>1
<1>5. CASE linked /\ results[d] = "none" /\ handle[d] = 0
  <2>1. Looks(d, "issue")
    BY <1>5
  <2> QED
    BY ONLY <2>1
<1> QED
  BY <1>2, <1>3, <1>4, <1>5

(* A goal is sent under a number of its own.                                 *)
LEMMA IssueForm ==
  ASSUME HoldInv, NEW d \in Drive, Issue(d)
  PROVE  \E g \in RclpyGoal : Issues(d, g)
<1> DEFINE n == issued[d] + 1
<1>1. at[d] = "issue" /\ issued[d] < runs[d] /\ issued[d] \in Run /\ runs[d] \in Run
  BY DEF HoldInv, NumbersAgree, NumbersOf, RclpyTypeOK, SentType, Issue, Goes
<1>2. n \in 1..MaxRuns /\ n > issued[d]
  BY <1>1, RclpyAssumption DEF Run
<1>3. <<d, n>> \in RclpyGoal /\ fate[<<d, n>>] = "none"
  BY <1>2 DEF HoldInv, NumbersAgree, NumbersOf, RclpyGoal
<1>4. /\ fate' \in [RclpyGoal -> Fate] /\ fate'[<<d, n>>] = "sent"
      /\ \A h \in RclpyGoal \ {<<d, n>>} : fate'[h] = fate[h]
  BY <1>3 DEF HoldInv, RclpyTypeOK, SentType, Issue, Fate
<1>5. results[d] # "none" => d \in crossed
  BY <1>1 DEF HoldInv, CrossingsAreKnown, CrossingOf
<1>6. /\ overtaken' \in SUBSET RclpyGoal /\ overtaken \subseteq overtaken'
      /\ Withdrawing(d) \/ results[d] # "none" \/ d \in crossed => <<d, n>> \in overtaken'
  BY <1>3, <1>5 DEF Issue, HoldInv, RclpyTypeOK, PastType
<1>7. Issues(d, <<d, n>>)
  BY <1>1, <1>3, <1>4, <1>6 DEF Issue, Issues, Goes
<1> QED
  BY <1>3, <1>7

(* The handle that is kept is of the goal that was sent last.                *)
LEMMA HoldForm ==
  ASSUME HoldInv, NEW d \in Drive, HoldHandle(d)
  PROVE  Holds(d)
<1>1. mine[d] = issued[d] /\ issued[d] # 0
  BY DEF HoldInv, NumbersAgree, NumbersOf, HoldHandle, Goes
<1> QED
  BY <1>1 DEF HoldHandle, Holds, Goes, Elsewhere, goalState, heldState

(* The future that is fetched is of the goal the thread has.                 *)
LEMMA FetchForm ==
  ASSUME HoldInv, NEW d \in Drive, FetchFuture(d)
  PROVE  \E p \in {"raised", "wait"} : Fetches(d, p)
<1>1. mine[d] = issued[d] /\ future[d] \in {0, issued[d]} /\ mine \in [Drive -> Run]
  BY DEF HoldInv, NumbersAgree, NumbersOf, HandlesAgree, HandleOf, RclpyTypeOK, SentType,
     FetchFuture, Goes
<1>2. CASE future[d] = 0
  <2>1. Fetches(d, "raised")
    BY <1>2 DEF FetchFuture, Fetches, Goes, Elsewhere
  <2> QED
    BY ONLY <2>1
<1>3. CASE future[d] # 0
  <2>1. mine' = mine
    BY <1>1, <1>3 DEF FetchFuture
  <2>2. Fetches(d, "wait")
    BY <1>3, <2>1 DEF FetchFuture, Fetches, Goes, Elsewhere
  <2> QED
    BY ONLY <2>2
<1> QED
  BY <1>2, <1>3

(* A result is kept as it was judged.                                        *)
LEMMA KeepForm ==
  ASSUME HoldInv, NEW d \in Drive, KeepResult(d)
  PROVE  \E p \in Verdict : Keeps(d, p)
<1>1. judged[d] \in Verdict
  BY DEF KeepResult, Goes, HoldInv, RclpyTypeOK, PlaceType
<1>2. Keeps(d, judged[d])
  BY DEF Keeps, KeepResult, Goes, Elsewhere
<1> QED
  BY ONLY <1>1, <1>2

(* The server takes a goal and preempts another, or rejects it.              *)
LEMMA TakeForm ==
  ASSUME HoldInv, NEW g \in RclpyGoal, ServerTakes(g)
  PROVE  \E e \in {"running", "rejected"} : Takes(g, e)
<1>1. fate \in [RclpyGoal -> Fate]
  BY DEF HoldInv, RclpyTypeOK, SentType
<1>2. UNCHANGED <<linkState, issued, admitted, ended, heldState, watch, results, runState, rat,
                  stopping, revoked, left, pastState, requests, verdict>>
  BY DEF ServerTakes, Backend, haltState
<1>3. CASE fate' = [fate EXCEPT ![g] = "rejected"]
  <2>1. Takes(g, "rejected")
    BY <1>1, <1>2, <1>3 DEF ServerTakes, Fate, Takes, Moves, FateGoesOn
  <2> QED
    BY ONLY <2>1
<1>4. CASE fate' = [h \in RclpyGoal |-> IF h = g THEN "running"
                                       ELSE IF fate[h] \in {"running", "canceling"} THEN "aborted"
                                       ELSE fate[h]]
  <2>1. Takes(g, "running")
    BY <1>1, <1>2, <1>4 DEF ServerTakes, Fate, Takes, Moves, FateGoesOn
  <2> QED
    BY ONLY <2>1
<1> QED
  BY <1>3, <1>4 DEF ServerTakes

(* The server ends the goal it drives.                                       *)
LEMMA EndForm ==
  ASSUME HoldInv, NEW g \in RclpyGoal, ServerEnds(g)
  PROVE  \E f \in {"running", "canceling"}, e \in Final : Ends(g, f, e)
<1>1. fate \in [RclpyGoal -> Fate]
  BY DEF HoldInv, RclpyTypeOK, SentType
<1>2. UNCHANGED <<linkState, issued, admitted, ended, heldState, watch, results, runState, rat,
                  stopping, revoked, left, pastState, requests, verdict>>
  BY DEF ServerEnds, Backend, haltState
<1>3. PICK e \in Final : fate' = [fate EXCEPT ![g] = e]
  BY DEF ServerEnds, Final
<1>4. Ends(g, fate[g], e) /\ fate[g] \in {"running", "canceling"}
  BY <1>1, <1>2, <1>3 DEF ServerEnds, Fate, Final, Ends, Moves, FateGoesOn
<1> QED
  BY ONLY <1>4

(* The server cancels a goal it drives, or answers that it does not.         *)
LEMMA CancelForm ==
  ASSUME HoldInv, NEW who \in Drive \cup Withdrawers, NEW g \in RclpyGoal, ServerCancels(who, g)
  PROVE  \E f \in Fate : Cancels(who, g, f)
<1>1. fate \in [RclpyGoal -> Fate]
  BY DEF HoldInv, RclpyTypeOK, SentType
<1>2. Moves(g, fate[g], IF fate[g] = "running" THEN "canceling" ELSE fate[g])
  BY <1>1 DEF ServerCancels, Fate, Moves, FateGoesOn
<1>3. Cancels(who, g, fate[g])
  BY <1>1, <1>2 DEF ServerCancels, Cancels
<1>4. fate[g] \in Fate
  BY <1>1
<1> QED
  BY ONLY <1>3, <1>4

(* Every step is one of these.                                               *)
LEMMA NextForms == HoldInv /\ RclpyNext => Forms
<1> SUFFICES ASSUME HoldInv, RclpyNext PROVE Forms
  OBVIOUS
<1>1. ASSUME NEW d \in Drive, DriveStep(d) PROVE Forms
  BY <1>1, IssueForm, LookForm, HoldForm, FetchForm, KeepForm DEF DriveStep, Forms
<1>2. ASSUME NEW g \in RclpyGoal, Admit(g) \/ Resolve(g) \/ ServerTakes(g) \/ ServerEnds(g)
      PROVE  Forms
  BY <1>2, TakeForm, EndForm DEF Forms
<1>3. ASSUME NEW who \in Drive \cup Withdrawers, NEW g \in RclpyGoal, ServerCancels(who, g)
      PROVE  Forms
  BY <1>3, CancelForm DEF Forms
<1> QED
  BY <1>1, <1>2, <1>3 DEF RclpyNext, Forms

(* What the numbers, handles and watches of the drives can be.               *)
LEMMA SentTypeStep == HoldInv /\ RclpyNext => SentType'
<1> USE RclpyAssumption DEF linkState, goalState, heldState, runState, haltState, pastState,
       Goes, RGoes, Elsewhere
<1> DEFINE Same == UNCHANGED <<reconnects, issued, fate, ended, admitted, handle, future, watch,
   runs, mine>>
<1> SUFFICES ASSUME HoldInv, Forms PROVE SentType'
  BY NextForms
<1>1. ASSUME Same PROVE SentType'
  BY <1>1 DEF HoldInv, RclpyTypeOK, SentType
<1>2. ASSUME NEW d \in Drive, NoServer(d) \/ AcceptanceLapses(d) \/ Rejected(d) \/
             DeadlinePasses(d) \/ TripCancels(d) \/ Conclude(d)
      PROVE  Same
  BY <1>2 DEF NoServer, AcceptanceLapses, Rejected, DeadlinePasses, TripCancels, Request,
     Conclude
<1>3. ASSUME NEW d \in Drive, NEW p \in Returned \cup {"fetch", "issue"}, Looks(d, p) PROVE Same
  BY <1>3 DEF Looks
<1>4. ASSUME NEW d \in Drive, NEW p \in {"raised", "wait"}, Fetches(d, p) PROVE Same
  BY <1>4 DEF Fetches
<1>5. ASSUME NEW d \in Drive, NEW p \in Verdict, Keeps(d, p) PROVE Same
  BY <1>5 DEF Keeps
<1>6. ASSUME NEW k \in Withdrawers, NEW d \in Drive, RevokeBegins(k, d) \/ HaltEach(k, d)
      PROVE  Same
  BY <1>6 DEF RevokeBegins, AskCancel, Request, HaltEach
<1>7. ASSUME NEW k \in Withdrawers, RevokeFails(k) \/ RevokeConfirmed(k) \/ RevokeKeeps(k) \/
             HaltBegins(k) \/ HaltEnds(k)
      PROVE  Same
  BY <1>7 DEF RevokeFails, RevokeConfirmed, RevokeKeeps, HaltBegins, HaltEnds
<1>8. ASSUME ExecutorEnds \/ ReconnectStarts PROVE Same
  BY <1>8 DEF ExecutorEnds, Backend, ReconnectStarts
<1>9. ASSUME NEW d \in Drive, WatchTrips(d) PROVE SentType'
  BY <1>9 DEF WatchTrips, Backend, HoldInv, RclpyTypeOK, SentType, NumbersAgree, RclpyGoal, Run,
     Unwatched, Armed
<1>10. ASSUME NEW d \in Drive, NEW g \in RclpyGoal, Issues(d, g) PROVE SentType'
  BY <1>10 DEF Issues, HoldInv, RclpyTypeOK, SentType, NumbersAgree, RclpyGoal, Run, Unwatched,
     Armed
<1>11. ASSUME NEW g \in RclpyGoal, Admit(g) \/ Resolve(g) PROVE SentType'
  BY <1>11 DEF Admit, Backend, Resolve, HoldInv, RclpyTypeOK, SentType, NumbersAgree, RclpyGoal,
     Run, Unwatched, Armed
<1>12. ASSUME NEW g \in RclpyGoal, NEW e \in {"running", "rejected"}, Takes(g, e)
       PROVE  SentType'
  BY <1>12 DEF Takes, Moves, FateGoesOn, HoldInv, RclpyTypeOK, SentType, NumbersAgree,
     RclpyGoal, Run, Unwatched, Armed
<1>13. ASSUME NEW g \in RclpyGoal, NEW f \in {"running", "canceling"}, NEW e \in Final,
              Ends(g, f, e)
       PROVE  SentType'
  BY <1>13 DEF Ends, Moves, FateGoesOn, HoldInv, RclpyTypeOK, SentType, NumbersAgree, RclpyGoal,
     Run, Unwatched, Armed
<1>14. ASSUME NEW g \in RclpyGoal, NEW who \in Drive \cup Withdrawers, NEW f \in Fate,
              Cancels(who, g, f)
       PROVE  SentType'
  BY <1>14 DEF Cancels, Moves, FateGoesOn, HoldInv, RclpyTypeOK, SentType, NumbersAgree,
     RclpyGoal, Run, Unwatched, Armed
<1>15. ASSUME ReconnectClears PROVE SentType'
  BY <1>15 DEF ReconnectClears, Backend, HoldInv, RclpyTypeOK, SentType, NumbersAgree,
     RclpyGoal, Run, Unwatched, Armed
<1>16. ASSUME NEW d \in Drive, RclpyArm(d) PROVE SentType'
  BY <1>16 DEF RclpyArm, HoldInv, RclpyTypeOK, SentType, NumbersAgree, RclpyGoal, Run,
     Unwatched, Armed
<1>17. ASSUME NEW d \in Drive, Holds(d) PROVE SentType'
  BY <1>17 DEF Holds, HoldInv, RclpyTypeOK, SentType, NumbersAgree, RclpyGoal, Run, Unwatched,
     Armed
<1>18. ASSUME NEW d \in Drive, HoldFuture(d) PROVE SentType'
  BY <1>18 DEF HoldFuture, HoldInv, RclpyTypeOK, SentType, NumbersAgree, RclpyGoal, Run,
     Unwatched, Armed
<1>19. ASSUME NEW d \in Drive, DropGoal(d) PROVE SentType'
  BY <1>19 DEF DropGoal, Forget, HoldInv, RclpyTypeOK, SentType, NumbersAgree, RclpyGoal, Run,
     Unwatched, Armed
<1>20. ASSUME NEW d \in Drive, TripSeen(d) PROVE SentType'
  BY <1>20 DEF TripSeen, HoldInv, RclpyTypeOK, SentType
<1>21. ASSUME NEW k \in Withdrawers, RevokeForgets(k) PROVE SentType'
  <2>1. revoked[k][1] \in Drive
    BY <1>21 DEF RevokeForgets, HoldInv, RclpyTypeOK, HaltType, Withdraw
  <2> QED
    BY <1>21, <2>1 DEF RevokeForgets, Forget, Unwatched, HoldInv, RclpyTypeOK, SentType, Run
<1>22. ASSUME NEW k \in Withdrawers, HaltDrops(k) PROVE SentType'
  <2>1. revoked[k][1] \in Drive
    BY <1>22 DEF HaltDrops, HoldInv, RclpyTypeOK, HaltType, Withdraw
  <2> QED
    BY <1>22, <2>1 DEF HaltDrops, Forget, Unwatched, HoldInv, RclpyTypeOK, SentType, Run
<1> QED
  BY <1>1, <1>2, <1>3, <1>4, <1>5, <1>6, <1>7, <1>8, <1>9, <1>10, <1>11, <1>12, <1>13, <1>14,
     <1>15, <1>16, <1>17, <1>18, <1>19, <1>20, <1>21, <1>22 DEF Forms, HaltStep

(* Where an invoke() can be, and what it was told.                           *)
LEMMA PlaceTypeStep == HoldInv /\ RclpyNext => PlaceType'
<1> USE RclpyAssumption DEF linkState, goalState, heldState, runState, haltState, pastState,
       Goes, RGoes, Elsewhere
<1> DEFINE Same == UNCHANGED <<results, judged, at>>
<1> SUFFICES ASSUME HoldInv, Forms PROVE PlaceType'
  BY NextForms
<1>1. ASSUME Same PROVE PlaceType'
  BY <1>1 DEF HoldInv, RclpyTypeOK, PlaceType
<1>2. ASSUME NEW d \in Drive, WatchTrips(d) PROVE Same
  BY <1>2 DEF WatchTrips, Backend
<1>3. ASSUME NEW k \in Withdrawers, NEW d \in Drive, RevokeBegins(k, d) \/ HaltEach(k, d)
      PROVE  Same
  BY <1>3 DEF RevokeBegins, AskCancel, Request, HaltEach
<1>4. ASSUME NEW k \in Withdrawers, RevokeFails(k) \/ RevokeConfirmed(k) \/ RevokeForgets(k) \/
             HaltBegins(k) \/ HaltDrops(k) \/ HaltEnds(k)
      PROVE  Same
  BY <1>4 DEF RevokeFails, RevokeConfirmed, RevokeForgets, Forget, HaltBegins, HaltDrops,
     HaltEnds
<1>5. ASSUME NEW g \in RclpyGoal, Admit(g) \/ Resolve(g) PROVE Same
  BY <1>5 DEF Admit, Backend, Resolve
<1>6. ASSUME NEW g \in RclpyGoal, NEW e \in {"running", "rejected"}, Takes(g, e) PROVE Same
  BY <1>6 DEF Takes, Moves, FateGoesOn
<1>7. ASSUME NEW g \in RclpyGoal, NEW f \in {"running", "canceling"}, NEW e \in Final,
             Ends(g, f, e)
      PROVE  Same
  BY <1>7 DEF Ends, Moves, FateGoesOn
<1>8. ASSUME NEW g \in RclpyGoal, NEW who \in Drive \cup Withdrawers, NEW f \in Fate,
             Cancels(who, g, f)
      PROVE  Same
  BY <1>8 DEF Cancels, Moves, FateGoesOn
<1>9. ASSUME ExecutorEnds \/ ReconnectClears \/ ReconnectStarts PROVE Same
  BY <1>9 DEF ExecutorEnds, Backend, ReconnectClears, ReconnectStarts
<1>10. ASSUME NEW d \in Drive, Holds(d) \/ HoldFuture(d) \/ DeadlinePasses(d) \/ TripSeen(d)
       PROVE  PlaceType'
  BY <1>10 DEF Holds, HoldFuture, DeadlinePasses, TripSeen, HoldInv, RclpyTypeOK, SentType,
     PlaceType, Returned, Followed, Verdict
<1>11. ASSUME NEW d \in Drive, NEW g \in RclpyGoal, Issues(d, g) PROVE PlaceType'
  BY <1>11 DEF Issues, HoldInv, RclpyTypeOK, SentType, PlaceType, Returned, Followed, Verdict
<1>12. ASSUME NEW d \in Drive, NEW p \in Returned \cup {"fetch", "issue"}, Looks(d, p)
       PROVE  PlaceType'
  BY <1>12 DEF Looks, HoldInv, RclpyTypeOK, SentType, PlaceType, Returned, Followed, Verdict
<1>13. ASSUME NEW d \in Drive, NEW p \in {"raised", "wait"}, Fetches(d, p) PROVE PlaceType'
  BY <1>13 DEF Fetches, HoldInv, RclpyTypeOK, SentType, PlaceType, Returned, Followed, Verdict
<1>14. ASSUME NEW d \in Drive, NEW p \in Verdict, Keeps(d, p) PROVE PlaceType'
  BY <1>14 DEF Keeps, HoldInv, RclpyTypeOK, SentType, PlaceType, Returned, Followed, Verdict
<1>15. ASSUME NEW k \in Withdrawers, RevokeKeeps(k) PROVE PlaceType'
  BY <1>15 DEF RevokeKeeps, HoldInv, RclpyTypeOK, SentType, PlaceType, Returned, Followed,
     Verdict
<1>16. ASSUME NEW d \in Drive, RclpyArm(d) \/ NoServer(d) PROVE PlaceType'
  BY <1>16 DEF RclpyArm, NoServer, HoldInv, RclpyTypeOK, SentType, PlaceType, Returned,
     Followed, Verdict
<1>17. ASSUME NEW d \in Drive, AcceptanceLapses(d) \/ Rejected(d) PROVE PlaceType'
  BY <1>17 DEF AcceptanceLapses, Rejected, HoldInv, RclpyTypeOK, SentType, PlaceType, Returned,
     Followed, Verdict
<1>18. ASSUME NEW d \in Drive, TripCancels(d) \/ Conclude(d) PROVE PlaceType'
  BY <1>18 DEF TripCancels, Request, Conclude, HoldInv, RclpyTypeOK, SentType, PlaceType,
     Returned, Followed, Verdict
<1>19. ASSUME NEW d \in Drive, DropGoal(d) PROVE PlaceType'
  BY <1>19 DEF DropGoal, Forget, HoldInv, RclpyTypeOK, SentType, PlaceType, Returned, Followed,
     Verdict
<1> QED
  BY <1>1, <1>2, <1>3, <1>4, <1>5, <1>6, <1>7, <1>8, <1>9, <1>10, <1>11, <1>12, <1>13, <1>14,
     <1>15, <1>16, <1>17, <1>18, <1>19 DEF Forms, HaltStep

(* Where a withdrawal can be, and what it is about.                          *)
LEMMA HaltTypeStep == HoldInv /\ RclpyNext => HaltType'
<1> USE RclpyAssumption DEF linkState, goalState, heldState, runState, haltState, pastState,
       Goes, RGoes, Elsewhere
<1> DEFINE Same == UNCHANGED <<rat, stopping, revoked, verdict, left>>
<1> SUFFICES ASSUME HoldInv, Forms PROVE HaltType'
  BY NextForms
<1>1. ASSUME Same PROVE HaltType'
  BY <1>1 DEF HoldInv, RclpyTypeOK, HaltType
<1>2. ASSUME NEW d \in Drive, RclpyArm(d) \/ NoServer(d) \/ AcceptanceLapses(d) \/ Rejected(d) \/
             Holds(d) \/ HoldFuture(d) \/ DeadlinePasses(d) \/ TripSeen(d) \/ TripCancels(d)
             \/ Conclude(d) \/ DropGoal(d) \/ WatchTrips(d)
      PROVE  Same
  BY <1>2 DEF RclpyArm, NoServer, AcceptanceLapses, Rejected, Holds, HoldFuture, DeadlinePasses,
     TripSeen, TripCancels, Request, Conclude, DropGoal, Forget, WatchTrips, Backend
<1>3. ASSUME NEW d \in Drive, NEW g \in RclpyGoal, Issues(d, g) PROVE Same
  BY <1>3 DEF Issues
<1>4. ASSUME NEW d \in Drive, NEW p \in Returned \cup {"fetch", "issue"}, Looks(d, p) PROVE Same
  BY <1>4 DEF Looks
<1>5. ASSUME NEW d \in Drive, NEW p \in {"raised", "wait"}, Fetches(d, p) PROVE Same
  BY <1>5 DEF Fetches
<1>6. ASSUME NEW d \in Drive, NEW p \in Verdict, Keeps(d, p) PROVE Same
  BY <1>6 DEF Keeps
<1>7. ASSUME NEW g \in RclpyGoal, Admit(g) \/ Resolve(g) PROVE Same
  BY <1>7 DEF Admit, Backend, Resolve
<1>8. ASSUME NEW g \in RclpyGoal, NEW e \in {"running", "rejected"}, Takes(g, e) PROVE Same
  BY <1>8 DEF Takes, Moves, FateGoesOn
<1>9. ASSUME NEW g \in RclpyGoal, NEW f \in {"running", "canceling"}, NEW e \in Final,
             Ends(g, f, e)
      PROVE  Same
  BY <1>9 DEF Ends, Moves, FateGoesOn
<1>10. ASSUME ExecutorEnds \/ ReconnectClears \/ ReconnectStarts PROVE Same
  BY <1>10 DEF ExecutorEnds, Backend, ReconnectClears, ReconnectStarts
<1>11. ASSUME NEW k \in Withdrawers, RevokeFails(k) \/ RevokeConfirmed(k) \/ RevokeForgets(k) \/
              RevokeKeeps(k)
       PROVE  HaltType'
  BY <1>11 DEF RevokeFails, RevokeConfirmed, RevokeForgets, Forget, RevokeKeeps, HoldInv,
     RclpyTypeOK, SentType, HaltType, Withdraw, Run
<1>12. ASSUME NEW g \in RclpyGoal, NEW who \in Drive \cup Withdrawers, NEW f \in Fate,
              Cancels(who, g, f)
       PROVE  HaltType'
  BY <1>12 DEF Cancels, Moves, FateGoesOn, HoldInv, RclpyTypeOK, SentType, HaltType, Withdraw,
     Run
<1>13. ASSUME NEW k \in Withdrawers, HaltEnds(k) PROVE HaltType'
  BY <1>13 DEF HaltEnds, HoldInv, RclpyTypeOK, SentType, HaltType, Withdraw, Run
<1>14. ASSUME NEW k \in Withdrawers, HaltBegins(k) PROVE HaltType'
  BY <1>14 DEF HaltBegins, HoldInv, RclpyTypeOK, SentType, HaltType, Withdraw, Run
<1>15. ASSUME NEW k \in Withdrawers, HaltDrops(k) PROVE HaltType'
  BY <1>15 DEF HaltDrops, Forget, HoldInv, RclpyTypeOK, SentType, HaltType, Withdraw, Run
<1>16. ASSUME NEW k \in Withdrawers, NEW d \in Drive, RevokeBegins(k, d) PROVE HaltType'
  <2>1. handle[d] \in Run
    BY DEF HoldInv, RclpyTypeOK, SentType
  <2>2. CASE rat' = [rat EXCEPT ![k] = "refused"] /\ UNCHANGED <<revoked, verdict>>
    BY <1>16, <2>2 DEF RevokeBegins, HoldInv, RclpyTypeOK, HaltType, Withdraw
  <2>3. CASE rat' = [rat EXCEPT ![k] = "await"] /\ AskCancel(k, d)
    BY <1>16, <2>1, <2>3 DEF RevokeBegins, AskCancel, HoldInv, RclpyTypeOK, HaltType, Withdraw
  <2> QED
    BY <1>16, <2>2, <2>3 DEF RevokeBegins
<1>17. ASSUME NEW k \in Withdrawers, NEW d \in Drive, HaltEach(k, d) PROVE HaltType'
  <2>1. handle[d] \in Run
    BY DEF HoldInv, RclpyTypeOK, SentType
  <2>2. left' \in [Withdrawers -> SUBSET Drive]
    BY <1>17 DEF HaltEach, HoldInv, RclpyTypeOK, HaltType
  <2>3. CASE /\ rat' = [rat EXCEPT ![k] = "drop"]
             /\ revoked' = [revoked EXCEPT ![k] = <<d, handle[d]>>]
             /\ UNCHANGED verdict
    BY <1>17, <2>1, <2>2, <2>3 DEF HaltEach, HoldInv, RclpyTypeOK, HaltType, Withdraw
  <2>4. CASE rat' = [rat EXCEPT ![k] = "await"] /\ AskCancel(k, d)
    BY <1>17, <2>1, <2>2, <2>4 DEF HaltEach, AskCancel, HoldInv, RclpyTypeOK, HaltType, Withdraw
  <2> QED
    BY <1>17, <2>3, <2>4 DEF HaltEach
<1> QED
  BY <1>1, <1>2, <1>3, <1>4, <1>5, <1>6, <1>7, <1>8, <1>9, <1>10, <1>11, <1>12, <1>13, <1>14,
     <1>15, <1>16, <1>17 DEF Forms, HaltStep

(* What is remembered is about goals that were sent.                         *)
LEMMA PastTypeStep == HoldInv /\ RclpyNext => PastType'
<1> USE RclpyAssumption DEF linkState, goalState, heldState, runState, haltState, pastState,
       Goes, RGoes, Elsewhere
<1> DEFINE Same == UNCHANGED <<unfollowed, overtaken>>
<1> SUFFICES ASSUME HoldInv, Forms PROVE PastType'
  BY NextForms
<1>1. ASSUME Same PROVE PastType'
  BY <1>1 DEF HoldInv, RclpyTypeOK, PastType
<1>2. ASSUME NEW d \in Drive, RclpyArm(d) \/ NoServer(d) \/ Rejected(d) \/ Holds(d) \/
             HoldFuture(d) \/ DeadlinePasses(d) \/ TripSeen(d) \/ TripCancels(d) \/
             Conclude(d) \/ DropGoal(d) \/ WatchTrips(d)
      PROVE  Same
  BY <1>2 DEF RclpyArm, NoServer, Rejected, Holds, HoldFuture, DeadlinePasses, TripSeen,
     TripCancels, Request, Conclude, DropGoal, Forget, WatchTrips, Backend
<1>3. ASSUME NEW d \in Drive, NEW p \in Returned \cup {"fetch", "issue"}, Looks(d, p) PROVE Same
  BY <1>3 DEF Looks
<1>4. ASSUME NEW d \in Drive, NEW p \in {"raised", "wait"}, Fetches(d, p) PROVE Same
  BY <1>4 DEF Fetches
<1>5. ASSUME NEW d \in Drive, NEW p \in Verdict, Keeps(d, p) PROVE Same
  BY <1>5 DEF Keeps
<1>6. ASSUME NEW k \in Withdrawers, NEW d \in Drive, RevokeBegins(k, d) PROVE Same
  BY <1>6 DEF RevokeBegins, AskCancel, Request
<1>7. ASSUME NEW k \in Withdrawers, RevokeFails(k) \/ RevokeConfirmed(k) \/ RevokeForgets(k) \/
             RevokeKeeps(k) \/ HaltBegins(k) \/ HaltDrops(k) \/ HaltEnds(k)
      PROVE  Same
  BY <1>7 DEF RevokeFails, RevokeConfirmed, RevokeForgets, Forget, RevokeKeeps, HaltBegins,
     HaltDrops, HaltEnds
<1>8. ASSUME NEW g \in RclpyGoal, Admit(g) \/ Resolve(g) PROVE Same
  BY <1>8 DEF Admit, Backend, Resolve
<1>9. ASSUME NEW g \in RclpyGoal, NEW e \in {"running", "rejected"}, Takes(g, e) PROVE Same
  BY <1>9 DEF Takes, Moves, FateGoesOn
<1>10. ASSUME NEW g \in RclpyGoal, NEW f \in {"running", "canceling"}, NEW e \in Final,
              Ends(g, f, e)
       PROVE  Same
  BY <1>10 DEF Ends, Moves, FateGoesOn
<1>11. ASSUME NEW g \in RclpyGoal, NEW who \in Drive \cup Withdrawers, NEW f \in Fate,
              Cancels(who, g, f)
       PROVE  Same
  BY <1>11 DEF Cancels, Moves, FateGoesOn
<1>12. ASSUME ExecutorEnds \/ ReconnectClears \/ ReconnectStarts PROVE Same
  BY <1>12 DEF ExecutorEnds, Backend, ReconnectClears, ReconnectStarts
<1>13. ASSUME NEW d \in Drive, AcceptanceLapses(d) PROVE PastType'
  BY <1>13 DEF AcceptanceLapses, HoldInv, RclpyTypeOK, SentType, PastType, NumbersAgree,
     NumbersOf, HandlesAgree, HandleOf, RclpyGoal, Run
<1>14. ASSUME NEW d \in Drive, NEW g \in RclpyGoal, Issues(d, g) PROVE PastType'
  BY <1>14 DEF Issues, HoldInv, RclpyTypeOK, SentType, PastType, NumbersAgree, NumbersOf,
     HandlesAgree, HandleOf, RclpyGoal, Run
<1>15. ASSUME NEW k \in Withdrawers, NEW d \in Drive, HaltEach(k, d) PROVE PastType'
  BY <1>15 DEF HaltEach, AskCancel, Request, HoldInv, RclpyTypeOK, SentType, PastType,
     NumbersAgree, NumbersOf, HandlesAgree, HandleOf, RclpyGoal, Run
<1> QED
  BY <1>1, <1>2, <1>3, <1>4, <1>5, <1>6, <1>7, <1>8, <1>9, <1>10, <1>11, <1>12, <1>13, <1>14,
     <1>15 DEF Forms, HaltStep

(* A cancel that is under way is of a goal that was sent.                    *)
LEMMA AskedTypeStep == HoldInv /\ RclpyNext => AskedType'
<1> USE RclpyAssumption DEF linkState, goalState, heldState, runState, haltState, pastState,
       Goes, RGoes, Elsewhere
<1> DEFINE Same == UNCHANGED <<requests, askedOf>>
<1> SUFFICES ASSUME HoldInv, Forms PROVE AskedType'
  BY NextForms
<1>1. ASSUME Same PROVE AskedType'
  BY <1>1 DEF HoldInv, RclpyTypeOK, AskedType
<1>2. ASSUME NEW d \in Drive, RclpyArm(d) \/ NoServer(d) \/ AcceptanceLapses(d) \/ Rejected(d) \/
             Holds(d) \/ HoldFuture(d) \/ DeadlinePasses(d) \/ TripSeen(d) \/ Conclude(d) \/
             DropGoal(d) \/ WatchTrips(d)
      PROVE  Same
  BY <1>2 DEF RclpyArm, NoServer, AcceptanceLapses, Rejected, Holds, HoldFuture, DeadlinePasses,
     TripSeen, Conclude, DropGoal, Forget, WatchTrips, Backend
<1>3. ASSUME NEW d \in Drive, NEW g \in RclpyGoal, Issues(d, g) PROVE Same
  BY <1>3 DEF Issues
<1>4. ASSUME NEW d \in Drive, NEW p \in Returned \cup {"fetch", "issue"}, Looks(d, p) PROVE Same
  BY <1>4 DEF Looks
<1>5. ASSUME NEW d \in Drive, NEW p \in {"raised", "wait"}, Fetches(d, p) PROVE Same
  BY <1>5 DEF Fetches
<1>6. ASSUME NEW d \in Drive, NEW p \in Verdict, Keeps(d, p) PROVE Same
  BY <1>6 DEF Keeps
<1>7. ASSUME NEW k \in Withdrawers, RevokeFails(k) \/ RevokeConfirmed(k) \/ RevokeForgets(k) \/
             RevokeKeeps(k) \/ HaltBegins(k) \/ HaltDrops(k) \/ HaltEnds(k)
      PROVE  Same
  BY <1>7 DEF RevokeFails, RevokeConfirmed, RevokeForgets, Forget, RevokeKeeps, HaltBegins,
     HaltDrops, HaltEnds
<1>8. ASSUME NEW g \in RclpyGoal, Admit(g) \/ Resolve(g) PROVE Same
  BY <1>8 DEF Admit, Backend, Resolve
<1>9. ASSUME NEW g \in RclpyGoal, NEW e \in {"running", "rejected"}, Takes(g, e) PROVE Same
  BY <1>9 DEF Takes, Moves, FateGoesOn
<1>10. ASSUME NEW g \in RclpyGoal, NEW f \in {"running", "canceling"}, NEW e \in Final,
              Ends(g, f, e)
       PROVE  Same
  BY <1>10 DEF Ends, Moves, FateGoesOn
<1>11. ASSUME ExecutorEnds \/ ReconnectClears \/ ReconnectStarts PROVE Same
  BY <1>11 DEF ExecutorEnds, Backend, ReconnectClears, ReconnectStarts
<1>12. ASSUME NEW d \in Drive, TripCancels(d) PROVE AskedType'
  BY <1>12 DEF TripCancels, Request, HoldInv, RclpyTypeOK, SentType, AskedType, RclpyGoal, Run
<1>13. ASSUME NEW k \in Withdrawers, NEW d \in Drive, RevokeBegins(k, d) \/ HaltEach(k, d)
       PROVE  AskedType'
  BY <1>13 DEF RevokeBegins, AskCancel, Request, HaltEach, HoldInv, RclpyTypeOK, SentType,
     AskedType, RclpyGoal, Run
<1>14. ASSUME NEW g \in RclpyGoal, NEW who \in Drive \cup Withdrawers, NEW f \in Fate,
              Cancels(who, g, f)
       PROVE  AskedType'
  BY <1>14 DEF Cancels, Moves, FateGoesOn, HoldInv, RclpyTypeOK, SentType, AskedType, RclpyGoal,
     Run
<1> QED
  BY <1>1, <1>2, <1>3, <1>4, <1>5, <1>6, <1>7, <1>8, <1>9, <1>10, <1>11, <1>12, <1>13, <1>14 DEF
     Forms, HaltStep

(* Goals are numbered as they are sent, one per invoke() at most.            *)
LEMMA NumbersStep == HoldInv /\ RclpyNext => NumbersAgree'
<1> USE RclpyAssumption DEF linkState, goalState, heldState, runState, haltState, pastState,
       Goes, RGoes, Elsewhere
<1> DEFINE Same == UNCHANGED <<mine, issued, runs, fate, at>>
<1> SUFFICES ASSUME HoldInv, Forms PROVE NumbersAgree'
  BY NextForms
<1>1. ASSUME Same PROVE NumbersAgree'
  BY <1>1 DEF HoldInv, NumbersAgree, NumbersOf
<1>2. ASSUME NEW d \in Drive, WatchTrips(d) PROVE Same
  BY <1>2 DEF WatchTrips, Backend
<1>3. ASSUME NEW k \in Withdrawers, NEW d \in Drive, RevokeBegins(k, d) \/ HaltEach(k, d)
      PROVE  Same
  BY <1>3 DEF RevokeBegins, AskCancel, Request, HaltEach
<1>4. ASSUME NEW k \in Withdrawers, RevokeFails(k) \/ RevokeConfirmed(k) \/ RevokeForgets(k) \/
             RevokeKeeps(k) \/ HaltBegins(k) \/ HaltDrops(k) \/ HaltEnds(k)
      PROVE  Same
  BY <1>4 DEF RevokeFails, RevokeConfirmed, RevokeForgets, Forget, RevokeKeeps, HaltBegins,
     HaltDrops, HaltEnds
<1>5. ASSUME NEW g \in RclpyGoal, Admit(g) \/ Resolve(g) PROVE Same
  BY <1>5 DEF Admit, Backend, Resolve
<1>6. ASSUME ExecutorEnds \/ ReconnectClears \/ ReconnectStarts PROVE Same
  BY <1>6 DEF ExecutorEnds, Backend, ReconnectClears, ReconnectStarts
<1>7. ASSUME NEW d \in Drive, RclpyArm(d) \/ NoServer(d) \/ AcceptanceLapses(d) \/ Rejected(d)
      PROVE  NumbersAgree'
  BY <1>7 DEF RclpyArm, NoServer, AcceptanceLapses, Rejected, HoldInv, RclpyTypeOK, SentType,
     PlaceType, HandlesAgree, HandleOf, NumbersAgree, NumbersOf, RclpyGoal, Run, Returned,
     Followed, Verdict
<1>8. ASSUME NEW d \in Drive, Holds(d) \/ HoldFuture(d) \/ DeadlinePasses(d) \/ TripSeen(d)
      PROVE  NumbersAgree'
  BY <1>8 DEF Holds, HoldFuture, DeadlinePasses, TripSeen, HoldInv, RclpyTypeOK, SentType,
     PlaceType, HandlesAgree, HandleOf, NumbersAgree, NumbersOf, RclpyGoal, Run, Returned,
     Followed, Verdict
<1>9. ASSUME NEW d \in Drive, TripCancels(d) \/ Conclude(d) \/ DropGoal(d) PROVE NumbersAgree'
  BY <1>9 DEF TripCancels, Request, Conclude, DropGoal, Forget, HoldInv, RclpyTypeOK, SentType,
     PlaceType, HandlesAgree, HandleOf, NumbersAgree, NumbersOf, RclpyGoal, Run, Returned,
     Followed, Verdict
<1>10. ASSUME NEW d \in Drive, NEW p \in {"raised", "wait"}, Fetches(d, p) PROVE NumbersAgree'
  BY <1>10 DEF Fetches, HoldInv, RclpyTypeOK, SentType, PlaceType, HandlesAgree, HandleOf,
     NumbersAgree, NumbersOf, RclpyGoal, Run, Returned, Followed, Verdict
<1>11. ASSUME NEW d \in Drive, NEW p \in Verdict, Keeps(d, p) PROVE NumbersAgree'
  BY <1>11 DEF Keeps, HoldInv, RclpyTypeOK, SentType, PlaceType, HandlesAgree, HandleOf,
     NumbersAgree, NumbersOf, RclpyGoal, Run, Returned, Followed, Verdict
<1>12. ASSUME NEW g \in RclpyGoal, NEW e \in {"running", "rejected"}, Takes(g, e)
       PROVE  NumbersAgree'
  BY <1>12 DEF Takes, Moves, FateGoesOn, HoldInv, RclpyTypeOK, SentType, PlaceType,
     HandlesAgree, HandleOf, NumbersAgree, NumbersOf, RclpyGoal, Run, Returned, Followed,
     Verdict
<1>13. ASSUME NEW g \in RclpyGoal, NEW f \in {"running", "canceling"}, NEW e \in Final,
              Ends(g, f, e)
       PROVE  NumbersAgree'
  BY <1>13 DEF Ends, Moves, FateGoesOn, HoldInv, RclpyTypeOK, SentType, PlaceType, HandlesAgree,
     HandleOf, NumbersAgree, NumbersOf, RclpyGoal, Run, Returned, Followed, Verdict
<1>14. ASSUME NEW g \in RclpyGoal, NEW who \in Drive \cup Withdrawers, NEW f \in Fate,
              Cancels(who, g, f)
       PROVE  NumbersAgree'
  BY <1>14 DEF Cancels, Moves, FateGoesOn, HoldInv, RclpyTypeOK, SentType, PlaceType,
     HandlesAgree, HandleOf, NumbersAgree, NumbersOf, RclpyGoal, Run, Returned, Followed,
     Verdict
<1>15. ASSUME NEW d \in Drive, NEW g \in RclpyGoal, Issues(d, g) PROVE NumbersAgree'
  <2> SUFFICES ASSUME NEW c \in Drive PROVE NumbersOf(c)'
    BY DEF NumbersAgree
  <2>1. CASE c # d
    BY <1>15, <2>1 DEF Issues, HoldInv, RclpyTypeOK, SentType, PlaceType, HandlesAgree,
       HandleOf, NumbersAgree, NumbersOf, RclpyGoal, Run, Returned, Followed, Verdict
  <2>2. CASE c = d
    <3>1. issued[d] + 1 \in Nat /\ issued'[d] = issued[d] + 1 /\ mine'[d] = issued[d] + 1
      BY <1>15 DEF Issues, HoldInv, RclpyTypeOK, SentType, Run
    <3>2. ASSUME NEW m \in 1..MaxRuns PROVE fate'[<<d, m>>] = "none" <=> m > issued[d] + 1
      <4>1. CASE m = issued[d] + 1
        BY <1>15, <3>1, <4>1 DEF Issues
      <4>2. CASE m # issued[d] + 1
        <5>1. fate'[<<d, m>>] = fate[<<d, m>>]
          BY <1>15, <4>2 DEF Issues, RclpyGoal
        <5> QED
          BY <3>1, <4>2, <5>1 DEF HoldInv, RclpyTypeOK, SentType, Run, NumbersAgree, NumbersOf
      <4> QED
        BY <4>1, <4>2
    <3> QED
      BY <1>15, <2>2, <3>1, <3>2 DEF Issues, HoldInv, RclpyTypeOK, SentType, PlaceType,
         HandlesAgree, HandleOf, NumbersAgree, NumbersOf, RclpyGoal, Run, Returned, Followed,
         Verdict
  <2> QED
    BY <2>1, <2>2
<1>16. ASSUME NEW d \in Drive, NEW p \in Returned \cup {"fetch", "issue"}, Looks(d, p)
       PROVE  NumbersAgree'
  <2> SUFFICES ASSUME NEW c \in Drive PROVE NumbersOf(c)'
    BY DEF NumbersAgree
  <2>1. /\ p \in {"accepting", "look"} \cup Followed => p = "fetch"
        /\ p # "look"
    BY DEF Returned, Followed
  <2>2. CASE c # d
    BY <1>16, <2>2 DEF Looks, HoldInv, RclpyTypeOK, SentType, PlaceType, HandlesAgree, HandleOf,
       NumbersAgree, NumbersOf, RclpyGoal, Run, Returned, Followed, Verdict
  <2>3. CASE c = d
    BY <1>16, <2>1, <2>3 DEF Looks, HoldInv, RclpyTypeOK, SentType, PlaceType, Run,
       NumbersAgree, NumbersOf, HandlesAgree, HandleOf
  <2> QED
    BY <2>2, <2>3
<1> QED
  BY <1>1, <1>2, <1>3, <1>4, <1>5, <1>6, <1>7, <1>8, <1>9, <1>10, <1>11, <1>12, <1>13, <1>14,
     <1>15, <1>16 DEF Forms, HaltStep

(* A held handle and the future beside it are of the latest goal.            *)
LEMMA HandlesStep == HoldInv /\ RclpyNext => HandlesAgree'
<1> USE RclpyAssumption DEF linkState, goalState, heldState, runState, haltState, pastState,
       Goes, RGoes, Elsewhere
<1> DEFINE Same == UNCHANGED <<issued, at, handle, future, fate, admitted>>
<1> SUFFICES ASSUME HoldInv, Forms PROVE HandlesAgree'
  BY NextForms
<1>1. ASSUME Same PROVE HandlesAgree'
  BY <1>1 DEF HoldInv, HandlesAgree, HandleOf
<1>2. ASSUME NEW d \in Drive, WatchTrips(d) PROVE Same
  BY <1>2 DEF WatchTrips, Backend
<1>3. ASSUME NEW k \in Withdrawers, NEW d \in Drive, RevokeBegins(k, d) \/ HaltEach(k, d)
      PROVE  Same
  BY <1>3 DEF RevokeBegins, AskCancel, Request, HaltEach
<1>4. ASSUME NEW k \in Withdrawers, RevokeFails(k) \/ RevokeConfirmed(k) \/ RevokeKeeps(k) \/
             HaltBegins(k) \/ HaltEnds(k)
      PROVE  Same
  BY <1>4 DEF RevokeFails, RevokeConfirmed, RevokeKeeps, HaltBegins, HaltEnds
<1>5. ASSUME NEW g \in RclpyGoal, Resolve(g) PROVE Same
  BY <1>5 DEF Resolve, Backend
<1>6. ASSUME ExecutorEnds \/ ReconnectStarts PROVE Same
  BY <1>6 DEF ExecutorEnds, Backend, ReconnectStarts
<1>7. ASSUME NEW d \in Drive, RclpyArm(d) \/ NoServer(d) \/ AcceptanceLapses(d) \/ Rejected(d)
      PROVE  HandlesAgree'
  BY <1>7 DEF RclpyArm, NoServer, AcceptanceLapses, Rejected, HoldInv, RclpyTypeOK, SentType,
     PlaceType, HandlesAgree, HandleOf, NumbersAgree, NumbersOf, RclpyGoal, Run, Returned,
     Followed, Verdict, SentIsAwaited, Awaited
<1>8. ASSUME NEW d \in Drive, HoldFuture(d) \/ DeadlinePasses(d) \/ TripSeen(d) \/ TripCancels(d)
      PROVE  HandlesAgree'
  BY <1>8 DEF HoldFuture, DeadlinePasses, TripSeen, TripCancels, Request, HoldInv, RclpyTypeOK,
     SentType, PlaceType, HandlesAgree, HandleOf, NumbersAgree, NumbersOf, RclpyGoal, Run,
     Returned, Followed, Verdict, SentIsAwaited, Awaited
<1>9. ASSUME NEW d \in Drive, Conclude(d) \/ DropGoal(d) PROVE HandlesAgree'
  BY <1>9 DEF Conclude, DropGoal, Forget, HoldInv, RclpyTypeOK, SentType, PlaceType,
     HandlesAgree, HandleOf, NumbersAgree, NumbersOf, RclpyGoal, Run, Returned, Followed,
     Verdict, SentIsAwaited, Awaited
<1>10. ASSUME NEW d \in Drive, NEW p \in Returned \cup {"fetch", "issue"}, Looks(d, p)
       PROVE  HandlesAgree'
  BY <1>10 DEF Looks, HoldInv, RclpyTypeOK, SentType, PlaceType, HandlesAgree, HandleOf,
     NumbersAgree, NumbersOf, RclpyGoal, Run, Returned, Followed, Verdict, SentIsAwaited,
     Awaited
<1>11. ASSUME NEW d \in Drive, NEW p \in {"raised", "wait"}, Fetches(d, p) PROVE HandlesAgree'
  BY <1>11 DEF Fetches, HoldInv, RclpyTypeOK, SentType, PlaceType, HandlesAgree, HandleOf,
     NumbersAgree, NumbersOf, RclpyGoal, Run, Returned, Followed, Verdict, SentIsAwaited,
     Awaited
<1>12. ASSUME NEW d \in Drive, NEW p \in Verdict, Keeps(d, p) PROVE HandlesAgree'
  BY <1>12 DEF Keeps, HoldInv, RclpyTypeOK, SentType, PlaceType, HandlesAgree, HandleOf,
     NumbersAgree, NumbersOf, RclpyGoal, Run, Returned, Followed, Verdict, SentIsAwaited,
     Awaited
<1>13. ASSUME NEW k \in Withdrawers, RevokeForgets(k) \/ HaltDrops(k) PROVE HandlesAgree'
  BY <1>13 DEF RevokeForgets, Forget, HaltDrops, HoldInv, RclpyTypeOK, SentType, PlaceType,
     HandlesAgree, HandleOf, NumbersAgree, NumbersOf, RclpyGoal, Run, Returned, Followed,
     Verdict, SentIsAwaited, Awaited
<1>14. ASSUME NEW g \in RclpyGoal, Admit(g) PROVE HandlesAgree'
  BY <1>14 DEF Admit, Backend, HoldInv, RclpyTypeOK, SentType, PlaceType, HandlesAgree,
     HandleOf, NumbersAgree, NumbersOf, RclpyGoal, Run, Returned, Followed, Verdict,
     SentIsAwaited, Awaited
<1>15. ASSUME NEW g \in RclpyGoal, NEW e \in {"running", "rejected"}, Takes(g, e)
       PROVE  HandlesAgree'
  BY <1>15 DEF Takes, Moves, FateGoesOn, HoldInv, RclpyTypeOK, SentType, PlaceType,
     HandlesAgree, HandleOf, NumbersAgree, NumbersOf, RclpyGoal, Run, Returned, Followed,
     Verdict, SentIsAwaited, Awaited
<1>16. ASSUME NEW g \in RclpyGoal, NEW f \in {"running", "canceling"}, NEW e \in Final,
              Ends(g, f, e)
       PROVE  HandlesAgree'
  BY <1>16 DEF Ends, Moves, FateGoesOn, HoldInv, RclpyTypeOK, SentType, PlaceType, HandlesAgree,
     HandleOf, NumbersAgree, NumbersOf, RclpyGoal, Run, Returned, Followed, Verdict,
     SentIsAwaited, Awaited
<1>17. ASSUME NEW g \in RclpyGoal, NEW who \in Drive \cup Withdrawers, NEW f \in Fate,
              Cancels(who, g, f)
       PROVE  HandlesAgree'
  BY <1>17 DEF Cancels, Moves, FateGoesOn, HoldInv, RclpyTypeOK, SentType, PlaceType,
     HandlesAgree, HandleOf, NumbersAgree, NumbersOf, RclpyGoal, Run, Returned, Followed,
     Verdict, SentIsAwaited, Awaited
<1>18. ASSUME ReconnectClears PROVE HandlesAgree'
  BY <1>18 DEF ReconnectClears, Backend, HoldInv, RclpyTypeOK, SentType, PlaceType,
     HandlesAgree, HandleOf, NumbersAgree, NumbersOf, RclpyGoal, Run, Returned, Followed,
     Verdict, SentIsAwaited, Awaited
<1>19. ASSUME NEW d \in Drive, Holds(d) PROVE HandlesAgree'
  <2> SUFFICES ASSUME NEW c \in Drive PROVE HandleOf(c)'
    BY DEF HandlesAgree
  <2>1. CASE c # d
    BY <1>19, <2>1 DEF Holds, HoldInv, RclpyTypeOK, SentType, PlaceType, HandlesAgree, HandleOf,
       NumbersAgree, NumbersOf, RclpyGoal, Run, Returned, Followed, Verdict, SentIsAwaited,
       Awaited
  <2>2. CASE c = d
    BY <1>19, <2>2 DEF Holds, HoldInv, RclpyTypeOK, SentType, PlaceType, HandlesAgree, HandleOf,
       NumbersAgree, NumbersOf, RclpyGoal, Run, Returned, Followed, Verdict, SentIsAwaited,
       Awaited
  <2> QED
    BY <2>1, <2>2
<1>20. ASSUME NEW d \in Drive, NEW g \in RclpyGoal, Issues(d, g) PROVE HandlesAgree'
  <2> SUFFICES ASSUME NEW c \in Drive PROVE HandleOf(c)'
    BY DEF HandlesAgree
  <2>1. CASE c # d
    BY <1>20, <2>1 DEF Issues, HoldInv, RclpyTypeOK, SentType, PlaceType, HandlesAgree,
       HandleOf, NumbersAgree, NumbersOf, RclpyGoal, Run, Returned, Followed, Verdict,
       SentIsAwaited, Awaited
  <2>2. CASE c = d
    BY <1>20, <2>2 DEF Issues, HoldInv, RclpyTypeOK, SentType, PlaceType, HandlesAgree,
       HandleOf, NumbersAgree, NumbersOf, RclpyGoal, Run, Returned, Followed, Verdict,
       SentIsAwaited, Awaited
  <2> QED
    BY <2>1, <2>2
<1> QED
  BY <1>1, <1>2, <1>3, <1>4, <1>5, <1>6, <1>7, <1>8, <1>9, <1>10, <1>11, <1>12, <1>13, <1>14,
     <1>15, <1>16, <1>17, <1>18, <1>19, <1>20 DEF Forms, HaltStep

(* A goal the server has not taken is waited for, or was in vain.            *)
LEMMA SentStep == HoldInv /\ RclpyNext => SentIsAwaited'
<1> USE RclpyAssumption DEF linkState, goalState, heldState, runState, haltState, pastState,
       Goes, RGoes, Elsewhere
<1> DEFINE Same == UNCHANGED <<admitted, fate, mine, at, unfollowed>>
<1> SUFFICES ASSUME HoldInv, Forms PROVE SentIsAwaited'
  BY NextForms
<1>1. ASSUME Same PROVE SentIsAwaited'
  BY <1>1 DEF HoldInv, SentIsAwaited, Awaited
<1>2. ASSUME NEW d \in Drive, WatchTrips(d) PROVE Same
  BY <1>2 DEF WatchTrips, Backend
<1>3. ASSUME NEW k \in Withdrawers, NEW d \in Drive, RevokeBegins(k, d) \/ HaltEach(k, d)
      PROVE  Same
  BY <1>3 DEF RevokeBegins, AskCancel, Request, HaltEach
<1>4. ASSUME NEW k \in Withdrawers, RevokeFails(k) \/ RevokeConfirmed(k) \/ RevokeForgets(k) \/
             RevokeKeeps(k) \/ HaltBegins(k) \/ HaltDrops(k) \/ HaltEnds(k)
      PROVE  Same
  BY <1>4 DEF RevokeFails, RevokeConfirmed, RevokeForgets, Forget, RevokeKeeps, HaltBegins,
     HaltDrops, HaltEnds
<1>5. ASSUME NEW g \in RclpyGoal, Resolve(g) PROVE Same
  BY <1>5 DEF Resolve, Backend
<1>6. ASSUME ExecutorEnds \/ ReconnectClears \/ ReconnectStarts PROVE Same
  BY <1>6 DEF ExecutorEnds, Backend, ReconnectClears, ReconnectStarts
<1>7. ASSUME NEW d \in Drive, RclpyArm(d) \/ NoServer(d) \/ AcceptanceLapses(d) \/ HoldFuture(d)
      PROVE  SentIsAwaited'
  BY <1>7 DEF RclpyArm, NoServer, AcceptanceLapses, HoldFuture, HoldInv, RclpyTypeOK, SentType,
     PlaceType, NumbersAgree, NumbersOf, RclpyGoal, Run, Returned, Verdict, SentIsAwaited,
     Awaited
<1>8. ASSUME NEW d \in Drive, DeadlinePasses(d) \/ TripSeen(d) \/ TripCancels(d) \/ Conclude(d)
      PROVE  SentIsAwaited'
  BY <1>8 DEF DeadlinePasses, TripSeen, TripCancels, Request, Conclude, HoldInv, RclpyTypeOK,
     SentType, PlaceType, NumbersAgree, NumbersOf, RclpyGoal, Run, Returned, Verdict,
     SentIsAwaited, Awaited
<1>9. ASSUME NEW d \in Drive, DropGoal(d) PROVE SentIsAwaited'
  BY <1>9 DEF DropGoal, Forget, HoldInv, RclpyTypeOK, SentType, PlaceType, NumbersAgree,
     NumbersOf, RclpyGoal, Run, Returned, Verdict, SentIsAwaited, Awaited
<1>10. ASSUME NEW d \in Drive, NEW g \in RclpyGoal, Issues(d, g) PROVE SentIsAwaited'
  BY <1>10 DEF Issues, HoldInv, RclpyTypeOK, SentType, PlaceType, NumbersAgree, NumbersOf,
     RclpyGoal, Run, Returned, Verdict, SentIsAwaited, Awaited
<1>11. ASSUME NEW d \in Drive, NEW p \in Returned \cup {"fetch", "issue"}, Looks(d, p)
       PROVE  SentIsAwaited'
  BY <1>11 DEF Looks, HoldInv, RclpyTypeOK, SentType, PlaceType, NumbersAgree, NumbersOf,
     RclpyGoal, Run, Returned, Verdict, SentIsAwaited, Awaited
<1>12. ASSUME NEW d \in Drive, NEW p \in {"raised", "wait"}, Fetches(d, p) PROVE SentIsAwaited'
  BY <1>12 DEF Fetches, HoldInv, RclpyTypeOK, SentType, PlaceType, NumbersAgree, NumbersOf,
     RclpyGoal, Run, Returned, Verdict, SentIsAwaited, Awaited
<1>13. ASSUME NEW d \in Drive, NEW p \in Verdict, Keeps(d, p) PROVE SentIsAwaited'
  BY <1>13 DEF Keeps, HoldInv, RclpyTypeOK, SentType, PlaceType, NumbersAgree, NumbersOf,
     RclpyGoal, Run, Returned, Verdict, SentIsAwaited, Awaited
<1>14. ASSUME NEW g \in RclpyGoal, Admit(g) PROVE SentIsAwaited'
  BY <1>14 DEF Admit, Backend, HoldInv, RclpyTypeOK, SentType, PlaceType, NumbersAgree,
     NumbersOf, RclpyGoal, Run, Returned, Verdict, SentIsAwaited, Awaited
<1>15. ASSUME NEW g \in RclpyGoal, NEW e \in {"running", "rejected"}, Takes(g, e)
       PROVE  SentIsAwaited'
  BY <1>15 DEF Takes, Moves, FateGoesOn, HoldInv, RclpyTypeOK, SentType, PlaceType,
     NumbersAgree, NumbersOf, RclpyGoal, Run, Returned, Verdict, SentIsAwaited, Awaited
<1>16. ASSUME NEW g \in RclpyGoal, NEW f \in {"running", "canceling"}, NEW e \in Final,
              Ends(g, f, e)
       PROVE  SentIsAwaited'
  BY <1>16 DEF Ends, Moves, FateGoesOn, HoldInv, RclpyTypeOK, SentType, PlaceType, NumbersAgree,
     NumbersOf, RclpyGoal, Run, Returned, Verdict, SentIsAwaited, Awaited
<1>17. ASSUME NEW g \in RclpyGoal, NEW who \in Drive \cup Withdrawers, NEW f \in Fate,
              Cancels(who, g, f)
       PROVE  SentIsAwaited'
  BY <1>17 DEF Cancels, Moves, FateGoesOn, HoldInv, RclpyTypeOK, SentType, PlaceType,
     NumbersAgree, NumbersOf, RclpyGoal, Run, Returned, Verdict, SentIsAwaited, Awaited
<1>18. ASSUME NEW d \in Drive, Rejected(d) PROVE SentIsAwaited'
  <2>1. mine[d] = issued[d] /\ issued[d] # 0 /\ issued[d] \in Run /\ at[d] = "accepting"
        /\ fate[<<d, mine[d]>>] = "rejected"
    BY <1>18 DEF Rejected, HoldInv, RclpyTypeOK, SentType, NumbersAgree, NumbersOf
  <2> SUFFICES ASSUME NEW h \in RclpyGoal PROVE Awaited(h)'
    BY DEF SentIsAwaited
  <2>2. Awaited(h) /\ UNCHANGED <<admitted, fate, mine, unfollowed>>
    BY <1>18 DEF Rejected, HoldInv, SentIsAwaited
  <2>3. CASE fate[h] = "sent"
    <3>1. ~(h[1] = d /\ h[2] = mine[d])
      BY <2>1, <2>3 DEF RclpyGoal
    <3>2. h[1] # d => at'[h[1]] = at[h[1]]
      BY <1>18 DEF Rejected, HoldInv, RclpyTypeOK, PlaceType, RclpyGoal
    <3> QED
      BY <2>2, <2>3, <3>1, <3>2 DEF Awaited
  <2> QED
    BY <2>2, <2>3 DEF Awaited
<1>19. ASSUME NEW d \in Drive, Holds(d) PROVE SentIsAwaited'
  <2>1. fate[<<d, mine[d]>>] # "sent" /\ at[d] = "accepting"
    BY <1>19 DEF Holds, HoldInv, NumbersAgree, NumbersOf, SentIsAwaited, Awaited, RclpyTypeOK,
       SentType
  <2> SUFFICES ASSUME NEW h \in RclpyGoal PROVE Awaited(h)'
    BY DEF SentIsAwaited
  <2>2. Awaited(h) /\ UNCHANGED <<admitted, fate, mine, unfollowed>>
    BY <1>19 DEF Holds, HoldInv, SentIsAwaited
  <2>3. CASE fate[h] = "sent"
    <3>1. ~(h[1] = d /\ h[2] = mine[d])
      BY <2>1, <2>3 DEF RclpyGoal
    <3>2. h[1] # d => at'[h[1]] = at[h[1]]
      BY <1>19 DEF Holds, HoldInv, RclpyTypeOK, PlaceType, RclpyGoal
    <3> QED
      BY <2>2, <2>3, <3>1, <3>2 DEF Awaited
  <2> QED
    BY <2>2, <2>3 DEF Awaited
<1> QED
  BY <1>1, <1>2, <1>3, <1>4, <1>5, <1>6, <1>7, <1>8, <1>9, <1>10, <1>11, <1>12, <1>13, <1>14,
     <1>15, <1>16, <1>17, <1>18, <1>19 DEF Forms, HaltStep

(* A result future holds what the server made of the goal.                   *)
LEMMA EndedStep == HoldInv /\ RclpyNext => EndedIsOver'
<1> USE RclpyAssumption DEF linkState, goalState, heldState, runState, haltState, pastState,
       Goes, RGoes, Elsewhere
<1> DEFINE Same == UNCHANGED <<ended, fate, mine, at>>
<1> SUFFICES ASSUME HoldInv, Forms PROVE EndedIsOver'
  BY NextForms
<1>1. ASSUME Same PROVE EndedIsOver'
  BY <1>1 DEF HoldInv, EndedIsOver
<1>2. ASSUME NEW d \in Drive, WatchTrips(d) PROVE Same
  BY <1>2 DEF WatchTrips, Backend
<1>3. ASSUME NEW k \in Withdrawers, NEW d \in Drive, RevokeBegins(k, d) \/ HaltEach(k, d)
      PROVE  Same
  BY <1>3 DEF RevokeBegins, AskCancel, Request, HaltEach
<1>4. ASSUME NEW k \in Withdrawers, RevokeFails(k) \/ RevokeConfirmed(k) \/ RevokeForgets(k) \/
             RevokeKeeps(k) \/ HaltBegins(k) \/ HaltDrops(k) \/ HaltEnds(k)
      PROVE  Same
  BY <1>4 DEF RevokeFails, RevokeConfirmed, RevokeForgets, Forget, RevokeKeeps, HaltBegins,
     HaltDrops, HaltEnds
<1>5. ASSUME NEW g \in RclpyGoal, Admit(g) PROVE Same
  BY <1>5 DEF Admit, Backend
<1>6. ASSUME ExecutorEnds \/ ReconnectClears \/ ReconnectStarts PROVE Same
  BY <1>6 DEF ExecutorEnds, Backend, ReconnectClears, ReconnectStarts
<1>7. ASSUME NEW d \in Drive, RclpyArm(d) \/ NoServer(d) \/ AcceptanceLapses(d) \/ Rejected(d)
      PROVE  EndedIsOver'
  BY <1>7 DEF RclpyArm, NoServer, AcceptanceLapses, Rejected, HoldInv, RclpyTypeOK, SentType,
     PlaceType, NumbersAgree, NumbersOf, RclpyGoal, Run, Returned, Verdict, EndedIsOver
<1>8. ASSUME NEW d \in Drive, Holds(d) \/ HoldFuture(d) \/ DeadlinePasses(d) \/ TripSeen(d)
      PROVE  EndedIsOver'
  BY <1>8 DEF Holds, HoldFuture, DeadlinePasses, TripSeen, HoldInv, RclpyTypeOK, SentType,
     PlaceType, NumbersAgree, NumbersOf, RclpyGoal, Run, Returned, Verdict, EndedIsOver
<1>9. ASSUME NEW d \in Drive, TripCancels(d) \/ DropGoal(d) PROVE EndedIsOver'
  BY <1>9 DEF TripCancels, Request, DropGoal, Forget, HoldInv, RclpyTypeOK, SentType, PlaceType,
     NumbersAgree, NumbersOf, RclpyGoal, Run, Returned, Verdict, EndedIsOver
<1>10. ASSUME NEW d \in Drive, NEW g \in RclpyGoal, Issues(d, g) PROVE EndedIsOver'
  BY <1>10 DEF Issues, HoldInv, RclpyTypeOK, SentType, PlaceType, NumbersAgree, NumbersOf,
     RclpyGoal, Run, Returned, Verdict, EndedIsOver
<1>11. ASSUME NEW d \in Drive, NEW p \in Returned \cup {"fetch", "issue"}, Looks(d, p)
       PROVE  EndedIsOver'
  BY <1>11 DEF Looks, HoldInv, RclpyTypeOK, SentType, PlaceType, NumbersAgree, NumbersOf,
     RclpyGoal, Run, Returned, Verdict, EndedIsOver
<1>12. ASSUME NEW d \in Drive, NEW p \in {"raised", "wait"}, Fetches(d, p) PROVE EndedIsOver'
  BY <1>12 DEF Fetches, HoldInv, RclpyTypeOK, SentType, PlaceType, NumbersAgree, NumbersOf,
     RclpyGoal, Run, Returned, Verdict, EndedIsOver
<1>13. ASSUME NEW d \in Drive, NEW p \in Verdict, Keeps(d, p) PROVE EndedIsOver'
  BY <1>13 DEF Keeps, HoldInv, RclpyTypeOK, SentType, PlaceType, NumbersAgree, NumbersOf,
     RclpyGoal, Run, Returned, Verdict, EndedIsOver
<1>14. ASSUME NEW g \in RclpyGoal, NEW e \in {"running", "rejected"}, Takes(g, e)
       PROVE  EndedIsOver'
  BY <1>14 DEF Takes, Moves, FateGoesOn, HoldInv, RclpyTypeOK, SentType, PlaceType,
     NumbersAgree, NumbersOf, RclpyGoal, Run, Returned, Verdict, EndedIsOver
<1>15. ASSUME NEW g \in RclpyGoal, NEW f \in {"running", "canceling"}, NEW e \in Final,
              Ends(g, f, e)
       PROVE  EndedIsOver'
  BY <1>15 DEF Ends, Moves, FateGoesOn, HoldInv, RclpyTypeOK, SentType, PlaceType, NumbersAgree,
     NumbersOf, RclpyGoal, Run, Returned, Verdict, EndedIsOver
<1>16. ASSUME NEW g \in RclpyGoal, NEW who \in Drive \cup Withdrawers, NEW f \in Fate,
              Cancels(who, g, f)
       PROVE  EndedIsOver'
  BY <1>16 DEF Cancels, Moves, FateGoesOn, HoldInv, RclpyTypeOK, SentType, PlaceType,
     NumbersAgree, NumbersOf, RclpyGoal, Run, Returned, Verdict, EndedIsOver
<1>17. ASSUME NEW d \in Drive, Conclude(d) PROVE EndedIsOver'
  <2>1. ended[<<d, mine[d]>>] # 0
    BY <1>17 DEF Conclude
  <2> QED
    BY <1>17, <2>1 DEF Conclude, HoldInv, RclpyTypeOK, SentType, PlaceType, EndedIsOver
<1>18. ASSUME NEW g \in RclpyGoal, Resolve(g) PROVE EndedIsOver'
  <2>1. PICK s \in {4, 5, 6} :
             /\ ended' = [ended EXCEPT ![g] = s]
             /\ fate[g] \in {"succeeded", "canceled", "aborted"} /\ (s = 5 => fate[g] = "canceled")
    BY <1>18 DEF Resolve
  <2>2. UNCHANGED <<fate, at, mine>>
    BY <1>18 DEF Resolve, Backend
  <2> QED
    BY <2>1, <2>2 DEF HoldInv, RclpyTypeOK, SentType, EndedIsOver
<1> QED
  BY <1>1, <1>2, <1>3, <1>4, <1>5, <1>6, <1>7, <1>8, <1>9, <1>10, <1>11, <1>12, <1>13, <1>14,
     <1>15, <1>16, <1>17, <1>18 DEF Forms, HaltStep

(* The server drives one goal, and the last one it took.                     *)
LEMMA OneRunsStep == HoldInv /\ RclpyNext => OneRuns'
<1> USE RclpyAssumption DEF linkState, goalState, heldState, runState, haltState, pastState,
       Goes, RGoes, Elsewhere
<1> DEFINE Same == UNCHANGED <<fate, unfollowed>>
<1> SUFFICES ASSUME HoldInv, Forms PROVE OneRuns'
  BY NextForms
<1>1. ASSUME Same PROVE OneRuns'
  BY <1>1 DEF HoldInv, OneRuns, Preempts
<1>2. ASSUME NEW d \in Drive, RclpyArm(d) \/ NoServer(d) \/ Rejected(d) \/ Holds(d) \/
             HoldFuture(d) \/ DeadlinePasses(d) \/ TripSeen(d) \/ TripCancels(d) \/
             Conclude(d) \/ DropGoal(d) \/ WatchTrips(d)
      PROVE  Same
  BY <1>2 DEF RclpyArm, NoServer, Rejected, Holds, HoldFuture, DeadlinePasses, TripSeen,
     TripCancels, Request, Conclude, DropGoal, Forget, WatchTrips, Backend
<1>3. ASSUME NEW d \in Drive, NEW p \in Returned \cup {"fetch", "issue"}, Looks(d, p) PROVE Same
  BY <1>3 DEF Looks
<1>4. ASSUME NEW d \in Drive, NEW p \in {"raised", "wait"}, Fetches(d, p) PROVE Same
  BY <1>4 DEF Fetches
<1>5. ASSUME NEW d \in Drive, NEW p \in Verdict, Keeps(d, p) PROVE Same
  BY <1>5 DEF Keeps
<1>6. ASSUME NEW k \in Withdrawers, NEW d \in Drive, RevokeBegins(k, d) \/ HaltEach(k, d)
      PROVE  Same
  BY <1>6 DEF RevokeBegins, AskCancel, Request, HaltEach
<1>7. ASSUME NEW k \in Withdrawers, RevokeFails(k) \/ RevokeConfirmed(k) \/ RevokeForgets(k) \/
             RevokeKeeps(k) \/ HaltBegins(k) \/ HaltDrops(k) \/ HaltEnds(k)
      PROVE  Same
  BY <1>7 DEF RevokeFails, RevokeConfirmed, RevokeForgets, Forget, RevokeKeeps, HaltBegins,
     HaltDrops, HaltEnds
<1>8. ASSUME NEW g \in RclpyGoal, Admit(g) \/ Resolve(g) PROVE Same
  BY <1>8 DEF Admit, Backend, Resolve
<1>9. ASSUME ExecutorEnds \/ ReconnectClears \/ ReconnectStarts PROVE Same
  BY <1>9 DEF ExecutorEnds, Backend, ReconnectClears, ReconnectStarts
<1>10. ASSUME NEW d \in Drive, AcceptanceLapses(d) PROVE OneRuns'
  <2>1. fate' = fate /\ unfollowed \subseteq unfollowed'
    BY <1>10 DEF AcceptanceLapses
  <2> QED
    BY <2>1 DEF HoldInv, OneRuns, Preempts
<1>11. ASSUME NEW d \in Drive, NEW g \in RclpyGoal, Issues(d, g) PROVE OneRuns'
  <2>3. ASSUME NEW h \in RclpyGoal PROVE
           /\ fate'[h] \in UnderWay => fate[h] \in UnderWay
           /\ fate'[h] = "running" => fate[h] = "running"
           /\ fate'[h] \notin {"none", "sent", "rejected"}
              => fate[h] \notin {"none", "sent", "rejected"}
    BY <1>11, <2>3 DEF Issues, UnderWay
  <2>4. ASSUME NEW c \in Drive, NEW m \in 1..MaxRuns, NEW n \in 1..MaxRuns PROVE Preempts(c, m, n)'
    <3>1. <<c, m>> \in RclpyGoal /\ <<c, n>> \in RclpyGoal /\ Preempts(c, m, n)
      BY DEF RclpyGoal, HoldInv, OneRuns
    <3>2. unfollowed' = unfollowed
      BY <1>11 DEF Issues
    <3> QED
      BY <2>3, <3>1, <3>2 DEF Preempts
  <2> QED
    BY <2>3, <2>4 DEF HoldInv, OneRuns
<1>12. ASSUME NEW g \in RclpyGoal, NEW e \in {"running", "rejected"}, Takes(g, e) PROVE OneRuns'
  <2>1. ASSUME NEW h \in RclpyGoal, NEW i \in RclpyGoal,
               fate'[h] \in UnderWay, fate'[i] \in UnderWay
        PROVE  h = i
    BY <1>12, <2>1 DEF Takes, Moves, UnderWay, HoldInv, OneRuns
  <2>2. ASSUME NEW c \in Drive, NEW m \in 1..MaxRuns, NEW n \in 1..MaxRuns PROVE Preempts(c, m, n)'
    <3> SUFFICES ASSUME fate'[<<c, m>>] = "running", m < n,
                        fate'[<<c, n>>] \notin {"none", "sent", "rejected"}
                 PROVE  <<c, m>> \in unfollowed
      BY <1>12 DEF Preempts, Takes, Moves
    <3>1. <<c, m>> \in RclpyGoal /\ <<c, n>> \in RclpyGoal /\ <<c, m>> # <<c, n>>
      BY DEF RclpyGoal
    <3>2. CASE <<c, m>> = g
      <4>1. fate[<<c, n>>] # "none"
        BY <1>12, <3>1 DEF Takes, Moves, FateGoesOn
      <4>2. n <= issued[c] /\ mine[c] = issued[c] /\ issued[c] \in Run
        BY <4>1 DEF HoldInv, NumbersAgree, NumbersOf, RclpyTypeOK, SentType, Run
      <4>3. Awaited(g) /\ fate[g] = "sent"
        BY <1>12 DEF HoldInv, SentIsAwaited, Takes, Moves
      <4> QED
        BY <3>2, <4>2, <4>3 DEF Awaited, Run
    <3>3. CASE <<c, m>> # g
      <4>1. fate[<<c, m>>] = "running" /\ fate'[g] # "running" /\ <<c, n>> # g
        BY <1>12, <3>1, <3>3 DEF Takes, Moves
      <4>2. fate[<<c, n>>] \notin {"none", "sent", "rejected"}
        BY <1>12, <3>1, <4>1 DEF Takes, Moves
      <4> QED
        BY <4>1, <4>2 DEF HoldInv, OneRuns, Preempts
    <3> QED
      BY <3>2, <3>3
  <2> QED
    BY <2>1, <2>2 DEF OneRuns
<1>13. ASSUME NEW g \in RclpyGoal, NEW f \in {"running", "canceling"}, NEW e \in Final,
              Ends(g, f, e)
       PROVE  OneRuns'
  <2>3. ASSUME NEW h \in RclpyGoal PROVE
           /\ fate'[h] \in UnderWay => fate[h] \in UnderWay
           /\ fate'[h] = "running" => fate[h] = "running"
           /\ fate'[h] \notin {"none", "sent", "rejected"}
              => fate[h] \notin {"none", "sent", "rejected"}
    BY <1>13, <2>3 DEF Ends, Moves, Final, UnderWay
  <2>4. ASSUME NEW c \in Drive, NEW m \in 1..MaxRuns, NEW n \in 1..MaxRuns PROVE Preempts(c, m, n)'
    <3>1. <<c, m>> \in RclpyGoal /\ <<c, n>> \in RclpyGoal /\ Preempts(c, m, n)
      BY DEF RclpyGoal, HoldInv, OneRuns
    <3>2. unfollowed' = unfollowed
      BY <1>13 DEF Ends, Moves, Final
    <3> QED
      BY <2>3, <3>1, <3>2 DEF Preempts
  <2> QED
    BY <2>3, <2>4 DEF HoldInv, OneRuns
<1>14. ASSUME NEW g \in RclpyGoal, NEW who \in Drive \cup Withdrawers, NEW f \in Fate,
              Cancels(who, g, f)
       PROVE  OneRuns'
  <2>3. ASSUME NEW h \in RclpyGoal PROVE
           /\ fate'[h] \in UnderWay => fate[h] \in UnderWay
           /\ fate'[h] = "running" => fate[h] = "running"
           /\ fate'[h] \notin {"none", "sent", "rejected"}
              => fate[h] \notin {"none", "sent", "rejected"}
    BY <1>14, <2>3 DEF Cancels, Moves, UnderWay
  <2>4. ASSUME NEW c \in Drive, NEW m \in 1..MaxRuns, NEW n \in 1..MaxRuns PROVE Preempts(c, m, n)'
    <3>1. <<c, m>> \in RclpyGoal /\ <<c, n>> \in RclpyGoal /\ Preempts(c, m, n)
      BY DEF RclpyGoal, HoldInv, OneRuns
    <3>2. unfollowed' = unfollowed
      BY <1>14 DEF Cancels, Moves
    <3> QED
      BY <2>3, <3>1, <3>2 DEF Preempts
  <2> QED
    BY <2>3, <2>4 DEF HoldInv, OneRuns
<1> QED
  BY <1>1, <1>2, <1>3, <1>4, <1>5, <1>6, <1>7, <1>8, <1>9, <1>10, <1>11, <1>12, <1>13, <1>14 DEF
     Forms, HaltStep

(* A goal sent into a withdrawal of its call is known as overtaken.          *)
LEMMA CrossingsStep == HoldInv /\ RclpyNext => CrossingsAreKnown'
<1> USE RclpyAssumption DEF linkState, goalState, heldState, runState, haltState, pastState,
       Goes, RGoes, Elsewhere
<1> DEFINE Same == UNCHANGED <<at, mine, overtaken, results, crossed, rat, revoked, left>>
<1> SUFFICES ASSUME HoldInv, Forms PROVE CrossingsAreKnown'
  BY NextForms
<1>1. ASSUME Same PROVE CrossingsAreKnown'
  BY <1>1 DEF HoldInv, CrossingsAreKnown, CrossingOf, Withdrawing
<1>2. ASSUME NEW d \in Drive, WatchTrips(d) PROVE Same
  BY <1>2 DEF WatchTrips, Backend
<1>3. ASSUME NEW g \in RclpyGoal, Admit(g) \/ Resolve(g) PROVE Same
  BY <1>3 DEF Admit, Backend, Resolve
<1>4. ASSUME NEW g \in RclpyGoal, NEW e \in {"running", "rejected"}, Takes(g, e) PROVE Same
  BY <1>4 DEF Takes, Moves, FateGoesOn
<1>5. ASSUME NEW g \in RclpyGoal, NEW f \in {"running", "canceling"}, NEW e \in Final,
             Ends(g, f, e)
      PROVE  Same
  BY <1>5 DEF Ends, Moves, FateGoesOn
<1>6. ASSUME NEW g \in RclpyGoal, NEW who \in Drive \cup Withdrawers, NEW f \in Fate,
             Cancels(who, g, f)
      PROVE  Same
  BY <1>6 DEF Cancels, Moves, FateGoesOn
<1>7. ASSUME ExecutorEnds \/ ReconnectClears \/ ReconnectStarts PROVE Same
  BY <1>7 DEF ExecutorEnds, Backend, ReconnectClears, ReconnectStarts
<1>8. ASSUME NEW d \in Drive, RclpyArm(d) \/ NoServer(d) \/ AcceptanceLapses(d) \/ Rejected(d)
      PROVE  CrossingsAreKnown'
  BY <1>8 DEF RclpyArm, NoServer, AcceptanceLapses, Rejected, HoldInv, RclpyTypeOK, SentType,
     PlaceType, HaltType, NumbersAgree, NumbersOf, HandlesAgree, HandleOf, CrossingsAreKnown,
     CrossingOf, Withdrawing, Returned, Verdict, Withdraw
<1>9. ASSUME NEW d \in Drive, Holds(d) \/ HoldFuture(d) \/ DeadlinePasses(d) \/ TripSeen(d)
      PROVE  CrossingsAreKnown'
  BY <1>9 DEF Holds, HoldFuture, DeadlinePasses, TripSeen, HoldInv, RclpyTypeOK, SentType,
     PlaceType, HaltType, NumbersAgree, NumbersOf, HandlesAgree, HandleOf, CrossingsAreKnown,
     CrossingOf, Withdrawing, Returned, Verdict, Withdraw
<1>10. ASSUME NEW d \in Drive, TripCancels(d) \/ Conclude(d) \/ DropGoal(d)
       PROVE  CrossingsAreKnown'
  BY <1>10 DEF TripCancels, Request, Conclude, DropGoal, Forget, HoldInv, RclpyTypeOK, SentType,
     PlaceType, HaltType, NumbersAgree, NumbersOf, HandlesAgree, HandleOf, CrossingsAreKnown,
     CrossingOf, Withdrawing, Returned, Verdict, Withdraw
<1>11. ASSUME NEW d \in Drive, NEW p \in Returned \cup {"fetch", "issue"}, Looks(d, p)
       PROVE  CrossingsAreKnown'
  BY <1>11 DEF Looks, HoldInv, RclpyTypeOK, SentType, PlaceType, HaltType, NumbersAgree,
     NumbersOf, HandlesAgree, HandleOf, CrossingsAreKnown, CrossingOf, Withdrawing, Returned,
     Verdict, Withdraw
<1>12. ASSUME NEW d \in Drive, NEW p \in {"raised", "wait"}, Fetches(d, p)
       PROVE  CrossingsAreKnown'
  BY <1>12 DEF Fetches, HoldInv, RclpyTypeOK, SentType, PlaceType, HaltType, NumbersAgree,
     NumbersOf, HandlesAgree, HandleOf, CrossingsAreKnown, CrossingOf, Withdrawing, Returned,
     Verdict, Withdraw
<1>13. ASSUME NEW d \in Drive, NEW p \in Verdict, Keeps(d, p) PROVE CrossingsAreKnown'
  BY <1>13 DEF Keeps, HoldInv, RclpyTypeOK, SentType, PlaceType, HaltType, NumbersAgree,
     NumbersOf, HandlesAgree, HandleOf, CrossingsAreKnown, CrossingOf, Withdrawing, Returned,
     Verdict, Withdraw
<1>14. ASSUME NEW k \in Withdrawers, RevokeFails(k) \/ RevokeConfirmed(k) \/ RevokeForgets(k) \/
              RevokeKeeps(k)
       PROVE  CrossingsAreKnown'
  BY <1>14 DEF RevokeFails, RevokeConfirmed, RevokeForgets, Forget, RevokeKeeps, HoldInv,
     RclpyTypeOK, SentType, PlaceType, HaltType, NumbersAgree, NumbersOf, HandlesAgree,
     HandleOf, CrossingsAreKnown, CrossingOf, Withdrawing, Returned, Verdict, Withdraw
<1>15. ASSUME NEW k \in Withdrawers, HaltBegins(k) \/ HaltDrops(k) \/ HaltEnds(k)
       PROVE  CrossingsAreKnown'
  BY <1>15 DEF HaltBegins, HaltDrops, Forget, HaltEnds, HoldInv, RclpyTypeOK, SentType,
     PlaceType, HaltType, NumbersAgree, NumbersOf, HandlesAgree, HandleOf, CrossingsAreKnown,
     CrossingOf, Withdrawing, Returned, Verdict, Withdraw
<1>16. ASSUME NEW k \in Withdrawers, NEW d \in Drive, RevokeBegins(k, d)
       PROVE  CrossingsAreKnown'
  BY <1>16 DEF RevokeBegins, AskCancel, Request, HoldInv, RclpyTypeOK, SentType, PlaceType,
     HaltType, NumbersAgree, NumbersOf, HandlesAgree, HandleOf, CrossingsAreKnown, CrossingOf,
     Withdrawing, Returned, Verdict, Withdraw
<1>17. ASSUME NEW k \in Withdrawers, NEW d \in Drive, HaltEach(k, d) PROVE CrossingsAreKnown'
  BY <1>17 DEF HaltEach, AskCancel, Request, HoldInv, RclpyTypeOK, SentType, PlaceType,
     HaltType, NumbersAgree, NumbersOf, HandlesAgree, HandleOf, CrossingsAreKnown, CrossingOf,
     Withdrawing, Returned, Verdict, Withdraw
<1>18. ASSUME NEW d \in Drive, NEW g \in RclpyGoal, Issues(d, g) PROVE CrossingsAreKnown'
  <2> SUFFICES ASSUME NEW c \in Drive PROVE CrossingOf(c)'
    BY DEF CrossingsAreKnown
  <2>1. CASE c # d
    BY <1>18, <2>1 DEF Issues, HoldInv, RclpyTypeOK, SentType, PlaceType, HaltType,
       NumbersAgree, NumbersOf, HandlesAgree, HandleOf, CrossingsAreKnown, CrossingOf,
       Withdrawing, Returned, Verdict, Withdraw, Run
  <2>2. CASE c = d
    BY <1>18, <2>2 DEF Issues, HoldInv, RclpyTypeOK, SentType, PlaceType, HaltType,
       NumbersAgree, NumbersOf, HandlesAgree, HandleOf, CrossingsAreKnown, CrossingOf,
       Withdrawing, Returned, Verdict, Withdraw, Run
  <2> QED
    BY <2>1, <2>2
<1> QED
  BY <1>1, <1>2, <1>3, <1>4, <1>5, <1>6, <1>7, <1>8, <1>9, <1>10, <1>11, <1>12, <1>13, <1>14,
     <1>15, <1>16, <1>17, <1>18 DEF Forms, HaltStep

(* A withdrawal that will forget a goal has asked for its cancel.            *)
LEMMA WithdrawnStep == HoldInv /\ RclpyNext => WithdrawnIsAsked'
<1> USE RclpyAssumption DEF linkState, goalState, heldState, runState, haltState, pastState,
       Goes, RGoes, Elsewhere
<1> DEFINE Same == UNCHANGED <<rat, revoked, handle, askedOf, overtaken, ended>>
<1> SUFFICES ASSUME HoldInv, Forms PROVE WithdrawnIsAsked'
  BY NextForms
<1>1. ASSUME Same PROVE WithdrawnIsAsked'
  BY <1>1 DEF HoldInv, WithdrawnIsAsked, AskedFor
<1>2. ASSUME NEW d \in Drive, RclpyArm(d) \/ NoServer(d) \/ AcceptanceLapses(d) \/ Rejected(d) \/
             HoldFuture(d) \/ DeadlinePasses(d) \/ TripSeen(d) \/ Conclude(d) \/
             WatchTrips(d)
      PROVE  Same
  BY <1>2 DEF RclpyArm, NoServer, AcceptanceLapses, Rejected, HoldFuture, DeadlinePasses,
     TripSeen, Conclude, WatchTrips, Backend
<1>3. ASSUME NEW d \in Drive, NEW p \in Returned \cup {"fetch", "issue"}, Looks(d, p) PROVE Same
  BY <1>3 DEF Looks
<1>4. ASSUME NEW d \in Drive, NEW p \in {"raised", "wait"}, Fetches(d, p) PROVE Same
  BY <1>4 DEF Fetches
<1>5. ASSUME NEW d \in Drive, NEW p \in Verdict, Keeps(d, p) PROVE Same
  BY <1>5 DEF Keeps
<1>6. ASSUME NEW g \in RclpyGoal, Admit(g) PROVE Same
  BY <1>6 DEF Admit, Backend
<1>7. ASSUME NEW g \in RclpyGoal, NEW e \in {"running", "rejected"}, Takes(g, e) PROVE Same
  BY <1>7 DEF Takes, Moves, FateGoesOn
<1>8. ASSUME NEW g \in RclpyGoal, NEW f \in {"running", "canceling"}, NEW e \in Final,
             Ends(g, f, e)
      PROVE  Same
  BY <1>8 DEF Ends, Moves, FateGoesOn
<1>9. ASSUME NEW g \in RclpyGoal, NEW who \in Drive \cup Withdrawers, NEW f \in Fate,
             Cancels(who, g, f)
      PROVE  Same
  BY <1>9 DEF Cancels, Moves, FateGoesOn
<1>10. ASSUME ExecutorEnds \/ ReconnectStarts PROVE Same
  BY <1>10 DEF ExecutorEnds, Backend, ReconnectStarts
<1>11. ASSUME NEW d \in Drive, NEW g \in RclpyGoal, Issues(d, g) PROVE WithdrawnIsAsked'
  BY <1>11 DEF Issues, HoldInv, RclpyTypeOK, SentType, HaltType, NumbersAgree, NumbersOf,
     HandlesAgree, HandleOf, CrossingsAreKnown, CrossingOf, WithdrawnIsAsked, AskedFor,
     EndedIsOver, Withdrawing, Withdraw, RclpyGoal, Run
<1>12. ASSUME NEW k \in Withdrawers, NEW d \in Drive, RevokeBegins(k, d) PROVE WithdrawnIsAsked'
  BY <1>12 DEF RevokeBegins, AskCancel, Request, HoldInv, RclpyTypeOK, SentType, HaltType,
     NumbersAgree, NumbersOf, HandlesAgree, HandleOf, CrossingsAreKnown, CrossingOf,
     WithdrawnIsAsked, AskedFor, EndedIsOver, Withdrawing, Withdraw, RclpyGoal, Run
<1>13. ASSUME NEW k \in Withdrawers, RevokeFails(k) \/ RevokeConfirmed(k) \/ RevokeKeeps(k) \/
              HaltBegins(k)
       PROVE  WithdrawnIsAsked'
  BY <1>13 DEF RevokeFails, RevokeConfirmed, RevokeKeeps, HaltBegins, HoldInv, RclpyTypeOK,
     SentType, HaltType, NumbersAgree, NumbersOf, HandlesAgree, HandleOf, CrossingsAreKnown,
     CrossingOf, WithdrawnIsAsked, AskedFor, EndedIsOver, Withdrawing, Withdraw, RclpyGoal, Run
<1>14. ASSUME NEW k \in Withdrawers, HaltEnds(k) PROVE WithdrawnIsAsked'
  BY <1>14 DEF HaltEnds, HoldInv, RclpyTypeOK, SentType, HaltType, NumbersAgree, NumbersOf,
     HandlesAgree, HandleOf, CrossingsAreKnown, CrossingOf, WithdrawnIsAsked, AskedFor,
     EndedIsOver, Withdrawing, Withdraw, RclpyGoal, Run
<1>15. ASSUME NEW g \in RclpyGoal, Resolve(g) PROVE WithdrawnIsAsked'
  BY <1>15 DEF Resolve, Backend, HoldInv, RclpyTypeOK, SentType, HaltType, NumbersAgree,
     NumbersOf, HandlesAgree, HandleOf, CrossingsAreKnown, CrossingOf, WithdrawnIsAsked,
     AskedFor, EndedIsOver, Withdrawing, Withdraw, RclpyGoal, Run
<1>16. ASSUME ReconnectClears PROVE WithdrawnIsAsked'
  BY <1>16 DEF ReconnectClears, Backend, HoldInv, RclpyTypeOK, SentType, HaltType, NumbersAgree,
     NumbersOf, HandlesAgree, HandleOf, CrossingsAreKnown, CrossingOf, WithdrawnIsAsked,
     AskedFor, EndedIsOver, Withdrawing, Withdraw, RclpyGoal, Run
<1>17. ASSUME NEW d \in Drive, Holds(d) PROVE WithdrawnIsAsked'
  BY <1>17 DEF Holds, HoldInv, RclpyTypeOK, SentType, HaltType, NumbersAgree, NumbersOf,
     HandlesAgree, HandleOf, CrossingsAreKnown, CrossingOf, WithdrawnIsAsked, AskedFor,
     EndedIsOver, Withdrawing, Withdraw, RclpyGoal, Run
<1>18. ASSUME NEW d \in Drive, TripCancels(d) PROVE WithdrawnIsAsked'
  BY <1>18 DEF TripCancels, Request, HoldInv, RclpyTypeOK, SentType, HaltType, NumbersAgree,
     NumbersOf, HandlesAgree, HandleOf, CrossingsAreKnown, CrossingOf, WithdrawnIsAsked,
     AskedFor, EndedIsOver, Withdrawing, Withdraw, RclpyGoal, Run
<1>19. ASSUME NEW d \in Drive, DropGoal(d) PROVE WithdrawnIsAsked'
  <2>1. /\ \A c \in Drive : handle'[c] \in {0, handle[c]}
        /\ UNCHANGED <<rat, revoked, ended, askedOf, overtaken>>
    BY <1>19 DEF DropGoal, Forget, HoldInv, RclpyTypeOK, SentType, Run
  <2> QED
    BY <2>1 DEF HoldInv, RclpyTypeOK, HaltType, WithdrawnIsAsked, AskedFor
<1>20. ASSUME NEW k \in Withdrawers, NEW d \in Drive, HaltEach(k, d) PROVE WithdrawnIsAsked'
  <2> SUFFICES ASSUME NEW j \in Withdrawers, rat'[j] \in Withdraw
               PROVE  AskedFor(revoked[j][1])'
    BY DEF WithdrawnIsAsked
  <2>1. /\ UNCHANGED <<handle, ended>>
        /\ askedOf \subseteq askedOf'
        /\ overtaken \subseteq overtaken'
        /\ \A c \in Drive : AskedFor(c) => AskedFor(c)'
    BY <1>20 DEF HaltEach, AskCancel, Request, AskedFor
  <2>2. CASE j # k
    <3>1. rat'[j] = rat[j] /\ revoked'[j] = revoked[j]
      BY <1>20, <2>2 DEF HaltEach, AskCancel, HoldInv, RclpyTypeOK, HaltType
    <3> QED
      BY <2>1, <3>1 DEF HoldInv, WithdrawnIsAsked, RclpyTypeOK, HaltType
  <2>3. CASE j = k
    <3>1. revoked'[k] = <<d, handle[d]>>
      BY <1>20 DEF HaltEach, AskCancel, HoldInv, RclpyTypeOK, HaltType
    <3>2. \/ <<d, handle[d]>> \in askedOf'
          \/ handle[d] = 0
          \/ handle[d] = future[d] /\ ended[<<d, future[d]>>] # 0
          \/ <<d, handle[d]>> \in overtaken'
      BY <1>20 DEF HaltEach, AskCancel, Request
    <3> QED
      BY <2>1, <2>3, <3>1, <3>2 DEF AskedFor
  <2> QED
    BY <2>2, <2>3
<1>21. ASSUME NEW k \in Withdrawers, RevokeForgets(k) PROVE WithdrawnIsAsked'
  <2>1. revoked[k][1] \in Drive
    BY <1>21 DEF RevokeForgets, HoldInv, RclpyTypeOK, HaltType, Withdraw
  <2>2. /\ \A d \in Drive : handle'[d] \in {0, handle[d]}
        /\ \A j \in Withdrawers : rat'[j] \in Withdraw => rat[j] \in Withdraw
        /\ UNCHANGED <<revoked, ended, askedOf, overtaken>>
    BY <1>21, <2>1 DEF RevokeForgets, Forget, HoldInv, RclpyTypeOK, SentType, HaltType,
       Withdraw, Run
  <2> QED
    BY <2>2 DEF HoldInv, RclpyTypeOK, HaltType, WithdrawnIsAsked, AskedFor
<1>22. ASSUME NEW k \in Withdrawers, HaltDrops(k) PROVE WithdrawnIsAsked'
  <2>1. revoked[k][1] \in Drive
    BY <1>22 DEF HaltDrops, HoldInv, RclpyTypeOK, HaltType, Withdraw
  <2>2. /\ \A d \in Drive : handle'[d] \in {0, handle[d]}
        /\ \A j \in Withdrawers : rat'[j] \in Withdraw => rat[j] \in Withdraw
        /\ UNCHANGED <<revoked, ended, askedOf, overtaken>>
    BY <1>22, <2>1 DEF HaltDrops, Forget, HoldInv, RclpyTypeOK, SentType, HaltType, Withdraw, Run
  <2> QED
    BY <2>2 DEF HoldInv, RclpyTypeOK, HaltType, WithdrawnIsAsked, AskedFor
<1> QED
  BY <1>1, <1>2, <1>3, <1>4, <1>5, <1>6, <1>7, <1>8, <1>9, <1>10, <1>11, <1>12, <1>13, <1>14,
     <1>15, <1>16, <1>17, <1>18, <1>19, <1>20, <1>21, <1>22 DEF Forms, HaltStep

(* A call told cancelled has no goal left that somebody still follows.       *)
LEMMA GoneStep == HoldInv /\ RclpyNext => CancelledIsGone'
<1> USE RclpyAssumption DEF linkState, goalState, heldState, runState, haltState, pastState,
       Goes, RGoes, Elsewhere
<1> DEFINE Same == UNCHANGED <<results, fate, rat, verdict, revoked, unfollowed, overtaken,
   dropped>>
<1> SUFFICES ASSUME HoldInv, Forms PROVE CancelledIsGone'
  BY NextForms
<1>1. ASSUME Same PROVE CancelledIsGone'
  BY <1>1 DEF HoldInv, CancelledIsGone, Confirmed, Gone
<1>2. ASSUME NEW d \in Drive, RclpyArm(d) \/ NoServer(d) \/ Rejected(d) \/ Holds(d) \/
             HoldFuture(d) \/ DeadlinePasses(d) \/ TripSeen(d) \/ TripCancels(d) \/
             Conclude(d) \/ DropGoal(d) \/ WatchTrips(d)
      PROVE  Same
  BY <1>2 DEF RclpyArm, NoServer, Rejected, Holds, HoldFuture, DeadlinePasses, TripSeen,
     TripCancels, Request, Conclude, DropGoal, Forget, WatchTrips, Backend
<1>3. ASSUME NEW d \in Drive, NEW p \in Returned \cup {"fetch", "issue"}, Looks(d, p) PROVE Same
  BY <1>3 DEF Looks
<1>4. ASSUME NEW d \in Drive, NEW p \in {"raised", "wait"}, Fetches(d, p) PROVE Same
  BY <1>4 DEF Fetches
<1>5. ASSUME NEW g \in RclpyGoal, Admit(g) \/ Resolve(g) PROVE Same
  BY <1>5 DEF Admit, Backend, Resolve
<1>6. ASSUME ExecutorEnds \/ ReconnectStarts PROVE Same
  BY <1>6 DEF ExecutorEnds, Backend, ReconnectStarts
<1>7. ASSUME NEW d \in Drive, AcceptanceLapses(d) PROVE CancelledIsGone'
  <2>1. /\ UNCHANGED <<fate, results, rat, verdict, revoked, overtaken, dropped>>
        /\ unfollowed \subseteq unfollowed'
    BY <1>7 DEF AcceptanceLapses
  <2> QED
    BY <2>1 DEF HoldInv, CancelledIsGone, Confirmed, Gone
<1>8. ASSUME NEW d \in Drive, NEW g \in RclpyGoal, Issues(d, g) PROVE CancelledIsGone'
  <2>1. /\ UNCHANGED <<results, rat, verdict, revoked, unfollowed, dropped>>
        /\ overtaken \subseteq overtaken'
    BY <1>8 DEF Issues
  <2>2. ASSUME NEW c \in Drive, Gone(c), c = d => g \in overtaken' PROVE Gone(c)'
    BY <1>8, <2>1, <2>2 DEF Issues, Gone, RclpyGoal
  <2>3. ASSUME NEW c \in Drive, results[c] = "cancelled" PROVE Gone(c)'
    BY <1>8, <2>2, <2>3 DEF Issues, HoldInv, CancelledIsGone
  <2>4. ASSUME NEW j \in Withdrawers, Confirmed(j) PROVE Gone(revoked[j][1])'
    <3>1. rat[j] \in Withdraw /\ revoked[j][1] \in Drive /\ Gone(revoked[j][1])
      BY <2>4 DEF HoldInv, CancelledIsGone, Confirmed, RclpyTypeOK, HaltType, Withdraw
    <3>2. Withdrawing(revoked[j][1])
      BY <3>1 DEF Withdrawing, Withdraw
    <3> QED
      BY <1>8, <2>2, <3>1, <3>2 DEF Issues
  <2> QED
    BY <2>1, <2>3, <2>4 DEF CancelledIsGone, Confirmed
<1>9. ASSUME NEW d \in Drive, NEW p \in Verdict, Keeps(d, p) PROVE CancelledIsGone'
  <2>1. /\ UNCHANGED <<fate, rat, verdict, revoked, unfollowed, overtaken, dropped>>
        /\ at[d] = "keep" /\ results' = [results EXCEPT ![d] = p]
    BY <1>9 DEF Keeps
  <2>2. ASSUME NEW m \in 1..MaxRuns, fate[<<d, m>>] \in {"sent", "running"}
        PROVE  <<d, m>> \in unfollowed
    <3>1. <<d, m>> \in RclpyGoal /\ m <= mine[d] /\ mine[d] \in 1..MaxRuns
      BY <2>1, <2>2 DEF HoldInv, NumbersAgree, NumbersOf, Followed, RclpyTypeOK, SentType, Run,
         RclpyGoal
    <3>2. /\ fate[<<d, mine[d]>>] \in {"succeeded", "canceled", "aborted"}
          /\ <<d, mine[d]>> \in RclpyGoal
      BY <2>1, <3>1 DEF HoldInv, EndedIsOver, RclpyGoal
    <3>3. m < mine[d]
      BY <2>2, <3>1, <3>2
    <3>4. Awaited(<<d, m>>) /\ Preempts(d, m, mine[d])
      BY <3>1 DEF HoldInv, SentIsAwaited, OneRuns
    <3> QED
      BY <2>1, <2>2, <3>2, <3>3, <3>4 DEF Awaited, Preempts
  <2> QED
    BY <2>1, <2>2 DEF HoldInv, CancelledIsGone, Confirmed, Gone, RclpyTypeOK, PlaceType
<1>10. ASSUME NEW k \in Withdrawers, NEW d \in Drive, RevokeBegins(k, d) PROVE CancelledIsGone'
  <2>1. UNCHANGED <<fate, results, unfollowed, dropped>> /\ overtaken \subseteq overtaken'
    BY <1>10 DEF RevokeBegins, AskCancel, Request
  <2>2. \A j \in Withdrawers : Confirmed(j)' => Confirmed(j) /\ revoked'[j] = revoked[j]
    BY <1>10 DEF RevokeBegins, AskCancel, Request, Confirmed, HoldInv, RclpyTypeOK, HaltType,
       Withdraw
  <2> QED
    BY <2>1, <2>2 DEF HoldInv, CancelledIsGone, Gone
<1>11. ASSUME NEW k \in Withdrawers, NEW d \in Drive, HaltEach(k, d) PROVE CancelledIsGone'
  <2>1. UNCHANGED <<fate, results, unfollowed, dropped>> /\ overtaken \subseteq overtaken'
    BY <1>11 DEF HaltEach, AskCancel, Request
  <2>2. \A j \in Withdrawers : Confirmed(j)' => Confirmed(j) /\ revoked'[j] = revoked[j]
    BY <1>11 DEF HaltEach, AskCancel, Request, Confirmed, HoldInv, RclpyTypeOK, HaltType, Withdraw
  <2> QED
    BY <2>1, <2>2 DEF HoldInv, CancelledIsGone, Gone
<1>12. ASSUME NEW k \in Withdrawers, RevokeFails(k) PROVE CancelledIsGone'
  <2>1. UNCHANGED <<fate, results, unfollowed, dropped>> /\ overtaken \subseteq overtaken'
    BY <1>12 DEF RevokeFails
  <2>2. \A j \in Withdrawers : Confirmed(j)' => Confirmed(j) /\ revoked'[j] = revoked[j]
    BY <1>12 DEF RevokeFails, Confirmed, HoldInv, RclpyTypeOK, HaltType, Withdraw
  <2> QED
    BY <2>1, <2>2 DEF HoldInv, CancelledIsGone, Gone
<1>13. ASSUME NEW k \in Withdrawers, RevokeConfirmed(k) PROVE CancelledIsGone'
  <2>1. UNCHANGED <<fate, results, unfollowed, dropped>> /\ overtaken \subseteq overtaken'
    BY <1>13 DEF RevokeConfirmed
  <2>2. \A j \in Withdrawers : Confirmed(j)' => Confirmed(j) /\ revoked'[j] = revoked[j]
    BY <1>13 DEF RevokeConfirmed, Confirmed, HoldInv, RclpyTypeOK, HaltType, Withdraw
  <2> QED
    BY <2>1, <2>2 DEF HoldInv, CancelledIsGone, Gone
<1>14. ASSUME NEW k \in Withdrawers, RevokeForgets(k) PROVE CancelledIsGone'
  <2>1. UNCHANGED <<fate, results, unfollowed, dropped>> /\ overtaken \subseteq overtaken'
    BY <1>14 DEF RevokeForgets, Forget
  <2>2. \A j \in Withdrawers : Confirmed(j)' => Confirmed(j) /\ revoked'[j] = revoked[j]
    BY <1>14 DEF RevokeForgets, Forget, Confirmed, HoldInv, RclpyTypeOK, HaltType, Withdraw
  <2> QED
    BY <2>1, <2>2 DEF HoldInv, CancelledIsGone, Gone
<1>15. ASSUME NEW k \in Withdrawers, RevokeKeeps(k) PROVE CancelledIsGone'
  <2>1. /\ UNCHANGED <<fate, revoked, verdict, unfollowed, dropped, overtaken>>
        /\ results' = [results EXCEPT ![revoked[k][1]] = "cancelled"]
        /\ rat[k] = "keep"
        /\ \A j \in Withdrawers : rat'[j] = rat[j] \/ rat'[j] \in {"cancelled", "drop"}
    BY <1>15 DEF RevokeKeeps, HoldInv, RclpyTypeOK, HaltType
  <2>2. \A j \in Withdrawers : Confirmed(j)' => Confirmed(j)
    BY <2>1 DEF Confirmed
  <2>3. \A c \in Drive : results'[c] = "cancelled" => results[c] = "cancelled" \/ c = revoked[k][1]
    BY <2>1 DEF HoldInv, RclpyTypeOK, PlaceType
  <2> QED
    BY <2>1, <2>2, <2>3 DEF HoldInv, CancelledIsGone, Gone, Confirmed
<1>16. ASSUME NEW k \in Withdrawers, HaltBegins(k) PROVE CancelledIsGone'
  <2>1. UNCHANGED <<fate, results, unfollowed, dropped>> /\ overtaken \subseteq overtaken'
    BY <1>16 DEF HaltBegins
  <2>2. \A j \in Withdrawers : Confirmed(j)' => Confirmed(j) /\ revoked'[j] = revoked[j]
    BY <1>16 DEF HaltBegins, Confirmed, HoldInv, RclpyTypeOK, HaltType, Withdraw
  <2> QED
    BY <2>1, <2>2 DEF HoldInv, CancelledIsGone, Gone
<1>17. ASSUME NEW k \in Withdrawers, HaltDrops(k) PROVE CancelledIsGone'
  <2>1. UNCHANGED <<fate, results, unfollowed, dropped>> /\ overtaken \subseteq overtaken'
    BY <1>17 DEF HaltDrops, Forget
  <2>2. \A j \in Withdrawers : Confirmed(j)' => Confirmed(j) /\ revoked'[j] = revoked[j]
    BY <1>17 DEF HaltDrops, Forget, Confirmed, HoldInv, RclpyTypeOK, HaltType, Withdraw
  <2> QED
    BY <2>1, <2>2 DEF HoldInv, CancelledIsGone, Gone
<1>18. ASSUME NEW k \in Withdrawers, HaltEnds(k) PROVE CancelledIsGone'
  <2>1. UNCHANGED <<fate, results, unfollowed, dropped>> /\ overtaken \subseteq overtaken'
    BY <1>18 DEF HaltEnds
  <2>2. \A j \in Withdrawers : Confirmed(j)' => Confirmed(j) /\ revoked'[j] = revoked[j]
    BY <1>18 DEF HaltEnds, Confirmed, HoldInv, RclpyTypeOK, HaltType, Withdraw
  <2> QED
    BY <2>1, <2>2 DEF HoldInv, CancelledIsGone, Gone
<1>19. ASSUME NEW g \in RclpyGoal, NEW e \in {"running", "rejected"}, Takes(g, e)
       PROVE  CancelledIsGone'
  <2>1. /\ UNCHANGED <<results, rat, verdict, revoked, unfollowed, overtaken, dropped>>
        /\ \A h \in RclpyGoal : fate'[h] \in {"sent", "running"} => fate[h] \in {"sent", "running"}
    BY <1>19 DEF Takes, Moves, FateGoesOn
  <2> QED
    BY <2>1 DEF HoldInv, CancelledIsGone, Confirmed, Gone, RclpyGoal, RclpyTypeOK, HaltType,
       Withdraw
<1>20. ASSUME NEW g \in RclpyGoal, NEW f \in {"running", "canceling"}, NEW e \in Final,
              Ends(g, f, e)
       PROVE  CancelledIsGone'
  <2>1. /\ UNCHANGED <<results, rat, verdict, revoked, unfollowed, overtaken, dropped>>
        /\ \A h \in RclpyGoal : fate'[h] \in {"sent", "running"} => fate[h] \in {"sent", "running"}
    BY <1>20 DEF Ends, Moves, FateGoesOn
  <2> QED
    BY <2>1 DEF HoldInv, CancelledIsGone, Confirmed, Gone, RclpyGoal, RclpyTypeOK, HaltType,
       Withdraw
<1>21. ASSUME NEW g \in RclpyGoal, NEW who \in Drive \cup Withdrawers, NEW f \in Fate,
              Cancels(who, g, f)
       PROVE  CancelledIsGone'
  <2>1. /\ UNCHANGED <<results, rat, revoked, unfollowed, overtaken, dropped>>
        /\ \A h \in RclpyGoal : fate'[h] = "sent" => fate[h] = "sent"
        /\ \A h \in RclpyGoal : fate'[h] = "running"
                => fate[h] = "running" /\ (f = "running" => h # g)
    BY <1>21 DEF Cancels, Moves, FateGoesOn
  <2>2. ASSUME NEW c \in Drive, Gone(c) PROVE Gone(c)'
    BY <2>1, <2>2 DEF Gone, RclpyGoal
  <2>3. ASSUME NEW j \in Withdrawers, Confirmed(j)' PROVE Gone(revoked[j][1])'
    <3>1. CASE Confirmed(j)
      BY <2>1, <2>2, <3>1 DEF HoldInv, CancelledIsGone, Confirmed, RclpyTypeOK, HaltType, Withdraw
    <3>2. CASE ~Confirmed(j)
      <4>1. rat[j] = "await" /\ revoked[j] = g /\ f = "running" /\ fate[g] = "running"
        BY <1>21, <2>1, <2>3, <3>2 DEF Confirmed, Cancels, Moves, HoldInv, RclpyTypeOK, HaltType
      <4>2. g[1] \in Drive /\ Withdrawing(g[1])
        BY <4>1 DEF Withdrawing, RclpyGoal
      <4>3. ASSUME NEW m \in 1..MaxRuns, fate'[<<g[1], m>>] \in {"sent", "running"}
            PROVE  <<g[1], m>> \in unfollowed \cup overtaken
        <5>1. <<g[1], m>> \in RclpyGoal
          BY <4>2 DEF RclpyGoal
        <5>2. fate[<<g[1], m>>] = "sent"
          BY <2>1, <4>1, <4>3, <5>1 DEF HoldInv, OneRuns, UnderWay
        <5> QED
          BY <4>2, <5>1, <5>2 DEF HoldInv, SentIsAwaited, Awaited, CrossingsAreKnown, CrossingOf
      <4> QED
        BY <2>1, <4>1, <4>3 DEF Gone
    <3> QED
      BY <3>1, <3>2
  <2> QED
    BY <2>1, <2>2, <2>3 DEF HoldInv, CancelledIsGone
<1>22. ASSUME ReconnectClears PROVE CancelledIsGone'
  <2>1. fate' = fate /\ dropped' = {g \in RclpyGoal : fate[g] # "none"}
    BY <1>22 DEF ReconnectClears
  <2>2. ASSUME NEW c \in Drive PROVE Gone(c)'
    BY <2>1 DEF Gone, RclpyGoal
  <2>3. ASSUME NEW j \in Withdrawers, Confirmed(j)' PROVE revoked'[j][1] \in Drive
    BY <1>22, <2>3 DEF ReconnectClears, Confirmed, HoldInv, RclpyTypeOK, HaltType, Withdraw
  <2> QED
    BY <2>2, <2>3 DEF CancelledIsGone
<1> QED
  BY <1>1, <1>2, <1>3, <1>4, <1>5, <1>6, <1>7, <1>8, <1>9, <1>10, <1>11, <1>12, <1>13, <1>14,
     <1>15, <1>16, <1>17, <1>18, <1>19, <1>20, <1>21, <1>22 DEF Forms, HaltStep

(* A goal that is held, or about to be, has its guard.                       *)
LEMMA WatchesStep == HoldInv /\ RclpyNext => WatchesFollow'
<1> USE RclpyAssumption DEF linkState, goalState, heldState, runState, haltState, pastState,
       Goes, RGoes, Elsewhere
<1> DEFINE Same == UNCHANGED <<reconnects, at, handle, watch, askedOf, overtaken, mine, results,
   crossed>>
<1> SUFFICES ASSUME HoldInv, Forms PROVE WatchesFollow'
  BY NextForms
<1>1. ASSUME Same PROVE WatchesFollow'
  BY <1>1 DEF HoldInv, WatchesFollow, WatchOf
<1>2. ASSUME NEW k \in Withdrawers, RevokeFails(k) \/ RevokeConfirmed(k) \/ HaltBegins(k) \/
             HaltEnds(k)
      PROVE  Same
  BY <1>2 DEF RevokeFails, RevokeConfirmed, HaltBegins, HaltEnds
<1>3. ASSUME NEW g \in RclpyGoal, Admit(g) \/ Resolve(g) PROVE Same
  BY <1>3 DEF Admit, Backend, Resolve
<1>4. ASSUME NEW g \in RclpyGoal, NEW e \in {"running", "rejected"}, Takes(g, e) PROVE Same
  BY <1>4 DEF Takes, Moves, FateGoesOn
<1>5. ASSUME NEW g \in RclpyGoal, NEW f \in {"running", "canceling"}, NEW e \in Final,
             Ends(g, f, e)
      PROVE  Same
  BY <1>5 DEF Ends, Moves, FateGoesOn
<1>6. ASSUME NEW g \in RclpyGoal, NEW who \in Drive \cup Withdrawers, NEW f \in Fate,
             Cancels(who, g, f)
      PROVE  Same
  BY <1>6 DEF Cancels, Moves, FateGoesOn
<1>7. ASSUME ExecutorEnds \/ ReconnectStarts PROVE Same
  BY <1>7 DEF ExecutorEnds, Backend, ReconnectStarts
<1>8. ASSUME NEW d \in Drive, RclpyArm(d) \/ NoServer(d) \/ AcceptanceLapses(d) \/ Rejected(d)
      PROVE  WatchesFollow'
  BY <1>8 DEF RclpyArm, NoServer, AcceptanceLapses, Rejected, HoldInv, RclpyTypeOK, SentType,
     PlaceType, HaltType, NumbersAgree, NumbersOf, HandlesAgree, HandleOf, CrossingsAreKnown,
     CrossingOf, WatchesFollow, WatchOf, Withdrawing, Unwatched, Armed, Returned, Followed,
     Verdict, Withdraw
<1>9. ASSUME NEW d \in Drive, NEW p \in Returned \cup {"fetch", "issue"}, Looks(d, p)
      PROVE  WatchesFollow'
  BY <1>9 DEF Looks, HoldInv, RclpyTypeOK, SentType, PlaceType, HaltType, NumbersAgree,
     NumbersOf, HandlesAgree, HandleOf, CrossingsAreKnown, CrossingOf, WatchesFollow, WatchOf,
     Withdrawing, Unwatched, Armed, Returned, Followed, Verdict, Withdraw
<1>10. ASSUME NEW d \in Drive, NEW p \in {"raised", "wait"}, Fetches(d, p) PROVE WatchesFollow'
  BY <1>10 DEF Fetches, HoldInv, RclpyTypeOK, SentType, PlaceType, HaltType, NumbersAgree,
     NumbersOf, HandlesAgree, HandleOf, CrossingsAreKnown, CrossingOf, WatchesFollow, WatchOf,
     Withdrawing, Unwatched, Armed, Returned, Followed, Verdict, Withdraw
<1>11. ASSUME NEW d \in Drive, NEW p \in Verdict, Keeps(d, p) PROVE WatchesFollow'
  BY <1>11 DEF Keeps, HoldInv, RclpyTypeOK, SentType, PlaceType, HaltType, NumbersAgree,
     NumbersOf, HandlesAgree, HandleOf, CrossingsAreKnown, CrossingOf, WatchesFollow, WatchOf,
     Withdrawing, Unwatched, Armed, Returned, Followed, Verdict, Withdraw
<1>12. ASSUME NEW k \in Withdrawers, NEW d \in Drive, RevokeBegins(k, d) \/ HaltEach(k, d)
       PROVE  WatchesFollow'
  BY <1>12 DEF RevokeBegins, AskCancel, Request, HaltEach, HoldInv, RclpyTypeOK, SentType,
     PlaceType, HaltType, NumbersAgree, NumbersOf, HandlesAgree, HandleOf, CrossingsAreKnown,
     CrossingOf, WatchesFollow, WatchOf, Withdrawing, Unwatched, Armed, Returned, Followed,
     Verdict, Withdraw
<1>13. ASSUME NEW k \in Withdrawers, RevokeForgets(k) \/ RevokeKeeps(k) \/ HaltDrops(k)
       PROVE  WatchesFollow'
  BY <1>13 DEF RevokeForgets, Forget, RevokeKeeps, HaltDrops, HoldInv, RclpyTypeOK, SentType,
     PlaceType, HaltType, NumbersAgree, NumbersOf, HandlesAgree, HandleOf, CrossingsAreKnown,
     CrossingOf, WatchesFollow, WatchOf, Withdrawing, Unwatched, Armed, Returned, Followed,
     Verdict, Withdraw
<1>14. ASSUME ReconnectClears PROVE WatchesFollow'
  BY <1>14 DEF ReconnectClears, Backend, HoldInv, RclpyTypeOK, SentType, PlaceType, HaltType,
     NumbersAgree, NumbersOf, HandlesAgree, HandleOf, CrossingsAreKnown, CrossingOf,
     WatchesFollow, WatchOf, Withdrawing, Unwatched, Armed, Returned, Followed, Verdict,
     Withdraw
<1>15. ASSUME NEW d \in Drive, HoldFuture(d) \/ DeadlinePasses(d) PROVE WatchesFollow'
  BY <1>15 DEF HoldFuture, DeadlinePasses, HoldInv, RclpyTypeOK, SentType, PlaceType, HaltType,
     NumbersAgree, NumbersOf, HandlesAgree, HandleOf, CrossingsAreKnown, CrossingOf,
     WatchesFollow, WatchOf, Withdrawing, Unwatched, Armed, Returned, Followed, Verdict,
     Withdraw
<1>16. ASSUME NEW d \in Drive, Conclude(d) \/ DropGoal(d) PROVE WatchesFollow'
  BY <1>16 DEF Conclude, DropGoal, Forget, HoldInv, RclpyTypeOK, SentType, PlaceType, HaltType,
     NumbersAgree, NumbersOf, HandlesAgree, HandleOf, CrossingsAreKnown, CrossingOf,
     WatchesFollow, WatchOf, Withdrawing, Unwatched, Armed, Returned, Followed, Verdict,
     Withdraw
<1>17. ASSUME NEW d \in Drive, WatchTrips(d) PROVE WatchesFollow'
  BY <1>17 DEF WatchTrips, Backend, HoldInv, RclpyTypeOK, SentType, PlaceType, HaltType,
     NumbersAgree, NumbersOf, HandlesAgree, HandleOf, CrossingsAreKnown, CrossingOf,
     WatchesFollow, WatchOf, Withdrawing, Unwatched, Armed, Returned, Followed, Verdict,
     Withdraw
<1>18. ASSUME NEW d \in Drive, TripSeen(d) PROVE WatchesFollow'
  BY <1>18 DEF TripSeen, HoldInv, RclpyTypeOK, SentType, PlaceType, HaltType, NumbersAgree,
     NumbersOf, HandlesAgree, HandleOf, CrossingsAreKnown, CrossingOf, WatchesFollow, WatchOf,
     Withdrawing, Unwatched, Armed, Returned, Followed, Verdict, Withdraw
<1>19. ASSUME NEW d \in Drive, TripCancels(d) PROVE WatchesFollow'
  BY <1>19 DEF TripCancels, Request, HoldInv, RclpyTypeOK, SentType, PlaceType, HaltType,
     NumbersAgree, NumbersOf, HandlesAgree, HandleOf, CrossingsAreKnown, CrossingOf,
     WatchesFollow, WatchOf, Withdrawing, Unwatched, Armed, Returned, Followed, Verdict,
     Withdraw
<1>20. ASSUME NEW d \in Drive, Holds(d) PROVE WatchesFollow'
  <2> SUFFICES ASSUME reconnects' = 0, NEW c \in Drive PROVE WatchOf(c)'
    BY DEF WatchesFollow
  <2>1. CASE c # d
    BY <1>20, <2>1 DEF Holds, HoldInv, RclpyTypeOK, SentType, PlaceType, HaltType, NumbersAgree,
       NumbersOf, HandlesAgree, HandleOf, CrossingsAreKnown, CrossingOf, WatchesFollow, WatchOf,
       Withdrawing, Unwatched, Armed, Returned, Followed, Verdict, Withdraw, Run
  <2>2. CASE c = d
    <3>1. NumbersOf(d) /\ HandleOf(d) /\ WatchOf(d) /\ at[d] = "accepting"
      BY <1>20 DEF Holds, HoldInv, NumbersAgree, HandlesAgree, WatchesFollow
    <3>2. /\ ~watch[d].sent
          /\ d \in Watched => watch[d].on \/ <<d, issued[d]>> \in overtaken
      BY <3>1 DEF NumbersOf, HandleOf, WatchOf
    <3>3. /\ at'[d] = "request" /\ handle'[d] = issued[d] /\ issued[d] # 0 /\ mine'[d] = mine[d]
          /\ watch'[d] = watch[d] /\ overtaken' = overtaken
      BY <1>20 DEF Holds, HoldInv, RclpyTypeOK, SentType, PlaceType
    <3> QED
      BY <2>2, <3>2, <3>3 DEF WatchOf
  <2> QED
    BY <2>1, <2>2
<1>21. ASSUME NEW d \in Drive, NEW g \in RclpyGoal, Issues(d, g) PROVE WatchesFollow'
  <2> SUFFICES ASSUME reconnects' = 0, NEW c \in Drive PROVE WatchOf(c)'
    BY DEF WatchesFollow
  <2>1. CASE c # d
    BY <1>21, <2>1 DEF Issues, HoldInv, RclpyTypeOK, SentType, PlaceType, HaltType,
       NumbersAgree, NumbersOf, HandlesAgree, HandleOf, CrossingsAreKnown, CrossingOf,
       WatchesFollow, WatchOf, Withdrawing, Unwatched, Armed, Returned, Followed, Verdict,
       Withdraw, Run
  <2>2. CASE c = d
    <3>1. HandleOf(d) /\ WatchOf(d) /\ CrossingOf(d) /\ at[d] = "issue"
      BY <1>21 DEF Issues, HoldInv, HandlesAgree, CrossingsAreKnown, WatchesFollow
    <3>2. /\ handle[d] = 0 /\ ~watch[d].sent
          /\ d \in Watched => watch[d].on \/ g \in overtaken'
      BY <1>21, <3>1 DEF Issues, HandleOf, WatchOf, CrossingOf
    <3>3. /\ at'[d] = "accepting"
          /\ handle'[d] = 0
          /\ <<d, mine'[d]>> = g
          /\ watch'[d] = watch[d]
      BY <1>21, <3>2 DEF Issues, HoldInv, RclpyTypeOK, SentType, PlaceType
    <3> QED
      BY <2>2, <3>2, <3>3 DEF WatchOf, Followed
  <2> QED
    BY <2>1, <2>2
<1> QED
  BY <1>1, <1>2, <1>3, <1>4, <1>5, <1>6, <1>7, <1>8, <1>9, <1>10, <1>11, <1>12, <1>13, <1>14,
     <1>15, <1>16, <1>17, <1>18, <1>19, <1>20, <1>21 DEF Forms, HaltStep

(* A goal that drives is held, or its cancel was asked for.                  *)
LEMMA InHandStep == HoldInv /\ RclpyNext => DrivingIsInHand'
<1> USE RclpyAssumption DEF linkState, goalState, heldState, runState, haltState, pastState,
       Goes, RGoes, Elsewhere
<1> DEFINE Same == UNCHANGED <<reconnects, fate, unfollowed, overtaken, handle, at, mine,
   askedOf>>
<1> SUFFICES ASSUME HoldInv, Forms PROVE DrivingIsInHand'
  BY NextForms
<1>1. ASSUME Same PROVE DrivingIsInHand'
  BY <1>1 DEF HoldInv, DrivingIsInHand, Driven, InHand
<1>2. ASSUME NEW d \in Drive, WatchTrips(d) PROVE Same
  BY <1>2 DEF WatchTrips, Backend
<1>3. ASSUME NEW k \in Withdrawers, RevokeFails(k) \/ RevokeConfirmed(k) \/ RevokeKeeps(k) \/
             HaltBegins(k) \/ HaltEnds(k)
      PROVE  Same
  BY <1>3 DEF RevokeFails, RevokeConfirmed, RevokeKeeps, HaltBegins, HaltEnds
<1>4. ASSUME NEW g \in RclpyGoal, Admit(g) \/ Resolve(g) PROVE Same
  BY <1>4 DEF Admit, Backend, Resolve
<1>5. ASSUME ExecutorEnds \/ ReconnectStarts PROVE Same
  BY <1>5 DEF ExecutorEnds, Backend, ReconnectStarts
<1>6. ASSUME NEW d \in Drive, Conclude(d) PROVE DrivingIsInHand'
  BY <1>6 DEF Conclude, HoldInv, RclpyTypeOK, SentType, PlaceType, HaltType, NumbersAgree,
     NumbersOf, HandlesAgree, HandleOf, CrossingsAreKnown, CrossingOf, WithdrawnIsAsked,
     AskedFor, EndedIsOver, SentIsAwaited, Awaited, OneRuns, UnderWay, Preempts,
     DrivingIsInHand, Driven, InHand, Withdrawing, RclpyGoal, Run, Withdraw
<1>7. ASSUME NEW d \in Drive, NEW p \in Returned \cup {"fetch", "issue"}, Looks(d, p)
      PROVE  DrivingIsInHand'
  BY <1>7 DEF Looks, HoldInv, RclpyTypeOK, SentType, PlaceType, HaltType, NumbersAgree,
     NumbersOf, HandlesAgree, HandleOf, CrossingsAreKnown, CrossingOf, WithdrawnIsAsked,
     AskedFor, EndedIsOver, SentIsAwaited, Awaited, OneRuns, UnderWay, Preempts,
     DrivingIsInHand, Driven, InHand, Withdrawing, RclpyGoal, Run, Withdraw
<1>8. ASSUME NEW d \in Drive, NEW p \in {"raised", "wait"}, Fetches(d, p) PROVE DrivingIsInHand'
  BY <1>8 DEF Fetches, HoldInv, RclpyTypeOK, SentType, PlaceType, HaltType, NumbersAgree,
     NumbersOf, HandlesAgree, HandleOf, CrossingsAreKnown, CrossingOf, WithdrawnIsAsked,
     AskedFor, EndedIsOver, SentIsAwaited, Awaited, OneRuns, UnderWay, Preempts,
     DrivingIsInHand, Driven, InHand, Withdrawing, RclpyGoal, Run, Withdraw
<1>9. ASSUME NEW d \in Drive, NEW p \in Verdict, Keeps(d, p) PROVE DrivingIsInHand'
  BY <1>9 DEF Keeps, HoldInv, RclpyTypeOK, SentType, PlaceType, HaltType, NumbersAgree,
     NumbersOf, HandlesAgree, HandleOf, CrossingsAreKnown, CrossingOf, WithdrawnIsAsked,
     AskedFor, EndedIsOver, SentIsAwaited, Awaited, OneRuns, UnderWay, Preempts,
     DrivingIsInHand, Driven, InHand, Withdrawing, RclpyGoal, Run, Withdraw
<1>10. ASSUME ReconnectClears PROVE DrivingIsInHand'
  BY <1>10 DEF ReconnectClears, Backend, HoldInv, RclpyTypeOK, SentType, PlaceType, HaltType,
     NumbersAgree, NumbersOf, HandlesAgree, HandleOf, CrossingsAreKnown, CrossingOf,
     WithdrawnIsAsked, AskedFor, EndedIsOver, SentIsAwaited, Awaited, OneRuns, UnderWay,
     Preempts, DrivingIsInHand, Driven, InHand, Withdrawing, RclpyGoal, Run, Withdraw
<1>11. ASSUME NEW k \in Withdrawers, NEW d \in Drive, RevokeBegins(k, d) PROVE DrivingIsInHand'
  BY <1>11 DEF RevokeBegins, AskCancel, Request, HoldInv, RclpyTypeOK, SentType, PlaceType,
     HaltType, NumbersAgree, NumbersOf, HandlesAgree, HandleOf, CrossingsAreKnown, CrossingOf,
     WithdrawnIsAsked, AskedFor, EndedIsOver, SentIsAwaited, Awaited, OneRuns, UnderWay,
     Preempts, DrivingIsInHand, Driven, InHand, Withdrawing, RclpyGoal, Run, Withdraw
<1>12. ASSUME NEW k \in Withdrawers, NEW d \in Drive, HaltEach(k, d) PROVE DrivingIsInHand'
  BY <1>12 DEF HaltEach, AskCancel, Request, HoldInv, RclpyTypeOK, SentType, PlaceType,
     HaltType, NumbersAgree, NumbersOf, HandlesAgree, HandleOf, CrossingsAreKnown, CrossingOf,
     WithdrawnIsAsked, AskedFor, EndedIsOver, SentIsAwaited, Awaited, OneRuns, UnderWay,
     Preempts, DrivingIsInHand, Driven, InHand, Withdrawing, RclpyGoal, Run, Withdraw
<1>13. ASSUME NEW d \in Drive, NoServer(d) PROVE DrivingIsInHand'
  BY <1>13 DEF NoServer, HoldInv, RclpyTypeOK, SentType, PlaceType, HaltType, NumbersAgree,
     NumbersOf, HandlesAgree, HandleOf, CrossingsAreKnown, CrossingOf, WithdrawnIsAsked,
     AskedFor, EndedIsOver, SentIsAwaited, Awaited, OneRuns, UnderWay, Preempts,
     DrivingIsInHand, Driven, InHand, Withdrawing, RclpyGoal, Run, Withdraw
<1>14. ASSUME NEW d \in Drive, HoldFuture(d) PROVE DrivingIsInHand'
  BY <1>14 DEF HoldFuture, HoldInv, RclpyTypeOK, SentType, PlaceType, HaltType, NumbersAgree,
     NumbersOf, HandlesAgree, HandleOf, CrossingsAreKnown, CrossingOf, WithdrawnIsAsked,
     AskedFor, EndedIsOver, SentIsAwaited, Awaited, OneRuns, UnderWay, Preempts,
     DrivingIsInHand, Driven, InHand, Withdrawing, RclpyGoal, Run, Withdraw
<1>15. ASSUME NEW d \in Drive, DeadlinePasses(d) PROVE DrivingIsInHand'
  BY <1>15 DEF DeadlinePasses, HoldInv, RclpyTypeOK, SentType, PlaceType, HaltType,
     NumbersAgree, NumbersOf, HandlesAgree, HandleOf, CrossingsAreKnown, CrossingOf,
     WithdrawnIsAsked, AskedFor, EndedIsOver, SentIsAwaited, Awaited, OneRuns, UnderWay,
     Preempts, DrivingIsInHand, Driven, InHand, Withdrawing, RclpyGoal, Run, Withdraw
<1>16. ASSUME NEW d \in Drive, TripSeen(d) PROVE DrivingIsInHand'
  BY <1>16 DEF TripSeen, HoldInv, RclpyTypeOK, SentType, PlaceType, HaltType, NumbersAgree,
     NumbersOf, HandlesAgree, HandleOf, CrossingsAreKnown, CrossingOf, WithdrawnIsAsked,
     AskedFor, EndedIsOver, SentIsAwaited, Awaited, OneRuns, UnderWay, Preempts,
     DrivingIsInHand, Driven, InHand, Withdrawing, RclpyGoal, Run, Withdraw
<1>17. ASSUME NEW d \in Drive, RclpyArm(d) PROVE DrivingIsInHand'
  <2> SUFFICES ASSUME reconnects' = 0, NEW h \in RclpyGoal PROVE Driven(h)'
    BY DEF DrivingIsInHand, Driven
  <2>1. /\ reconnects = 0
        /\ UNCHANGED <<fate, unfollowed, overtaken, mine>>
        /\ askedOf \subseteq askedOf'
        /\ handle' = handle /\ at[d] \in Returned /\ at' = [at EXCEPT ![d] = "look"]
    BY <1>17 DEF RclpyArm
  <2>2. Driven(h)
    BY <2>1 DEF HoldInv, DrivingIsInHand, Driven
  <2>3. at[h[1]] = "accepting" => at'[h[1]] = "accepting"
    BY <2>1 DEF Returned, HoldInv, RclpyTypeOK, PlaceType, RclpyGoal
  <2> QED
    BY <2>1, <2>2, <2>3 DEF Driven, InHand
<1>18. ASSUME NEW d \in Drive, AcceptanceLapses(d) PROVE DrivingIsInHand'
  <2> SUFFICES ASSUME reconnects' = 0, NEW h \in RclpyGoal PROVE Driven(h)'
    BY DEF DrivingIsInHand, Driven
  <2>1. /\ reconnects = 0 /\ UNCHANGED <<fate, overtaken, mine, handle, askedOf>>
        /\ unfollowed' = unfollowed \cup {<<d, mine[d]>>} /\ at' = [at EXCEPT ![d] = "timeout"]
    BY <1>18 DEF AcceptanceLapses
  <2>2. Driven(h)
    BY <2>1 DEF HoldInv, DrivingIsInHand, Driven
  <2>3. h = <<d, mine[d]>> \/ h[1] # d \/ h[2] # mine[d]
    BY DEF RclpyGoal
  <2>4. h[1] # d => at'[h[1]] = at[h[1]]
    BY <2>1 DEF HoldInv, RclpyTypeOK, PlaceType, RclpyGoal
  <2> QED
    BY <2>1, <2>2, <2>3, <2>4 DEF Driven, InHand
<1>19. ASSUME NEW d \in Drive, Rejected(d) PROVE DrivingIsInHand'
  <2> SUFFICES ASSUME reconnects' = 0, NEW h \in RclpyGoal PROVE Driven(h)'
    BY DEF DrivingIsInHand, Driven
  <2>1. /\ reconnects = 0
        /\ UNCHANGED <<fate, unfollowed, overtaken, mine>>
        /\ askedOf \subseteq askedOf'
        /\ handle' = handle
        /\ at' = [at EXCEPT ![d] = "refused"]
        /\ fate[<<d, mine[d]>>] = "rejected"
    BY <1>19 DEF Rejected
  <2>2. Driven(h)
    BY <2>1 DEF HoldInv, DrivingIsInHand, Driven
  <2>3. fate[h] = "running" => h[1] # d \/ h[2] # mine[d]
    BY <2>1 DEF RclpyGoal
  <2>4. h[1] # d => at'[h[1]] = at[h[1]]
    BY <2>1 DEF HoldInv, RclpyTypeOK, PlaceType, RclpyGoal
  <2> QED
    BY <2>1, <2>2, <2>3, <2>4 DEF Driven, InHand
<1>20. ASSUME NEW d \in Drive, Holds(d) PROVE DrivingIsInHand'
  <2> SUFFICES ASSUME reconnects' = 0, NEW h \in RclpyGoal PROVE Driven(h)'
    BY DEF DrivingIsInHand, Driven
  <2>1. /\ reconnects = 0
        /\ UNCHANGED <<fate, unfollowed, overtaken, mine>>
        /\ askedOf \subseteq askedOf'
        /\ at[d] = "accepting"
        /\ at' = [at EXCEPT ![d] = "request"]
        /\ handle' = [handle EXCEPT ![d] = issued[d]]
    BY <1>20 DEF Holds
  <2>2. Driven(h)
    BY <2>1 DEF HoldInv, DrivingIsInHand, Driven
  <2>3. handle[d] = 0 /\ mine[d] = issued[d] /\ handle'[d] = issued[d] /\ h[2] # 0
    <3>1. handle[d] = 0 /\ mine[d] = issued[d]
      BY <2>1 DEF HoldInv, HandlesAgree, HandleOf, NumbersAgree, NumbersOf
    <3>2. handle'[d] = issued[d]
      BY <2>1 DEF HoldInv, RclpyTypeOK, SentType
    <3>3. h[2] # 0
      BY DEF RclpyGoal
    <3> QED
      BY <3>1, <3>2, <3>3
  <2>4. h[1] # d => at'[h[1]] = at[h[1]] /\ handle'[h[1]] = handle[h[1]]
    BY <2>1 DEF HoldInv, RclpyTypeOK, PlaceType, SentType, RclpyGoal
  <2> QED
    BY <2>1, <2>2, <2>3, <2>4 DEF Driven, InHand
<1>21. ASSUME NEW d \in Drive, TripCancels(d) PROVE DrivingIsInHand'
  <2> SUFFICES ASSUME reconnects' = 0, NEW h \in RclpyGoal PROVE Driven(h)'
    BY DEF DrivingIsInHand, Driven
  <2>1. /\ reconnects = 0
        /\ UNCHANGED <<fate, unfollowed, overtaken, mine>>
        /\ askedOf \subseteq askedOf'
        /\ handle' = handle /\ at[d] = "brake" /\ at' = [at EXCEPT ![d] = "wait"]
    BY <1>21 DEF TripCancels, Request
  <2>2. Driven(h)
    BY <2>1 DEF HoldInv, DrivingIsInHand, Driven
  <2>3. at[h[1]] = "accepting" => at'[h[1]] = "accepting"
    BY <2>1 DEF HoldInv, RclpyTypeOK, PlaceType, RclpyGoal
  <2> QED
    BY <2>1, <2>2, <2>3 DEF Driven, InHand
<1>22. ASSUME NEW d \in Drive, DropGoal(d) PROVE DrivingIsInHand'
  <2> SUFFICES ASSUME reconnects' = 0, NEW h \in RclpyGoal PROVE Driven(h)'
    BY DEF DrivingIsInHand, Driven
  <2>1. /\ reconnects = 0
        /\ UNCHANGED <<fate, unfollowed, overtaken, mine>>
        /\ askedOf \subseteq askedOf'
        /\ at[d] = "drop"
        /\ at' = [at EXCEPT ![d] = "keep"]
        /\ handle' = [handle EXCEPT ![d] = 0]
    BY <1>22 DEF DropGoal, Forget
  <2>2. Driven(h)
    BY <2>1 DEF HoldInv, DrivingIsInHand, Driven
  <2>3. handle[d] = 0 \/ (handle[d] = mine[d] /\ <<d, mine[d]>> \in RclpyGoal)
    BY RclpyAssumption DEF HoldInv, HandlesAgree, HandleOf, NumbersAgree, NumbersOf,
       RclpyTypeOK, SentType, RclpyGoal, Run
  <2>4. ASSUME h[1] = d, h[2] = handle[d] PROVE fate[h] # "running"
    <3>1. h = <<d, mine[d]>>
      BY <2>3, <2>4 DEF RclpyGoal
    <3> QED
      BY <2>1, <3>1 DEF HoldInv, EndedIsOver
  <2>5. h[1] # d => at'[h[1]] = at[h[1]] /\ handle'[h[1]] = handle[h[1]]
    BY <2>1 DEF HoldInv, RclpyTypeOK, PlaceType, SentType, RclpyGoal
  <2> QED
    BY <2>1, <2>2, <2>4, <2>5 DEF Driven, InHand
<1>23. ASSUME NEW d \in Drive, NEW g \in RclpyGoal, Issues(d, g) PROVE DrivingIsInHand'
  <2> SUFFICES ASSUME reconnects' = 0, NEW h \in RclpyGoal PROVE Driven(h)'
    BY DEF DrivingIsInHand, Driven
  <2>1. /\ reconnects = 0
        /\ UNCHANGED <<unfollowed, handle, askedOf>>
        /\ overtaken \subseteq overtaken'
        /\ at[d] = "issue"
        /\ fate'[h] = "running" => fate[h] = "running"
    BY <1>23 DEF Issues
  <2>2. Driven(h)
    BY <2>1 DEF HoldInv, DrivingIsInHand, Driven
  <2>3. h[1] # d => at'[h[1]] = at[h[1]] /\ mine'[h[1]] = mine[h[1]]
    BY <1>23 DEF Issues, HoldInv, RclpyTypeOK, PlaceType, SentType, RclpyGoal
  <2> QED
    BY <1>23, <2>1, <2>2, <2>3 DEF Issues, Driven, InHand
<1>24. ASSUME NEW k \in Withdrawers, RevokeForgets(k) PROVE DrivingIsInHand'
  <2> SUFFICES ASSUME reconnects' = 0, NEW h \in RclpyGoal PROVE Driven(h)'
    BY DEF DrivingIsInHand, Driven
  <2>1. /\ reconnects = 0
        /\ UNCHANGED <<fate, unfollowed, overtaken, mine>>
        /\ askedOf \subseteq askedOf'
        /\ UNCHANGED <<at, askedOf>>
        /\ rat[k] \in {"forget", "drop"}
        /\ handle' = [handle EXCEPT ![revoked[k][1]] = 0]
    BY <1>24 DEF RevokeForgets, Forget
  <2>2. Driven(h)
    BY <2>1 DEF HoldInv, DrivingIsInHand, Driven
  <2>3. AskedFor(revoked[k][1])
    BY <2>1 DEF HoldInv, WithdrawnIsAsked, Withdraw
  <2>4. ASSUME h[1] = revoked[k][1], h[2] = handle[h[1]]
        PROVE  fate[h] # "running" \/ h \in askedOf \cup overtaken
    <3>1. h = <<h[1], handle[h[1]]>> /\ handle[h[1]] # 0
      BY <2>4 DEF RclpyGoal
    <3> QED
      BY <2>3, <2>4, <3>1 DEF AskedFor, HoldInv, EndedIsOver
  <2>5. h[1] # revoked[k][1] => handle'[h[1]] = handle[h[1]]
    BY <2>1 DEF HoldInv, RclpyTypeOK, SentType, RclpyGoal
  <2> QED
    BY <2>1, <2>2, <2>4, <2>5 DEF Driven, InHand
<1>25. ASSUME NEW k \in Withdrawers, HaltDrops(k) PROVE DrivingIsInHand'
  <2> SUFFICES ASSUME reconnects' = 0, NEW h \in RclpyGoal PROVE Driven(h)'
    BY DEF DrivingIsInHand, Driven
  <2>1. /\ reconnects = 0
        /\ UNCHANGED <<fate, unfollowed, overtaken, mine>>
        /\ askedOf \subseteq askedOf'
        /\ UNCHANGED <<at, askedOf>>
        /\ rat[k] \in {"forget", "drop"}
        /\ handle' = [handle EXCEPT ![revoked[k][1]] = 0]
    BY <1>25 DEF HaltDrops, Forget
  <2>2. Driven(h)
    BY <2>1 DEF HoldInv, DrivingIsInHand, Driven
  <2>3. AskedFor(revoked[k][1])
    BY <2>1 DEF HoldInv, WithdrawnIsAsked, Withdraw
  <2>4. ASSUME h[1] = revoked[k][1], h[2] = handle[h[1]]
        PROVE  fate[h] # "running" \/ h \in askedOf \cup overtaken
    <3>1. h = <<h[1], handle[h[1]]>> /\ handle[h[1]] # 0
      BY <2>4 DEF RclpyGoal
    <3> QED
      BY <2>3, <2>4, <3>1 DEF AskedFor, HoldInv, EndedIsOver
  <2>5. h[1] # revoked[k][1] => handle'[h[1]] = handle[h[1]]
    BY <2>1 DEF HoldInv, RclpyTypeOK, SentType, RclpyGoal
  <2> QED
    BY <2>1, <2>2, <2>4, <2>5 DEF Driven, InHand
<1>26. ASSUME NEW g \in RclpyGoal, NEW e \in {"running", "rejected"}, Takes(g, e)
       PROVE  DrivingIsInHand'
  <2> SUFFICES ASSUME reconnects' = 0, NEW h \in RclpyGoal PROVE Driven(h)'
    BY DEF DrivingIsInHand, Driven
  <2>1. /\ reconnects = 0 /\ UNCHANGED <<handle, at, mine, unfollowed, overtaken, askedOf>>
        /\ fate'[h] = "running" => fate[h] \in {"sent", "running"}
    BY <1>26 DEF Takes, Moves, FateGoesOn
  <2>2. Driven(h) /\ Awaited(h)
    BY <2>1 DEF HoldInv, DrivingIsInHand, Driven, SentIsAwaited
  <2> QED
    BY <2>1, <2>2 DEF Driven, InHand, Awaited
<1>27. ASSUME NEW g \in RclpyGoal, NEW f \in {"running", "canceling"}, NEW e \in Final,
              Ends(g, f, e)
       PROVE  DrivingIsInHand'
  <2> SUFFICES ASSUME reconnects' = 0, NEW h \in RclpyGoal PROVE Driven(h)'
    BY DEF DrivingIsInHand, Driven
  <2>1. /\ reconnects = 0 /\ UNCHANGED <<handle, at, mine, unfollowed, overtaken, askedOf>>
        /\ fate'[h] = "running" => fate[h] \in {"sent", "running"}
    BY <1>27 DEF Ends, Moves, FateGoesOn
  <2>2. Driven(h) /\ Awaited(h)
    BY <2>1 DEF HoldInv, DrivingIsInHand, Driven, SentIsAwaited
  <2> QED
    BY <2>1, <2>2 DEF Driven, InHand, Awaited
<1>28. ASSUME NEW g \in RclpyGoal, NEW who \in Drive \cup Withdrawers, NEW f \in Fate,
              Cancels(who, g, f)
       PROVE  DrivingIsInHand'
  <2> SUFFICES ASSUME reconnects' = 0, NEW h \in RclpyGoal PROVE Driven(h)'
    BY DEF DrivingIsInHand, Driven
  <2>1. /\ reconnects = 0 /\ UNCHANGED <<handle, at, mine, unfollowed, overtaken, askedOf>>
        /\ fate'[h] = "running" => fate[h] \in {"sent", "running"}
    BY <1>28 DEF Cancels, Moves, FateGoesOn
  <2>2. Driven(h) /\ Awaited(h)
    BY <2>1 DEF HoldInv, DrivingIsInHand, Driven, SentIsAwaited
  <2> QED
    BY <2>1, <2>2 DEF Driven, InHand, Awaited
<1> QED
  BY <1>1, <1>2, <1>3, <1>4, <1>5, <1>6, <1>7, <1>8, <1>9, <1>10, <1>11, <1>12, <1>13, <1>14,
     <1>15, <1>16, <1>17, <1>18, <1>19, <1>20, <1>21, <1>22, <1>23, <1>24, <1>25, <1>26, <1>27,
     <1>28 DEF Forms, HaltStep
(* The invariant, of any step.                                               *)
LEMMA HoldStep == HoldInv /\ [RclpyNext]_rclpyVars => HoldInv'
<1>1. ASSUME HoldInv, RclpyNext PROVE RclpyTypeOK'
  BY <1>1, SentTypeStep, PlaceTypeStep, HaltTypeStep, AskedTypeStep, PastTypeStep DEF RclpyTypeOK
<1>2. ASSUME HoldInv, RclpyNext PROVE HoldInv'
  BY <1>1, <1>2, NumbersStep, HandlesStep, SentStep, EndedStep, OneRunsStep, CrossingsStep,
     WithdrawnStep, GoneStep, WatchesStep, InHandStep DEF HoldInv
<1>3. ASSUME HoldInv, UNCHANGED rclpyVars PROVE HoldInv'
  <2> USE <1>3 DEF HoldInv, rclpyVars, linkState, goalState, heldState, runState, haltState,
      pastState
  <2>1. RclpyTypeOK'
    BY DEF RclpyTypeOK, SentType, PlaceType, HaltType, AskedType, PastType
  <2>2. NumbersAgree' /\ HandlesAgree'
    BY DEF NumbersAgree, NumbersOf, HandlesAgree, HandleOf
  <2>3. SentIsAwaited' /\ EndedIsOver' /\ OneRuns'
    BY DEF SentIsAwaited, Awaited, EndedIsOver, OneRuns, Preempts
  <2>4. CrossingsAreKnown' /\ WithdrawnIsAsked' /\ CancelledIsGone'
    BY DEF CrossingsAreKnown, CrossingOf, Withdrawing, WithdrawnIsAsked, AskedFor,
       CancelledIsGone, Confirmed, Gone
  <2>5. WatchesFollow' /\ DrivingIsInHand'
    BY DEF WatchesFollow, WatchOf, DrivingIsInHand, InHand
  <2> QED
    BY <2>1, <2>2, <2>3, <2>4, <2>5
<1> QED
  BY <1>2, <1>3

(* At the beginning nothing was sent.                                        *)
LEMMA HoldInit == RclpyInit => HoldInv
<1> SUFFICES ASSUME RclpyInit PROVE HoldInv
  OBVIOUS
<1> USE RclpyAssumption DEF RclpyInit
<1>1. RclpyTypeOK
  BY DEF RclpyTypeOK, SentType, PlaceType, HaltType, AskedType, PastType, Run, Fate, Unwatched,
     Returned, Followed, Withdraw
<1>2. NumbersAgree /\ HandlesAgree
  BY DEF NumbersAgree, NumbersOf, HandlesAgree, HandleOf, Followed, RclpyGoal
<1>3. SentIsAwaited /\ EndedIsOver /\ OneRuns
  BY DEF SentIsAwaited, Awaited, EndedIsOver, OneRuns, Preempts, UnderWay, RclpyGoal
<1>4. CrossingsAreKnown /\ WithdrawnIsAsked /\ CancelledIsGone
  BY DEF CrossingsAreKnown, CrossingOf, WithdrawnIsAsked, AskedFor, CancelledIsGone, Confirmed,
     Withdraw
<1>5. WatchesFollow /\ DrivingIsInHand
  BY DEF WatchesFollow, WatchOf, DrivingIsInHand, Followed, Unwatched
<1> QED
  BY <1>1, <1>2, <1>3, <1>4, <1>5 DEF HoldInv

(* The three parts of the property follow.                                   *)
LEMMA HoldHolds == HoldInv => RclpyKeepsHold
<1> SUFFICES ASSUME HoldInv PROVE RclpyKeepsHold
  OBVIOUS
<1>1. DrivingIsInHand
  BY DEF HoldInv
<1>2. HeldIsWatched
  <2> SUFFICES ASSUME NEW d \in Watched, at[d] = "wait", handle[d] = mine[d], mine[d] # 0,
                      reconnects = 0, <<d, mine[d]>> \notin overtaken
               PROVE  /\ watch[d].on
                      /\ watch[d].tripped /\ watch[d].sent => <<d, mine[d]>> \in askedOf
    BY DEF HeldIsWatched
  <2>1. WatchOf(d)
    BY RclpyAssumption DEF HoldInv, WatchesFollow
  <2> QED
    BY <2>1 DEF WatchOf
<1>3. CancelledIsCancelled
  <2> SUFFICES ASSUME NEW d \in Drive, NEW m \in 1..MaxRuns, results[d] = "cancelled",
                      fate[<<d, m>>] = "running"
               PROVE  <<d, m>> \in unfollowed \cup overtaken \cup dropped
    BY DEF CancelledIsCancelled, RclpyGoal
  <2> QED
    BY DEF HoldInv, CancelledIsGone, Gone
<1> QED
  BY <1>1, <1>2, <1>3 DEF RclpyKeepsHold

(* A drive stays under control over either transport: a goal that drives is  *)
(* one a cancel, a stop or the guard can reach, a drive somebody waits for   *)
(* is watched, and a call told cancelled drives no more, but for the gaps    *)
(* the property names.                                                       *)
THEOREM DrivesControl ==
  ASSUME OneJobPerCall
  PROVE  DrivesSpec => []DrivesAreInHand
<1>1. DrivesInit => Init /\ RclpyInit
  BY DEF DrivesInit
<1>2. [DrivesNext]_<<vars, rclpyVars, transport>> => [Next]_vars /\ [RclpyNext]_rclpyVars
  BY DEF DrivesNext
<1>3. DrivesSpec => Spec /\ RclpyInit /\ [][RclpyNext]_rclpyVars
  BY <1>1, <1>2, PTL DEF DrivesSpec, Spec
<1>4. RclpyInit /\ [][RclpyNext]_rclpyVars => []RclpyKeepsHold
  BY HoldInit, HoldStep, HoldHolds, PTL
<1>5. DriveIsInHand /\ RclpyKeepsHold => DrivesAreInHand
  BY DEF DrivesAreInHand
<1> QED
  BY <1>3, <1>4, <1>5, DriveControl, PTL

================================================================================
