----------------------- MODULE MissionController_proofs -----------------------
(***************************************************************************)
(* Theorems about MissionController, for any plans, sweeps, places,          *)
(* decisions and limits.                                                     *)
(***************************************************************************)
EXTENDS MissionController, TLAPS

Moment == Nat \cup {None}

\* What MissionController's attributes hold.
Attributes == [state: {"accepted", "active", "completed", "failed"},
               idx: Nat, entered: Nat, lineAt: Moment, lineSeen: Moment,
               origin: Places \cup {None}, clearSince: Moment,
               reason: {"none", "replan", "step", "mission_timeout", "fail_stale",
                        "fail_not_ready"},
               decisions: [Gates(plan) -> {"none", "approved", "denied"}]]

Policy == plan \in {p \in Candidates : PlanPolicy(p)}

\* The step index follows the state.
Placed(c) == /\ c.state = "accepted" => c.idx = 0
             /\ c.state = "active" => c.idx \in DOMAIN plan

\* A command that drives a wheel belongs to a motion step.
Steered(c, command) ==
    command # "stop" => c.state = "active" /\ c.idx \in Steps(plan, Motion)

\* Gates behind the mission were approved, approvals were heard.
GatesApproved(c) ==
    \A i \in Steps(plan, {"ask_human"}) :
        c.idx > i /\ ~Terminal(c) => c.decisions[plan[i].to] = "approved"
ApprovalsHeard(c, arrived) ==
    \A g \in Gates(plan) : c.decisions[g] = "approved" =>
        \E msg \in arrived : msg.id = g /\ msg.approved

Inv ==
    /\ Policy /\ now \in Nat /\ pose \in Places \cup {None}
    /\ m \in Attributes /\ Placed(m) /\ Steered(m, cmd)
    /\ written = Terminal(m)
    /\ GatesApproved(m) /\ ApprovalsHeard(m, heard)

\* What one call of the controller may do with the step it finds.
Advances(c, r) ==
    /\ r.m \in Attributes /\ r.m.decisions = c.decisions
    /\ Placed(r.m) /\ Steered(r.m, r.cmd)
    /\ \/ r.m.idx = c.idx
       \/ /\ r.m.idx = c.idx + 1
          /\ c.idx \in Steps(plan, {"ask_human"}) => c.decisions[plan[c.idx].to] = "approved"

(* A plan is a sequence with a step.                                         *)
LEMMA PlanIsSequence == ASSUME Policy PROVE Len(plan) \in Nat \ {0} /\ DOMAIN plan = 1..Len(plan)
  BY MissionAssumption DEF Policy

(* The next step is in the plan, or the mission is complete.                 *)
LEMMA StartNextMoves ==
  ASSUME Policy, now \in Nat, NEW c \in Attributes, c.idx \in 0..Len(plan)
  PROVE  LET d == StartNext(c) IN
         /\ d \in Attributes /\ d.decisions = c.decisions
         /\ d.idx = c.idx + 1 /\ Placed(d)
         /\ d.state \in {"active", "completed"}
         /\ d.state = "active" => d.idx \in DOMAIN plan
<1>1. Len(plan) \in Nat \ {0} /\ DOMAIN plan = 1..Len(plan)
  BY PlanIsSequence
<1>2. c.idx \in Nat
  BY DEF Attributes
<1> DEFINE fresh == [c EXCEPT !.idx = @ + 1, !.entered = now]
           ended == [fresh EXCEPT !.state = "completed"]
           begun == [fresh EXCEPT !.state = "active", !.lineAt = None, !.lineSeen = None,
                                  !.origin = None, !.clearSince = None]
<1>3. fresh \in Attributes /\ fresh.idx = c.idx + 1 /\ fresh.decisions = c.decisions
  <2>1. c.idx + 1 \in Nat
    BY <1>2
  <2>2. fresh = [c EXCEPT !.idx = c.idx + 1, !.entered = now]
    BY DEF Attributes
  <2> QED
    BY <2>1, <2>2 DEF Attributes
<1>4. StartNext(c) = IF fresh.idx > Len(plan) THEN ended ELSE begun
  BY DEF StartNext
<1> HIDE DEF fresh
<1>5. /\ ended \in Attributes /\ ended.idx = fresh.idx /\ ended.state = "completed"
      /\ ended.decisions = fresh.decisions
  BY <1>3 DEF Attributes
<1>6. /\ begun \in Attributes /\ begun.idx = fresh.idx /\ begun.state = "active"
      /\ begun.decisions = fresh.decisions
  BY <1>3 DEF Attributes, Moment
<1> HIDE DEF ended, begun
<1>7. CASE fresh.idx > Len(plan)
  BY <1>3, <1>4, <1>5, <1>7 DEF Placed
<1>8. CASE ~(fresh.idx > Len(plan))
  <2>1. fresh.idx \in DOMAIN plan
    BY <1>1, <1>2, <1>3, <1>8
  <2> QED
    BY <1>3, <1>4, <1>6, <1>8, <2>1 DEF Placed
<1> QED
  BY <1>7, <1>8

(* A step that completes was not a gate, or was approved; it ends in a stop. *)
LEMMA CompleteAdvances ==
  ASSUME Policy, now \in Nat, NEW c \in Attributes, c.idx \in DOMAIN plan,
         c.idx \in Steps(plan, {"ask_human"}) => c.decisions[plan[c.idx].to] = "approved",
         NEW d \in Attributes, d.idx = c.idx, d.decisions = c.decisions,
         NEW r \in Complete(d)
  PROVE  Advances(c, r)
<1>1. d.idx \in 0..Len(plan)
  BY PlanIsSequence
<1>2. r.m = StartNext(d) /\ r.cmd = "stop"
  BY DEF Complete, Out
<1> QED
  BY <1>1, <1>2, StartNextMoves DEF Advances, Steered

(* A failure stops the robot where the plan is.                              *)
LEMMA FailAdvances ==
  ASSUME Policy, NEW c \in Attributes, ~Terminal(c), NEW d \in Attributes, d.idx = c.idx,
         d.decisions = c.decisions, d.state = c.state, NEW r,
         \/ r \in StepFailure(d)
         \/ \E why \in {"mission_timeout", "fail_stale", "fail_not_ready"} :
               r = Out(Fail(d, why), "stop")
  PROVE  Advances(c, r) /\ r.m.state = "failed" /\ r.cmd = "stop"
<1> DEFINE why == {"step", "replan", "mission_timeout", "fail_stale", "fail_not_ready"}
<1>1. \E w \in why : r = Out(Fail(d, w), "stop")
  BY DEF StepFailure
<1>2. PICK w \in why : r = Out(Fail(d, w), "stop")
  BY <1>1
<1>3. ~Terminal(d)
  BY DEF Terminal
<1>4. r.m = [d EXCEPT !.state = "failed", !.reason = w] /\ r.cmd = "stop"
  BY <1>2, <1>3 DEF Out, Fail
<1>5. r.m \in Attributes /\ r.m.state = "failed" /\ r.m.idx = d.idx /\ r.m.decisions = d.decisions
  BY <1>4 DEF Attributes
<1> QED
  BY <1>4, <1>5 DEF Advances, Steered, Placed

(* A step that stays where it is keeps its place, whatever it remembers.     *)
LEMMA StayAdvances ==
  ASSUME Policy, NEW c \in Attributes, c.state = "active", c.idx \in DOMAIN plan,
         NEW d \in Attributes, d.idx = c.idx, d.state = c.state, d.decisions = c.decisions,
         NEW command, command # "stop" => plan[c.idx].kind \in Motion
  PROVE  Advances(c, Out(d, command))
  BY DEF Out, Advances, Steered, Placed, Steps

(* Each step handler advances the plan as it may.                            *)
LEMMA DispatchAdvances ==
  ASSUME Policy, now \in Nat, pose \in Places \cup {None},
         NEW c \in Attributes, c.state = "active", c.idx \in DOMAIN plan,
         NEW r \in Dispatch(c)
  PROVE  Advances(c, r)
<1> DEFINE kind == plan[c.idx].kind
<1>0. ~Terminal(c)
  BY DEF Terminal
<1>f. ASSUME NEW d \in Attributes, d.idx = c.idx, d.decisions = c.decisions, d.state = c.state,
             r \in StepFailure(d)
      PROVE  Advances(c, r)
  BY <1>0, <1>f, FailAdvances
<1>n. kind # "ask_human" => c.idx \notin Steps(plan, {"ask_human"})
  BY DEF Steps
<1>1. CASE kind \in {"navigate", "navigate_to_location"}
  <2>1. r \in {Out(c, "stop"), Out(c, "rotate"), Out(c, "forward")} \/ r \in Complete(c)
    BY <1>1 DEF Dispatch, Navigate
  <2> QED
    BY <1>1, <1>n, <2>1, CompleteAdvances, StayAdvances DEF Motion
<1>2. ASSUME NEW intent, r \in Relative(c, intent), kind \in Motion, kind # "ask_human"
      PROVE  Advances(c, r)
  <2> DEFINE here == [c EXCEPT !.origin = IF @ = None THEN pose ELSE @]
  <2>1. here \in Attributes /\ here.idx = c.idx /\ here.state = c.state /\ here.decisions = c.decisions
    BY DEF Attributes
  <2>2. r \in {Out(c, "stop"), Out(here, intent)} \/ r \in Complete(here)
    BY <1>2 DEF Relative
  <2> HIDE DEF here
  <2> QED
    BY <1>2, <1>n, <2>1, <2>2, CompleteAdvances, StayAdvances
<1>3. CASE kind \in {"move_relative", "turn_relative"}
  <2>1. \E intent : r \in Relative(c, intent)
    BY <1>3 DEF Dispatch
  <2> QED
    BY <1>2, <1>3, <2>1 DEF Motion
<1>4. CASE kind = "follow_line"
  <2> DEFINE seen == [c EXCEPT !.lineAt = IF @ = None THEN now ELSE @, !.lineSeen = now]
  <2>1. seen \in Attributes /\ seen.idx = c.idx /\ seen.state = c.state /\ seen.decisions = c.decisions
    BY DEF Attributes, Moment
  <2>2. r \in FollowLine(c)
    BY <1>4 DEF Dispatch
  <2>3. \/ r \in {Out(c, "stop"), Out(seen, "forward"), Out(c, "forward")}
        \/ r \in Complete(c) \/ r \in StepFailure(c)
    BY <2>2 DEF FollowLine
  <2> HIDE DEF seen
  <2> QED
    BY <1>4, <1>f, <1>n, <2>1, <2>3, CompleteAdvances, StayAdvances DEF Motion
<1>5. CASE kind = "wait_until_clear"
  <2> DEFINE since == IF c.clearSince = None THEN now ELSE c.clearSince
             timed == [c EXCEPT !.clearSince = since]
             reset == [c EXCEPT !.clearSince = None]
  <2>1. /\ timed \in Attributes /\ timed.idx = c.idx /\ timed.state = c.state
        /\ timed.decisions = c.decisions
    BY DEF Attributes, Moment
  <2>2. /\ reset \in Attributes /\ reset.idx = c.idx /\ reset.state = c.state
        /\ reset.decisions = c.decisions
    BY DEF Attributes, Moment
  <2>3. r \in WaitUntilClear(c)
    BY <1>5 DEF Dispatch
  <2>4. r \in {Out(reset, "stop"), Out(timed, "stop")} \/ r \in Complete(timed)
    BY <2>3 DEF WaitUntilClear
  <2> HIDE DEF timed, reset
  <2> QED
    BY <1>5, <1>n, <2>1, <2>2, <2>4, CompleteAdvances, StayAdvances
<1>6. CASE kind = "ask_human"
  <2>1. r \in AskHuman(c)
    BY <1>6 DEF Dispatch
  <2>2. plan[c.idx].to \in Gates(plan)
    BY <1>6 DEF Gates, Steps
  <2>3. c.decisions[plan[c.idx].to] \in {"none", "approved", "denied"}
    BY <2>2 DEF Attributes
  <2>4. \/ r = Out(c, "stop") \/ r \in StepFailure(c)
        \/ c.decisions[plan[c.idx].to] = "approved" /\ r \in Complete(c)
    BY <2>1, <2>3 DEF AskHuman
  <2> QED
    BY <1>f, <2>4, CompleteAdvances, StayAdvances
<1>7. CASE kind = "resume"
  BY <1>7, <1>f, <1>n, CompleteAdvances DEF Dispatch, Resume
<1>8. CASE kind = "save_current_location"
  BY <1>8, <1>f, <1>n, CompleteAdvances DEF Dispatch, SaveLocation
<1>9. CASE kind \in {"dwell", "safe_stop"}
  <2>1. r = Out(c, "stop") \/ r \in Complete(c)
    BY <1>9 DEF Dispatch, Hold
  <2> QED
    BY <1>9, <1>n, <2>1, CompleteAdvances, StayAdvances
<1>10. kind \in Kind
  BY MissionAssumption DEF Policy
<1> QED
  BY <1>1, <1>3, <1>4, <1>5, <1>6, <1>7, <1>8, <1>9, <1>10 DEF Kind, Motion

(* The step a control step works on is in the plan: the first one, or the    *)
(* one the mission is at.                                                    *)
LEMMA StartStays ==
  ASSUME Policy, now \in Nat, m \in Attributes, Placed(m), ~Terminal(m)
  PROVE  LET d == IF m.state = "accepted" THEN StartNext(m) ELSE m IN
         /\ d \in Attributes /\ d.decisions = m.decisions /\ d.state = "active"
         /\ d.idx \in DOMAIN plan
         /\ d.idx = m.idx \/ (m.idx = 0 /\ d.idx = 1)
<1> DEFINE d == IF m.state = "accepted" THEN StartNext(m) ELSE m
<1>1. Len(plan) \in Nat \ {0} /\ DOMAIN plan = 1..Len(plan)
  BY PlanIsSequence
<1>2. m.state \in {"accepted", "active"}
  BY DEF Terminal, Attributes
<1>3. /\ d \in Attributes /\ d.decisions = m.decisions /\ d.state = "active"
      /\ d.idx \in DOMAIN plan
      /\ d.idx = m.idx \/ (m.idx = 0 /\ d.idx = 1)
  <2>1. CASE m.state = "accepted"
    <3>1. m.idx = 0 /\ m.idx \in 0..Len(plan)
      BY <1>1, <2>1 DEF Placed
    <3>2. /\ StartNext(m) \in Attributes /\ StartNext(m).decisions = m.decisions
          /\ StartNext(m).idx = m.idx + 1
          /\ StartNext(m).state \in {"active", "completed"}
      BY <3>1, StartNextMoves
    <3>3. StartNext(m).state = "active"
      <4> DEFINE fresh == [m EXCEPT !.idx = @ + 1, !.entered = now]
      <4>1. fresh.idx = 1 /\ fresh \in Attributes
        <5>1. m.idx + 1 = 1 /\ 1 \in Nat
          BY <3>1
        <5>2. fresh = [m EXCEPT !.idx = 1, !.entered = now]
          BY <5>1 DEF Attributes
        <5> HIDE DEF fresh
        <5> QED
          BY <5>1, <5>2 DEF Attributes
      <4>2. ~(fresh.idx > Len(plan))
        BY <1>1, <4>1
      <4> HIDE DEF fresh
      <4>3. StartNext(m) = [fresh EXCEPT !.state = "active", !.lineAt = None, !.lineSeen = None,
                                         !.origin = None, !.clearSince = None]
        BY <4>2 DEF StartNext, fresh
      <4> QED
        BY <4>1, <4>3 DEF Attributes
    <3> QED
      BY <1>1, <2>1, <3>1, <3>2, <3>3
  <2> QED
    BY <1>2, <2>1 DEF Placed
<1> QED
  BY <1>3

(* A control step leaves no gate behind that was not approved, whether it    *)
(* starts the mission or goes on with it.                                    *)
LEMMA TickAdvances ==
  ASSUME Policy, now \in Nat, pose \in Places \cup {None},
         m \in Attributes, Placed(m), ~Terminal(m), GatesApproved(m), NEW r \in Tick(m)
  PROVE  /\ r.m \in Attributes /\ r.m.decisions = m.decisions
         /\ Placed(r.m) /\ Steered(r.m, r.cmd) /\ GatesApproved(r.m)
<1> DEFINE d == IF m.state = "accepted" THEN StartNext(m) ELSE m
<1>1. Len(plan) \in Nat \ {0} /\ DOMAIN plan = 1..Len(plan)
  BY PlanIsSequence
<1>3. /\ d \in Attributes /\ d.decisions = m.decisions /\ d.state = "active"
      /\ d.idx \in DOMAIN plan
      /\ d.idx = m.idx \/ (m.idx = 0 /\ d.idx = 1)
  BY StartStays
<1> HIDE DEF d
<1>4. ~Terminal(d)
  BY <1>3 DEF Terminal
<1>5. \/ r = Out(Fail(m, "mission_timeout"), "stop") \/ r \in StepFailure(d) \/ r \in Dispatch(d)
  BY DEF Tick, d
<1>6. GatesApproved(d)
  <2>1. CASE d.idx = m.idx
    BY <1>3, <2>1 DEF GatesApproved
  <2>2. CASE d.idx = 1
    BY <1>1, <2>2 DEF GatesApproved, Steps
  <2> QED
    BY <1>3, <2>1, <2>2
<1>7. CASE r = Out(Fail(m, "mission_timeout"), "stop")
  <2>1. Advances(m, r) /\ r.m.state = "failed"
    BY <1>7, FailAdvances
  <2> QED
    BY <2>1 DEF Advances, GatesApproved, Terminal
<1>8. Advances(d, r) \/ r = Out(Fail(m, "mission_timeout"), "stop")
  BY <1>3, <1>4, <1>5, FailAdvances, DispatchAdvances
<1>9. ASSUME Advances(d, r) PROVE GatesApproved(r.m)
  <2> SUFFICES ASSUME NEW i \in Steps(plan, {"ask_human"}), r.m.idx > i
               PROVE  d.decisions[plan[i].to] = "approved"
    BY <1>9 DEF GatesApproved, Advances
  <2>1. i \in Nat /\ d.idx \in Nat /\ r.m.idx \in Nat
    BY <1>1, <1>3, <1>9 DEF Steps, Advances, Attributes
  <2>2. CASE d.idx > i
    BY <1>4, <1>6, <2>2 DEF GatesApproved
  <2>3. CASE ~(d.idx > i)
    BY <1>9, <2>1, <2>3 DEF Advances
  <2> QED
    BY <2>2, <2>3
<1> QED
  BY <1>3, <1>7, <1>8, <1>9 DEF Advances

(* A decision reaches only the gate it names, and only a heard one.          *)
LEMMA SubmitKeeps ==
  ASSUME Policy, m \in Attributes, NEW msg, NEW arrived, msg \in arrived,
         ApprovalsHeard(m, arrived), GatesApproved(m)
  PROVE  LET d == Submit(m, msg) IN
         /\ d \in Attributes /\ d.state = m.state /\ d.idx = m.idx
         /\ ApprovalsHeard(d, arrived) /\ GatesApproved(d)
<1>1. CASE Submit(m, msg) = m
  BY <1>1
<1>2. CASE Submit(m, msg) # m
  <2> DEFINE answer == IF msg.approved THEN "approved" ELSE "denied"
             d == [m EXCEPT !.decisions[msg.id] = answer]
  <2>1. /\ Submit(m, msg) = d /\ m.decisions[msg.id] = "none"
        /\ m.idx \in DOMAIN plan /\ plan[m.idx].kind = "ask_human" /\ plan[m.idx].to = msg.id
    BY <1>2 DEF Submit
  <2>2. msg.id \in Gates(plan)
    BY <2>1 DEF Gates, Steps
  <2>3. m.decisions \in [Gates(plan) -> {"none", "approved", "denied"}]
    BY DEF Attributes
  <2>4. [m.decisions EXCEPT ![msg.id] = answer] \in [Gates(plan) -> {"none", "approved", "denied"}]
    BY <2>3
  <2>5. d = [m EXCEPT !.decisions = [m.decisions EXCEPT ![msg.id] = answer]]
    OBVIOUS
  <2> HIDE DEF d
  <2>6. /\ d \in Attributes /\ d.state = m.state /\ d.idx = m.idx
        /\ d.decisions = [m.decisions EXCEPT ![msg.id] = answer]
    BY <2>4, <2>5 DEF Attributes
  <2>7. ApprovalsHeard(d, arrived)
    <3> SUFFICES ASSUME NEW g \in Gates(plan), d.decisions[g] = "approved"
                 PROVE  \E x \in arrived : x.id = g /\ x.approved
      BY DEF ApprovalsHeard
    <3>1. CASE g = msg.id
      BY <2>3, <2>6, <3>1
    <3>2. CASE g # msg.id
      BY <2>3, <2>6, <3>2 DEF ApprovalsHeard
    <3> QED
      BY <3>1, <3>2
  <2>8. GatesApproved(d)
    <3> SUFFICES ASSUME NEW i \in Steps(plan, {"ask_human"}), d.idx > i, ~Terminal(d)
                 PROVE  d.decisions[plan[i].to] = "approved"
      BY DEF GatesApproved
    <3>1. m.decisions[plan[i].to] = "approved"
      BY <2>6 DEF GatesApproved, Terminal
    <3>2. plan[i].to \in Gates(plan)
      BY DEF Gates, Steps
    <3> QED
      BY <2>1, <2>3, <2>6, <3>1, <3>2
  <2> QED
    BY <2>1, <2>6, <2>7, <2>8
<1> QED
  BY <1>1, <1>2

(* What is said of the plan alone stays true with it.                        *)
LEMMA PlanKept ==
  ASSUME Policy, plan' = plan
  PROVE  Policy' /\ Gates(plan)' = Gates(plan) /\ Attributes' = Attributes
<1>1. Policy'
  BY DEF Policy, Steps, PlanPolicy, LinesConnect, ApprovalsResolve, PendingAt
<1>2. Gates(plan)' = Gates(plan)
  BY DEF Gates, Steps
<1>3. Attributes' = Attributes
  BY <1>2 DEF Attributes
<1> QED
  BY <1>1, <1>2, <1>3

(* At the beginning nothing was decided and no step has begun.               *)
LEMMA InitInv == Init => Inv
<1> SUFFICES ASSUME Init PROVE Inv
  OBVIOUS
<1>1. m \in Attributes /\ m.state = "accepted" /\ m.idx = 0 /\ ~Terminal(m)
  BY DEF Init, Attributes, Moment, Terminal
<1>2. \A g \in Gates(plan) : m.decisions[g] = "none"
  BY DEF Init
<1>3. Policy /\ Len(plan) \in Nat \ {0} /\ DOMAIN plan = 1..Len(plan)
  BY PlanIsSequence DEF Policy, Init
<1>4. GatesApproved(m)
  BY <1>1, <1>3 DEF GatesApproved, Steps
<1>5. Placed(m) /\ Steered(m, cmd) /\ ApprovalsHeard(m, heard)
  BY <1>1, <1>2 DEF Init, Placed, Steered, ApprovalsHeard
<1>6. written = Terminal(m)
  <2>1. written = FALSE /\ (Terminal(m) = FALSE)
    BY <1>1 DEF Init, Terminal
  <2> QED
    BY <2>1
<1> QED
  BY <1>1, <1>3, <1>4, <1>5, <1>6 DEF Init, Inv

(* A control step keeps the invariant.                                       *)
LEMMA ControlTickInv == Inv /\ ControlTick => Inv'
<1> SUFFICES ASSUME Inv, ControlTick PROVE Inv'
  OBVIOUS
<1> USE DEF Inv
<1>1. UNCHANGED <<plan, now, pose, heard>> /\ ~Terminal(m)
  BY DEF ControlTick, Live, samples
<1>2. Policy' /\ Attributes' = Attributes /\ Gates(plan)' = Gates(plan)
  BY <1>1, PlanKept
<1>3. \/ \E r \in Tick(m) : Finish(r)
      \/ UNCHANGED <<m, written>> /\ cmd' = "stop"
      \/ \E why \in {"fail_stale", "fail_not_ready"} : Finish(Out(Fail(m, why), "stop"))
  BY DEF ControlTick, SensorGate
<1>4. ASSUME NEW r, Finish(r), r.m \in Attributes, r.m.decisions = m.decisions,
             Placed(r.m), Steered(r.m, r.cmd), GatesApproved(r.m)
      PROVE  Inv'
  <2>1. m' = r.m /\ written' = Terminal(m')
    BY <1>4 DEF Finish
  <2>2. cmd' # "stop" => r.cmd # "stop"
    BY <1>4 DEF Finish
  <2>3. Placed(m)' /\ Steered(m, cmd)' /\ GatesApproved(m)' /\ ApprovalsHeard(m, heard)'
    BY <1>1, <1>2, <1>4, <2>1, <2>2 DEF Placed, Steered, GatesApproved, ApprovalsHeard, Steps,
       Terminal
  <2>4. written' = Terminal(m)'
    BY <2>1 DEF Terminal
  <2> QED
    BY <1>1, <1>2, <1>4, <2>1, <2>3, <2>4
<1>5. CASE \E r \in Tick(m) : Finish(r)
  BY <1>1, <1>4, <1>5, TickAdvances
<1>6. CASE UNCHANGED <<m, written>> /\ cmd' = "stop"
  BY <1>1, <1>2, <1>6 DEF Placed, Steered, GatesApproved, ApprovalsHeard, Steps, Terminal
<1>7. CASE \E why \in {"fail_stale", "fail_not_ready"} : Finish(Out(Fail(m, why), "stop"))
  <2>1. PICK why \in {"fail_stale", "fail_not_ready"} : Finish(Out(Fail(m, why), "stop"))
    BY <1>7
  <2> DEFINE r == Out(Fail(m, why), "stop")
  <2>2. Advances(m, r) /\ r.m.state = "failed"
    BY <1>1, FailAdvances
  <2> HIDE DEF r
  <2>3. GatesApproved(r.m)
    BY <2>2 DEF GatesApproved, Terminal
  <2> QED
    BY <1>4, <2>1, <2>2, <2>3 DEF Advances, r
<1> QED
  BY <1>3, <1>5, <1>6, <1>7

(* Every step keeps the invariant, ...                                       *)
LEMMA NextInv == Inv /\ [Next]_vars => Inv'
<1> SUFFICES ASSUME Inv, [Next]_vars PROVE Inv'
  OBVIOUS
<1>0. ASSUME UNCHANGED <<plan, m, cmd, written, heard>>, now' \in Nat,
             pose' \in Places \cup {None}
      PROVE  Inv'
  <2>1. Policy' /\ Gates(plan)' = Gates(plan) /\ Attributes' = Attributes
    BY <1>0, PlanKept DEF Inv
  <2>2. Placed(m)' /\ Steered(m, cmd)' /\ GatesApproved(m)' /\ ApprovalsHeard(m, heard)'
    BY <1>0, <2>1 DEF Inv, Placed, Steered, GatesApproved, ApprovalsHeard, Steps, Terminal
  <2>3. written' = Terminal(m)'
    BY <1>0 DEF Inv, Terminal
  <2> QED
    BY <1>0, <2>1, <2>2, <2>3 DEF Inv
<1>1. CASE Pass
  BY <1>0, <1>1 DEF Pass, samples, node, Inv
<1>2. CASE OnOdometry \/ OnScan \/ OnImage
  BY <1>0, <1>2 DEF OnOdometry, OnScan, OnImage, Sampled, node, Inv
<1>3. CASE ControlTick
  BY <1>3, ControlTickInv
<1>4. ASSUME NEW msg \in Messages, OnHumanDecision(msg) PROVE Inv'
  <2> USE DEF Inv
  <2>1. UNCHANGED <<plan, now, pose, cmd, written>> /\ heard \subseteq heard'
    BY <1>4 DEF OnHumanDecision, samples, node
  <2>2. Policy' /\ Attributes' = Attributes /\ Gates(plan)' = Gates(plan)
    BY <2>1, PlanKept
  <2>3. ApprovalsHeard(m, heard')
    BY <2>1 DEF ApprovalsHeard
  <2>4. /\ m' \in Attributes /\ m'.state = m.state /\ m'.idx = m.idx
        /\ ApprovalsHeard(m', heard') /\ GatesApproved(m')
    <3>1. CASE Verified(msg)
      BY <1>4, <2>3, <3>1, SubmitKeeps DEF OnHumanDecision, Verified
    <3>2. CASE ~Verified(msg)
      BY <1>4, <2>3, <3>2 DEF OnHumanDecision
    <3> QED
      BY <3>1, <3>2
  <2>5. Placed(m)' /\ Steered(m, cmd)' /\ GatesApproved(m)' /\ ApprovalsHeard(m, heard)'
    BY <2>1, <2>2, <2>4 DEF Placed, Steered, GatesApproved, ApprovalsHeard, Steps, Terminal
  <2>6. written' = Terminal(m)'
    BY <2>1, <2>4 DEF Terminal
  <2> QED
    BY <2>1, <2>2, <2>4, <2>5, <2>6
<1>5. CASE UNCHANGED vars
  BY <1>0, <1>5 DEF vars, samples, Inv
<1> QED
  BY <1>1, <1>2, <1>3, <1>4, <1>5 DEF Next

(* ... so it always holds.                                                   *)
LEMMA SpecInv == Spec => []Inv
  BY InitInv, NextInv, PTL DEF Spec

(* Whatever the plan and the decisions on the topic, a mission that got past *)
(* a gate heard a genuine approval of it in time.                            *)
THEOREM GatesOpenByApproval == Spec => []GatePassedByApproval
<1>1. Inv => GatePassedByApproval
  <2> SUFFICES ASSUME Inv, NEW i \in Steps(plan, {"ask_human"}), m.idx > i, ~Terminal(m)
               PROVE  \E msg \in heard : msg.id = plan[i].to /\ msg.approved
    BY DEF GatePassedByApproval
  <2>1. plan[i].to \in Gates(plan)
    BY DEF Gates, Steps
  <2> QED
    BY <2>1 DEF Inv, GatesApproved, ApprovalsHeard
<1> QED
  BY <1>1, SpecInv, PTL

(* Whatever the plan, the robot moves only when every gate before the step   *)
(* was approved and resumed: what the planner's policy says of the sequence  *)
(* holds of the run.                                                         *)
THEOREM MotionFollowsResume == Spec => []MotionAfterResume
<1>1. Inv => MotionAfterResume
  <2> SUFFICES ASSUME Inv, cmd # "stop", NEW i \in Steps(plan, {"ask_human"}), i < m.idx
               PROVE  /\ m.decisions[plan[i].to] = "approved"
                      /\ \E k \in (i + 1)..(m.idx - 1) :
                            plan[k].kind = "resume" /\ plan[k].to = plan[i].to
    BY DEF MotionAfterResume
  <2>1. /\ m.state = "active" /\ m.idx \in Steps(plan, Motion) /\ ~Terminal(m)
        /\ i \in Nat /\ m.idx \in Nat /\ plan[i].kind = "ask_human"
    BY PlanIsSequence DEF Inv, Steered, Terminal, Steps, Attributes
  <2>2. ~PendingAt(plan, i, m.idx)
    BY <2>1 DEF Inv, Policy, PlanPolicy, ApprovalsResolve
  <2>3. PICK k \in Steps(plan, {"resume"}) : k \in i..(m.idx - 1) /\ plan[k].to = plan[i].to
    BY <2>1, <2>2 DEF PendingAt
  <2>4. k # i /\ plan[k].kind = "resume" /\ k \in (i + 1)..(m.idx - 1)
    BY <2>1, <2>3 DEF Steps
  <2> QED
    BY <2>1, <2>3, <2>4 DEF Inv, GatesApproved
<1> QED
  BY <1>1, SpecInv, PTL

(* The safety part of KeepsContract for every plan: a mission starts open    *)
(* and standing, and each step steers it, ends it once, or is none of its    *)
(* contract's business.                                                      *)
THEOREM ContractIsKept == Spec => Contract!Init /\ [][Contract!Next]_(Contract!vars)
<1>1. Init => Contract!Init
  BY DEF Init, Contract!Init, Terminal
<1>2. Inv /\ Inv' /\ [Next]_vars => [Contract!Next]_(Contract!vars)
  <2> SUFFICES ASSUME Inv, Inv', [Next]_vars PROVE [Contract!Next]_(Contract!vars)
    OBVIOUS
  <2>1. ASSUME m'.state = m.state, UNCHANGED <<cmd, written>> PROVE UNCHANGED Contract!vars
    BY <2>1 DEF Contract!vars, Terminal
  <2>2. CASE ControlTick
    <3>1. written = FALSE /\ ~Terminal(m)
      BY <2>2 DEF ControlTick, Live, Inv
    <3>2. CASE ~Terminal(m')
      <4>1. written' = FALSE
        <5>1. written' = Terminal(m')
          BY DEF Inv, Terminal
        <5>2. Terminal(m') = FALSE
          BY <3>2 DEF Terminal
        <5> QED
          BY <5>1, <5>2
      <4>2. Contract!Steer
        BY <3>1, <3>2, <4>1 DEF Contract!Steer, Terminal
      <4> QED
        BY <4>2 DEF Contract!Next
    <3>3. CASE Terminal(m')
      <4>1. written' = TRUE /\ m'.state \in {"completed", "failed"}
        BY <3>3 DEF Inv, Terminal, Attributes
      <4>2. cmd' = "stop"
        BY <3>3, <4>1 DEF Inv, Steered, Terminal
      <4>3. Contract!End(m'.state)
        BY <3>1, <3>3, <4>1, <4>2 DEF Contract!End, Terminal
      <4> QED
        BY <4>1, <4>3 DEF Contract!Next
    <3> QED
      BY <3>2, <3>3
  <2>3. ASSUME NEW msg \in Messages, OnHumanDecision(msg) PROVE UNCHANGED Contract!vars
    <3>1. UNCHANGED <<cmd, written>>
      BY <2>3 DEF OnHumanDecision, node
    <3>2. m'.state = m.state
      BY <2>3 DEF OnHumanDecision, Submit, Inv, Attributes
    <3> QED
      BY <2>1, <3>1, <3>2
  <2>4. CASE Pass \/ OnOdometry \/ OnScan \/ OnImage \/ UNCHANGED vars
    BY <2>1, <2>4 DEF Pass, OnOdometry, OnScan, OnImage, Sampled, node, vars
  <2> QED
    BY <2>2, <2>3, <2>4 DEF Next
<1> QED
  BY <1>1, <1>2, SpecInv, PTL DEF Spec

-----------------------------------------------------------------------------
(* What the robot measured before it moves.                                  *)

(* The nearest return of some beams is no farther than any that measured.    *)
LEMMA NearestIsNearest ==
  ASSUME NEW beams \in SUBSET (0..Bad), NEW limit \in 0..Far, ~(Nearest(beams) < limit)
  PROVE  \A beam \in beams : beam >= limit
<1> DEFINE S == Measured(beams) \cup {Far}
<1>1. S \subseteq {0, 1, 2, 3, 4} /\ 4 \in S
  <2>1. \A beam \in 0..5 : beam < 4 => beam \in {0, 1, 2, 3, 4}
    OBVIOUS
  <2>2. \A beam \in Measured(beams) : beam \in 0..5 /\ beam < 4
    BY DEF Measured, Far, Bad
  <2>3. Measured(beams) \subseteq {0, 1, 2, 3, 4}
    BY <2>1, <2>2
  <2> QED
    BY <2>3 DEF Far
<1>2. \A beam \in beams : beam < Far => beam \in S
  BY DEF Measured
<1> HIDE DEF S
<1>3. \E x \in S : \A y \in S : x <= y
  <2>1. CASE 0 \in S
    BY <1>1, <2>1
  <2>2. CASE 0 \notin S /\ 1 \in S
    BY <1>1, <2>2
  <2>3. CASE 0 \notin S /\ 1 \notin S /\ 2 \in S
    BY <1>1, <2>3
  <2>4. CASE 0 \notin S /\ 1 \notin S /\ 2 \notin S
    BY <1>1, <2>4
  <2> QED
    BY <2>1, <2>2, <2>3, <2>4
<1>4. Min(S) \in S /\ \A y \in S : Min(S) <= y
  BY <1>3 DEF Min
<1>5. Nearest(beams) = Min(S)
  BY DEF Nearest, S
<1>6. Min(S) \in {0, 1, 2, 3, 4} /\ ~(Min(S) < limit)
  BY <1>1, <1>4, <1>5
<1> SUFFICES ASSUME NEW beam \in beams PROVE beam >= limit
  OBVIOUS
<1>7. CASE beam < Far
  BY <1>2, <1>4, <1>6, <1>7 DEF Far, Bad
<1>8. CASE ~(beam < Far)
  BY <1>8 DEF Far, Bad
<1> QED
  BY <1>7, <1>8

(* A guard that lets a motion pass has looked at every beam it depends on.   *)
LEMMA GuardAllows ==
  ASSUME scan \in Sweeps, NEW intent, ~Guarded(intent)
  PROVE  BeamsAllow(scan, Consulted(intent))
<1> DEFINE all == UNION {scan[s] : s \in DOMAIN scan}
<1>1. Sector \subseteq DOMAIN scan /\ \A s \in DOMAIN scan : scan[s] \in SUBSET (0..Bad)
  BY MissionAssumption
<1>2. all \in SUBSET (0..Bad)
  BY <1>1
<1>3. EmergencyLimit \in 0..Far /\ LateralLimit \in 0..Far /\ StopLimit \in 0..Far
  BY MissionAssumption
<1>4. Consulted(intent) \subseteq Sector /\ {"left", "right"} \subseteq Sector
  BY DEF Consulted, Sector
<1>5. /\ \A s \in Consulted(intent) : ~(scan[s] # {} /\ scan[s] \subseteq {Bad})
      /\ ~(Nearest(all) < EmergencyLimit)
      /\ \A s \in Consulted(intent) : ~(Nearest(scan[s]) < StopLimit)
      /\ \A s \in {"left", "right"} : ~(Nearest(scan[s]) < LateralLimit)
  <2>1. /\ SectorField(scan).blind = {s \in Sector : scan[s] # {} /\ scan[s] \subseteq {Bad}}
        /\ SectorField(scan).closest = Nearest(all)
        /\ \A s \in Sector : SectorField(scan).near[s] = Nearest(scan[s])
    BY DEF SectorField
  <2>2. /\ SectorField(scan).blind \cap Consulted(intent) = {}
        /\ ~(SectorField(scan).closest < EmergencyLimit)
        /\ \A s \in Consulted(intent) : ~(SectorField(scan).near[s] < StopLimit)
        /\ \A s \in {"left", "right"} : ~(SectorField(scan).near[s] < LateralLimit)
    BY DEF Guarded, Blocked
  <2> QED
    BY <1>4, <2>1, <2>2
<1>6. \A s \in Consulted(intent) : \A beam \in scan[s] : beam >= StopLimit
  BY <1>1, <1>3, <1>4, <1>5, NearestIsNearest
<1>7. \A s \in {"left", "right"} : \A beam \in scan[s] : beam >= LateralLimit
  BY <1>1, <1>3, <1>4, <1>5, NearestIsNearest
<1>8. \A s \in DOMAIN scan : \A beam \in scan[s] : beam >= EmergencyLimit
  BY <1>2, <1>3, <1>5, NearestIsNearest
<1>9. \A s \in Consulted(intent) : scan[s] # {} => \E beam \in scan[s] : beam # Bad
  BY <1>5
<1> QED
  BY <1>6, <1>7, <1>8, <1>9 DEF BeamsAllow

\* The sectors a command of a step depends on.
Ahead(kind, command) ==
    IF command = "reverse" THEN {"rear"}
    ELSE IF kind = "turn_relative" THEN Sector ELSE {"forward"}

\* A command is a stop, or the step and the sweep allow it.
Allowed(r) ==
    r.cmd # "stop" => /\ BeamsAllow(scan, Ahead(plan[r.m.idx].kind, r.cmd))
                      /\ r.cmd = "reverse" => plan[r.m.idx].to = "reverse"

(* What allows a motion in more directions allows it in fewer.               *)
LEMMA FewerDirections ==
  ASSUME NEW sweep, NEW more, NEW fewer \in SUBSET more, BeamsAllow(sweep, more)
  PROVE  BeamsAllow(sweep, fewer)
  BY DEF BeamsAllow

(* A step that completes or fails does not move the robot, and one that      *)
(* moves it has looked where it goes.                                        *)
LEMMA DispatchLooks ==
  ASSUME Policy, scan \in Sweeps, NEW c \in Attributes, c.idx \in DOMAIN plan, NEW r \in Dispatch(c)
  PROVE  Allowed(r)
<1> DEFINE kind == plan[c.idx].kind
<1>1. ASSUME NEW d, r \in Complete(d) \/ r \in StepFailure(d) PROVE r.cmd = "stop"
  BY <1>1 DEF Complete, StepFailure, Out
<1>2. CASE kind \in {"navigate", "navigate_to_location"}
  <2>1. /\ r \in {Out(c, "stop"), Out(c, "rotate"), Out(c, "forward")} \/ r \in Complete(c)
        /\ Guarded("forward") => r = Out(c, "stop")
    BY <1>2 DEF Dispatch, Navigate
  <2>2. r.cmd # "stop" => r.m = c /\ r.cmd \in {"rotate", "forward"} /\ ~Guarded("forward")
    BY <1>1, <2>1 DEF Out
  <2>3. r.cmd # "stop" => BeamsAllow(scan, {"forward"})
    BY <2>2, GuardAllows DEF Consulted
  <2> QED
    BY <1>2, <2>2, <2>3 DEF Allowed, Ahead
<1>3. ASSUME NEW intent, r \in Relative(c, intent), r.cmd # "stop"
      PROVE  r.cmd = intent /\ r.m.idx = c.idx /\ BeamsAllow(scan, Consulted(intent))
  <2> DEFINE here == [c EXCEPT !.origin = IF @ = None THEN pose ELSE @]
  <2>1. here.idx = c.idx
    BY DEF Attributes
  <2>2. /\ r \in {Out(c, "stop"), Out(here, intent)} \/ r \in Complete(here)
        /\ Guarded(intent) => r = Out(c, "stop")
    BY <1>3 DEF Relative
  <2> HIDE DEF here
  <2>3. r = Out(here, intent) /\ ~Guarded(intent)
    BY <1>1, <1>3, <2>2 DEF Out
  <2> QED
    BY <2>1, <2>3, GuardAllows DEF Out
<1>4. CASE kind = "move_relative"
  <2>1. r \in Relative(c, plan[c.idx].to)
    BY <1>4 DEF Dispatch
  <2>2. ASSUME r.cmd # "stop"
        PROVE  /\ BeamsAllow(scan, Ahead(plan[r.m.idx].kind, r.cmd))
               /\ r.cmd = "reverse" => plan[r.m.idx].to = "reverse"
    <3>1. r.cmd = plan[c.idx].to /\ r.m.idx = c.idx /\ BeamsAllow(scan, Consulted(plan[c.idx].to))
      BY <1>3, <2>1, <2>2
    <3>2. Ahead(kind, r.cmd) \subseteq Consulted(r.cmd)
      BY <1>4 DEF Ahead, Consulted, Sector
    <3> QED
      BY <3>1, <3>2, FewerDirections
  <2> QED
    BY <2>2 DEF Allowed
<1>5. CASE kind = "turn_relative"
  <2>1. r \in Relative(c, "rotate")
    BY <1>5 DEF Dispatch
  <2>2. r.cmd # "stop" => r.cmd = "rotate" /\ r.m.idx = c.idx /\ BeamsAllow(scan, Sector)
    BY <1>3, <2>1 DEF Consulted
  <2> QED
    BY <1>5, <2>2 DEF Allowed, Ahead
<1>6. CASE kind = "follow_line"
  <2> DEFINE seen == [c EXCEPT !.lineAt = IF @ = None THEN now ELSE @, !.lineSeen = now]
  <2>1. seen.idx = c.idx
    BY DEF Attributes
  <2>2. r \in FollowLine(c)
    BY <1>6 DEF Dispatch
  <2>3. /\ \/ r \in {Out(c, "stop"), Out(seen, "forward"), Out(c, "forward")}
           \/ r \in Complete(c) \/ r \in StepFailure(c)
        /\ Guarded("forward") => r = Out(c, "stop")
    BY <2>2 DEF FollowLine
  <2> HIDE DEF seen
  <2>4. r.cmd # "stop" => r.m.idx = c.idx /\ r.cmd = "forward" /\ ~Guarded("forward")
    BY <1>1, <2>1, <2>3 DEF Out
  <2>5. r.cmd # "stop" => BeamsAllow(scan, {"forward"})
    BY <2>4, GuardAllows DEF Consulted
  <2> QED
    BY <1>6, <2>4, <2>5 DEF Allowed, Ahead
<1>7. CASE kind = "wait_until_clear"
  <2>1. r \in WaitUntilClear(c)
    BY <1>7 DEF Dispatch
  <2> QED
    BY <1>1, <2>1 DEF WaitUntilClear, Out, Allowed
<1>8. CASE kind = "ask_human"
  <2>1. r \in AskHuman(c)
    BY <1>8 DEF Dispatch
  <2>2. r = Out(c, "stop") \/ r \in StepFailure(c) \/ r \in Complete(c)
    BY <2>1 DEF AskHuman
  <2> QED
    BY <1>1, <2>2 DEF Out, Allowed
<1>9. CASE kind \in {"resume", "save_current_location", "dwell", "safe_stop"}
  <2>1. r = Out(c, "stop") \/ r \in StepFailure(c) \/ r \in Complete(c)
    BY <1>9 DEF Dispatch, Resume, SaveLocation, Hold
  <2> QED
    BY <1>1, <2>1 DEF Out, Allowed
<1>10. kind \in Kind
  BY MissionAssumption DEF Policy
<1> QED
  BY <1>2, <1>4, <1>5, <1>6, <1>7, <1>8, <1>9, <1>10 DEF Kind, Motion

(* So has a control step.                                                    *)
LEMMA TickLooks ==
  ASSUME Inv, ~Terminal(m), scan \in Sweeps, NEW r \in Tick(m) PROVE Allowed(r)
<1> DEFINE d == IF m.state = "accepted" THEN StartNext(m) ELSE m
<1>1. \/ r.cmd = "stop"
      \/ r \in Dispatch(d) /\ d \in Attributes /\ d.idx \in DOMAIN plan
  <2>1. /\ d \in Attributes
        /\ d.idx \in DOMAIN plan
    BY StartStays DEF Inv
  <2>2. \/ r = Out(Fail(m, "mission_timeout"), "stop") \/ r \in StepFailure(d) \/ r \in Dispatch(d)
    BY DEF Tick
  <2> HIDE DEF d
  <2> QED
    BY <2>1, <2>2 DEF StepFailure, Out
<1> HIDE DEF d
<1> QED
  BY <1>1, DispatchLooks DEF Allowed, Inv

\* A sensor that has not been heard of is not fresh.
SenseInv == /\ age \in [Sensor -> 0..Never]
            /\ age["scan"] <= Fresh => scan \in Sweeps

(* Samples are ages old, and the scan is a sweep unless none came.           *)
LEMMA SenseStep == SenseInv /\ [Next]_vars => SenseInv'
<1> SUFFICES ASSUME SenseInv, [Next]_vars PROVE SenseInv'
  OBVIOUS
<1>0. Fresh \in Nat /\ Never = Fresh + 2 /\ "scan" \in Sensor
  BY MissionAssumption DEF Never, Sensor
<1>1. CASE Pass
  <2>1. /\ age' = [s \in Sensor |-> IF age[s] <= Fresh THEN age[s] + 1 ELSE age[s]] /\ scan' = scan
    BY <1>1 DEF Pass, samples
  <2>2. \A s \in Sensor : age[s] \in 0..Never /\ age'[s] = IF age[s] <= Fresh THEN age[s] + 1 ELSE age[s]
    BY <2>1 DEF SenseInv
  <2>3. \A s \in Sensor : age'[s] \in 0..Never /\ (age'[s] <= Fresh => age[s] <= Fresh)
    BY <1>0, <2>2
  <2> QED
    BY <1>0, <2>1, <2>3 DEF SenseInv
<1>2. ASSUME NEW s \in Sensor, Sampled(s), s = "scan" => scan' \in Sweeps, s # "scan" => scan' = scan
      PROVE  SenseInv'
  <2>1. age' = [age EXCEPT ![s] = 0] /\ 0 \in 0..Never
    BY <1>0, <1>2 DEF Sampled
  <2> QED
    BY <1>0, <1>2, <2>1 DEF SenseInv
<1>3. CASE OnOdometry \/ OnScan \/ OnImage
  <2>1. {"odometry", "scan", "camera"} \subseteq Sensor
    BY DEF Sensor
  <2> QED
    BY <1>2, <1>3, <2>1 DEF OnOdometry, OnScan, OnImage
<1>4. CASE ControlTick \/ (\E msg \in Messages : OnHumanDecision(msg)) \/ UNCHANGED vars
  BY <1>4 DEF ControlTick, OnHumanDecision, vars, samples, SenseInv
<1> QED
  BY <1>1, <1>3, <1>4 DEF Next

(* Whatever the sweeps and the limits, a command that moves the robot was    *)
(* computed from fresh samples and from a sweep that shows its direction     *)
(* measured and clear.                                                       *)
THEOREM MotionIsMeasured == Spec => MovesOnlyMeasuredClear
<1>1. Init => SenseInv
  BY MissionAssumption DEF Init, SenseInv, Never, Sensor
<1>2. ASSUME Inv, SenseInv, [Next]_vars, due, ~due', cmd' # "stop"
      PROVE  /\ AllFresh
             /\ BeamsAllow(scan, IF cmd' = "reverse" THEN {"rear"}
                                 ELSE IF plan[m'.idx].kind = "turn_relative" THEN Sector
                                 ELSE {"forward"})
             /\ cmd' = "reverse" => plan[m'.idx].to = "reverse"
  <2>1. ControlTick
    BY <1>2 DEF Next, Pass, OnOdometry, OnScan, OnImage, Sampled, OnHumanDecision, vars
  <2>2. ~Terminal(m)
    BY <1>2, <2>1 DEF ControlTick, Live, Inv
  <2>3. AllFresh /\ \E r \in Tick(m) : Finish(r)
    BY <1>2, <2>1 DEF ControlTick, SensorGate, Finish, Out
  <2>4. scan \in Sweeps
    BY <1>2, <2>3 DEF AllFresh, Required, Sensor, SenseInv
  <2>5. PICK r \in Tick(m) : Finish(r)
    BY <2>3
  <2>6. m' = r.m /\ cmd' = r.cmd
    BY <1>2, <2>5 DEF Finish
  <2> QED
    BY <1>2, <2>2, <2>3, <2>4, <2>6, TickLooks DEF Allowed, Ahead
<1>3. Inv /\ SenseInv /\ [Next]_vars =>
        [(due /\ ~due' /\ cmd' # "stop") =>
           /\ AllFresh
           /\ BeamsAllow(scan, IF cmd' = "reverse" THEN {"rear"}
                               ELSE IF plan[m'.idx].kind = "turn_relative" THEN Sector
                               ELSE {"forward"})
           /\ cmd' = "reverse" => plan[m'.idx].to = "reverse"]_vars
  BY <1>2
<1> QED
  BY <1>1, <1>3, SenseStep, SpecInv, PTL DEF Spec, MovesOnlyMeasuredClear
===============================================================================
