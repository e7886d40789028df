------------------------ MODULE OperatorRefresh_proofs ------------------------
(***************************************************************************)
(* Theorems about OperatorRefresh, for any adapters, jobs and operators.     *)
(***************************************************************************)
EXTENDS OperatorRefresh, TLAPS

(* The types of every state are inductive as they stand: initially, ...      *)
LEMMA TypeInit == Init => TypeOK
<1> SUFFICES ASSUME Init PROVE TypeOK
  OBVIOUS
<1>1. link \in [Adapter -> BOOLEAN] /\ lock \in [Adapter -> Operator \cup {NoOp}]
  BY DEF Init
<1>2. goal \in [Job -> {"none", "driving", "ended"}] /\ lost \in [Job -> {"no", "down", "up"}]
  BY DEF Init
<1>3. pc \in [Job -> {"idle", "reopen", "gate", "preflight", "send", "wait", "end", "done"}]
  BY DEF Init
<1>4. out \in [Job -> {"none", "refused", "ended", "timeout"}]
  BY DEF Init
<1>5. opc \in [Operator -> {"idle", "stop", "tear", "wait", "resume", "idle2"}]
  BY DEF Init
<1>6. /\ todo \in [Operator -> SUBSET Adapter] /\ confirmed \in [Operator -> BOOLEAN]
      /\ early \in [Operator -> SUBSET Job] /\ torn \in [Operator -> SUBSET Job]
  BY DEF Init
<1> QED
  BY <1>1, <1>2, <1>3, <1>4, <1>5, <1>6 DEF Init, TypeOK

(* A new session is recorded for every job of the adapter ...                *)
LEMMA SessionType ==
  ASSUME TypeOK, NEW a \in Adapter, NewSession(a)
  PROVE  link' \in [Adapter -> BOOLEAN] /\ active' \subseteq Job /\ lost' \in [Job -> {"no", "down", "up"}]
<1>1. link' \in [Adapter -> BOOLEAN] /\ active' \subseteq Job
  BY DEF TypeOK, NewSession
<1>2. \A j \in Job : lost[j] \in {"no", "down", "up"}
  BY DEF TypeOK
<1>3. lost' \in [Job -> {"no", "down", "up"}]
  BY <1>2 DEF NewSession
<1> QED
  BY <1>1, <1>3

(* ... and is never unrecorded; goals whose session stays are not touched.   *)
LEMMA SessionKeeps ==
  ASSUME TypeOK, NEW a \in Adapter, NewSession(a), NEW j \in Job
  PROVE  /\ lost[j] # "no" => lost'[j] # "no"
         /\ j \in active /\ j \notin active' /\ goal[j] = "driving" => lost'[j] # "no"
BY DEF TypeOK, NewSession, On, Moving

(* ... and after every step of a job, an operator or the link.               *)
LEMMA TypeStep == TypeOK /\ [Next]_vars => TypeOK'
<1> SUFFICES ASSUME TypeOK, [Next]_vars PROVE TypeOK'
  OBVIOUS
<1> USE AdapterAssumption
<1>1. ASSUME NEW j \in Job, Call(j) PROVE TypeOK'
  BY <1>1 DEF TypeOK, Call, Step, gate, ops, hist
<1>2. ASSUME NEW j \in Job, Reopen(j) PROVE TypeOK'
  <2>1. JobAdapter[j] \in Adapter
    OBVIOUS
  <2>2. link' \in [Adapter -> BOOLEAN] /\ active' \subseteq Job /\ lost' \in [Job -> {"no", "down", "up"}]
    BY <1>2, <2>1, SessionType DEF Reopen
  <2> QED
    BY <1>2, <2>2 DEF TypeOK, Reopen, Step, gate, ops
<1>3. ASSUME NEW j \in Job, ReopenFails(j) PROVE TypeOK'
  BY <1>3 DEF TypeOK, ReopenFails, Step, gate, ops, hist
<1>4. ASSUME NEW j \in Job, Begin(j) PROVE TypeOK'
  BY <1>4 DEF TypeOK, Begin, Step, gate, ops, hist
<1>5. ASSUME NEW j \in Job, Preflight(j) PROVE TypeOK'
  BY <1>5 DEF TypeOK, Preflight, Refuse, Step, gate, ops, hist
<1>6. ASSUME NEW j \in Job, Send(j) PROVE TypeOK'
  BY <1>6 DEF TypeOK, Send, Step, gate, ops, hist
<1>7. ASSUME NEW j \in Job, Wait(j) PROVE TypeOK'
  <2>1. active' \subseteq Job
    BY <1>7 DEF Wait, TypeOK
  <2>2. pc' \in [Job -> {"idle", "reopen", "gate", "preflight", "send", "wait", "end", "done"}]
    BY <1>7 DEF Wait, Step, TypeOK
  <2>3. out' \in [Job -> {"none", "refused", "ended", "timeout"}]
    BY <1>7 DEF Wait, TypeOK
  <2> QED
    BY <1>7, <2>1, <2>2, <2>3 DEF TypeOK, Wait, gate, ops, hist
<1>8. ASSUME NEW j \in Job, End(j) \/ GoalEnds(j) PROVE TypeOK'
  BY <1>8 DEF TypeOK, End, GoalEnds, Step, gate, jobs, ops, hist
<1>9. ASSUME NEW o \in Operator, Pause(o) PROVE TypeOK'
  <2>1. opc' \in [Operator -> {"idle", "stop", "tear", "wait", "resume", "idle2"}]
    BY <1>9 DEF Pause, OStep, TypeOK
  <2>2. lock' \in [Adapter -> Operator \cup {NoOp}]
    BY <1>9 DEF Pause, TypeOK
  <2>3. todo' \in [Operator -> SUBSET Adapter]
    BY <1>9 DEF Pause, TypeOK
  <2>4. early' \in [Operator -> SUBSET Job]
    BY <1>9 DEF Pause, TypeOK
  <2> QED
    BY <1>9, <2>1, <2>2, <2>3, <2>4 DEF TypeOK, Pause, jobs
<1>10. ASSUME NEW o \in Operator, Stop(o) PROVE TypeOK'
  <2>1. /\ todo' \in [Operator -> SUBSET Adapter] /\ confirmed' \in [Operator -> BOOLEAN]
        /\ goal' \in [Job -> {"none", "driving", "ended"}]
    BY <1>10 DEF Stop, TypeOK
  <2> QED
    BY <1>10, <2>1 DEF TypeOK, Stop, gate, jobs, hist
<1>11. ASSUME NEW o \in Operator, Decide(o) PROVE TypeOK'
  <2>1. opc' \in [Operator -> {"idle", "stop", "tear", "wait", "resume", "idle2"}]
    BY <1>11 DEF Decide, OStep, TypeOK
  <2> QED
    BY <1>11, <2>1 DEF TypeOK, Decide, gate, jobs, hist
<1>12. ASSUME NEW o \in Operator, Tear(o) PROVE TypeOK'
  <2>1. opc' \in [Operator -> {"idle", "stop", "tear", "wait", "resume", "idle2"}]
    BY <1>12 DEF Tear, OStep, TypeOK
  <2>2. torn' \in [Operator -> SUBSET Job]
    BY <1>12 DEF Tear, Moving, TypeOK
  <2> QED
    BY <1>12, <2>1, <2>2 DEF TypeOK, Tear, gate, jobs
<1>13. ASSUME NEW o \in Operator, Rebuild(o) PROVE TypeOK'
  <2>1. opc' \in [Operator -> {"idle", "stop", "tear", "wait", "resume", "idle2"}]
    BY <1>13 DEF Rebuild, OStep, TypeOK
  <2>2. OpAdapter[o] \in Adapter
    OBVIOUS
  <2>3. link' \in [Adapter -> BOOLEAN] /\ active' \subseteq Job /\ lost' \in [Job -> {"no", "down", "up"}]
    <3>1. CASE NewSession(OpAdapter[o])
      BY <3>1, <2>2, SessionType
    <3>2. CASE link' = [link EXCEPT ![OpAdapter[o]] = FALSE] /\ UNCHANGED <<active, lost>>
      BY <3>2 DEF TypeOK
    <3> QED
      BY <1>13, <3>1, <3>2 DEF Rebuild
  <2> QED
    BY <1>13, <2>1, <2>3 DEF TypeOK, Rebuild, gate, jobs
<1>14. ASSUME NEW o \in Operator, Resume(o) PROVE TypeOK'
  <2>1. opc' \in [Operator -> {"idle", "stop", "tear", "wait", "resume", "idle2"}]
    BY <1>14 DEF Resume, OStep, TypeOK
  <2>2. lock' \in [Adapter -> Operator \cup {NoOp}]
    BY <1>14 DEF Resume, TypeOK
  <2> QED
    BY <1>14, <2>1, <2>2 DEF TypeOK, Resume, gate, jobs, hist
<1>15. CASE ForwardDrops \/ ForwardReturns
  BY <1>15 DEF TypeOK, ForwardDrops, ForwardReturns, gate, jobs, ops, hist
<1>16. ASSUME NEW a \in Adapter, LinkDrops(a) PROVE TypeOK'
  BY <1>16 DEF TypeOK, LinkDrops, gate, jobs, ops, hist
<1>17. CASE UNCHANGED vars
  BY <1>17 DEF TypeOK, vars
<1> QED
  BY <1>1, <1>2, <1>3, <1>4, <1>5, <1>6, <1>7, <1>8, <1>9, <1>10, <1>11, <1>12, <1>13, <1>14,
     <1>15, <1>16, <1>17
  DEF Next, JobStep, OpStep

(* Every reachable state is in its type, however many calls and refreshes    *)
(* overlap.                                                                  *)
THEOREM Typing == Spec => []TypeOK
  BY TypeInit, TypeStep, PTL DEF Spec

-----------------------------------------------------------------------------
(* A goal that operator o found driving is over, or went with its session,   *)
(* or is still to be stopped by o, or was not stopped and o knows it.        *)
Answered(o, j) ==
    \/ goal[j] = "ended" \/ lost[j] # "no"
    \/ j \in active /\ opc[o] = "stop" /\ (JobAdapter[j] \in todo[o] \/ ~confirmed[o])
    \/ opc[o] \in {"resume", "idle2"} /\ j \notin torn[o]

Sent(j) == pc[j] \in {"wait", "end", "done"}

(* What the pause found was sent, and what was sent is never sent again, so  *)
(* it can only end; and an operator that goes on to tear the forward down    *)
(* has stopped every adapter that it had to.                                 *)
MotionInv ==
    /\ \A j \in active : goal[j] # "none"
    /\ \A j \in Job : goal[j] = "driving" \/ goal[j] = "ended" => Sent(j)
    /\ \A o \in Operator :
        /\ opc[o] = "idle" => early[o] = {} /\ torn[o] = {}
        /\ opc[o] \in {"stop", "tear"} => torn[o] = {}
        /\ opc[o] \in {"tear", "wait"} => confirmed[o]
        /\ \A j \in early[o] : Sent(j) /\ goal[j] # "none" /\ Answered(o, j)
        /\ \A j \in torn[o] \cap early[o] : lost[j] # "no"

(* Steps that neither stop, pause nor tear keep what is known of each goal.  *)
LEMMA MotionFrame ==
  ASSUME TypeOK, MotionInv, UNCHANGED <<opc, todo, confirmed, early, torn>>,
         \A j \in Job : lost[j] # "no" => lost'[j] # "no",
         \A j \in Job : Sent(j) => Sent(j)' /\ (goal'[j] = goal[j] \/ goal'[j] = "ended"),
         \A j \in Job : goal'[j] \in {"driving", "ended"} => Sent(j)',
         \A j \in active' : goal'[j] # "none",
         \A j \in active \ active' : goal[j] = "driving" => lost'[j] # "no"
  PROVE  MotionInv'
<1> USE DEF TypeOK
<1>1. ASSUME NEW o \in Operator, NEW j \in early[o]
      PROVE  Sent(j)' /\ goal'[j] # "none" /\ Answered(o, j)'
  <2>1. j \in Job
    OBVIOUS
  <2>2. Sent(j)' /\ goal'[j] # "none"
    BY <2>1 DEF MotionInv
  <2>3. Answered(o, j)
    BY DEF MotionInv
  <2>4. Answered(o, j)'
    BY <2>1, <2>3 DEF Answered, MotionInv
  <2> QED
    BY <2>2, <2>4
<1>2. ASSUME NEW o \in Operator, NEW j \in torn[o] \cap early[o] PROVE lost'[j] # "no"
  BY <1>2 DEF MotionInv
<1>3. \A j \in Job : goal'[j] = "driving" \/ goal'[j] = "ended" => Sent(j)'
  OBVIOUS
<1> QED
  BY <1>1, <1>2, <1>3 DEF MotionInv

(* Every step keeps the account of the goals a refresh found driving.        *)
LEMMA MotionStep == TypeOK /\ MotionInv /\ [Next]_vars => MotionInv'
<1> SUFFICES ASSUME TypeOK, MotionInv, [Next]_vars PROVE MotionInv'
  OBVIOUS
<1> USE AdapterAssumption
<1>1. ASSUME NEW j \in Job, Call(j) PROVE MotionInv'
  BY <1>1, MotionFrame DEF TypeOK, MotionInv, Sent, Call, Step, gate, ops, hist
<1>2. ASSUME NEW j \in Job, Reopen(j) PROVE MotionInv'
  <2>1. JobAdapter[j] \in Adapter
    OBVIOUS
  <2>2. \A k \in Job : /\ lost[k] # "no" => lost'[k] # "no"
                       /\ k \in active /\ k \notin active' /\ goal[k] = "driving" => lost'[k] # "no"
    BY <1>2, <2>1, SessionKeeps DEF Reopen
  <2>3. \A k \in Job : Sent(k) => Sent(k)'
    BY <1>2 DEF Reopen, Sent, Step, TypeOK
  <2>4. \A k \in active' : goal'[k] # "none"
    BY <1>2 DEF Reopen, NewSession, MotionInv
  <2> QED
    BY <1>2, <2>2, <2>3, <2>4, MotionFrame DEF Reopen, MotionInv, ops, TypeOK
<1>3. ASSUME NEW j \in Job, ReopenFails(j) PROVE MotionInv'
  BY <1>3, MotionFrame DEF TypeOK, MotionInv, Sent, ReopenFails, Step, gate, ops, hist
<1>4. ASSUME NEW j \in Job, Begin(j) PROVE MotionInv'
  BY <1>4, MotionFrame DEF TypeOK, MotionInv, Sent, Begin, Step, gate, ops, hist
<1>5. ASSUME NEW j \in Job, Preflight(j) PROVE MotionInv'
  BY <1>5, MotionFrame DEF TypeOK, MotionInv, Sent, Preflight, Refuse, Step, gate, ops, hist
<1>6. ASSUME NEW j \in Job, Send(j) PROVE MotionInv'
  <2>1. \A k \in Job : Sent(k) => Sent(k)' /\ goal'[k] = goal[k]
    BY <1>6 DEF Send, Sent, Step, TypeOK
  <2>2. \A k \in Job : goal'[k] \in {"driving", "ended"} => Sent(k)'
    BY <1>6 DEF Send, Sent, Step, TypeOK, MotionInv
  <2>3. \A k \in active' : goal'[k] # "none"
    BY <1>6 DEF Send, MotionInv, TypeOK
  <2> QED
    BY <1>6, <2>1, <2>2, <2>3, MotionFrame DEF Send, gate, ops, hist
<1>7. ASSUME NEW j \in Job, Wait(j) PROVE MotionInv'
  <2>1. \A k \in Job : Sent(k) => Sent(k)'
    BY <1>7 DEF Wait, Sent, Step, TypeOK
  <2>2. \A k \in active \ active' : goal[k] = "driving" => lost'[k] # "no"
    BY <1>7 DEF Wait
  <2> QED
    BY <1>7, <2>1, <2>2, MotionFrame DEF Wait, MotionInv, gate, ops, hist
<1>8. ASSUME NEW j \in Job, End(j) PROVE MotionInv'
  BY <1>8, MotionFrame DEF TypeOK, MotionInv, Sent, End, Step, gate, ops, hist
<1>9. ASSUME NEW j \in Job, GoalEnds(j) PROVE MotionInv'
  BY <1>9, MotionFrame DEF TypeOK, MotionInv, Sent, GoalEnds, gate, jobs, ops, hist
<1>10. ASSUME NEW o \in Operator, Pause(o) PROVE MotionInv'
  <2>1. opc[o] = "idle" /\ opc'[o] = "stop" /\ todo'[o] = {JobAdapter[j] : j \in admitted}
    BY <1>10 DEF Pause, OStep, TypeOK
  <2>2. early'[o] = Moving \cap admitted \cap active /\ torn'[o] = {}
    BY <1>10, <2>1 DEF Pause, TypeOK, MotionInv
  <2>3. \A p \in Operator \ {o} :
          opc'[p] = opc[p] /\ todo'[p] = todo[p] /\ early'[p] = early[p]
    BY <1>10 DEF Pause, OStep, TypeOK
  <2>4. UNCHANGED <<active, goal, pc, confirmed, torn, lost>>
    BY <1>10 DEF Pause, jobs
  <2>5. ASSUME NEW j \in early'[o] PROVE Sent(j)' /\ goal'[j] # "none" /\ Answered(o, j)'
    BY <2>1, <2>2, <2>4 DEF Moving, MotionInv, Sent, Answered
  <2>6. ASSUME NEW p \in Operator \ {o}, NEW j \in early'[p]
        PROVE  Sent(j)' /\ goal'[j] # "none" /\ Answered(p, j)'
    BY <2>3, <2>4, <2>6 DEF MotionInv, Sent, Answered
  <2> QED
    BY <2>1, <2>2, <2>3, <2>4, <2>5, <2>6 DEF MotionInv, Sent
<1>11. ASSUME NEW o \in Operator, Stop(o) PROVE MotionInv'
  <2>1. PICK a \in todo[o], ok \in BOOLEAN :
          /\ todo' = [todo EXCEPT ![o] = @ \ {a}]
          /\ confirmed' = [confirmed EXCEPT ![o] = @ /\ ok]
          /\ goal' = IF ok THEN [j \in Job |-> IF j \in active \cap On(a) THEN "ended" ELSE goal[j]]
                     ELSE goal
    BY <1>11 DEF Stop
  <2>2. opc[o] = "stop" /\ UNCHANGED <<active, pc, opc, early, torn, lost>>
    BY <1>11 DEF Stop, jobs, hist
  <2>3. \A k \in Job : /\ goal'[k] = goal[k] \/ (goal'[k] = "ended" /\ k \in active)
                       /\ ok /\ k \in active /\ JobAdapter[k] = a => goal'[k] = "ended"
    BY <2>1 DEF On
  <2>4. \A p \in Operator \ {o} : todo'[p] = todo[p] /\ confirmed'[p] = confirmed[p]
    BY <2>1 DEF TypeOK
  <2>5. todo'[o] = todo[o] \ {a} /\ (confirmed'[o] <=> confirmed[o] /\ ok)
    BY <2>1 DEF TypeOK
  <2>6. \A k \in Job : k \in active => goal[k] # "none"
    BY DEF MotionInv
  <2>7. ASSUME NEW p \in Operator, NEW j \in early'[p]
        PROVE  Sent(j)' /\ goal'[j] # "none" /\ Answered(p, j)'
    <3>1. j \in Job /\ Sent(j) /\ goal[j] # "none" /\ Answered(p, j)
      BY <2>2, <2>7 DEF MotionInv, TypeOK
    <3>2. Sent(j)' /\ goal'[j] # "none"
      BY <3>1, <2>2, <2>3 DEF Sent
    <3>3. CASE goal[j] = "ended" \/ lost[j] # "no"
      BY <3>1, <3>2, <3>3, <2>2, <2>3 DEF Answered
    <3>4. CASE opc[p] \in {"resume", "idle2"} /\ j \notin torn[p]
      BY <3>2, <3>4, <2>2 DEF Answered
    <3>5. CASE j \in active /\ opc[p] = "stop" /\ (JobAdapter[j] \in todo[p] \/ ~confirmed[p])
      <4>1. CASE p = o
        <5>1. ~confirmed[o] => ~confirmed'[o]
          BY <2>5
        <5>2. JobAdapter[j] \in todo[o] =>
                JobAdapter[j] \in todo'[o] \/ ~confirmed'[o] \/ goal'[j] = "ended"
          BY <2>3, <2>5, <3>1, <3>5
        <5> QED
          BY <3>2, <3>5, <4>1, <5>1, <5>2, <2>2 DEF Answered
      <4>2. CASE p # o
        BY <3>2, <3>5, <4>2, <2>2, <2>4 DEF Answered
      <4> QED
        BY <4>1, <4>2
    <3> QED
      BY <3>1, <3>2, <3>3, <3>4, <3>5 DEF Answered
  <2>8. \A k \in Job : goal'[k] = "driving" \/ goal'[k] = "ended" => Sent(k)'
    BY <2>2, <2>3, <2>6 DEF MotionInv, Sent, TypeOK
  <2>9. \A p \in Operator : opc'[p] \in {"tear", "wait"} => confirmed'[p]
    BY <2>2, <2>4 DEF MotionInv
  <2>10. \A k \in active' : goal'[k] # "none"
    BY <2>2, <2>3, <2>6 DEF TypeOK
  <2>11. \A p \in Operator : /\ opc'[p] = "idle" => early'[p] = {} /\ torn'[p] = {}
                             /\ opc'[p] \in {"stop", "tear"} => torn'[p] = {}
                             /\ \A j \in torn'[p] \cap early'[p] : lost'[j] # "no"
    BY <2>2 DEF MotionInv
  <2> QED
    BY <2>7, <2>8, <2>9, <2>10, <2>11 DEF MotionInv
<1>12. ASSUME NEW o \in Operator, Decide(o) PROVE MotionInv'
  <2>1. /\ opc[o] = "stop" /\ todo[o] = {}
        /\ opc'[o] = IF confirmed[o] THEN "tear" ELSE "resume"
    BY <1>12 DEF Decide, OStep, TypeOK
  <2>2. \A p \in Operator \ {o} : opc'[p] = opc[p]
    BY <1>12 DEF Decide, OStep, TypeOK
  <2>3. UNCHANGED <<active, goal, pc, todo, confirmed, early, torn, lost>>
    BY <1>12 DEF Decide, jobs, hist
  <2>4. ASSUME NEW p \in Operator, NEW j \in early'[p] PROVE Answered(p, j)'
    BY <2>1, <2>2, <2>3, <2>4 DEF MotionInv, Answered
  <2> QED
    BY <2>1, <2>2, <2>3, <2>4 DEF MotionInv, Sent
<1>13. ASSUME NEW o \in Operator, Tear(o) PROVE MotionInv'
  <2>1. opc[o] = "tear" /\ opc'[o] = "wait" /\ torn'[o] = Moving
    BY <1>13 DEF Tear, OStep, TypeOK
  <2>2. \A p \in Operator \ {o} : opc'[p] = opc[p] /\ torn'[p] = torn[p]
    BY <1>13 DEF Tear, OStep, TypeOK
  <2>3. UNCHANGED <<active, goal, pc, todo, confirmed, early, lost>>
    BY <1>13 DEF Tear, jobs
  <2>4. ASSUME NEW p \in Operator, NEW j \in early'[p] PROVE Answered(p, j)'
    BY <2>1, <2>2, <2>3, <2>4 DEF MotionInv, Answered
  <2>5. ASSUME NEW j \in torn'[o] \cap early'[o] PROVE lost'[j] # "no"
    BY <2>1, <2>3, <2>5 DEF MotionInv, Answered, Moving
  <2> QED
    BY <2>1, <2>2, <2>3, <2>4, <2>5 DEF MotionInv, Sent
<1>14. ASSUME NEW o \in Operator, Rebuild(o) PROVE MotionInv'
  <2>1. opc[o] = "wait" /\ opc'[o] = "resume"
    BY <1>14 DEF Rebuild, OStep, TypeOK
  <2>2. \A p \in Operator \ {o} : opc'[p] = opc[p]
    BY <1>14 DEF Rebuild, OStep, TypeOK
  <2>3. UNCHANGED <<goal, pc, todo, confirmed, early, torn>>
    BY <1>14 DEF Rebuild, jobs
  <2>4. OpAdapter[o] \in Adapter
    OBVIOUS
  <2>5. \A k \in Job : /\ lost[k] # "no" => lost'[k] # "no"
                       /\ k \in active /\ k \notin active' /\ goal[k] = "driving" => lost'[k] # "no"
    <3>1. CASE NewSession(OpAdapter[o])
      BY <3>1, <2>4, SessionKeeps
    <3>2. CASE UNCHANGED <<active, lost>>
      BY <3>2
    <3> QED
      BY <1>14, <3>1, <3>2 DEF Rebuild
  <2>6. ASSUME NEW p \in Operator, NEW j \in early'[p] PROVE Answered(p, j)'
    <3>1. j \in Job /\ goal[j] # "none" /\ Answered(p, j)
      BY <2>3, <2>6 DEF MotionInv, TypeOK
    <3>2. goal[j] \in {"driving", "ended"}
      BY <3>1 DEF TypeOK
    <3>3. p = o => goal[j] = "ended" \/ lost[j] # "no"
      BY <2>1, <3>1 DEF Answered
    <3> QED
      BY <2>2, <2>3, <2>5, <3>1, <3>2, <3>3 DEF Answered
  <2>7. active' \subseteq active
    BY <1>14 DEF Rebuild, NewSession
  <2>8. \A p \in Operator : /\ opc'[p] = "idle" => early'[p] = {} /\ torn'[p] = {}
                            /\ opc'[p] \in {"stop", "tear"} => torn'[p] = {}
                            /\ opc'[p] \in {"tear", "wait"} => confirmed'[p]
    BY <2>1, <2>2, <2>3 DEF MotionInv
  <2>9. \A p \in Operator : \A j \in torn'[p] \cap early'[p] : lost'[j] # "no"
    BY <2>3, <2>5 DEF MotionInv, TypeOK
  <2>10. \A k \in active' : goal'[k] # "none"
    BY <2>3, <2>7 DEF MotionInv
  <2>11. \A p \in Operator : \A j \in early'[p] : Sent(j)' /\ goal'[j] # "none"
    BY <2>3 DEF MotionInv, Sent
  <2> QED
    BY <2>3, <2>6, <2>8, <2>9, <2>10, <2>11 DEF MotionInv, Sent
<1>15. ASSUME NEW o \in Operator, Resume(o) PROVE MotionInv'
  <2>1. opc[o] = "resume" /\ opc'[o] = "idle2"
    BY <1>15 DEF Resume, OStep, TypeOK
  <2>2. \A p \in Operator \ {o} : opc'[p] = opc[p]
    BY <1>15 DEF Resume, OStep, TypeOK
  <2>3. UNCHANGED <<active, goal, pc, todo, confirmed, early, torn, lost>>
    BY <1>15 DEF Resume, jobs, hist
  <2>4. ASSUME NEW p \in Operator, NEW j \in early'[p] PROVE Answered(p, j)'
    BY <2>1, <2>2, <2>3, <2>4 DEF MotionInv, Answered
  <2> QED
    BY <2>1, <2>2, <2>3, <2>4 DEF MotionInv, Sent
<1>16. CASE ForwardDrops \/ ForwardReturns
  BY <1>16, MotionFrame DEF MotionInv, Sent, ForwardDrops, ForwardReturns, gate, jobs, ops, hist
<1>17. ASSUME NEW a \in Adapter, LinkDrops(a) PROVE MotionInv'
  BY <1>17, MotionFrame DEF MotionInv, Sent, LinkDrops, gate, jobs, ops, hist
<1>18. CASE UNCHANGED vars
  BY <1>18 DEF MotionInv, Sent, Answered, vars
<1> QED
  BY <1>1, <1>2, <1>3, <1>4, <1>5, <1>6, <1>7, <1>8, <1>9, <1>10, <1>11, <1>12, <1>13, <1>14,
     <1>15, <1>16, <1>17, <1>18
  DEF Next, JobStep, OpStep

(* At the beginning nothing drives.                                          *)
LEMMA MotionInit == Init => MotionInv
BY DEF Init, MotionInv

(* Whatever the adapters, the jobs and the operators, and however calls, stops *)
(* and refreshes overlap: a goal that a refresh found driving, in a call its *)
(* adapter could cancel, was over before this refresh took the forward down, *)
(* or its session had been replaced in between (GenericROS2Adapter.reconnect *)
(* and CallGate).                                                            *)
THEOREM RefreshStopsFirst == Spec => []FoundMotionIsStopped
<1>1. Init => TypeOK /\ MotionInv
  BY TypeInit, MotionInit
<1>2. (TypeOK /\ MotionInv) /\ [Next]_vars => (TypeOK /\ MotionInv)'
  BY TypeStep, MotionStep
<1>3. TypeOK /\ MotionInv => FoundMotionIsStopped
  BY DEF MotionInv, FoundMotionIsStopped
<1> QED
  BY <1>1, <1>2, <1>3, PTL DEF Spec

-----------------------------------------------------------------------------
(* The process protocol and the presence watch refresh the same adapter, and *)
(* so take turns at its _refresh_lock.                                       *)
OneRefreshLock == \A o, p \in Operator : OpAdapter[o] = OpAdapter[p]

HeldInv == \A o \in Operator :
    /\ opc[o] \in {"stop", "tear", "wait", "resume"} => lock[OpAdapter[o]] = o
    /\ Refreshing(o) => paused

(* With one lock the gate is closed from the stop to the resume.             *)
LEMMA HeldStep == OneRefreshLock /\ TypeOK /\ HeldInv /\ [Next]_vars => HeldInv'
<1> SUFFICES ASSUME OneRefreshLock, TypeOK, HeldInv, [Next]_vars PROVE HeldInv'
  OBVIOUS
<1> USE AdapterAssumption
<1>1. ASSUME UNCHANGED <<opc, lock, paused>> PROVE HeldInv'
  BY <1>1 DEF HeldInv, Refreshing
<1>2. ASSUME NEW o \in Operator, Pause(o) PROVE HeldInv'
  <2>1. lock[OpAdapter[o]] = NoOp /\ paused'
    BY <1>2 DEF Pause
  <2>2. lock' = [lock EXCEPT ![OpAdapter[o]] = o] /\ opc' = [opc EXCEPT ![o] = "stop"]
    BY <1>2 DEF Pause, OStep
  <2>3. \A p \in Operator : opc[p] \in {"stop", "tear", "wait", "resume"} => FALSE
    BY <2>1 DEF HeldInv, OneRefreshLock
  <2> QED
    BY <2>1, <2>2, <2>3 DEF HeldInv, Refreshing, TypeOK
<1>3. ASSUME NEW o \in Operator, Decide(o) \/ Tear(o) \/ Rebuild(o) PROVE HeldInv'
  <2>1. UNCHANGED <<lock, paused>> /\ Refreshing(o)
    BY <1>3 DEF Decide, Tear, Rebuild, OStep, gate, Refreshing
  <2>2. \A p \in Operator \ {o} : opc'[p] = opc[p]
    BY <1>3 DEF Decide, Tear, Rebuild, OStep, TypeOK
  <2> QED
    BY <2>1, <2>2 DEF HeldInv, Refreshing
<1>4. ASSUME NEW o \in Operator, Resume(o) PROVE HeldInv'
  <2>1. opc[o] = "resume" /\ opc' = [opc EXCEPT ![o] = "idle2"]
    BY <1>4 DEF Resume, OStep
  <2>2. \A p \in Operator \ {o} : opc[p] \notin {"stop", "tear", "wait", "resume"}
    BY <2>1 DEF HeldInv, OneRefreshLock
  <2> QED
    BY <2>1, <2>2 DEF HeldInv, Refreshing, TypeOK
<1>5. ASSUME NEW j \in Job, Call(j) \/ JobStep(j) \/ GoalEnds(j) PROVE UNCHANGED <<opc, lock, paused>>
  BY <1>5 DEF Call, JobStep, Reopen, ReopenFails, Begin, Preflight, Refuse, Send, Wait, End, GoalEnds,
     gate, ops
<1>6. ASSUME NEW o \in Operator, Stop(o) PROVE UNCHANGED <<opc, lock, paused>>
  BY <1>6 DEF Stop, gate
<1>7. ASSUME ForwardDrops \/ ForwardReturns \/ (\E a \in Adapter : LinkDrops(a))
      PROVE  UNCHANGED <<opc, lock, paused>>
  BY <1>7 DEF ForwardDrops, ForwardReturns, LinkDrops, gate, ops
<1>8. CASE UNCHANGED vars
  BY <1>8, <1>1 DEF vars
<1> QED
  BY <1>1, <1>2, <1>3, <1>4, <1>5, <1>6, <1>7, <1>8 DEF Next, OpStep

(* A step of an operator that could not stop everything changes neither the  *)
(* forward nor any session: it only stops the rest and gives up.             *)
LEMMA RefusedKeeps ==
  ASSUME TypeOK, MotionInv, NEW o \in Operator, ~confirmed[o], OpStep(o)
  PROVE  UNCHANGED <<forward, link, active>>
<1>1. opc[o] \notin {"tear", "wait"}
  BY DEF MotionInv
<1>2. ~Tear(o) /\ ~Rebuild(o)
  BY <1>1 DEF Tear, Rebuild, OStep
<1> QED
  BY <1>2 DEF OpStep, Stop, Decide, Resume

(* When the refreshes take turns at one lock, no call is admitted between    *)
(* the pause and the end of a refresh, and a refresh that could not stop     *)
(* what it found leaves the link as it was.                                  *)
THEOREM RefreshHoldsTheGate == ASSUME OneRefreshLock PROVE Spec => RefreshKeepsTheLink
<1>1. Init => TypeOK /\ MotionInv /\ HeldInv
  BY TypeInit, MotionInit DEF Init, HeldInv, Refreshing
<1>2. (TypeOK /\ MotionInv /\ HeldInv) /\ [Next]_vars => (TypeOK /\ MotionInv /\ HeldInv)'
  BY OneRefreshLock, TypeStep, MotionStep, HeldStep
<1>3. HeldInv => GateHoldsDuringRefresh
  BY DEF HeldInv, GateHoldsDuringRefresh
<1>4. TypeOK /\ MotionInv /\ HeldInv' =>
        [/\ GateHoldsDuringRefresh'
         /\ \A o \in Operator : ~confirmed[o] /\ OpStep(o) => UNCHANGED <<forward, link, active>>]_vars
  <2>1. TypeOK /\ MotionInv => \A o \in Operator : ~confirmed[o] /\ OpStep(o) => UNCHANGED <<forward, link, active>>
    BY RefusedKeeps
  <2>2. HeldInv' => GateHoldsDuringRefresh'
    BY DEF HeldInv, GateHoldsDuringRefresh
  <2> QED
    BY <2>1, <2>2
<1> QED
  BY <1>1, <1>2, <1>4, PTL DEF Spec, RefreshKeepsTheLink

=============================================================================
