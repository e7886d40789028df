------------------------------ MODULE PlanPolicy ------------------------------
(***************************************************************************)
(* The cross-step rules a plan must pass before it is compiled, whoever    *)
(* wrote it (_validate_plan_policy, ai_planner.py). A plan is a sequence   *)
(* of steps [kind, to, next, ...]: to is a gate, a target or a line        *)
(* colour, next the colour a line hands over to.                           *)
(***************************************************************************)
EXTENDS Integers, Sequences, FiniteSetsExt, SequencesExt

CONSTANT None

Motion == {"navigate", "navigate_to_location", "move_relative", "turn_relative",
           "follow_line"}

Steps(p, kinds) == {i \in DOMAIN p : p[i].kind \in kinds}

\* The approvals a plan asks for and resumes on.
Gates(p) == {p[i].to : i \in Steps(p, {"ask_human", "resume"})}

\* A line that hands over to another colour is followed by that line.
LinesConnect(p) ==
    \A i \in Steps(p, {"follow_line"}) : p[i].next # None =>
        LET later == {j \in Steps(p, Motion) : j > i} IN
        /\ p[i].next # p[i].to
        /\ later # {}
        /\ p[Min(later)].kind = "follow_line" /\ p[Min(later)].to = p[i].next

\* An approval that is asked for at i and not resumed before j.
PendingAt(p, i, j) ==
    /\ p[i].kind = "ask_human" /\ i < j
    /\ \A k \in Steps(p, {"resume"}) : k \in i..(j - 1) => p[k].to # p[i].to

ApprovalsAreAnswered(p) ==
    LET asks == Steps(p, {"ask_human"}) IN
    /\ \A i, j \in asks : p[i].to = p[j].to => i = j
    /\ \A j \in Steps(p, {"resume"}) : \E i \in asks : p[i].to = p[j].to /\ PendingAt(p, i, j)
    /\ \A i \in asks : ~PendingAt(p, i, Len(p) + 1)

ApprovalsResolve(p) ==
    LET asks == Steps(p, {"ask_human"}) IN
    /\ \A i, j \in asks : p[i].to = p[j].to => i = j
    /\ \A j \in Steps(p, {"resume"}) : \E i \in asks : p[i].to = p[j].to /\ PendingAt(p, i, j)
    /\ \A j \in Steps(p, Motion) \cup {Len(p) + 1} : \A i \in asks : ~PendingAt(p, i, j)

PlanPolicy(p) ==
    /\ Steps(p, Motion) # {} => Last(p).kind = "safe_stop"
    /\ LinesConnect(p)
    /\ ApprovalsResolve(p)
===============================================================================
