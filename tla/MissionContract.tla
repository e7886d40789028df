-------------------------- MODULE MissionContract --------------------------
(***************************************************************************)
(* What a mission promises whoever started it, whatever its plan: the      *)
(* robot may move while the mission is open, it ends once, with one        *)
(* outcome, the robot stands still from then on, and the outcome is        *)
(* reported in the same step.                                              *)
(***************************************************************************)
CONSTANT Outcome       \* the states a mission can end in

VARIABLES phase,       \* "open", or the outcome
          moving,      \* the last command drives a wheel
          report       \* "none", or the outcome in the result file

vars == <<phase, moving, report>>

Init == phase = "open" /\ moving = FALSE /\ report = "none"

\* A control step of an open mission: any command.
Steer == phase = "open" /\ moving' \in BOOLEAN /\ UNCHANGED <<phase, report>>

\* The mission ends: it stops and says how it ended.
End(o) == /\ phase = "open"
          /\ phase' = o /\ report' = o
          /\ moving' = FALSE

Next == Steer \/ \E o \in Outcome : End(o)

Spec == Init /\ [][Next]_vars /\ WF_vars(\E o \in Outcome : End(o))
=============================================================================
