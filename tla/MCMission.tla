----------------------------- MODULE MCMission -----------------------------
(* Instances of MissionController for TLC: four short plans that the policy *)
(* lets through, two that it must refuse, and sweeps that differ in what    *)
(* the guard tells apart.                                                   *)
EXTENDS MissionController

CONSTANTS a, b, red, blue

Step(kind, to) == [kind |-> kind, to |-> to, next |-> None, hold |-> 0, timeout |-> 4,
                   onFailure |-> "abort"]

SafeStop == Step("safe_stop", None)
Gate     == <<Step("ask_human", a), Step("resume", a)>>

Accepted == {
    Gate \o <<Step("move_relative", "reverse"), SafeStop>>,
    <<[Step("wait_until_clear", None) EXCEPT !.hold = 1],
      [Step("navigate", 1) EXCEPT !.onFailure = "request_replan"], SafeStop>>,
    <<Step("save_current_location", None), Step("turn_relative", None), SafeStop>>,
    <<[Step("follow_line", red) EXCEPT !.hold = 1, !.next = blue],
      [Step("follow_line", blue) EXCEPT !.hold = 1], SafeStop>> }
Refused == {
    <<Step("ask_human", a), Step("navigate", 1), Step("resume", a), SafeStop>>,
    <<Step("resume", a), Step("navigate", 1), Step("ask_human", a), SafeStop>>,
    <<[Step("follow_line", red) EXCEPT !.next = blue], Step("navigate", 1), SafeStop>> }
MCCandidates == Accepted \cup Refused

Clear == [s \in Sector \cup {"other"} |-> {3}]
MCSweeps == {Clear,
             [Clear EXCEPT !["forward"] = {Bad, 2}],
             [Clear EXCEPT !["forward"] = {Bad}],
             [Clear EXCEPT !["left"] = {1, Far}],
             [Clear EXCEPT !["rear"] = {2}],
             [Clear EXCEPT !["other"] = {0}]}
MCPlaces == {1, 2}
MCScenes == {{}, {red}, {blue}}
Decision(id, ok, nonce, until) ==
    [id |-> id, approved |-> ok, nonce |-> nonce, until |-> until, genuine |-> TRUE]
MCMessages == {Decision(a, TRUE, 1, 3), Decision(a, FALSE, 2, 9), Decision(b, TRUE, 3, 9),
               [Decision(a, TRUE, 4, 9) EXCEPT !.genuine = FALSE]}
=============================================================================
