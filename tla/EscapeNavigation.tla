--------------------------- MODULE EscapeNavigation ---------------------------
(***************************************************************************)
(* A navigation that starts inside an obstacle's inflation: one sweep      *)
(* decides how it is left (inflation_escape.py), and the call drives the   *)
(* legs of the way out one after another under ids of their own            *)
(* (generic_ros2_adapter.py), while it may be cancelled, stopped, or left  *)
(* and asked for again.                                                    *)
(*                                                                         *)
(* The plane is a grid of units; the robot starts at the origin, facing    *)
(* along x, which is the map's frame too. A sweep has twelve bins, three   *)
(* to a sector, on bearings where a range of 5 units is a whole point; a   *)
(* bin is a number of these ranges, 0 where nothing was read. What stands  *)
(* still stays in view from every leg's start.                             *)
(***************************************************************************)
EXTENDS Integers, Sequences, FiniteSetsExt, SequencesExt

CONSTANTS
    Sweeps,        \* functions from Bearing to Nat
    Newcomers,     \* where something may come to stand meanwhile
    Target,        \* the destination, a point
    Floor, Margin, Pinned, MaxBackoff, MaxLateral, Arrival, ClusterJump,
    MaxAttempts,   \* bound: how often the call is made
    Absent

Leg == {"backoff", "waypoint", "goal"}

VARIABLES
    sweep, came,   \* the sweep at the start; the point that came, or Absent
    way,           \* the EscapeDecision kept for the call, or Absent
    stage, leg,    \* the call's place, and its current leg
    legs,          \* leg -> what became of its goal on the robot
    running,       \* _active_actions: legs whose goal is active
    keptLeg,       \* _results: leg -> its kept outcome, or Absent
    escaping,      \* _escape_legs[call_id], or Absent
    flagged,       \* call_id in _cancelled_escapes
    ended,         \* the outcome of the call, or Absent
    attempts,
    canceller,     \* [at, leg]: the thread in cancel()
    answer,        \* what cancel() answered
    halted,        \* history: a safe_stop() went by
    late, sends    \* history: legs sent since the flag; leg -> times sent

escapeVars == <<sweep, came, way, stage, leg, legs, running, keptLeg, escaping, flagged,
                ended, attempts, canceller, answer, halted, late, sends>>

-----------------------------------------------------------------------------
(* The sweep.                                                               *)

Bearing == -5..6
Unit(i) == CASE i = 0 -> <<5, 0>>  [] i = 1 -> <<4, 3>>  [] i = 2 -> <<3, 4>>
             [] i = 3 -> <<0, 5>>  [] i = 4 -> <<-3, 4>> [] i = 5 -> <<-4, 3>>
             [] i = 6 -> <<-5, 0>> [] i = -1 -> <<4, -3>> [] i = -2 -> <<3, -4>>
             [] i = -3 -> <<0, -5>> [] i = -4 -> <<-3, -4>> [] i = -5 -> <<-4, -3>>
Point(i, n)  == <<n * Unit(i)[1], n * Unit(i)[2]>>
Returns(s)   == {Point(i, s[i]) : i \in {j \in Bearing : s[j] > 0}}

Sector == [front |-> {-1, 0, 1}, left |-> {2, 3, 4}, rear |-> {5, 6, -5}, right |-> {-2, -3, -4}]

Unreadable == -1

\* sector_minimum(): a sector of which less than half was read is not room.
SectorMinimum(s, name) ==
    LET read == {i \in Sector[name] : s[i] > 0}
    IN  IF 2 * Cardinality(read) < Cardinality(Sector[name]) THEN Unreadable
        ELSE Min({5 * s[i] : i \in read})

\* Mutant: a bin that was not read is the object's edge.
GrowToEdge(s, g, i) ==
    IF g.stopped \/ s[i] = 0 THEN [g EXCEPT !.stopped = TRUE]
    ELSE [g EXCEPT !.points = @ \cup {Point(i, s[i])}, !.range = s[i]]

\* obstacle_cluster(): one step of the growth, from the last return on. A bin
\* that was not read is taken for the object's, as far as the jump allows.
Grow(s, g, i) ==
    IF g.stopped THEN g
    ELSE IF s[i] = 0
    THEN IF 5 * g.range * (1 + Cardinality(g.gaps)) > 2 * ClusterJump
         THEN [g EXCEPT !.stopped = TRUE]
         ELSE [g EXCEPT !.gaps = @ \cup {i}]
    ELSE IF 5 * s[i] - 5 * g.range > ClusterJump \/ 5 * g.range - 5 * s[i] > ClusterJump
    THEN [g EXCEPT !.stopped = TRUE]
    ELSE [g EXCEPT !.points = @ \cup {Point(j, g.range) : j \in g.gaps} \cup {Point(i, s[i])},
                   !.gaps = {}, !.range = s[i]]

Grown(s, seed, path) ==
    LET g == FoldLeft(LAMBDA acc, i : Grow(s, acc, i),
                      [points |-> {}, gaps |-> {}, range |-> s[seed], stopped |-> FALSE], path)
    IN  g.points \cup {Point(j, g.range) : j \in g.gaps}

Cluster(s) ==
    LET seed == CHOOSE i \in Sector.front : /\ s[i] > 0
                   /\ \A j \in Sector.front : s[j] > 0 => s[i] < s[j] \/ (s[i] = s[j] /\ i <= j)
    IN  {Point(seed, s[seed])} \cup Grown(s, seed, [n \in 1..(2 - seed) |-> seed + n])
                               \cup Grown(s, seed, [n \in 1..(seed + 2) |-> seed - n])

-----------------------------------------------------------------------------
(* The way out.                                                             *)

Square(p, q) == (p[1] - q[1]) * (p[1] - q[1]) + (p[2] - q[2]) * (p[2] - q[2])
Clamped(low, high, v) == Max({low, Min({high, v})})

\* segment_clearance() >= floor, for a segment along an axis.
Keeps(points, from, to) ==
    /\ points # {}
    /\ \A p \in points :
          Square(p, <<Clamped(Min({from[1], to[1]}), Max({from[1], to[1]}), p[1]),
                      Clamped(Min({from[2], to[2]}), Max({from[2], to[2]}), p[2])>>) >= Floor * Floor

\* backoff_distance() and allowed_backoff()
Allowed5(front, rear) ==
    IF rear = Unreadable THEN 0
    ELSE Max({0, Min({MaxBackoff, Pinned - front, rear - Floor})})

Backoff(s) ==
    LET b == Allowed5(SectorMinimum(s, "front"), SectorMinimum(s, "rear"))
    IN  IF b > 0 /\ ~Keeps(Returns(s), <<0, 0>>, <<-b, 0>>) THEN 0 ELSE b

\* lateral_offset(), at least the arrival tolerance and the margin away.
Offset(cluster, side) ==
    LET far == Max({0} \cup {IF side = "left" THEN p[2] ELSE -p[2] : p \in cluster}) + Floor + Margin
        off == Max({far, Arrival + Margin})
    IN  IF side = "left" THEN off ELSE -off

\* choose_sides(): the one with more room first.
Sides(s) == IF SectorMinimum(s, "left") >= SectorMinimum(s, "right") THEN <<"left", "right">>
            ELSE <<"right", "left">>

Passable(s, b, side, offset) ==
    /\ SectorMinimum(s, side) # Unreadable
    /\ offset \in -MaxLateral..MaxLateral
    /\ Keeps(Returns(s), <<-b, 0>>, <<-b, offset>>)

\* plan_escape()
NotPinned == [pinned |-> FALSE, feasible |-> TRUE, backoff |-> 0, offset |-> 0]
PlanFrom(s, b, cluster) ==
    LET able == SelectSeq(Sides(s), LAMBDA side : Passable(s, b, side, Offset(cluster, side)))
    IN  [pinned |-> TRUE, feasible |-> able # <<>>, backoff |-> b,
         offset |-> IF able = <<>> THEN 0 ELSE Offset(cluster, able[1])]
PlanEscape(s) ==
    IF SectorMinimum(s, "front") = Unreadable \/ SectorMinimum(s, "front") >= Pinned THEN NotPinned
    ELSE PlanFrom(s, Backoff(s), Cluster(s))

\* No decision, and no outcome of a leg, is the None of the code.
ASSUME EscapeAssumption ==
    /\ Absent \notin Leg \cup {"drives", "completed", "failed", "cancelled", "refused", "timeout"}
    /\ \A s \in Sweeps : PlanEscape(s) # Absent

Waypoint(d) == <<-d.backoff, d.offset>>

\* judge_destination(), on what is in view now.
InView == Returns(sweep) \cup (IF came = Absent THEN {} ELSE {came})
Admits(points, destination) ==
    points # {} /\ \A p \in points : Square(p, destination) >= Floor * Floor

-----------------------------------------------------------------------------
(* The call.                                                                *)

EscapeInit ==
    /\ sweep \in Sweeps /\ came = Absent
    /\ way = Absent /\ stage = "idle" /\ leg = "goal"
    /\ legs = [l \in Leg |-> "none"] /\ running = {}
    /\ keptLeg = [l \in Leg |-> Absent]
    /\ escaping = Absent /\ flagged = FALSE /\ ended = Absent /\ attempts = 0
    /\ canceller = [at |-> "idle", leg |-> Absent] /\ answer = Absent
    /\ halted = FALSE /\ late = 0 /\ sends = [l \in Leg |-> 0]

Robot  == <<legs, sends, late>>
Others == <<canceller, answer, halted>>

End(outcome) == ended' = outcome /\ stage' = "over"
GoTo(l, place) == leg' = l /\ stage' = place /\ UNCHANGED ended

\* The first leg of a way, and what comes before its goal is sent.
FirstLeg(d) ==
    IF ~d.feasible THEN End("refused") /\ UNCHANGED leg
    ELSE IF ~d.pinned THEN GoTo("goal", "send")
    ELSE IF d.backoff > 0 THEN GoTo("backoff", "check")
    ELSE GoTo("waypoint", "judge")

\* _escape_decision(): once per call, kept for its next attempts.
Decided == IF way = Absent THEN PlanEscape(sweep) ELSE way

\* invoke(): the destination is judged, then the way decided.
Start ==
    /\ stage = "idle" /\ ended \in {Absent, "timeout"} /\ attempts < MaxAttempts
    /\ attempts' = attempts + 1
    /\ IF Admits(InView, Target)
       THEN \E d \in {Decided} : way' = d /\ FirstLeg(d)
       ELSE End("refused") /\ UNCHANGED <<way, leg>>
    /\ UNCHANGED <<sweep, came, running, keptLeg, escaping, flagged, Robot, Others>>

\* _destination_verdict() of a leg, from what is in view now.
Judge ==
    /\ stage = "judge"
    /\ \/ /\ leg = "waypoint"
          /\ IF Admits(InView, Waypoint(way)) THEN GoTo(leg, "check") ELSE End("failed") /\ UNCHANGED leg
       \/ /\ leg = "goal"
          /\ IF Admits(InView, Target) THEN GoTo(leg, "send") ELSE End("failed") /\ UNCHANGED leg
    /\ UNCHANGED <<sweep, came, way, running, keptLeg, escaping, flagged, attempts, Robot, Others>>

\* The look at _cancelled_escapes before a leg; an escape leg is named from here on.
Check ==
    /\ stage = "check"
    /\ \/ flagged /\ End("cancelled") /\ UNCHANGED <<leg, escaping>>
       \/ ~flagged /\ leg # "goal" /\ GoTo(leg, "send") /\ escaping' = leg
       \/ ~flagged /\ leg = "goal" /\ GoTo(leg, "judge") /\ UNCHANGED escaping
    /\ UNCHANGED <<sweep, came, way, running, keptLeg, flagged, attempts, Robot, Others>>

\* What follows a leg's outcome.
Proceed(outcome) ==
    /\ escaping' = Absent
    /\ \/ outcome = "completed" /\ leg = "backoff" /\ GoTo("waypoint", "judge")
       \/ outcome = "completed" /\ leg = "waypoint" /\ GoTo("goal", "check")
       \/ (outcome # "completed" \/ leg = "goal") /\ End(outcome) /\ UNCHANGED leg

\* invoke() of a leg: its kept result, the goal that runs already, or a new one.
Send ==
    /\ stage = "send"
    /\ \/ /\ keptLeg[leg] # Absent
          /\ Proceed(keptLeg[leg])
          /\ UNCHANGED <<running, Robot>>
       \/ /\ keptLeg[leg] = Absent
          /\ GoTo(leg, "await") /\ UNCHANGED escaping
          /\ IF leg \in running THEN UNCHANGED <<running, Robot>>
             ELSE /\ running' = running \cup {leg}
                  /\ legs' = [legs EXCEPT ![leg] = "drives"]
                  /\ sends' = [sends EXCEPT ![leg] = @ + 1]
                  /\ late' = IF flagged THEN late + 1 ELSE late
    /\ UNCHANGED <<sweep, came, way, keptLeg, flagged, attempts, Others>>

\* The result that was awaited.
Conclude ==
    /\ stage = "await" /\ legs[leg] # "drives"
    /\ running' = running \ {leg}
    /\ keptLeg' = [keptLeg EXCEPT ![leg] = legs[leg]]
    /\ Proceed(legs[leg])
    /\ UNCHANGED <<sweep, came, way, flagged, attempts, Robot, Others>>

\* The deadline: the goal stays active, the leg is no longer named.
GiveUp ==
    /\ stage = "await"
    /\ stage' = "idle" /\ ended' = "timeout" /\ escaping' = Absent
    /\ UNCHANGED <<sweep, came, way, leg, running, keptLeg, flagged, attempts, Robot, Others>>

CallStep == Start \/ Judge \/ Check \/ Send \/ Conclude \/ GiveUp

-----------------------------------------------------------------------------
(* The robot, and those who interfere.                                      *)

GoalEnds ==
    \E l \in Leg, how \in {"completed", "failed"} :
        /\ legs[l] = "drives"
        /\ legs' = [legs EXCEPT ![l] = how]
        /\ UNCHANGED <<sweep, came, way, stage, leg, running, keptLeg, escaping, flagged, ended,
                       attempts, Others, late, sends>>

Arrives ==
    /\ way # Absent /\ came = Absent /\ came' \in Newcomers
    /\ UNCHANGED <<sweep, way, stage, leg, legs, running, keptLeg, escaping, flagged, ended,
                   attempts, Others, late, sends>>

\* cancel(): the leg is read, the flag set, then the leg and perhaps the call withdrawn.
CancelReads ==
    /\ canceller.at = "idle" /\ attempts > 0
    /\ canceller' = [at |-> "flag", leg |-> escaping]
    /\ UNCHANGED <<flagged, legs, running, keptLeg, answer>>

CancelFlags ==
    /\ canceller.at = "flag"
    /\ flagged' = (flagged \/ way # Absent)
    /\ canceller' = [canceller EXCEPT !.at = IF canceller.leg = Absent THEN "call" ELSE "leg"]
    /\ UNCHANGED <<legs, running, keptLeg, answer>>

\* backend.cancel(): confirmed, or not, in which case the goal may have ended all the same.
Withdraw(l) ==
    \/ /\ l \in running /\ legs[l] = "drives"
       /\ legs' = [legs EXCEPT ![l] = "cancelled"]
       /\ running' = running \ {l}
       /\ keptLeg' = [keptLeg EXCEPT ![l] = "cancelled"]
       /\ answer' = "cancelled" /\ canceller' = [canceller EXCEPT !.at = "done"]
    \/ /\ l \in running
       /\ legs' \in {legs} \cup IF legs[l] = "drives" THEN {[legs EXCEPT ![l] = "cancelled"]} ELSE {}
       /\ UNCHANGED <<running, keptLeg>>
       /\ answer' = "failed"
       /\ canceller' = [canceller EXCEPT !.at = IF canceller.at = "leg" THEN "call" ELSE "done"]
    \/ /\ l \notin running
       /\ answer' = "refused"
       /\ canceller' = [canceller EXCEPT !.at = IF canceller.at = "leg" THEN "call" ELSE "done"]
       /\ UNCHANGED <<legs, running, keptLeg>>

CancelWithdraws ==
    /\ canceller.at \in {"leg", "call"}
    /\ Withdraw(IF canceller.at = "leg" THEN canceller.leg ELSE "goal")
    /\ UNCHANGED flagged

Cancel ==
    /\ CancelReads \/ CancelFlags \/ CancelWithdraws
    /\ UNCHANGED <<sweep, came, way, stage, leg, escaping, ended, attempts, halted, late, sends>>

\* safe_stop(): what is active is asked once and forgotten; the escape is not flagged.
StopAll ==
    /\ attempts > 0 /\ ~halted /\ halted' = TRUE
    /\ running' = {}
    /\ \E answered \in SUBSET {l \in running : legs[l] = "drives"} :
          /\ legs' = [l \in Leg |-> IF l \in answered THEN "cancelled" ELSE legs[l]]
          /\ keptLeg' = [l \in Leg |-> IF l \in answered THEN "cancelled" ELSE keptLeg[l]]
    /\ UNCHANGED <<sweep, came, way, stage, leg, escaping, flagged, ended, attempts, canceller,
                   answer, late, sends>>

EscapeNext == CallStep \/ GoalEnds \/ Arrives \/ Cancel \/ StopAll

-----------------------------------------------------------------------------
(* What is checked.                                                         *)

Between(a, b) == Min({a, b})..Max({a, b})
Near(s, i, j) ==
    /\ 5 * s[i] - 5 * s[j] \in -ClusterJump..ClusterJump
    /\ \A k \in Between(i, j) \ {i, j} : 5 * s[i] * Max({k - i, i - k}) <= 2 * ClusterJump

\* The returns that hang together with the nearest one ahead, bins that were not
\* read between them or not.
Object(s) ==
    LET read == {i \in -2..2 : s[i] > 0}
        ahead == {i \in Sector.front : s[i] > 0 /\ \A j \in Sector.front \cap read : s[i] <= s[j]}
        joins(i, j) == \A k, m \in Between(i, j) \cap read :
                          (/\ Max({k - i, i - k}) < Max({m - i, i - m})
                           /\ \A n \in Between(k, m) \ {k, m} : n \notin read) => Near(s, k, m)
    IN  {Point(j, s[j]) : j \in {k \in read : joins(Min(ahead), k)}}

\* A way out of the inflation keeps the clearance floor from every return at
\* every point of the back-off and of the way to the side, leaves the arrival
\* tolerance, and ends where the way ahead passes the whole object in front by
\* the floor (plan_escape(), obstacle_cluster()); its waypoint is not refused by
\* the verdict before it is sent (judge_destination()) for anything that was in view.
WayIsClear(s, d) ==
    (d.pinned /\ d.feasible) =>
        LET path == {<<x, 0>> : x \in -d.backoff..0}
                       \cup {<<-d.backoff, y>> : y \in Between(0, d.offset)}
        IN  /\ \A p \in Returns(s), q \in path : Square(p, q) >= Floor * Floor
            /\ d.offset \notin -Arrival..Arrival
            /\ \A p \in Object(s) : IF d.offset > 0 THEN d.offset - p[2] >= Floor
                                                    ELSE p[2] - d.offset >= Floor
            /\ Admits(Returns(s), Waypoint(d))

EscapeKeepsTheFloor == [][way' # way => WayIsClear(sweep', way')]_escapeVars

\* cancel() during an escape (adapter.cancel(), _escape_leg()): once it answered
\* "cancelled" no leg drives, and after the flag at most the leg whose check was
\* already past is sent (unless the call was not pinned: its only goal asks
\* nobody). Legs are driven in their order: the next one is sent after the last
\* one completed, and none twice, unless a safe_stop() forgot it while it drove;
\* the call completes with its goal only.
EscapeInOrder ==
    /\ answer = "cancelled" => \A l \in Leg : legs[l] # "drives"
    /\ way # Absent /\ way.pinned =>
          /\ late <= 1
          /\ legs["waypoint"] # "none" /\ way.backoff > 0 => legs["backoff"] = "completed"
          /\ legs["goal"] # "none" => legs["waypoint"] = "completed"
    /\ ~halted => \A l \in Leg : sends[l] <= 1
    /\ ended = "completed" => legs["goal"] = "completed"
    /\ escaping # Absent => stage \in {"send", "await"} /\ escaping = leg

\* The way out is clear of what was seen, and it is driven, and cancelled, in its order.
EscapeIsSafe == []EscapeInOrder /\ EscapeKeepsTheFloor
===============================================================================
