------------------------------ MODULE MCPlanning ------------------------------
(* Three things that are planned before the robot moves, and then held to: a  *)
(* goal's workflow and route (three places whose labels share fragments,      *)
(* goals that name one of them, two or none, shortlists of two lengths, three *)
(* routes with a lift, a door and a camera between them), a straight drive,   *)
(* and the way out of a costmap inflation. They share nothing, so a behaviour *)
(* is one of them.                                                            *)
EXTENDS GoalPlanning, GuardedDrive, EscapeNavigation

VARIABLE scene

\* The drives of this instance are of the kind whose floor is proved.
ASSUME InstanceKeepsTheFloor == FloorAssumption

\* One of the drives that could be asked for, while no drive is looked at.
DriveStandsBy ==
    /\ since = 0
    /\ <<ask, start, guard.resends>> = CHOOSE c \in Asks \X Rooms \X BOOLEAN : c[3] = FALSE

EscapeStandsBy == sweep = CHOOSE s \in Sweeps : TRUE

vars == <<planningVars, driveVars, escapeVars, scene>>

Init ==
    /\ scene \in {"goals", "drive", "escape"}
    /\ PlanningInit
    /\ DriveInit /\ (scene # "drive" => DriveStandsBy)
    /\ EscapeInit /\ (scene # "escape" => EscapeStandsBy)

Next ==
    /\ UNCHANGED scene
    /\ \/ scene = "goals" /\ PlanningNext /\ UNCHANGED <<driveVars, escapeVars>>
       \/ scene = "drive" /\ DriveNext /\ UNCHANGED <<planningVars, escapeVars>>
       \/ scene = "escape" /\ EscapeNext /\ UNCHANGED <<planningVars, driveVars>>

Spec == Init /\ [][Next]_vars

-----------------------------------------------------------------------------

W(pose, id, labels) == [id |-> <<id>>, labels |-> labels, pose |-> pose]

MCIdentifier == <<<<"one">>, <<"two">>, <<"three">>>>
MCInitial == <<W("p", "one", <<<<"red", "ward">>, <<"blue", "ward">>>>),
               W("p", "two", <<<<"blue", "ward">>, <<"ward", "door">>>>)>>
\* Four labels that begin with the other place's only label.
MCAnnex   == <<W("p", "one", [i \in 1..4 |-> <<"red", "ward", <<"a", "b", "c", "d">>[i]>>]),
               W("p", "two", <<<<"red", "ward">>>>)>>
MCLessons == {[loc |-> 2, label |-> <<"blue", "ward">>, pose |-> "q"],
              [loc |-> 3, label |-> <<"red", "ward">>, pose |-> "q"],
              [loc |-> 1, label |-> <<"lab", "W1">>, pose |-> "q"]}
Goal(text) == [text |-> text, asks |-> {"delivery"}]
MCGoals == {Goal(<<"to", "red", "ward">>), Goal(<<"blue", "ward", "red", "ward">>), Goal(<<"ward">>),
            Goal(<<"two", "or", "W1">>), Goal(<<"W1", "ward", "door">>),
            [Goal(<<"red", "ward">>) EXCEPT !.asks = {"delivery", "override"}],
            [Goal(<<"red", "ward">>) EXCEPT !.asks = {}]}
MCWords == {"one", "two", "three", "W1"}

AnyFrame == [enabled |-> NoFrame, observations |-> NoFrame, resources |-> NoFrame, permissions |-> NoFrame]
MCContexts == {AnyFrame,
               [AnyFrame EXCEPT !.observations = {"odometry", "minimum_range"}],
               [AnyFrame EXCEPT !.resources = {"base_controller"}, !.permissions = {}],
               [AnyFrame EXCEPT !.enabled = Names \ {"safe_stop"}]}
Scored(best) == [n \in Names |-> IF n \in DOMAIN best THEN best[n] ELSE 0]
MCWordScores == {Scored(<<>>),
                 Scored("navigate" :> 12 @@ "follow_line" :> 12),
                 Scored("navigate_to_location" :> 20 @@ "ask_human" :> 16),
                 Scored("move_relative" :> 30 @@ "turn_relative" :> 20 @@ "navigate" :> 10),
                 Scored("dwell" :> 9)}

Pass(loc) == Step("navigate_to_location", loc)
SafeStop  == Step("safe_stop", None)
MCProposals == {
    <<Pass(1), Pass(2), SafeStop>>,
    <<Pass(2), Pass(1), SafeStop>>,
    <<Pass(1), Pass(3), SafeStop>>,
    <<Step("navigate", None), SafeStop>>,
    <<Step("navigate", None), Step("ask_human", "g"), Step("resume", "g"), SafeStop>>,
    <<Step("move_relative", None), SafeStop>>,
    <<Step("move_relative", None)>>,
    <<Step("wheel_speed", None)>> }

Contract(safety, task, sub, phases) ==
    [safety |-> safety, task |-> task, substitution |-> sub, phases |-> phases,
     evidence |-> "none", confidence |-> 5, maxAge |-> 2]
Needs(resource, contract) == [resource |-> resource, contract |-> contract]
MCGraph == <<
    [id |-> 1, base |-> 100, locations |-> <<1, 2>>,
     deps |-> <<Needs("lift", Contract("none", "invalidate", "equivalent", {"preflight"})),
                Needs("camera", Contract("none", "degrade", "none", {"*"}))>>],
    [id |-> 2, base |-> 90, locations |-> <<2, 1>>,
     deps |-> <<Needs("door", Contract("stop", "none", "validated", {"*"})),
                Needs("lift", Contract("abort", "none", "none", {"drive"}))>>],
    [id |-> 3, base |-> 60, locations |-> <<1, 3>>,
     deps |-> <<Needs("camera", Contract("none", "block", "none", {"*"}))>>] >>
Good == [healthy |-> TRUE, confidence |-> 9, age |-> 0, available |-> FALSE,
         equivalent |-> FALSE, validated |-> FALSE, evidence |-> FALSE]
Dead     == [Good EXCEPT !.healthy = FALSE]
Replaced == [Dead EXCEPT !.available = TRUE, !.validated = TRUE]
OldSight    == [Good EXCEPT !.age = 3]
Sight(l, c, d) == "lift" :> l @@ "camera" :> c @@ "door" :> d
MCSightings == {Sight(Good, Good, Good), Sight(Good, OldSight, Replaced), Sight(Dead, Good, Good),
                Sight(Replaced, OldSight, Dead)}
MCChanges == {[resource |-> r, observation |-> o] : r \in {"lift", "camera", "door"}, o \in {Dead, Replaced}}

MCAsks   == {[speed |-> 1, distance |-> 10], [speed |-> 2, distance |-> 44]}
MCPolicy == [missed |-> 3, worst |-> 1, configured |-> 3, ceiling |-> 6, floorBound |-> TRUE]

\* Ranges of the three bins of each sector, from the left of the robot on.
Seen(front, left, rear, right) ==
    [i \in Bearing |-> CASE i \in Sector.front -> front[i + 2]
                         [] i \in Sector.left -> left[i - 1]
                         [] i \in Sector.right -> right[-1 - i]
                         [] OTHER -> rear[IF i = -5 THEN 3 ELSE i - 4]]
Far == <<6, 6, 6>>
MCSweeps == {
    Seen(<<6, 4, 6>>, Far, Far, Far),
    Seen(<<2, 2, 2>>, Far, Far, Far),
    Seen(<<6, 2, 0>>, <<3, 6, 6>>, Far, <<2, 2, 2>>),
    Seen(<<6, 2, 6>>, Far, <<0, 6, 0>>, <<3, 3, 3>>),
    Seen(<<6, 1, 6>>, Far, Far, <<3, 3, 3>>),
    Seen(<<2, 2, 2>>, <<1, 1, 1>>, <<1, 1, 1>>, <<0, 0, 6>>)}
MCTarget    == <<40, 0>>
MCNewcomers == {<<-2, 14>>, <<40, 3>>}
===============================================================================
