----------------------------- MODULE GuardedDrive -----------------------------
(***************************************************************************)
(* One straight drive toward an obstacle, guarded from the host            *)
(* (generic_ros2_adapter.py): planned from the room ahead, watched against *)
(* every scan, slowed by a slower goal or stopped when the room runs out or *)
(* the scans stop, and accounted for when it ends. First the arithmetic:   *)
(* how much room a moving robot needs to stop (braking_envelope.py), and   *)
(* why a motion ended (motion_outcome.py).                                 *)
(*                                                                         *)
(* Units: a tick of time is GUARD_POLL_S, so the waiter looks once in each; *)
(* a robot that brakes loses speed 1 in a tick, so the deceleration is 1;  *)
(* a distance is counted in halves of what speed 1 covers in a tick, so    *)
(* that v^2 / 2a is the whole number v * v. A room is measured to the      *)
(* clearance floor; Open is a way nothing limits. Speeds are whole: the    *)
(* fastest one that fits is rounded down. A scan is taken every Period     *)
(* ticks and reaches the host Delay ticks later, or not at all; a command  *)
(* reaches the robot and its motors at most Delay + React ticks after it   *)
(* was sent. Odometry comes with the scans.                                *)
(***************************************************************************)
EXTENDS Integers, Sequences, FiniteSetsExt, SequencesExt

CONSTANTS
    Open,          \* the room of a way nothing limits
    TopSpeed,      \* bound: the fastest speed of any robot
    MinSpeed,      \* MIN_SPEED_MPS: below it a command is no motion
    MinDistance,   \* MIN_DISTANCE_M: the shortest drive odometry can tell
    NoTrip,        \* the guard did not stop the drive
    Tolerance,     \* the 0.03 m of relative_move_tolerance()
    Asks,          \* what a caller asks: records [speed, distance]
    Rooms,         \* the room at the start
    Horizon,       \* a scan sees no obstacle farther than this
    Declared,      \* what the server's implementation is known to be
    Policy,        \* SCAN_STALENESS["straight"]
    Configured,    \* FLYTO_ROS2_STOP_LATENCY_S
    Measured,      \* whether three scans were timed before
    Period, Delay, React, Poll, \* latencies, in ticks; Poll is GUARD_POLL_S
    SlowGap,       \* SLOWDOWN_MIN_INTERVAL_S
    NearlyThere,   \* the 0.02 m left for which no slower goal is sent
    MaxFresh,      \* a reading older than this is not a fresh one
    OldestAge,        \* bound: an age above every limit
    Resumes,       \* bound: how often the caller asks again after a timeout
    Nothing

ASSUME DriveAssumption ==
    /\ Poll = 1 /\ Delay < Period /\ 2 * Poll <= Period /\ Delay + React < SlowGap
    /\ Rooms \subseteq Nat /\ Open \in Nat /\ Horizon \in Nat /\ Horizon < Open /\ \A r \in Rooms : r < Open
    /\ Policy \in [missed : Nat, worst : Nat, configured : Nat, ceiling : Nat, floorBound : BOOLEAN]
    /\ Poll <= Policy.ceiling /\ Policy.ceiling < OldestAge /\ MinSpeed > 0
    /\ Asks \subseteq [speed : Nat, distance : Nat] /\ Measured \subseteq BOOLEAN
    /\ {TopSpeed, MinSpeed, MinDistance, Tolerance, Configured, Period, Delay, React, OldestAge} \subseteq Nat
    /\ NoTrip \notin {"clearance", "blind", "stale"}
    /\ Nothing \notin Nat \cup {"succeeded", "canceled", "aborted"}

-----------------------------------------------------------------------------
\* The profile a drive is guarded with.

\* LatencyBudget.total_s: how stale the scan, its way here, the way of the
\* command back, the robot's loop and its motors.
BudgetTotal(b) == b.period + b.transport + b.transport + b.react

\* resolve_profile(): the larger of what is configured and what was measured;
\* the credit is the scan period the latency holds beyond its other terms.
ResolveProfile(configured, budget, measured) ==
    LET latency == IF measured THEN Max({configured, BudgetTotal(budget)}) ELSE configured
        rest    == BudgetTotal(budget) - budget.period
    IN  [latency |-> latency,
         credit  |-> IF measured THEN Max({0, Min({budget.period, latency - rest})}) ELSE 0]

StoppingDistance(p, v) == 2 * v * p.latency + v * v

\* max_speed(): the fastest speed that comes to rest within the room.
MaxSpeed(p, room) ==
    IF room = Open THEN TopSpeed
    ELSE IF room <= 0 THEN 0
    ELSE Max({v \in 0..TopSpeed : StoppingDistance(p, v) <= room})

-----------------------------------------------------------------------------
\* How long a drive may go without a scan.

\* The rate cap of scan_stale_limit(): a silent sensor, whatever the room.
RateLimit(policy, configured, nominal, worst) ==
    Min({policy.ceiling, Max({configured, policy.missed * nominal, policy.worst * worst})})

\* An age is past blind_time_to_floor(): a stop decided later would end inside.
PastFloorBound(p, room, v, poll, age) ==
    /\ room # Open /\ v > 0
    /\ 2 * v * (age - p.credit + poll) > room - StoppingDistance(p, v)

\* Mutant: the room does not bound the silence.
StaleByRate(policy, rate, p, room, v, poll, age) == age > rate

\* scan_stale_limit(): the smaller of the two bounds decides.
Stale(policy, rate, p, room, v, poll, age) ==
    age > rate \/ (policy.floorBound /\ PastFloorBound(p, room, v, poll, age))

-----------------------------------------------------------------------------
\* What a drive is sent with.

\* decide_governance(): may the server of this drive be sent a slower goal?
\* declared is what the table says of its plugin or type, or "unknown".
Resends(transportResends, declared) == transportResends /\ declared = "preemptive"

AtMost(limit, asked) == IF limit < asked THEN limit ELSE asked

\* plan_drive(): four fifths of the fastest speed that fits (speed_fraction), and
\* without resending a distance that ends where the robot can still stop.
WithDistance(speed, asked, resends, distance) ==
    [speed |-> speed, distance |-> Max({0, distance}), shortened |-> distance < asked, resends |-> resends,
     refused |-> speed < MinSpeed \/ (asked >= MinDistance /\ distance < MinDistance)]

WithSpeed(p, room, speed, asked, resends) ==
    WithDistance(speed, asked, resends,
                 IF resends \/ room = Open THEN asked ELSE AtMost(room - StoppingDistance(p, speed), asked))

PlanDrive(p, room, speed, distance, resends) ==
    WithSpeed(p, room, AtMost((4 * MaxSpeed(p, room)) \div 5, speed), distance, resends)

-----------------------------------------------------------------------------
\* Why a motion ended: the stop rules and the account of the server's own end. The
\* facts of a drive with a distance are [requested, commanded, travelled, shortened,
\* trip, aheadInside]. An end is [status, code, events, now, near]: the action's
\* status ("running" for none), the class of its error code, what the collision
\* monitor reported during the motion and what it holds at the stop ("stop" and
\* "approach" block, "invalid source" blinds), and whether the nearest return is
\* inside the floor.

\* mission.relative_move_tolerance(): min(0.03 m, d/10)
Within10th(short, d) == short <= Tolerance /\ 10 * short <= d

Reached(f) == Within10th(f.requested - f.travelled, f.requested)
ReachedCommanded(f) == Within10th(f.commanded - f.travelled, f.commanded)
Governed(f) == f.shortened \/ f.trip # NoTrip
BlindTrip(f) == f.trip \in {"blind", "stale"}

NoRule == "none"

\* STOP_RULES: the first row that holds.
StopRule(f) ==
    IF f.commanded < MinDistance /\ MinDistance <= f.requested THEN "no_room_to_drive"
    ELSE IF Governed(f) /\ Reached(f) THEN "reached_request"
    ELSE IF BlindTrip(f) /\ f.shortened /\ ReachedCommanded(f) THEN "blind_after_planned_stop"
    ELSE IF BlindTrip(f) THEN "guard_blind"
    ELSE IF ~Reached(f) /\ (f.shortened \/ f.trip = "clearance") THEN "stopped_short_by_clearance"
    ELSE IF ~Reached(f) /\ f.aheadInside THEN "stopped_short_facing_obstacle"
    ELSE NoRule

RuleReason(rule) ==
    CASE rule = "no_room_to_drive" -> "path_blocked"
      [] rule = "reached_request"  -> "completed"
      [] rule = "guard_blind"      -> "sensor_stale"
      [] OTHER                     -> "obstacle_blocked"

Blocks == {"stop", "approach"}

\* _reason() when no rule holds: what holds at the stop, then a specific error,
\* then what the monitor raised and cleared on the way.
ServersReason(trip, e) ==
    IF trip = "floor_breach" THEN "obstacle_blocked"
    ELSE IF e.status = "succeeded" THEN "completed"
    ELSE IF trip = "clearance" THEN "obstacle_blocked"
    ELSE IF trip \in {"blind", "stale"} THEN "sensor_stale"
    ELSE IF e.status = "canceled" THEN "cancelled"
    ELSE IF e.code = "collision" THEN "obstacle_blocked"
    ELSE IF e.now \in Blocks THEN "obstacle_blocked"
    ELSE IF e.now = "invalid source" THEN "sensor_stale"
    ELSE IF e.near THEN "obstacle_blocked"
    ELSE IF e.code = "tf" THEN "localization_error"
    ELSE IF e.code = "no path" THEN "no_path"
    ELSE IF e.events \cap Blocks # {} THEN "obstacle_blocked"
    ELSE IF "invalid source" \in e.events THEN "sensor_stale"
    ELSE IF e.status = "running" \/ e.code = "timeout" THEN "timeout"
    ELSE IF e.code = "no progress" THEN "no_progress"
    ELSE IF e.status = "aborted" THEN "aborted_by_server"
    ELSE "unknown"

\* summarize(): a motion that still runs has no facts to judge.
Summary(f, e) ==
    LET rule == IF e.status = "running" THEN NoRule ELSE StopRule(f)
    IN  [rule |-> rule, reason |-> IF rule # NoRule THEN RuleReason(rule) ELSE ServersReason(f.trip, e)]

-----------------------------------------------------------------------------
\* The drive.

VARIABLES
    call,          \* "idle", "waiting", "left" (timed out) or "over"
    ask, plan,     \* the request, and the DrivePlan
    profile,       \* the BrakingProfile
    start,         \* the room the drive started with
    robot,         \* [room, v, target, left]
    server,        \* the action's status on its server
    since, scan,   \* ticks since the last scan was taken; the one on its way
    wire,          \* commands on their way to the robot
    up,            \* the socket is connected
    guard,         \* the _BrakingGuard
    seen,          \* [room, v, age]: the last scan received, and how long ago
    gap,           \* ticks since the last slow-down, at most SlowGap
    looked,        \* the waiter has looked since the last tick or message
    inbox,         \* the result message received, or Nothing
    outcome,       \* [outcome, reason] of the call
    resumes,
    alone          \* history: the drive was left without a waiter

driveVars == <<call, ask, plan, profile, start, robot, server, since, scan, wire, up, guard,
               seen, gap, looked, inbox, outcome, resumes, alone>>
world == <<robot, server, since, scan, wire, up>>
host  == <<call, ask, plan, profile, start, guard, seen, gap, looked, inbox, outcome, resumes, alone>>

NoOutcome == [outcome |-> "none", reason |-> "none"]
Unseen    == [room |-> 0, v |-> 0, age |-> 0]
NoGuard   == [speed |-> 0, trip |-> NoTrip, slowTo |-> Nothing, stopSent |-> FALSE, resends |-> FALSE]

TimedOut  == [outcome |-> "timeout", reason |-> "timeout"]

\* What the host remembers of a drive is of no use to it any more.
DropGuard == guard' = NoGuard /\ seen' = Unseen /\ gap' = SlowGap /\ looked' = TRUE

\* room_to_floor() of a sweep: a way in which nothing is seen is open.
Sensed(room) == IF room > Horizon THEN Open ELSE room
Gone         == start - robot.room

DriveBudget == [period |-> Period, transport |-> Delay, react |-> React]

\* braking_profile(): with or without latencies measured before.
BrakingProfiles == {ResolveProfile(Configured, DriveBudget, measured) : measured \in Measured}

\* _speed_governance(): whatever the server's plugin is known to be.
Governances == {Resends(TRUE, declared) : declared \in Declared}

-----------------------------------------------------------------------------
DriveInit ==
    /\ call = "idle" /\ ask \in Asks /\ plan = Nothing
    /\ profile \in BrakingProfiles
    /\ start \in Rooms
    /\ robot = [room |-> start, v |-> 0, target |-> 0, left |-> 0]
    /\ server = "none" /\ since \in 0..Period-1 /\ scan = Nothing /\ wire = <<>> /\ up = TRUE
    /\ \E resends \in Governances : guard = [NoGuard EXCEPT !.resends = resends]
    /\ seen = [room |-> start, v |-> 0, age |-> 0] /\ gap = SlowGap /\ looked = FALSE
    /\ inbox = Nothing /\ outcome = NoOutcome /\ resumes = 0 /\ alone = FALSE

Command(op, speed, left) == [op |-> op, speed |-> speed, left |-> left, age |-> 0]

\* _action_goal() of a straight drive, and the cancel and zero velocity of a brake.
DriveGoal(speed, left) == Command("goal", speed, left)
StopCommand            == Command("cancel", 0, 0)

Planned == PlanDrive(profile, Sensed(seen.room), ask.speed, ask.distance, guard.resends)

\* _arm_braking() refuses, or invoke() sends the goal the plan allows.
Begin ==
    /\ call = "idle"
    /\ plan' = Planned
    /\ IF plan'.refused
       THEN /\ call' = "over" /\ outcome' = [outcome |-> "refused", reason |-> "path_blocked"]
            /\ UNCHANGED <<guard, wire, gap>>
       ELSE /\ call' = "waiting" /\ UNCHANGED outcome
            /\ guard' = [guard EXCEPT !.speed = plan'.speed]
            /\ wire' = <<DriveGoal(plan'.speed, plan'.distance)>>
            /\ gap' = IF guard.resends THEN 0 ELSE gap
    /\ UNCHANGED <<ask, profile, start, robot, server, since, scan, up, seen, looked, inbox, resumes, alone>>

-----------------------------------------------------------------------------
(* The robot, its scans and the wire.                                       *)

Braking == robot.v > robot.target
Covered == IF Braking THEN 2 * robot.v - 1 ELSE 2 * robot.target
Older(c) == [c EXCEPT !.age = @ + 1]

\* A tick: the robot rolls, a goal that has covered its distance succeeds, and
\* a scan that is due is taken; it may never arrive. The waiter looks once in each,
\* or waits for a robot it braked to come to rest.
Tick ==
    /\ call # "idle"
    /\ call = "waiting" => looked \/ (inbox # Nothing /\ guard.trip # NoTrip)
    /\ scan # Nothing => scan.age < Delay
    /\ wire # <<>> => Head(wire).age < Delay + React
    /\ robot.v > 0 \/ robot.target > 0 \/ wire # <<>> \/ scan # Nothing
    /\ LET done == server = "driving" /\ robot.left <= Covered
       IN  /\ robot' = [room |-> robot.room - Covered,
                        left |-> IF done \/ server # "driving" THEN 0 ELSE robot.left - Covered,
                        v |-> IF Braking THEN robot.v - 1 ELSE robot.target,
                        target |-> IF done THEN 0 ELSE robot.target]
           /\ server' = IF done THEN "succeeded" ELSE server
    /\ since' = IF call = "over" THEN 0 ELSE (since + 1) % Period
    /\ wire' = [i \in 1..Len(wire) |-> Older(wire[i])]
    /\ IF since' # 0
       THEN scan' = IF scan = Nothing THEN Nothing ELSE Older(scan)
       ELSE scan' \in {Nothing} \cup
                (IF up /\ call # "over" THEN {[room |-> robot'.room, v |-> robot'.v, age |-> 0]} ELSE {})
    /\ seen' = IF call = "over" THEN seen ELSE [seen EXCEPT !.age = Min({OldestAge, @ + 1})]
    /\ gap' = Min({SlowGap, gap + 1})
    /\ looked' = FALSE
    /\ UNCHANGED <<call, ask, plan, profile, start, up, guard, inbox, outcome, resumes, alone>>

\* A command reaches the server. A slower goal takes the place of the running
\* one; a cancel stops what runs.
Arrive ==
    /\ wire # <<>>
    /\ LET c == Head(wire) IN
       IF c.op = "goal"
       THEN /\ robot' = [robot EXCEPT !.target = c.speed, !.left = c.left] /\ server' = "driving"
       ELSE /\ robot' = [robot EXCEPT !.target = 0, !.left = 0]
            /\ server' = IF server = "driving" THEN "canceled" ELSE server
    /\ wire' = Tail(wire)
    /\ UNCHANGED <<since, scan, up, host>>

\* The server gives its goal up, for a reason of its own.
ServerAborts ==
    /\ server = "driving"
    /\ server' = "aborted" /\ robot' = [robot EXCEPT !.target = 0, !.left = 0]
    /\ UNCHANGED <<since, scan, wire, up, host>>

\* The socket drops: no scan arrives any more, what was sent arrives or not, and
\* the waiter leaves.
LinkDrops ==
    /\ up /\ call \in {"waiting", "left"} /\ inbox = Nothing
    /\ up' = FALSE /\ scan' = Nothing /\ wire' \in {wire, <<>>}
    /\ call' = "over" /\ outcome' = TimedOut /\ alone' = TRUE
    /\ DropGuard
    /\ UNCHANGED <<robot, server, since, ask, plan, profile, start, inbox, resumes>>

-----------------------------------------------------------------------------
(* The reader.                                                              *)

Trip(g, cause) == [g EXCEPT !.trip = cause, !.slowTo = Nothing]

Allowed(room) == (4 * MaxSpeed(profile, room)) \div 5
Faster(v)     == Max({guard.speed, v})

\* The drive no longer stops before the floor, or even the slowest one would not.
RunsOut(room, speed) ==
    \/ room # Open /\ room <= StoppingDistance(profile, speed)
    \/ guard.resends /\ Allowed(room) < MinSpeed

\* Mutant: the speed is set to what the room allows, up as well as down.
JudgedBothWays(room, v) ==
    IF RunsOut(room, Faster(v)) THEN Trip(guard, "clearance")
    ELSE IF guard.resends /\ Allowed(room) # guard.speed /\ gap = SlowGap
    THEN [guard EXCEPT !.slowTo = Allowed(room)]
    ELSE guard

\* _check_guards(), for a scan that can be read. The robot may still be faster
\* than the last command asked for.
Judged(room, v) ==
    IF RunsOut(room, Faster(v)) THEN Trip(guard, "clearance")
    ELSE IF guard.resends /\ 10 * Allowed(room) < 9 * guard.speed /\ gap = SlowGap
    THEN [guard EXCEPT !.slowTo = Allowed(room)]
    ELSE guard

\* A scan arrives; its sweep may be unreadable.
Receive(readable) ==
    /\ scan # Nothing /\ call # "over"
    /\ scan' = Nothing /\ looked' = FALSE
    /\ seen' = [room |-> IF readable THEN scan.room ELSE seen.room, v |-> scan.v, age |-> 0]
    /\ guard' = IF guard.trip # NoTrip THEN guard
                ELSE IF ~readable THEN Trip(guard, "blind")
                ELSE Judged(Sensed(scan.room), scan.v)
    /\ UNCHANGED <<robot, server, since, wire, up, call, ask, plan, profile, start, gap, inbox, outcome,
                   resumes, alone>>

\* The result of the latest goal arrives.
Result ==
    /\ up /\ inbox = Nothing /\ server \in {"succeeded", "canceled", "aborted"}
    /\ call \in {"waiting", "left"} /\ ~\E i \in DOMAIN wire : wire[i].op = "goal"
    /\ inbox' = server /\ looked' = FALSE
    /\ UNCHANGED <<world, call, ask, plan, profile, start, guard, seen, gap, outcome, resumes, alone>>

-----------------------------------------------------------------------------
(* The thread in _await_result().                                           *)

\* _check_scan_fresh()
Fresh ==
    LET rate == RateLimit(Policy, Policy.configured, Period, Period)
    IN  IF guard.trip = NoTrip /\ seen.age > Poll
           /\ Stale(Policy, rate, profile, Sensed(seen.room), Faster(seen.v), Poll, seen.age)
        THEN Trip(guard, "stale") ELSE guard

Remaining == plan.distance - (start - seen.room)

\* What every look has in common: it waits again, unless it acts on the guard.
Looking ==
    /\ call = "waiting" /\ ~looked /\ inbox = Nothing /\ up
    /\ looked' = TRUE
    /\ UNCHANGED <<robot, server, since, scan, up, call, ask, plan, profile, start, seen, inbox, outcome,
                   resumes, alone>>

\* _brake(): one cancel for a drive that tripped.
Brake ==
    /\ Looking
    /\ Fresh.trip # NoTrip /\ ~guard.stopSent
    /\ guard' = [Fresh EXCEPT !.stopSent = TRUE]
    /\ wire' = Append(wire, StopCommand) /\ UNCHANGED gap

\* _slow_down(): a slower goal for what is left of the drive.
SlowDown ==
    /\ Looking
    /\ Fresh.trip = NoTrip /\ guard.slowTo # Nothing /\ Remaining > NearlyThere
    /\ guard' = [guard EXCEPT !.slowTo = Nothing, !.speed = guard.slowTo]
    /\ wire' = Append(wire, DriveGoal(guard.slowTo, Remaining)) /\ gap' = 0

\* Nothing is sent: nothing asks for it, the stop is already out, or the drive
\* is nearly there.
LookOn ==
    /\ Looking
    /\ Fresh.trip = NoTrip => guard.slowTo = Nothing \/ Remaining <= NearlyThere
    /\ Fresh.trip # NoTrip => guard.stopSent
    /\ guard' = [Fresh EXCEPT !.slowTo = Nothing]
    /\ UNCHANGED <<wire, gap>>

\* The deadline passes: the goal still runs, and nobody acts on its guard.
Leave ==
    /\ call = "waiting" /\ inbox = Nothing
    /\ call' = "left" /\ outcome' = TimedOut /\ alone' = TRUE /\ looked' = FALSE
    /\ UNCHANGED <<world, ask, plan, profile, start, guard, seen, gap, inbox, resumes>>

\* The caller asks again: a fresh scan is required and the drive is planned
\* anew, before the call is found to be active; its guard is kept.
Resume ==
    /\ call = "left" /\ up /\ resumes < Resumes
    /\ resumes' = resumes + 1
    /\ \/ /\ seen.age > MaxFresh \/ Planned.refused
          /\ call' = "over" /\ outcome' = [outcome |-> "refused", reason |-> "path_blocked"]
          /\ DropGuard
       \/ /\ seen.age <= MaxFresh /\ ~Planned.refused
          /\ call' = "waiting" /\ outcome' = NoOutcome /\ looked' = FALSE
          /\ UNCHANGED <<guard, seen, gap>>
    /\ UNCHANGED <<world, ask, plan, profile, start, inbox, alone>>

\* _motion_summary() and what invoke() makes of it. A drive the guard stopped
\* is read where it came to rest.
Facts == [requested |-> ask.distance, commanded |-> plan.distance, travelled |-> Gone,
          shortened |-> plan.shortened, trip |-> guard.trip, aheadInside |-> robot.room < 0]
\* wait_until_stationary(): odometry shows no motion any more.
Stationary == robot.v = 0

ItsEnd == [status |-> inbox, code |-> "none", events |-> {}, now |-> "none", near |-> robot.room < 0]

OutcomeOf(summary) ==
    IF inbox = "succeeded" \/ (summary.rule # NoRule /\ summary.reason = "completed")
    THEN IF summary.reason = "completed" THEN "completed" ELSE "failed"
    ELSE IF inbox = "canceled" /\ guard.trip = NoTrip THEN "cancelled" ELSE "failed"

Return ==
    /\ call = "waiting" /\ inbox # Nothing
    /\ guard.trip # NoTrip => Stationary
    /\ LET summary == Summary(Facts, ItsEnd)
       IN  outcome' = [outcome |-> OutcomeOf(summary), reason |-> summary.reason]
    /\ call' = "over" /\ DropGuard
    /\ UNCHANGED <<world, ask, plan, profile, start, inbox, resumes, alone>>

DriveNext ==
    \/ Begin \/ Tick \/ Arrive \/ ServerAborts \/ LinkDrops
    \/ \E readable \in BOOLEAN : Receive(readable)
    \/ Result \/ Brake \/ SlowDown \/ LookOn \/ Leave \/ Resume \/ Return

-----------------------------------------------------------------------------
\* What the floor of a drive rests on beside the code: the latency the guard
\* reckons with is measured, or configured no smaller than it is; silence is
\* bounded by the floor; and a scan sees as far as the fastest drive needs.
FloorAssumption ==
    /\ \A measured \in Measured : measured \/ Configured >= BudgetTotal(DriveBudget)
    /\ Policy.floorBound
    /\ \A a \in Asks : 2 * a.speed * (Policy.ceiling + 1 + 2 * Delay + React) + a.speed * a.speed <= Horizon

\* braking_envelope.py: the robot comes to rest at or beyond the floor, never
\* inside it. A drive planned from a room that was seen holds the floor
\* whatever becomes of the link; any other while somebody waits for it.
FloorHeld == (~alone \/ (plan # Nothing /\ ~plan.resends /\ Sensed(start) # Open)) => robot.room >= 0

\* A drive that is reported as completed went as far as was asked.
CompletedIsTravelled ==
    outcome.outcome = "completed" => Within10th(ask.distance - Gone, ask.distance)

\* What a drive is reported as is what it did: completed, when it went as far
\* as was asked; blocked, when it fell short of that, or is inside the floor, before
\* something in view.
OutcomeIsTheDrives ==
    /\ CompletedIsTravelled
    /\ outcome.outcome = "failed" /\ outcome.reason = "obstacle_blocked" =>
          (Gone < ask.distance \/ robot.room < 0) /\ Sensed(robot.room) # Open

\* A robot that a stop has reached is not driven again, and no goal on the way
\* drives it faster than the one before.
NeverDrivenFaster ==
    [][/\ server = "canceled" => robot'.target = 0
       /\ server = "driving" => robot'.target <= robot.target]_driveVars

\* The drive did what it reports, never faster than it began, and came to rest outside
\* the floor.
DriveKeepsItsWord == [](FloorHeld /\ OutcomeIsTheDrives) /\ NeverDrivenFaster
===============================================================================
