------------------------- MODULE MissionController -------------------------
(***************************************************************************)
(* One mission on one robot: MissionController (mission.py) driven by      *)
(* MissionNode (ros2_node.py), the plans the planner's policy lets through *)
(* (ai_planner.py) and the signed human decisions (human_approval.py).     *)
(*                                                                         *)
(* The node spins one thread: odometry, scan, image, a human decision and  *)
(* the control timer are callbacks that run whole, in any order. Time      *)
(* passes between them; a late timer is a control step that finds more of  *)
(* it gone. The ROS clock and the steady clock are one clock here.         *)
(*                                                                         *)
(* A pose is the place the robot is at; ranges are classes: below 1 under  *)
(* the emergency distance, below LateralLimit and below StopLimit under    *)
(* those, 3 measured and far enough, Far nothing within reach, Bad a beam  *)
(* that measured nothing. A sweep gives each sector the beams it has.      *)
(***************************************************************************)
EXTENDS PlanPolicy

CONSTANTS
    Candidates,     \* plans a planner answers with (sequences of steps)
    Sweeps,         \* lidar sweeps, [Sector \cup ... -> SUBSET (0..Bad)]
    Places,         \* poses
    Scenes,         \* sets of line colours a frame shows
    Messages,       \* decisions on the topic: [id, approved, nonce, until, genuine]
    LateralLimit, StopLimit,                   \* range classes
    MissionTimeout, Grace, Fresh, Stabilization,   \* control periods
    LineWait, LostGrace, Search,
    MaxTime         \* bound: periods modelled

Far == 4
Bad == 5
EmergencyLimit == 1
Sector == {"forward", "left", "right", "rear"}
Kind == Motion \cup {"wait_until_clear", "ask_human", "resume", "save_current_location",
                     "dwell", "safe_stop"}
Sensor == {"odometry", "scan", "camera"}
Never == Fresh + 2          \* the age of a sample that never came

ASSUME MissionAssumption ==
    /\ \A p \in Candidates :
           /\ Len(p) \in Nat \ {0} /\ DOMAIN p = 1..Len(p)
           /\ \A i \in DOMAIN p : p[i].kind \in Kind
    /\ \A sweep \in Sweeps :
           Sector \subseteq DOMAIN sweep /\ \A s \in DOMAIN sweep : sweep[s] \subseteq 0..Bad
    /\ {EmergencyLimit, LateralLimit, StopLimit} \subseteq 0..Far
    /\ {MissionTimeout, Grace, Fresh, Stabilization, LineWait, LostGrace, Search} \subseteq Nat
    /\ MaxTime \in Nat /\ MaxTime > MissionTimeout /\ MaxTime > Grace + 1

VARIABLES
    plan,           \* the compiled workflow's steps
    now, due,       \* the clock; the control timer has expired
    pose, scan, scene, age,      \* last samples and their ages (Fresh + 1: older than fresh)
    readySince, controlStarted,  \* MissionNode
    m,              \* MissionController: a record of its attributes
    cmd,            \* the last command sent
    written,        \* result_written
    used,           \* _used_nonces
    heard           \* history: genuine decisions that arrived in time

vars == <<plan, now, due, pose, scan, scene, age, readySince, controlStarted, m, cmd,
          written, used, heard>>
samples == <<pose, scan, scene>>
node    == <<readySince, controlStarted, written>>

-----------------------------------------------------------------------------
\* What the robot sees.

Measured(beams) == {b \in beams : b < Far}
Nearest(beams)  == Min(Measured(beams) \cup {Far})

\* sector_field(): the nearest return of each sector, of all, and the blind sectors.
SectorField(sweep) ==
    [near    |-> [s \in Sector |-> Nearest(sweep[s])],
     closest |-> Nearest(UNION {sweep[s] : s \in DOMAIN sweep}),
     blind   |-> {s \in Sector : sweep[s] # {} /\ sweep[s] \subseteq {Bad}}]

\* The sectors RangeField.blocking() and blind_for() consult.
Consulted(intent) ==
    CASE intent = "reverse" -> {"rear"}
      [] intent = "rotate"  -> Sector
      [] OTHER              -> {"forward"}

BlockedByRange(field, intent) ==
    \/ field.closest < EmergencyLimit
    \/ \E s \in Consulted(intent) : field.near[s] < StopLimit

Blocked(field, intent) ==
    \/ field.blind \cap Consulted(intent) # {}
    \/ field.closest < EmergencyLimit
    \/ \E s \in Consulted(intent) : field.near[s] < StopLimit

\* _obstacle_guard(): the sides count too, whatever the intent.
Guarded(intent) ==
    LET field == SectorField(scan) IN
    Blocked(field, intent) \/ \E s \in {"left", "right"} : field.near[s] < LateralLimit

-----------------------------------------------------------------------------
\* The controller: each operator gives the outcomes [m, cmd] of one call.

Terminal(c) == c.state \in {"completed", "failed", "cancelled"}

Out(c, command) == [m |-> c, cmd |-> command]

Fail(c, why) ==
    IF Terminal(c) THEN c ELSE [c EXCEPT !.state = "failed", !.reason = why]

StepFailure(c) ==
    {Out(Fail(c, IF plan[c.idx].onFailure = "request_replan" THEN "replan" ELSE "step"), "stop")}

\* _start_next_step(): what a step remembers is reset, the clock of its timeout too.
StartNext(c) ==
    LET fresh == [c EXCEPT !.idx = @ + 1, !.entered = now] IN
    IF fresh.idx > Len(plan) THEN [fresh EXCEPT !.state = "completed"]
    ELSE [fresh EXCEPT !.state = "active", !.lineAt = None, !.lineSeen = None,
                       !.origin = None, !.clearSince = None]

Complete(c) == {Out(StartNext(c), "stop")}

Navigate(c) ==
    IF Guarded("forward") THEN {Out(c, "stop")}
    ELSE IF pose = plan[c.idx].to THEN Complete(c)
    ELSE {Out(c, "rotate"), Out(c, "forward")}

\* _move_relative() and _turn_relative(): the origin is the pose of the first
\* unguarded step; the target is reached at another place.
Relative(c, intent) ==
    LET here == [c EXCEPT !.origin = IF @ = None THEN pose ELSE @] IN
    IF Guarded(intent) THEN {Out(c, "stop")}
    ELSE IF pose # here.origin THEN Complete(here)
    ELSE {Out(here, intent)}

FollowLine(c) ==
    LET step     == plan[c.idx]
        followed == IF c.lineAt = None THEN 0 ELSE now - c.lineAt
        lost     == now - c.lineSeen
    IN  IF Guarded("forward") THEN {Out(c, "stop")}
        ELSE IF /\ step.next # None /\ step.next \in scene
                /\ c.lineAt # None /\ followed >= step.hold
             THEN Complete(c)
        ELSE IF step.to \in scene
             THEN {Out([c EXCEPT !.lineAt = IF @ = None THEN now ELSE @, !.lineSeen = now],
                       "forward")}
        ELSE IF c.lineAt = None
             THEN IF now - c.entered > LineWait THEN StepFailure(c) ELSE {Out(c, "stop")}
        ELSE IF step.next # None /\ lost < Search THEN {Out(c, "forward")}
        ELSE IF lost < LostGrace THEN {Out(c, "stop")}
        ELSE IF step.next = None /\ followed >= step.hold THEN Complete(c)
        ELSE StepFailure(c)

WaitUntilClear(c) ==
    LET since == IF c.clearSince = None THEN now ELSE c.clearSince
        d     == [c EXCEPT !.clearSince = since]
    IN  IF Blocked(SectorField(scan), "forward") THEN {Out([c EXCEPT !.clearSince = None], "stop")}
        ELSE IF now - since >= plan[c.idx].hold THEN Complete(d)
        ELSE {Out(d, "stop")}

AskHuman(c) ==
    CASE c.decisions[plan[c.idx].to] = "none"   -> {Out(c, "stop")}
      [] c.decisions[plan[c.idx].to] = "denied" -> StepFailure(c)
      [] OTHER                                  -> Complete(c)

Resume(c) ==
    IF c.decisions[plan[c.idx].to] = "approved" THEN Complete(c) ELSE StepFailure(c)

\* _save_current_location(): the store may be missing, or refuse.
SaveLocation(c) == Complete(c) \cup StepFailure(c)

Hold(c) == IF now - c.entered >= plan[c.idx].hold THEN Complete(c) ELSE {Out(c, "stop")}

Dispatch(c) ==
    LET kind == plan[c.idx].kind IN
    CASE kind \in {"navigate", "navigate_to_location"} -> Navigate(c)
      [] kind = "move_relative"         -> Relative(c, plan[c.idx].to)
      [] kind = "turn_relative"         -> Relative(c, "rotate")
      [] kind = "follow_line"           -> FollowLine(c)
      [] kind = "wait_until_clear"      -> WaitUntilClear(c)
      [] kind = "ask_human"             -> AskHuman(c)
      [] kind = "resume"                -> Resume(c)
      [] kind = "save_current_location" -> SaveLocation(c)
      [] kind \in {"dwell", "safe_stop"} -> Hold(c)

Tick(c) ==
    LET d == IF c.state = "accepted" THEN StartNext(c) ELSE c IN
    IF Terminal(c) THEN {Out(c, "stop")}
    ELSE IF now > MissionTimeout THEN {Out(Fail(c, "mission_timeout"), "stop")}
    ELSE IF now - d.entered > plan[d.idx].timeout THEN StepFailure(d)
    ELSE Dispatch(d)

\* submit_human_decision(): only for the gate that is active, only once.
Submit(c, msg) ==
    IF /\ ~Terminal(c) /\ c.idx \in DOMAIN plan
       /\ plan[c.idx].kind = "ask_human" /\ plan[c.idx].to = msg.id
       /\ c.decisions[msg.id] = "none"
    THEN [c EXCEPT !.decisions[msg.id] = IF msg.approved THEN "approved" ELSE "denied"]
    ELSE c

-----------------------------------------------------------------------------
\* The node.

Required == IF Steps(plan, {"follow_line"}) # {} THEN Sensor ELSE Sensor \ {"camera"}
AllFresh == \A s \in Required : age[s] <= Fresh

SensorGateWaits(since) ==
    CASE controlStarted -> IF AllFresh THEN "ready" ELSE "fail_stale"
      [] OTHER -> IF AllFresh /\ now - since >= Stabilization THEN "ready" ELSE "wait"

SensorGate(since) ==
    CASE controlStarted -> IF AllFresh THEN "ready" ELSE "fail_stale"
      [] OTHER -> IF AllFresh /\ now - since >= Stabilization THEN "ready"
                  ELSE IF now > Grace THEN "fail_not_ready" ELSE "wait"

VerifiedLate(msg) == msg.genuine /\ msg.nonce \notin used

\* HumanDecisionAuthenticator.verify() accepts.
Verified(msg) == msg.genuine /\ msg.until >= now /\ msg.nonce \notin used

Init ==
    /\ plan \in {p \in Candidates : PlanPolicy(p)}
    /\ now = 0 /\ due = FALSE
    /\ pose = None /\ scan = None /\ scene = {}
    /\ age = [s \in Sensor |-> Never]
    /\ readySince = None /\ controlStarted = FALSE
    /\ m = [state |-> "accepted", idx |-> 0, entered |-> 0, lineAt |-> None,
            lineSeen |-> None, origin |-> None, clearSince |-> None, reason |-> "none",
            decisions |-> [g \in Gates(plan) |-> "none"]]
    /\ cmd = "stop" /\ written = FALSE
    /\ used = {} /\ heard = {}

Live == ~written       \* rclpy.shutdown() ends the callbacks

\* A control period goes by: the timer expires, every sample grows older.
Pass == /\ Live /\ now < MaxTime
        /\ now' = now + 1 /\ due' = TRUE
        /\ age' = [s \in Sensor |-> IF age[s] <= Fresh THEN age[s] + 1 ELSE age[s]]
        /\ UNCHANGED <<plan, samples, node, m, cmd, used, heard>>

Sampled(s) == Live /\ age' = [age EXCEPT ![s] = 0]
              /\ UNCHANGED <<plan, now, due, node, m, cmd, used, heard>>

OnOdometry == Sampled("odometry") /\ pose' \in Places /\ UNCHANGED <<scan, scene>>
OnScan     == Sampled("scan") /\ scan' \in Sweeps /\ UNCHANGED <<pose, scene>>
OnImage    == "camera" \in Required
              /\ Sampled("camera") /\ scene' \in Scenes /\ UNCHANGED <<pose, scan>>

\* _on_human_decision(): the nonce is used up by the verification, whether or
\* not the decision then meets its gate.
OnHumanDecision(msg) ==
    /\ Live /\ Steps(plan, {"ask_human"}) # {}
    /\ IF Verified(msg)
       THEN m' = Submit(m, msg) /\ used' = used \cup {msg.nonce}
       ELSE UNCHANGED <<m, used>>
    /\ heard' = IF msg.genuine /\ msg.until >= now THEN heard \cup {msg} ELSE heard
    /\ UNCHANGED <<plan, now, due, samples, age, node, cmd>>

\* _finish(): a stop, the result, the shutdown.
Finish(r) == /\ m' = r.m
             /\ cmd' = IF Terminal(r.m) THEN "stop" ELSE r.cmd
             /\ written' = Terminal(r.m)

ControlTick ==
    LET since    == IF ~AllFresh THEN None ELSE IF readySince = None THEN now ELSE readySince
        decision == SensorGate(IF since = None THEN now ELSE since)
    IN  /\ Live /\ due /\ due' = FALSE
        /\ readySince' = since
        /\ controlStarted' = (controlStarted \/ decision = "ready")
        /\ CASE decision = "ready" -> \E r \in Tick(m) : Finish(r)
             [] decision = "wait"  -> cmd' = "stop" /\ UNCHANGED <<m, written>>
             [] OTHER              -> Finish(Out(Fail(m, decision), "stop"))
        /\ UNCHANGED <<plan, now, samples, age, used, heard>>

Next == Pass \/ OnOdometry \/ OnScan \/ OnImage \/ ControlTick
        \/ \E msg \in Messages : OnHumanDecision(msg)

\* The timer fires and its callback runs: rclpy.spin() serves every callback.
Spec == Init /\ [][Next]_vars /\ WF_vars(Pass) /\ WF_vars(ControlTick)

-----------------------------------------------------------------------------
\* Properties.

\* The beams allow a motion: something was measured in its direction and nothing
\* within the stop distance, nothing beside it, nothing in reach of the robot.
BeamsAllow(sweep, directions) ==
    /\ \A s \in directions : /\ \A b \in sweep[s] : b >= StopLimit
                             /\ sweep[s] # {} => \E b \in sweep[s] : b # Bad
    /\ \A s \in {"left", "right"} : \A b \in sweep[s] : b >= LateralLimit
    /\ \A s \in DOMAIN sweep : \A b \in sweep[s] : b >= EmergencyLimit

\* Every command that moves the robot was computed from samples that are all fresh
\* and from a sweep that shows its direction measured and clear, for a step that
\* may give it (sector_field, _obstacle_guard and _control_tick together).
MovesOnlyMeasuredClear ==
    [][(due /\ ~due' /\ cmd' # "stop") =>
         /\ AllFresh
         /\ BeamsAllow(scan, IF cmd' = "reverse" THEN {"rear"}
                             ELSE IF plan[m'.idx].kind = "turn_relative" THEN Sector
                             ELSE {"forward"})
         /\ cmd' = "reverse" => plan[m'.idx].to = "reverse"]_vars

\* A mission gets past a gate of its plan only after a genuine approval of that
\* gate arrived before it expired: a denial, a replayed or a late message never
\* opens it (verify(), submit_human_decision() and _ask_human() together).
GatePassedByApproval ==
    \A i \in Steps(plan, {"ask_human"}) : m.idx > i /\ ~Terminal(m) =>
        \E msg \in heard : msg.id = plan[i].to /\ msg.approved

\* While the robot moves, every gate asked so far was approved and resumed: the
\* plan policy and the controller's two primitives close the gate between them.
MotionAfterResume ==
    cmd # "stop" => \A i \in Steps(plan, {"ask_human"}) : i < m.idx =>
        /\ m.decisions[plan[i].to] = "approved"
        /\ \E k \in (i + 1)..(m.idx - 1) : plan[k].kind = "resume" /\ plan[k].to = plan[i].to

\* The mission keeps what MissionContract promises: it ends once, standing still,
\* with the outcome its result reports, and it does end.
Contract == INSTANCE MissionContract WITH
    Outcome <- {"completed", "failed"},
    phase   <- IF Terminal(m) THEN m.state ELSE "open",
    moving  <- cmd # "stop",
    report  <- IF written THEN m.state ELSE "none"
KeepsContract == Contract!Spec
=============================================================================
