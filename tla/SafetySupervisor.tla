-------------------------- MODULE SafetySupervisor --------------------------
(***************************************************************************)
(* The emergency supervisor of ros2_safety_node.py: EmergencyStopSupervisor *)
(* and its SafetyWatchdog.                                                 *)
(*                                                                         *)
(* Two threads share the watchdog's fields without a lock: the ROS         *)
(* executor's, which runs one callback at a time, and the watchdog's,      *)
(* which polls. A callback or a poll is a sequence of steps here wherever  *)
(* the other thread can tell. The sensors, the Nav2 commands, the services *)
(* and the two state topics are the environment: their callbacks run in    *)
(* any order.                                                              *)
(***************************************************************************)
EXTENDS Naturals

CONSTANTS
    Timeout,    \* sensor_timeout_seconds and command_timeout_seconds, in ticks
    MaxClock,   \* bound: ticks of the clock
    CanReset,   \* whether the reset service is called
    NoReason        \* latched_reason is None

Sensor == {"odometry", "lidar"}
Source == Sensor \cup {"command"}
Reason == Source \cup {"emergency_stop"}    \* a source stands for its "_stale"
Thread == {"ros", "watchdog"}

ASSUME SupervisorAssumption ==
    Timeout \in Nat /\ MaxClock \in Nat /\ CanReset \in BOOLEAN /\ NoReason \notin Reason

VARIABLES
    clock,
    latched,              \* latched_reason
    armed,                \* goal_active
    receipt,              \* receipts; at a goal's start, the sensors' are its start
    commanded,            \* command_observed_during_goal
    output,               \* the last command on cmd_vel
    toldState, toldReason,   \* the last messages on the two state topics
    at,                   \* at[t]: place of thread t
    was,                  \* was[t]: was_latched, read when t began
    because,               \* because[t]: what t is about to latch or publish
    now,                  \* the watchdog's clock reading
    command,              \* the command the ROS thread has gated
    raced                 \* history: a reset ran in the middle of a poll

watch == <<latched, armed, receipt, commanded>>
told  == <<output, toldState, toldReason>>
local == <<at, was, because, now, command>>
safetyVars  == <<clock, latched, armed, receipt, commanded, output, toldState, toldReason,
           at, was, because, now, command, raced>>

Latched        == latched # NoReason
Moves(t, from, to) == at[t] = from /\ at' = [at EXCEPT ![t] = to]
Stay(t)        == at[t] = "idle" /\ UNCHANGED at

\* A callback or a poll is over, and its locals with it.
Return(t, from) ==
    /\ Moves(t, from, "idle")
    /\ was' = [was EXCEPT ![t] = FALSE] /\ because' = [because EXCEPT ![t] = NoReason]

\* SafetyWatchdog.latch(): the first reason is kept.
Latch(why) == IF Latched THEN latched ELSE why

-----------------------------------------------------------------------------
SafetyInit ==
    /\ clock = 0
    /\ latched = NoReason /\ armed = FALSE /\ commanded = FALSE
    /\ receipt = [s \in Source |-> 0]
    /\ output = "zero" /\ toldState = FALSE /\ toldReason = NoReason
    /\ at = [t \in Thread |-> "idle"] /\ was = [t \in Thread |-> FALSE]
    /\ because = [t \in Thread |-> NoReason]
    /\ now = 0 /\ command = "zero"
    /\ raced = FALSE

Tick ==
    /\ clock < MaxClock
    /\ clock' = clock + 1
    /\ UNCHANGED <<watch, told, local, raced>>

-----------------------------------------------------------------------------
(* Callbacks of the ROS thread.                                             *)

\* observe("odometry"), observe("lidar")
Observe(s) ==
    /\ Stay("ros")
    /\ receipt' = [receipt EXCEPT ![s] = clock]
    /\ UNCHANGED <<clock, latched, armed, commanded, told, was, because, now, command, raced>>

\* _gate_command(): the envelope reads the latch ...
GateCommand(wish) ==
    /\ Moves("ros", "idle", "gated")
    /\ command' = IF Latched THEN "zero" ELSE wish
    /\ UNCHANGED <<clock, watch, told, was, because, now, raced>>

\* ... observe_command() follows, and the command is published.
SendCommand ==
    /\ Return("ros", "gated")
    /\ command' = "zero"
    /\ receipt' = [receipt EXCEPT !["command"] = clock]
    /\ commanded' = (commanded \/ armed)
    /\ output' = command
    /\ UNCHANGED <<clock, latched, armed, toldState, toldReason, now, raced>>

\* _stop()
StopRequest ==
    /\ Moves("ros", "idle", "latch")
    /\ was' = [was EXCEPT !["ros"] = Latched]
    /\ because' = [because EXCEPT !["ros"] = "emergency_stop"]
    /\ UNCHANGED <<clock, watch, told, now, command, raced>>

\* _reset(): the latch is cleared, then the goal is forgotten, then the state
\* topic is told. The reason topic is not.
ResetStop ==
    /\ CanReset
    /\ Moves("ros", "idle", "disarm")
    /\ latched' = NoReason
    /\ raced' = (raced \/ at["watchdog"] # "idle")
    /\ UNCHANGED <<clock, armed, receipt, commanded, told, was, because, now, command>>

Disarm ==
    /\ Moves("ros", "disarm", "tell")
    /\ armed' = FALSE /\ commanded' = FALSE
    /\ UNCHANGED <<clock, latched, receipt, told, was, because, now, command, raced>>

\* update_goal_active()
UpdateGoal(active) ==
    /\ armed' = active
    /\ commanded' = (commanded /\ active /\ armed)
    /\ receipt' = [s \in Source |->
                      IF s \in Sensor /\ active /\ ~armed THEN clock ELSE receipt[s]]

\* _observe_execution_state()
ObserveExecution(active) ==
    /\ Stay("ros")
    /\ UpdateGoal(active)
    /\ UNCHANGED <<clock, latched, told, was, because, now, command, raced>>

\* _observe_fault_state(): an injected fault arms the watchdog, and the lost
\* source's window starts now (for "command", force_command_watchdog()).
ObserveFault(s) ==
    /\ Stay("ros")
    /\ armed' = TRUE
    /\ commanded' = (s = "command" \/ (commanded /\ armed))
    /\ receipt' = [q \in Source |->
                      IF q = s \/ (q \in Sensor /\ ~armed) THEN clock ELSE receipt[q]]
    /\ UNCHANGED <<clock, latched, told, was, because, now, command, raced>>

-----------------------------------------------------------------------------
(* _hold_stop(), every poll of the watchdog thread.                         *)

\* evaluate_transition() notes whether it is latched already.
PollStep ==
    /\ Moves("watchdog", "idle", "evaluate")
    /\ was' = [was EXCEPT !["watchdog"] = Latched]
    /\ UNCHANGED <<clock, watch, told, because, now, command, raced>>

\* evaluate(): what is latched stays; without a goal there is nothing to watch;
\* otherwise the clock is read.
Evaluate ==
    \/ /\ Latched
       /\ Moves("watchdog", "evaluate", "latch")
       /\ because' = [because EXCEPT !["watchdog"] = latched]
       /\ UNCHANGED <<clock, watch, told, was, now, command, raced>>
    \/ /\ ~Latched /\ ~armed
       /\ Return("watchdog", "evaluate")
       /\ UNCHANGED <<clock, watch, told, now, command, raced>>
    \/ /\ ~Latched /\ armed
       /\ Moves("watchdog", "evaluate", "check")
       /\ now' = clock
       /\ UNCHANGED <<clock, watch, told, was, because, command, raced>>

Age(s, time) == IF receipt[s] > time THEN 0 ELSE time - receipt[s]

Watched == Sensor \cup (IF commanded THEN {"command"} ELSE {})
Overdue == {s \in Watched : Age(s, clock) > Timeout}

\* Mutant: off by one at the timeout.
StaleLate == {s \in Watched : receipt[s] > now \/ Age(s, now) > Timeout + 1}

\* A receipt that is later than the clock reading counts as stale.
Stale == {s \in Watched : receipt[s] > now \/ Age(s, now) > Timeout}

First(sources) ==
    IF "odometry" \in sources THEN "odometry" ELSE IF "lidar" \in sources THEN "lidar"
    ELSE "command"

CheckReceipts ==
    \/ /\ Stale = {}
       /\ Return("watchdog", "check")
       /\ now' = 0
       /\ UNCHANGED <<clock, watch, told, command, raced>>
    \/ /\ Stale # {}
       /\ Moves("watchdog", "check", "latch")
       /\ now' = 0
       /\ latched' = Latch(First(Stale))
       /\ because' = [because EXCEPT !["watchdog"] = latched']
       /\ UNCHANGED <<clock, armed, receipt, commanded, told, was, command, raced>>

-----------------------------------------------------------------------------
(* _latch(), on either thread.                                              *)

LatchStep(t) ==
    /\ Moves(t, "latch", IF was[t] THEN "hold" ELSE "reason")
    /\ latched' = Latch(because[t])
    /\ because' = [because EXCEPT ![t] = latched']
    /\ UNCHANGED <<clock, armed, receipt, commanded, told, was, now, command, raced>>

PublishReason(t) ==
    /\ Moves(t, "reason", "state")
    /\ toldReason' = because[t]
    /\ UNCHANGED <<clock, watch, output, toldState, was, because, now, command, raced>>

\* _publish_state(), for a latch or for a reset.
PublishState(t) ==
    /\ \/ Moves(t, "state", "hold") /\ UNCHANGED <<was, because>>
       \/ Return(t, "tell")
    /\ toldState' = Latched
    /\ UNCHANGED <<clock, watch, output, toldReason, now, command, raced>>

Hold(t) ==
    /\ Return(t, "hold")
    /\ output' = IF Latched THEN "zero" ELSE output
    /\ UNCHANGED <<clock, watch, toldState, toldReason, now, command, raced>>

LatchSteps(t) == LatchStep(t) \/ PublishReason(t) \/ PublishState(t) \/ Hold(t)

-----------------------------------------------------------------------------
WatchdogStep == PollStep \/ Evaluate \/ CheckReceipts \/ LatchSteps("watchdog")
RosContinues == SendCommand \/ Disarm \/ LatchSteps("ros")

SafetyNext ==
    \/ Tick \/ WatchdogStep \/ RosContinues
    \/ StopRequest \/ ResetStop
    \/ \E s \in Sensor : Observe(s)
    \/ \E wish \in {"zero", "moving"} : GateCommand(wish)
    \/ \E active \in BOOLEAN : ObserveExecution(active)
    \/ \E s \in Source : ObserveFault(s)

-----------------------------------------------------------------------------
Clock == 0 .. MaxClock

\* Every variable stays in its type.
SafetyTypeOK ==
    /\ clock \in Clock /\ now \in Clock
    /\ latched \in Reason \cup {NoReason} /\ armed \in BOOLEAN /\ commanded \in BOOLEAN
    /\ receipt \in [Source -> Clock]
    /\ output \in {"zero", "moving"} /\ command \in {"zero", "moving"}
    /\ toldState \in BOOLEAN /\ toldReason \in Reason \cup {NoReason}
    /\ at \in [Thread -> {"idle", "gated", "disarm", "tell", "evaluate", "check",
                          "latch", "reason", "state", "hold"}]
    /\ was \in [Thread -> BOOLEAN] /\ because \in [Thread -> Reason \cup {NoReason}]
    /\ raced \in BOOLEAN

\* A moving command that slipped past the latch is overwritten by the polls
\* that follow: the robot is held at zero until a reset.
StopHolds == Latched ~> output = "zero" \/ ~Latched

\* The watchdog catches every input that stays silent in an active goal.
DropoutIsCaught ==
    \A s \in Source : (armed /\ s \in Overdue) ~> (Latched \/ ~armed \/ s \notin Overdue)

\* What the state topics say, when neither thread is in the middle of anything:
\* the executor that follows them learns of every latch, and of its reason.
ToldTheLatch ==
    (\A t \in Thread : at[t] = "idle") =>
        /\ toldState = Latched
        /\ Latched => toldReason = latched

\* It holds unless a reset ran in the middle of a poll, which may latch again
\* what the reset cleared, and then tells nobody.
TopicsTellTheLatch == ~raced => ToldTheLatch

\* A silent input latches, what is latched holds the robot, and the topics tell of it.
SafetyActs == []TopicsTellTheLatch /\ DropoutIsCaught /\ StopHolds
=============================================================================
