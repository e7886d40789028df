--------------------------- MODULE ShortcutControl ---------------------------
(***************************************************************************)
(* Workflow shortcuts: the loopback gateway of input_gateway.py, the       *)
(* dispatcher of input_runtime.py and the node of shortcut_ros2_node.py.   *)
(*                                                                         *)
(* A Caller is one request thread of the gateway: it queues an event and   *)
(* waits for the control thread's acknowledgement, or gives up. Other       *)
(* events arrive on /flyto/input_event, between two ticks.                 *)
(* A tick drains the queue, handles what it drained, lets the dead-man     *)
(* expire, and only then drives or ends the mission.                       *)
(*                                                                         *)
(* Time is the age of the last input that counted, in ticks of a clock of  *)
(* its own; what a mission does in a tick is left open.                    *)
(***************************************************************************)
EXTENDS Naturals, Sequences, FiniteSets

CONSTANTS
    Caller,             \* request threads
    MaxMessages,        \* bound on the messages on the topic
    Event, TopicEvent,  \* what callers post, and what comes on the topic:
                        \* [id, phase, source, control, session, sequence]
    Bindings,           \* bound <<source, control>> pairs
    Address,            \* what id() may return for a controller
    MaxPending,         \* MAX_PENDING_INPUTS
    MaxDrain,           \* events drained in a tick
    MaxSeen,            \* event ids remembered before all are forgotten
    Deadman,            \* deadman_timeout_seconds
    None

ASSUME ShortcutAssumption ==
    /\ None \notin Caller \cup Event
    /\ None \notin [binding : Bindings, sequence : Nat, session : {e.session : e \in Event \cup TopicEvent}]
    /\ \A e \in Event \cup TopicEvent : e.phase \in {"press", "heartbeat", "release", "disconnect"}
                        /\ e.sequence \in Nat \ {0}
    /\ {MaxPending, MaxDrain, MaxSeen, Deadman} \subseteq Nat \ {0} /\ MaxMessages \in Nat

VARIABLES
    pending,        \* _pending: callers whose events wait for the control thread
    at, event,      \* at[c]: place of caller c; event[c]: what it posts
    answered,       \* callers whose _response is set
    abandoned,      \* callers whose event is _abandoned
    heard,          \* messages delivered so far
    ctl,            \* place of the control thread
    taken, batch,   \* in drain(): gets so far, and the callers drained
    active,         \* dispatcher._active without its time
    age, tickAge,   \* age of last_seen_at, now and at the time the tick began
    seen,           \* _seen_event_ids
    mission,        \* runtime.controller
    archived,       \* archived_controller_ids
    cmd,            \* the last velocity sent
    counted, twice  \* history: events that held the active binding; one did so twice

callers == <<at, event, answered, abandoned>>
inbox   == <<taken, batch>>
input   == <<active, age, tickAge, seen, counted, twice>>
outcome == <<mission, archived>>
vars    == <<pending, callers, heard, ctl, inbox, input, outcome, cmd>>

BindingOf(e) == <<e.source, e.control>>

-----------------------------------------------------------------------------
Init ==
    /\ pending = <<>>
    /\ at = [c \in Caller |-> "idle"] /\ event = [c \in Caller |-> None]
    /\ answered = {} /\ abandoned = {}
    /\ heard = 0
    /\ ctl = "idle" /\ taken = 0 /\ batch = <<>>
    /\ active = None /\ age = 0 /\ tickAge = 0 /\ seen = {}
    /\ counted = {} /\ twice = FALSE
    /\ mission = [state |-> "none", address |-> None, binding |-> None, by |-> None]
    /\ archived = {}
    /\ cmd = "stop"

-----------------------------------------------------------------------------
(* A request thread: do_POST().                                             *)

\* Mutant: the queue has no bound.
PostUnbounded(c, e) ==
    /\ at[c] = "idle" /\ ctl # "down"
    /\ event' = [event EXCEPT ![c] = e]
    /\ pending' = Append(pending, c) /\ at' = [at EXCEPT ![c] = "wait"]
    /\ UNCHANGED <<answered, abandoned, heard, ctl, inbox, input, outcome, cmd>>

\* put_nowait(), or queue.Full.
Post(c, e) ==
    /\ at[c] = "idle" /\ ctl # "down"
    /\ \/ /\ Len(pending) < MaxPending
          /\ event' = [event EXCEPT ![c] = e]
          /\ pending' = Append(pending, c) /\ at' = [at EXCEPT ![c] = "wait"]
       \/ /\ Len(pending) = MaxPending
          /\ at' = [at EXCEPT ![c] = "told"]
          /\ UNCHANGED <<pending, event>>
    /\ UNCHANGED <<answered, abandoned, heard, ctl, inbox, input, outcome, cmd>>

\* wait(): the response, or none when ack_timeout_seconds have passed ...
Wait(c) ==
    /\ at[c] = "wait"
    /\ at' = [at EXCEPT ![c] = IF c \in answered THEN "told" ELSE "giveup"]
    /\ answered' = answered \ {c}
    /\ UNCHANGED <<pending, event, abandoned, heard, ctl, inbox, input, outcome, cmd>>

\* ... and then abandon(), which a response in the meantime prevents; what it
\* returns is not looked at.
Abandon(c) ==
    /\ at[c] = "giveup"
    /\ abandoned' = IF c \in answered THEN abandoned ELSE abandoned \cup {c}
    /\ at' = [at EXCEPT ![c] = "timedout"]
    /\ UNCHANGED <<pending, event, answered, heard, ctl, inbox, input, outcome, cmd>>

-----------------------------------------------------------------------------
(* Results: _archive() knows a controller by its address, id().            *)

\* The result of m goes to the file, unless m runs or its address is known.
Archive(m) == archived' = archived \cup (IF m.state = "ended" THEN {m.address} ELSE {})

\* Completed, failed or cancelled: a terminal mission stays as it ended.
Ended(m) == IF m.state = "running" THEN [m EXCEPT !.state = "ended"] ELSE m

-----------------------------------------------------------------------------
(* The control thread: ShortcutDispatcher.handle() and _apply().            *)

\* _remember_event(): at the bound all are forgotten.
Remember(e) == seen' = (IF Cardinality(seen) >= MaxSeen THEN {} ELSE seen) \cup {e.id}

InSession(e) == active # None /\ active.binding = BindingOf(e) /\ active.session = e.session

\* Mutant: the same sequence number counts again.
NewerOrSame(e) == InSession(e) /\ e.sequence >= active.sequence

Newer(e) == InSession(e) /\ e.sequence > active.sequence

Starts(e) == e.phase = "press" /\ BindingOf(e) \in Bindings /\ active = None
Holds(e)  == e.phase = "heartbeat" /\ BindingOf(e) \in Bindings /\ Newer(e)
Stops(e)  ==
    \/ e.phase = "release" /\ BindingOf(e) \in Bindings /\ Newer(e)
    \/ e.phase = "disconnect" /\ active # None /\ active.binding[1] = e.source

\* A new controller; the old one is still there, so its address is another.
Begin(e, who) ==
    /\ Starts(e)
    /\ active' = [binding |-> BindingOf(e), session |-> e.session, sequence |-> e.sequence]
    /\ age' = 0 /\ tickAge' = 0
    /\ \E a \in Address \ {mission.address} :
          mission' = [state |-> "running", address |-> a, binding |-> BindingOf(e), by |-> who]
    /\ counted' = {e.id} /\ UNCHANGED twice

\* Mutant: the old controller's result is left to the next tick.
StartAlone(e, who) == Begin(e, who) /\ UNCHANGED archived

StartWorkflow(e, who) == Begin(e, who) /\ Archive(mission)

Keepalive(e) ==
    /\ Holds(e)
    /\ active' = [active EXCEPT !.sequence = e.sequence]
    /\ age' = 0 /\ tickAge' = 0
    /\ counted' = counted \cup {e.id} /\ twice' = (twice \/ e.id \in counted)
    /\ UNCHANGED outcome

SafeStop(e) ==
    /\ Stops(e)
    /\ active' = None /\ age' = 0 /\ tickAge' = 0
    /\ mission' = Ended(mission)
    /\ UNCHANGED <<counted, twice, archived>>

\* _handle_input() up to the acknowledgement.
Handle(e, who) ==
    LET unchanged == UNCHANGED <<active, age, tickAge, counted, twice, outcome>>
    IN  \/ e.id \in seen /\ unchanged /\ UNCHANGED seen
        \/ /\ e.id \notin seen
           /\ Remember(e)
           /\ \/ StartWorkflow(e, who) \/ Keepalive(e) \/ SafeStop(e)
              \/ ~(Starts(e) \/ Holds(e) \/ Stops(e)) /\ unchanged

\* _on_ros_input_event(), a callback of the same thread.
Hear(e) ==
    /\ ctl = "idle" /\ heard < MaxMessages
    /\ heard' = heard + 1
    /\ Handle(e, None)
    /\ UNCHANGED <<pending, callers, ctl, inbox, cmd>>

-----------------------------------------------------------------------------
(* _control_tick().                                                         *)

Tick ==
    /\ ctl = "idle" /\ ctl' = "drain"
    /\ tickAge' = age
    /\ UNCHANGED <<pending, callers, heard, inbox, active, age, seen, counted, twice,
                   outcome, cmd>>

\* The control thread is done with c's event.
Forget(c) == event' = [event EXCEPT ![c] = None] /\ abandoned' = abandoned \ {c}

\* drain(): an abandoned press is dropped, anything else is delivered.
Drain ==
    /\ ctl = "drain"
    /\ \/ /\ taken < MaxDrain /\ pending # <<>>
          /\ LET c == Head(pending) IN
                IF c \in abandoned /\ event[c].phase = "press"
                THEN Forget(c) /\ UNCHANGED batch
                ELSE batch' = Append(batch, c) /\ UNCHANGED <<event, abandoned>>
          /\ pending' = Tail(pending) /\ taken' = taken + 1 /\ UNCHANGED ctl
       \/ /\ taken = MaxDrain \/ pending = <<>>
          /\ ctl' = "handle" /\ UNCHANGED <<pending, inbox, event, abandoned>>
    /\ UNCHANGED <<at, answered, heard, input, outcome, cmd>>

HandleNext ==
    /\ ctl = "handle" /\ batch # <<>> /\ ctl' = "acknowledge"
    /\ Handle(event[Head(batch)], Head(batch))
    /\ UNCHANGED <<pending, callers, heard, inbox, cmd>>

\* acknowledge(): no response to a caller that gave up.
Acknowledge ==
    /\ ctl = "acknowledge" /\ ctl' = "handle"
    /\ LET c == Head(batch) IN
          /\ answered' = IF c \in abandoned THEN answered ELSE answered \cup {c}
          /\ Forget(c)
    /\ batch' = Tail(batch)
    /\ UNCHANGED <<pending, at, heard, taken, input, outcome, cmd>>

\* poll() of the dispatcher, with the time the tick began.
Expired == active # None /\ tickAge > Deadman

\* Mutant: the dead-man ends the binding and not the mission.
StillMission == mission

\* poll() of the runtime: the mission the rest of the tick finds.
PolledMission == IF Expired THEN Ended(mission) ELSE mission

\* The rest of the tick: the dead-man first, then what becomes of the mission
\* (sensors that are late or stale cancel it), what is sent, and whether a result
\* is written.
Update ==
    /\ ctl = "handle" /\ batch = <<>> /\ ctl' = "idle"
    /\ IF Expired THEN active' = None /\ age' = 0 ELSE UNCHANGED <<active, age>>
    /\ \/ PolledMission.state = "none" /\ cmd' = "stop" /\ UNCHANGED outcome
       \/ PolledMission.state = "ended" /\ cmd' = "stop" /\ mission' = PolledMission /\ Archive(PolledMission)
       \/ PolledMission.state = "running" /\ cmd' \in {"stop", "move"} /\ UNCHANGED outcome
       \/ PolledMission.state = "running" /\ cmd' = "stop"
          /\ mission' = Ended(mission) /\ Archive(Ended(mission))
    /\ taken' = 0 /\ tickAge' = 0
    /\ UNCHANGED <<pending, callers, heard, batch, seen, counted, twice>>

\* destroy_node(): after a signal, or enough completed workflows. The stop is sent
\* only while ROS is still up, which a signal ends first.
Shutdown ==
    /\ ctl = "idle" /\ ctl' = "down"
    /\ cmd' \in {cmd, "stop"}
    /\ mission' = Ended(mission) /\ Archive(Ended(mission))
    /\ UNCHANGED <<pending, callers, heard, inbox, input>>

-----------------------------------------------------------------------------
Pass ==
    /\ active # None /\ age <= Deadman
    /\ age' = age + 1
    /\ UNCHANGED <<pending, callers, heard, ctl, inbox, active, tickAge, seen, counted, twice,
                   outcome, cmd>>

Control == Tick \/ Drain \/ HandleNext \/ Acknowledge \/ Update

Next ==
    \/ \E c \in Caller : Wait(c) \/ Abandon(c) \/ \E e \in Event : Post(c, e)
    \/ \E e \in TopicEvent : Hear(e)
    \/ Control \/ Shutdown \/ Pass

Spec == Init /\ [][Next]_vars

-----------------------------------------------------------------------------
\* Every variable stays in its type; the queue and a tick's share of it are
\* bounded, and a caller is in one of them only while it may still be handled.
TypeOK ==
    /\ pending \in Seq(Caller) /\ Len(pending) <= MaxPending
    /\ at \in [Caller -> {"idle", "wait", "giveup", "told", "timedout"}]
    /\ event \in [Caller -> Event \cup {None}]
    /\ answered \subseteq Caller /\ abandoned \subseteq Caller
    /\ heard \in 0 .. MaxMessages
    /\ ctl \in {"idle", "drain", "handle", "acknowledge", "down"}
    /\ taken \in 0 .. MaxDrain /\ batch \in Seq(Caller) /\ Len(batch) <= taken
    /\ active \in {None} \cup [binding : Bindings, sequence : Nat,
                               session : {e.session : e \in Event \cup TopicEvent}]
    /\ age \in 0 .. Deadman + 1 /\ tickAge \in 0 .. Deadman + 1
    /\ seen \subseteq {e.id : e \in Event \cup TopicEvent} /\ Cardinality(seen) <= MaxSeen
    /\ counted \subseteq {e.id : e \in Event \cup TopicEvent} /\ twice \in BOOLEAN
    /\ mission \in [state : {"none", "running", "ended"},
                   address : Address \cup {None}, binding : Bindings \cup {None},
                   by : Caller \cup {None}]
    /\ archived \subseteq Address
    /\ cmd \in {"stop", "move"}

\* "release, input disconnect, or a missing heartbeat cancels the active mission
\* before the next controller update": a tick that moves the robot moves it for
\* a binding still held, whose last input was no older than the dead-man when
\* the tick began.
MotionIsHeld ==
    [][Update /\ cmd' = "move" =>
          active' # None /\ active'.binding = mission.binding /\ tickAge <= Deadman]_vars

\* A heartbeat that is delivered twice extends the dead-man once, also after its
\* id was forgotten.
HeartbeatCountsOnce == ~twice

\* A mission does not outlive its inputs: callers and messages are finite, so it
\* ends, whatever it does by itself.
MissionEnds == mission.state = "running" ~> mission.state # "running"

\* The result of a mission is in the file, under its address, when another mission
\* takes its place and when the node is down: also of one that was released, and
\* replaced, between two ticks.
ResultOutlivesMission ==
    [][mission.state # "none" /\ (mission'.address # mission.address \/ ctl' = "down") =>
          mission.address \in archived']_vars

\* A mission ends, and what came of it stays on file.
MissionIsAccountedFor == MissionEnds /\ ResultOutlivesMission
=============================================================================
