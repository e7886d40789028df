------------------------------ MODULE BridgeGuard ------------------------------
(***************************************************************************)
(* The guard in front of ros_gz_bridge (bridge_guard.py): a termination    *)
(* signal is held back until the bridge has finished its start-up, then    *)
(* forwarded once; a second one, or a shutdown that takes too long, kills  *)
(* the bridge's process group.                                             *)
(*                                                                         *)
(* Threads: the signal handler, which only records; the main loop; the     *)
(* relay of the bridge's output. Time is what the code compares: whether   *)
(* the start-up deadline, the quiet period since the last marker, and the  *)
(* grace period have passed.                                               *)
(***************************************************************************)
EXTENDS Naturals, Sequences

CONSTANTS
    ExpectedMarkers,  \* sets of bridges asked for; 0: any one marker will do
    MaxMarkers,       \* bound: lines that announce a bridge
    MaxSignals        \* bound: termination signals

ASSUME GuardAssumption ==
    ExpectedMarkers \subseteq Nat /\ MaxMarkers \in Nat /\ MaxSignals \in Nat

VARIABLES
    expected,      \* guard.expected_markers
    main,            \* the main loop
    inbox,         \* TerminationSignalInbox: how many signals wait
    signals,       \* how many were recorded
    count,         \* _signal_count
    pending,       \* _pending_signal is set
    passed,        \* _forwarded
    markers,       \* _marker_count
    calm,          \* the quiet period has passed since the last marker
    deadline,      \* the start-up deadline has passed
    forceFirst,    \* force_before_spawn
    bridge,        \* the child: none, up, asked (to end), gone
    said, relayed,    \* markers it printed, and those the relay has read
    relay,         \* the relay thread: reading, or about to forward
    grace,         \* the shutdown deadline: unset, running, over
    killed,        \* _forced
    sent,          \* history: what was sent to the group, and when it was early
    afterEnd       \* history: a signal went to a group whose leader was reaped

mainVars  == <<main, inbox, count, forceFirst>>
gateVars  == <<pending, passed>>
guardVars == <<expected, main, inbox, signals, count, pending, passed, markers, calm, deadline,
               forceFirst, bridge, said, relayed, relay, grace, killed, sent, afterEnd>>

GuardInit ==
    /\ expected \in ExpectedMarkers
    /\ main = "before" /\ inbox = 0 /\ signals = 0 /\ count = 0
    /\ pending = FALSE /\ passed = FALSE /\ markers = 0
    /\ calm = FALSE /\ deadline = FALSE
    /\ forceFirst = FALSE /\ bridge = "none" /\ said = 0 /\ relayed = 0
    /\ relay = "reading" /\ grace = "unset" /\ killed = FALSE
    /\ sent = {} /\ afterEnd = FALSE

-----------------------------------------------------------------------------
\* _ready_unlocked()
Started(seen, still) ==
    /\ IF expected > 0 THEN seen >= expected ELSE seen > 0
    /\ seen > 0 /\ still

\* _take_forward_unlocked(): whether the pending signal goes now.
Takes(held, seen, still) == held /\ ~passed /\ (Started(seen, still) \/ deadline)

\* ProcessGroupSupervisor._send_unlocked(): the group of a leader that was reaped
\* may be nobody's, or another one's.
Signal(what) ==
    /\ sent' = sent \cup {what}
    /\ afterEnd' = (afterEnd \/ bridge = "reaped")
    /\ bridge' = IF bridge = "reaped" THEN bridge
                 ELSE IF what = "kill" THEN "gone"
                 ELSE IF bridge = "up" THEN "asked" ELSE bridge

\* supervisor.forward()
Forward ==
    /\ Signal("term")
    /\ grace' = IF grace = "unset" THEN "running" ELSE grace
    /\ UNCHANGED killed

\* supervisor.force()
ForceGroup ==
    /\ killed' = TRUE
    /\ IF killed THEN UNCHANGED <<sent, afterEnd, bridge>> ELSE Signal("kill")
    /\ UNCHANGED grace

NothingSent == UNCHANGED <<bridge, grace, killed, sent, afterEnd>>

\* guard.handle_signal() of the first signal in the inbox, without its forwarding
\* when there is nobody to forward to yet.
HandleSignal ==
    /\ inbox > 0 /\ inbox' = inbox - 1 /\ count' = count + 1
    /\ \/ /\ count > 0
          /\ IF bridge = "none" THEN forceFirst' = TRUE /\ NothingSent ELSE ForceGroup /\ UNCHANGED forceFirst
          /\ UNCHANGED gateVars
       \/ /\ count = 0 /\ pending' = TRUE /\ UNCHANGED forceFirst
          /\ IF Started(markers, calm) /\ ~passed THEN passed' = TRUE /\ Forward
             ELSE UNCHANGED passed /\ NothingSent
    /\ UNCHANGED <<expected, main, signals, markers, calm, deadline, said, relayed, relay>>

Drain == main \in {"before", "loop", "last"} /\ HandleSignal

\* The inbox is empty: the bridge is started, with what was decided before it.
SpawnBridge ==
    /\ main = "before" /\ inbox = 0
    /\ main' = "loop"
    /\ bridge' = IF forceFirst THEN "gone" ELSE "up"
    /\ killed' = forceFirst
    /\ sent' = IF forceFirst THEN {"kill"} ELSE {}
    /\ UNCHANGED <<expected, inbox, signals, count, gateVars, markers, calm, deadline, forceFirst,
                   said, relayed, relay, grace, afterEnd>>

SpawnFails ==
    /\ main = "before" /\ inbox = 0
    /\ main' = "done"
    /\ UNCHANGED <<expected, inbox, signals, count, gateVars, markers, calm, deadline, forceFirst,
                   bridge, said, relayed, relay, grace, killed, sent, afterEnd>>

\* Mutant: the deadline of the start-up is not looked at.
GuardTickReady ==
    /\ main = "loop" /\ inbox = 0 /\ bridge \in {"up", "asked"}
    /\ pending /\ ~passed /\ Started(markers, calm)
    /\ passed' = TRUE /\ Forward
    /\ UNCHANGED <<expected, mainVars, signals, pending, markers, calm, deadline, said, relayed, relay>>

\* The rest of a turn: guard.tick(), then supervisor.tick().
GuardTick ==
    /\ main = "loop" /\ inbox = 0 /\ bridge \in {"up", "asked"}
    /\ Takes(pending, markers, calm)
    /\ passed' = TRUE /\ Forward
    /\ UNCHANGED <<expected, mainVars, signals, pending, markers, calm, deadline, said, relayed, relay>>

GraceIsOver ==
    /\ main = "loop" /\ grace = "over" /\ ~killed /\ bridge \in {"up", "asked"}
    /\ ForceGroup
    /\ UNCHANGED <<expected, mainVars, signals, gateVars, markers, calm, deadline, said, relayed, relay>>

\* child.poll() is not None: reaped, then a last look at the inbox.
Reap ==
    /\ main = "loop" /\ bridge = "gone"
    /\ main' = "last" /\ bridge' = "reaped"
    /\ UNCHANGED <<expected, inbox, signals, count, gateVars, markers, calm, deadline, forceFirst,
                   said, relayed, relay, grace, killed, sent, afterEnd>>

GuardReturns ==
    /\ main = "last" /\ inbox = 0
    /\ main' = "done"
    /\ UNCHANGED <<expected, inbox, signals, count, gateVars, markers, calm, deadline, forceFirst,
                   bridge, said, relayed, relay, grace, killed, sent, afterEnd>>

Main == Drain \/ SpawnBridge \/ GuardTick \/ GraceIsOver \/ Reap \/ GuardReturns

-----------------------------------------------------------------------------
\* guard.observe_output(): one more line, under the lock; the forwarding after it.
RelayReads ==
    /\ relay = "reading" /\ relayed < said /\ main # "done"
    /\ relayed' = relayed + 1 /\ markers' = markers + 1 /\ calm' = FALSE
    /\ IF Takes(pending, markers + 1, FALSE)
       THEN passed' = TRUE /\ relay' = "forward" ELSE UNCHANGED <<passed, relay>>
    /\ UNCHANGED <<expected, mainVars, signals, pending, deadline, bridge, said, grace, killed, sent,
                   afterEnd>>

RelayForwards ==
    /\ relay = "forward" /\ main # "done" /\ relay' = "reading"
    /\ Forward
    /\ UNCHANGED <<expected, mainVars, signals, gateVars, markers, calm, deadline, said, relayed>>

Relay == RelayReads \/ RelayForwards

Arrives ==
    /\ signals < MaxSignals /\ main # "done"
    /\ signals' = signals + 1 /\ inbox' = inbox + 1
    /\ UNCHANGED <<expected, main, count, gateVars, markers, calm, deadline, forceFirst, bridge, said,
                   relayed, relay, grace, killed, sent, afterEnd>>

\* The bridge prints a marker, or ends: by itself, or because it was asked to.
Prints ==
    /\ bridge = "up" /\ said < MaxMarkers /\ said' = said + 1
    /\ UNCHANGED <<expected, mainVars, signals, gateVars, markers, calm, deadline, bridge, relayed, relay,
                   grace, killed, sent, afterEnd>>

Ends ==
    /\ bridge \in {"up", "asked"} /\ bridge' = "gone"
    /\ UNCHANGED <<expected, mainVars, signals, gateVars, markers, calm, deadline, said, relayed, relay,
                   grace, killed, sent, afterEnd>>

Quiet ==
    /\ markers > 0 /\ ~calm /\ calm' = TRUE
    /\ UNCHANGED <<expected, mainVars, signals, gateVars, markers, deadline, bridge, said, relayed, relay,
                   grace, killed, sent, afterEnd>>

DeadlinePasses ==
    /\ ~deadline /\ deadline' = TRUE
    /\ UNCHANGED <<expected, mainVars, signals, gateVars, markers, calm, bridge, said, relayed, relay,
                   grace, killed, sent, afterEnd>>

GracePasses ==
    /\ grace = "running" /\ grace' = "over"
    /\ UNCHANGED <<expected, mainVars, signals, gateVars, markers, calm, deadline, bridge, said, relayed,
                   relay, killed, sent, afterEnd>>

Deadlines == DeadlinePasses \/ GracePasses

GuardNext == Main \/ SpawnFails \/ Relay \/ Arrives \/ Prints \/ Ends \/ Quiet \/ Deadlines

-----------------------------------------------------------------------------
\* SIGTERM goes when every announced bridge was seen or the deadline has passed,
\* SIGKILL when somebody insists or the grace period is over.
GuardKeeps ==
    /\ "term" \in sent => deadline \/ (markers > 0 /\ markers >= expected)
    /\ "kill" \in sent => count > 1 \/ grace = "over"

\* The bridge is protected in its start-up, but not for ever (bridge_guard.py:1
\* "Protect ros_gz_bridge startup from concurrent rclcpp shutdown signals"); and a
\* signal that was heard ends the bridge and the guard, however the start-up goes
\* and whatever the bridge does with SIGTERM.
GuardKeepsAndEnds ==
    /\ []GuardKeeps
    /\ signals > 0 ~> main = "done"
===============================================================================
