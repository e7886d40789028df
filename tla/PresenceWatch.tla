---------------------------- MODULE PresenceWatch ----------------------------
(***************************************************************************)
(* The presence watch of an execution host (adapter_provider.py): one      *)
(* light connection that says whether the robot is there.                  *)
(*                                                                         *)
(* Threads: the watch, which sleeps on one event; the reader of the        *)
(* connection, which stores readings and tells of a drop; the delivery of  *)
(* graph events; the host's close(); an operator who refreshes the link of *)
(* the watch's adapter (reconnect_resource()). All but the watch set the   *)
(* event, the watch clears it.                                             *)
(*                                                                         *)
(* Time is what the code compares: how far the silence since the last      *)
(* reading is from SILENT_SECONDS. The link is direct, without a managed   *)
(* forward, whose return would wake the watch as well.                     *)
(***************************************************************************)
EXTENDS Naturals

CONSTANTS
    MaxTurns,      \* bound: how often the server, and the robot, come or go
    MaxRefreshes   \* bound: operator refreshes

ASSUME PresenceAssumption == MaxTurns \in Nat /\ MaxRefreshes \in Nat

VARIABLES
    served,        \* rosbridge answers
    talking,       \* the robot behind it publishes odometry
    turns,         \* how often these two changed
    adapter,       \* held_adapter: built
    linked,        \* adapter.connected
    silence,       \* since the last reading, or the connection: short, near, long
    heard,         \* odometry is among _heard_kinds
    reading,       \* the reader, between the time it notes and the store: fresh, late
    news,          \* a graph event is on its way to the watch
    fell,          \* the drop was noted, its listeners not yet told
    changed,       \* _changed
    stopping,      \* _stop
    watcher,         \* the watch's place
    unreachable, silent,
    refresher,     \* the operator: place, and refreshes left
    missed, slipped, repaired   \* history: the three ways a wake-up gets lost

worldVars    == <<served, talking, turns>>
linkVars     == <<adapter, linked, silence, heard, reading, news, fell>>
verdictVars  == <<unreachable, silent>>
historyVars  == <<missed, slipped, repaired>>
presenceVars == <<worldVars, linkVars, changed, stopping, watcher, verdictVars, refresher, historyVars>>

\* _init_observation_state(): nothing heard, nothing to tell.
NothingHeard ==
    linked = FALSE /\ silence = "short" /\ heard = FALSE /\ reading = "none" /\ news = FALSE /\ fell = FALSE

PresenceInit ==
    /\ served \in BOOLEAN /\ talking \in BOOLEAN
    /\ turns = 0
    /\ adapter = FALSE /\ NothingHeard
    /\ changed = FALSE /\ stopping = FALSE /\ watcher = "top"
    /\ unreachable = FALSE /\ silent = FALSE
    /\ refresher = [at |-> "idle", left |-> MaxRefreshes]
    /\ missed = FALSE /\ slipped = FALSE /\ repaired = FALSE

WGo(from, to) == watcher = from /\ watcher' = to

\* _reset_readings(), and the session: a new one when the server answers.
Session(answered) ==
    /\ linked' = answered /\ silence' = "short" /\ heard' = FALSE /\ reading' = "none"
    /\ UNCHANGED <<adapter, news, fell>>

-----------------------------------------------------------------------------
(* PresenceWatch.run()                                                      *)

Watching ==
    /\ WGo("top", IF stopping THEN "last" ELSE IF linked THEN "clear" ELSE "reach")
    /\ UNCHANGED <<worldVars, linkVars, changed, stopping, verdictVars, refresher, historyVars>>

\* _reach(): the adapter of a first attempt is built by it, and only kept if it connects.
Reached ==
    /\ served /\ WGo("reach", "reached")
    /\ adapter' = TRUE
    /\ IF linked THEN UNCHANGED <<linked, silence, heard, reading>>
       ELSE linked' = TRUE /\ silence' = "short" /\ heard' = FALSE /\ reading' = "none"
    /\ UNCHANGED <<worldVars, news, fell, changed, stopping, verdictVars, refresher, historyVars>>

NotReached ==
    /\ ~served /\ WGo("reach", "backoff")
    /\ unreachable' = TRUE /\ linked' = FALSE
    /\ UNCHANGED <<worldVars, adapter, silence, heard, reading, news, fell, changed, stopping, silent,
                   refresher, historyVars>>

Announce ==
    /\ WGo("reached", IF stopping \/ ~linked THEN "backoff" ELSE "top")
    /\ unreachable' = (unreachable /\ (stopping \/ ~linked))
    /\ UNCHANGED <<worldVars, linkVars, changed, stopping, silent, refresher, historyVars>>

\* _wait(_changed, delay): the event, or the delay is over.
Retry ==
    /\ WGo("backoff", IF stopping THEN "last" ELSE "top")
    /\ changed' = FALSE
    /\ UNCHANGED <<worldVars, linkVars, stopping, verdictVars, refresher, historyVars>>

\* _follow() forgets what woke it, and what came since the top of the loop.
FollowOn ==
    /\ WGo("clear", "judge")
    /\ changed' = FALSE
    /\ missed' = (missed \/ stopping)
    /\ UNCHANGED <<worldVars, linkVars, stopping, verdictVars, refresher, slipped, repaired>>

\* The silence is judged; a robot that is silent is waited for without a time-out.
Judge ==
    /\ watcher = "judge"
    /\ watcher' = IF ~linked THEN "top" ELSE IF silence = "long" THEN "asleep" ELSE "timed"
    /\ silent' = IF linked THEN silence = "long" ELSE silent
    /\ repaired' = (repaired \/ (linked /\ unreachable))
    /\ UNCHANGED <<worldVars, linkVars, changed, stopping, unreachable, refresher, missed, slipped>>

WakeUp ==
    /\ WGo("asleep", "top") /\ changed
    /\ UNCHANGED <<worldVars, linkVars, changed, stopping, verdictVars, refresher, historyVars>>

\* _changed, or SILENT_SECONDS since the last reading that was judged.
TimeUp ==
    /\ WGo("timed", "top")
    /\ UNCHANGED <<worldVars, linkVars, changed, stopping, verdictVars, refresher, historyVars>>

\* finally: the adapter is let go and disconnected.
WatchEnds ==
    /\ WGo("last", "done")
    /\ adapter' = FALSE /\ linked' = FALSE /\ silence' = "short" /\ heard' = FALSE /\ reading' = "none"
    /\ UNCHANGED <<worldVars, news, fell, changed, stopping, verdictVars, refresher, historyVars>>

WatchStep ==
    \/ Watching \/ Reached \/ NotReached \/ Announce \/ Retry \/ FollowOn \/ Judge
    \/ WakeUp \/ TimeUp \/ WatchEnds

-----------------------------------------------------------------------------
(* The connection: its reader, and the thread that delivers graph events.   *)

\* The link falls with its server: the reader hears of it in the end (keep-alive).
\* A drop under a server that stays is a server that is away for a moment.
LinkFalls ==
    /\ linked /\ ~served
    /\ linked' = FALSE /\ fell' = TRUE
    /\ UNCHANGED <<worldVars, adapter, silence, heard, reading, news, changed, stopping, watcher,
                   verdictVars, refresher, historyVars>>

TellDrop ==
    /\ fell /\ fell' = FALSE /\ changed' = TRUE
    /\ UNCHANGED <<worldVars, adapter, linked, silence, heard, reading, news, stopping, watcher,
                   verdictVars, refresher, historyVars>>

\* _handle_publish(): the time is noted before the condition is taken.
NoteTime ==
    /\ linked /\ served /\ talking /\ reading = "none"
    /\ reading' = IF silence = "long" THEN "late" ELSE "fresh"
    /\ UNCHANGED <<worldVars, adapter, linked, silence, heard, news, fell, changed, stopping, watcher,
                   verdictVars, refresher, historyVars>>

\* Mutant: only the first reading of a connection is news.
StoreFirst ==
    /\ reading # "none" /\ linked
    /\ reading' = "none" /\ silence' = "short" /\ heard' = TRUE
    /\ news' = (news \/ ~heard)
    /\ slipped' = (slipped \/ (reading = "fresh" /\ silence = "long" /\ heard))
    /\ UNCHANGED <<worldVars, adapter, linked, fell, changed, stopping, watcher, verdictVars, refresher,
                   missed, repaired>>

\* _store_odometry() and _heard(): the first reading, or one after a silence, is
\* news; how long the silence was is told by the time that was noted.
Store ==
    /\ reading # "none" /\ linked
    /\ reading' = "none" /\ silence' = "short" /\ heard' = TRUE
    /\ news' = (news \/ ~heard \/ reading = "late")
    /\ slipped' = (slipped \/ (reading = "fresh" /\ silence = "long" /\ heard))
    /\ UNCHANGED <<worldVars, adapter, linked, fell, changed, stopping, watcher, verdictVars, refresher,
                   missed, repaired>>

Deliver ==
    /\ news /\ news' = FALSE /\ changed' = TRUE
    /\ UNCHANGED <<worldVars, adapter, linked, silence, heard, reading, fell, stopping, watcher,
                   verdictVars, refresher, historyVars>>

ReaderStep == TellDrop \/ NoteTime \/ Store \/ Deliver

-----------------------------------------------------------------------------
(* close(), and reconnect_resource() on the adapter the watch holds.        *)

CloseWatch ==
    /\ ~stopping /\ stopping' = TRUE /\ changed' = TRUE
    /\ UNCHANGED <<worldVars, linkVars, watcher, verdictVars, refresher, historyVars>>

\* disconnect() in reconnect(): the reader is left behind, and tells nobody.
RefreshDrops ==
    /\ refresher.at = "idle" /\ refresher.left > 0 /\ adapter
    /\ refresher' = [at |-> "open", left |-> refresher.left - 1]
    /\ Session(FALSE)
    /\ UNCHANGED <<worldVars, changed, stopping, watcher, verdictVars, historyVars>>

RefreshOpens ==
    /\ refresher.at = "open"
    /\ refresher' = [refresher EXCEPT !.at = "idle"]
    /\ Session(served)
    /\ missed' = (missed \/ (watcher = "asleep" /\ ~served))
    /\ UNCHANGED <<worldVars, changed, stopping, watcher, verdictVars, slipped, repaired>>

-----------------------------------------------------------------------------
(* The world.                                                               *)

Turn == turns < MaxTurns /\ turns' = turns + 1

ServerTurns ==
    /\ Turn /\ served' = ~served
    /\ UNCHANGED <<talking, linkVars, changed, stopping, watcher, verdictVars, refresher, historyVars>>

RobotTurns ==
    /\ Turn /\ talking' = ~talking
    /\ UNCHANGED <<served, linkVars, changed, stopping, watcher, verdictVars, refresher, historyVars>>

\* Nothing is stored while time passes; readings come often from a robot that talks.
TimePasses ==
    /\ linked
    /\ \/ silence = "short" /\ silence' = "near" /\ ~talking
       \/ silence = "near" /\ silence' = "long" /\ (~talking \/ reading # "none")
    /\ UNCHANGED <<worldVars, adapter, linked, heard, reading, news, fell, changed, stopping, watcher,
                   verdictVars, refresher, historyVars>>

PresenceNext ==
    \/ WatchStep \/ ReaderStep \/ LinkFalls \/ CloseWatch \/ RefreshDrops \/ RefreshOpens
    \/ ServerTurns \/ RobotTurns \/ TimePasses

-----------------------------------------------------------------------------
\* unreachable_resource_ids()
Gone == unreachable \/ silent

\* A robot that stays up and talks is not reported gone for ever, and one that stays
\* away is; whatever came and went before, and unless a wake-up was lost in one of
\* three ways: close() or a refresh that failed while the watch cleared its event or
\* slept (missed), a reading noted just before the deadline and stored after it
\* (slipped), a link the operator mended while the watch thought the robot
\* unreachable (repaired), which only the next failure corrects.
PresenceIsFollowed ==
    /\ (<>[](served /\ talking /\ ~stopping) /\ [](~missed /\ ~slipped /\ ~repaired)) => []<>~Gone
    /\ (<>[]((~served \/ ~talking) /\ ~stopping) /\ [](~missed)) => []<>Gone

\* Every close() is heard (adapter_provider.py:424 "the next reading, a drop or
\* close wakes it").
CloseIsHeard == stopping ~> watcher = "done"
===============================================================================
