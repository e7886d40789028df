------------------------------ MODULE SshTunnel ------------------------------
(***************************************************************************)
(* One supervised SSH forward: ManagedTunnel of ssh_transport.py.          *)
(*                                                                         *)
(* The supervisor thread (_run) starts ssh, follows it, and starts it      *)
(* again; operators refresh the forward and wait for it; one closer ends   *)
(* it. They share the status, two flags (_stop, _refresh) and one event    *)
(* (_wake) that the supervisor sleeps on. An ssh child has a watcher       *)
(* thread of its own: after the exit it stores what ssh said, and then     *)
(* sets _wake. Nothing orders the watcher against poll(), by which the     *)
(* supervisor sees the exit.                                               *)
(*                                                                         *)
(* Left out: the length of the waits (attempts, back-off), the ports, the  *)
(* listeners of the status.                                                *)
(***************************************************************************)
EXTENDS FiniteSets

CONSTANTS
    Ssh,          \* ssh children there can be at a time, with their watchers
    Operator,     \* threads that refresh the forward, once each
    NoSsh,        \* _process is None
    SlowAttempt   \* whether resolving or reaping may outlast close()'s join

ASSUME TunnelAssumption == NoSsh \notin Ssh /\ SlowAttempt \in BOOLEAN

VARIABLES
    state,        \* _status.state
    stop, refresh, wake,
    pc,           \* the supervisor's place in _run, _attempt and _await_ready
    process,      \* self._process
    child,        \* the child of this attempt: `process` in _attempt()
    ssh,          \* ssh[p]: a child, and its watcher
    last,         \* history: what the last attempt that failed was taken for
    opc, answer,  \* operators: place, and what wait_connected() returned
    cpc           \* the closer's place

threads == <<opc, answer>>
vars == <<state, stop, refresh, wake, pc, process, child, ssh, last, opc, answer, cpc>>

Fate == {"none", "transient", "fatal"}
Free == [at |-> "free", read |-> TRUE, woke |-> TRUE]

Running  == {p \in Ssh : ssh[p].at = "running"}
Alive(p) == p \in Running

Go(from, to) == pc = from /\ pc' = to

\* SshProcess.stop(): the child is gone when it returns; its watcher is not.
Stopped(p) ==
    IF p \in Running THEN [ssh EXCEPT ![p].at = "exited"] ELSE ssh

-----------------------------------------------------------------------------
Init ==
    /\ state = "reconnecting" /\ stop = FALSE /\ refresh = FALSE /\ wake = FALSE
    /\ pc = "top" /\ process = NoSsh /\ child = NoSsh
    /\ ssh = [p \in Ssh |-> Free]
    /\ last = "none"
    /\ opc = [o \in Operator |-> "idle"] /\ answer = [o \in Operator |-> "none"]
    /\ cpc = "idle"

-----------------------------------------------------------------------------
(* _run(): the supervisor.                                                  *)

Top ==
    /\ Go("top", IF stop THEN "last" ELSE "clear")
    /\ UNCHANGED <<state, stop, refresh, wake, process, child, ssh, last, threads, cpc>>

\* A refresh that was asked for is what this attempt is.
Clear ==
    /\ Go("clear", "resolve")
    /\ wake' = FALSE /\ refresh' = FALSE
    /\ state' = IF refresh THEN "reconnecting" ELSE state
    /\ last' = IF refresh THEN "none" ELSE last
    /\ UNCHANGED <<stop, process, child, ssh, threads, cpc>>

\* _attempt(): resolve, reap a stale master, spawn. A name that does not
\* resolve is transient; a missing ssh is fatal.
Resolve ==
    \/ Go("resolve", "spawn") /\ UNCHANGED <<state, child, last>>
       /\ UNCHANGED <<stop, refresh, wake, process, child, ssh, threads, cpc>>
    \/ Go("resolve", "after")
       /\ \E fate \in {"transient", "fatal"} :
             /\ state' = IF fate = "fatal" THEN "failed" ELSE "reconnecting"
             /\ last' = fate
       /\ UNCHANGED <<stop, refresh, wake, process, child, ssh, threads, cpc>>

Spawn(p) ==
    /\ Go("spawn", "ready")
    /\ ssh[p].at = "free"
    /\ process' = p /\ child' = p
    /\ ssh' = [ssh EXCEPT ![p] = [Free EXCEPT !.at = "running", !.read = FALSE, !.woke = FALSE]]
    /\ UNCHANGED <<state, stop, refresh, wake, last, threads, cpc>>

\* _await_ready(): the flags, the child, the ports, the deadline, in this order.
Ready ==
    /\ pc = "ready"
    /\ pc' = IF stop \/ refresh THEN "kill" ELSE IF ~Alive(child) THEN "exited" ELSE "probe"
    /\ UNCHANGED <<state, stop, refresh, wake, process, child, ssh, last, threads, cpc>>

\* Mutant: the error code is reported as the state.
ProbeErrorCode ==
    \/ Go("probe", "up") /\ Alive(child) /\ UNCHANGED state
       /\ UNCHANGED <<stop, refresh, wake, process, child, ssh, last, threads, cpc>>
    \/ Go("probe", "poll") /\ UNCHANGED state
       /\ UNCHANGED <<stop, refresh, wake, process, child, ssh, last, threads, cpc>>
    \/ Go("probe", "after")
       /\ ssh' = Stopped(process) /\ process' = NoSsh
       /\ state' = "not_ready"
       /\ last' = "transient"
       /\ UNCHANGED <<stop, refresh, wake, child, threads, cpc>>

\* Mutant: the child that did not get ready is not stopped.
ProbeLeavesChild ==
    \/ Go("probe", "up") /\ Alive(child) /\ UNCHANGED state
       /\ UNCHANGED <<stop, refresh, wake, process, child, ssh, last, threads, cpc>>
    \/ Go("probe", "poll") /\ UNCHANGED state
       /\ UNCHANGED <<stop, refresh, wake, process, child, ssh, last, threads, cpc>>
    \/ Go("probe", "after")
       /\ ssh' = ssh /\ process' = NoSsh
       /\ state' = "reconnecting"
       /\ last' = "transient"
       /\ UNCHANGED <<stop, refresh, wake, child, threads, cpc>>

\* The forward answers only while ssh runs.
Probe ==
    \/ Go("probe", "up") /\ Alive(child) /\ UNCHANGED state
       /\ UNCHANGED <<stop, refresh, wake, process, child, ssh, last, threads, cpc>>
    \/ Go("probe", "poll") /\ UNCHANGED state
       /\ UNCHANGED <<stop, refresh, wake, process, child, ssh, last, threads, cpc>>
    \/ Go("probe", "after")
       /\ ssh' = Stopped(process) /\ process' = NoSsh
       /\ state' = "reconnecting"
       /\ last' = "transient"
       /\ UNCHANGED <<stop, refresh, wake, child, threads, cpc>>

\* wake.wait(poll_s); wake.clear()
Poll ==
    /\ Go("poll", "ready")
    /\ wake' = FALSE
    /\ UNCHANGED <<state, stop, refresh, process, child, ssh, last, threads, cpc>>

Up ==
    /\ Go("up", "follow")
    /\ state' = "connected" /\ last' = "none"
    /\ UNCHANGED <<stop, refresh, wake, process, child, ssh, threads, cpc>>

Follow ==
    /\ pc = "follow"
    /\ pc' = IF stop \/ refresh THEN "kill" ELSE IF Alive(child) THEN "sleep" ELSE "exited"
    /\ UNCHANGED <<state, stop, refresh, wake, process, child, ssh, last, threads, cpc>>

Sleep ==
    /\ Go("sleep", "follow")
    /\ wake /\ wake' = FALSE
    /\ UNCHANGED <<state, stop, refresh, process, child, ssh, last, threads, cpc>>

\* Mutant: self._process is cleared before the child is read from it.
KillForgets ==
    /\ Go("kill", "after")
    /\ ssh' = ssh /\ process' = NoSsh
    /\ state' = IF refresh THEN "reconnecting" ELSE state
    /\ UNCHANGED <<stop, refresh, wake, child, last, threads, cpc>>

\* _stop_process(), for a stop or a refresh that was seen.
Kill ==
    /\ Go("kill", "after")
    /\ ssh' = Stopped(process) /\ process' = NoSsh
    /\ state' = IF refresh THEN "reconnecting" ELSE state
    /\ UNCHANGED <<stop, refresh, wake, child, last, threads, cpc>>

\* _exited(): classify() what the watcher has stored by now; while nothing
\* is stored, any error is transient.
Exited ==
    \E why \in {"transient", "fatal"} :
        LET judged == IF ssh[child].read THEN why ELSE "transient" IN
        /\ Go("exited", "after")
        /\ process' = NoSsh
        /\ last' = judged
        /\ state' = IF judged = "fatal" THEN "failed" ELSE "reconnecting"
        /\ UNCHANGED <<stop, refresh, wake, child, ssh, threads, cpc>>

\* "The exit that ended this attempt also woke us."
After ==
    /\ Go("after", "decide")
    /\ wake' = FALSE /\ child' = NoSsh
    /\ UNCHANGED <<state, stop, refresh, process, ssh, last, threads, cpc>>

\* Mutant: a refresh during the attempt is left to the wake-up that was just cleared.
DecideOnStop ==
    /\ pc = "decide"
    /\ pc' = IF stop THEN "last" ELSE "backoff"
    /\ UNCHANGED <<state, stop, refresh, wake, process, child, ssh, last, threads, cpc>>

\* Mutant: a stop during the attempt is left to the wake-up that was just cleared.
DecideOnRefresh ==
    /\ pc = "decide"
    /\ pc' = IF refresh THEN "top" ELSE "backoff"
    /\ UNCHANGED <<state, stop, refresh, wake, process, child, ssh, last, threads, cpc>>

Decide ==
    /\ pc = "decide"
    /\ pc' = IF stop THEN "last" ELSE IF refresh THEN "top" ELSE "backoff"
    /\ UNCHANGED <<state, stop, refresh, wake, process, child, ssh, last, threads, cpc>>

\* Without an operator only a transient failure is retried, on a timer.
Backoff ==
    /\ Go("backoff", "top")
    /\ wake \/ state # "failed"
    /\ UNCHANGED <<state, stop, refresh, wake, process, child, ssh, last, threads, cpc>>

Last ==
    /\ Go("last", "ended")
    /\ ssh' = Stopped(process) /\ process' = NoSsh
    /\ UNCHANGED <<state, stop, refresh, wake, child, last, threads, cpc>>

Supervise ==
    \/ Top \/ Clear \/ Resolve \/ Ready \/ Probe \/ Poll \/ Up \/ Follow \/ Sleep
    \/ Kill \/ Exited \/ After \/ Decide \/ Backoff \/ Last
    \/ \E p \in Ssh : Spawn(p)

-----------------------------------------------------------------------------
(* ssh, and the watcher thread of _PopenProcess.                            *)

Exit(p) ==
    /\ Alive(p)
    /\ ssh' = [ssh EXCEPT ![p].at = "exited"]
    /\ UNCHANGED <<state, stop, refresh, wake, pc, process, child, last, threads, cpc>>

Read(p) ==
    /\ ssh[p].at = "exited" /\ ~ssh[p].read
    /\ ssh' = [ssh EXCEPT ![p].read = TRUE]
    /\ UNCHANGED <<state, stop, refresh, wake, pc, process, child, last, threads, cpc>>

\* Mutant: an exit does not wake the supervisor.
OnExitSilent(p) ==
    /\ ssh[p].at = "exited" /\ ssh[p].read /\ ~ssh[p].woke
    /\ ssh' = [ssh EXCEPT ![p].woke = TRUE]
    /\ UNCHANGED <<state, stop, refresh, wake, pc, process, child, last, threads, cpc>>

OnExit(p) ==
    /\ ssh[p].at = "exited" /\ ssh[p].read /\ ~ssh[p].woke
    /\ ssh' = [ssh EXCEPT ![p].woke = TRUE]
    /\ wake' = TRUE
    /\ UNCHANGED <<state, stop, refresh, pc, process, child, last, threads, cpc>>

\* Nobody knows the child any more.
Collect(p) ==
    /\ ssh[p].at = "exited" /\ ssh[p].woke
    /\ p \notin {process, child}
    /\ ssh' = [ssh EXCEPT ![p] = Free]
    /\ UNCHANGED <<state, stop, refresh, wake, pc, process, child, last, opc, answer, cpc>>

Watch(p) == Read(p) \/ OnExit(p) \/ Collect(p)

-----------------------------------------------------------------------------
(* refresh(), then wait_connected(), on operator o.                         *)

OGo(o, from, to) == opc[o] = from /\ opc' = [opc EXCEPT ![o] = to]

Reset(o) ==
    /\ OGo(o, "idle", "flag")
    /\ cpc = "idle"
    /\ state' = "reconnecting"
    /\ UNCHANGED <<stop, refresh, wake, pc, process, child, ssh, last, answer, cpc>>

Flag(o) ==
    /\ OGo(o, "flag", "wake")
    /\ refresh' = TRUE
    /\ UNCHANGED <<state, stop, wake, pc, process, child, ssh, last, answer, cpc>>

Wake(o) ==
    /\ OGo(o, "wake", "await")
    /\ wake' = TRUE
    /\ UNCHANGED <<state, stop, refresh, pc, process, child, ssh, last, answer, cpc>>

\* Connected, failed, closed, or ready_timeout_s is over.
Await(o) ==
    /\ OGo(o, "await", "done")
    /\ answer' = [answer EXCEPT ![o] = IF state = "connected" THEN "connected" ELSE "down"]
    /\ UNCHANGED <<state, stop, refresh, wake, pc, process, child, ssh, last, cpc>>

Operate(o) == Flag(o) \/ Wake(o) \/ Await(o)

-----------------------------------------------------------------------------
(* close(). No operator is in refresh() when it begins: an operator's       *)
(* adapter holds the tunnel.                                                *)

CGo(from, to) == cpc = from /\ cpc' = to

CloseStops ==
    /\ CGo("idle", "wake")
    /\ \A o \in Operator : opc[o] \in {"idle", "done"}
    /\ stop' = TRUE
    /\ UNCHANGED <<state, refresh, wake, pc, process, child, ssh, last, threads>>

CloseWakes ==
    /\ CGo("wake", "join")
    /\ wake' = TRUE
    /\ UNCHANGED <<state, stop, refresh, pc, process, child, ssh, last, threads>>

\* join(timeout=5.0): an attempt that resolves or reaps may outlast it.
CloseJoins ==
    /\ CGo("join", "take")
    /\ pc = "ended" \/ (SlowAttempt /\ pc \in {"resolve", "spawn", "ready", "kill"})
    /\ UNCHANGED <<state, stop, refresh, wake, pc, process, child, ssh, last, threads>>

\* _stop_process(), on this thread.
CloseTakes ==
    /\ CGo("take", "set")
    /\ ssh' = Stopped(process) /\ process' = NoSsh
    /\ UNCHANGED <<state, stop, refresh, wake, pc, child, last, threads>>

CloseSets ==
    /\ CGo("set", "done")
    /\ state' = "stopped"
    /\ UNCHANGED <<stop, refresh, wake, pc, process, child, ssh, last, threads>>

Close == CloseWakes \/ CloseJoins \/ CloseTakes \/ CloseSets

-----------------------------------------------------------------------------
Next ==
    \/ Supervise \/ CloseStops \/ Close
    \/ \E p \in Ssh : Exit(p) \/ Watch(p)
    \/ \E o \in Operator : Reset(o) \/ Operate(o)

-----------------------------------------------------------------------------
\* Every variable stays in its type.
TypeOK ==
    /\ state \in {"reconnecting", "connected", "failed", "stopped"}
    /\ stop \in BOOLEAN /\ refresh \in BOOLEAN /\ wake \in BOOLEAN
    /\ pc \in {"top", "clear", "resolve", "spawn", "ready", "probe", "poll", "up", "follow",
               "sleep", "kill", "exited", "after", "decide", "backoff", "last", "ended"}
    /\ process \in Ssh \cup {NoSsh} /\ child \in Ssh \cup {NoSsh}
    /\ ssh \in [Ssh -> [at : {"free", "running", "exited"}, read : BOOLEAN, woke : BOOLEAN]]
    /\ last \in Fate
    /\ opc \in [Operator -> {"idle", "flag", "wake", "await", "done"}]
    /\ answer \in [Operator -> {"none", "connected", "down"}]
    /\ cpc \in {"idle", "wake", "join", "take", "set", "done"}

\* Two ssh children would fight for the ports and the control socket: no child
\* runs but the one of the attempt under way.
OneForward == Running \subseteq {child}

\* atexit: "A host that exits must not leave an ssh child holding the robot's
\* ports." Once close() and the supervisor are through, no child runs.
NoSshAfterClose == cpc = "done" /\ pc = "ended" => Running = {}

\* Both at once: every ssh there is belongs to the attempt under way.
SshIsOwned == OneForward /\ NoSshAfterClose

\* No wake-up is lost: an operator's refresh starts a new attempt, also from a
\* supervisor that waits in FAILED, unless the forward is closed.
RefreshIsServed == refresh ~> ~refresh \/ stop

\* close() ends the supervisor from wherever it sleeps.
CloseEndsSupervisor == stop ~> pc = "ended"

\* _wake carries three meanings and is cleared in three places; neither is lost.
WakesAreHeard == RefreshIsServed /\ CloseEndsSupervisor

\* Calls fail fast soon after the forward is gone: a status that says connected
\* of a dead child does not last.
DeadForwardIsNoticed ==
    (state = "connected" /\ child # NoSsh /\ ~(child \in Running)) ~> state # "connected"

\* The supervisor hears every wake-up, that of a dying forward included.
SupervisorHears == WakesAreHeard /\ DeadForwardIsNoticed
=============================================================================
