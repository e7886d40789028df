----------------------------- MODULE ClosedLoopLab -----------------------------
(***************************************************************************)
(* One evidence run of the closed-loop laboratory                          *)
(* (ros2_closed_loop_lab.py, launch/nav2_closed_loop.launch.py). The lab   *)
(* owns the start-up: it configures the navigation nodes one by one, asks  *)
(* their lifecycle manager to RESUME, probes the graph, drives one         *)
(* scenario, writes its evidence and shuts the managers down. A            *)
(* preparation may go before it as a process of its own.                   *)
(* A request that timed out may still be delivered. Nodes, managers and    *)
(* the stop are external, and may fail. Every wait has a deadline, which   *)
(* passes at any time.                                                     *)
(***************************************************************************)
EXTENDS Naturals, Sequences, SequencesExt

CONSTANTS
    NavNodes,      \* NAVIGATION_LIFECYCLE_NODES, in order
    MaxTries,      \* LIFECYCLE_MANAGER_SERVICE_ATTEMPTS (3)
    MaxParticipants,    \* attempts of a preparation
    MaxLate, MaxFault   \* bounds: configure requests that time out; faults

Managers == <<"navigation", "map">>
NavNode  == ToSet(NavNodes)

ASSUME LabAssumption == NavNodes \in Seq(NavNode)

VARIABLES
    place,     \* where the lab is; "exited"
    mark,      \* the node, part or manager its loop is at
    tries,     \* participants, or attempts to send RESUME
    preparing, \* it is the preparation that runs
    awaits,    \* the configure request it waits for: "none", "sent", "answered"
    found,     \* what the sweep of the probe found up
    verdict, written, code,
    node,      \* each node: "unconfigured", "inactive", "active" or "gone"
    stopUp,    \* the emergency stop's service
    late,      \* configure requests to each node that timed out, not delivered yet
    manager,   \* each manager: "idle", "busy", "ok", "failed", "down", "gone"
    nth,       \* the node the navigation manager activates
    order,     \* the command on its way to each manager: "none", "resume", "shutdown"
    faults,
    heard,     \* history: for each RESUME heard, the nodes that were active then
    acked,     \* history: the shutdowns that were acknowledged
    sightings  \* history: what the sweep that let the robot drive found

labLoop == <<place, mark, tries, preparing, awaits, found>>
report  == <<verdict, written, code, acked, sightings>>
stack   == <<node, stopUp, late, manager, nth, order, faults, heard>>
labVars == <<labLoop, report, stack>>

Idle(m) == m \in {"idle", "ok", "failed"}

LabInit ==
    /\ place = "normalize" /\ mark = 1 /\ tries = 1 /\ preparing \in BOOLEAN
    /\ awaits = "none" /\ found = {}
    /\ verdict = FALSE /\ written = FALSE /\ code = 1
    /\ node \in [NavNode -> {"unconfigured", "inactive", "active"}]
    /\ stopUp \in BOOLEAN /\ late = [n \in NavNode |-> 0]
    /\ manager = [m \in ToSet(Managers) |-> IF m = "map" THEN "ok" ELSE "idle"]
    /\ nth = 0 /\ order = [m \in ToSet(Managers) |-> "none"] /\ faults = 0
    /\ heard = <<>> /\ acked = <<>> /\ sightings = {}

At(p) == place = p
Goto(p) == place' = p /\ mark' = 1
Next1(p) == place' = p /\ mark' = mark + 1

\* A request that is given up may be delivered later.
Abandoned ==
    late' = IF awaits = "sent" THEN [late EXCEPT ![NavNodes[mark]] = @ + 1] ELSE late

(***************************************************************************)
(* The lab                                                                 *)
(***************************************************************************)

\* A RuntimeError: a preparation goes on with a new participant, the lab exits.
Fail ==
    /\ awaits' = "none" /\ Abandoned /\ found' = {}
    /\ \/ /\ preparing /\ tries < MaxParticipants /\ tries' = tries + 1
          /\ Goto("normalize") /\ UNCHANGED <<preparing, code>>
       \/ /\ ~preparing \/ tries = MaxParticipants
          /\ Goto("exited") /\ UNCHANGED <<tries, preparing, code>>
    /\ UNCHANGED <<verdict, written, acked, sightings, node, stopUp, manager, nth, order,
                   faults, heard>>

\* A service that never answers, an execution or an attestation that raises.
Expire ==
    /\ place \in {"normalize", "configure", "close", "drive", "attest", "shutting"}
    /\ (awaits = "sent" => late[NavNodes[mark]] < MaxLate)
    /\ Fail

Normalized ==
    /\ At("normalize") /\ mark > Len(NavNodes) /\ tries' = 1
    /\ preparing' = FALSE
    /\ IF preparing THEN Goto("normalize") ELSE Goto("resume")
    /\ UNCHANGED <<awaits, found, report, stack>>

\* _normalize_navigation_nodes_inactive(): a node that is active already may have bonds
\* of a start-up that was cut off.
ReadNode ==
    /\ At("normalize") /\ mark <= Len(NavNodes)
    /\ \/ /\ node[NavNodes[mark]] = "inactive" /\ Next1("normalize")
          /\ UNCHANGED <<tries, preparing, awaits, found, report, stack>>
       \/ /\ node[NavNodes[mark]] = "unconfigured" /\ place' = "configure" /\ UNCHANGED mark
          /\ UNCHANGED <<tries, preparing, awaits, found, report, stack>>
       \/ node[NavNodes[mark]] \in {"active", "gone"} /\ Fail

\* _fresh_service_call(): every attempt sends the request with a client of its own.
Configure ==
    /\ At("configure") /\ awaits \in {"none", "sent"}
    /\ awaits = "sent" => late[NavNodes[mark]] < MaxLate
    /\ awaits' = "sent" /\ Abandoned
    /\ UNCHANGED <<place, mark, tries, preparing, found, report, node, stopUp, manager, nth,
                   order, faults, heard>>

\* _change_lifecycle_state(): what the node is decides, not what it answered.
Verify ==
    /\ At("configure") /\ awaits = "answered"
    /\ \/ /\ node[NavNodes[mark]] = "inactive" /\ awaits' = "none" /\ Next1("normalize")
          /\ UNCHANGED <<tries, preparing, found, report, stack>>
       \/ node[NavNodes[mark]] # "inactive" /\ Fail

\* _request_lifecycle_manager_command(): only what was surely not sent is tried again.
ResumeUnsent ==
    /\ At("resume")
    /\ \/ /\ tries < MaxTries /\ tries' = tries + 1
          /\ UNCHANGED <<place, mark, preparing, awaits, found, report, stack>>
       \/ tries = MaxTries /\ Fail

ResumeSent ==
    /\ At("resume") /\ manager["navigation"] # "gone" /\ Goto("resuming")
    /\ order' = [order EXCEPT !["navigation"] = "resume"]
    /\ UNCHANGED <<tries, preparing, awaits, found, report, node, stopUp, late, manager, nth,
                   faults, heard>>

ResumeAnswered ==
    /\ At("resuming") /\ order["navigation"] = "none"
    /\ \/ /\ manager["navigation"] = "ok" /\ Goto("probe") /\ found' = {}
          /\ UNCHANGED <<tries, preparing, awaits, report, stack>>
       \/ manager["navigation"] = "failed" /\ Fail

\* A RESUME that was sent and not answered in time is never sent again.
ResumeOverdue == At("resuming") /\ Fail

\* The parts a sweep of the probe reads, in order: the action, the nodes, the stop.
Sweep == <<"action">> \o NavNodes \o <<"stop">>
IsUp(part) ==
    CASE part = "stop"   -> stopUp
      [] part = "action" -> node[Last(NavNodes)] = "active"
      [] OTHER           -> node[part] = "active"

\* _collect_ready_runtime_snapshot(): a bad sweep is taken again until the budget is
\* spent; what the last one found is then refused.
Sight ==
    /\ At("probe") /\ mark <= Len(Sweep) /\ Next1("probe")
    /\ found' = IF IsUp(Sweep[mark]) THEN found \cup {Sweep[mark]} ELSE found
    /\ UNCHANGED <<tries, preparing, awaits, report, stack>>

Swept ==
    /\ At("probe") /\ mark > Len(Sweep)
    /\ \/ /\ found = ToSet(Sweep) /\ Goto("close") /\ sightings' = found /\ UNCHANGED found
          /\ UNCHANGED <<tries, preparing, awaits, verdict, written, code, acked, stack>>
       \/ /\ found # ToSet(Sweep) /\ Goto("probe") /\ found' = {}
          /\ UNCHANGED <<tries, preparing, awaits, report, stack>>
       \/ found # ToSet(Sweep) /\ Fail

\* _prepare_lifecycle_shutdown_clients(): before motion, every manager can be reached.
Reachable ==
    /\ At("close")
    /\ IF mark > Len(Managers) THEN Goto("drive") ELSE manager[Managers[mark]] # "gone" /\ Next1("close")
    /\ UNCHANGED <<tries, preparing, awaits, found, report, stack>>

\* authorize, prepare and execute: NavigationExecution.
Drove ==
    /\ At("drive") /\ Goto("attest") /\ verdict' \in BOOLEAN
    /\ UNCHANGED <<tries, preparing, awaits, found, written, code, acked, sightings, stack>>

\* The evidence is written before anything is shut down.
Attested ==
    /\ At("attest") /\ Goto("shutdown") /\ written' = TRUE
    /\ UNCHANGED <<tries, preparing, awaits, found, verdict, code, acked, sightings, stack>>

\* _shutdown_lifecycle_managers()
ShutdownSent ==
    /\ At("shutdown") /\ mark <= Len(Managers)
    /\ \/ /\ manager[Managers[mark]] # "gone" /\ place' = "shutting" /\ UNCHANGED mark
          /\ order' = [order EXCEPT ![Managers[mark]] = "shutdown"]
          /\ UNCHANGED <<tries, preparing, awaits, found, report, node, stopUp, late, manager,
                         nth, faults, heard>>
       \/ manager[Managers[mark]] = "gone" /\ Fail

ShutdownAnswered ==
    /\ At("shutting") /\ order[Managers[mark]] = "none" /\ manager[Managers[mark]] = "down"
    /\ Next1("shutdown") /\ acked' = Append(acked, Managers[mark])
    /\ UNCHANGED <<tries, preparing, awaits, found, verdict, written, code, sightings, stack>>

Report ==
    /\ At("shutdown") /\ mark > Len(Managers) /\ Goto("exited")
    /\ code' = IF verdict THEN 0 ELSE 2
    /\ UNCHANGED <<tries, preparing, awaits, found, verdict, written, acked, sightings, stack>>

(***************************************************************************)
(* The stack, and the launch that ends it                                  *)
(***************************************************************************)

\* Only an unconfigured node is configured; it may refuse.
Configured(n, mine) ==
    /\ node[n] # "gone"
    /\ \/ mine /\ At("configure") /\ NavNodes[mark] = n /\ awaits = "sent"
          /\ awaits' = "answered" /\ UNCHANGED late
       \/ ~mine /\ late[n] > 0 /\ late' = [late EXCEPT ![n] = @ - 1] /\ UNCHANGED awaits
    /\ \/ node[n] = "unconfigured" /\ node' = [node EXCEPT ![n] = "inactive"]
       \/ UNCHANGED node
    /\ UNCHANGED <<place, mark, tries, preparing, found, report, stopUp, manager, nth, order,
                   faults, heard>>

ManagerHears(m) ==
    /\ order[m] # "none" /\ Idle(manager[m])
    /\ order' = [order EXCEPT ![m] = "none"]
    /\ \/ /\ order[m] = "resume" /\ nth' = 1 /\ heard' = Append(heard, {n \in NavNode : node[n] = "active"})
          /\ manager' = [manager EXCEPT ![m] = "busy"] /\ UNCHANGED node
       \/ /\ order[m] = "shutdown" /\ manager' = [manager EXCEPT ![m] = "down"]
          /\ UNCHANGED <<nth, heard>>
          /\ node' = IF m = "navigation" THEN [n \in NavNode |-> IF node[n] = "gone" THEN "gone"
                                                                 ELSE "unconfigured"]
                      ELSE node
    /\ UNCHANGED <<labLoop, report, stopUp, late, faults>>

\* It activates node after node, and answers when it is through or one refused.
ManagerActivates ==
    /\ manager["navigation"] = "busy"
    /\ \/ /\ nth <= Len(NavNodes) /\ node[NavNodes[nth]] = "inactive" /\ nth' = nth + 1
          /\ node' = [node EXCEPT ![NavNodes[nth]] = "active"] /\ UNCHANGED manager
       \/ /\ nth <= Len(NavNodes) /\ UNCHANGED <<nth, node>>
          /\ manager' = [manager EXCEPT !["navigation"] = "failed"]
       \/ /\ nth > Len(NavNodes) /\ UNCHANGED <<nth, node>>
          /\ manager' = [manager EXCEPT !["navigation"] = "ok"]
    /\ UNCHANGED <<labLoop, report, stopUp, late, order, faults, heard>>

\* A node comes up anew, a manager dies, the stop comes or goes.
LabFault ==
    /\ faults < MaxFault /\ faults' = faults + 1
    /\ \/ /\ \E n \in NavNode : node[n] # "gone" /\ node' = [node EXCEPT ![n] = "unconfigured"]
          /\ UNCHANGED <<stopUp, manager>>
       \/ /\ stopUp' = ~stopUp /\ UNCHANGED <<node, manager>>
       \/ /\ \E m \in ToSet(Managers) : manager' = [manager EXCEPT ![m] = "gone"]
          /\ UNCHANGED <<node, stopUp>>
    /\ UNCHANGED <<labLoop, report, late, nth, order, heard>>

\* The launch: after the lab the managers, and after a manager its nodes.
LaunchEnds ==
    /\ At("exited")
    /\ \/ /\ \E m \in ToSet(Managers) : manager[m] # "gone" /\ manager' = [manager EXCEPT ![m] = "gone"]
          /\ UNCHANGED node
       \/ /\ manager["navigation"] = "gone" /\ UNCHANGED manager
          /\ \E n \in NavNode : node[n] # "gone" /\ node' = [node EXCEPT ![n] = "gone"]
    /\ UNCHANGED <<labLoop, report, stopUp, late, nth, order, faults, heard>>

LabNext ==
    \/ Expire \/ Normalized \/ ReadNode \/ Configure \/ Verify
    \/ ResumeUnsent \/ ResumeSent \/ ResumeAnswered \/ ResumeOverdue
    \/ Sight \/ Swept \/ Reachable \/ Drove \/ Attested
    \/ ShutdownSent \/ ShutdownAnswered \/ Report
    \/ \E n \in NavNode, mine \in BOOLEAN : Configured(n, mine)
    \/ \E m \in ToSet(Managers) : ManagerHears(m)
    \/ ManagerActivates \/ LabFault \/ LaunchEnds

-----------------------------------------------------------------------------

\* The lab can account for its stack: one RESUME is heard at most, never with a node
\* already active, and none is under way when the robot drives, so nothing but a fault
\* changes a node under it; it drives only after a sweep that found every part up; a run
\* it reports has its evidence written and both managers shut down in order, with
\* nothing left active. A lab that fails may leave a RESUME behind, which the manager
\* still carries out.
LabIsAccountable ==
    /\ Len(heard) <= 1 /\ \A k \in DOMAIN heard : heard[k] = {}
    /\ place \in {"close", "drive", "attest"} =>
          heard # <<>> /\ order["navigation"] = "none" /\ manager["navigation"] # "busy"
    /\ place \in {"drive", "attest", "shutdown", "shutting"} => sightings = ToSet(Sweep)
    /\ IsPrefix(acked, Managers) /\ (acked # <<>> => written)
    /\ code # 1 => acked = Managers /\ written /\ \A n \in NavNode : node[n] # "active"
    /\ (place = "exited" /\ code = 0) => verdict
===============================================================================
