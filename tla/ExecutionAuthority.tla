--------------------------- MODULE ExecutionAuthority ---------------------------
(***************************************************************************)
(* What a semantic motion on ROS 2 needs before it is prepared             *)
(* (ros2_pairing.py, ros2_probe_node.py, ros2_execution.py,                *)
(* resource_binding.py, ros2_action_executor.py): a deployment's manifest, *)
(* a runtime snapshot that a probe took of the graph, a resource plan, and *)
(* a grant that binds the three for a short time.                          *)
(* Documents are values: a digest that matches is an equality, and one     *)
(* that does not is a document nobody parses. The probe reads the graph    *)
(* node by node, while it changes. Names, texts and ranges are left out.   *)
(***************************************************************************)
EXTENDS Integers, FiniteSets

CONSTANTS
    Manifest,     \* the manifests a deployment may install
    Plan,         \* the resource plans that are offered
    Capabilities, \* capability -> [motion, observations]
    ManagedNode,  \* the lifecycle nodes of the adapters
    SnapshotAge,  \* max_age_seconds of a snapshot
    FutureSkew,   \* how far a snapshot may be dated ahead (5 s)
    MaxLifetime,  \* MAX_GRANT_LIFETIME_SECONDS
    MaxNow, MaxRuntime, MaxChange,   \* bounds: time, snapshots, changes of the graph
    Nothing

ASSUME AuthorityAssumption ==
    /\ MaxLifetime \in Nat /\ SnapshotAge \in 1..MaxLifetime
    /\ FutureSkew \in Nat /\ MaxNow \in Nat

VARIABLES
    now,
    manifest,     \* the one installed
    up,           \* what of the graph is up: interfaces, nodes that are active, "stop"
    probe,        \* a probe under way: what it found so far; Nothing: none runs
    runtimes,     \* the snapshots taken, the latest of each kind
    grants,       \* the grants issued
    prepared,     \* the last motion prepared, with the documents it used
    lastUp,       \* history: when each part of the graph was up last
    changes       \* the changes of the graph and of the manifest so far

authorityVars == <<now, manifest, up, probe, runtimes, grants, prepared, lastUp, changes>>

Navigation == {"navigate", "navigate_to_location"}

(***************************************************************************)
(* The documents                                                           *)
(***************************************************************************)

\* parse_ros2_adapter_manifest(): every capability has one owner, which reads what the
\* capability needs, exposes no raw actuator, and can be cancelled if it moves.
ManifestAccepted(m) ==
    /\ m.failClosed /\ ~m.directActuation /\ m.stopRequired /\ m.adapters # {}
    /\ \A a \in m.adapters :
          /\ a.capabilities # {} /\ a.capabilities \subseteq DOMAIN Capabilities
          /\ a.kind \in {"action", "service"} /\ a.approved /\ ~a.raw
          /\ \A c \in a.capabilities : /\ Capabilities[c].observations \subseteq a.observations
                                       /\ Capabilities[c].motion => a.kind = "action"
          /\ a.nodes # {} /\ a.feedback /\ a.cancelOnTimeout
    /\ \A a, b \in m.adapters :
          a # b => a.id # b.id /\ a.capabilities \cap b.capabilities = {}

\* verify_ros2_pairing() refuses a stale snapshot, and one dated too far ahead.
Fresh(r, at) == at - r.observed \in -FutureSkew..r.maxAge

InService(state) == state.available /\ state.status = "ready" /\ state.lifecycle = "active"

\* The mutant does not ask for the emergency stop.
PairingStopless(m, r, at) ==
    /\ r.profile = m /\ Fresh(r, at)
    /\ {s.id : s \in r.adapters} = {a.id : a \in m.adapters}
    /\ \A s \in r.adapters : InService(s)

Pairing(m, r, at) ==
    /\ r.profile = m /\ Fresh(r, at) /\ r.stop
    /\ {s.id : s \in r.adapters} = {a.id : a \in m.adapters}
    /\ \A s \in r.adapters : InService(s)

PlanAccepted(plan) == plan.executable /\ plan.missing = {} /\ plan.steps # {}

\* select_resource_binding(): the one endpoint that matches.
Binds(s, plan, capability, adapter, space, confirmed) ==
    /\ PlanAccepted(plan) /\ plan.space = space
    /\ {s} = {t \in plan.steps : /\ t.capability = capability /\ t.adapter = adapter.id
                                 /\ ~t.leaseOnly /\ t.space = space}
    /\ s.confirm => confirmed

\* parse_ros2_execution_grant()
GrantAccepted(g) == g.expires - g.issued \in 1..MaxLifetime

\* authorize_ros2_execution(): the grant, or none. It ends with its snapshot.
Granted(m, r, plan, capability, space, confirmed, at) ==
    {g \in {[profile |-> m, runtime |-> r, plan |-> plan, adapter |-> a.id, capability |-> capability,
             step |-> s, issued |-> at, expires |-> r.observed + r.maxAge, confirmed |-> confirmed] :
                a \in m.adapters, s \in plan.steps} :
        /\ Pairing(m, r, at) /\ GrantAccepted(g)
        /\ \E owner \in m.adapters :
              /\ {owner} = {a \in m.adapters : capability \in a.capabilities}
              /\ owner.id = g.adapter /\ Binds(g.step, plan, capability, owner, space, confirmed)}

\* resolve_ros2_execution_target()
Targets(g, m, r, at) ==
    {a \in m.adapters : /\ at <= g.expires /\ g.profile = m /\ g.runtime = r
                        /\ Pairing(m, r, at)
                        /\ a.id = g.adapter /\ g.capability \in a.capabilities}

(***************************************************************************)
(* The deployment, the graph and the clock                                 *)
(***************************************************************************)

Parts == ManagedNode \cup {a.id : a \in UNION {m.adapters : m \in Manifest}} \cup {"stop"}

AuthorityInit ==
    /\ now = 0 /\ manifest \in Manifest /\ ManifestAccepted(manifest)
    /\ up \in {Parts, Parts \ {"stop"}} /\ probe = Nothing
    /\ runtimes = {} /\ grants = {} /\ prepared = Nothing
    /\ lastUp = [part \in Parts |-> IF part \in up THEN 0 ELSE -MaxNow - SnapshotAge]
    /\ changes = 0

Change == changes < MaxChange /\ changes' = changes + 1

Install(m) ==
    /\ ManifestAccepted(m) /\ m # manifest /\ manifest' = m /\ Change
    /\ UNCHANGED <<now, up, probe, runtimes, grants, prepared, lastUp>>

Noted(parts) == [part \in Parts |-> IF part \in parts THEN now' ELSE lastUp[part]]

Toggle(part) ==
    /\ Change /\ up' = IF part \in up THEN up \ {part} ELSE up \cup {part}
    /\ UNCHANGED <<now, manifest, probe, runtimes, grants, prepared>>
    /\ lastUp' = [lastUp EXCEPT ![part] = now]

AuthorityTick ==
    /\ now < MaxNow /\ now' = now + 1 /\ lastUp' = Noted(up)
    /\ probe # Nothing => now < probe.since + 1      \* the budget of a probe
    /\ UNCHANGED <<manifest, up, probe, runtimes, grants, prepared, changes>>

(***************************************************************************)
(* collect_ros2_runtime_snapshot()                                         *)
(***************************************************************************)

ProbeStart ==
    /\ probe = Nothing /\ Cardinality(runtimes) < MaxRuntime
    /\ probe' = [profile |-> manifest, seen |-> {}, looked |-> {}, since |-> now]
    /\ UNCHANGED <<now, manifest, up, runtimes, grants, prepared, lastUp, changes>>

\* _query_lifecycle_states_concurrently(): a node that does not answer within the budget
\* stays unknown.
Answers(part) == {up \cap {part}} \cup IF part \in ManagedNode THEN {{}} ELSE {}

\* The interface of an adapter, then its nodes, then the stop of the last; what
\* answered is not read again.
Look(part) ==
    /\ probe # Nothing /\ part \notin probe.looked
    /\ LET of(a) == {a.id} \cup a.nodes
           earlier(a) == {b \in probe.profile.adapters : b.order < a.order} IN
       \/ \E a \in probe.profile.adapters :
             /\ part \in of(a) /\ (part # a.id => a.id \in probe.looked)
             /\ \A b \in earlier(a) : of(b) \subseteq probe.looked
       \/ part = "stop" /\ \A a \in probe.profile.adapters : of(a) \subseteq probe.looked
    /\ \E answer \in Answers(part) :
          probe' = [probe EXCEPT !.looked = @ \cup {part}, !.seen = @ \cup answer]
    /\ UNCHANGED <<now, manifest, up, runtimes, grants, prepared, lastUp, changes>>

\* build_ros2_runtime_snapshot()
Snapshot(found, observed) ==
    [profile |-> found.profile, observed |-> observed, maxAge |-> SnapshotAge, stop |-> "stop" \in found.seen,
     adapters |-> {LET nodes == a.nodes \subseteq found.seen IN
                   [id |-> a.id, available |-> a.id \in found.seen,
                    lifecycle |-> IF nodes THEN "active" ELSE "unknown",
                    status |-> IF nodes /\ a.id \in found.seen THEN "ready" ELSE "unavailable"] :
                      a \in found.profile.adapters}]

\* The clock of the prober may be ahead.
ProbeEnd ==
    /\ probe # Nothing /\ "stop" \in probe.looked /\ probe' = Nothing
    /\ \E ahead \in 0..FutureSkew : runtimes' = runtimes \cup {Snapshot(probe, now + ahead)}
    /\ UNCHANGED <<now, manifest, up, grants, prepared, lastUp, changes>>

(***************************************************************************)
(* The host authorizes and prepares, each at the time of its own           *)
(***************************************************************************)

Authorize(r, plan, capability, confirmed) ==
    /\ grants = {}
    /\ grants' = Granted(manifest, r, plan, capability, "lab", confirmed, now) /\ grants' # {}
    /\ UNCHANGED <<now, manifest, up, probe, runtimes, prepared, lastUp, changes>>

Prepare(g, r) ==
    /\ prepared = Nothing
    /\ \E a \in Targets(g, manifest, r, now) :
          /\ a.kind = "action" /\ g.capability \in Navigation
          /\ prepared' = [grant |-> g, adapter |-> a, at |-> now, manifest |-> manifest,
                          lastUp |-> lastUp]
    /\ UNCHANGED <<now, manifest, up, probe, runtimes, grants, lastUp, changes>>

\* It ends with the motion that is prepared.
AuthorityNext ==
    /\ prepared = Nothing
    /\ \/ \E m \in Manifest : Install(m)
       \/ \E part \in Parts : Toggle(part) \/ Look(part)
       \/ AuthorityTick \/ ProbeStart \/ ProbeEnd
       \/ \E r \in runtimes, plan \in Plan, capability \in DOMAIN Capabilities, confirmed \in BOOLEAN :
             Authorize(r, plan, capability, confirmed)
       \/ \E g \in grants, r \in runtimes : Prepare(g, r)

-----------------------------------------------------------------------------

\* A motion that is prepared was authorized by what is still so: the stop, the
\* interface and the nodes of its adapter were all up within a snapshot's age of now
\* (plus what a probe takes and the prober's clock is ahead), the manifest is the one
\* it was granted and probed under, somebody confirmed an endpoint that asks for it,
\* and what is called can be cancelled and is the only owner of the capability. The
\* parts need never have been up together: the probe reads them one by one.
AuthorityIsCurrent ==
    prepared # Nothing =>
        LET g == prepared.grant
            a == prepared.adapter
            horizon == prepared.at - SnapshotAge - FutureSkew - 1
        IN
        /\ \A part \in {a.id, "stop"} \cup a.nodes : prepared.lastUp[part] >= horizon
        /\ prepared.manifest = g.profile /\ g.runtime.profile = g.profile
        /\ g.step.confirm => g.confirmed
        /\ ~g.step.leaseOnly /\ g.step.adapter = a.id /\ g.step.capability = g.capability
        /\ a.kind = "action" /\ a.cancelOnTimeout /\ ~a.raw
        /\ \A b \in prepared.manifest.adapters : g.capability \in b.capabilities => b = a
=============================================================================
