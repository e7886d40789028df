------------------------------ MODULE RouteGraph ------------------------------
(***************************************************************************)
(* Which routes may be driven and in which order they are offered:         *)
(* the dependency policy (dependency_policy.py) and the evaluation of a    *)
(* route graph (route_graph.py).                                           *)
(*                                                                         *)
(* A graph is a sequence of routes [id, base, locations, deps]; a          *)
(* dependency is [resource, contract]; an observation map gives a record   *)
(* for the resources somebody reported, Unobserved stands for the others.  *)
(* Identifiers are numbers, ordered as the program orders its strings.     *)
(***************************************************************************)
EXTENDS Integers, Sequences, FiniteSetsExt, SequencesExt

CONSTANTS MaxAge,       \* the age given to what was never observed (a day)
          MaxRoutes     \* bound: routes of a graph

-----------------------------------------------------------------------------
\* One dependency.

Unobserved == [healthy |-> FALSE, confidence |-> 0, age |-> MaxAge, available |-> FALSE,
               equivalent |-> FALSE, validated |-> FALSE, evidence |-> FALSE]

\* DependencyContract.from_mapping() accepts the contract. A missing axis has the
\* value of observer_default().
ValidContract(c) ==
    /\ c.safety \in {"none", "pause", "stop", "abort"}
    /\ c.task \in {"none", "degrade", "block", "invalidate"}
    /\ c.evidence \in {"none", "record", "required"}
    /\ c.substitution \in {"any_healthy", "equivalent", "validated", "none"}
    /\ c.confidence \in Nat /\ c.maxAge \in Nat
    /\ c.phases # {}

InScope(c, phase) == "*" \in c.phases \/ phase \in c.phases

EvidenceReady(c, o) == c.evidence = "required" => o.evidence

Ready(c, o) == /\ o.healthy /\ o.confidence >= c.confidence /\ o.age <= c.maxAge
               /\ EvidenceReady(c, o)

SubstituteAllowed(c, o) ==
    /\ o.available
    /\ \/ c.substitution = "any_healthy"
       \/ c.substitution = "equivalent" /\ o.equivalent
       \/ c.substitution = "validated" /\ o.validated

MustStop(c) == c.safety \in {"stop", "abort"} \/ c.task = "invalidate"

\* Mutant: a loss that blocks is looked at before one that invalidates.
LossByOrder(c) ==
    IF c.safety = "abort" THEN "safe_stop_and_abort"
    ELSE IF c.safety = "stop" THEN "safe_stop_and_escalate"
    ELSE IF c.safety = "pause" THEN "pause_and_escalate"
    ELSE IF c.task = "block" THEN "pause_and_escalate"
    ELSE IF c.task = "none" THEN "continue_without_resource"
    ELSE "continue_degraded"

\* What is done about a resource that is not ready and has no substitute.
Loss(c) ==
    IF c.safety = "abort" THEN "safe_stop_and_abort"
    ELSE IF c.safety = "stop" THEN "safe_stop_and_escalate"
    ELSE IF c.safety = "pause" THEN "pause_and_escalate"
    ELSE IF c.task = "invalidate" THEN "abort_and_invalidate"
    ELSE IF c.task = "block" THEN "pause_and_escalate"
    ELSE IF c.task = "degrade" THEN "continue_degraded"
    ELSE "continue_without_resource"

Substitution(c) ==
    IF MustStop(c) THEN "safe_stop_then_switch_substitute"
    ELSE IF c.safety = "pause" THEN "pause_then_switch_substitute"
    ELSE "switch_substitute"

\* assess_device_dependency(): the action.
Action(c, o, phase) ==
    IF ~InScope(c, phase) THEN "ignore_outside_scope"
    ELSE IF Ready(c, o) THEN "use_resource"
    ELSE IF SubstituteAllowed(c, o) THEN Substitution(c)
    ELSE Loss(c)

\* derived_band(): what a user interface shows of a contract.
Band(c) ==
    IF c.safety = "abort" \/ c.task = "invalidate" THEN "mission_critical"
    ELSE IF c.safety = "stop" THEN "safety_critical"
    ELSE IF c.safety = "pause" \/ c.task = "block" \/ c.evidence = "required" THEN "required"
    ELSE IF c.task = "degrade" \/ c.evidence = "record" THEN "assistive"
    ELSE "optional"

-----------------------------------------------------------------------------
\* A graph.

Blocking == {"abort_and_invalidate", "pause_and_escalate", "safe_stop_and_abort",
             "safe_stop_and_escalate"}

Penalty(action) ==
    CASE action \in {"use_resource", "ignore_outside_scope"} -> 0
      [] action = "switch_substitute" -> 8
      [] action \in {"safe_stop_then_switch_substitute", "pause_then_switch_substitute"} -> 12
      [] action = "continue_degraded" -> 20
      [] action = "continue_without_resource" -> 30
      [] OTHER -> 50

\* RouteGraph.from_mapping() accepts the graph.
ValidGraph(routes) ==
    /\ Len(routes) \in 2..MaxRoutes
    /\ \A i, j \in DOMAIN routes : routes[i].id = routes[j].id => i = j
    /\ \A i \in DOMAIN routes : /\ Len(routes[i].locations) >= 2
                                /\ IsInjective(routes[i].locations)
                                /\ \A k \in DOMAIN routes[i].deps : ValidContract(routes[i].deps[k].contract)

Observed(obs, resource) == IF resource \in DOMAIN obs THEN obs[resource] ELSE Unobserved

Actions(route, obs, phase) ==
    [i \in DOMAIN route.deps |->
        Action(route.deps[i].contract, Observed(obs, route.deps[i].resource), phase)]

Excluded(route, obs, phase) ==
    \E i \in DOMAIN route.deps : Actions(route, obs, phase)[i] \in Blocking

Score(route, obs, phase) ==
    LET paid == {i \in DOMAIN route.deps : Actions(route, obs, phase)[i] \notin Blocking}
    IN  route.base - MapThenSumSet(LAMBDA i : Penalty(Actions(route, obs, phase)[i]), paid)

\* evaluate(): the routes nothing blocks, with what they score.
Candidates(routes, obs, phase) ==
    {[id |-> routes[i].id, score |-> Score(routes[i], obs, phase)] :
        i \in {j \in DOMAIN routes : ~Excluded(routes[j], obs, phase)}}

Ahead(a, b) == a.score > b.score \/ (a.score = b.score /\ a.id < b.id)

\* The best of them, as many as the limit admits.
Shown(all, limit) == {c \in all : Cardinality({b \in all : Ahead(b, c)}) < limit}

\* No candidate is an error.
Offer(routes, obs, phase, limit, all) ==
    IF ~ValidGraph(routes) \/ all = {} THEN [ok |-> FALSE]
    ELSE [ok |-> TRUE, candidates |-> Shown(all, limit),
          excluded |-> {routes[i].id : i \in {j \in DOMAIN routes : Excluded(routes[j], obs, phase)}}]

Evaluate(routes, obs, phase, limit) ==
    Offer(routes, obs, phase, limit, Candidates(routes, obs, phase))

===============================================================================
