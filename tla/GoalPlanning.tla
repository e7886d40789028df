----------------------------- MODULE GoalPlanning -----------------------------
(***************************************************************************)
(* From a goal to an executable workflow, while people teach places.       *)
(*                                                                         *)
(* Three planners share the semantic map: the rule engine for deliveries   *)
(* (goal_planner.py), a language model (request_ai_plan, ai_planner.py)    *)
(* and a planning session over a route graph, with one change of the       *)
(* dependencies between its two rounds (planning_session.py). Each reads   *)
(* the map when it resolves or asks, and once more when it compiles.       *)
(* The map (semantic_map.py) and the named places of a robot (places.py)   *)
(* are files that are read, changed and replaced: the map under the lock   *)
(* of a store instance, the places under a lock that processes share.      *)
(*                                                                         *)
(* One request is planned at a time. Locations are numbers; a plan's step  *)
(* is [kind, to, next].                                                    *)
(***************************************************************************)
EXTENDS GoalRouting, PlanPolicy, RouteGraph

CONSTANTS
    Initial,      \* the semantic map on disk at the start: location -> [id, labels, pose]
    Identifier,   \* location -> its id as a text
    Lessons,      \* what may be taught: [loc, label, pose]
    Teachers,     \* missions that teach, all over one store instance
    Markers,      \* calls that mark a place
    PlaceNames,   \* names of places
    Poses,
    Goals,        \* [text, asks] of the deliveries
    Contexts,     \* routing contexts
    WordScores,   \* scores of goals without a frame: capability -> score
    Limits,       \* lengths of a shortlist
    Proposals,    \* plans a model may return
    Graph,        \* the routes of the planning session
    Sightings,    \* observations of the resources: resource -> observation
    Changes,      \* changes between the rounds: [resource, observation]
    MaxLabels,    \* MAX_LABELS_PER_LOCATION
    MaxRevision,  \* bound: revisions of the map
    MaxPlaces,    \* MAX_PLACES: names a map can hold
    MaxMarks      \* bound: calls of mark()

VARIABLES
    file,      \* the semantic map on disk: [revision, at]
    lesson,    \* teacher -> remember() after its load: [snapshot, loc, label, pose], or None
    taught,    \* ghost: location -> the pose last taught, by return of remember()
    places,    \* the places file: name -> pose
    marking,   \* marker -> mark() under the lock: [before, name, pose], or None
    marked,    \* ghost: name -> the pose last marked
    marks,     \* places marked so far
    job        \* the request being planned

storeVars == <<file, lesson, taught>>
placeVars == <<places, marking, marked, marks>>
planningVars == <<file, lesson, taught, places, marking, marked, marks, job>>

\* No request; a request sets what its planner needs.
Idle == [pc |-> "idle", by |-> None, reason |-> "", plan |-> <<>>, stations |-> <<>>,
         goal |-> None, loc |-> None, seen |-> None,
         ctx |-> None, words |-> None, route |-> None,
         round |-> 0, sights |-> None, change |-> None, first |-> None, id |-> None]

-----------------------------------------------------------------------------
\* The semantic map.

\* SemanticLocation accepts the location: an identifier of its own, labels of which
\* no two are one.
ValidLocation(l, place) ==
    /\ place.id = Identifier[l]
    /\ Len(place.labels) \in 1..MaxLabels
    /\ IsInjective(place.labels)

\* parse_semantic_location_map() and SemanticLocationMap accept the map.
ValidMap(at) == \A l \in DOMAIN at : ValidLocation(l, at[l])

ASSUME PlanningAssumption ==
    /\ IsFiniteSet(DOMAIN Initial)
    /\ ValidMap(Initial)
    /\ ValidGraph(Graph)
    /\ \A goal \in Goals : goal.text \in Seq(Range(goal.text))
    /\ WordScores \subseteq [Names -> Nat] /\ Limits \subseteq Nat \ {0}

\* SemanticLocationStore.remember(): what is written for a location.
Remembered(map, l) ==
    LET labels == IF l.loc \in DOMAIN map.at THEN map.at[l.loc].labels ELSE <<>> IN
    [revision |-> map.revision + 1,
     at |-> [k \in DOMAIN map.at \cup {l.loc} |->
               IF k = l.loc
               THEN [id |-> Identifier[k], pose |-> l.pose,
                     labels |-> IF l.label \in Range(labels) THEN labels ELSE Append(labels, l.label)]
               ELSE map.at[k]]]

\* _lock is free: nobody is between the load and the write of remember().
StoreFree == \A t \in Teachers : lesson[t] = None

Opened(l) == [snapshot |-> file, loc |-> l.loc, label |-> l.label, pose |-> l.pose]

\* Mutant: the lock is not held.
LoadUnlocked(t) ==
    /\ lesson[t] = None /\ file.revision < MaxRevision
    /\ \E l \in Lessons : lesson' = [lesson EXCEPT ![t] = Opened(l)]
    /\ UNCHANGED <<file, taught, placeVars, job>>

LoadForWrite(t) ==
    /\ lesson[t] = None /\ StoreFree /\ file.revision < MaxRevision
    /\ \E l \in Lessons : lesson' = [lesson EXCEPT ![t] = Opened(l)]
    /\ UNCHANGED <<file, taught, placeVars, job>>

WriteMap(t) ==
    /\ lesson[t] # None
    /\ ValidMap(Remembered(lesson[t].snapshot, lesson[t]).at)
    /\ file' = Remembered(lesson[t].snapshot, lesson[t])
    /\ taught' = [taught EXCEPT ![lesson[t].loc] = lesson[t].pose]
    /\ lesson' = [lesson EXCEPT ![t] = None]
    /\ UNCHANGED <<placeVars, job>>

\* The write fails (too many labels, the map too large, the disk): nothing changed.
WriteFails(t) ==
    /\ lesson[t] # None
    /\ lesson' = [lesson EXCEPT ![t] = None]
    /\ UNCHANGED <<file, taught, placeVars, job>>

-----------------------------------------------------------------------------
\* The places of a robot.

\* mark(): the read, under _file_lock().
MarkRead(m) ==
    /\ \A n \in Markers : marking[n] = None
    /\ marks < MaxMarks
    /\ \E name \in PlaceNames, pose \in Poses :
          marking' = [marking EXCEPT ![m] = [before |-> places, name |-> name, pose |-> pose]]
    /\ UNCHANGED <<places, marked, marks, storeVars, job>>

\* The rest of mark(): a known name moves, a new one is refused when the map is full.
MarkWrite(m) ==
    LET w    == marking[m]
        fits == w.name \in DOMAIN w.before \/ Cardinality(DOMAIN w.before) < MaxPlaces
    IN  /\ w # None
        /\ places' = IF fits THEN (w.name :> w.pose) @@ w.before ELSE places
        /\ marked' = IF fits THEN (w.name :> w.pose) @@ marked ELSE marked
        /\ marking' = [marking EXCEPT ![m] = None]
        /\ marks' = marks + 1
        /\ UNCHANGED <<storeVars, job>>

-----------------------------------------------------------------------------
\* Compilation, shared by the planners.

Destinations(plan) == {i \in DOMAIN plan : plan[i].kind = "navigate_to_location"}

\* parse_plan(): registered calls, and the rules across steps.
Parsed(plan) ==
    /\ plan # <<>> /\ \A i \in DOMAIN plan : plan[i].kind \in Names
    /\ PlanPolicy(plan)

KindsOf(plan) == {plan[i].kind : i \in DOMAIN plan}

Rejected(reason) == job' = [Idle EXCEPT !.pc = "done", !.by = job.by, !.reason = reason]

\* A plan the planner accepts goes to the compilation.
Accepted(plan) == job' = [job EXCEPT !.pc = "compile", !.plan = plan]

\* compile_workflow(): one semantic identifier after the other becomes a pose of
\* the map as it is then; an unknown one ends the compilation.
Unresolved == Destinations(job.plan) \ DOMAIN job.stations

CompileNext ==
    LET i == Min(Unresolved) IN
    /\ job.pc = "compile" /\ Unresolved # {} /\ StoreFree
    /\ IF job.plan[i].to \in DOMAIN file.at
       THEN job' = [job EXCEPT !.stations = (i :> file.at[job.plan[i].to].pose) @@ @]
       ELSE Rejected("plan_not_executable")
    /\ UNCHANGED <<storeVars, placeVars>>

HandOver ==
    /\ job.pc = "compile" /\ Unresolved = {}
    /\ job' = [job EXCEPT !.pc = "done"]
    /\ UNCHANGED <<storeVars, placeVars>>

Forget == job.pc = "done" /\ job' = Idle /\ UNCHANGED <<storeVars, placeVars>>

-----------------------------------------------------------------------------
\* The rule engine.

Step(kind, to) == [kind |-> kind, to |-> to, next |-> None]

\* compose_delivery_plan()
DeliveryPlan(loc) ==
    << Step("navigate", None), Step("dwell", None), Step("navigate_to_location", loc),
       Step("ask_human", "dropoff"), Step("resume", "dropoff"), Step("dwell", None),
       Step("safe_stop", None) >>

\* The frame without the time a delivery waits at its stations.
DeliveryFrameUntimed ==
    LET all == {"navigate", "navigate_to_location", "ask_human", "resume", "safe_stop"}
    IN  [intents |-> all, affordances |-> all, effects |-> all, events |-> {}]

\* DELIVERY_GOAL_FRAME: each capability by its intent, its affordance and its effect.
DeliveryFrame ==
    LET all == {"navigate", "navigate_to_location", "dwell", "ask_human", "resume", "safe_stop"}
    IN  [intents |-> all, affordances |-> all, effects |-> all, events |-> {}]

ASSUME FrameAssumption == DeliveryFrame # NoFrame

\* _routing_context(): the constants of a delivery, whatever the robot has.
DeliveryContext ==
    [enabled |-> NoFrame,
     observations |-> {"odometry", "minimum_range", "human_decision"},
     resources |-> {"base_controller", "semantic_map", "operator_channel", "range_sensor"},
     permissions |-> {"location.read"}]

\* resolve_delivery_goal(), the first read of the map.
ResolveGoal(goal) ==
    /\ job = Idle /\ StoreFree
    /\ \E r \in Resolutions(goal, file.at) :
          job' = IF r.reason # ""
                 THEN [Idle EXCEPT !.pc = "done", !.by = "rules", !.reason = r.reason]
                 ELSE [Idle EXCEPT !.pc = "route", !.by = "rules",
                                   !.goal = goal, !.loc = r.at, !.seen = file]
    /\ UNCHANGED <<storeVars, placeVars>>

\* route(), the reasons it gives to refuse, and the composed plan.
RouteDelivery ==
    LET route == RouteCapabilities(DeliveryFrame, NoFrame, DeliveryContext, 8)
        plan  == DeliveryPlan(job.loc)
    IN  /\ job.pc = "route"
        /\ IF route.clarify \/ route.missing # {} THEN Rejected("capability_route_ambiguous")
           ELSE IF ~(KindsOf(plan) \subseteq Range(route.names)) THEN Rejected("capability_outside_shortlist")
           ELSE IF ~Parsed(plan) THEN Rejected("plan_not_executable")
           ELSE Accepted(plan)
        /\ UNCHANGED <<storeVars, placeVars>>

-----------------------------------------------------------------------------
\* The language model.

\* planner_request()
AskModel(words, ctx, limit) ==
    /\ job = Idle /\ StoreFree
    /\ job' = [Idle EXCEPT !.pc = "asked", !.by = "model", !.ctx = ctx, !.words = words,
                           !.route = RouteCapabilities(NoFrame, words, ctx, limit)]
    /\ UNCHANGED <<storeVars, placeVars>>

\* request_ai_plan() after the answer. A model that does not answer, or whose
\* answer is no plan, is a rejection too.
ModelAnswers(plan) ==
    /\ job.pc = "asked"
    /\ IF /\ Parsed(plan)
          /\ KindsOf(plan) \subseteq Range(job.route.names)
          /\ job.route.clarify => "ask_human" \in KindsOf(plan)
       THEN Accepted(plan)
       ELSE Rejected("refused")
    /\ UNCHANGED <<storeVars, placeVars>>

ModelFails == job.pc \in {"asked", "round"} /\ Rejected("no_answer") /\ UNCHANGED <<storeVars, placeVars>>

-----------------------------------------------------------------------------
\* The planning session.

Preflight(sights) == Evaluate(Graph, sights, "preflight", 8)
RouteOf(id) == Graph[CHOOSE i \in DOMAIN Graph : Graph[i].id = id]
CandidateIds(e) == {c.id : c \in e.candidates}
DependsOn(id) == {RouteOf(id).deps[i].resource : i \in DOMAIN RouteOf(id).deps}

\* The locations a plan visits, in order.
Visits(plan) == LET stops == SelectSeq(plan, LAMBDA s : s.kind = "navigate_to_location")
                IN  [i \in DOMAIN stops |-> stops[i].to]

\* run_planning_session() up to the first question.
StartSession(sights, change) ==
    /\ job = Idle /\ StoreFree
    /\ job' = IF Preflight(sights).ok
              THEN [Idle EXCEPT !.pc = "round", !.by = "session", !.round = 1,
                                !.sights = sights, !.change = change]
              ELSE [Idle EXCEPT !.pc = "done", !.by = "session", !.reason = "no_route"]
    /\ UNCHANGED <<storeVars, placeVars>>

\* _verify_attestation(): the answer is to this round's request, its route a
\* candidate of it, and the plan visits that route.
Attested(plan, id, round) ==
    /\ round = job.round /\ Parsed(plan)
    /\ id \in CandidateIds(Preflight(job.sights))
    /\ Visits(plan) = RouteOf(id).locations

FirstRound(plan, id, round) ==
    LET revised == (job.change.resource :> job.change.observation) @@ job.sights IN
    /\ job.pc = "round" /\ job.round = 1
    /\ IF /\ Attested(plan, id, round)
          /\ job.change.resource \in DependsOn(id)
          /\ Preflight(revised).ok
          /\ id \notin CandidateIds(Preflight(revised))
       THEN job' = [job EXCEPT !.round = 2, !.sights = revised, !.first = id]
       ELSE Rejected("refused")
    /\ UNCHANGED <<storeVars, placeVars>>

SecondRound(plan, id, round) ==
    /\ job.pc = "round" /\ job.round = 2
    /\ IF Attested(plan, id, round) /\ id # job.first
       THEN job' = [job EXCEPT !.pc = "compile", !.plan = plan, !.id = id]
       ELSE Rejected("refused")
    /\ UNCHANGED <<storeVars, placeVars>>

-----------------------------------------------------------------------------
PlanningInit ==
    /\ file = [revision |-> 0, at |-> Initial]
    /\ lesson = [t \in Teachers |-> None]
    /\ taught = [l \in {k.loc : k \in Lessons} |-> None]
    /\ places = <<>> /\ marked = <<>> /\ marks = 0
    /\ marking = [m \in Markers |-> None]
    /\ job = Idle

PlanningNext ==
    \/ \E t \in Teachers : LoadForWrite(t) \/ WriteMap(t) \/ WriteFails(t)
    \/ \E m \in Markers : MarkRead(m) \/ MarkWrite(m)
    \/ \E g \in Goals : ResolveGoal(g)
    \/ RouteDelivery
    \/ \E w \in WordScores, c \in Contexts, n \in Limits : AskModel(w, c, n)
    \/ \E p \in Proposals : ModelAnswers(p)
    \/ ModelFails
    \/ \E s \in Sightings, c \in Changes : StartSession(s, c)
    \/ \E p \in Proposals, i \in {Graph[k].id : k \in DOMAIN Graph}, r \in 1..2 :
          FirstRound(p, i, r) \/ SecondRound(p, i, r)
    \/ CompileNext
    \/ HandOver
    \/ Forget

-----------------------------------------------------------------------------
Executable(by) == job.pc = "done" /\ job.by = by /\ job.plan # <<>>

\* A delivery is planned only if the goal holds, whole, an id or a label that one
\* place alone has: a name two places share, or a part of a name, selects nothing
\* (goal_resolver.py:369).
PlaceIsNeverGuessed ==
    Executable("rules") =>
        \E l \in DOMAIN job.seen.at : NamedByOwnKey(job.seen.at, l, job.goal.text)

\* "shared suffixes ... must never pick a winner" (goal_resolver.py:370): and that
\* place is the one the delivery goes to.
DestinationWasNamed ==
    Executable("rules") => NamedByOwnKey(job.seen.at, job.loc, job.goal.text)

\* A delivery's composed plan always passes the planner's own rules: it is
\* refused for its goal or because its place is gone, never for the shortlist.
DeliveryIsComposable ==
    job.pc = "done" /\ job.by = "rules" =>
        job.reason \notin {"capability_route_ambiguous", "capability_outside_shortlist"}

\* A shortlist with a motion the goal asks for has the stop that must end the plan,
\* however short the list is (capabilities.py:801).
RoutedMotionCanStop ==
    job.pc = "asked" =>
        \/ \A m \in Range(job.route.names) \cap Motion : job.words[m] = 0
        \/ ~Usable(Definition("safe_stop"), job.ctx)
        \/ "safe_stop" \in Range(job.route.names)

\* The capability shortlist never cuts out what the plan needs to be carried out.
PlansCanBeCarriedOut == DeliveryIsComposable /\ RoutedMotionCanStop

\* The route a session ends with lost nothing it needs: what its contract calls
\* unsafe, blocking or invalidating is ready, or replaced as the contract allows.
SelectedRouteHasItsResources ==
    Executable("session") =>
        \A i \in DOMAIN RouteOf(job.id).deps :
            LET d == RouteOf(job.id).deps[i]
                o == Observed(job.sights, d.resource)
            IN  \/ Ready(d.contract, o) \/ SubstituteAllowed(d.contract, o)
                \/ ~InScope(d.contract, "preflight")
                \/ d.contract.safety = "none" /\ d.contract.task \in {"none", "degrade"}

\* Nothing that was taught or marked is lost or goes back to an older pose while
\* nobody is writing (semantic_map.py:363, places.py:180).
NothingTaughtIsLost ==
    /\ StoreFree => \A l \in DOMAIN taught : taught[l] # None =>
                        l \in DOMAIN file.at /\ file.at[l].pose = taught[l]
    /\ places = marked
===============================================================================
