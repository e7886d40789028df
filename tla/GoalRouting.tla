------------------------------ MODULE GoalRouting ------------------------------
(***************************************************************************)
(* What an operator's goal is routed to: the place it names                *)
(* (goal_resolver.py), and the shortlist of capabilities a planner may use *)
(* for it (capabilities.py).                                               *)
(*                                                                         *)
(* A text is a sequence of units: a Chinese character or a whole word (in  *)
(* Words). A goal is [text, asks]: asks holds what its phrases ask for     *)
(* (a motor command, an override of safety, a delivery). A map is a        *)
(* function from location numbers to [id, labels, pose]: id a text, labels *)
(* a sequence of texts; numbers are ordered as the identifiers are.        *)
(* Normalisation is done: texts that fold to one another are one text.     *)
(*                                                                         *)
(* The registry of capabilities is the program's own                       *)
(* (default_capability_registry), in the order of the canonical            *)
(* identifiers. Every capability has one intent, one affordance and        *)
(* effects of its own, so one name stands for each of them; events are     *)
(* shared. A frame asks for intents, affordances, effects (sets of         *)
(* capability names) and events. Without a frame the goal's words score:   *)
(* score[c], in quarters of a point.                                       *)
(***************************************************************************)
EXTENDS Integers, Sequences, FiniteSetsExt, SequencesExt

CONSTANTS Words,         \* the units that are words
          MaxFragment,   \* longest fragment compared (8)
          MaxLocations,  \* MAX_RESOLVED_LOCATIONS
          NoFrame

ASSUME RoutingAssumption == MaxFragment \in Nat /\ MaxLocations \in Nat

-----------------------------------------------------------------------------
\* The place a goal names.

Within(s, t) == \E i \in 0..(Len(t) - Len(s)) : SubSeq(t, i + 1, i + Len(s)) = s

\* _cjk_fragments(): two characters or more, of runs that hold a character.
Fragments(t) ==
    {f \in {SubSeq(t, i, j) : i, j \in DOMAIN t} :
        Len(f) \in 2..MaxFragment /\ Range(f) \cap Words = {}}

\* _word_tokens()
Tokens(t) == Range(t) \cap Words

Match(score, keys) == [score |-> score, keys |-> keys]

IdMatch(id, text) == IF Within(id, text) THEN Match(80, <<id>>) ELSE Match(0, <<>>)

\* The whole label, else a longest common fragment (which of several depends on the
\* order of a set of strings, that is on the process), else every common word.
LabelMatches(label, text) ==
    LET common == Fragments(label) \cap Fragments(text)
        words  == Tokens(label) \cap Tokens(text)
    IN  IF Within(label, text) THEN {Match(60 + Len(label), <<label>>)}
        ELSE IF common # {}
        THEN {Match(30 + Len(f), <<f>>) : f \in {g \in common : \A h \in common : Len(h) <= Len(g)}}
        ELSE {Match(20 * Cardinality(words), SetToSeq({<<w>> : w \in words}))}

\* What the identifier (0) and the labels of a location match.
Matches(loc, i, text) == IF i = 0 THEN {IdMatch(loc.id, text)} ELSE LabelMatches(loc.labels[i], text)

Matchings(loc, text) ==
    LET lines == 0..Len(loc.labels) IN
    {m \in [lines -> UNION {Matches(loc, i, text) : i \in lines}] : \A i \in lines : m[i] \in Matches(loc, i, text)}

\* The keys matched, in order; the first four are kept.
KeyPositions(m) == UNION {{i} \X DOMAIN m[i].keys : i \in DOMAIN m}
KeyAt(m, p) == m[p[1]].keys[p[2]]
Before(p, q) == p[1] < q[1] \/ (p[1] = q[1] /\ p[2] < q[2])

Kept(m) ==
    {KeyAt(m, p) : p \in {q \in KeyPositions(m) :
        Cardinality({KeyAt(m, r) : r \in {o \in KeyPositions(m) : Before(o, q)}}) < 4}}

\* _score_location(): the scores of all of them add up.
Total(m) == [score |-> MapThenSumSet(LAMBDA i : m[i].score, DOMAIN m), keys |-> Kept(m)]

Scores(loc, text) == {Total(m) : m \in Matchings(loc, text)}

Scorings(map, text) ==
    {s \in [DOMAIN map -> UNION {Scores(map[l], text) : l \in DOMAIN map}] :
        \A l \in DOMAIN map : s[l] \in Scores(map[l], text)}

Keys(loc) == {loc.id} \cup Range(loc.labels)

KnownKeys(map) == UNION {Keys(map[l]) : l \in DOMAIN map}

\* _discriminative_keys(): owned by one location.
Discriminative(map) ==
    {k \in UNION {Keys(map[l]) : l \in DOMAIN map} :
        Cardinality({l \in DOMAIN map : k \in Keys(map[l])}) = 1}

\* _screen_goal(): the reason a goal is refused unread, or "".
Screen(goal) ==
    IF goal.asks \cap {"actuator", "override"} # {} THEN "safety_override_refused"
    ELSE IF "delivery" \notin goal.asks THEN "intent_unsupported"
    ELSE ""

Refused(reason) == [reason |-> reason, at |-> 0]

Best(contenders, scored) ==
    CHOOSE l \in contenders : \A k \in contenders :
        scored[l].score > scored[k].score \/ (scored[l].score = scored[k].score /\ l <= k)

\* Those that score three fifths of the best or more.
Rivals(best, contenders, scored) ==
    {l \in contenders \ {best} : 10 * scored[l].score >= 6 * scored[best].score}

Choice(best, rivals) ==
    IF rivals # {} THEN Refused("location_ambiguous") ELSE [reason |-> "", at |-> best]

Pick(contenders, scored) ==
    IF contenders = {} THEN Refused("location_unresolved")
    ELSE LET best == Best(contenders, scored) IN Choice(best, Rivals(best, contenders, scored))

Contenders(map, scored) == {l \in DOMAIN map : scored[l].keys \cap Discriminative(map) # {}}

PickOf(map, scored) == Pick(Contenders(map, scored), scored)

\* resolve_delivery_goal(): one location, or the reason there is none.
Resolutions(goal, map) ==
    IF goal.text = <<>> THEN {Refused("intent_unsupported")}
    ELSE IF Cardinality(DOMAIN map) \notin 1..MaxLocations THEN {Refused("semantic_map_unavailable")}
    ELSE IF Screen(goal) # "" THEN {Refused(Screen(goal))}
    ELSE {PickOf(map, scored) : scored \in Scorings(map, goal.text)}

\* A key of its own of this place stands in the text, whole.
NamedByOwnKey(map, l, text) ==
    \E k \in Keys(map[l]) : /\ Within(k, text)
                            /\ \A other \in DOMAIN map \ {l} : k \notin Keys(map[other])

-----------------------------------------------------------------------------
\* The capabilities it may use.

Capability(name, class, observations, resources, permissions, events) ==
    [name |-> name, class |-> class, observations |-> observations,
     resources |-> resources, permissions |-> permissions, events |-> events]

Jog == {"input.pressed", "input.released", "input.disconnected", "obstacle.detected"}
Moving == {"odometry", "minimum_range"}

\* default_capability_registry()
AskHuman == Capability("ask_human", "human_gate", {"human_decision"}, {"operator_channel"}, {},
                       {"ambiguity.detected"})

ResumeTask == Capability("resume", "human_gate", {"human_decision"}, {"operator_channel"}, {},
                         {"human.approved"})

SaveCurrentLocation ==
    Capability("save_current_location", "memory", {"odometry"}, {"semantic_map"},
               {"location.write"}, {"location.teach.requested"})

MoveRelative == Capability("move_relative", "motion", Moving, {"base_controller"}, {}, Jog)

TurnRelative == Capability("turn_relative", "motion", Moving, {"base_controller"}, {}, Jog)

Navigate == Capability("navigate", "motion", Moving, {"base_controller"}, {}, {"obstacle.detected"})

NavigateToLocation ==
    Capability("navigate_to_location", "motion", Moving, {"base_controller", "semantic_map"},
               {"location.read"}, {"obstacle.detected", "location.missing"})

StopSafely == Capability("safe_stop", "safety", {}, {}, {},
                         {"emergency.requested", "human.detected", "obstacle.detected"})

WaitUntilClear == Capability("wait_until_clear", "safety", {"minimum_range"}, {"range_sensor"}, {},
                             {"human.detected", "obstacle.detected"})

Dwell == Capability("dwell", "timed", {}, {}, {}, {})

FollowLine ==
    Capability("follow_line", "motion", {"camera.line_scene", "minimum_range"},
               {"base_controller", "camera"}, {},
               {"line.changed", "line.detected", "obstacle.detected"})

Registry == <<AskHuman, ResumeTask, SaveCurrentLocation, MoveRelative, Navigate, NavigateToLocation,
              TurnRelative, StopSafely, WaitUntilClear, Dwell, FollowLine>>

Names == {Registry[i].name : i \in DOMAIN Registry}

\* legacy_zero_score_fallback
Legacy(c) == c.name \notin {"move_relative", "navigate_to_location", "save_current_location",
                            "turn_relative"}

\* _hard_filter() finds nothing against it. An absent set of the context (NoFrame)
\* filters nothing.
Usable(c, ctx) ==
    /\ ctx.enabled # NoFrame => c.name \in ctx.enabled
    /\ \A f \in {"observations", "resources", "permissions"} :
          ctx[f] # NoFrame => c[f] \subseteq ctx[f]

\* _score() for a frame.
FrameScore(c, frame) ==
    LET own(names) == IF c.name \in names THEN 1 ELSE 0 IN
    12 * own(frame.intents) + 16 * own(frame.affordances) + 8 * own(frame.effects)
      + 10 * Cardinality(frame.events \cap c.events)

Wants(frame) ==
    {<<"intent", n>> : n \in frame.intents} \cup {<<"affordance", n>> : n \in frame.affordances}
    \cup {<<"effect", n>> : n \in frame.effects} \cup {<<"event", e>> : e \in frame.events}
Gives(c) ==
    ({"intent", "affordance", "effect"} \X {c.name}) \cup ({"event"} \X c.events)

\* _ensure_candidate(): the stop takes the place of the last one of a full list.
Ensure(selected, ranked, name, limit) ==
    IF name \in Range(selected) \/ name \notin Range(ranked) THEN selected
    ELSE Append(IF Len(selected) >= limit THEN Front(selected) ELSE selected, name)

Definition(name) == Registry[CHOOSE i \in DOMAIN Registry : Registry[i].name = name]

\* The best score first, and then by identifier.
Outranks(e, f) == e.score > f.score \/ (e.score = f.score /\ e.at < f.at)

InOrder(entries) ==
    [k \in 1..Cardinality(entries) |->
        CHOOSE e \in entries : Cardinality({f \in entries : Outranks(f, e)}) = k - 1]

Entry(i, frame, words) ==
    [def |-> Registry[i], at |-> i,
     score |-> IF frame = NoFrame THEN words[Registry[i].name] ELSE FrameScore(Registry[i], frame)]

\* What may be used.
Ranked(frame, words, ctx) ==
    InOrder({Entry(i, frame, words) : i \in {j \in DOMAIN Registry : Usable(Registry[j], ctx)}})

\* Those with a score; without a frame the older ones too, whatever they score.
Pool(ranked, frame) ==
    InOrder({e \in Range(ranked) : e.score > 0 \/ (frame = NoFrame /\ Legacy(e.def))})

Cut(s, limit) == SubSeq(s, 1, IF Len(s) < limit THEN Len(s) ELSE limit)

NamesOf(s) == [k \in DOMAIN s |-> s[k].def.name]

\* The shortlist: a motion the goal asks for brings the stop with it.
Selected(ranked, first, limit) ==
    IF \E k \in DOMAIN first : first[k].def.class = "motion" /\ first[k].score > 0
    THEN Ensure(NamesOf(first), NamesOf(ranked), "safe_stop", limit)
    ELSE NamesOf(first)

\* Two that score alike, or none that scores enough.
Unclear(ranked, relevant, selected) ==
    LET top    == IF relevant # <<>> THEN relevant[1].score
                  ELSE IF ranked # <<>> THEN ranked[1].score ELSE 0
        second == IF Len(relevant) > 1 THEN relevant[2].score ELSE 0
    IN  IF top >= 8 /\ second >= 8 THEN top - second <= 1 ELSE selected = <<>> \/ top < 8

Missing(frame, selected) ==
    IF frame = NoFrame THEN {}
    ELSE Wants(frame) \ UNION {Gives(Definition(selected[k])) : k \in DOMAIN selected}

Routed(frame, ranked, selected, missing) ==
    [names |-> selected, missing |-> missing,
     clarify |-> IF frame # NoFrame THEN selected = <<>> \/ missing # {}
                 ELSE Unclear(ranked, InOrder({e \in Range(ranked) :
                                          e.def.class \notin {"safety", "human_gate"}}), selected)]

Shortlisted(frame, ranked, selected) == Routed(frame, ranked, selected, Missing(frame, selected))

\* route(): frame and words are the goal's, ctx what is known of the robot.
RouteCapabilities(frame, words, ctx, limit) ==
    LET ranked == Ranked(frame, words, ctx)
    IN  Shortlisted(frame, ranked, Selected(ranked, Cut(Pool(ranked, frame), limit), limit))
===============================================================================
