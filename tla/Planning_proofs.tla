---------------------------- MODULE Planning_proofs ----------------------------
(***************************************************************************)
(* Theorems about GoalPlanning, for any map, graph, goals and proposals:   *)
(* nothing that was taught is lost, a delivery is planned only for a name  *)
(* that one place alone has, no shortlist cuts out what a plan needs, and  *)
(* the route a session ends with has its resources; about                  *)
(* FacilityResources, for any catalog and requirements: who reads the      *)
(* evidence of the calls knows the leases and the health; about            *)
(* EscapeNavigation, for any sweeps and geometry: the legs out of an       *)
(* inflation are driven, and cancelled, in their order; and about          *)
(* GuardedDrive, for any latencies, rooms and speeds: a drive reported     *)
(* completed went as far as was asked, no goal drives the robot faster     *)
(* than the one that runs, and a drive whose server is sent one goal keeps *)
(* the robot outside the clearance floor.                                  *)
(***************************************************************************)
EXTENDS GoalPlanning, FacilityResources, EscapeNavigation, GuardedDrive, FiniteSetTheorems,
        SequenceTheorems, WellFoundedInduction, TLAPS

PlanningSpec == PlanningInit /\ [][PlanningNext]_planningVars

-----------------------------------------------------------------------------
(* The map and the places.                                                   *)

(* The lock of the store: one lesson is open at most, and it began from the  *)
(* map on disk.                                                              *)
LessonsInTurn ==
    /\ DOMAIN lesson = Teachers
    /\ \A t, u \in Teachers : lesson[t] # None /\ lesson[u] # None => t = u
    /\ \A t \in Teachers : lesson[t] # None => lesson[t].snapshot = file

Taught(l) == taught[l] # None => l \in DOMAIN file.at /\ file.at[l].pose = taught[l]

(* The same of the lock on the places.                                       *)
MarksInTurn ==
    /\ DOMAIN marking = Markers
    /\ \A m, n \in Markers : marking[m] # None /\ marking[n] # None => m = n
    /\ \A m \in Markers : marking[m] # None => marking[m].before = places

KeptInv ==
    /\ LessonsInTurn
    /\ \A l \in DOMAIN taught : Taught(l)
    /\ MarksInTurn
    /\ places = marked

(* Reading the map for a lesson, under the lock, keeps it all.               *)
LEMMA LoadKeeps ==
  ASSUME KeptInv, NEW t \in Teachers, LoadForWrite(t)
  PROVE  KeptInv'
<1>1. PICK l \in Lessons : lesson' = [lesson EXCEPT ![t] = Opened(l)]
  BY DEF LoadForWrite
<1>2. UNCHANGED <<file, taught, places, marking, marked>>
  BY DEF LoadForWrite, placeVars
<1>3. \A u \in Teachers : lesson[u] = None
  BY DEF LoadForWrite, StoreFree
<1>4. Opened(l).snapshot = file
  BY DEF Opened
<1>5. LessonsInTurn'
  BY <1>1, <1>2, <1>3, <1>4 DEF KeptInv, LessonsInTurn
<1>6. (\A k \in DOMAIN taught : Taught(k))'
  BY <1>2 DEF KeptInv, Taught
<1>7. MarksInTurn' /\ places' = marked'
  BY <1>2 DEF KeptInv, MarksInTurn
<1> QED
  BY <1>5, <1>6, <1>7 DEF KeptInv

(* So does writing what was taught into the map it was loaded from.          *)
LEMMA WriteKeeps ==
  ASSUME KeptInv, NEW t \in Teachers, WriteMap(t)
  PROVE  KeptInv'
<1> DEFINE l == lesson[t]
<1>1. /\ l # None /\ file' = Remembered(l.snapshot, l)
      /\ taught' = [taught EXCEPT ![l.loc] = l.pose]
      /\ lesson' = [lesson EXCEPT ![t] = None]
      /\ UNCHANGED <<places, marking, marked>>
  BY DEF WriteMap, placeVars
<1>2. l.snapshot = file
  BY <1>1 DEF KeptInv, LessonsInTurn
<1>3. /\ DOMAIN file'.at = DOMAIN file.at \cup {l.loc}
      /\ file'.at[l.loc].pose = l.pose
      /\ \A k \in DOMAIN file.at : k # l.loc => file'.at[k] = file.at[k]
  BY <1>1, <1>2 DEF Remembered
<1>4. LessonsInTurn'
  BY <1>1 DEF KeptInv, LessonsInTurn
<1>5. ASSUME NEW k \in DOMAIN taught', taught'[k] # None
      PROVE  k \in DOMAIN file'.at /\ file'.at[k].pose = taught'[k]
  <2> HIDE DEF l
  <2>1. CASE k = l.loc
    BY <1>1, <1>3, <1>5, <2>1
  <2>2. CASE k # l.loc
    <3>1. k \in DOMAIN taught /\ taught'[k] = taught[k]
      BY <1>1, <1>5, <2>2
    <3>2. k \in DOMAIN file.at /\ file.at[k].pose = taught[k]
      BY <1>5, <3>1 DEF KeptInv, Taught
    <3> QED
      BY <1>3, <2>2, <3>1, <3>2
  <2> QED
    BY <2>1, <2>2
<1>6. MarksInTurn' /\ places' = marked'
  BY <1>1 DEF KeptInv, MarksInTurn
<1> QED
  BY <1>4, <1>5, <1>6 DEF KeptInv, Taught

LEMMA FailKeeps ==
  ASSUME KeptInv, NEW t \in Teachers, WriteFails(t)
  PROVE  KeptInv'
<1>1. lesson' = [lesson EXCEPT ![t] = None] /\ UNCHANGED <<file, taught, places, marking, marked>>
  BY DEF WriteFails, placeVars
<1>2. LessonsInTurn'
  BY <1>1 DEF KeptInv, LessonsInTurn
<1>3. (\A k \in DOMAIN taught : Taught(k))' /\ MarksInTurn' /\ places' = marked'
  BY <1>1 DEF KeptInv, Taught, MarksInTurn
<1> QED
  BY <1>2, <1>3 DEF KeptInv

LEMMA MarksKeep ==
  ASSUME KeptInv, NEW m \in Markers, MarkRead(m) \/ MarkWrite(m)
  PROVE  KeptInv'
<1>1. LessonsInTurn' /\ (\A k \in DOMAIN taught : Taught(k))'
  BY DEF KeptInv, LessonsInTurn, Taught, MarkRead, MarkWrite, storeVars
<1>2. CASE MarkRead(m)
  <2>1. PICK name \in PlaceNames, pose \in Poses :
          marking' = [marking EXCEPT ![m] = [before |-> places, name |-> name, pose |-> pose]]
    BY <1>2 DEF MarkRead
  <2>2. (\A n \in Markers : marking[n] = None) /\ UNCHANGED <<places, marked>>
    BY <1>2 DEF MarkRead
  <2> QED
    BY <1>1, <2>1, <2>2 DEF KeptInv, MarksInTurn
<1>3. CASE MarkWrite(m)
  <2> DEFINE w == marking[m]
             fits == w.name \in DOMAIN w.before \/ Cardinality(DOMAIN w.before) < MaxPlaces
  <2>1. /\ w # None
        /\ places' = IF fits THEN (w.name :> w.pose) @@ w.before ELSE places
        /\ marked' = IF fits THEN (w.name :> w.pose) @@ marked ELSE marked
        /\ marking' = [marking EXCEPT ![m] = None]
    BY <1>3 DEF MarkWrite
  <2>2. w.before = places /\ places = marked
    BY <2>1 DEF KeptInv, MarksInTurn
  <2>3. places' = marked'
    <3> HIDE DEF w, fits
    <3> QED
      BY <2>1, <2>2
  <2>4. MarksInTurn'
    BY <2>1 DEF KeptInv, MarksInTurn
  <2> QED
    BY <1>1, <2>3, <2>4 DEF KeptInv
<1> QED
  BY <1>2, <1>3

LEMMA KeptAlways == PlanningSpec => []KeptInv
<1>1. PlanningInit => KeptInv
  BY DEF PlanningInit, KeptInv, LessonsInTurn, Taught, MarksInTurn
<1>2. KeptInv /\ [PlanningNext]_planningVars => KeptInv'
  <2> SUFFICES ASSUME KeptInv, [PlanningNext]_planningVars PROVE KeptInv'
    OBVIOUS
  <2>1. CASE UNCHANGED <<storeVars, placeVars>>
    BY <2>1 DEF KeptInv, LessonsInTurn, Taught, MarksInTurn, storeVars, placeVars
  <2>2. CASE \E t \in Teachers : LoadForWrite(t) \/ WriteMap(t) \/ WriteFails(t)
    BY <2>2, LoadKeeps, WriteKeeps, FailKeeps
  <2>3. CASE \E m \in Markers : MarkRead(m) \/ MarkWrite(m)
    BY <2>3, MarksKeep
  <2>4. CASE UNCHANGED planningVars
    BY <2>1, <2>4 DEF planningVars, storeVars, placeVars
  <2>5. ASSUME PlanningNext PROVE
          \/ UNCHANGED <<storeVars, placeVars>>
          \/ \E t \in Teachers : LoadForWrite(t) \/ WriteMap(t) \/ WriteFails(t)
          \/ \E m \in Markers : MarkRead(m) \/ MarkWrite(m)
    BY <2>5 DEF PlanningNext, ResolveGoal, RouteDelivery, AskModel, ModelAnswers, ModelFails,
                StartSession, FirstRound, SecondRound, CompileNext, HandOver, Forget
  <2> QED
    BY <2>1, <2>2, <2>3, <2>4, <2>5
<1> QED
  BY <1>1, <1>2, PTL DEF PlanningSpec

(* The lock of one store instance keeps every lesson, and the lock on the    *)
(* places every mark.                                                        *)
THEOREM LessonsAreKept == PlanningSpec => []NothingTaughtIsLost
<1>1. KeptInv => NothingTaughtIsLost
  BY DEF KeptInv, Taught, NothingTaughtIsLost
<1> QED
  BY <1>1, KeptAlways, PTL

-----------------------------------------------------------------------------
(* The place a goal names.                                                   *)

IsText(t) == t \in Seq(Range(t))

LEMMA WordIsWithin ==
  ASSUME NEW text, IsText(text), NEW w \in Range(text)
  PROVE  Within(<<w>>, text)
<1>1. PICK i \in 1..Len(text) : text[i] = w
  BY DEF IsText, Range
<1>2. Len(text) \in Nat /\ Len(<<w>>) = 1
  BY DEF IsText
<1>3. SubSeq(text, (i - 1) + 1, (i - 1) + 1) = <<w>>
  <2>1. /\ SubSeq(text, i, i) \in Seq(Range(text)) /\ Len(SubSeq(text, i, i)) = 1
        /\ SubSeq(text, i, i)[1] = text[i]
    <3>1. i \in Int /\ \A j \in i..i : text[j] \in Range(text)
      BY <1>1, <1>2 DEF IsText
    <3> QED
      BY <3>1, SubSeqProperties
  <2>2. <<w>> \in Seq(Range(text)) /\ Len(<<w>>) = 1 /\ <<w>>[1] = w
    OBVIOUS
  <2>3. SubSeq(text, i, i) = <<w>>
    <3>1. \A k \in 1..Len(SubSeq(text, i, i)) : SubSeq(text, i, i)[k] = <<w>>[k]
      BY <1>1, <2>1, <2>2
    <3> QED
      BY ONLY <2>1, <2>2, <3>1, SeqEqual
  <2>4. (i - 1) + 1 = i
    BY <1>1, <1>2
  <2> QED
    BY <2>3, <2>4
<1>4. i - 1 \in 0..(Len(text) - 1)
  BY <1>2
<1> QED
  BY <1>2, <1>3, <1>4 DEF Within

LEMMA FragmentIsWithin ==
  ASSUME NEW text, IsText(text), NEW f \in Fragments(text)
  PROVE  Within(f, text)
<1>1. PICK i, j \in DOMAIN text : f = SubSeq(text, i, j) /\ Len(f) \in 2..MaxFragment
  <2>1. f \in {SubSeq(text, i, j) : i, j \in DOMAIN text} /\ Len(f) \in 2..MaxFragment
    BY DEF Fragments
  <2> QED
    BY <2>1
<1>2. Len(text) \in Nat /\ i \in 1..Len(text) /\ j \in 1..Len(text)
  BY DEF IsText
<1>3. Len(f) = IF i <= j THEN j - i + 1 ELSE 0
  BY <1>1, <1>2 DEF IsText
<1>4. Len(f) # 0
  <2>1. Len(f) \in 2..MaxFragment
    BY <1>1
  <2> QED
    BY ONLY <2>1, RoutingAssumption DEF RoutingAssumption
<1>5. Len(f) = j - i + 1
  BY <1>3, <1>4
<1>6. (i - 1) + 1 = i /\ (i - 1) + Len(f) = j /\ i - 1 \in 0..(Len(text) - Len(f))
  BY <1>2, <1>5
<1> QED
  BY <1>1, <1>6 DEF Within

(* SetToSeq() of a finite set is a sequence over it.                         *)
LEMMA OrderedElements ==
  ASSUME NEW S, IsFiniteSet(S)
  PROVE  SetToSeq(S) \in [1..Cardinality(S) -> S]
<1>1. PICK f : f \in Bijection(1..Cardinality(S), S)
  BY FS_CardinalityType DEF ExistsBijection
<1>2. f \in [1..Cardinality(S) -> S] /\ IsInjective(f)
  BY <1>1 DEF Bijection, Injection
<1> QED
  BY <1>2 DEF SetToSeq

LEMMA FiniteWords ==
  ASSUME NEW text, IsText(text), NEW W \in SUBSET Range(text)
  PROVE  IsFiniteSet({<<w>> : w \in W})
<1> DEFINE D == {i \in 1..Len(text) : text[i] \in W}
           S == {<<w>> : w \in W}
           f == [i \in D |-> <<text[i]>>]
<1>1. IsFiniteSet(D)
  <2>1. IsFiniteSet(1..Len(text)) /\ D \in SUBSET (1..Len(text))
    BY FS_Interval DEF IsText
  <2> QED
    BY <2>1, FS_Subset
<1>2. f \in Surjection(D, S)
  <2>1. f \in [D -> S]
    OBVIOUS
  <2>2. ASSUME NEW s \in S PROVE \E i \in D : f[i] = s
    <3>1. PICK w \in W : s = <<w>>
      OBVIOUS
    <3>2. PICK i \in 1..Len(text) : text[i] = w
      BY DEF IsText, Range
    <3> QED
      BY <3>1, <3>2
  <2> HIDE DEF f, D, S
  <2> QED
    BY <2>1, <2>2 DEF Surjection
<1> QED
  BY <1>1, <1>2, FS_Surjection

(* Whatever a place matches stands in the text.                              *)
LEMMA MatchIsWithin ==
  ASSUME NEW text, IsText(text), NEW loc, NEW i, NEW m \in Matches(loc, i, text),
         NEW n \in DOMAIN m.keys
  PROVE  Within(m.keys[n], text)
<1>1. CASE i = 0
  BY <1>1 DEF Matches, IdMatch, Match
<1>2. CASE i # 0
  <2> DEFINE label  == loc.labels[i]
             common == Fragments(label) \cap Fragments(text)
             words  == Tokens(label) \cap Tokens(text)
  <2>1. m \in LabelMatches(label, text)
    BY <1>2 DEF Matches
  <2> HIDE DEF label
  <2>2. CASE Within(label, text)
    <3>1. m = Match(60 + Len(label), <<label>>)
      BY <2>1, <2>2 DEF LabelMatches
    <3>2. n = 1 /\ m.keys[1] = label
      BY <3>1 DEF Match
    <3> QED
      BY <2>2, <3>2
  <2>3. CASE ~Within(label, text) /\ common # {}
    <3>1. PICK f \in common : m = Match(30 + Len(f), <<f>>)
      BY <2>1, <2>3 DEF LabelMatches
    <3>2. n = 1 /\ m.keys[1] = f
      BY <3>1 DEF Match
    <3> QED
      BY <3>1, <3>2, FragmentIsWithin
  <2>4. CASE ~Within(label, text) /\ common = {}
    <3>1. m.keys = SetToSeq({<<w>> : w \in words})
      BY <2>1, <2>4 DEF LabelMatches, Match
    <3>2. words \in SUBSET Range(text)
      BY DEF Tokens
    <3>3. SetToSeq({<<w>> : w \in words}) \in
            [1..Cardinality({<<w>> : w \in words}) -> {<<w>> : w \in words}]
      <4> HIDE DEF words
      <4> QED
        BY <3>2, FiniteWords, OrderedElements
    <3>4. PICK w \in words : m.keys[n] = <<w>>
      <4> HIDE DEF words
      <4> QED
        BY <3>1, <3>3
    <3> QED
      BY <3>2, <3>4, WordIsWithin
  <2> QED
    BY <2>2, <2>3, <2>4
<1> QED
  BY <1>1, <1>2

LEMMA KeptIsWithin ==
  ASSUME NEW text, IsText(text), NEW loc, NEW score \in Scores(loc, text), NEW k \in score.keys
  PROVE  Within(k, text)
<1>1. PICK m \in Matchings(loc, text) : score = Total(m)
  BY DEF Scores
<1>2. PICK p \in KeyPositions(m) : k = KeyAt(m, p)
  BY <1>1 DEF Total, Kept
<1>3. PICK i \in DOMAIN m : p \in {i} \X DOMAIN m[i].keys
  BY <1>2 DEF KeyPositions
<1>4. m[i] \in Matches(loc, i, text)
  BY <1>1, <1>3 DEF Matchings
<1>5. p[1] = i /\ p[2] \in DOMAIN m[i].keys
  BY <1>3
<1> QED
  BY <1>2, <1>4, <1>5, MatchIsWithin DEF KeyAt

(* A place is selected only if a key that one place alone has stands in the  *)
(* goal.                                                                     *)
LEMMA SelectedByOwnKey ==
  ASSUME NEW map, IsFiniteSet(DOMAIN map), NEW goal, IsText(goal.text),
         NEW r \in Resolutions(goal, map), r.reason = ""
  PROVE  \E l \in DOMAIN map : NamedByOwnKey(map, l, goal.text)
<1>1. PICK scored \in Scorings(map, goal.text) : r = PickOf(map, scored)
  <2>1. CASE goal.text # <<>> /\ Cardinality(DOMAIN map) \in 1..MaxLocations /\ Screen(goal) = ""
    BY <2>1 DEF Resolutions
  <2>2. CASE Screen(goal) # ""
    <3>1. PICK why \in {"intent_unsupported", "semantic_map_unavailable", Screen(goal)} : r = Refused(why)
      BY <2>2 DEF Resolutions
    <3>2. r.reason = why
      BY <3>1 DEF Refused
    <3> QED
      BY <2>2, <3>2
  <2>3. CASE goal.text = <<>> \/ Cardinality(DOMAIN map) \notin 1..MaxLocations
    <3>1. PICK why \in {"intent_unsupported", "semantic_map_unavailable"} : r = Refused(why)
      BY <2>3 DEF Resolutions
    <3>2. r.reason = why
      BY <3>1 DEF Refused
    <3> QED
      BY <3>2
  <2> QED
    BY <2>1, <2>2, <2>3
<1>2. Contenders(map, scored) # {}
  BY <1>1 DEF PickOf, Pick, Refused
<1>3. PICK c \in DOMAIN map : scored[c].keys \cap Discriminative(map) # {}
  BY <1>2 DEF Contenders
<1>4. PICK k \in Discriminative(map) : k \in scored[c].keys
  BY <1>3
<1>5. Within(k, goal.text)
  <2>1. scored[c] \in Scores(map[c], goal.text)
    BY <1>1 DEF Scorings
  <2> QED
    BY <1>4, <2>1, KeptIsWithin
<1> DEFINE owners == {l \in DOMAIN map : k \in Keys(map[l])}
<1>6. Cardinality(owners) = 1
  BY <1>4 DEF Discriminative
<1>7. PICK l : owners = {l}
  <2>1. IsFiniteSet(owners)
    BY FS_Subset
  <2> HIDE DEF owners
  <2> QED
    BY <1>6, <2>1, FS_Singleton
<1>8. l \in DOMAIN map /\ k \in Keys(map[l]) /\ \A other \in DOMAIN map \ {l} : k \notin Keys(map[other])
  BY <1>7
<1> QED
  BY <1>5, <1>8 DEF NamedByOwnKey

-----------------------------------------------------------------------------
(* The resources of a route.                                                 *)

Provided(d, o) ==
    \/ Ready(d.contract, o) \/ SubstituteAllowed(d.contract, o)
    \/ ~InScope(d.contract, "preflight")
    \/ d.contract.safety = "none" /\ d.contract.task \in {"none", "degrade"}

(* Nothing a contract calls unsafe, blocking or invalidating goes unblocked. *)
LEMMA UnblockedIsProvided ==
  ASSUME NEW d, ValidContract(d.contract), NEW o, Action(d.contract, o, "preflight") \notin Blocking
  PROVE  Provided(d, o)
<1> SUFFICES ASSUME InScope(d.contract, "preflight"), ~Ready(d.contract, o),
                    ~SubstituteAllowed(d.contract, o)
             PROVE  d.contract.safety = "none" /\ d.contract.task \in {"none", "degrade"}
  BY DEF Provided
<1>1. Loss(d.contract) \notin Blocking
  BY DEF Action
<1>2. /\ d.contract.safety \in {"none", "pause", "stop", "abort"}
      /\ d.contract.task \in {"none", "degrade", "block", "invalidate"}
  BY DEF ValidContract
<1> QED
  BY <1>1, <1>2 DEF Loss, Blocking

LEMMA CandidateIsProvided ==
  ASSUME PlanningAssumption, NEW sights, Preflight(sights).ok, NEW id \in CandidateIds(Preflight(sights)),
         NEW k \in DOMAIN RouteOf(id).deps
  PROVE  Provided(RouteOf(id).deps[k], Observed(sights, RouteOf(id).deps[k].resource))
<1>1. PICK c \in Preflight(sights).candidates : c.id = id
  BY DEF CandidateIds
<1>2. c \in Candidates(Graph, sights, "preflight")
  BY <1>1 DEF Preflight, Evaluate, Offer, Shown
<1>3. PICK i \in DOMAIN Graph : ~Excluded(Graph[i], sights, "preflight") /\ Graph[i].id = id
  BY <1>1, <1>2 DEF Candidates
<1>4. RouteOf(id) = Graph[i]
  <2>1. \A j \in DOMAIN Graph : Graph[j].id = id => j = i
    BY <1>3 DEF PlanningAssumption, ValidGraph
  <2> QED
    BY <1>3, <2>1 DEF RouteOf
<1>5. ValidContract(Graph[i].deps[k].contract)
  BY <1>3, <1>4 DEF PlanningAssumption, ValidGraph
<1>6. Action(Graph[i].deps[k].contract, Observed(sights, Graph[i].deps[k].resource), "preflight") \notin Blocking
  BY <1>3, <1>4 DEF Excluded, Actions
<1> QED
  BY <1>4, <1>5, <1>6, UnblockedIsProvided

-----------------------------------------------------------------------------
(* A request, from the goal to the plan.                                     *)

(* It has come as far as a plan.                                             *)
HasPlan == job.pc = "compile" \/ (job.pc = "done" /\ job.plan # <<>>)

(* A planner answers its own requests only.                                  *)
PhaseInv ==
    /\ DOMAIN job = DOMAIN Idle
    /\ job.pc \in {"idle", "route", "asked", "round", "compile", "done"}
    /\ job.pc = "route" => job.by = "rules"
    /\ job.pc = "asked" => job.by = "model"
    /\ job.pc = "round" => job.by = "session"

NamedInv ==
    job.by = "rules" /\ (job.pc = "route" \/ HasPlan) =>
        \E l \in DOMAIN job.seen.at : NamedByOwnKey(job.seen.at, l, job.goal.text)

RouteInv ==
    job.by = "session" /\ (job.pc = "round" \/ HasPlan) =>
        /\ Preflight(job.sights).ok
        /\ HasPlan => job.id \in CandidateIds(Preflight(job.sights))

JobInv == IsFiniteSet(DOMAIN file.at) /\ PhaseInv /\ NamedInv /\ RouteInv

LEMMA JobKeeps ==
  ASSUME JobInv, UNCHANGED job, IsFiniteSet(DOMAIN file'.at)
  PROVE  JobInv'
BY DEF JobInv, PhaseInv, NamedInv, RouteInv, HasPlan

LEMMA RejectedKeeps ==
  ASSUME JobInv, NEW reason, Rejected(reason), IsFiniteSet(DOMAIN file'.at)
  PROVE  JobInv'
<1>1. job' = [Idle EXCEPT !.pc = "done", !.by = job.by, !.reason = reason]
  BY DEF Rejected
<1>2. DOMAIN job' = DOMAIN Idle /\ job'.pc = "done" /\ job'.plan = <<>>
  BY <1>1 DEF Idle
<1> QED
  BY <1>2 DEF JobInv, PhaseInv, NamedInv, RouteInv, HasPlan

(* An accepted plan is of the request it was made for.                       *)
LEMMA AcceptedKeeps ==
  ASSUME JobInv, NEW draft, Accepted(draft), job.pc \in {"route", "asked"}, IsFiniteSet(DOMAIN file'.at)
  PROVE  JobInv'
<1>1. job' = [job EXCEPT !.pc = "compile", !.plan = draft]
  BY DEF Accepted
<1>2. DOMAIN job = DOMAIN Idle /\ {"pc", "by", "plan", "seen", "goal"} \subseteq DOMAIN job
  BY DEF JobInv, PhaseInv, Idle
<1>3. /\ DOMAIN job' = DOMAIN Idle /\ job'.pc = "compile" /\ job'.by = job.by
      /\ job'.seen = job.seen /\ job'.goal = job.goal
  BY <1>1, <1>2
<1>4. job.by # "session"
  BY DEF JobInv, PhaseInv
<1> QED
  BY <1>2, <1>3, <1>4 DEF JobInv, PhaseInv, NamedInv, RouteInv, HasPlan

(* A goal is read, and resolved to a place it names by a key of its own.     *)
LEMMA ResolvedIsNamed ==
  ASSUME PlanningAssumption, JobInv, NEW goal \in Goals, ResolveGoal(goal)
  PROVE  JobInv'
<1>1. PICK r \in Resolutions(goal, file.at) :
        job' = IF r.reason # ""
               THEN [Idle EXCEPT !.pc = "done", !.by = "rules", !.reason = r.reason]
               ELSE [Idle EXCEPT !.pc = "route", !.by = "rules",
                                 !.goal = goal, !.loc = r.at, !.seen = file]
  BY DEF ResolveGoal
<1>2. UNCHANGED file
  BY DEF ResolveGoal, storeVars
<1>3. CASE r.reason # ""
  <2>1. DOMAIN job' = DOMAIN Idle /\ job'.pc = "done" /\ job'.plan = <<>>
    BY <1>1, <1>3 DEF Idle
  <2> QED
    BY <1>2, <2>1 DEF JobInv, PhaseInv, NamedInv, RouteInv, HasPlan
<1>4. CASE r.reason = ""
  <2>1. /\ DOMAIN job' = DOMAIN Idle /\ job'.pc = "route" /\ job'.by = "rules"
        /\ job'.goal = goal /\ job'.seen = file
    BY <1>1, <1>4 DEF Idle
  <2>2. \E l \in DOMAIN file.at : NamedByOwnKey(file.at, l, goal.text)
    BY <1>4, SelectedByOwnKey DEF JobInv, PlanningAssumption, IsText
  <2> QED
    BY <1>2, <2>1, <2>2 DEF JobInv, PhaseInv, NamedInv, RouteInv, HasPlan
<1> QED
  BY <1>3, <1>4

LEMMA DeliveryKeeps ==
  ASSUME JobInv, RouteDelivery
  PROVE  JobInv'
<1>1. job.pc = "route" /\ file' = file
  BY DEF RouteDelivery, storeVars
<1>2. (\E reason : Rejected(reason)) \/ (\E draft : Accepted(draft))
  BY DEF RouteDelivery
<1>3. IsFiniteSet(DOMAIN file'.at)
  BY <1>1 DEF JobInv
<1> QED
  BY <1>1, <1>2, <1>3, RejectedKeeps, AcceptedKeeps

LEMMA ModelKeeps ==
  ASSUME JobInv,
         \/ \E words \in WordScores, ctx \in Contexts, limit \in Limits : AskModel(words, ctx, limit)
         \/ \E draft \in Proposals : ModelAnswers(draft)
         \/ ModelFails
  PROVE  JobInv'
<1>1. file' = file
  BY DEF AskModel, ModelAnswers, ModelFails, storeVars
<1>2. IsFiniteSet(DOMAIN file'.at)
  BY <1>1 DEF JobInv
<1>3. CASE \E words \in WordScores, ctx \in Contexts, limit \in Limits : AskModel(words, ctx, limit)
  <2>1. DOMAIN job' = DOMAIN Idle /\ job'.pc = "asked" /\ job'.by = "model"
    BY <1>3 DEF AskModel, Idle
  <2> QED
    BY <1>2, <2>1 DEF JobInv, PhaseInv, NamedInv, RouteInv, HasPlan
<1>4. CASE \E draft \in Proposals : ModelAnswers(draft)
  <2>1. job.pc = "asked" /\ ((\E reason : Rejected(reason)) \/ (\E draft : Accepted(draft)))
    BY <1>4 DEF ModelAnswers
  <2> QED
    BY <1>2, <2>1, RejectedKeeps, AcceptedKeeps
<1>5. CASE ModelFails
  BY <1>2, <1>5, RejectedKeeps DEF ModelFails
<1> QED
  BY <1>3, <1>4, <1>5

(* A session begins where there is a route, and ends with a candidate of the *)
(* preflight that was asked for last.                                        *)
LEMMA SessionKeeps ==
  ASSUME JobInv,
         \/ \E sights \in Sightings, change \in Changes : StartSession(sights, change)
         \/ \E draft, id, round : FirstRound(draft, id, round) \/ SecondRound(draft, id, round)
  PROVE  JobInv'
<1>1. file' = file
  BY DEF StartSession, FirstRound, SecondRound, storeVars
<1>2. IsFiniteSet(DOMAIN file'.at)
  BY <1>1 DEF JobInv
<1>3. ASSUME NEW sights \in Sightings, NEW change \in Changes, StartSession(sights, change) PROVE JobInv'
  <2>1. CASE Preflight(sights).ok
    <3>1. /\ DOMAIN job' = DOMAIN Idle /\ job'.pc = "round" /\ job'.by = "session"
          /\ job'.sights = sights
      BY <1>3, <2>1 DEF StartSession, Idle
    <3> QED
      BY <1>2, <2>1, <3>1 DEF JobInv, PhaseInv, NamedInv, RouteInv, HasPlan
  <2>2. CASE ~Preflight(sights).ok
    <3>1. DOMAIN job' = DOMAIN Idle /\ job'.pc = "done" /\ job'.plan = <<>>
      BY <1>3, <2>2 DEF StartSession, Idle
    <3> QED
      BY <1>2, <3>1 DEF JobInv, PhaseInv, NamedInv, RouteInv, HasPlan
  <2> QED
    BY <2>1, <2>2
<1>4. {"pc", "by", "plan", "id", "round", "sights", "first"} \subseteq DOMAIN job /\ DOMAIN job = DOMAIN Idle
  BY DEF JobInv, PhaseInv, Idle
<1>5. ASSUME NEW draft, NEW id, NEW round, FirstRound(draft, id, round) PROVE JobInv'
  <2> DEFINE revised == (job.change.resource :> job.change.observation) @@ job.sights
  <2>1. CASE \E reason : Rejected(reason)
    BY <1>2, <2>1, RejectedKeeps
  <2>2. CASE Preflight(revised).ok /\ job' = [job EXCEPT !.round = 2, !.sights = revised, !.first = id]
    <3> HIDE DEF revised
    <3>1. job.pc = "round"
      BY <1>5 DEF FirstRound
    <3>2. /\ DOMAIN job' = DOMAIN Idle /\ job'.pc = "round" /\ job'.by = job.by
          /\ job'.sights = revised
      BY <1>4, <2>2, <3>1
    <3> QED
      BY <1>2, <2>2, <3>1, <3>2 DEF JobInv, PhaseInv, NamedInv, RouteInv, HasPlan
  <2>3. \/ \E reason : Rejected(reason)
        \/ Preflight(revised).ok /\ job' = [job EXCEPT !.round = 2, !.sights = revised, !.first = id]
    BY <1>5 DEF FirstRound
  <2> QED
    BY <2>1, <2>2, <2>3
<1>6. ASSUME NEW draft, NEW id, NEW round, SecondRound(draft, id, round) PROVE JobInv'
  <2>1. CASE \E reason : Rejected(reason)
    BY <1>2, <2>1, RejectedKeeps
  <2>2. CASE Attested(draft, id, round) /\ job' = [job EXCEPT !.pc = "compile", !.plan = draft, !.id = id]
    <3>1. job.pc = "round" /\ id \in CandidateIds(Preflight(job.sights))
      BY <1>6, <2>2 DEF SecondRound, Attested
    <3>2. /\ DOMAIN job' = DOMAIN Idle /\ job'.pc = "compile" /\ job'.by = job.by
          /\ job'.sights = job.sights /\ job'.id = id
      BY <1>4, <2>2
    <3> QED
      BY <1>2, <3>1, <3>2 DEF JobInv, PhaseInv, NamedInv, RouteInv, HasPlan
  <2> QED
    BY <1>6, <2>1, <2>2 DEF SecondRound
<1> QED
  BY <1>3, <1>5, <1>6

(* The compilation finds the poses, or rejects; a plan handed over is the    *)
(* one that was accepted.                                                    *)
LEMMA CompileKeeps ==
  ASSUME JobInv, CompileNext \/ HandOver \/ Forget
  PROVE  JobInv'
<1>1. file' = file
  BY DEF CompileNext, HandOver, Forget, storeVars
<1>2. IsFiniteSet(DOMAIN file'.at)
  BY <1>1 DEF JobInv
<1>3. {"pc", "stations"} \subseteq DOMAIN job /\ DOMAIN job = DOMAIN Idle
  BY DEF JobInv, PhaseInv, Idle
<1>4. CASE CompileNext
  <2>1. CASE \E reason : Rejected(reason)
    BY <1>2, <2>1, RejectedKeeps
  <2>2. CASE job.pc = "compile" /\ \E x : job' = [job EXCEPT !.stations = x]
    <3>1. /\ DOMAIN job' = DOMAIN Idle /\ job'.pc = "compile" /\ job'.by = job.by /\ job'.id = job.id
          /\ job'.seen = job.seen /\ job'.goal = job.goal /\ job'.sights = job.sights
      BY <1>3, <2>2
    <3> QED
      BY <1>2, <2>2, <3>1 DEF JobInv, PhaseInv, NamedInv, RouteInv, HasPlan
  <2> QED
    BY <1>4, <2>1, <2>2 DEF CompileNext
<1>5. CASE HandOver
  <2>1. job.pc = "compile" /\ job' = [job EXCEPT !.pc = "done"]
    BY <1>5 DEF HandOver
  <2>2. /\ DOMAIN job' = DOMAIN Idle /\ job'.pc = "done" /\ job'.by = job.by /\ job'.id = job.id
        /\ job'.seen = job.seen /\ job'.goal = job.goal /\ job'.sights = job.sights
    BY <1>3, <2>1
  <2> QED
    BY <1>2, <2>1, <2>2 DEF JobInv, PhaseInv, NamedInv, RouteInv, HasPlan
<1>6. CASE Forget
  <2>1. job' = Idle /\ Idle.pc = "idle" /\ Idle.plan = <<>>
    BY <1>6 DEF Forget, Idle
  <2> QED
    BY <1>2, <2>1 DEF JobInv, PhaseInv, NamedInv, RouteInv, HasPlan
<1> QED
  BY <1>4, <1>5, <1>6

(* The map on disk names finitely many places.                               *)
LEMMA MapStaysFinite ==
  ASSUME KeptInv, IsFiniteSet(DOMAIN file.at), [PlanningNext]_planningVars
  PROVE  IsFiniteSet(DOMAIN file'.at)
<1>1. ASSUME NEW t \in Teachers, WriteMap(t) PROVE IsFiniteSet(DOMAIN file'.at)
  <2>1. file' = Remembered(file, lesson[t])
    BY <1>1 DEF WriteMap, KeptInv, LessonsInTurn
  <2>2. DOMAIN file'.at = DOMAIN file.at \cup {lesson[t].loc}
    BY <2>1 DEF Remembered
  <2> QED
    BY <2>2, FS_AddElement
<1>2. (\E t \in Teachers : WriteMap(t)) \/ file' = file
  BY DEF PlanningNext, LoadForWrite, WriteFails, MarkRead, MarkWrite, ResolveGoal, RouteDelivery,
         AskModel, ModelAnswers, ModelFails, StartSession, FirstRound, SecondRound, CompileNext,
         HandOver, Forget, storeVars, planningVars
<1> QED
  BY <1>1, <1>2

LEMMA PlanningInvariant == PlanningSpec => [](KeptInv /\ JobInv)
<1>1. PlanningInit => JobInv
  <2> SUFFICES ASSUME PlanningInit PROVE JobInv
    OBVIOUS
  <2>1. IsFiniteSet(DOMAIN file.at)
    BY PlanningAssumption DEF PlanningAssumption, PlanningInit
  <2>2. job = Idle /\ Idle.pc = "idle"
    BY DEF PlanningInit, Idle
  <2> QED
    BY <2>1, <2>2 DEF JobInv, PhaseInv, NamedInv, RouteInv, HasPlan
<1>2. KeptInv /\ JobInv /\ [PlanningNext]_planningVars => JobInv'
  <2> SUFFICES ASSUME KeptInv, JobInv, [PlanningNext]_planningVars PROVE JobInv'
    OBVIOUS
  <2>1. IsFiniteSet(DOMAIN file'.at)
    BY MapStaysFinite DEF JobInv
  <2>2. CASE UNCHANGED job
    BY <2>1, <2>2, JobKeeps
  <2>3. CASE \E goal \in Goals : ResolveGoal(goal)
    BY <2>3, PlanningAssumption, ResolvedIsNamed
  <2>4. CASE RouteDelivery
    BY <2>4, DeliveryKeeps
  <2>5. CASE \/ \E words \in WordScores, ctx \in Contexts, limit \in Limits : AskModel(words, ctx, limit)
             \/ \E draft \in Proposals : ModelAnswers(draft)
             \/ ModelFails
    BY <2>5, ModelKeeps
  <2>6. CASE \/ \E sights \in Sightings, change \in Changes : StartSession(sights, change)
             \/ \E draft, id, round : FirstRound(draft, id, round) \/ SecondRound(draft, id, round)
    BY <2>6, SessionKeeps
  <2>7. CASE CompileNext \/ HandOver \/ Forget
    BY <2>7, CompileKeeps
  <2>8. CASE PlanningNext
    <3>1. CASE \/ \E t \in Teachers : LoadForWrite(t) \/ WriteMap(t) \/ WriteFails(t)
               \/ \E m \in Markers : MarkRead(m) \/ MarkWrite(m)
      BY <2>2, <3>1 DEF LoadForWrite, WriteMap, WriteFails, MarkRead, MarkWrite
    <3>2. CASE \E p \in Proposals, i \in {Graph[k].id : k \in DOMAIN Graph}, r \in 1..2 :
                 FirstRound(p, i, r) \/ SecondRound(p, i, r)
      <4>1. \E draft, id, round : FirstRound(draft, id, round) \/ SecondRound(draft, id, round)
        BY ONLY <3>2
      <4> QED
        BY <2>6, <4>1
    <3> QED
      BY <2>3, <2>4, <2>5, <2>6, <2>7, <2>8, <3>1, <3>2 DEF PlanningNext
  <2>9. CASE UNCHANGED planningVars
    BY <2>2, <2>9 DEF planningVars
  <2> QED
    BY <2>8, <2>9
<1> QED
  BY <1>1, <1>2, KeptAlways, PTL DEF PlanningSpec

(* A delivery is planned only for a goal that holds, whole, a key that one   *)
(* place alone has in the map it was resolved by.                            *)
THEOREM DeliveriesAreNamed == PlanningSpec => []PlaceIsNeverGuessed
<1>1. JobInv => PlaceIsNeverGuessed
  BY DEF JobInv, NamedInv, HasPlan, PlaceIsNeverGuessed, Executable
<1> QED
  BY <1>1, PlanningInvariant, PTL

(* The route of a session is a candidate of its last preflight, and what its *)
(* contracts call unsafe, blocking or invalidating is there.                 *)
THEOREM RoutesAreProvided == PlanningSpec => []SelectedRouteHasItsResources
<1>1. ASSUME JobInv, Executable("session"), NEW i \in DOMAIN RouteOf(job.id).deps
      PROVE  Provided(RouteOf(job.id).deps[i], Observed(job.sights, RouteOf(job.id).deps[i].resource))
  <2>1. Preflight(job.sights).ok /\ job.id \in CandidateIds(Preflight(job.sights))
    BY <1>1 DEF JobInv, RouteInv, HasPlan, Executable
  <2> QED
    BY <1>1, <2>1, PlanningAssumption, CandidateIsProvided
<1>2. JobInv => SelectedRouteHasItsResources
  BY <1>1 DEF SelectedRouteHasItsResources, Provided
<1> QED
  BY <1>2, PlanningInvariant, PTL

-----------------------------------------------------------------------------
(* The shortlist of capabilities.                                            *)

(* A set of entries, each at a position of its own, and the list of them:     *)
(* everyone is in it once. Its place is the number of those that outrank it,  *)
(* and no two have the same number.                                          *)
LEMMA ListHoldsAll ==
  ASSUME NEW S, IsFiniteSet(S),
         \A e \in S : e.score \in Int /\ e.at \in Int,
         \A e, f \in S : e.at = f.at => e = f
  PROVE  /\ InOrder(S) \in Seq(S) /\ Len(InOrder(S)) = Cardinality(S)
         /\ Range(InOrder(S)) = S
<1> DEFINE above(e) == {f \in S : Outranks(f, e)}
           n == Cardinality(S)
           place == [e \in S |-> Cardinality(above(e)) + 1]
<1>1. n \in Nat /\ IsFiniteSet(1..n) /\ Cardinality(1..n) = n
  <2>1. n \in Nat
    BY FS_CardinalityType
  <2> HIDE DEF n
  <2>2. IsFiniteSet(1..n) /\ Cardinality(1..n) = IF 1 > n THEN 0 ELSE n - 1 + 1
    BY <2>1, FS_Interval
  <2> QED
    BY <2>1, <2>2
<1>2. ASSUME NEW e \in S
      PROVE  IsFiniteSet(above(e)) /\ Cardinality(above(e)) \in 0..(n - 1)
  <2>1. above(e) \in SUBSET S /\ e \notin above(e) /\ above(e) # S
    BY DEF Outranks
  <2> HIDE DEF above
  <2>2. /\ IsFiniteSet(above(e)) /\ Cardinality(above(e)) <= Cardinality(S)
        /\ Cardinality(S) = Cardinality(above(e)) => S = above(e)
    BY <2>1, FS_Subset
  <2>3. Cardinality(above(e)) \in Nat
    BY <2>2, FS_CardinalityType
  <2> QED
    BY <1>1, <2>1, <2>2, <2>3
<1>3. ASSUME NEW e \in S, NEW f \in S, Outranks(f, e)
      PROVE  Cardinality(above(f)) < Cardinality(above(e))
  <2>1. above(f) \in SUBSET above(e) /\ f \in above(e) /\ f \notin above(f)
    BY <1>3 DEF Outranks
  <2>2. IsFiniteSet(above(e)) /\ Cardinality(above(e)) \in 0..(n - 1) /\ Cardinality(above(f)) \in 0..(n - 1)
    BY <1>2
  <2> HIDE DEF above
  <2>3. /\ Cardinality(above(f)) <= Cardinality(above(e))
        /\ Cardinality(above(e)) = Cardinality(above(f)) => above(e) = above(f)
    BY <2>1, <2>2, FS_Subset
  <2> QED
    BY <1>1, <2>1, <2>2, <2>3
<1>4. ASSUME NEW e \in S, NEW f \in S, e # f
      PROVE  Cardinality(above(e)) # Cardinality(above(f))
  <2>1. Outranks(e, f) \/ Outranks(f, e)
    BY <1>4 DEF Outranks
  <2>2. Cardinality(above(e)) \in 0..(n - 1) /\ Cardinality(above(f)) \in 0..(n - 1)
    BY <1>2
  <2>3. Cardinality(above(f)) < Cardinality(above(e)) \/ Cardinality(above(e)) < Cardinality(above(f))
    BY <1>3, <2>1
  <2> HIDE DEF above
  <2> QED
    BY <1>1, <2>2, <2>3
<1>5. place \in Injection(S, 1..n)
  <2>1. \A e \in S : Cardinality(above(e)) \in 0..(n - 1)
    BY <1>2
  <2>2. \A e, f \in S : e # f => Cardinality(above(e)) # Cardinality(above(f))
    BY <1>4
  <2> HIDE DEF above
  <2>3. \A e \in S : place[e] = Cardinality(above(e)) + 1 /\ place[e] \in 1..n /\ place[e] \in Int
    BY <1>1, <2>1
  <2>4. place \in [S -> 1..n]
    BY <2>3
  <2>5. \A e, f \in S : place[e] = place[f] => e = f
    BY <1>1, <2>1, <2>2, <2>3
  <2> HIDE DEF place
  <2> QED
    BY <2>4, <2>5 DEF Injection, IsInjective
<1>6. \A k \in 1..n : \E e \in S : place[e] = k
  <2>1. place \in Surjection(S, 1..n)
    <3> HIDE DEF place, n
    <3>1. Cardinality(S) = Cardinality(1..n) <=> place \in Surjection(S, 1..n)
      BY <1>1, <1>5, FS_Injection
    <3> QED
      BY <1>1, <3>1 DEF n
  <2> HIDE DEF place
  <2> QED
    BY <2>1 DEF Surjection
<1> DEFINE list == InOrder(S)
           At(k) == CHOOSE e \in S : Cardinality(above(e)) = k - 1
<1>7. list = [k \in 1..n |-> At(k)]
  BY DEF InOrder
<1>8. ASSUME NEW k \in 1..n PROVE At(k) \in S /\ Cardinality(above(At(k))) = k - 1
  <2>1. PICK e \in S : place[e] = k
    BY <1>6
  <2>2. Cardinality(above(e)) = k - 1
    <3>1. place[e] = Cardinality(above(e)) + 1 /\ Cardinality(above(e)) \in 0..(n - 1)
      BY <1>2
    <3> HIDE DEF above, place
    <3> QED
      BY <1>1, <2>1, <3>1
  <2> QED
    BY <2>2
<1>9. ASSUME NEW e \in S PROVE \E k \in 1..n : At(k) = e
  <2> DEFINE k == Cardinality(above(e)) + 1
  <2>1. k \in 1..n /\ Cardinality(above(e)) = k - 1
    <3>1. Cardinality(above(e)) \in 0..(n - 1)
      BY <1>2
    <3> HIDE DEF above
    <3> QED
      BY <1>1, <3>1
  <2> HIDE DEF k
  <2>2. At(k) \in S /\ Cardinality(above(At(k))) = k - 1
    BY <1>8, <2>1
  <2>3. At(k) = e
    BY <1>4, <2>1, <2>2
  <2> QED
    BY <2>1, <2>3
<1> HIDE DEF above, At, list
<1>10. list \in Seq(S) /\ Len(list) = n /\ DOMAIN list = 1..n
  <2>1. list \in [1..n -> S]
    BY <1>7, <1>8
  <2> HIDE DEF n
  <2> QED
    BY <1>1, <2>1, SeqDef
<1>11. Range(list) = S
  <2>1. \A k \in 1..n : list[k] = At(k) /\ At(k) \in S
    BY <1>7, <1>8
  <2> QED
    BY <1>9, <1>10, <2>1 DEF Range
<1> QED
  BY <1>10, <1>11 DEF list

(* The registry of the program, capability by capability.                    *)
LEMMA RegistryIs ==
  /\ DOMAIN Registry = 1..11
  /\ Registry[1] = AskHuman /\ Registry[2] = ResumeTask /\ Registry[3] = SaveCurrentLocation
  /\ Registry[4] = MoveRelative /\ Registry[5] = Navigate /\ Registry[6] = NavigateToLocation
  /\ Registry[7] = TurnRelative /\ Registry[8] = StopSafely /\ Registry[9] = WaitUntilClear
  /\ Registry[10] = Dwell /\ Registry[11] = FollowLine
BY DEF Registry

RuntimeNames == <<"ask_human", "resume", "save_current_location", "move_relative", "navigate",
             "navigate_to_location", "turn_relative", "safe_stop", "wait_until_clear", "dwell", "follow_line">>

(* The names, and which of them are motions.                                 *)
LEMMA NamesAre ==
  /\ \A i \in DOMAIN Registry : Registry[i].name = RuntimeNames[i]
  /\ \A i \in DOMAIN Registry : Registry[i].name \in Motion <=> Registry[i].class = "motion"
<1>1. \A i \in DOMAIN Registry : Registry[i].name = RuntimeNames[i] /\ (Registry[i].name \in Motion <=> Registry[i].class = "motion")
  <2>1. \A i \in 1..11 : i = 1 \/ i = 2 \/ i = 3 \/ i = 4 \/ i = 5 \/ i = 6 \/ i = 7 \/ i = 8 \/ i = 9 \/ i = 10 \/ i = 11
    OBVIOUS
  <2> QED
    BY <2>1, RegistryIs DEF AskHuman, ResumeTask, SaveCurrentLocation, MoveRelative, Navigate,
          NavigateToLocation, TurnRelative, StopSafely, WaitUntilClear, Dwell, FollowLine, Capability, Motion, RuntimeNames
<1> QED
  BY <1>1

(* What may be used is ranked, all of it and nothing else.                   *)
LEMMA RankedIsAll ==
  ASSUME NEW frame, NEW words, NEW ctx,
         \A i \in DOMAIN Registry : Entry(i, frame, words).score \in Int
  PROVE  /\ Ranked(frame, words, ctx) \in Seq(Range(Ranked(frame, words, ctx)))
         /\ Range(Ranked(frame, words, ctx)) =
               {Entry(i, frame, words) : i \in {j \in DOMAIN Registry : Usable(Registry[j], ctx)}}
         /\ IsFiniteSet(Range(Ranked(frame, words, ctx)))
<1> DEFINE J == {j \in DOMAIN Registry : Usable(Registry[j], ctx)}
           S == {Entry(i, frame, words) : i \in J}
<1>1. IsFiniteSet(J) /\ J \subseteq Int
  <2>1. J \in SUBSET (1..11)
    BY RegistryIs
  <2>2. IsFiniteSet(1..11)
    <3>1. 1 \in Int /\ 11 \in Int
      OBVIOUS
    <3> QED
      BY <3>1, FS_Interval
  <2> HIDE DEF J
  <2>3. IsFiniteSet(J)
    BY <2>1, <2>2, FS_Subset
  <2> QED
    BY <2>1, <2>3
<1>2. IsFiniteSet(S)
  <2> DEFINE f == [i \in J |-> Entry(i, frame, words)]
  <2>1. f \in Surjection(J, S)
    BY DEF Surjection
  <2> HIDE DEF f, J, S
  <2> QED
    BY <1>1, <2>1, FS_Surjection
<1>3. \A e \in S : \E i \in J : e = Entry(i, frame, words) /\ e.at = i
  BY DEF Entry
<1>4. \A e \in S : e.score \in Int /\ e.at \in Int
  BY <1>1, <1>3
<1>5. \A e, f \in S : e.at = f.at => e = f
  BY <1>3
<1>6. Ranked(frame, words, ctx) = InOrder(S)
  BY DEF Ranked
<1> HIDE DEF S
<1>7. /\ InOrder(S) \in Seq(S) /\ Range(InOrder(S)) = S
  BY <1>2, <1>4, <1>5, ListHoldsAll
<1> QED
  BY <1>2, <1>6, <1>7 DEF S

(* The pool is a part of what is ranked.                                     *)
LEMMA PoolIsAll ==
  ASSUME NEW frame, NEW words, NEW ctx,
         \A i \in DOMAIN Registry : Entry(i, frame, words).score \in Int
  PROVE  LET ranked == Ranked(frame, words, ctx)
             pool   == Pool(ranked, frame)
             those  == {e \in Range(ranked) : e.score > 0 \/ (frame = NoFrame /\ Legacy(e.def))}
         IN  /\ pool \in Seq(those) /\ Range(pool) = those
             /\ IsFiniteSet(those) /\ Len(pool) = Cardinality(those)
<1> DEFINE ranked == Ranked(frame, words, ctx)
           those  == {e \in Range(ranked) : e.score > 0 \/ (frame = NoFrame /\ Legacy(e.def))}
<1>1. /\ Range(ranked) = {Entry(i, frame, words) : i \in {j \in DOMAIN Registry : Usable(Registry[j], ctx)}}
      /\ IsFiniteSet(Range(ranked))
  BY RankedIsAll
<1>2. \A e \in Range(ranked) : \E i \in DOMAIN Registry : e = Entry(i, frame, words) /\ e.at = i
  BY <1>1 DEF Entry
<1>3. \A e \in those : e.score \in Int /\ e.at \in Int
  <2>1. \A i \in DOMAIN Registry : i \in Int
    BY RegistryIs
  <2> QED
    BY <1>2, <2>1
<1>4. \A e, f \in those : e.at = f.at => e = f
  BY <1>2
<1>5. those \in SUBSET Range(ranked)
  OBVIOUS
<1>6. Pool(ranked, frame) = InOrder(those)
  BY DEF Pool
<1> HIDE DEF those, ranked
<1>7. IsFiniteSet(those)
  BY <1>1, <1>5, FS_Subset
<1>8. InOrder(those) \in Seq(those) /\ Len(InOrder(those)) = Cardinality(those) /\ Range(InOrder(those)) = those
  BY <1>3, <1>4, <1>7, ListHoldsAll
<1> QED
  BY <1>6, <1>7, <1>8 DEF those, ranked

LEMMA NamesOfList ==
  ASSUME NEW T, NEW s \in Seq(T)
  PROVE  /\ NamesOf(s) \in Seq(Range(NamesOf(s))) /\ Len(NamesOf(s)) = Len(s)
         /\ Range(NamesOf(s)) = {e.def.name : e \in Range(s)}
<1>1. DOMAIN s = 1..Len(s) /\ Len(s) \in Nat /\ DOMAIN NamesOf(s) = 1..Len(s)
  BY DEF NamesOf
<1>2. NamesOf(s) \in [1..Len(s) -> Range(NamesOf(s))]
  BY <1>1 DEF NamesOf, Range
<1>3. NamesOf(s) \in Seq(Range(NamesOf(s))) /\ Len(NamesOf(s)) = Len(s)
  BY <1>1, <1>2, SeqDef
<1>4. Range(NamesOf(s)) = {e.def.name : e \in Range(s)}
  BY <1>1 DEF NamesOf, Range
<1> QED
  BY <1>3, <1>4

LEMMA CutIsPart ==
  ASSUME NEW T, NEW s \in Seq(T), NEW limit \in Nat
  PROVE  /\ Cut(s, limit) \in Seq(T) /\ Len(Cut(s, limit)) <= limit
         /\ Range(Cut(s, limit)) \subseteq Range(s)
         /\ Len(s) <= limit => Cut(s, limit) = s
<1> DEFINE n == IF Len(s) < limit THEN Len(s) ELSE limit
<1>1. n \in 0..Len(s) /\ n <= limit /\ n \in Nat /\ (Len(s) <= limit => n = Len(s))
  OBVIOUS
<1>2. Cut(s, limit) = SubSeq(s, 1, n)
  BY DEF Cut
<1> HIDE DEF n
<1>3. /\ SubSeq(s, 1, n) \in Seq(T) /\ Len(SubSeq(s, 1, n)) = n
      /\ \A i \in 1..n : SubSeq(s, 1, n)[i] = s[i]
  BY <1>1
<1>4. Range(SubSeq(s, 1, n)) \subseteq Range(s)
  <2>1. DOMAIN SubSeq(s, 1, n) = 1..n /\ 1..n \subseteq DOMAIN s
    BY <1>1, <1>3
  <2> QED
    BY <1>3, <2>1 DEF Range
<1>5. n = Len(s) => SubSeq(s, 1, n) = s
  BY <1>3
<1> QED
  BY <1>1, <1>2, <1>3, <1>4, <1>5

(* The stop that is ensured is there, beside what was selected.              *)
LEMMA EnsuredIsThere ==
  ASSUME NEW T, NEW selected \in Seq(T), NEW ranked, NEW name, NEW limit
  PROVE  /\ name \in Range(ranked) => name \in Range(Ensure(selected, ranked, name, limit))
         /\ Range(Ensure(selected, ranked, name, limit)) \subseteq Range(selected) \cup {name}
         /\ name \in Range(selected) => Ensure(selected, ranked, name, limit) = selected
<1>1. CASE name \in Range(selected) \/ name \notin Range(ranked)
  BY <1>1 DEF Ensure
<1>2. CASE name \notin Range(selected) /\ name \in Range(ranked)
  <2> DEFINE s == IF Len(selected) >= limit THEN Front(selected) ELSE selected
  <2>1. Ensure(selected, ranked, name, limit) = Append(s, name)
    BY <1>2 DEF Ensure
  <2>2. s \in Seq(T) /\ Range(s) \subseteq Range(selected)
    <3>1. CASE selected = <<>>
      <4>1. Front(selected) = <<>>
        BY <3>1 DEF Front
      <4> QED
        BY <3>1, <4>1
    <3>2. CASE selected # <<>>
      <4>1. Len(selected) - 1 \in 0..Len(selected) /\ Len(selected) \in Nat
        BY <3>2
      <4>2. /\ Front(selected) \in Seq(T) /\ Len(Front(selected)) = Len(selected) - 1
            /\ \A i \in 1..(Len(selected) - 1) : Front(selected)[i] = selected[i]
        <5> DEFINE n == Len(selected) - 1
        <5>1. Front(selected) = SubSeq(selected, 1, n) /\ n \in 0..Len(selected)
          BY <4>1 DEF Front
        <5> HIDE DEF n
        <5>2. /\ SubSeq(selected, 1, n) \in Seq(T) /\ Len(SubSeq(selected, 1, n)) = n
              /\ \A i \in 1..n : SubSeq(selected, 1, n)[i] = selected[i]
          BY <5>1
        <5> QED
          BY <5>1, <5>2 DEF n
      <4>3. DOMAIN Front(selected) = 1..(Len(selected) - 1) /\ 1..(Len(selected) - 1) \subseteq DOMAIN selected
        BY <4>1, <4>2
      <4> QED
        BY <4>2, <4>3 DEF Range
    <3> QED
      BY <3>1, <3>2
  <2> HIDE DEF s
  <2>3. /\ DOMAIN Append(s, name) = 1..(Len(s) + 1) /\ Append(s, name)[Len(s) + 1] = name
        /\ \A i \in 1..Len(s) : Append(s, name)[i] = s[i]
    BY <2>2
  <2>4. Len(s) \in Nat /\ DOMAIN s = 1..Len(s)
    BY <2>2
  <2>5. Range(Append(s, name)) \subseteq Range(s) \cup {name} /\ name \in Range(Append(s, name))
    BY <2>3, <2>4 DEF Range
  <2> QED
    BY <1>2, <2>1, <2>2, <2>5
<1> QED
  BY <1>1, <1>2

(* A motion that the goal's words ask for brings the stop with it.           *)
LEMMA MotionBringsStop ==
  ASSUME NEW words \in [Names -> Nat], NEW ctx, NEW limit \in Nat
  PROVE  LET names == RouteCapabilities(NoFrame, words, ctx, limit).names
         IN  \/ \A m \in Range(names) \cap Motion : words[m] = 0
             \/ ~Usable(Definition("safe_stop"), ctx)
             \/ "safe_stop" \in Range(names)
<1> DEFINE ranked == Ranked(NoFrame, words, ctx)
           pool   == Pool(ranked, NoFrame)
           first  == Cut(pool, limit)
           names  == Selected(ranked, first, limit)
<1>1. RouteCapabilities(NoFrame, words, ctx, limit).names = names
  BY DEF RouteCapabilities, Shortlisted, Routed
<1>2. \A i \in DOMAIN Registry : Registry[i].name \in Names
  BY DEF Names
<1>3. \A i \in DOMAIN Registry : /\ Entry(i, NoFrame, words).score = words[Registry[i].name]
                                 /\ Entry(i, NoFrame, words).score \in Int
                                 /\ Entry(i, NoFrame, words).def = Registry[i]
  BY <1>2 DEF Entry
<1>4. /\ ranked \in Seq(Range(ranked))
      /\ Range(ranked) = {Entry(i, NoFrame, words) : i \in {j \in DOMAIN Registry : Usable(Registry[j], ctx)}}
  BY <1>3, RankedIsAll
<1>5. /\ pool \in Seq(Range(ranked))
  <2> DEFINE those == {e \in Range(ranked) : e.score > 0 \/ (NoFrame = NoFrame /\ Legacy(e.def))}
  <2>1. pool \in Seq(those)
    BY <1>3, PoolIsAll
  <2>2. those \subseteq Range(ranked)
    OBVIOUS
  <2> HIDE DEF those, pool, ranked
  <2> QED
    BY <2>1, <2>2
<1> HIDE DEF ranked, pool
<1>6. first \in Seq(Range(ranked))
  BY <1>5, CutIsPart
<1> HIDE DEF first
<1>7. SUFFICES ASSUME NEW m \in Range(names) \cap Motion, words[m] # 0,
                      Usable(Definition("safe_stop"), ctx), "safe_stop" \notin Range(names)
               PROVE  FALSE
  BY <1>1
<1>8. "safe_stop" \in Range(NamesOf(ranked))
  <2>1. PICK i \in DOMAIN Registry : Registry[i] = Definition("safe_stop") /\ Registry[i].name = "safe_stop"
    <3>1. \E i \in DOMAIN Registry : Registry[i].name = "safe_stop"
      BY RegistryIs DEF StopSafely, Capability
    <3> QED
      BY <3>1 DEF Definition
  <2>2. Entry(i, NoFrame, words) \in Range(ranked)
    BY <1>4, <1>7, <2>1
  <2>3. Range(NamesOf(ranked)) = {e.def.name : e \in Range(ranked)}
    BY <1>4, NamesOfList
  <2> QED
    BY <1>3, <2>1, <2>2, <2>3
<1>9. /\ NamesOf(first) \in Seq(Range(NamesOf(first)))
      /\ Range(NamesOf(first)) = {e.def.name : e \in Range(first)}
  BY <1>6, NamesOfList
<1>10. Selected(ranked, first, limit) = NamesOf(first)
  <2>1. CASE \E k \in DOMAIN first : first[k].def.class = "motion" /\ first[k].score > 0
    <3>1. names = Ensure(NamesOf(first), NamesOf(ranked), "safe_stop", limit)
      BY <2>1 DEF Selected
    <3> QED
      BY <1>7, <1>8, <1>9, <3>1, EnsuredIsThere
  <2> QED
    BY <2>1 DEF Selected
<1>11. PICK k \in DOMAIN first : first[k].def.name = m
  <2>1. m \in {e.def.name : e \in Range(first)}
    BY <1>7, <1>9, <1>10
  <2> QED
    BY <2>1 DEF Range
<1>12. PICK i \in DOMAIN Registry : first[k] = Entry(i, NoFrame, words)
  <2>1. first[k] \in Range(ranked)
    BY <1>6, <1>11
  <2> QED
    BY <1>4, <2>1
<1>13. first[k].def.class = "motion" /\ first[k].score > 0
  <2>1. Registry[i].name = m /\ first[k].score = words[m] /\ m \in Names /\ first[k].def = Registry[i]
    BY <1>2, <1>3, <1>11, <1>12
  <2>2. Registry[i].class = "motion"
    BY <1>7, <2>1, NamesAre
  <2> QED
    BY <1>7, <2>1, <2>2
<1>14. names = Ensure(NamesOf(first), NamesOf(ranked), "safe_stop", limit)
  BY <1>13 DEF Selected
<1> QED
  BY <1>7, <1>8, <1>9, <1>14, EnsuredIsThere

(* The six capabilities of a delivery.                                       *)
DeliveryKinds == {"navigate", "navigate_to_location", "dwell", "ask_human", "resume", "safe_stop"}
DeliveryPlaces == {1, 2, 5, 6, 8, 10}

LEMMA DeliveryScores ==
  /\ \A i \in DOMAIN Registry :
        Entry(i, DeliveryFrame, NoFrame).score = IF i \in DeliveryPlaces THEN 36 ELSE 0
  /\ \A i \in DeliveryPlaces : /\ i \in DOMAIN Registry /\ Registry[i].name \in DeliveryKinds
                               /\ Usable(Registry[i], DeliveryContext)
  /\ \A n \in DeliveryKinds : \E i \in DeliveryPlaces : Registry[i].name = n
<1>1. \A i \in 1..11 : i = 1 \/ i = 2 \/ i = 3 \/ i = 4 \/ i = 5 \/ i = 6 \/ i = 7 \/ i = 8
                       \/ i = 9 \/ i = 10 \/ i = 11
  OBVIOUS
<1>2. \A i \in DOMAIN Registry : Registry[i].name \in DeliveryKinds <=> i \in DeliveryPlaces
  <2>1. \A i \in 1..11 : RuntimeNames[i] \in DeliveryKinds <=> i \in DeliveryPlaces
    BY <1>1 DEF RuntimeNames, DeliveryKinds, DeliveryPlaces
  <2> QED
    BY <2>1, RegistryIs, NamesAre
<1>3. ASSUME NEW i \in DOMAIN Registry
      PROVE  Entry(i, DeliveryFrame, NoFrame).score = IF i \in DeliveryPlaces THEN 36 ELSE 0
  <2>1. Entry(i, DeliveryFrame, NoFrame).score = FrameScore(Registry[i], DeliveryFrame)
    BY FrameAssumption DEF Entry
  <2>2. /\ DeliveryFrame.intents = DeliveryKinds /\ DeliveryFrame.affordances = DeliveryKinds
        /\ DeliveryFrame.effects = DeliveryKinds /\ DeliveryFrame.events = {}
    BY DEF DeliveryFrame, DeliveryKinds
  <2>3. Cardinality({} \cap Registry[i].events) = 0
    <3>1. {} \cap Registry[i].events = {}
      OBVIOUS
    <3> QED
      BY <3>1, FS_EmptySet
  <2>4. FrameScore(Registry[i], DeliveryFrame) =
          LET own(names) == IF Registry[i].name \in names THEN 1 ELSE 0
          IN  12 * own(DeliveryKinds) + 16 * own(DeliveryKinds) + 8 * own(DeliveryKinds) + 10 * 0
    BY <2>2, <2>3 DEF FrameScore
  <2> QED
    BY <1>2, <2>1, <2>4
<1>4. ASSUME NEW i \in DeliveryPlaces PROVE i \in DOMAIN Registry /\ Usable(Registry[i], DeliveryContext)
  <2>1. i \in DOMAIN Registry
    BY RegistryIs DEF DeliveryPlaces
  <2>2. /\ Registry[i].observations \subseteq DeliveryContext.observations
        /\ Registry[i].resources \subseteq DeliveryContext.resources
        /\ Registry[i].permissions \subseteq DeliveryContext.permissions
    BY RegistryIs DEF DeliveryPlaces, DeliveryContext, AskHuman, ResumeTask, Navigate, NavigateToLocation,
       StopSafely, Dwell, Capability, Moving
  <2>3. DeliveryContext.enabled = NoFrame
    BY DEF DeliveryContext
  <2>4. \A f \in {"observations", "resources", "permissions"} : Registry[i][f] \subseteq DeliveryContext[f]
    BY <2>2
  <2> QED
    BY <2>1, <2>3, <2>4 DEF Usable
<1>5. ASSUME NEW n \in DeliveryKinds PROVE \E i \in DeliveryPlaces : Registry[i].name = n
  <2>1. \E i \in DeliveryPlaces : RuntimeNames[i] = n
    BY DEF DeliveryKinds, DeliveryPlaces, RuntimeNames
  <2> QED
    BY <1>4, <2>1, NamesAre
<1> QED
  BY <1>2, <1>3, <1>4, <1>5

(* The shortlist for a delivery holds all that its plan takes.               *)
LEMMA DeliveryFits ==
  ASSUME NEW loc
  PROVE  LET route == RouteCapabilities(DeliveryFrame, NoFrame, DeliveryContext, 8)
         IN  ~route.clarify /\ route.missing = {} /\ KindsOf(DeliveryPlan(loc)) \subseteq Range(route.names)
<1> DEFINE E(i)     == Entry(i, DeliveryFrame, NoFrame)
           ranked   == Ranked(DeliveryFrame, NoFrame, DeliveryContext)
           pool     == Pool(ranked, DeliveryFrame)
           first    == Cut(pool, 8)
           selected == Selected(ranked, first, 8)
           missing  == Missing(DeliveryFrame, selected)
           those    == {e \in Range(ranked) : e.score > 0 \/ (DeliveryFrame = NoFrame /\ Legacy(e.def))}
<1>1. \A i \in DOMAIN Registry : E(i).score \in Int /\ E(i).def = Registry[i]
  BY DeliveryScores DEF Entry
<1>2. Range(ranked) = {E(i) : i \in {j \in DOMAIN Registry : Usable(Registry[j], DeliveryContext)}}
  BY <1>1, RankedIsAll
<1>3. pool \in Seq(those) /\ Range(pool) = those /\ Len(pool) = Cardinality(those)
  BY <1>1, PoolIsAll
<1>4. those = {E(i) : i \in DeliveryPlaces}
  BY <1>2, DeliveryScores, FrameAssumption
<1> HIDE DEF those, pool, ranked
<1>5. Cardinality(those) <= 8
  <2> DEFINE U == 1..11
             A == U \ {3}
             B == A \ {4}
             C == B \ {7}
  <2>1. /\ IsFiniteSet(U) /\ Cardinality(U) = 11 /\ 3 \in U /\ 4 \in A /\ 7 \in B
    <3>1. 1 \in Int /\ 11 \in Int
      OBVIOUS
    <3>2. IsFiniteSet(1..11) /\ Cardinality(1..11) = IF 1 > 11 THEN 0 ELSE 11 - 1 + 1
      BY <3>1, FS_Interval
    <3> QED
      BY <3>2
  <2>2. DeliveryPlaces \in SUBSET C
    BY DEF DeliveryPlaces
  <2> HIDE DEF U
  <2>3. IsFiniteSet(A) /\ Cardinality(A) = 10
    BY <2>1, FS_RemoveElement
  <2> HIDE DEF A
  <2>4. IsFiniteSet(B) /\ Cardinality(B) = 9
    BY <2>1, <2>3, FS_RemoveElement
  <2> HIDE DEF B
  <2>5. IsFiniteSet(C) /\ Cardinality(C) = 8
    BY <2>1, <2>4, FS_RemoveElement
  <2> HIDE DEF C
  <2>8. IsFiniteSet(DeliveryPlaces) /\ Cardinality(DeliveryPlaces) <= 8
    BY <2>2, <2>5, FS_Subset
  <2> DEFINE f == [i \in DeliveryPlaces |-> E(i)]
  <2>9. f \in Surjection(DeliveryPlaces, those)
    BY <1>4 DEF Surjection
  <2> HIDE DEF f, E
  <2>10. IsFiniteSet(those) /\ Cardinality(those) <= Cardinality(DeliveryPlaces)
    BY <2>8, <2>9, FS_Surjection
  <2>11. Cardinality(those) \in Nat /\ Cardinality(DeliveryPlaces) \in Nat
    BY <2>8, <2>10, FS_CardinalityType
  <2> QED
    BY <2>8, <2>10, <2>11
<1>6. first = pool
  BY <1>3, <1>5, CutIsPart
<1> HIDE DEF first
<1>7. /\ NamesOf(first) \in Seq(Range(NamesOf(first))) /\ Len(NamesOf(first)) = Len(first)
      /\ Range(NamesOf(first)) = {e.def.name : e \in Range(first)}
  BY <1>3, <1>6, NamesOfList
<1>8. Range(NamesOf(first)) = DeliveryKinds
  <2>1. Range(NamesOf(first)) = {E(i).def.name : i \in DeliveryPlaces}
    BY <1>3, <1>4, <1>6, <1>7
  <2>2. \A i \in DeliveryPlaces : E(i).def.name = Registry[i].name /\ Registry[i].name \in DeliveryKinds
    BY <1>1, DeliveryScores
  <2> QED
    BY <2>1, <2>2, DeliveryScores
<1>9. selected = NamesOf(first)
  <2>1. "safe_stop" \in Range(NamesOf(first))
    BY <1>8 DEF DeliveryKinds
  <2>2. Ensure(NamesOf(first), NamesOf(ranked), "safe_stop", 8) = NamesOf(first)
    BY <1>7, <2>1, EnsuredIsThere
  <2> QED
    BY <2>2 DEF Selected
<1> HIDE DEF selected
<1>10. selected # <<>>
  BY <1>8, <1>9 DEF DeliveryKinds, Range
<1>11. missing = {}
  <2>1. ASSUME NEW n \in DeliveryKinds
        PROVE  \E k \in DOMAIN selected : {"intent", "affordance", "effect"} \X {n} \subseteq Gives(Definition(selected[k]))
    <3>1. PICK k \in DOMAIN selected : selected[k] = n
      BY <1>8, <1>9, <2>1 DEF Range
    <3>2. \E i \in DOMAIN Registry : Registry[i].name = n
      BY DeliveryScores, <2>1
    <3>3. Definition(n).name = n
      BY <3>2 DEF Definition
    <3> QED
      BY <3>1, <3>3 DEF Gives
  <2>2. \A w \in Wants(DeliveryFrame) : \E n \in DeliveryKinds : w \in {"intent", "affordance", "effect"} \X {n}
    <3>1. /\ DeliveryFrame.intents = DeliveryKinds /\ DeliveryFrame.affordances = DeliveryKinds
          /\ DeliveryFrame.effects = DeliveryKinds /\ DeliveryFrame.events = {}
      BY DEF DeliveryFrame, DeliveryKinds
    <3>2. ASSUME NEW w \in Wants(DeliveryFrame)
          PROVE  \E n \in DeliveryKinds : w = <<"intent", n>> \/ w = <<"affordance", n>> \/ w = <<"effect", n>>
      BY <3>1 DEF Wants
    <3>3. \A n : {<<"intent", n>>, <<"affordance", n>>, <<"effect", n>>} \subseteq {"intent", "affordance", "effect"} \X {n}
      OBVIOUS
    <3> QED
      BY <3>2, <3>3
  <2>3. missing = Wants(DeliveryFrame) \ UNION {Gives(Definition(selected[k])) : k \in DOMAIN selected}
    BY FrameAssumption DEF Missing
  <2> HIDE DEF missing
  <2> QED
    BY <2>1, <2>2, <2>3
<1> HIDE DEF missing
<1> DEFINE route == RouteCapabilities(DeliveryFrame, NoFrame, DeliveryContext, 8)
<1>12. route = Routed(DeliveryFrame, ranked, selected, missing)
  BY DEF RouteCapabilities, Shortlisted, selected, missing, first, pool, ranked
<1>13. /\ route.names = selected /\ route.missing = missing
       /\ route.clarify = (selected = <<>> \/ missing # {})
  BY <1>12, FrameAssumption DEF Routed
<1>14. KindsOf(DeliveryPlan(loc)) \subseteq DeliveryKinds
  <2>1. DOMAIN DeliveryPlan(loc) = 1..7 /\ \A i \in 1..7 : DeliveryPlan(loc)[i].kind \in DeliveryKinds
    BY DEF DeliveryPlan, Step, DeliveryKinds
  <2> QED
    BY <2>1 DEF KindsOf
<1> HIDE DEF route
<1>15. ~route.clarify
  BY <1>10, <1>11, <1>13
<1> QED
  BY <1>8, <1>9, <1>11, <1>13, <1>14, <1>15 DEF route

-----------------------------------------------------------------------------
(* A shortlist is the one that was computed for the request, and no delivery *)
(* was refused for what it holds.                                            *)
Answers(words, ctx, limit) ==
    /\ job.words = words /\ job.ctx = ctx
    /\ job.route = RouteCapabilities(NoFrame, words, ctx, limit)

ShortlistInv ==
    /\ job.pc = "asked" => \E words \in WordScores, ctx \in Contexts, limit \in Limits : Answers(words, ctx, limit)
    /\ job.reason \notin {"capability_route_ambiguous", "capability_outside_shortlist"}

LEMMA ResolutionsAre ==
  ASSUME NEW goal, NEW map, NEW r \in Resolutions(goal, map)
  PROVE  r.reason \notin {"capability_route_ambiguous", "capability_outside_shortlist"}
<1> DEFINE known == {"", "location_unresolved", "location_ambiguous"}
<1>1. ASSUME NEW contenders, NEW scored PROVE Pick(contenders, scored).reason \in known
  BY DEF Pick, Refused, Choice
<1>2. CASE \E scored : r = PickOf(map, scored)
  BY <1>1, <1>2 DEF PickOf
<1>3. CASE r = Refused("intent_unsupported") \/ r = Refused("semantic_map_unavailable") \/ r = Refused(Screen(goal))
  <2>1. Screen(goal) \in {"safety_override_refused", "intent_unsupported", ""}
    BY DEF Screen
  <2>2. r.reason \in {"intent_unsupported", "semantic_map_unavailable", Screen(goal)}
    BY <1>3 DEF Refused
  <2>3. r.reason \in {"intent_unsupported", "semantic_map_unavailable", "safety_override_refused", ""}
    BY <2>1, <2>2
  <2> QED
    BY <2>3
<1>4. (\E scored : r = PickOf(map, scored))
      \/ r = Refused("intent_unsupported") \/ r = Refused("semantic_map_unavailable") \/ r = Refused(Screen(goal))
  BY DEF Resolutions
<1> QED
  BY <1>2, <1>3, <1>4

LEMMA ShortlistKeeps ==
  ASSUME JobInv, ShortlistInv, [PlanningNext]_planningVars
  PROVE  ShortlistInv'
<1> DEFINE cut == {"capability_route_ambiguous", "capability_outside_shortlist"}
<1>1. DOMAIN job = DOMAIN Idle /\ {"pc", "by", "reason", "plan", "words", "ctx", "route"} \subseteq DOMAIN job
  BY DEF JobInv, PhaseInv, Idle
<1>2. job.reason \notin cut
  BY DEF ShortlistInv
<1>3. ASSUME job'.pc # "asked", job'.reason \notin cut PROVE ShortlistInv'
  BY <1>3 DEF ShortlistInv
<1>4. CASE UNCHANGED job
  BY <1>4 DEF ShortlistInv, Answers
<1>5. ASSUME NEW reason, Rejected(reason), reason \notin cut PROVE ShortlistInv'
  <2>1. job'.pc = "done" /\ job'.reason = reason
    BY <1>5 DEF Rejected, Idle
  <2> QED
    BY <1>3, <1>5, <2>1
<1>6. ASSUME NEW draft, Accepted(draft) PROVE ShortlistInv'
  <2>1. job'.pc = "compile" /\ job'.reason = job.reason
    BY <1>1, <1>6 DEF Accepted
  <2> QED
    BY <1>2, <1>3, <2>1
<1>7. ASSUME NEW goal \in Goals, ResolveGoal(goal) PROVE ShortlistInv'
  <2>1. PICK r \in Resolutions(goal, file.at) :
          job' = IF r.reason # ""
                 THEN [Idle EXCEPT !.pc = "done", !.by = "rules", !.reason = r.reason]
                 ELSE [Idle EXCEPT !.pc = "route", !.by = "rules",
                                   !.goal = goal, !.loc = r.at, !.seen = file]
    BY <1>7 DEF ResolveGoal
  <2>2. r.reason \notin cut
    BY <2>1, ResolutionsAre
  <2>3. job'.pc # "asked" /\ job'.reason \in {r.reason, ""}
    BY <2>1 DEF Idle
  <2> QED
    BY <1>3, <2>2, <2>3
<1>8. CASE RouteDelivery
  <2>1. (\E draft : Accepted(draft)) \/ Rejected("plan_not_executable")
    BY <1>8, DeliveryFits DEF RouteDelivery
  <2> QED
    BY <1>5, <1>6, <2>1
<1>9. ASSUME NEW words \in WordScores, NEW ctx \in Contexts, NEW limit \in Limits, AskModel(words, ctx, limit)
      PROVE  ShortlistInv'
  <2>1. /\ job'.words = words /\ job'.ctx = ctx /\ job'.reason = ""
        /\ job'.route = RouteCapabilities(NoFrame, words, ctx, limit)
    BY <1>9 DEF AskModel, Idle
  <2>2. job'.reason \notin cut
    BY <2>1
  <2> QED
    BY <2>1, <2>2 DEF ShortlistInv, Answers
<1>10. ASSUME NEW draft \in Proposals, ModelAnswers(draft) PROVE ShortlistInv'
  <2>1. Accepted(draft) \/ Rejected("refused")
    BY <1>10 DEF ModelAnswers
  <2> QED
    BY <1>5, <1>6, <2>1
<1>11. CASE ModelFails
  BY <1>5, <1>11 DEF ModelFails
<1>12. ASSUME NEW sights \in Sightings, NEW change \in Changes, StartSession(sights, change) PROVE ShortlistInv'
  <2>1. job'.pc # "asked" /\ job'.reason \in {"", "no_route"}
    BY <1>12 DEF StartSession, Idle
  <2> QED
    BY <1>3, <2>1
<1>13. ASSUME NEW draft, NEW id, NEW round, FirstRound(draft, id, round) \/ SecondRound(draft, id, round)
       PROVE  ShortlistInv'
  <2>1. Rejected("refused") \/ (job'.pc \in {"round", "compile"} /\ job'.reason = job.reason)
    <3>1. CASE FirstRound(draft, id, round)
      <4> DEFINE revised == (job.change.resource :> job.change.observation) @@ job.sights
      <4>1. job.pc = "round" /\ (Rejected("refused") \/ job' = [job EXCEPT !.round = 2, !.sights = revised, !.first = id])
        BY <3>1 DEF FirstRound
      <4> HIDE DEF revised
      <4> QED
        BY <1>1, <4>1
    <3>2. CASE SecondRound(draft, id, round)
      BY <1>1, <3>2 DEF SecondRound
    <3> QED
      BY <1>13, <3>1, <3>2
  <2> QED
    BY <1>2, <1>3, <1>5, <2>1
<1>14. CASE CompileNext
  <2>1. Rejected("plan_not_executable") \/ (job.pc = "compile" /\ \E x : job' = [job EXCEPT !.stations = x])
    BY <1>14 DEF CompileNext
  <2>2. CASE job.pc = "compile" /\ \E x : job' = [job EXCEPT !.stations = x]
    <3>1. job'.pc = "compile" /\ job'.reason = job.reason
      BY <1>1, <2>2
    <3> QED
      BY <1>2, <1>3, <3>1
  <2> QED
    BY <1>5, <2>1, <2>2
<1>15. CASE HandOver
  <2>1. job'.pc = "done" /\ job'.reason = job.reason
    BY <1>1, <1>15 DEF HandOver
  <2> QED
    BY <1>2, <1>3, <2>1
<1>16. CASE Forget
  <2>1. job'.pc = "idle" /\ job'.reason = ""
    BY <1>16 DEF Forget, Idle
  <2> QED
    BY <1>3, <2>1
<1>17. CASE PlanningNext
  <2>1. CASE \/ \E t \in Teachers : LoadForWrite(t) \/ WriteMap(t) \/ WriteFails(t)
             \/ \E m \in Markers : MarkRead(m) \/ MarkWrite(m)
    BY <1>4, <2>1 DEF LoadForWrite, WriteMap, WriteFails, MarkRead, MarkWrite
  <2>2. CASE \E p \in Proposals, i \in {Graph[k].id : k \in DOMAIN Graph}, r \in 1..2 :
               FirstRound(p, i, r) \/ SecondRound(p, i, r)
    <3>1. \E draft, id, round : FirstRound(draft, id, round) \/ SecondRound(draft, id, round)
      BY ONLY <2>2
    <3> QED
      BY <1>13, <3>1
  <2> QED
    BY <1>7, <1>8, <1>9, <1>10, <1>11, <1>12, <1>14, <1>15, <1>16, <1>17, <2>1, <2>2 DEF PlanningNext
<1>18. CASE UNCHANGED planningVars
  BY <1>4, <1>18 DEF planningVars
<1> QED
  BY <1>17, <1>18

(* The rule engine's delivery is never refused for the shortlist, and the     *)
(* shortlist that a model is asked with holds the stop beside every motion    *)
(* the goal's words ask for, if the robot can stop and however short it is.  *)
THEOREM PlansAreCarriedOut == PlanningSpec => []PlansCanBeCarriedOut
<1>1. PlanningInit => ShortlistInv
  <2> SUFFICES ASSUME PlanningInit PROVE ShortlistInv
    OBVIOUS
  <2>1. job.pc = "idle" /\ job.reason = ""
    BY DEF PlanningInit, Idle
  <2>2. job.reason \notin {"capability_route_ambiguous", "capability_outside_shortlist"}
    BY <2>1
  <2> QED
    BY <2>1, <2>2 DEF ShortlistInv
<1>2. JobInv /\ ShortlistInv => PlansCanBeCarriedOut
  <2> SUFFICES ASSUME ShortlistInv PROVE PlansCanBeCarriedOut
    OBVIOUS
  <2>1. DeliveryIsComposable
    BY DEF ShortlistInv, DeliveryIsComposable
  <2>2. RoutedMotionCanStop
    <3> SUFFICES ASSUME job.pc = "asked" PROVE RoutedMotionCanStop
      BY DEF RoutedMotionCanStop
    <3>1. PICK words \in WordScores, ctx \in Contexts, limit \in Limits : Answers(words, ctx, limit)
      BY DEF ShortlistInv
    <3>2. words \in [Names -> Nat] /\ limit \in Nat
      BY PlanningAssumption
    <3>3. \/ \A m \in Range(RouteCapabilities(NoFrame, words, ctx, limit).names) \cap Motion : words[m] = 0
          \/ ~Usable(Definition("safe_stop"), ctx)
          \/ "safe_stop" \in Range(RouteCapabilities(NoFrame, words, ctx, limit).names)
      BY <3>2, MotionBringsStop
    <3> QED
      BY <3>1, <3>3 DEF Answers, RoutedMotionCanStop
  <2> QED
    BY <2>1, <2>2 DEF PlansCanBeCarriedOut
<1>3. JobInv /\ ShortlistInv /\ [PlanningNext]_planningVars => ShortlistInv'
  BY ShortlistKeeps
<1> QED
  BY <1>1, <1>2, <1>3, PlanningInvariant, PTL DEF PlanningSpec

-----------------------------------------------------------------------------
(* Leases of devices.                                                        *)
FacilitySpec == FacilityInit /\ [][FacilityNext]_facilityVars

IsRecords(s) == s \in Seq(Range(s))

LeaseKinds  == {"lease_acquired", "lease_released"}
HealthKinds == {"health_changed"}

HeldBy(r) == \E k \in Kinds : lease[k] # NoDevice /\ lease[k].resource = r

(* A lease is of a device of its kind that is healthy and in reach, and a    *)
(* reader of the evidence concludes who holds one and who is healthy.        *)
LeaseInv ==
    /\ healthy \in [Resources -> BOOLEAN]
    /\ lease \in [Kinds -> Leases \cup {NoDevice}]
    /\ \A k \in Kinds : lease[k] # NoDevice =>
          LET r == lease[k].resource IN
          Device(r).kind = k /\ healthy[r] /\ Covers(Device(r), lease[k].zone)

ReadInv ==
    /\ IsRecords(facility)
    /\ \A r \in Resources : (Leased(r) <=> HeldBy(r)) /\ (ReportedHealth(r) <=> healthy[r])

FacilityInv == ~raised => LeaseInv /\ ReadInv

LEMMA AnySequence ==
  ASSUME NEW S, NEW s \in Seq(S)
  PROVE  IsRecords(s)
<1>1. s \in [1..Len(s) -> S] /\ DOMAIN s = 1..Len(s) /\ Len(s) \in Nat
  BY LenProperties
<1>2. s \in [1..Len(s) -> Range(s)]
  BY <1>1 DEF Range
<1> QED
  BY <1>1, <1>2, SeqDef DEF IsRecords

LEMMA ListsOfRecords ==
  /\ IsRecords(<<>>)
  /\ \A a : IsRecords(<<a>>) /\ Len(<<a>>) = 1
  /\ \A a, b : IsRecords(<<a, b>>) /\ Len(<<a, b>>) = 2
  /\ \A a, b, c : IsRecords(<<a, b, c>>) /\ Len(<<a, b, c>>) = 3
<1>1. IsRecords(<<>>)
  <2>1. <<>> \in Seq({})
    OBVIOUS
  <2> QED
    BY <2>1, AnySequence
<1>2. ASSUME NEW a PROVE IsRecords(<<a>>) /\ Len(<<a>>) = 1
  <2>1. <<a>> \in Seq({a})
    OBVIOUS
  <2> QED
    BY <2>1, AnySequence
<1>3. ASSUME NEW a, NEW b PROVE IsRecords(<<a, b>>) /\ Len(<<a, b>>) = 2
  <2>1. <<a, b>> \in Seq({a, b})
    OBVIOUS
  <2> QED
    BY <2>1, AnySequence
<1>4. ASSUME NEW a, NEW b, NEW c PROVE IsRecords(<<a, b, c>>) /\ Len(<<a, b, c>>) = 3
  <2>1. <<a, b, c>> \in Seq({a, b, c})
    OBVIOUS
  <2> QED
    BY <2>1, AnySequence
<1> QED
  BY <1>1, <1>2, <1>3, <1>4

(* The records two sequences make together.                                  *)
LEMMA RecordsAppended ==
  ASSUME NEW s, IsRecords(s), NEW t, IsRecords(t)
  PROVE  /\ IsRecords(s \o t)
         /\ Len(s) \in Nat /\ Len(t) \in Nat
         /\ Len(s \o t) = Len(s) + Len(t) /\ DOMAIN (s \o t) = 1..(Len(s) + Len(t))
         /\ \A i \in 1..Len(s) : (s \o t)[i] = s[i]
         /\ \A i \in 1..Len(t) : (s \o t)[Len(s) + i] = t[i]
<1> DEFINE both == Range(s) \cup Range(t)
<1>1. s \in Seq(both) /\ t \in Seq(both)
  BY DEF IsRecords
<1> HIDE DEF both
<1>2. /\ s \o t \in Seq(both) /\ Len(s) \in Nat /\ Len(t) \in Nat
      /\ Len(s \o t) = Len(s) + Len(t)
      /\ \A i \in 1..(Len(s) + Len(t)) : (s \o t)[i] = IF i <= Len(s) THEN s[i] ELSE t[i - Len(s)]
  BY <1>1, ConcatProperties, LenProperties
<1>3. DOMAIN (s \o t) = 1..(Len(s) + Len(t))
  BY <1>2
<1>4. IsRecords(s \o t)
  BY <1>2, AnySequence
<1>5. \A i \in 1..Len(t) : (s \o t)[Len(s) + i] = t[i]
  BY <1>2
<1>6. \A i \in 1..Len(s) : (s \o t)[i] = s[i]
  BY <1>2
<1> QED
  BY <1>2, <1>3, <1>4, <1>5, <1>6

LEMMA ThreeAppended ==
  ASSUME NEW s, IsRecords(s), NEW t, IsRecords(t), Len(t) = 3
  PROVE  /\ IsRecords(s \o t) /\ Len(s \o t) = Len(s) + 3
         /\ \A i \in 1..Len(s) : (s \o t)[i] = s[i]
         /\ \A i \in 1..3 : (s \o t)[Len(s) + i] = t[i]
<1>1. IsRecords(s \o t)
  BY RecordsAppended
<1>2. Len(s \o t) = Len(s) + Len(t)
  BY RecordsAppended
<1>3. \A i \in 1..Len(s) : (s \o t)[i] = s[i]
  BY RecordsAppended
<1>4. ASSUME NEW i \in 1..3 PROVE (s \o t)[Len(s) + i] = t[i]
  <2>1. \A j \in 1..Len(t) : (s \o t)[Len(s) + j] = t[j]
    BY ONLY IsRecords(s), IsRecords(t), RecordsAppended
  <2> QED
    BY <2>1
<1> QED
  BY <1>1, <1>2, <1>3, <1>4

(* What is recorded about something else changes nothing, ...                *)
LEMMA OthersRecorded ==
  ASSUME IsRecords(facility), NEW new, IsRecords(new), facility' = facility \o new,
         NEW kinds, NEW r, \A p \in 1..Len(new) : ~About(new[p], kinds, r),
         NEW i
  PROVE  /\ (i \in DOMAIN facility' /\ LastAbout(i, kinds, r)')
              <=> (i \in DOMAIN facility /\ LastAbout(i, kinds, r))
         /\ i \in DOMAIN facility => facility'[i] = facility[i]
<1> DEFINE m == Len(facility)
           n == Len(new)
<1>1. /\ m \in Nat /\ n \in Nat /\ DOMAIN facility' = 1..(m + n) /\ DOMAIN facility = 1..m
      /\ Len(facility') = m + n
      /\ \A j \in 1..m : facility'[j] = facility[j]
      /\ \A j \in 1..n : facility'[m + j] = new[j]
  BY RecordsAppended DEF IsRecords
<1> HIDE DEF m, n
<1>2. \A j \in (m + 1)..(m + n) : ~About(facility'[j], kinds, r)
  <2> SUFFICES ASSUME NEW j \in (m + 1)..(m + n) PROVE ~About(facility'[j], kinds, r)
    OBVIOUS
  <2>1. j - m \in 1..n /\ m + (j - m) = j
    BY <1>1
  <2> QED
    BY <1>1, <2>1 DEF n
<1>3. \A j : About(facility[j], kinds, r)' <=> About(facility'[j], kinds, r)
  BY DEF About
<1>4. CASE i \in 1..m
  <2>1. facility'[i] = facility[i] /\ i \in Int
    BY <1>1, <1>4
  <2>2. (\A j \in (i + 1)..m : ~About(facility[j], kinds, r))
          <=> (\A j \in (i + 1)..(m + n) : ~About(facility'[j], kinds, r))
    <3>1. \A j \in (i + 1)..(m + n) : j \in (i + 1)..m \/ j \in (m + 1)..(m + n)
      BY <1>1, <1>4
    <3>2. \A j \in (i + 1)..m : j \in (i + 1)..(m + n) /\ facility'[j] = facility[j]
      BY <1>1, <1>4
    <3> QED
      BY <1>2, <3>1, <3>2
  <2>3. LastAbout(i, kinds, r)' <=>
          About(facility'[i], kinds, r) /\ \A j \in (i + 1)..(m + n) : ~About(facility'[j], kinds, r)
    BY <1>1 DEF LastAbout, About
  <2>4. LastAbout(i, kinds, r) <=>
          About(facility[i], kinds, r) /\ \A j \in (i + 1)..m : ~About(facility[j], kinds, r)
    BY DEF LastAbout, m
  <2> QED
    BY <1>1, <1>4, <2>1, <2>2, <2>3, <2>4
<1>5. CASE i \notin 1..m
  <2>1. i \in 1..(m + n) => i \in (m + 1)..(m + n)
    BY <1>1, <1>5
  <2>2. i \in 1..(m + n) => ~LastAbout(i, kinds, r)'
    BY <1>2, <2>1 DEF LastAbout, About
  <2> QED
    BY <1>1, <1>5, <2>2
<1> QED
  BY <1>4, <1>5

(* ... and the last record about it is the last of all.                      *)
LEMMA LastRecorded ==
  ASSUME IsRecords(facility), NEW new, IsRecords(new), facility' = facility \o new,
         NEW kinds, NEW r, NEW p \in 1..Len(new), About(new[p], kinds, r),
         \A q \in (p + 1)..Len(new) : ~About(new[q], kinds, r)
  PROVE  /\ \A i : (i \in DOMAIN facility' /\ LastAbout(i, kinds, r)') <=> i = Len(facility) + p
         /\ facility'[Len(facility) + p] = new[p]
<1> DEFINE m == Len(facility)
           n == Len(new)
<1>1. /\ m \in Nat /\ n \in Nat /\ DOMAIN facility' = 1..(m + n)
      /\ Len(facility') = m + n
      /\ \A j \in 1..n : facility'[m + j] = new[j]
  BY RecordsAppended
<1> HIDE DEF m
<1>2. p \in Nat /\ p >= 1 /\ p <= n
  BY <1>1
<1>3. \A j \in (m + p + 1)..(m + n) : ~About(facility'[j], kinds, r)
  <2> SUFFICES ASSUME NEW j \in (m + p + 1)..(m + n) PROVE ~About(facility'[j], kinds, r)
    OBVIOUS
  <2>1. j - m \in (p + 1)..n /\ j - m \in 1..n /\ m + (j - m) = j
    BY <1>1, <1>2
  <2> QED
    BY <1>1, <2>1
<1>4. facility'[m + p] = new[p] /\ m + p \in 1..(m + n)
  BY <1>1, <1>2
<1> HIDE DEF n
<1>5. \A j : LastAbout(j, kinds, r)' <=>
        About(facility'[j], kinds, r) /\ \A l \in (j + 1)..(m + n) : ~About(facility'[l], kinds, r)
  BY <1>1 DEF LastAbout, About
<1> SUFFICES ASSUME NEW i PROVE (i \in DOMAIN facility' /\ LastAbout(i, kinds, r)') <=> i = m + p
  BY <1>4 DEF m
<1>6. CASE i = m + p
  BY <1>1, <1>2, <1>3, <1>4, <1>5, <1>6 DEF m
<1>7. CASE i # m + p /\ i \in 1..(m + n)
  <2>1. CASE i < m + p
    <3>1. m + p \in (i + 1)..(m + n)
      BY <1>1, <1>2, <1>7, <2>1
    <3> QED
      BY <1>4, <1>5, <1>7, <3>1 DEF m
  <2>2. CASE i > m + p
    <3>1. i \in (m + p + 1)..(m + n)
      BY <1>1, <1>2, <1>7, <2>2
    <3> QED
      BY <1>3, <1>4, <1>5, <1>7, <3>1 DEF m
  <2>3. i \in Int /\ m + p \in Int
    BY <1>1, <1>2, <1>7
  <2>4. i < m + p \/ i > m + p
    BY <1>7, <2>3
  <2> QED
    BY <2>1, <2>2, <2>4
<1> QED
  BY <1>1, <1>4, <1>6, <1>7 DEF m

(* The reader's conclusions after new records.                               *)
LEMMA ReadAfter ==
  ASSUME IsRecords(facility), NEW new, IsRecords(new), facility' = facility \o new, NEW r
  PROVE  /\ (\A p \in 1..Len(new) : ~About(new[p], LeaseKinds, r)) => (Leased(r)' <=> Leased(r))
         /\ (\A p \in 1..Len(new) : ~About(new[p], HealthKinds, r))
               => (ReportedHealth(r)' <=> ReportedHealth(r))
         /\ \A p \in 1..Len(new) :
               About(new[p], LeaseKinds, r) /\ (\A q \in (p + 1)..Len(new) : ~About(new[q], LeaseKinds, r))
                  => (Leased(r)' <=> new[p].kind = "lease_acquired")
         /\ \A p \in 1..Len(new) :
               About(new[p], HealthKinds, r) /\ (\A q \in (p + 1)..Len(new) : ~About(new[q], HealthKinds, r))
                  => (ReportedHealth(r)' <=> new[p].healthy)
<1>1. ASSUME \A p \in 1..Len(new) : ~About(new[p], LeaseKinds, r) PROVE Leased(r)' <=> Leased(r)
  <2>1. \A i : /\ (i \in DOMAIN facility' /\ LastAbout(i, LeaseKinds, r)')
                     <=> (i \in DOMAIN facility /\ LastAbout(i, LeaseKinds, r))
               /\ i \in DOMAIN facility => facility'[i] = facility[i]
    BY <1>1, OthersRecorded
  <2> QED
    BY <2>1 DEF Leased, LeaseKinds
<1>2. ASSUME \A p \in 1..Len(new) : ~About(new[p], HealthKinds, r)
      PROVE  ReportedHealth(r)' <=> ReportedHealth(r)
  <2>1. \A i : /\ (i \in DOMAIN facility' /\ LastAbout(i, HealthKinds, r)')
                     <=> (i \in DOMAIN facility /\ LastAbout(i, HealthKinds, r))
               /\ i \in DOMAIN facility => facility'[i] = facility[i]
    BY <1>2, OthersRecorded
  <2> QED
    BY <2>1 DEF ReportedHealth, HealthKinds
<1>3. ASSUME NEW p \in 1..Len(new), About(new[p], LeaseKinds, r),
             \A q \in (p + 1)..Len(new) : ~About(new[q], LeaseKinds, r)
      PROVE  Leased(r)' <=> new[p].kind = "lease_acquired"
  <2>1. PICK kinds : kinds = LeaseKinds
    OBVIOUS
  <2>2. About(new[p], kinds, r) /\ \A q \in (p + 1)..Len(new) : ~About(new[q], kinds, r)
    BY <1>3, <2>1
  <2>3. /\ \A i : (i \in DOMAIN facility' /\ LastAbout(i, kinds, r)') <=> i = Len(facility) + p
        /\ facility'[Len(facility) + p] = new[p]
    BY <2>2, LastRecorded
  <2> QED
    BY <2>1, <2>3 DEF Leased, LeaseKinds
<1>4. ASSUME NEW p \in 1..Len(new), About(new[p], HealthKinds, r),
             \A q \in (p + 1)..Len(new) : ~About(new[q], HealthKinds, r)
      PROVE  ReportedHealth(r)' <=> new[p].healthy
  <2>1. PICK kinds : kinds = HealthKinds
    OBVIOUS
  <2>2. About(new[p], kinds, r) /\ \A q \in (p + 1)..Len(new) : ~About(new[q], kinds, r)
    BY <1>4, <2>1
  <2>3. /\ \A i : (i \in DOMAIN facility' /\ LastAbout(i, kinds, r)') <=> i = Len(facility) + p
        /\ facility'[Len(facility) + p] = new[p]
    BY <2>2, LastRecorded
  <2> QED
    BY <2>1, <2>3 DEF ReportedHealth, HealthKinds
<1> QED
  BY <1>1, <1>2, <1>3, <1>4

(* What one call adds to the list, if it does not raise.                     *)
LEMMA WholeCall ==
  ASSUME NEW new, IsRecords(new), NEW fault, NEW n \in 0..Len(new), Recorded(new, n, fault), ~raised'
  PROVE  n = Len(new) /\ facility' = facility \o new
<1>1. Len(new) \in Nat
  BY DEF IsRecords
<1>2. n = Len(new)
  <2>1. ~(n < Len(new))
    BY DEF Recorded
  <2> QED
    BY <1>1, <2>1
<1>3. SubSeq(new, 1, n) = new
  BY <1>1, <1>2 DEF IsRecords
<1> QED
  BY <1>2, <1>3 DEF Recorded

LEMMA FrameKeeps ==
  ASSUME LeaseInv, ReadInv, NEW r \in Resources, NEW fault, ObserveFrame(r, fault), ~raised'
  PROVE  LeaseInv' /\ ReadInv'
<1> DEFINE new == <<Record("stream_ready", r, FALSE)>>
<1>1. IsRecords(new) /\ Len(new) = 1 /\ new[1].kind = "stream_ready"
  BY ListsOfRecords DEF Record
<1>2. facility' = facility \o new /\ UNCHANGED <<healthy, lease>>
  <2>1. PICK n \in 0..1 : Recorded(new, n, fault)
    BY DEF ObserveFrame
  <2> QED
    BY <1>1, <2>1, WholeCall DEF ObserveFrame
<1> HIDE DEF new
<1>3. ASSUME NEW q
      PROVE  (Leased(q)' <=> Leased(q)) /\ (ReportedHealth(q)' <=> ReportedHealth(q))
  <2>1. \A p \in 1..Len(new) : ~About(new[p], LeaseKinds, q) /\ ~About(new[p], HealthKinds, q)
    <3>1. \A p \in 1..1 : p = 1
      OBVIOUS
    <3> QED
      BY <1>1, <3>1 DEF About, LeaseKinds, HealthKinds
  <2> QED
    BY <1>1, <1>2, <2>1, ReadAfter DEF ReadInv
<1>4. IsRecords(facility)'
  BY <1>1, <1>2, RecordsAppended DEF ReadInv
<1> QED
  BY <1>2, <1>3, <1>4 DEF LeaseInv, ReadInv, HeldBy

(* A device that is lost gives its lease back, and no other lease is of it.  *)
LEMMA HealthKeeps ==
  ASSUME LeaseInv, ReadInv, NEW r \in Resources, NEW ok \in BOOLEAN, NEW fault, SetHealth(r, ok, fault), ~raised'
  PROVE  LeaseInv' /\ ReadInv'
<1> DEFINE kind    == Device(r).kind
           lost    == ~ok /\ lease[kind] # NoDevice /\ lease[kind].resource = r
           changed == IF healthy[r] # ok THEN <<HealthChanged(r, ok)>> ELSE <<>>
           fact    == Assessment(r, lease[kind].contract,
                        [Good(FallbackAvailable(r, lease[kind].zone, [healthy EXCEPT ![r] = ok]))
                           EXCEPT !.healthy = FALSE, !.confidence = 0])
           loss    == IF lost THEN <<fact, Record("lease_released", r, FALSE)>> ELSE <<>>
           new     == changed \o loss
<1>1. /\ kind \in Kinds
      /\ \A k \in Kinds : lease[k] # NoDevice /\ lease[k].resource = r => k = kind
  <2>1. PICK i \in DOMAIN Catalog : Catalog[i].id = r
    BY DEF Resources
  <2>2. kind \in Kinds
    BY <2>1 DEF Device, Kinds
  <2> QED
    BY <2>2 DEF LeaseInv
<1>2. fact.kind = "dependency_assessed" /\ fact.resource = r
  BY DEF Assessment
<1>3. /\ healthy' = [healthy EXCEPT ![r] = ok]
      /\ \E n \in 0..Len(new) :
            /\ Recorded(new, n, fault)
            /\ lease' = IF lost /\ n > Len(changed) THEN [lease EXCEPT ![kind] = NoDevice] ELSE lease
  BY DEF SetHealth
<1> HIDE DEF kind, fact
<1>4. IsRecords(changed) /\ IsRecords(loss)
  BY ListsOfRecords
<1>5. /\ Len(changed) = IF healthy[r] # ok THEN 1 ELSE 0
      /\ healthy[r] # ok => changed[1] = HealthChanged(r, ok)
      /\ Len(loss) = IF lost THEN 2 ELSE 0
      /\ lost => loss[1] = fact /\ loss[2] = Record("lease_released", r, FALSE)
  OBVIOUS
<1> HIDE DEF changed, loss, lost
<1>6. /\ IsRecords(new) /\ Len(new) = Len(changed) + Len(loss)
      /\ \A i \in 1..Len(changed) : new[i] = changed[i]
      /\ \A i \in 1..Len(loss) : new[Len(changed) + i] = loss[i]
  BY <1>4, RecordsAppended
<1> HIDE DEF new
<1>7. /\ facility' = facility \o new
      /\ lease' = IF lost THEN [lease EXCEPT ![kind] = NoDevice] ELSE lease
  <2>1. PICK n \in 0..Len(new) :
          /\ Recorded(new, n, fault)
          /\ lease' = IF lost /\ n > Len(changed) THEN [lease EXCEPT ![kind] = NoDevice] ELSE lease
    BY <1>3
  <2>2. n = Len(new) /\ facility' = facility \o new
    BY <1>6, <2>1, WholeCall
  <2> QED
    BY <1>5, <1>6, <2>1, <2>2
<1>8. IsRecords(facility)'
  BY <1>6, <1>7, RecordsAppended DEF ReadInv
<1>9. \A p \in 1..Len(new) : new[p] \in {HealthChanged(r, ok), fact, Record("lease_released", r, FALSE)}
  <2> SUFFICES ASSUME NEW p \in 1..Len(new)
               PROVE  new[p] \in {HealthChanged(r, ok), fact, Record("lease_released", r, FALSE)}
    OBVIOUS
  <2>1. Len(changed) \in {0, 1} /\ Len(loss) \in {0, 2}
    BY <1>5
  <2>2. CASE p \in 1..Len(changed)
    <3>1. healthy[r] # ok /\ p = 1
      BY <1>5, <2>1, <2>2
    <3> QED
      BY <1>5, <1>6, <2>2, <3>1
  <2>3. CASE p \notin 1..Len(changed)
    <3>1. p - Len(changed) \in 1..Len(loss) /\ Len(changed) + (p - Len(changed)) = p
      BY <1>6, <2>1, <2>3
    <3>2. lost /\ p - Len(changed) \in {1, 2}
      BY <1>5, <2>1, <3>1
    <3> QED
      BY <1>5, <1>6, <3>1, <3>2
  <2> QED
    BY <2>2, <2>3
<1>10. ASSUME NEW q, q # r
       PROVE  \A p \in 1..Len(new) : ~About(new[p], LeaseKinds, q) /\ ~About(new[p], HealthKinds, q)
  BY <1>2, <1>9, <1>10 DEF About, HealthChanged, Record
<1>11. ReportedHealth(r)' <=> ok
  <2>1. CASE healthy[r] # ok
    <3>1. Len(changed) = 1 /\ 1 \in 1..Len(new) /\ new[1] = HealthChanged(r, ok)
      BY <1>5, <1>6, <2>1
    <3>2. \A q \in 2..Len(new) : new[q] \in {fact, Record("lease_released", r, FALSE)}
      <4> SUFFICES ASSUME NEW q \in 2..Len(new) PROVE new[q] \in {fact, Record("lease_released", r, FALSE)}
        OBVIOUS
      <4>1. lost /\ q - 1 \in {1, 2} /\ 1 + (q - 1) = q /\ q - 1 \in 1..Len(loss)
        BY <1>5, <1>6, <3>1
      <4>2. new[1 + (q - 1)] = loss[q - 1]
        BY <1>6, <3>1, <4>1
      <4> QED
        BY <1>5, <4>1, <4>2
    <3>3. /\ About(new[1], HealthKinds, r) /\ new[1].healthy = ok
          /\ \A q \in (1 + 1)..Len(new) : ~About(new[q], HealthKinds, r)
      BY <1>2, <3>1, <3>2 DEF About, HealthChanged, Record, HealthKinds
    <3> QED
      BY <1>6, <1>7, <3>1, <3>3, ReadAfter DEF ReadInv
  <2>2. CASE healthy[r] = ok
    <3>1. \A p \in 1..Len(new) : new[p] \in {fact, Record("lease_released", r, FALSE)}
      <4> SUFFICES ASSUME NEW p \in 1..Len(new) PROVE new[p] \in {fact, Record("lease_released", r, FALSE)}
        OBVIOUS
      <4>1. lost /\ p \in {1, 2} /\ p \in 1..Len(loss) /\ Len(changed) = 0 /\ Len(changed) + p = p
        BY <1>5, <1>6, <2>2
      <4> QED
        BY <1>5, <1>6, <4>1
    <3>2. \A p \in 1..Len(new) : ~About(new[p], HealthKinds, r)
      BY <1>2, <3>1 DEF About, Record, HealthKinds
    <3>3. ReportedHealth(r)' <=> ReportedHealth(r)
      BY <1>6, <1>7, <3>2, ReadAfter DEF ReadInv
    <3> QED
      BY <2>2, <3>3 DEF ReadInv
  <2> QED
    BY <2>1, <2>2
<1>12. CASE lost
  <2>1. /\ Len(new) \in 1..Len(new) /\ new[Len(new)] = Record("lease_released", r, FALSE)
        /\ \A q \in (Len(new) + 1)..Len(new) : FALSE
    <3>1. Len(loss) = 2 /\ Len(changed) \in Nat /\ Len(new) = Len(changed) + 2 /\ 2 \in 1..Len(loss)
      BY <1>5, <1>6, <1>12
    <3>2. new[Len(changed) + 2] = loss[2]
      BY <1>6, <3>1
    <3>3. Len(new) \in 1..Len(new) /\ \A q \in (Len(new) + 1)..Len(new) : FALSE
      BY <3>1
    <3> QED
      BY <1>5, <1>12, <3>1, <3>2, <3>3
  <2>2. ~Leased(r)'
    <3>1. About(new[Len(new)], LeaseKinds, r) /\ new[Len(new)].kind # "lease_acquired"
      BY <2>1 DEF About, Record, LeaseKinds
    <3>2. \A q \in (Len(new) + 1)..Len(new) : ~About(new[q], LeaseKinds, r)
      BY <2>1
    <3>3. \A p \in 1..Len(new) :
            About(new[p], LeaseKinds, r) /\ (\A q \in (p + 1)..Len(new) : ~About(new[q], LeaseKinds, r))
               => (Leased(r)' <=> new[p].kind = "lease_acquired")
      BY <1>6, <1>7, ReadAfter DEF ReadInv
    <3>4. Leased(r)' <=> new[Len(new)].kind = "lease_acquired"
      BY ONLY <2>1, <3>1, <3>2, <3>3
    <3> QED
      BY <3>1, <3>4
  <2>3. /\ lease' = [lease EXCEPT ![kind] = NoDevice]
        /\ lease[kind] # NoDevice /\ lease[kind].resource = r /\ ~ok
    BY <1>7, <1>12 DEF lost
  <2>4. lease' \in [Kinds -> Leases \cup {NoDevice}]
    BY <2>3 DEF LeaseInv
  <2>5. ~HeldBy(r)'
    BY <1>1, <2>3, <2>4 DEF HeldBy, LeaseInv
  <2>6. \A q \in Resources : q # r => (HeldBy(q)' <=> HeldBy(q))
    BY <1>1, <2>3, <2>4 DEF HeldBy, LeaseInv
  <2>7. ReadInv'
    <3>1. \A q \in Resources : q # r =>
            (Leased(q)' <=> Leased(q)) /\ (ReportedHealth(q)' <=> ReportedHealth(q)) /\ healthy'[q] = healthy[q]
      BY <1>3, <1>6, <1>7, <1>10, ReadAfter DEF ReadInv, LeaseInv
    <3>2. healthy'[r] = ok
      BY <1>3 DEF LeaseInv
    <3> QED
      BY <1>8, <1>11, <2>2, <2>5, <2>6, <3>1, <3>2 DEF ReadInv
  <2>8. LeaseInv'
    BY <1>1, <1>3, <2>3, <2>4 DEF LeaseInv
  <2> QED
    BY <2>7, <2>8
<1>13. CASE ~lost
  <2>1. lease' = lease /\ Len(loss) = 0
    BY <1>5, <1>7, <1>13
  <2>2. \A p \in 1..Len(new) : new[p] = HealthChanged(r, ok)
    <3> SUFFICES ASSUME NEW p \in 1..Len(new) PROVE new[p] = HealthChanged(r, ok)
      OBVIOUS
    <3>1. healthy[r] # ok /\ p = 1 /\ p \in 1..Len(changed)
      BY <1>5, <1>6, <2>1
    <3> QED
      BY <1>5, <1>6, <3>1
  <2>3. \A q : Leased(q)' <=> Leased(q)
    <3>1. \A q, p : p \in 1..Len(new) => ~About(new[p], LeaseKinds, q)
      BY <2>2 DEF About, HealthChanged, LeaseKinds
    <3> QED
      BY <1>6, <1>7, <3>1, ReadAfter DEF ReadInv
  <2>4. ReadInv'
    <3>1. \A q \in Resources : q # r => (ReportedHealth(q)' <=> ReportedHealth(q)) /\ healthy'[q] = healthy[q]
      BY <1>3, <1>6, <1>7, <1>10, ReadAfter DEF ReadInv, LeaseInv
    <3>2. healthy'[r] = ok
      BY <1>3 DEF LeaseInv
    <3>3. \A q : HeldBy(q)' <=> HeldBy(q)
      BY <2>1 DEF HeldBy
    <3> QED
      BY <1>8, <1>11, <2>3, <3>1, <3>2, <3>3 DEF ReadInv
  <2>5. \A k \in Kinds : lease[k] # NoDevice => ok \/ lease[k].resource # r
    BY <1>1, <1>13 DEF lost
  <2>6. LeaseInv'
    <3>1. /\ healthy' \in [Resources -> BOOLEAN]
          /\ \A q \in Resources : healthy'[q] = IF q = r THEN ok ELSE healthy[q]
      BY <1>3 DEF LeaseInv
    <3>2. \A k \in Kinds : lease[k] # NoDevice => lease[k].resource \in Resources
      BY DEF LeaseInv, Leases
    <3> QED
      BY <2>1, <2>5, <3>1, <3>2 DEF LeaseInv
  <2> QED
    BY <2>4, <2>6
<1> QED
  BY <1>12, <1>13

(* A handoff releases the lease of the device it takes over from, and gives  *)
(* the other one a lease of its own.                                         *)
LEMMA HandoffKeeps ==
  ASSUME LeaseInv, ReadInv, NEW kind \in Kinds, NEW zone \in DeviceZones, NEW r \in Resources,
         NEW requirement \in Requirements, NEW fault, Handoff(kind, zone, r, requirement, fault), ~raised'
  PROVE  LeaseInv' /\ ReadInv'
<1> DEFINE bound   == [resource |-> r, zone |-> zone, contract |-> Required(r, requirement)]
           release == IF Held(kind) \in {NoDevice, r} THEN <<>> ELSE Released(Held(kind))
           quality == Assessment(r, bound.contract, Good(TRUE))
           taken   == <<Record("router_selected", r, TRUE), Record("lease_acquired", r, FALSE), quality>>
           retained == <<Record("lease_retained", r, TRUE), quality>>
           new     == IF Held(kind) = r THEN retained ELSE release \o taken
<1>1. /\ Selects(r, kind, zone, healthy)
      /\ \E n \in 0..Len(new) :
            /\ Recorded(new, n, fault)
            /\ lease' = IF n >= Len(release) THEN [lease EXCEPT ![kind] = bound] ELSE lease
      /\ UNCHANGED healthy
  BY DEF Handoff, Acquired
<1>2. bound \in Leases /\ bound # NoDevice /\ r # NoDevice
  <2>1. PICK i \in DOMAIN Catalog : Catalog[i].id = r
    BY DEF Resources
  <2>2. Device(r).contract \in Contracts
    BY <2>1 DEF Device, Contracts
  <2>3. Required(r, requirement) \in Contracts
    BY <2>2 DEF Required, Contracts
  <2>4. bound \in Leases
    BY <2>3 DEF Leases
  <2> HIDE DEF bound
  <2> QED
    BY <2>4, CatalogAssumption DEF CatalogAssumption
<1>3. Device(r).kind = kind /\ healthy[r] /\ Covers(Device(r), zone)
  BY <1>1 DEF Selects, Candidate
<1>4. bound.resource = r /\ bound.zone = zone
  OBVIOUS
<1>5. quality.kind = "dependency_assessed"
  BY DEF Assessment
<1> HIDE DEF bound, quality
<1>6. /\ IsRecords(release) /\ IsRecords(taken) /\ IsRecords(retained)
      /\ Len(release) = IF Held(kind) \in {NoDevice, r} THEN 0 ELSE 1
      /\ Len(taken) = 3 /\ Len(retained) = 2
      /\ Held(kind) \notin {NoDevice, r} => release[1] = Record("lease_released", Held(kind), FALSE)
      /\ taken[1] = Record("router_selected", r, TRUE) /\ taken[2] = Record("lease_acquired", r, FALSE)
      /\ taken[3] = quality
      /\ retained[1] = Record("lease_retained", r, TRUE) /\ retained[2] = quality
  <2>1. IsRecords(taken) /\ Len(taken) = 3 /\ IsRecords(retained) /\ Len(retained) = 2
    BY ListsOfRecords
  <2>2. CASE Held(kind) \in {NoDevice, r}
    BY <2>1, <2>2, ListsOfRecords
  <2>3. CASE Held(kind) \notin {NoDevice, r}
    BY <2>1, <2>3, ListsOfRecords DEF Released
  <2> QED
    BY <2>2, <2>3
<1> HIDE DEF release, taken, retained, new
<1>7. /\ IsRecords(release \o taken) /\ Len(release \o taken) = Len(release) + 3
      /\ \A i \in 1..Len(release) : (release \o taken)[i] = release[i]
      /\ \A i \in 1..3 : (release \o taken)[Len(release) + i] = taken[i]
  <2>2. PICK s, t : s = release /\ t = taken
    OBVIOUS
  <2>3. IsRecords(s) /\ IsRecords(t) /\ Len(t) = 3
    BY <1>6, <2>2
  <2>4. /\ IsRecords(s \o t) /\ Len(s \o t) = Len(s) + 3
        /\ \A i \in 1..Len(s) : (s \o t)[i] = s[i]
        /\ \A i \in 1..3 : (s \o t)[Len(s) + i] = t[i]
    BY <2>3, ThreeAppended
  <2> QED
    BY <2>2, <2>4
<1>8. /\ IsRecords(new)
      /\ Held(kind) = r => new = retained
      /\ Held(kind) # r => new = release \o taken
  BY <1>6, <1>7 DEF new
<1>9. /\ facility' = facility \o new
      /\ lease' = [lease EXCEPT ![kind] = bound]
  <2>1. PICK n \in 0..Len(new) :
          /\ Recorded(new, n, fault)
          /\ lease' = IF n >= Len(release) THEN [lease EXCEPT ![kind] = bound] ELSE lease
    BY <1>1
  <2>2. n = Len(new) /\ facility' = facility \o new
    BY <1>8, <2>1, WholeCall
  <2>3. Len(new) >= Len(release)
    <3>1. CASE Held(kind) = r
      BY <1>6, <1>8, <3>1
    <3>2. CASE Held(kind) # r
      <4>1. Len(release) \in {0, 1}
        BY <1>6
      <4> QED
        BY <1>7, <1>8, <3>2, <4>1
    <3> QED
      BY <3>1, <3>2
  <2> QED
    BY <2>1, <2>2, <2>3
<1>10. IsRecords(facility)'
  BY <1>8, <1>9, RecordsAppended DEF ReadInv
<1>11. lease' \in [Kinds -> Leases \cup {NoDevice}] /\ lease'[kind] = bound
       /\ \A k \in Kinds \ {kind} : lease'[k] = lease[k]
  BY <1>2, <1>9 DEF LeaseInv
<1>12. LeaseInv'
  BY <1>1, <1>3, <1>4, <1>11 DEF LeaseInv
(* Who holds a lease of another kind is a device of that kind.               *)
<1>13. \A q : \A k \in Kinds \ {kind} : lease[k] # NoDevice /\ lease[k].resource = q => Device(q).kind = k
  BY DEF LeaseInv
<1>14. HeldBy(r)'
  BY <1>2, <1>4, <1>11 DEF HeldBy
<1>15. PICK old : old = Held(kind)
  OBVIOUS
<1>16. \A q : q # r /\ q # old => (HeldBy(q)' <=> HeldBy(q))
  BY <1>2, <1>4, <1>11, <1>15 DEF HeldBy, Held
<1>17. old \notin {NoDevice, r} => ~HeldBy(old)'
  <2> SUFFICES ASSUME old \notin {NoDevice, r} PROVE ~HeldBy(old)'
    OBVIOUS
  <2>1. lease[kind] # NoDevice /\ old = lease[kind].resource /\ Device(old).kind = kind
    BY <1>15 DEF Held, LeaseInv
  <2> QED
    BY <1>4, <1>11, <1>13, <2>1 DEF HeldBy
<1>18. \A q : ReportedHealth(q)' <=> ReportedHealth(q)
  <2>1. \A p \in 1..Len(new) : new[p].kind # "health_changed"
    <3>1. CASE old = r
      <4>1. Len(new) = 2 /\ new[1] = Record("lease_retained", r, TRUE) /\ new[2] = quality
        BY <1>6, <1>8, <1>15, <3>1
      <4>2. \A p \in 1..2 : p = 1 \/ p = 2
        OBVIOUS
      <4> QED
        BY <1>5, <4>1, <4>2 DEF Record
    <3>2. CASE old # r
      <4> SUFFICES ASSUME NEW p \in 1..Len(new) PROVE new[p].kind # "health_changed"
        OBVIOUS
      <4>1. new = release \o taken /\ Len(new) = Len(release) + 3 /\ Len(release) \in {0, 1}
        BY <1>6, <1>7, <1>8, <1>15, <3>2
      <4>2. CASE p \in 1..Len(release)
        <5>1. p = 1 /\ Len(release) = 1
          BY <4>1, <4>2
        <5>2. new[1] = release[1] /\ Held(kind) \notin {NoDevice, r}
          BY <1>6, <1>7, <4>1, <4>2, <5>1
        <5>3. new[p] = Record("lease_released", Held(kind), FALSE)
          BY <1>6, <5>1, <5>2
        <5> QED
          BY <5>3 DEF Record
      <4>3. CASE p \notin 1..Len(release)
        <5>1. p - Len(release) \in 1..3 /\ Len(release) + (p - Len(release)) = p
          BY <4>1, <4>3
        <5>2. new[p] = taken[p - Len(release)] /\ p - Len(release) \in {1, 2, 3}
          BY <1>7, <4>1, <5>1
        <5> QED
          BY <1>5, <1>6, <5>2 DEF Record
      <4> QED
        BY <4>2, <4>3
    <3> QED
      BY <3>1, <3>2
  <2>2. \A q, p : p \in 1..Len(new) => ~About(new[p], HealthKinds, q)
    BY <2>1 DEF About, HealthKinds
  <2> QED
    BY <1>8, <1>9, <2>2, ReadAfter DEF ReadInv
<1>19. ASSUME NEW q PROVE
         /\ (\A p \in 1..Len(new) : ~About(new[p], LeaseKinds, q)) => (Leased(q)' <=> Leased(q))
         /\ \A p \in 1..Len(new) :
               About(new[p], LeaseKinds, q) /\ (\A o \in (p + 1)..Len(new) : ~About(new[o], LeaseKinds, q))
                  => (Leased(q)' <=> new[p].kind = "lease_acquired")
  BY <1>8, <1>9, ReadAfter DEF ReadInv
<1>20. CASE old = r
  <2>1. \A q, p : p \in 1..Len(new) => ~About(new[p], LeaseKinds, q)
    <3>1. Len(new) = 2 /\ new[1] = Record("lease_retained", r, TRUE) /\ new[2] = quality
      BY <1>6, <1>8, <1>15, <1>20
    <3>2. \A p \in 1..2 : p = 1 \/ p = 2
      OBVIOUS
    <3> QED
      BY <1>5, <3>1, <3>2 DEF About, Record, LeaseKinds
  <2>2. \A q : Leased(q)' <=> Leased(q)
    BY <1>19, <2>1
  <2>3. HeldBy(r)
    BY <1>2, <1>15, <1>20 DEF HeldBy, Held
  <2> QED
    BY <1>1, <1>10, <1>12, <1>14, <1>16, <1>18, <1>20, <2>2, <2>3 DEF ReadInv
<1>21. CASE old # r
  <2>1. new = release \o taken /\ Len(new) = Len(release) + 3 /\ Len(release) \in {0, 1}
    BY <1>6, <1>7, <1>8, <1>15, <1>21
  <2>2. /\ Len(release) = 1 => old # NoDevice /\ new[1] = Record("lease_released", old, FALSE)
        /\ old # NoDevice => Len(release) = 1
    <3>1. Len(release) = 1 => 1 \in 1..Len(release)
      OBVIOUS
    <3>2. /\ Len(release) = 1 => old \notin {NoDevice, r}
          /\ old # NoDevice => Len(release) = 1
      BY <1>6, <1>15, <1>21
    <3>3. Len(release) = 1 => new[1] = release[1]
      BY <1>7, <2>1, <3>1
    <3> QED
      BY <1>6, <1>15, <3>2, <3>3
  <2>3. /\ new[Len(release) + 1] = Record("router_selected", r, TRUE)
        /\ new[Len(release) + 2] = Record("lease_acquired", r, FALSE)
        /\ new[Len(release) + 3] = quality
    <3>1. 1 \in 1..3 /\ 2 \in 1..3 /\ 3 \in 1..3
      OBVIOUS
    <3>2. \A i \in 1..3 : new[Len(release) + i] = taken[i]
      BY <1>7, <2>1
    <3> QED
      BY <1>6, <3>1, <3>2
  <2>4. \A p \in 1..Len(new) : (p = 1 /\ Len(release) = 1) \/ p \in {Len(release) + 1, Len(release) + 2, Len(release) + 3}
    BY <2>1
  <2>5. Leased(r)'
    <3> DEFINE p == Len(release) + 2
    <3>1. p \in 1..Len(new) /\ About(new[p], LeaseKinds, r) /\ new[p].kind = "lease_acquired"
      BY <2>1, <2>3 DEF About, Record, LeaseKinds
    <3>2. \A o \in (p + 1)..Len(new) : o = Len(release) + 3
      BY <2>1
    <3>3. ~About(quality, LeaseKinds, r)
      BY <1>5 DEF About, LeaseKinds
    <3> HIDE DEF p
    <3> QED
      BY <1>19, <2>3, <3>1, <3>2, <3>3
  <2>6. old # NoDevice => ~Leased(old)'
    <3> SUFFICES ASSUME old # NoDevice PROVE ~Leased(old)'
      OBVIOUS
    <3>0. Len(release) = 1
      BY <2>2
    <3>1. Len(release) = 1 /\ Len(new) = 4 /\ 1 \in 1..Len(new)
      BY <2>1, <3>0
    <3>2. About(new[1], LeaseKinds, old) /\ new[1].kind # "lease_acquired"
      BY <2>2, <3>1 DEF About, Record, LeaseKinds
    <3>3. \A o \in (1 + 1)..Len(new) : o \in {2, 3, 4}
      BY <3>1
    <3>4. ~About(new[2], LeaseKinds, old) /\ ~About(new[3], LeaseKinds, old) /\ ~About(new[4], LeaseKinds, old)
      BY <1>5, <1>21, <2>3, <3>1 DEF About, Record, LeaseKinds
    <3>5. \A o \in (1 + 1)..Len(new) : ~About(new[o], LeaseKinds, old)
      BY <3>3, <3>4
    <3> QED
      BY <1>19, <3>1, <3>2, <3>5
  <2>7. \A q : q # r /\ q # old => (Leased(q)' <=> Leased(q))
    <3> SUFFICES ASSUME NEW q, q # r, q # old PROVE Leased(q)' <=> Leased(q)
      OBVIOUS
    <3>1. \A p \in 1..Len(new) : ~About(new[p], LeaseKinds, q)
      BY <1>5, <2>2, <2>3, <2>4 DEF About, Record, LeaseKinds
    <3> QED
      BY <1>19, <3>1
  <2>8. NoDevice \notin Resources
    BY CatalogAssumption DEF CatalogAssumption
  <2> QED
    BY <1>1, <1>10, <1>12, <1>14, <1>16, <1>17, <1>18, <1>21, <2>5, <2>6, <2>7, <2>8 DEF ReadInv
<1> QED
  BY <1>20, <1>21

LEMMA FacilityStarts ==
  ASSUME FacilityInit
  PROVE  FacilityInv
<1>1. healthy = [r \in Resources |-> TRUE] /\ lease = [k \in Kinds |-> NoDevice] /\ facility = <<>>
  BY DEF FacilityInit
<1>2. IsRecords(facility) /\ DOMAIN facility = {}
  BY <1>1, ListsOfRecords
<1>3. \A r : ~Leased(r) /\ ~HeldBy(r) /\ ReportedHealth(r)
  BY <1>1, <1>2 DEF Leased, HeldBy, ReportedHealth
<1> QED
  BY <1>1, <1>2, <1>3 DEF FacilityInv, LeaseInv, ReadInv

(* As long as no call has raised, the evidence replays to the leases and the *)
(* health, and a leased device is healthy and in reach.                      *)
THEOREM EvidenceIsTrue == FacilitySpec => []EvidenceTellsTheLeases
<1>1. FacilityInit => FacilityInv
  BY FacilityStarts
<1>2. FacilityInv /\ [FacilityNext]_facilityVars => FacilityInv'
  <2> SUFFICES ASSUME FacilityInv, [FacilityNext]_facilityVars, ~raised' PROVE LeaseInv' /\ ReadInv'
    BY DEF FacilityInv
  <2>1. CASE UNCHANGED facilityVars
    BY <2>1 DEF facilityVars, FacilityInv, LeaseInv, ReadInv, HeldBy, Leased, LastAbout, About, ReportedHealth
  <2>2. CASE FacilityNext
    <3>1. LeaseInv /\ ReadInv
      BY <2>2 DEF FacilityNext, FacilityInv
    <3> QED
      BY <2>2, <3>1, FrameKeeps, HealthKeeps, HandoffKeeps DEF FacilityNext
  <2> QED
    BY <2>1, <2>2
<1>3. FacilityInv => EvidenceTellsTheLeases
  <2> SUFFICES ASSUME FacilityInv, ~raised PROVE
        /\ {r \in Resources : Leased(r)} = {lease[k].resource : k \in {j \in Kinds : lease[j] # NoDevice}}
        /\ \A r \in Resources : ReportedHealth(r) = healthy[r]
        /\ \A k \in Kinds : lease[k] # NoDevice =>
              healthy[lease[k].resource] /\ Covers(Device(lease[k].resource), lease[k].zone)
    BY DEF EvidenceTellsTheLeases
  <2>1. LeaseInv /\ ReadInv
    BY DEF FacilityInv
  <2>2. \A k \in Kinds : lease[k] # NoDevice => lease[k].resource \in Resources
    BY <2>1 DEF LeaseInv, Leases
  <2>3. \A r \in Resources : Leased(r) <=> \E k \in Kinds : lease[k] # NoDevice /\ lease[k].resource = r
    BY <2>1 DEF ReadInv, HeldBy
  <2>4. {r \in Resources : Leased(r)} = {lease[k].resource : k \in {j \in Kinds : lease[j] # NoDevice}}
    BY <2>2, <2>3
  <2>5. \A r \in Resources : ReportedHealth(r) = healthy[r]
    <3>1. \A r \in Resources : ReportedHealth(r) \in BOOLEAN
      BY DEF ReportedHealth
    <3> QED
      BY <2>1, <3>1 DEF ReadInv, LeaseInv
  <2> QED
    BY <2>1, <2>4, <2>5 DEF LeaseInv
<1> QED
  BY <1>1, <1>2, <1>3, PTL DEF FacilitySpec

-----------------------------------------------------------------------------
(* The legs of the way out of an inflation.                                  *)

(* The way out of an inflation, and nothing else.                            *)
EscapeSpec == EscapeInit /\ [][EscapeNext]_escapeVars

Outcome == {"completed", "failed", "cancelled"}

EscapeTypes ==
    /\ sweep \in Sweeps
    /\ stage \in {"idle", "judge", "check", "send", "await", "over"} /\ leg \in Leg
    /\ legs \in [Leg -> {"none", "drives"} \cup Outcome] /\ running \subseteq Leg
    /\ keptLeg \in [Leg -> Outcome \cup {Absent}]
    /\ flagged \in BOOLEAN /\ halted \in BOOLEAN
    /\ late \in Nat /\ sends \in [Leg -> Nat]

(* The legs of the way that was decided, and those before one of them.       *)
Used == IF way.pinned THEN IF way.backoff > 0 THEN Leg ELSE {"waypoint", "goal"} ELSE {"goal"}
LegsBefore(l) ==
    CASE l = "goal" -> Used \ {"goal"} [] l = "waypoint" -> Used \cap {"backoff"} [] OTHER -> {}

UnderWay  == stage \in {"judge", "check", "send", "await"}
Passed(l) == l \in Used /\ \A m \in LegsBefore(l) : keptLeg[m] = "completed"

(* A leg is looked at, and was sent, only when those before it are known to  *)
(* have completed; what is kept of a leg is what became of it, and a leg that *)
(* is active has nothing kept.                                               *)
LegsInOrder ==
    /\ way = Absent => ~UnderWay /\ late = 0
    /\ \A l \in Leg : legs[l] # "none" => way # Absent /\ Passed(l)
    /\ UnderWay => Passed(leg)
    /\ \A l \in Leg : keptLeg[l] # Absent => keptLeg[l] = legs[l]
    /\ \A l \in running : legs[l] # "none" /\ keptLeg[l] = Absent
    /\ stage = "await" => legs[leg] # "none"

(* The look at the flag that comes before the leg is behind the call.        *)
PastCheck == stage = "send" \/ (stage = "judge" /\ leg = "goal")

(* A leg that is sent after the flag had its check behind it; then none is.   *)
LateInv ==
    way # Absent /\ way.pinned => late = 0 \/ (late = 1 /\ flagged /\ ~PastCheck)

(* A leg is sent once: then it is active, or its outcome is kept.            *)
SendsInv ==
    ~halted => \A l \in Leg : \/ sends[l] = 0
                              \/ sends[l] = 1 /\ (l \in running \/ keptLeg[l] # Absent)

(* A confirmed cancel keeps the outcome of a leg, behind which nothing goes.  *)
CancelInv ==
    answer = "cancelled" => /\ \E l \in Leg : keptLeg[l] = "cancelled"
                            /\ \A l \in Leg : legs[l] # "drives"

EndedInv == ended = "completed" => stage = "over" /\ legs["goal"] = "completed"

EscapingInv == escaping # Absent => stage \in {"send", "await"} /\ escaping = leg

EscapeInv ==
    /\ EscapeTypes /\ LegsInOrder /\ LateInv /\ SendsInv /\ CancelInv /\ EndedInv /\ EscapingInv

(* The order of the legs, for the uses the proofs make of it.                *)
LEMMA LegOrder ==
  /\ Used \subseteq Leg
  /\ \A l \in Leg : LegsBefore(l) \subseteq Used /\ l \notin LegsBefore(l)
  /\ \A l, m \in Used : l = m \/ l \in LegsBefore(m) \/ m \in LegsBefore(l)
  /\ LegsBefore("backoff") = {} /\ ("backoff" \notin Used => LegsBefore("waypoint") = {})
  /\ LegsBefore("waypoint") \subseteq {"backoff"}
  /\ LegsBefore("goal") \subseteq LegsBefore("waypoint") \cup {"waypoint"}
  /\ "goal" \in Used /\ ("backoff" \in Used => "waypoint" \in Used)
  /\ "waypoint" \notin Used => LegsBefore("goal") = {}
<1>1. Used \in {Leg, {"waypoint", "goal"}, {"goal"}}
  BY DEF Used
<1> HIDE DEF Used
<1>2. CASE Used = Leg
  BY <1>2 DEF LegsBefore, Leg
<1>3. CASE Used = {"waypoint", "goal"}
  BY <1>3 DEF LegsBefore, Leg
<1>4. CASE Used = {"goal"}
  BY <1>4 DEF LegsBefore, Leg
<1> QED
  BY <1>1, <1>2, <1>3, <1>4

LEMMA EscapeInvInit == EscapeInit => EscapeInv
<1> SUFFICES ASSUME EscapeInit PROVE EscapeInv
  OBVIOUS
<1>1. /\ sweep \in Sweeps /\ way = Absent /\ stage = "idle" /\ leg = "goal"
      /\ legs = [l \in Leg |-> "none"] /\ running = {} /\ keptLeg = [l \in Leg |-> Absent]
      /\ escaping = Absent /\ ended = Absent /\ answer = Absent /\ late = 0
      /\ sends = [l \in Leg |-> 0]
  BY DEF EscapeInit
<1>2. flagged \in BOOLEAN /\ halted \in BOOLEAN
  BY Zenon DEF EscapeInit
<1>3. EscapeTypes
  BY <1>1, <1>2 DEF EscapeTypes, Leg
<1>4. LegsInOrder
  BY <1>1 DEF LegsInOrder, UnderWay
<1>5. SendsInv /\ LateInv /\ EscapingInv
  BY <1>1 DEF SendsInv, LateInv, EscapingInv
<1>6. CancelInv /\ EndedInv
  BY <1>1, EscapeAssumption DEF CancelInv, EndedInv
<1> QED
  BY <1>3, <1>4, <1>5, <1>6 DEF EscapeInv

(* While the decision stands, so do the legs and their order.                *)
LEMMA SameWay ==
  ASSUME way' = way
  PROVE  /\ Used' = Used /\ \A l \in Leg : LegsBefore(l)' = LegsBefore(l)
         /\ \A l \in Leg : Passed(l)' <=> l \in Used /\ \A m \in LegsBefore(l) : keptLeg'[m] = "completed"
BY DEF Used, LegsBefore, Passed

(* No outcome is Absent, and what is kept is an outcome.                     *)
LEMMA KeptIsOutcome ==
  ASSUME EscapeTypes, LegsInOrder, NEW l \in Leg, keptLeg[l] # Absent
  PROVE  legs[l] = keptLeg[l] /\ legs[l] \in Outcome
BY DEF EscapeTypes, LegsInOrder

(* What follows the outcome of a leg: the next leg, its check still to come, *)
(* or the end of the call, which completes with its goal only.               *)
LEMMA ProceedForm ==
  ASSUME EscapeTypes, NEW result, Proceed(result)
  PROVE  /\ escaping' = Absent /\ leg' \in Leg /\ stage' \in {"judge", "check", "over"}
         /\ ~PastCheck'
         /\ \/ /\ result = "completed" /\ ended' = ended
               /\ \/ leg = "backoff" /\ leg' = "waypoint"
                  \/ leg = "waypoint" /\ leg' = "goal"
            \/ /\ stage' = "over" /\ ended' = result /\ leg' = leg
               /\ result # "completed" \/ leg = "goal"
<1>1. CASE result = "completed" /\ leg = "backoff" /\ GoTo("waypoint", "judge")
  BY <1>1 DEF Proceed, GoTo, PastCheck, Leg
<1>2. CASE result = "completed" /\ leg = "waypoint" /\ GoTo("goal", "check")
  BY <1>2 DEF Proceed, GoTo, PastCheck, Leg
<1>3. CASE (result # "completed" \/ leg = "goal") /\ End(result) /\ UNCHANGED leg
  BY <1>3 DEF Proceed, End, PastCheck, EscapeTypes
<1> QED
  BY <1>1, <1>2, <1>3 DEF Proceed

(* The next leg is the one whose predecessors have completed.                *)
LEMMA NextLegPassed ==
  ASSUME EscapeTypes, Passed(leg), way' = way,
         \A m \in Leg : keptLeg[m] = "completed" => keptLeg'[m] = "completed",
         keptLeg'[leg] = "completed",
         (leg = "backoff" /\ leg' = "waypoint") \/ (leg = "waypoint" /\ leg' = "goal")
  PROVE  Passed(leg)'
<1>1. leg \in Used /\ \A m \in LegsBefore(leg) : keptLeg'[m] = "completed"
  BY LegOrder DEF Passed, EscapeTypes
<1>2. leg' \in Used /\ LegsBefore(leg') \subseteq LegsBefore(leg) \cup {leg}
  BY <1>1, LegOrder
<1>3. Used' = Used
  BY DEF Used
<1>4. LegsBefore(leg)' = LegsBefore(leg')
  BY <1>3 DEF LegsBefore
<1> QED
  BY <1>1, <1>2, <1>3, <1>4 DEF Passed

(* A step that moves neither the call nor a goal, and takes no flag back.    *)
LEMMA QuietStep ==
  ASSUME EscapeInv, flagged' \in BOOLEAN, flagged => flagged', answer' \in {answer, "failed", "refused"},
         UNCHANGED <<sweep, way, stage, leg, legs, running, keptLeg, escaping, ended, halted, late, sends>>
  PROVE  EscapeInv'
<1>1. EscapeTypes'
  BY DEF EscapeInv, EscapeTypes
<1>2. LegsInOrder'
  BY SameWay DEF EscapeInv, LegsInOrder, UnderWay, EscapeTypes, Passed
<1>3. LateInv' /\ SendsInv' /\ EndedInv' /\ EscapingInv'
  BY DEF EscapeInv, LateInv, PastCheck, SendsInv, EndedInv, EscapingInv
<1>4. CancelInv'
  BY DEF EscapeInv, CancelInv
<1> QED
  BY <1>1, <1>2, <1>3, <1>4 DEF EscapeInv

(* Of two legs that were sent one has completed, so only one drives.         *)
LEMMA OneDrives ==
  ASSUME EscapeTypes, LegsInOrder, NEW l \in Leg, NEW m \in Leg, l # m,
         legs[l] # "none", legs[m] # "none"
  PROVE  keptLeg[l] = "completed" \/ keptLeg[m] = "completed"
<1>1. Passed(l) /\ Passed(m)
  BY DEF LegsInOrder
<1> QED
  BY <1>1, LegOrder DEF Passed

(* A goal that ends on the robot, confirmed or not, while nothing is kept.   *)
LEMMA GoalSettles ==
  ASSUME EscapeInv, NEW l \in Leg, NEW how \in Outcome, legs[l] = "drives",
         legs' = [legs EXCEPT ![l] = how],
         UNCHANGED <<sweep, way, stage, leg, running, keptLeg, escaping, flagged, ended, halted, late, sends>>,
         answer' \in {answer, "failed"}
  PROVE  EscapeInv'
<1>0. EscapeTypes /\ LegsInOrder
  BY DEF EscapeInv
<1>1. keptLeg[l] = Absent
  BY <1>0, KeptIsOutcome DEF Outcome
<1>2. EscapeTypes'
  BY <1>0 DEF EscapeTypes
<1>3. legs'[l] \in Outcome /\ \A m \in Leg : m # l => legs'[m] = legs[m]
  BY <1>0 DEF EscapeTypes
<1>4. LegsInOrder'
  <2>1. \A m \in Leg : legs'[m] # "none" => legs[m] # "none"
    BY <1>3
  <2>2. \A m \in Leg : Passed(m)' <=> Passed(m)
    BY SameWay DEF Passed
  <2>3. UnderWay' <=> UnderWay
    BY DEF UnderWay
  <2>4. \A m \in Leg : keptLeg'[m] # Absent => keptLeg'[m] = legs'[m]
    BY <1>0, <1>1, <1>3 DEF LegsInOrder
  <2>5. \A m \in running' : legs'[m] # "none" /\ keptLeg'[m] = Absent
    BY <1>0, <1>3 DEF LegsInOrder, Outcome, EscapeTypes
  <2>6. stage' = "await" => legs'[leg'] # "none"
    BY <1>0, <1>3 DEF LegsInOrder, Outcome, EscapeTypes
  <2> QED
    BY <1>0, <2>1, <2>2, <2>3, <2>4, <2>5, <2>6 DEF LegsInOrder, EscapeTypes
<1>5. LateInv' /\ SendsInv' /\ EscapingInv'
  BY DEF EscapeInv, LateInv, PastCheck, SendsInv, EscapingInv
<1>6. EndedInv'
  BY <1>3 DEF EscapeInv, EndedInv, Leg
<1>7. CancelInv'
  BY DEF EscapeInv, CancelInv
<1> QED
  BY <1>2, <1>4, <1>5, <1>6, <1>7 DEF EscapeInv

(* cancel(): of the goal it withdraws, if it confirms.                       *)
LEMMA CancelStep == EscapeInv /\ Cancel => EscapeInv'
<1> SUFFICES ASSUME EscapeInv, Cancel PROVE EscapeInv'
  OBVIOUS
<1>0. EscapeTypes /\ LegsInOrder
  BY DEF EscapeInv
<1>1. UNCHANGED <<sweep, way, stage, leg, escaping, ended, halted, late, sends>>
  BY DEF Cancel
<1>2. CASE CancelReads \/ CancelFlags
  <2>1. UNCHANGED <<legs, running, keptLeg, answer>>
    BY <1>2 DEF CancelReads, CancelFlags
  <2>2. flagged' \in BOOLEAN /\ (flagged => flagged')
    BY <1>0, <1>2, Zenon DEF CancelReads, CancelFlags, EscapeTypes
  <2> QED
    BY <1>1, <2>1, <2>2, QuietStep
<1>3. CASE CancelWithdraws
  <2>1. PICK l : Withdraw(l)
    BY <1>3 DEF CancelWithdraws
  <2>2. flagged' = flagged /\ flagged \in BOOLEAN
    BY <1>0, <1>3 DEF CancelWithdraws, EscapeTypes
  <2>3. CASE /\ l \in running /\ legs[l] = "drives"
             /\ legs' = [legs EXCEPT ![l] = "cancelled"] /\ running' = running \ {l}
             /\ keptLeg' = [keptLeg EXCEPT ![l] = "cancelled"] /\ answer' = "cancelled"
    <3>1. l \in Leg /\ keptLeg[l] = Absent
      BY <1>0, <2>3 DEF EscapeTypes, LegsInOrder
    <3>2. /\ legs'[l] = "cancelled" /\ keptLeg'[l] = "cancelled"
          /\ \A m \in Leg : m # l => legs'[m] = legs[m] /\ keptLeg'[m] = keptLeg[m]
      BY <1>0, <2>3, <3>1 DEF EscapeTypes
    <3>3. EscapeTypes'
      BY <1>0, <1>1, <2>2, <2>3, <3>1 DEF EscapeTypes, Outcome
    <3>4. LegsInOrder'
      <4>1. \A m \in Leg : keptLeg[m] = "completed" => keptLeg'[m] = "completed"
        BY <3>1, <3>2, EscapeAssumption
      <4>2. \A m \in Leg : Passed(m) => Passed(m)'
        BY <1>1, <4>1, SameWay, LegOrder DEF Passed
      <4>3. \A m \in Leg : legs'[m] # "none" => legs[m] # "none"
        BY <2>3, <3>2
      <4>4. UnderWay' <=> UnderWay
        BY <1>1 DEF UnderWay
      <4>5. \A m \in Leg : keptLeg'[m] # Absent => keptLeg'[m] = legs'[m]
        BY <1>0, <3>2 DEF LegsInOrder
      <4>6. \A m \in running' : legs'[m] # "none" /\ keptLeg'[m] = Absent
        BY <1>0, <2>3, <3>2 DEF LegsInOrder, EscapeTypes
      <4>7. stage' = "await" => legs'[leg'] # "none"
        BY <1>0, <1>1, <3>2 DEF LegsInOrder, EscapeTypes
      <4> QED
        BY <1>0, <1>1, <4>2, <4>3, <4>4, <4>5, <4>6, <4>7 DEF LegsInOrder, EscapeTypes
    <3>5. LateInv' /\ EscapingInv'
      BY <1>1, <2>2 DEF EscapeInv, LateInv, PastCheck, EscapingInv
    <3>6. SendsInv'
      BY <1>0, <1>1, <2>3, <3>2, EscapeAssumption DEF EscapeInv, SendsInv, EscapeTypes
    <3>7. EndedInv'
      BY <1>1, <2>3, <3>2 DEF EscapeInv, EndedInv, Leg
    <3>8. \A m \in Leg : legs'[m] # "drives"
      <4> SUFFICES ASSUME NEW m \in Leg, legs'[m] = "drives" PROVE FALSE
        OBVIOUS
      <4>1. m # l /\ legs[m] = "drives"
        BY <3>2
      <4>2. keptLeg[m] = "completed" \/ keptLeg[l] = "completed"
        BY <1>0, <2>3, <3>1, <4>1, OneDrives
      <4>3. keptLeg[m] = "completed" /\ keptLeg[m] # Absent
        BY <3>1, <4>2, EscapeAssumption
      <4> QED
        BY <1>0, <4>1, <4>3, KeptIsOutcome
    <3>9. CancelInv'
      BY <3>1, <3>2, <3>8 DEF CancelInv
    <3> QED
      BY <3>3, <3>4, <3>5, <3>6, <3>7, <3>9 DEF EscapeInv
  <2>4. CASE /\ l \in running /\ UNCHANGED <<running, keptLeg>> /\ answer' = "failed"
             /\ legs' \in {legs} \cup IF legs[l] = "drives" THEN {[legs EXCEPT ![l] = "cancelled"]} ELSE {}
    <3>1. CASE legs' = legs
      BY <1>1, <2>2, <2>4, <3>1, QuietStep
    <3>2. CASE legs[l] = "drives" /\ legs' = [legs EXCEPT ![l] = "cancelled"]
      BY <1>0, <1>1, <2>2, <2>4, <3>2, GoalSettles DEF EscapeTypes, Outcome
    <3> QED
      BY <2>4, <3>1, <3>2
  <2>5. CASE UNCHANGED <<legs, running, keptLeg>> /\ answer' = "refused"
    BY <1>1, <2>2, <2>5, QuietStep
  <2> QED
    BY <2>1, <2>3, <2>4, <2>5 DEF Withdraw
<1> QED
  BY <1>2, <1>3 DEF Cancel

(* safe_stop(): the goals that answered are kept as cancelled, all forgotten. *)
LEMMA StopStep == EscapeInv /\ StopAll => EscapeInv'
<1> SUFFICES ASSUME EscapeInv, StopAll PROVE EscapeInv'
  OBVIOUS
<1>0. EscapeTypes /\ LegsInOrder
  BY DEF EscapeInv
<1>1. /\ UNCHANGED <<sweep, way, stage, leg, escaping, flagged, ended, answer, late, sends>>
      /\ running' = {}
  BY DEF StopAll
<1>2. halted' /\ halted' \in BOOLEAN
  BY Zenon DEF StopAll
<1>3. PICK answered \in SUBSET {l \in running : legs[l] = "drives"} :
          /\ legs' = [l \in Leg |-> IF l \in answered THEN "cancelled" ELSE legs[l]]
          /\ keptLeg' = [l \in Leg |-> IF l \in answered THEN "cancelled" ELSE keptLeg[l]]
  BY DEF StopAll
<1>4. \A l \in answered : l \in Leg /\ legs[l] = "drives" /\ keptLeg[l] = Absent
  BY <1>0 DEF EscapeTypes, LegsInOrder
<1>5. \A l \in Leg : l \notin answered => legs'[l] = legs[l] /\ keptLeg'[l] = keptLeg[l]
  BY <1>3
<1>6. \A l \in answered : legs'[l] = "cancelled" /\ keptLeg'[l] = "cancelled"
  BY <1>3, <1>4
<1>7. EscapeTypes'
  BY <1>0, <1>1, <1>2, <1>3 DEF EscapeTypes, Outcome
<1>8. LegsInOrder'
  <2>1. \A m \in Leg : keptLeg[m] = "completed" => keptLeg'[m] = "completed"
    BY <1>4, <1>5, EscapeAssumption
  <2>2. \A m \in Leg : Passed(m) => Passed(m)'
    BY <1>1, <2>1, SameWay, LegOrder DEF Passed
  <2>3. \A m \in Leg : legs'[m] # "none" => legs[m] # "none"
    BY <1>4, <1>5
  <2>4. UnderWay' <=> UnderWay
    BY <1>1 DEF UnderWay
  <2>5. \A m \in Leg : keptLeg'[m] # Absent => keptLeg'[m] = legs'[m]
    BY <1>0, <1>5, <1>6 DEF LegsInOrder
  <2>6. stage' = "await" => legs'[leg'] # "none"
    BY <1>0, <1>1, <1>5, <1>6 DEF LegsInOrder, EscapeTypes
  <2> QED
    BY <1>0, <1>1, <2>2, <2>3, <2>4, <2>5, <2>6 DEF LegsInOrder, EscapeTypes
<1>9. LateInv' /\ EscapingInv' /\ SendsInv'
  BY <1>1, <1>2 DEF EscapeInv, LateInv, PastCheck, EscapingInv, SendsInv
<1>10. EndedInv'
  BY <1>1, <1>4, <1>5 DEF EscapeInv, EndedInv, Leg
<1>11. CancelInv'
  <2> SUFFICES ASSUME answer = "cancelled" PROVE CancelInv'
    BY <1>1 DEF CancelInv
  <2>1. \A l \in Leg : legs[l] # "drives"
    BY DEF EscapeInv, CancelInv
  <2>2. \A l \in Leg : l \notin answered
    BY <1>4, <2>1
  <2> QED
    BY <1>5, <2>1, <2>2 DEF EscapeInv, CancelInv
<1> QED
  BY <1>7, <1>8, <1>9, <1>10, <1>11 DEF EscapeInv

(* invoke(): the way is decided once, and the call is at its first leg, which *)
(* has none before it, or over.                                               *)
LEMMA StartStep == EscapeInv /\ Start => EscapeInv'
<1> SUFFICES ASSUME EscapeInv, Start PROVE EscapeInv'
  OBVIOUS
<1>0. EscapeTypes /\ LegsInOrder
  BY DEF EscapeInv
<1>1. /\ stage = "idle" /\ ended \in {Absent, "timeout"}
      /\ UNCHANGED <<sweep, legs, running, keptLeg, escaping, flagged, answer, halted, late, sends>>
  BY DEF Start, Robot, Others
<1>2. way # Absent => way' = way
  BY DEF Start, Decided
<1>3. \/ stage' = "over" /\ ended' = "refused" /\ leg' = leg
      \/ /\ way' # Absent /\ ended' = ended
         /\ \/ ~way'.pinned /\ leg' = "goal" /\ stage' = "send"
            \/ way'.pinned /\ way'.backoff > 0 /\ leg' = "backoff" /\ stage' = "check"
            \/ way'.pinned /\ ~(way'.backoff > 0) /\ leg' = "waypoint" /\ stage' = "judge"
  <2>1. Decided # Absent
    BY <1>0, EscapeAssumption DEF Decided, EscapeTypes
  <2>2. CASE ~Admits(InView, Target)
    BY <2>2 DEF Start, End
  <2>3. CASE Admits(InView, Target)
    <3>1. way' = Decided /\ FirstLeg(way')
      BY <2>3 DEF Start
    <3>2. CASE ~way'.feasible
      BY <3>1, <3>2 DEF FirstLeg, End
    <3>3. CASE way'.feasible
      BY <2>1, <3>1, <3>3, Zenon DEF FirstLeg, GoTo
    <3> QED
      BY <3>2, <3>3
  <2> QED
    BY <2>2, <2>3
<1>4. EscapeTypes'
  BY <1>0, <1>1, <1>3 DEF EscapeTypes, Leg
<1>5. UnderWay' => way' # Absent /\ Passed(leg)'
  <2>1. CASE ~way'.pinned /\ leg' = "goal"
    BY <1>3, <2>1 DEF UnderWay, Passed, Used, LegsBefore
  <2>2. CASE way'.pinned /\ way'.backoff > 0 /\ leg' = "backoff"
    BY <1>3, <2>2 DEF UnderWay, Passed, Used, LegsBefore, Leg
  <2>3. CASE way'.pinned /\ ~(way'.backoff > 0) /\ leg' = "waypoint"
    BY <1>3, <2>3 DEF UnderWay, Passed, Used, LegsBefore, Leg
  <2> QED
    BY <1>3, <2>1, <2>2, <2>3 DEF UnderWay
<1>6. LegsInOrder'
  <2>1. \A l \in Leg : legs'[l] # "none" => way' # Absent /\ Passed(l)'
    BY <1>0, <1>1, <1>2, SameWay DEF LegsInOrder, Passed
  <2>2. way' = Absent => ~UnderWay' /\ late' = 0
    BY <1>0, <1>1, <1>2, <1>5 DEF LegsInOrder
  <2>3. stage' # "await"
    BY <1>3
  <2> QED
    BY <1>0, <1>1, <1>5, <2>1, <2>2, <2>3 DEF LegsInOrder
<1>7. LateInv'
  <2> SUFFICES ASSUME way'.pinned PROVE late = 0 \/ (late = 1 /\ flagged /\ ~PastCheck')
    BY <1>1 DEF LateInv
  <2>1. ~PastCheck'
    BY <1>3 DEF PastCheck
  <2>2. CASE way = Absent
    BY <1>0, <2>2 DEF LegsInOrder
  <2>3. CASE way # Absent
    BY <1>2, <2>1, <2>3 DEF EscapeInv, LateInv
  <2> QED
    BY <2>2, <2>3
<1>8. SendsInv' /\ CancelInv' /\ EscapingInv'
  BY <1>1 DEF EscapeInv, SendsInv, CancelInv, EscapingInv
<1>9. EndedInv'
  BY <1>1, <1>3, EscapeAssumption DEF EndedInv
<1> QED
  BY <1>4, <1>6, <1>7, <1>8, <1>9 DEF EscapeInv

(* The looks before a leg, and the deadline: no goal is touched.             *)
LEMMA LookStep == EscapeInv /\ (Judge \/ Check \/ GiveUp) => EscapeInv'
<1> SUFFICES ASSUME EscapeInv, Judge \/ Check \/ GiveUp PROVE EscapeInv'
  OBVIOUS
<1>0. EscapeTypes /\ LegsInOrder
  BY DEF EscapeInv
<1>1. /\ UNCHANGED <<sweep, way, leg, legs, running, keptLeg, flagged, answer, halted, late, sends>>
      /\ UnderWay
  BY DEF Judge, Check, GiveUp, Robot, Others, UnderWay, GoTo, End
<1>2. /\ ended' \in {ended, "failed", "cancelled", "timeout"} /\ ended # "completed"
      /\ stage' \in {"check", "send", "judge", "over", "idle"}
  BY DEF Judge, Check, GiveUp, GoTo, End, EscapeInv, EndedInv
<1>3. \/ escaping' = Absent
      \/ stage' = "send" /\ escaping' = leg
  BY DEF Judge, Check, GiveUp, GoTo, End, EscapeInv, EscapingInv
<1>4. PastCheck' => ~flagged \/ PastCheck
  BY DEF Judge, Check, GiveUp, GoTo, End, PastCheck
<1>5. EscapeTypes'
  BY <1>0, <1>1, <1>2 DEF EscapeTypes
<1>6. LegsInOrder'
  <2>1. \A l \in Leg : Passed(l)' <=> Passed(l)
    BY <1>1, SameWay DEF Passed
  <2>2. Passed(leg) /\ way # Absent
    BY <1>0, <1>1 DEF LegsInOrder
  <2> QED
    BY <1>0, <1>1, <1>2, <2>1, <2>2 DEF LegsInOrder, EscapeTypes
<1>7. LateInv'
  BY <1>1, <1>4 DEF EscapeInv, LateInv
<1>8. SendsInv' /\ CancelInv'
  BY <1>1 DEF EscapeInv, SendsInv, CancelInv
<1>9. EndedInv' /\ EscapingInv'
  BY <1>1, <1>2, <1>3 DEF EndedInv, EscapingInv
<1> QED
  BY <1>5, <1>6, <1>7, <1>8, <1>9 DEF EscapeInv

(* invoke() of a leg, and its result.                                        *)
LEMMA SendStep == EscapeInv /\ Send => EscapeInv'
<1> SUFFICES ASSUME EscapeInv, Send PROVE EscapeInv'
  OBVIOUS
<1>0. EscapeTypes /\ LegsInOrder
  BY DEF EscapeInv
<1>1. /\ stage = "send" /\ ended # "completed"
      /\ UNCHANGED <<sweep, way, keptLeg, flagged, answer, halted>>
  BY DEF Send, Others, EscapeInv, EndedInv
<1>2. way # Absent /\ Passed(leg) /\ UnderWay /\ PastCheck
  BY <1>0, <1>1 DEF LegsInOrder, UnderWay, PastCheck
<1>3. \A l \in Leg : Passed(l)' <=> Passed(l)
  BY <1>1, SameWay DEF Passed
<1>4. CASE keptLeg[leg] # Absent /\ Proceed(keptLeg[leg]) /\ UNCHANGED <<running, Robot>>
  <2>1. UNCHANGED <<legs, running, sends, late>>
    BY <1>4 DEF Robot
  <2>2. /\ escaping' = Absent /\ leg' \in Leg /\ stage' \in {"judge", "check", "over"}
        /\ ~PastCheck'
        /\ \/ /\ keptLeg[leg] = "completed" /\ ended' = ended
              /\ \/ leg = "backoff" /\ leg' = "waypoint"
                 \/ leg = "waypoint" /\ leg' = "goal"
           \/ /\ stage' = "over" /\ ended' = keptLeg[leg] /\ leg' = leg
              /\ keptLeg[leg] # "completed" \/ leg = "goal"
    BY <1>0, <1>4, ProceedForm
  <2>3. EscapeTypes'
    BY <1>0, <1>1, <2>1, <2>2 DEF EscapeTypes
  <2>4. UnderWay' => Passed(leg)'
    <3>1. CASE stage' = "over"
      BY <3>1 DEF UnderWay
    <3>2. CASE stage' # "over"
      BY <1>0, <1>1, <1>2, <2>2, <3>2, NextLegPassed
    <3> QED
      BY <3>1, <3>2
  <2>5. LegsInOrder'
    BY <1>0, <1>1, <1>2, <1>3, <2>1, <2>2, <2>4 DEF LegsInOrder
  <2>6. LateInv' /\ SendsInv' /\ CancelInv'
    BY <1>1, <2>1, <2>2 DEF EscapeInv, LateInv, SendsInv, CancelInv
  <2>7. EndedInv'
    BY <1>0, <1>1, <1>4, <2>1, <2>2, KeptIsOutcome DEF EndedInv, EscapeTypes
  <2>8. EscapingInv'
    BY <2>2 DEF EscapingInv
  <2> QED
    BY <2>3, <2>5, <2>6, <2>7, <2>8 DEF EscapeInv
<1>5. CASE /\ keptLeg[leg] = Absent /\ GoTo(leg, "await") /\ UNCHANGED escaping
           /\ leg \in running /\ UNCHANGED <<running, Robot>>
  <2>1. /\ UNCHANGED <<legs, running, sends, late, leg, ended, escaping>> /\ stage' = "await"
    BY <1>5 DEF Robot, GoTo
  <2>2. EscapeTypes'
    BY <1>0, <1>1, <2>1 DEF EscapeTypes
  <2>3. LegsInOrder'
    BY <1>0, <1>1, <1>2, <1>3, <1>5, <2>1 DEF LegsInOrder, EscapeTypes
  <2>4. LateInv'
    BY <1>1, <2>1 DEF EscapeInv, LateInv, PastCheck
  <2>5. SendsInv' /\ CancelInv' /\ EndedInv' /\ EscapingInv'
    BY <1>1, <2>1 DEF EscapeInv, SendsInv, CancelInv, EndedInv, EscapingInv
  <2> QED
    BY <2>2, <2>3, <2>4, <2>5 DEF EscapeInv
<1>6. CASE /\ keptLeg[leg] = Absent /\ GoTo(leg, "await") /\ UNCHANGED escaping /\ leg \notin running
           /\ running' = running \cup {leg} /\ legs' = [legs EXCEPT ![leg] = "drives"]
           /\ sends' = [sends EXCEPT ![leg] = @ + 1]
           /\ late' = IF flagged THEN late + 1 ELSE late
  <2>1. UNCHANGED <<leg, ended, escaping>> /\ stage' = "await" /\ leg \in Leg
    BY <1>0, <1>6 DEF GoTo, EscapeTypes
  <2>2. /\ legs'[leg] = "drives" /\ sends'[leg] = sends[leg] + 1
        /\ \A l \in Leg : l # leg => legs'[l] = legs[l] /\ sends'[l] = sends[l]
    BY <1>0, <1>6, <2>1 DEF EscapeTypes
  <2>3. EscapeTypes'
    BY <1>0, <1>1, <1>6, <2>1 DEF EscapeTypes
  <2>4. LegsInOrder'
    <3>1. \A l \in Leg : legs'[l] # "none" => way' # Absent /\ Passed(l)'
      BY <1>0, <1>1, <1>2, <1>3, <2>1, <2>2 DEF LegsInOrder
    <3>2. \A l \in Leg : keptLeg'[l] # Absent => keptLeg'[l] = legs'[l]
      BY <1>0, <1>1, <1>6, <2>2 DEF LegsInOrder
    <3>3. \A l \in running' : legs'[l] # "none" /\ keptLeg'[l] = Absent
      BY <1>0, <1>1, <1>6, <2>2 DEF LegsInOrder, EscapeTypes
    <3> QED
      BY <1>1, <1>2, <1>3, <2>1, <2>2, <3>1, <3>2, <3>3 DEF LegsInOrder
  <2>5. LateInv'
    BY <1>0, <1>1, <1>2, <1>6, <2>1 DEF EscapeInv, LateInv, PastCheck, EscapeTypes
  <2>6. SendsInv'
    BY <1>0, <1>1, <1>6, <2>1, <2>2 DEF EscapeInv, SendsInv, EscapeTypes
  <2>7. answer # "cancelled"
    <3> SUFFICES ASSUME answer = "cancelled" PROVE FALSE
      OBVIOUS
    <3>1. PICK l \in Leg : keptLeg[l] = "cancelled"
      BY DEF EscapeInv, CancelInv
    <3>2. l # leg /\ legs[l] # "none"
      BY <1>0, <1>6, <3>1, EscapeAssumption DEF LegsInOrder
    <3>3. Passed(l)
      BY <1>0, <3>2 DEF LegsInOrder
    <3>4. keptLeg[l] = "completed" \/ keptLeg[leg] = "completed"
      BY <1>2, <2>1, <3>2, <3>3, LegOrder DEF Passed
    <3> QED
      BY <1>6, <3>1, <3>4, EscapeAssumption
  <2>8. CancelInv' /\ EndedInv' /\ EscapingInv'
    BY <1>1, <2>1, <2>7 DEF EscapeInv, CancelInv, EndedInv, EscapingInv
  <2> QED
    BY <2>3, <2>4, <2>5, <2>6, <2>8 DEF EscapeInv
<1> QED
  BY <1>4, <1>5, <1>6 DEF Send

LEMMA ConcludeStep == EscapeInv /\ Conclude => EscapeInv'
<1> SUFFICES ASSUME EscapeInv, Conclude PROVE EscapeInv'
  OBVIOUS
<1>0. EscapeTypes /\ LegsInOrder
  BY DEF EscapeInv
<1>1. /\ stage = "await" /\ legs[leg] # "drives" /\ ended # "completed"
      /\ running' = running \ {leg} /\ keptLeg' = [keptLeg EXCEPT ![leg] = legs[leg]]
      /\ UNCHANGED <<sweep, way, flagged, answer, halted, legs, sends, late>>
      /\ Proceed(legs[leg])
  BY DEF Conclude, Robot, Others, EscapeInv, EndedInv
<1>2. way # Absent /\ Passed(leg) /\ UnderWay /\ leg \in Leg /\ legs[leg] \in Outcome
  BY <1>0, <1>1 DEF LegsInOrder, UnderWay, EscapeTypes
<1>3. /\ keptLeg'[leg] = legs[leg] /\ \A l \in Leg : l # leg => keptLeg'[l] = keptLeg[l]
  BY <1>0, <1>1, <1>2 DEF EscapeTypes
<1>4. /\ escaping' = Absent /\ leg' \in Leg /\ stage' \in {"judge", "check", "over"}
      /\ ~PastCheck'
      /\ \/ /\ legs[leg] = "completed" /\ ended' = ended
            /\ \/ leg = "backoff" /\ leg' = "waypoint"
               \/ leg = "waypoint" /\ leg' = "goal"
         \/ /\ stage' = "over" /\ ended' = legs[leg] /\ leg' = leg
            /\ legs[leg] # "completed" \/ leg = "goal"
  BY <1>0, <1>1, ProceedForm
<1>5. \A l \in Leg : keptLeg[l] # Absent => keptLeg'[l] = keptLeg[l]
  BY <1>0, <1>3 DEF LegsInOrder
<1>6. \A l \in Leg : keptLeg[l] = "completed" => keptLeg'[l] = "completed"
  BY <1>5, EscapeAssumption
<1>7. EscapeTypes'
  BY <1>0, <1>1, <1>2, <1>4 DEF EscapeTypes
<1>8. LegsInOrder'
  <2>1. \A l \in Leg : Passed(l) => Passed(l)'
    BY <1>1, <1>6, SameWay, LegOrder DEF Passed
  <2>2. UnderWay' => Passed(leg)'
    <3>1. CASE stage' = "over"
      BY <3>1 DEF UnderWay
    <3>2. CASE stage' # "over"
      BY <1>0, <1>1, <1>2, <1>3, <1>4, <1>6, <3>2, NextLegPassed
    <3> QED
      BY <3>1, <3>2
  <2>3. \A l \in Leg : keptLeg'[l] # Absent => keptLeg'[l] = legs'[l]
    BY <1>0, <1>1, <1>3 DEF LegsInOrder
  <2>4. \A l \in running' : legs'[l] # "none" /\ keptLeg'[l] = Absent
    BY <1>0, <1>1, <1>3 DEF LegsInOrder, EscapeTypes
  <2> QED
    BY <1>0, <1>1, <1>2, <1>4, <2>1, <2>2, <2>3, <2>4 DEF LegsInOrder
<1>9. LateInv'
  BY <1>1, <1>4 DEF EscapeInv, LateInv
<1>10. SendsInv'
  <2>1. \A l \in Leg : l \in running \/ keptLeg[l] # Absent => l \in running' \/ keptLeg'[l] # Absent
    BY <1>1, <1>2, <1>3, <1>5, EscapeAssumption DEF Outcome
  <2> QED
    BY <1>1, <2>1 DEF EscapeInv, SendsInv
<1>11. CancelInv'
  BY <1>1, <1>5, EscapeAssumption DEF EscapeInv, CancelInv
<1>12. EndedInv' /\ EscapingInv'
  BY <1>1, <1>4 DEF EndedInv, EscapingInv
<1> QED
  BY <1>7, <1>8, <1>9, <1>10, <1>11, <1>12 DEF EscapeInv

LEMMA EscapeInvStep == EscapeInv /\ [EscapeNext]_escapeVars => EscapeInv'
<1> SUFFICES ASSUME EscapeInv, [EscapeNext]_escapeVars PROVE EscapeInv'
  OBVIOUS
<1>1. CASE CallStep
  BY <1>1, StartStep, LookStep, SendStep, ConcludeStep DEF CallStep
<1>2. CASE GoalEnds
  BY <1>2, GoalSettles DEF GoalEnds, Outcome, Others
<1>3. CASE Arrives \/ UNCHANGED escapeVars
  <2>1. UNCHANGED <<sweep, way, stage, leg, legs, running, keptLeg, escaping, flagged, ended, answer,
                    halted, late, sends>>
    BY <1>3 DEF Arrives, Others, escapeVars
  <2>2. flagged' \in BOOLEAN
    BY <2>1 DEF EscapeInv, EscapeTypes
  <2> QED
    BY <2>1, <2>2, QuietStep
<1>4. CASE Cancel \/ StopAll
  BY <1>4, CancelStep, StopStep
<1> QED
  BY <1>1, <1>2, <1>3, <1>4 DEF EscapeNext

(* Whatever is cancelled, stopped, timed out or asked for again, and in       *)
(* whatever order: a confirmed cancel leaves no leg driving; after the flag   *)
(* at most the leg whose check was already past is sent; a leg is sent after  *)
(* the one before it completed, and once, unless a safe_stop() forgot it; the *)
(* call completes with its goal only. It is the safety half of EscapeIsSafe   *)
(* that does not depend on the geometry.                                      *)
THEOREM EscapeIsOrderly == EscapeSpec => []EscapeInOrder
<1>1. EscapeInv => EscapeInOrder
  <2> SUFFICES ASSUME EscapeInv PROVE EscapeInOrder
    OBVIOUS
  <2>0. EscapeTypes /\ LegsInOrder
    BY DEF EscapeInv
  <2>1. answer = "cancelled" => \A l \in Leg : legs[l] # "drives"
    BY DEF EscapeInv, CancelInv
  <2>2. ASSUME way # Absent, way.pinned
        PROVE  /\ late <= 1
               /\ legs["waypoint"] # "none" /\ way.backoff > 0 => legs["backoff"] = "completed"
               /\ legs["goal"] # "none" => legs["waypoint"] = "completed"
    <3>1. late <= 1
      BY <2>2 DEF EscapeInv, LateInv
    <3>2. \A l \in Leg : keptLeg[l] = "completed" => legs[l] = "completed"
      BY <2>0, EscapeAssumption DEF LegsInOrder
    <3>3. ASSUME legs["waypoint"] # "none", way.backoff > 0 PROVE legs["backoff"] = "completed"
      BY <2>0, <2>2, <3>2, <3>3 DEF LegsInOrder, Passed, LegsBefore, Used, Leg
    <3>4. ASSUME legs["goal"] # "none" PROVE legs["waypoint"] = "completed"
      BY <2>0, <2>2, <3>2, <3>4 DEF LegsInOrder, Passed, LegsBefore, Used, Leg
    <3> QED
      BY <3>1, <3>3, <3>4
  <2>3. ~halted => \A l \in Leg : sends[l] <= 1
    BY DEF EscapeInv, SendsInv
  <2>4. /\ ended = "completed" => legs["goal"] = "completed"
        /\ escaping # Absent => stage \in {"send", "await"} /\ escaping = leg
    BY DEF EscapeInv, EndedInv, EscapingInv
  <2> QED
    BY <2>1, <2>2, <2>3, <2>4 DEF EscapeInOrder
<1> QED
  BY <1>1, EscapeInvInit, EscapeInvStep, PTL DEF EscapeSpec


-----------------------------------------------------------------------------
(* The guarded drive.                                                        *)

(* A finite set of numbers that is not empty has a largest member.            *)
LEMMA MaxIsLargest ==
  ASSUME NEW S, IsFiniteSet(S), S # {}, S \subseteq Int
  PROVE  Max(S) \in S /\ \A y \in S : Max(S) >= y
<1> DEFINE above(x) == {y \in S : y > x}
           T == {above(x) : x \in S}
<1>1. IsWellFoundedOn(StrictSubsetOrdering(S), FiniteSubsetsOf(S))
  BY FS_StrictSubsetOrderingWellFounded
<1>2. T \subseteq FiniteSubsetsOf(S) /\ T # {}
  <2>1. \A x \in S : above(x) \subseteq S /\ IsFiniteSet(above(x))
    BY FS_Subset
  <2> HIDE DEF above
  <2> QED
    BY <2>1 DEF FiniteSubsetsOf
<1>3. PICK t \in T : \A u \in T : ~(<<u, t>> \in StrictSubsetOrdering(S))
  BY <1>1, <1>2, WFMin
<1>4. PICK x \in S : t = above(x)
  OBVIOUS
<1>5. \A y \in S : x >= y
  <2> SUFFICES ASSUME NEW y \in S, ~(x >= y) PROVE FALSE
    OBVIOUS
  <2>1. above(y) \subseteq above(x) /\ y \in above(x) /\ y \notin above(y)
    <3>1. x \in Int /\ y \in Int /\ y > x /\ S \subseteq Int
      OBVIOUS
    <3>2. \A z \in S : z > y => z > x
      BY <3>1
    <3>3. above(y) \subseteq above(x)
      BY <3>2
    <3>4. y \in above(x) /\ y \notin above(y)
      BY <3>1
    <3> QED
      BY <3>3, <3>4
  <2>2. above(y) \in T /\ above(y) \subseteq S /\ above(x) \subseteq S
    OBVIOUS
  <2> HIDE DEF above, T
  <2>3. <<above(y), t>> \in StrictSubsetOrdering(S)
    BY <1>4, <2>1, <2>2 DEF StrictSubsetOrdering
  <2> QED
    BY <1>3, <2>2, <2>3
<1> QED
  BY <1>5 DEF Max

LEMMA MaxOfTwo ==
  ASSUME NEW a \in Int, NEW b \in Int
  PROVE  Max({a, b}) = IF a >= b THEN a ELSE b
<1> DEFINE m == IF a >= b THEN a ELSE b
<1>1. m \in {a, b} /\ \A y \in {a, b} : m >= y
  OBVIOUS
<1>2. \A x \in {a, b} : (\A y \in {a, b} : x >= y) => x = m
  OBVIOUS
<1> HIDE DEF m
<1>3. Max({a, b}) = m
  BY <1>1, <1>2 DEF Max
<1> QED
  BY <1>3 DEF m

LEMMA MinOfTwo ==
  ASSUME NEW a \in Int, NEW b \in Int
  PROVE  Min({a, b}) = IF a <= b THEN a ELSE b
<1> DEFINE m == IF a <= b THEN a ELSE b
<1>1. m \in {a, b} /\ \A y \in {a, b} : m <= y
  OBVIOUS
<1>2. \A x \in {a, b} : (\A y \in {a, b} : x <= y) => x = m
  OBVIOUS
<1> HIDE DEF m
<1>3. Min({a, b}) = m
  BY <1>1, <1>2 DEF Min
<1> QED
  BY <1>3 DEF m

(* A drive that is guarded, and nothing else.                                *)
DriveSpec == DriveInit /\ [][DriveNext]_driveVars

Profile == [latency : Nat, credit : Int]

LEMMA ProfileType == BrakingProfiles \subseteq Profile
<1> SUFFICES ASSUME NEW measured \in Measured
             PROVE  ResolveProfile(Configured, DriveBudget, measured) \in Profile
  BY DEF BrakingProfiles
<1>1. /\ Configured \in Nat /\ Period \in Nat /\ Delay \in Nat /\ React \in Nat
      /\ measured \in BOOLEAN
  BY DriveAssumption
<1> DEFINE total == BudgetTotal(DriveBudget)
           latency == IF measured THEN Max({Configured, total}) ELSE Configured
           rest == total - DriveBudget.period
           inner == Min({DriveBudget.period, latency - rest})
           credit == IF measured THEN Max({0, inner}) ELSE 0
<1>2. total \in Nat /\ DriveBudget.period \in Nat
  BY <1>1 DEF BudgetTotal, DriveBudget
<1> HIDE DEF total
<1>3. latency \in Nat
  BY <1>1, <1>2, MaxOfTwo
<1> HIDE DEF latency
<1>4. inner \in Int
  BY <1>2, <1>3, MinOfTwo
<1> HIDE DEF inner
<1>5. credit \in Int
  BY <1>4, MaxOfTwo
<1>6. ResolveProfile(Configured, DriveBudget, measured) = [latency |-> latency, credit |-> credit]
  BY DEF ResolveProfile, latency, inner, total
<1> HIDE DEF credit
<1> QED
  BY <1>3, <1>5, <1>6 DEF Profile

(* The fastest speed that fits is a speed.                                   *)
LEMMA MaxSpeedType ==
  ASSUME NEW p \in Profile, NEW room \in Int
  PROVE  MaxSpeed(p, room) \in Nat /\ (4 * MaxSpeed(p, room)) \div 5 \in Nat
<1>0. TopSpeed \in Nat
  BY DriveAssumption
<1>1. MaxSpeed(p, room) \in Nat
  <2>1. CASE room = Open \/ room <= 0
    BY <1>0, <2>1 DEF MaxSpeed
  <2>2. CASE room # Open /\ ~(room <= 0)
    <3> DEFINE fits == {v \in 0..TopSpeed : StoppingDistance(p, v) <= room}
    <3>1. StoppingDistance(p, 0) = 0
      BY DEF StoppingDistance, Profile
    <3>2. 0 \in fits
      BY <1>0, <2>2, <3>1
    <3>3. IsFiniteSet(fits) /\ fits \subseteq Int
      <4>1. IsFiniteSet(0..TopSpeed)
        BY <1>0, FS_Interval
      <4>2. fits \subseteq 0..TopSpeed /\ fits \subseteq Int
        OBVIOUS
      <4> HIDE DEF fits
      <4> QED
        BY <4>1, <4>2, FS_Subset
    <3>5. \A v \in fits : v \in Nat
      BY <1>0
    <3>4. MaxSpeed(p, room) = Max(fits)
      BY <2>2 DEF MaxSpeed
    <3> HIDE DEF fits
    <3> QED
      BY <3>2, <3>3, <3>4, <3>5, MaxIsLargest
  <2> QED
    BY <2>1, <2>2
<1> QED
  BY <1>1

-----------------------------------------------------------------------------
Commands == [op : {"goal", "cancel"}, speed : Nat, left : Int, age : Nat]
Robots   == [room : Int, v : Nat, target : Nat, left : Int]
Trips    == {NoTrip, "clearance", "blind", "stale"}
Guards   == [speed : Nat, trip : Trips, slowTo : Nat \cup {Nothing}, stopSent : BOOLEAN, resends : BOOLEAN]
Scans    == [room : Int, v : Nat, age : Nat]
Sights   == [room : Int, v : Int, age : Int]
Ends     == {"succeeded", "canceled", "aborted"}

AskTyped   == ask \in [speed : Nat, distance : Nat] /\ profile \in Profile /\ start \in Int
RobotTyped == robot \in Robots /\ server \in {"none", "driving"} \cup Ends
WireTyped  == wire \in Seq(Commands)
ScanTyped  == scan \in {Nothing} \cup Scans /\ seen \in Sights
GuardTyped == guard \in Guards
CallTyped  == call \in {"idle", "waiting", "left", "over"} /\ inbox \in {Nothing} \cup Ends
PlanTyped  == call # "idle" => /\ plan.speed \in Nat /\ plan.distance \in Nat
                               /\ plan.shortened \/ plan.distance = ask.distance

DriveTyped == AskTyped /\ RobotTyped /\ WireTyped /\ ScanTyped /\ GuardTyped /\ CallTyped /\ PlanTyped

(* Before the drive nothing is on its way.                                   *)
NothingYet == call = "idle" => /\ wire = <<>> /\ server = "none" /\ scan = Nothing /\ inbox = Nothing
                               /\ guard.trip = NoTrip /\ guard.slowTo = Nothing /\ ~guard.stopSent
                               /\ robot.room = start /\ seen.room = start /\ outcome = NoOutcome

Watched   == call \in {"waiting", "left"}
IsGoal(i) == wire[i].op = "goal"

(* The goals on the wire come before any cancel, each no faster than the one  *)
(* before it, and the last no slower than what the guard watches.            *)
GoalsFirst ==
    \A i, j \in DOMAIN wire : i < j /\ IsGoal(j) => IsGoal(i) /\ wire[j].speed <= wire[i].speed

GoalsSlower ==
    \A i \in DOMAIN wire : IsGoal(i) =>
        /\ server # "canceled" /\ (server = "driving" => wire[i].speed <= robot.target)
        /\ Watched => guard.speed <= wire[i].speed

GuardIsSlower ==
    /\ server = "canceled" => robot.target = 0
    /\ Watched /\ server = "driving" => guard.speed <= robot.target
    /\ guard.slowTo # Nothing => guard.slowTo <= guard.speed

(* A cancel is the guard's own.                                              *)
CancelIsSent ==
    /\ Watched /\ (server = "canceled" \/ \E i \in DOMAIN wire : ~IsGoal(i)) => guard.stopSent
    /\ guard.stopSent => guard.trip # NoTrip

(* The host sees the robot no farther than it is, so that what is left of a   *)
(* drive is never too little.                                                *)
SeenIsBehind == (call # "over" => robot.room <= seen.room) /\ (scan # Nothing => robot.room <= scan.room)

LeftIsEnough ==
    /\ \A i \in DOMAIN wire : IsGoal(i) => wire[i].left + Gone >= plan.distance
    /\ server = "driving" => robot.left + Gone >= plan.distance
    /\ server = "succeeded" => Gone >= plan.distance
    /\ inbox = "succeeded" => Gone >= plan.distance

DriveInv == /\ DriveTyped /\ NothingYet /\ GoalsFirst /\ GoalsSlower /\ GuardIsSlower
            /\ CancelIsSent /\ SeenIsBehind /\ LeftIsEnough /\ CompletedIsTravelled

LEMMA DriveStarts == DriveInit => DriveInv
<1> SUFFICES ASSUME DriveInit PROVE DriveInv
  OBVIOUS
<1>1. AskTyped
  BY ProfileType, DriveAssumption DEF DriveInit, AskTyped
<1>2. PICK resends \in Governances : guard = [NoGuard EXCEPT !.resends = resends]
  BY DEF DriveInit
<1>3. resends \in BOOLEAN
  BY <1>2 DEF Governances, Resends
<1>4. guard = [speed |-> 0, trip |-> NoTrip, slowTo |-> Nothing, stopSent |-> FALSE, resends |-> resends]
  BY <1>2 DEF NoGuard
<1>5. GuardTyped /\ guard.trip = NoTrip /\ guard.slowTo = Nothing
  BY <1>3, <1>4 DEF GuardTyped, Guards, Trips
<1>6. ~guard.stopSent
  BY <1>4
<1>7. /\ call = "idle" /\ server = "none" /\ wire = <<>> /\ scan = Nothing /\ inbox = Nothing
      /\ outcome = NoOutcome /\ robot = [room |-> start, v |-> 0, target |-> 0, left |-> 0]
      /\ seen = [room |-> start, v |-> 0, age |-> 0]
  BY DEF DriveInit
<1>8. RobotTyped /\ ScanTyped /\ robot.room = start /\ seen.room = start
  BY <1>1, <1>7 DEF AskTyped, RobotTyped, ScanTyped, Robots, Sights
<1>9. WireTyped /\ DOMAIN wire = {} /\ CallTyped /\ PlanTyped
  BY <1>7 DEF WireTyped, CallTyped, PlanTyped
<1>10. NothingYet
  BY <1>5, <1>6, <1>7, <1>8 DEF NothingYet
<1>11. GoalsFirst /\ GoalsSlower
  BY <1>9 DEF GoalsFirst, GoalsSlower
<1>12. GuardIsSlower /\ CancelIsSent
  BY <1>5, <1>6, <1>7 DEF GuardIsSlower, CancelIsSent, Watched
<1>13. SeenIsBehind /\ LeftIsEnough
  <2>1. start <= start
    BY <1>1 DEF AskTyped
  <2>2. inbox # "succeeded"
    BY <1>7, DriveAssumption
  <2> QED
    BY <1>7, <1>8, <1>9, <2>1, <2>2 DEF SeenIsBehind, LeftIsEnough
<1>14. CompletedIsTravelled
  BY <1>7 DEF CompletedIsTravelled, NoOutcome
<1> QED
  BY <1>1, <1>5, <1>8, <1>9, <1>10, <1>11, <1>12, <1>13, <1>14 DEF DriveInv, DriveTyped

(* A plan that is not shortened goes all the way.                            *)
LEMMA PlannedType ==
  ASSUME DriveInv
  PROVE  /\ Planned.speed \in Nat /\ Planned.distance \in Nat
         /\ Planned.shortened \/ Planned.distance = ask.distance
<1> DEFINE view == Sensed(seen.room)
           asked == ask.distance
           speed == AtMost((4 * MaxSpeed(profile, view)) \div 5, ask.speed)
           full == guard.resends \/ view = Open
           room == view - StoppingDistance(profile, speed)
           distance == IF full THEN asked ELSE AtMost(room, asked)
<1>1. /\ ask.speed \in Nat /\ asked \in Nat /\ profile \in Profile /\ seen.room \in Int
  BY DEF DriveInv, DriveTyped, AskTyped, ScanTyped, Sights
<1>2. view \in Int
  BY <1>1, DriveAssumption DEF Sensed
<1>3. speed \in Nat
  <2> DEFINE fit == (4 * MaxSpeed(profile, view)) \div 5
  <2> HIDE DEF view
  <2>1. fit \in Nat
    BY <1>1, <1>2, MaxSpeedType
  <2>2. speed = AtMost(fit, ask.speed)
    OBVIOUS
  <2> HIDE DEF fit, speed
  <2> QED
    BY <1>1, <2>1, <2>2 DEF AtMost
<1>4. Planned = WithDistance(speed, asked, guard.resends, distance)
  BY DEF Planned, PlanDrive, WithSpeed
<1> HIDE DEF view, speed, asked
<1>5. room \in Int
  BY <1>1, <1>2, <1>3 DEF StoppingDistance, Profile
<1> HIDE DEF room
<1>6. distance \in Int /\ (~(distance < asked) => distance = asked)
  BY <1>1, <1>5 DEF AtMost
<1> HIDE DEF distance
<1>7. Max({0, distance}) = IF 0 >= distance THEN 0 ELSE distance
  BY <1>6, MaxOfTwo
<1>8. /\ Planned.speed = speed /\ Planned.distance = Max({0, distance})
      /\ Planned.shortened = (distance < asked)
  BY <1>4 DEF WithDistance
<1>9. Planned.shortened \/ Planned.distance = asked
  <2>1. CASE distance < asked
    BY <1>8, <2>1
  <2>2. CASE ~(distance < asked)
    BY <1>1, <1>6, <1>7, <1>8, <2>2
  <2> QED
    BY <2>1, <2>2
<1>10. Planned.distance \in Nat
  BY <1>6, <1>7, <1>8
<1> QED
  BY <1>3, <1>8, <1>9, <1>10 DEF asked

LEMMA BeginKeeps == ASSUME DriveInv, Begin PROVE DriveInv'
<1>1. /\ call = "idle" /\ UNCHANGED <<ask, profile, start, robot, server, scan, seen, inbox>>
      /\ plan' = Planned /\ call' \in {"over", "waiting"}
  BY DEF Begin
<1>2. /\ wire = <<>> /\ server = "none" /\ scan = Nothing /\ inbox = Nothing /\ guard.trip = NoTrip
      /\ guard.slowTo = Nothing /\ ~guard.stopSent /\ robot.room = start /\ seen.room = start
  BY <1>1 DEF DriveInv, NothingYet
<1>3. /\ plan'.speed \in Nat /\ plan'.distance \in Nat
      /\ plan'.shortened \/ plan'.distance = ask'.distance
  BY <1>1, PlannedType
<1>4. (AskTyped /\ RobotTyped /\ ScanTyped /\ CallTyped /\ PlanTyped)'
  BY <1>1, <1>3 DEF DriveInv, DriveTyped, AskTyped, RobotTyped, ScanTyped, CallTyped, PlanTyped
<1>5. start \in Int /\ guard \in Guards
  BY DEF DriveInv, DriveTyped, AskTyped, GuardTyped
<1>6. NothingYet' /\ SeenIsBehind'
  BY <1>1, <1>2, <1>5 DEF NothingYet, SeenIsBehind
<1>7. inbox # "succeeded" /\ inbox' # "succeeded"
  BY <1>1, <1>2, DriveAssumption
<1>8. CASE plan'.refused
  <2>1. call' = "over" /\ UNCHANGED <<guard, wire>> /\ outcome' = [outcome |-> "refused", reason |-> "path_blocked"]
    BY <1>8 DEF Begin
  <2>2. (WireTyped /\ GuardTyped)'
    BY <2>1 DEF DriveInv, DriveTyped, WireTyped, GuardTyped
  <2>3. DOMAIN wire' = {}
    BY <1>2, <2>1
  <2>4. (GoalsFirst /\ GoalsSlower)'
    BY <2>3 DEF GoalsFirst, GoalsSlower
  <2>5. (GuardIsSlower /\ CancelIsSent)'
    BY <1>1, <1>2, <2>1 DEF GuardIsSlower, CancelIsSent, Watched
  <2>6. LeftIsEnough' /\ CompletedIsTravelled'
    BY <1>1, <1>2, <1>7, <2>1, <2>3 DEF LeftIsEnough, CompletedIsTravelled
  <2> QED
    BY <1>4, <1>6, <2>2, <2>4, <2>5, <2>6 DEF DriveInv, DriveTyped
<1>9. CASE ~plan'.refused
  <2> DEFINE goal == DriveGoal(plan'.speed, plan'.distance)
  <2>1. /\ call' = "waiting" /\ outcome' = outcome /\ wire' = <<goal>>
        /\ guard' = [guard EXCEPT !.speed = plan'.speed]
    BY <1>9 DEF Begin
  <2>2. goal \in Commands /\ goal.op = "goal" /\ goal.speed = plan'.speed /\ goal.left = plan'.distance
    BY <1>3 DEF DriveGoal, Command, Commands
  <2>3. /\ guard' \in Guards /\ guard'.trip = NoTrip /\ guard'.slowTo = Nothing
        /\ guard'.speed = plan'.speed /\ guard'.stopSent = guard.stopSent
    BY <1>2, <1>3, <1>5, <2>1 DEF Guards
  <2> HIDE DEF goal
  <2>4. (WireTyped /\ GuardTyped)' /\ DOMAIN wire' = {1} /\ wire'[1] = goal
    BY <2>1, <2>2, <2>3 DEF WireTyped, GuardTyped
  <2>5. GoalsFirst'
    BY <2>4 DEF GoalsFirst
  <2>6. GoalsSlower'
    BY <1>1, <1>2, <1>3, <2>2, <2>3, <2>4 DEF GoalsSlower
  <2>7. GuardIsSlower'
    BY <1>1, <1>2, <2>3 DEF GuardIsSlower
  <2>8. CancelIsSent'
    BY <1>1, <1>2, <2>2, <2>3, <2>4 DEF CancelIsSent, IsGoal
  <2>9. LeftIsEnough'
    BY <1>1, <1>2, <1>3, <1>5, <1>7, <2>2, <2>4 DEF LeftIsEnough, Gone
  <2>10. CompletedIsTravelled'
    BY <1>1, <2>1 DEF DriveInv, NothingYet, CompletedIsTravelled, NoOutcome
  <2> QED
    BY <1>4, <1>6, <2>4, <2>5, <2>6, <2>7, <2>8, <2>9, <2>10 DEF DriveInv, DriveTyped
<1> QED
  BY <1>8, <1>9

(* What a tick does to the robot, to what is on its way and to what was seen. *)
LEMMA TickMoves ==
  ASSUME DriveInv, Tick
  PROVE  /\ robot.room \in Int /\ robot.v \in Nat /\ robot.target \in Nat /\ robot.left \in Int
         /\ Covered \in Nat /\ robot'.room = robot.room - Covered
         /\ robot'.v = IF Braking THEN robot.v - 1 ELSE robot.target
         /\ \/ /\ server' = server /\ robot'.target = robot.target
               /\ server = "driving" => robot.left > Covered /\ robot'.left = robot.left - Covered
            \/ /\ server = "driving" /\ server' = "succeeded" /\ robot'.target = 0 /\ robot.left <= Covered
         /\ DOMAIN wire' = DOMAIN wire /\ DOMAIN wire = 1..Len(wire) /\ Len(wire) \in Nat
         /\ wire' = [i \in 1..Len(wire) |-> Older(wire[i])]
         /\ \A i \in DOMAIN wire : /\ wire'[i] \in Commands
                                   /\ wire[i].age \in Nat /\ wire'[i].age = wire[i].age + 1
                                   /\ wire'[i].op = wire[i].op /\ wire'[i].speed = wire[i].speed
                                   /\ wire'[i].left = wire[i].left
         /\ robot' \in Robots /\ scan' \in {Nothing} \cup Scans /\ seen' \in Sights
         /\ scan' # Nothing =>
               \/ scan'.room = robot'.room /\ scan'.v = robot'.v /\ scan'.age = 0
               \/ /\ scan # Nothing /\ scan'.room = scan.room /\ scan'.v = scan.v
                  /\ scan.room \in Int /\ scan.age \in Nat /\ scan'.age = scan.age + 1
         /\ seen'.room = seen.room
         /\ call # "over" => /\ seen'.v = seen.v
                             /\ seen.age < OldestAge => seen'.age = seen.age + 1
<1>1. /\ robot \in Robots /\ wire \in Seq(Commands) /\ scan \in {Nothing} \cup Scans /\ seen \in Sights
      /\ server \in {"none", "driving"} \cup Ends
  BY DEF DriveInv, DriveTyped, RobotTyped, WireTyped, ScanTyped
<1> DEFINE done == server = "driving" /\ robot.left <= Covered
           rest == IF done \/ server # "driving" THEN 0 ELSE robot.left - Covered
           speed == IF Braking THEN robot.v - 1 ELSE robot.target
           target == IF done THEN 0 ELSE robot.target
<1>2. robot.room \in Int /\ robot.v \in Nat /\ robot.target \in Nat /\ robot.left \in Int
  BY <1>1 DEF Robots
<1>3. Covered \in Nat
  BY <1>2 DEF Covered, Braking
<1>4. robot' = [room |-> robot.room - Covered, left |-> rest, v |-> speed, target |-> target]
  BY DEF Tick
<1>5. server' = IF done THEN "succeeded" ELSE server
  BY DEF Tick
<1>6. /\ robot'.room = robot.room - Covered /\ robot'.v = speed /\ robot'.left = rest
      /\ robot'.target = target /\ robot' \in Robots
  <2>1. rest \in Int /\ target \in Nat
    BY <1>2, <1>3
  <2>2. speed \in Nat
    BY <1>2 DEF Braking
  <2> HIDE DEF rest, speed, target
  <2> QED
    BY <1>2, <1>3, <1>4, <2>1, <2>2 DEF Robots
<1>7. \/ /\ server' = server /\ robot'.target = robot.target
         /\ server = "driving" => robot.left > Covered /\ robot'.left = robot.left - Covered
      \/ /\ server = "driving" /\ server' = "succeeded" /\ robot'.target = 0 /\ robot.left <= Covered
  <2>1. CASE done
    BY <1>5, <1>6, <2>1
  <2>2. CASE ~done
    BY <1>2, <1>3, <1>5, <1>6, <2>2
  <2> QED
    BY <2>1, <2>2
<1>8. /\ wire' = [i \in 1..Len(wire) |-> Older(wire[i])] /\ Len(wire) \in Nat
  BY <1>1 DEF Tick
<1>9. DOMAIN wire = 1..Len(wire) /\ DOMAIN wire' = DOMAIN wire
  BY <1>1, <1>8
<1>10. ASSUME NEW i \in DOMAIN wire
       PROVE  /\ wire'[i] \in Commands
              /\ wire[i].age \in Nat /\ wire'[i].age = wire[i].age + 1
              /\ wire'[i].op = wire[i].op /\ wire'[i].speed = wire[i].speed
              /\ wire'[i].left = wire[i].left
  <2> DEFINE c == wire[i]
  <2>1. c \in Commands /\ wire'[i] = Older(c)
    BY <1>1, <1>8, <1>9
  <2> HIDE DEF c
  <2>2. /\ c.age \in Nat /\ Older(c).age = c.age + 1 /\ Older(c).op = c.op /\ Older(c).speed = c.speed
        /\ Older(c).left = c.left /\ Older(c) \in Commands
    BY <2>1 DEF Older, Commands
  <2> QED
    BY <2>1, <2>2 DEF c
<1>11. /\ scan' \in {Nothing} \cup Scans
       /\ scan' # Nothing =>
             \/ scan'.room = robot'.room /\ scan'.v = robot'.v /\ scan'.age = 0
             \/ /\ scan # Nothing /\ scan'.room = scan.room /\ scan'.v = scan.v
                /\ scan.room \in Int /\ scan.age \in Nat /\ scan'.age = scan.age + 1
  <2>1. CASE scan' = [room |-> robot'.room, v |-> robot'.v, age |-> 0]
    <3>1. robot'.room \in Int /\ robot'.v \in Nat
      BY <1>6 DEF Robots
    <3>2. scan' \in Scans
      BY <2>1, <3>1 DEF Scans
    <3> QED
      BY <2>1, <3>2
  <2>2. CASE scan' = Nothing
    BY <2>2
  <2>3. CASE scan # Nothing /\ scan' = Older(scan)
    <3>1. scan \in Scans
      BY <1>1, <2>3
    <3> QED
      BY <2>3, <3>1 DEF Older, Scans
  <2> QED
    BY <2>1, <2>2, <2>3 DEF Tick
<1>12. /\ seen' \in Sights /\ seen'.room = seen.room
       /\ call # "over" => /\ seen'.v = seen.v
                           /\ seen.age < OldestAge => seen'.age = seen.age + 1
  <2>1. seen' = IF call = "over" THEN seen ELSE [seen EXCEPT !.age = Min({OldestAge, @ + 1})]
    BY DEF Tick
  <2>2. seen.age \in Int /\ OldestAge \in Int
    BY <1>1, DriveAssumption DEF Sights
  <2>3. Min({OldestAge, seen.age + 1}) = IF OldestAge <= seen.age + 1 THEN OldestAge ELSE seen.age + 1
    BY <2>2, MinOfTwo
  <2> QED
    BY <1>1, <2>1, <2>2, <2>3 DEF Sights
<1> HIDE DEF rest, target, done
<1> QED
  BY <1>2, <1>3, <1>6, <1>7, <1>8, <1>9, <1>10, <1>11, <1>12

LEMMA TickKeeps == ASSUME DriveInv, Tick PROVE DriveInv'
<1>1. /\ call # "idle" /\ UNCHANGED <<call, ask, plan, profile, start, guard, inbox, outcome>>
  BY DEF Tick
<1>2. /\ scan \in {Nothing} \cup Scans /\ seen \in Sights
      /\ start \in Int /\ ask \in [speed : Nat, distance : Nat] /\ server \in {"none", "driving"} \cup Ends
      /\ plan.distance \in Nat /\ wire \in Seq(Commands)
  BY <1>1 DEF DriveInv, DriveTyped, AskTyped, RobotTyped, WireTyped, ScanTyped, PlanTyped
<1>3. /\ robot.room \in Int /\ robot.v \in Nat /\ robot.target \in Nat /\ robot.left \in Int
      /\ Covered \in Nat /\ robot'.room = robot.room - Covered /\ robot' \in Robots
  BY TickMoves
<1>4. \/ /\ server' = server /\ robot'.target = robot.target
         /\ server = "driving" => robot.left > Covered /\ robot'.left = robot.left - Covered
      \/ /\ server = "driving" /\ server' = "succeeded" /\ robot'.target = 0 /\ robot.left <= Covered
  BY TickMoves
<1>5. /\ DOMAIN wire' = DOMAIN wire /\ Len(wire) \in Nat /\ DOMAIN wire = 1..Len(wire)
      /\ wire' = [i \in 1..Len(wire) |-> Older(wire[i])]
      /\ \A i \in DOMAIN wire : /\ wire'[i] \in Commands /\ wire'[i].op = wire[i].op
                                /\ wire'[i].speed = wire[i].speed /\ wire'[i].left = wire[i].left
  BY TickMoves
<1>6. WireTyped'
  BY <1>5 DEF WireTyped
<1>7. /\ seen' \in Sights /\ seen'.room = seen.room /\ scan' \in {Nothing} \cup Scans
      /\ scan' # Nothing => scan'.room = robot'.room \/ (scan # Nothing /\ scan'.room = scan.room)
  BY TickMoves
<1>8. DriveTyped'
  BY <1>1, <1>2, <1>3, <1>4, <1>6, <1>7 DEF DriveInv, DriveTyped, AskTyped, RobotTyped, ScanTyped,
     GuardTyped, CallTyped, PlanTyped, Ends
<1>9. NothingYet'
  BY <1>1 DEF NothingYet
<1>10. GoalsFirst'
  BY <1>5 DEF DriveInv, GoalsFirst, IsGoal
<1>11. GoalsSlower' /\ GuardIsSlower'
  BY <1>1, <1>4, <1>5 DEF DriveInv, GoalsSlower, GuardIsSlower, IsGoal, Watched
<1>12. CancelIsSent'
  BY <1>1, <1>4, <1>5 DEF DriveInv, CancelIsSent, IsGoal, Watched
<1>13. SeenIsBehind'
  <2>1. seen.room \in Int /\ (scan # Nothing => scan.room \in Int)
    BY <1>2 DEF Sights, Scans
  <2> QED
    BY <1>1, <1>3, <1>7, <2>1 DEF DriveInv, SeenIsBehind
<1>14. Gone' = Gone + Covered /\ Gone \in Int
  BY <1>1, <1>2, <1>3 DEF Gone
<1>15. LeftIsEnough'
  <2>1. \A i \in DOMAIN wire : wire[i].left \in Int
    <3>1. \A i \in DOMAIN wire : wire[i] \in Commands
      BY <1>2
    <3> QED
      BY <3>1 DEF Commands
  <2>2. \A i \in DOMAIN wire' : IsGoal(i)' => wire'[i].left + Gone' >= plan'.distance
    <3> SUFFICES ASSUME NEW i \in DOMAIN wire', wire'[i].op = "goal"
                 PROVE  wire'[i].left + Gone' >= plan.distance
      BY <1>1 DEF IsGoal
    <3>1. i \in DOMAIN wire /\ wire[i].op = "goal" /\ wire'[i].left = wire[i].left
      BY <1>5
    <3>2. wire[i].left + Gone >= plan.distance
      BY <3>1 DEF DriveInv, LeftIsEnough, IsGoal
    <3> QED
      BY <1>2, <1>3, <1>14, <2>1, <3>1, <3>2
  <2>3. Gone >= plan.distance => Gone' >= plan.distance
    BY <1>2, <1>3, <1>14
  <2>4. server = "driving" =>
           /\ robot.left <= Covered => Gone' >= plan.distance
           /\ robot.left - Covered + Gone' >= plan.distance
    BY <1>2, <1>3, <1>14 DEF DriveInv, LeftIsEnough
  <2> QED
    BY <1>1, <1>4, <2>2, <2>3, <2>4 DEF DriveInv, LeftIsEnough
<1>16. CompletedIsTravelled'
  <2>1. ask.distance \in Nat /\ Tolerance \in Nat
    BY <1>2, DriveAssumption
  <2>2. Within10th(ask.distance - Gone, ask.distance) => Within10th(ask.distance - Gone', ask.distance)
    BY <1>3, <1>14, <2>1 DEF Within10th
  <2> QED
    BY <1>1, <2>2 DEF DriveInv, CompletedIsTravelled
<1> QED
  BY <1>8, <1>9, <1>10, <1>11, <1>12, <1>13, <1>15, <1>16 DEF DriveInv

(* A robot that stops stays where it is.                                     *)
LEMMA StopsInPlace ==
  ASSUME robot \in Robots, robot' = [robot EXCEPT !.target = 0, !.left = 0]
  PROVE  robot' \in Robots /\ robot'.room = robot.room /\ robot'.target = 0
<1>1. /\ robot.room \in Int /\ robot.v \in Nat
      /\ robot = [room |-> robot.room, v |-> robot.v, target |-> robot.target, left |-> robot.left]
  BY DEF Robots
<1> DEFINE still == [room |-> robot.room, v |-> robot.v, target |-> 0, left |-> 0]
<1>2. robot' = still
  BY <1>1
<1>3. still \in Robots /\ still.room = robot.room /\ still.target = 0
  BY <1>1 DEF Robots
<1> HIDE DEF still
<1> QED
  BY <1>2, <1>3

(* What the host keeps when a command arrives.                               *)
LEMMA ArriveKeeps == ASSUME DriveInv, Arrive PROVE DriveInv'
<1> DEFINE c == Head(wire)
<1>1. /\ wire # <<>> /\ wire' = Tail(wire) /\ UNCHANGED <<scan, call, ask, plan, profile, start, guard, seen>>
      /\ UNCHANGED <<inbox, outcome>>
  BY DEF Arrive, host
<1>2. /\ robot \in Robots /\ wire \in Seq(Commands) /\ server \in {"none", "driving"} \cup Ends
  BY DEF DriveInv, DriveTyped, RobotTyped, WireTyped
<1>3. c = wire[1] /\ c \in Commands /\ 1 \in DOMAIN wire
  BY <1>1, <1>2
<1>4. wire' \in Seq(Commands)
  BY <1>1, <1>2
<1>5. \A i \in DOMAIN wire' : i \in Nat /\ i >= 1 /\ i + 1 \in DOMAIN wire /\ wire'[i] = wire[i + 1]
  BY <1>1, <1>2
<1>6. call # "idle"
  BY <1>1 DEF DriveInv, NothingYet
<1>7. /\ c.speed \in Nat /\ c.left \in Int /\ robot.room \in Int /\ robot.v \in Nat
      /\ robot.target \in Nat /\ robot.left \in Int
  BY <1>2, <1>3 DEF Commands, Robots
<1>8. CASE c.op = "goal"
  <2>1. robot' = [robot EXCEPT !.target = c.speed, !.left = c.left] /\ server' = "driving"
    BY <1>8 DEF Arrive
  <2> HIDE DEF c
  <2>2. robot' \in Robots /\ robot'.room = robot.room /\ robot'.target = c.speed /\ robot'.left = c.left
    BY <1>2, <1>7, <2>1 DEF Robots
  <2>3. DriveTyped'
    BY <1>1, <1>4, <2>1, <2>2 DEF DriveInv, DriveTyped, AskTyped, RobotTyped, WireTyped, ScanTyped,
       GuardTyped, CallTyped, PlanTyped
  <2>4. NothingYet'
    BY <1>1, <1>6 DEF NothingYet
  <2>5. IsGoal(1) /\ server # "canceled"
    BY <1>3, <1>8 DEF IsGoal, DriveInv, GoalsSlower
  <2>6. GoalsFirst'
    BY <1>5 DEF DriveInv, GoalsFirst, IsGoal
  <2>7. GoalsSlower'
    <3>1. \A i \in DOMAIN wire : IsGoal(i) /\ 1 < i => wire[i].speed <= c.speed
      BY <1>3 DEF DriveInv, GoalsFirst
    <3>2. \A i \in DOMAIN wire' : IsGoal(i)' => IsGoal(i + 1) /\ 1 < i + 1
      BY <1>5 DEF IsGoal
    <3> QED
      BY <1>1, <1>5, <2>1, <2>2, <3>1, <3>2 DEF DriveInv, GoalsSlower, Watched
  <2>8. GuardIsSlower'
    BY <1>1, <1>3, <2>1, <2>2, <2>5 DEF DriveInv, GoalsSlower, GuardIsSlower, Watched
  <2>9. CancelIsSent'
    BY <1>1, <1>5, <2>1 DEF DriveInv, CancelIsSent, IsGoal, Watched
  <2>10. SeenIsBehind' /\ CompletedIsTravelled'
    BY <1>1, <2>2 DEF DriveInv, SeenIsBehind, CompletedIsTravelled, Gone
  <2>11. LeftIsEnough'
    BY <1>1, <1>3, <1>5, <2>1, <2>2, <2>5 DEF DriveInv, LeftIsEnough, IsGoal, Gone
  <2> QED
    BY <2>3, <2>4, <2>6, <2>7, <2>8, <2>9, <2>10, <2>11 DEF DriveInv
<1>9. CASE c.op # "goal"
  <2>1. /\ robot' = [robot EXCEPT !.target = 0, !.left = 0]
        /\ server' = IF server = "driving" THEN "canceled" ELSE server
    BY <1>9 DEF Arrive
  <2> HIDE DEF c
  <2>2. robot' \in Robots /\ robot'.room = robot.room /\ robot'.target = 0
    BY <1>2, <2>1, StopsInPlace
  <2>3. server' # "driving" /\ server' \in {"none", "driving"} \cup Ends
    BY <1>2, <2>1 DEF Ends
  <2>4. DriveTyped'
    BY <1>1, <1>4, <2>2, <2>3 DEF DriveInv, DriveTyped, AskTyped, RobotTyped, WireTyped, ScanTyped,
       GuardTyped, CallTyped, PlanTyped
  <2>5. NothingYet'
    BY <1>1, <1>6 DEF NothingYet
  <2>6. \A i \in DOMAIN wire' : ~IsGoal(i)'
    BY <1>3, <1>5, <1>9 DEF DriveInv, GoalsFirst, IsGoal
  <2>7. (GoalsFirst /\ GoalsSlower)'
    BY <2>6 DEF GoalsFirst, GoalsSlower
  <2>8. GuardIsSlower'
    BY <1>1, <2>2, <2>3 DEF DriveInv, GuardIsSlower
  <2>9. CancelIsSent'
    BY <1>1, <1>3, <1>9 DEF DriveInv, CancelIsSent, IsGoal, Watched
  <2>10. SeenIsBehind' /\ CompletedIsTravelled'
    BY <1>1, <2>2 DEF DriveInv, SeenIsBehind, CompletedIsTravelled, Gone
  <2>11. LeftIsEnough'
    BY <1>1, <2>1, <2>2, <2>3, <2>6 DEF DriveInv, LeftIsEnough, Gone
  <2> QED
    BY <2>4, <2>5, <2>7, <2>8, <2>9, <2>10, <2>11 DEF DriveInv
<1> QED
  BY <1>8, <1>9

LEMMA ServerAbortsKeeps == ASSUME DriveInv, ServerAborts PROVE DriveInv'
<1>1. /\ server = "driving" /\ server' = "aborted" /\ robot' = [robot EXCEPT !.target = 0, !.left = 0]
      /\ UNCHANGED <<scan, wire, call, ask, plan, profile, start, guard, seen, inbox, outcome>>
  BY DEF ServerAborts, host
<1>2. robot \in Robots
  BY DEF DriveInv, DriveTyped, RobotTyped
<1>3. robot' \in Robots /\ robot'.room = robot.room
  BY <1>1, <1>2, StopsInPlace
<1>4. DriveTyped'
  BY <1>1, <1>3 DEF DriveInv, DriveTyped, AskTyped, RobotTyped, WireTyped, ScanTyped,
     GuardTyped, CallTyped, PlanTyped, Ends
<1>5. call # "idle"
  BY <1>1 DEF DriveInv, NothingYet
<1>6. (NothingYet /\ GoalsFirst /\ GoalsSlower /\ GuardIsSlower)'
  BY <1>1, <1>5 DEF DriveInv, NothingYet, GoalsFirst, GoalsSlower, GuardIsSlower, IsGoal, Watched
<1>7. (CancelIsSent /\ SeenIsBehind /\ LeftIsEnough /\ CompletedIsTravelled)'
  BY <1>1, <1>3 DEF DriveInv, CancelIsSent, SeenIsBehind, LeftIsEnough, CompletedIsTravelled, IsGoal,
     Watched, Gone
<1> QED
  BY <1>4, <1>6, <1>7 DEF DriveInv

(* A call that ends leaves the drive as it is, and watches it no more.       *)
LEMMA OverKeeps ==
  ASSUME DriveInv, DropGuard, call' = "over", CompletedIsTravelled', wire' \in {wire, <<>>},
         scan' \in {scan, Nothing}, UNCHANGED <<ask, plan, profile, start, robot, server, inbox>>,
         call # "idle"
  PROVE  DriveInv'
<1>1. guard' = NoGuard /\ seen' = Unseen
  BY DEF DropGuard
<1>2. (GuardTyped /\ ScanTyped)' /\ guard'.trip = NoTrip /\ guard'.slowTo = Nothing /\ ~guard'.stopSent
  BY <1>1 DEF NoGuard, Unseen, GuardTyped, Guards, Trips, DriveInv, DriveTyped, ScanTyped, Sights
<1>3. WireTyped' /\ (wire' = wire \/ DOMAIN wire' = {})
  <2>1. wire \in Seq(Commands)
    BY DEF DriveInv, DriveTyped, WireTyped
  <2>2. CASE wire' = wire
    BY <2>1, <2>2 DEF WireTyped
  <2>3. CASE wire' = <<>>
    BY <2>3 DEF WireTyped
  <2> QED
    BY <2>2, <2>3
<1>4. DriveTyped'
  BY <1>2, <1>3 DEF DriveInv, DriveTyped, AskTyped, RobotTyped, CallTyped, PlanTyped
<1>5. (NothingYet /\ GoalsFirst /\ GoalsSlower)'
  BY <1>3 DEF DriveInv, NothingYet, GoalsFirst, GoalsSlower, IsGoal, Watched
<1>6. (GuardIsSlower /\ CancelIsSent)'
  BY <1>2 DEF DriveInv, GuardIsSlower, CancelIsSent, Watched
<1>7. (SeenIsBehind /\ LeftIsEnough)'
  BY <1>3 DEF DriveInv, SeenIsBehind, LeftIsEnough, IsGoal, Gone
<1> QED
  BY <1>4, <1>5, <1>6, <1>7 DEF DriveInv

LEMMA LinkDropsKeeps == ASSUME DriveInv, LinkDrops PROVE DriveInv'
<1>1. CompletedIsTravelled'
  BY DEF LinkDrops, CompletedIsTravelled, TimedOut
<1>2. /\ DropGuard /\ call' = "over" /\ wire' \in {wire, <<>>} /\ scan' \in {scan, Nothing} /\ call # "idle"
      /\ UNCHANGED <<ask, plan, profile, start, robot, server, inbox>>
  BY DEF LinkDrops
<1> QED
  BY <1>1, <1>2, OverKeeps

(* A guard that trips remembers its cause and forgets the slower goal.       *)
LEMMA TripOnly ==
  ASSUME NEW g \in Guards, NEW cause \in Trips
  PROVE  /\ Trip(g, cause) \in Guards /\ Trip(g, cause).trip = cause /\ Trip(g, cause).slowTo = Nothing
         /\ Trip(g, cause).speed = g.speed /\ Trip(g, cause).stopSent = g.stopSent
BY DEF Trip, Guards

(* What a scan or a look may change of the guard.                            *)
LEMMA GuardLooks ==
  ASSUME DriveInv, call # "idle", guard' \in Guards, guard'.speed = guard.speed,
         guard'.stopSent = guard.stopSent, guard.trip # NoTrip => guard'.trip # NoTrip,
         guard'.slowTo # Nothing => guard'.slowTo <= guard'.speed,
         scan' \in {scan, Nothing}, seen' \in Sights, call # "over" => robot.room <= seen'.room,
         UNCHANGED <<call, ask, plan, profile, start, robot, server, wire, inbox, outcome>>
  PROVE  DriveInv'
<1>1. ScanTyped'
  BY DEF DriveInv, DriveTyped, ScanTyped
<1>2. DriveTyped'
  BY <1>1 DEF DriveInv, DriveTyped, AskTyped, RobotTyped, WireTyped, GuardTyped, CallTyped, PlanTyped
<1>3. (NothingYet /\ GoalsFirst /\ GoalsSlower /\ GuardIsSlower)'
  BY DEF DriveInv, NothingYet, GoalsFirst, GoalsSlower, GuardIsSlower, IsGoal, Watched
<1>4. (CancelIsSent /\ SeenIsBehind)'
  BY DEF DriveInv, CancelIsSent, SeenIsBehind, IsGoal, Watched
<1>5. (LeftIsEnough /\ CompletedIsTravelled)'
  BY DEF DriveInv, LeftIsEnough, CompletedIsTravelled, IsGoal, Gone
<1> QED
  BY <1>2, <1>3, <1>4, <1>5 DEF DriveInv

LEMMA JudgedType ==
  ASSUME DriveInv, NEW room \in Int, NEW v \in Int, guard.trip = NoTrip
  PROVE  /\ Judged(room, v) \in Guards /\ Judged(room, v).speed = guard.speed
         /\ Judged(room, v).stopSent = guard.stopSent
         /\ Judged(room, v).slowTo # Nothing => Judged(room, v).slowTo <= guard.speed
<1> DEFINE fit == Allowed(room)
           slowed == [guard EXCEPT !.slowTo = fit]
<1>1. guard \in Guards /\ profile \in Profile /\ "clearance" \in Trips
  BY DEF DriveInv, DriveTyped, GuardTyped, AskTyped, Trips
<1>2. fit \in Nat /\ guard.speed \in Nat
  BY <1>1, MaxSpeedType DEF Allowed, Guards
<1> HIDE DEF fit
<1>3. CASE Judged(room, v) = Trip(guard, "clearance")
  <2>1. Trip(guard, "clearance").slowTo = Nothing
    BY <1>1, TripOnly
  <2> QED
    BY <1>1, <1>3, <2>1, TripOnly
<1>4. CASE Judged(room, v) = guard
  BY <1>1, <1>4 DEF DriveInv, GuardIsSlower
<1>5. CASE Judged(room, v) = slowed /\ 10 * fit < 9 * guard.speed
  <2>1. slowed \in Guards /\ slowed.speed = guard.speed /\ slowed.stopSent = guard.stopSent
        /\ slowed.slowTo = fit
    BY <1>1, <1>2 DEF Guards
  <2> HIDE DEF slowed
  <2>2. fit <= guard.speed
    BY <1>2, <1>5
  <2> QED
    BY <1>5, <2>1, <2>2
<1> QED
  BY <1>3, <1>4, <1>5 DEF Judged, fit

LEMMA ReceiveKeeps == ASSUME DriveInv, NEW readable \in BOOLEAN, Receive(readable) PROVE DriveInv'
<1>1. /\ scan # Nothing /\ call # "over" /\ scan' = Nothing
      /\ seen' = [room |-> IF readable THEN scan.room ELSE seen.room, v |-> scan.v, age |-> 0]
      /\ guard' = IF guard.trip # NoTrip THEN guard
                  ELSE IF ~readable THEN Trip(guard, "blind") ELSE Judged(Sensed(scan.room), scan.v)
      /\ UNCHANGED <<call, ask, plan, profile, start, robot, server, wire, inbox, outcome>>
  BY DEF Receive
<1>2. scan \in Scans /\ seen \in Sights /\ guard \in Guards
  BY <1>1 DEF DriveInv, DriveTyped, ScanTyped, GuardTyped
<1>3. scan.room \in Int /\ scan.v \in Int /\ seen.room \in Int /\ Sensed(scan.room) \in Int
  BY <1>2, DriveAssumption DEF Scans, Sights, Sensed
<1>4. seen' \in Sights /\ (seen'.room = scan.room \/ seen'.room = seen.room)
  BY <1>1, <1>3 DEF Sights
<1>5. robot.room <= seen'.room
  BY <1>1, <1>4 DEF DriveInv, SeenIsBehind
<1>6. call # "idle"
  BY <1>1 DEF DriveInv, NothingYet
<1>7. /\ guard' \in Guards /\ guard'.speed = guard.speed /\ guard'.stopSent = guard.stopSent
      /\ guard.trip # NoTrip => guard'.trip # NoTrip
      /\ guard'.slowTo # Nothing => guard'.slowTo <= guard'.speed
  <2>1. CASE guard.trip # NoTrip
    BY <1>1, <1>2, <2>1 DEF DriveInv, GuardIsSlower
  <2>2. CASE guard.trip = NoTrip /\ ~readable
    <3>1. "blind" \in Trips /\ guard' = Trip(guard, "blind")
      BY <1>1, <2>2 DEF Trips
    <3>2. /\ guard' \in Guards /\ guard'.speed = guard.speed /\ guard'.stopSent = guard.stopSent
          /\ guard'.slowTo = Nothing
      BY <1>2, <3>1, TripOnly
    <3> QED
      BY <2>2, <3>2
  <2>3. CASE guard.trip = NoTrip /\ readable
    <3>1. guard' = Judged(Sensed(scan.room), scan.v)
      BY <1>1, <2>3
    <3> QED
      BY <1>3, <2>3, <3>1, JudgedType
  <2> QED
    BY <2>1, <2>2, <2>3
<1> QED
  BY <1>1, <1>4, <1>5, <1>6, <1>7, GuardLooks

LEMMA ResultKeeps == ASSUME DriveInv, Result PROVE DriveInv'
<1>1. /\ server \in Ends /\ inbox' = server /\ call \in {"waiting", "left"}
      /\ UNCHANGED <<call, ask, plan, profile, start, robot, server, wire, scan, seen, guard, outcome>>
  BY DEF Result, world, Ends
<1>2. DriveTyped'
  BY <1>1 DEF DriveInv, DriveTyped, AskTyped, RobotTyped, WireTyped, ScanTyped, GuardTyped, CallTyped, PlanTyped
<1>3. (NothingYet /\ GoalsFirst /\ GoalsSlower /\ GuardIsSlower)'
  BY <1>1 DEF DriveInv, NothingYet, GoalsFirst, GoalsSlower, GuardIsSlower, IsGoal, Watched
<1>4. (CancelIsSent /\ SeenIsBehind)'
  BY <1>1 DEF DriveInv, CancelIsSent, SeenIsBehind, IsGoal, Watched
<1>5. (LeftIsEnough /\ CompletedIsTravelled)'
  BY <1>1 DEF DriveInv, LeftIsEnough, CompletedIsTravelled, IsGoal, Gone
<1> QED
  BY <1>2, <1>3, <1>4, <1>5 DEF DriveInv

(* A look may find the scans too old; it changes nothing else of the guard.  *)
LEMMA FreshType ==
  ASSUME DriveInv
  PROVE  /\ Fresh \in Guards /\ Fresh.speed = guard.speed /\ Fresh.stopSent = guard.stopSent
         /\ guard.trip # NoTrip => Fresh.trip # NoTrip
         /\ Fresh.trip = NoTrip => Fresh = guard
         /\ Fresh.slowTo # Nothing => Fresh.slowTo <= guard.speed
<1>1. guard \in Guards /\ "stale" \in Trips /\ "stale" # NoTrip
  BY DriveAssumption DEF DriveInv, DriveTyped, GuardTyped, Trips
<1>2. CASE Fresh = guard
  BY <1>1, <1>2 DEF DriveInv, GuardIsSlower
<1>3. CASE Fresh = Trip(guard, "stale")
  <2>1. /\ Fresh \in Guards /\ Fresh.trip = "stale" /\ Fresh.slowTo = Nothing
        /\ Fresh.speed = guard.speed /\ Fresh.stopSent = guard.stopSent
    BY <1>1, <1>3, TripOnly
  <2> QED
    BY <1>1, <2>1
<1> QED
  BY <1>2, <1>3 DEF Fresh

LEMMA LookOnKeeps == ASSUME DriveInv, LookOn PROVE DriveInv'
<1>1. /\ call = "waiting" /\ guard' = [Fresh EXCEPT !.slowTo = Nothing]
      /\ UNCHANGED <<call, ask, plan, profile, start, robot, server, wire, scan, seen, inbox, outcome>>
  BY DEF LookOn, Looking
<1> DEFINE g == Fresh
<1>2. /\ g \in Guards /\ g.speed = guard.speed /\ g.stopSent = guard.stopSent
      /\ guard.trip # NoTrip => g.trip # NoTrip
  BY FreshType
<1> HIDE DEF g
<1>3. guard' = [g EXCEPT !.slowTo = Nothing]
  BY <1>1 DEF g
<1>4. /\ guard' \in Guards /\ guard'.slowTo = Nothing /\ guard'.speed = g.speed
      /\ guard'.stopSent = g.stopSent /\ guard'.trip = g.trip
  BY <1>2, <1>3 DEF Guards
<1>5. seen' \in Sights /\ (call # "over" => robot.room <= seen'.room) /\ call # "idle"
  BY <1>1 DEF DriveInv, DriveTyped, ScanTyped, SeenIsBehind
<1> QED
  BY <1>1, <1>2, <1>4, <1>5, GuardLooks

(* A command is sent after those that are on their way.                      *)
LEMMA SentLast ==
  ASSUME wire \in Seq(Commands), NEW c \in Commands, wire' = Append(wire, c)
  PROVE  /\ wire' \in Seq(Commands) /\ wire'[Len(wire) + 1] = c
         /\ \A i \in DOMAIN wire' : i \in Nat /\ (i \in DOMAIN wire \/ i = Len(wire) + 1)
         /\ \A i \in DOMAIN wire : i \in DOMAIN wire' /\ wire'[i] = wire[i] /\ i < Len(wire) + 1
         /\ Len(wire) + 1 \in DOMAIN wire'
OBVIOUS

LEMMA BrakeKeeps == ASSUME DriveInv, Brake PROVE DriveInv'
<1> DEFINE g == Fresh
           c == StopCommand
           last == Len(wire) + 1
<1>1. /\ call = "waiting" /\ g.trip # NoTrip /\ guard' = [g EXCEPT !.stopSent = TRUE]
      /\ wire' = Append(wire, c)
      /\ UNCHANGED <<call, ask, plan, profile, start, robot, server, scan, seen, inbox, outcome>>
  BY DEF Brake, Looking
<1>2. g \in Guards /\ g.speed = guard.speed /\ (g.slowTo # Nothing => g.slowTo <= guard.speed)
  BY FreshType
<1>3. c \in Commands /\ c.op = "cancel"
  BY DEF StopCommand, Command, Commands
<1> HIDE DEF g, c
<1>4. guard' \in Guards /\ guard'.slowTo = g.slowTo /\ guard'.speed = g.speed /\ guard'.trip = g.trip
  BY <1>1, <1>2 DEF Guards
<1>5. guard'.stopSent
  BY <1>1, <1>2 DEF Guards
<1>6. wire \in Seq(Commands)
  BY DEF DriveInv, DriveTyped, WireTyped
<1>7. /\ wire' \in Seq(Commands) /\ wire'[last] = c
      /\ \A i \in DOMAIN wire' : i \in Nat /\ (i \in DOMAIN wire \/ i = last)
      /\ \A i \in DOMAIN wire : i \in DOMAIN wire' /\ wire'[i] = wire[i] /\ i < last
  BY <1>1, <1>3, <1>6, SentLast
<1> HIDE DEF last
<1>8. \A i \in DOMAIN wire' : IsGoal(i)' => i \in DOMAIN wire /\ IsGoal(i) /\ wire'[i] = wire[i]
  BY <1>3, <1>7 DEF IsGoal
<1>9. DriveTyped'
  BY <1>1, <1>4, <1>7 DEF DriveInv, DriveTyped, AskTyped, RobotTyped, WireTyped, ScanTyped, GuardTyped,
     CallTyped, PlanTyped
<1>10. NothingYet'
  BY <1>1 DEF NothingYet
<1>11. GoalsFirst'
  <2> SUFFICES ASSUME NEW i \in DOMAIN wire', NEW j \in DOMAIN wire', i < j, IsGoal(j)'
               PROVE  IsGoal(i)' /\ wire'[j].speed <= wire'[i].speed
    BY DEF GoalsFirst
  <2>1. j \in DOMAIN wire /\ IsGoal(j) /\ wire'[j] = wire[j] /\ i \in Nat /\ j \in Nat /\ j < last
    BY <1>7, <1>8
  <2>2. i # last
    <3>1. last \in Nat
      BY <1>6 DEF last
    <3> QED
      BY <2>1, <3>1
  <2>3. i \in DOMAIN wire /\ wire'[i] = wire[i]
    BY <1>7, <2>2
  <2> QED
    BY <2>1, <2>3 DEF DriveInv, GoalsFirst, IsGoal
<1>12. GoalsSlower'
  BY <1>1, <1>2, <1>4, <1>8 DEF DriveInv, GoalsSlower, Watched
<1>13. GuardIsSlower'
  BY <1>1, <1>2, <1>4 DEF DriveInv, GuardIsSlower, Watched
<1>14. CancelIsSent'
  BY <1>1, <1>4, <1>5 DEF CancelIsSent
<1>15. (SeenIsBehind /\ CompletedIsTravelled)'
  BY <1>1 DEF DriveInv, SeenIsBehind, CompletedIsTravelled, Gone
<1>16. LeftIsEnough'
  BY <1>1, <1>8 DEF DriveInv, LeftIsEnough, Gone
<1> QED
  BY <1>9, <1>10, <1>11, <1>12, <1>13, <1>14, <1>15, <1>16 DEF DriveInv

LEMMA SlowDownKeeps == ASSUME DriveInv, SlowDown PROVE DriveInv'
<1> DEFINE c == DriveGoal(guard.slowTo, Remaining)
           last == Len(wire) + 1
<1>1. /\ call = "waiting" /\ guard.slowTo # Nothing /\ Fresh.trip = NoTrip
      /\ guard' = [guard EXCEPT !.slowTo = Nothing, !.speed = guard.slowTo]
      /\ wire' = Append(wire, c)
      /\ UNCHANGED <<call, ask, plan, profile, start, robot, server, scan, seen, inbox, outcome>>
  <2>1. Fresh = guard
    BY FreshType DEF SlowDown
  <2> QED
    BY <2>1 DEF SlowDown, Looking
<1>2. guard.trip = NoTrip
  BY <1>1, FreshType
<1>3. guard \in Guards /\ guard.slowTo \in Nat /\ guard.slowTo <= guard.speed /\ guard.speed \in Nat
  BY <1>1 DEF DriveInv, DriveTyped, GuardTyped, GuardIsSlower, Guards
<1>4. /\ plan.distance \in Nat /\ start \in Int /\ seen.room \in Int /\ robot.room \in Int
      /\ robot.room <= seen.room /\ robot.target \in Nat
  BY <1>1 DEF DriveInv, DriveTyped, PlanTyped, AskTyped, ScanTyped, Sights, RobotTyped, Robots, SeenIsBehind
<1>5. Remaining \in Int /\ Remaining + Gone >= plan.distance
  BY <1>4 DEF Remaining, Gone
<1>6. c \in Commands /\ c.op = "goal" /\ c.speed = guard.slowTo /\ c.left = Remaining
  BY <1>3, <1>5 DEF DriveGoal, Command, Commands
<1> HIDE DEF c
<1>7. /\ guard' \in Guards /\ guard'.slowTo = Nothing /\ guard'.speed = guard.slowTo
      /\ guard'.trip = guard.trip /\ guard'.stopSent = guard.stopSent
  BY <1>1, <1>3 DEF Guards
<1>8. ~guard.stopSent /\ server # "canceled" /\ \A i \in DOMAIN wire : IsGoal(i)
  BY <1>1, <1>2 DEF DriveInv, CancelIsSent, Watched
<1>9. wire \in Seq(Commands)
  BY DEF DriveInv, DriveTyped, WireTyped
<1>10. /\ wire' \in Seq(Commands) /\ wire'[last] = c
       /\ \A i \in DOMAIN wire' : i \in Nat /\ (i \in DOMAIN wire \/ i = last)
       /\ \A i \in DOMAIN wire : i \in DOMAIN wire' /\ wire'[i] = wire[i] /\ i < last
  BY <1>1, <1>6, <1>9, SentLast
<1>11. last \in Nat
  BY <1>9
<1> HIDE DEF last
<1>12. \A i \in DOMAIN wire : wire[i].speed \in Nat /\ wire[i].left \in Int
  <2>1. \A i \in DOMAIN wire : wire[i] \in Commands
    BY <1>9
  <2> QED
    BY <2>1 DEF Commands
<1>13. \A i \in DOMAIN wire' : IsGoal(i)'
  BY <1>6, <1>8, <1>10 DEF IsGoal
<1>14. DriveTyped'
  BY <1>1, <1>7, <1>10 DEF DriveInv, DriveTyped, AskTyped, RobotTyped, WireTyped, ScanTyped, GuardTyped,
     CallTyped, PlanTyped
<1>15. NothingYet'
  BY <1>1 DEF NothingYet
<1>16. \A i \in DOMAIN wire : guard.slowTo <= wire[i].speed
  BY <1>1, <1>3, <1>8, <1>12 DEF DriveInv, GoalsSlower, Watched
<1>17. GoalsFirst'
  <2> SUFFICES ASSUME NEW i \in DOMAIN wire', NEW j \in DOMAIN wire', i < j
               PROVE  wire'[j].speed <= wire'[i].speed
    BY <1>13 DEF GoalsFirst
  <2>1. CASE j = last
    <3>1. i \in DOMAIN wire /\ wire'[i] = wire[i]
      BY <1>10, <1>11, <2>1
    <3> QED
      BY <1>6, <1>10, <1>16, <2>1, <3>1
  <2>2. CASE j # last
    <3>1. j \in DOMAIN wire /\ wire'[j] = wire[j] /\ j < last /\ i \in Nat /\ j \in Nat
      BY <1>10, <2>2
    <3>2. i \in DOMAIN wire /\ wire'[i] = wire[i]
      BY <1>10, <1>11, <3>1
    <3> QED
      BY <1>8, <3>1, <3>2 DEF DriveInv, GoalsFirst
  <2> QED
    BY <2>1, <2>2
<1>18. GoalsSlower'
  <2>1. server = "driving" => guard.slowTo <= robot.target
    BY <1>1, <1>3, <1>4 DEF DriveInv, GuardIsSlower, Watched
  <2> SUFFICES ASSUME NEW i \in DOMAIN wire'
               PROVE  /\ server = "driving" => wire'[i].speed <= robot.target
                      /\ guard.slowTo <= wire'[i].speed
    BY <1>1, <1>7, <1>8 DEF GoalsSlower
  <2>2. CASE i = last
    BY <1>3, <1>6, <1>10, <2>1, <2>2
  <2>3. CASE i # last
    <3>1. i \in DOMAIN wire /\ wire'[i] = wire[i]
      BY <1>10, <2>3
    <3> QED
      BY <1>8, <1>16, <3>1 DEF DriveInv, GoalsSlower
  <2> QED
    BY <2>2, <2>3
<1>19. GuardIsSlower'
  BY <1>1, <1>3, <1>4, <1>7, <1>8 DEF DriveInv, GuardIsSlower, Watched
<1>20. CancelIsSent'
  BY <1>1, <1>7, <1>8, <1>13 DEF CancelIsSent
<1>21. (SeenIsBehind /\ CompletedIsTravelled)'
  BY <1>1 DEF DriveInv, SeenIsBehind, CompletedIsTravelled, Gone
<1>22. LeftIsEnough'
  <2>1. \A i \in DOMAIN wire' : wire'[i].left + Gone >= plan.distance
    BY <1>5, <1>6, <1>8, <1>10 DEF DriveInv, LeftIsEnough
  <2>2. Gone' = Gone
    BY <1>1 DEF Gone
  <2> QED
    BY <1>1, <2>1, <2>2 DEF DriveInv, LeftIsEnough
<1> QED
  BY <1>14, <1>15, <1>17, <1>18, <1>19, <1>20, <1>21, <1>22 DEF DriveInv

LEMMA LeaveKeeps == ASSUME DriveInv, Leave PROVE DriveInv'
<1>1. /\ call = "waiting" /\ call' = "left" /\ outcome' = TimedOut
      /\ UNCHANGED <<ask, plan, profile, start, robot, server, wire, scan, seen, guard, inbox>>
  BY DEF Leave, world
<1>2. DriveTyped'
  BY <1>1 DEF DriveInv, DriveTyped, AskTyped, RobotTyped, WireTyped, ScanTyped, GuardTyped, CallTyped, PlanTyped
<1>3. (NothingYet /\ GoalsFirst /\ GoalsSlower /\ GuardIsSlower)'
  BY <1>1 DEF DriveInv, NothingYet, GoalsFirst, GoalsSlower, GuardIsSlower, IsGoal, Watched
<1>4. (CancelIsSent /\ SeenIsBehind)'
  BY <1>1 DEF DriveInv, CancelIsSent, SeenIsBehind, IsGoal, Watched
<1>5. (LeftIsEnough /\ CompletedIsTravelled)'
  BY <1>1 DEF DriveInv, LeftIsEnough, CompletedIsTravelled, TimedOut, IsGoal, Gone
<1> QED
  BY <1>2, <1>3, <1>4, <1>5 DEF DriveInv

LEMMA ResumeKeeps == ASSUME DriveInv, Resume PROVE DriveInv'
<1>1. /\ call = "left"
      /\ UNCHANGED <<ask, plan, profile, start, robot, server, wire, scan, inbox>>
  BY DEF Resume, world
<1>2. CASE /\ call' = "over" /\ outcome' = [outcome |-> "refused", reason |-> "path_blocked"]
           /\ DropGuard
  <2>1. CompletedIsTravelled'
    BY <1>2 DEF CompletedIsTravelled
  <2>2. call # "idle" /\ wire' \in {wire, <<>>} /\ scan' \in {scan, Nothing}
    BY <1>1
  <2> QED
    BY <1>1, <1>2, <2>1, <2>2, OverKeeps
<1>3. CASE call' = "waiting" /\ outcome' = NoOutcome /\ UNCHANGED <<guard, seen>>
  <2>1. DriveTyped'
    BY <1>1, <1>3 DEF DriveInv, DriveTyped, AskTyped, RobotTyped, WireTyped, ScanTyped, GuardTyped,
       CallTyped, PlanTyped
  <2>2. (NothingYet /\ GoalsFirst /\ GoalsSlower /\ GuardIsSlower)'
    BY <1>1, <1>3 DEF DriveInv, NothingYet, GoalsFirst, GoalsSlower, GuardIsSlower, IsGoal, Watched
  <2>3. (CancelIsSent /\ SeenIsBehind)'
    BY <1>1, <1>3 DEF DriveInv, CancelIsSent, SeenIsBehind, IsGoal, Watched
  <2>4. (LeftIsEnough /\ CompletedIsTravelled)'
    BY <1>1, <1>3 DEF DriveInv, LeftIsEnough, CompletedIsTravelled, NoOutcome, IsGoal, Gone
  <2> QED
    BY <2>1, <2>2, <2>3, <2>4 DEF DriveInv
<1> QED
  BY <1>2, <1>3 DEF Resume

(* A call reports "completed" only when a rule found the request reached, or  *)
(* when no rule holds and the server succeeded.                              *)
LEMMA CompletedWhy ==
  ASSUME OutcomeOf(Summary(Facts, ItsEnd)) = "completed"
  PROVE  \/ Reached(Facts)
         \/ StopRule(Facts) = NoRule /\ inbox = "succeeded"
<1> DEFINE rule == IF ItsEnd.status = "running" THEN NoRule ELSE StopRule(Facts)
           reason == IF rule # NoRule THEN RuleReason(rule) ELSE ServersReason(Facts.trip, ItsEnd)
<1>1. Summary(Facts, ItsEnd) = [rule |-> rule, reason |-> reason]
  BY DEF Summary
<1>2. ItsEnd.status = inbox
  BY DEF ItsEnd
<1> HIDE DEF rule, reason
<1>3. reason = "completed" /\ (inbox = "succeeded" \/ rule # NoRule)
  BY <1>1 DEF OutcomeOf
<1>4. CASE rule = NoRule
  BY <1>2, <1>3, <1>4 DEF rule
<1>5. CASE rule # NoRule
  <2>1. rule = StopRule(Facts) /\ reason = RuleReason(rule)
    BY <1>5 DEF rule, reason
  <2>2. rule = "reached_request"
    BY <1>3, <1>5, <2>1 DEF RuleReason, StopRule, NoRule
  <2> QED
    BY <2>1, <2>2 DEF StopRule, NoRule
<1> QED
  BY <1>4, <1>5

LEMMA ReturnKeeps == ASSUME DriveInv, Return PROVE DriveInv'
<1>1. /\ call = "waiting" /\ call' = "over" /\ DropGuard
      /\ outcome' = [outcome |-> OutcomeOf(Summary(Facts, ItsEnd)), reason |-> Summary(Facts, ItsEnd).reason]
      /\ UNCHANGED <<ask, plan, profile, start, robot, server, wire, scan, inbox>>
  BY DEF Return, world
<1>2. /\ ask.distance \in Nat /\ plan.distance \in Nat /\ start \in Int /\ robot.room \in Int
      /\ guard.trip \in Trips /\ (plan.shortened \/ plan.distance = ask.distance) /\ Tolerance \in Nat
  BY <1>1, DriveAssumption DEF DriveInv, DriveTyped, AskTyped, PlanTyped, RobotTyped, Robots, GuardTyped, Guards
<1>3. /\ Facts.requested = ask.distance /\ Facts.travelled = Gone /\ Facts.shortened = plan.shortened
      /\ Facts.trip = guard.trip
  BY DEF Facts
<1>4. CompletedIsTravelled'
  <2> SUFFICES ASSUME OutcomeOf(Summary(Facts, ItsEnd)) = "completed"
               PROVE  Within10th(ask.distance - Gone, ask.distance)
    BY <1>1 DEF CompletedIsTravelled, Gone
  <2>1. CASE Reached(Facts)
    BY <1>3, <2>1 DEF Reached
  <2>2. CASE ~Reached(Facts) /\ StopRule(Facts) = NoRule /\ inbox = "succeeded"
    <3>1. ~Facts.shortened /\ Gone >= plan.distance
      BY <2>2 DEF StopRule, NoRule, DriveInv, LeftIsEnough
    <3>2. plan.distance = ask.distance
      BY <1>2, <1>3, <3>1
    <3>3. Gone \in Int
      BY <1>2 DEF Gone
    <3> QED
      BY <1>2, <3>1, <3>2, <3>3 DEF Within10th
  <2> QED
    BY <2>1, <2>2, CompletedWhy
<1>5. call # "idle" /\ wire' \in {wire, <<>>} /\ scan' \in {scan, Nothing}
  BY <1>1
<1> QED
  BY <1>1, <1>4, <1>5, OverKeeps

LEMMA DriveStill == ASSUME DriveInv, UNCHANGED driveVars PROVE DriveInv'
<1>1. UNCHANGED <<call, ask, plan, profile, start, robot, server, wire, scan, seen, guard, inbox, outcome>>
  BY DEF driveVars
<1>2. DriveTyped'
  BY <1>1 DEF DriveInv, DriveTyped, AskTyped, RobotTyped, WireTyped, ScanTyped, GuardTyped, CallTyped, PlanTyped
<1>3. (NothingYet /\ GoalsFirst /\ GoalsSlower /\ GuardIsSlower)'
  BY <1>1 DEF DriveInv, NothingYet, GoalsFirst, GoalsSlower, GuardIsSlower, IsGoal, Watched
<1>4. (CancelIsSent /\ SeenIsBehind)'
  BY <1>1 DEF DriveInv, CancelIsSent, SeenIsBehind, IsGoal, Watched
<1>5. (LeftIsEnough /\ CompletedIsTravelled)'
  BY <1>1 DEF DriveInv, LeftIsEnough, CompletedIsTravelled, IsGoal, Gone
<1> QED
  BY <1>2, <1>3, <1>4, <1>5 DEF DriveInv

LEMMA DriveKeeps == DriveInv /\ [DriveNext]_driveVars => DriveInv'
<1> SUFFICES ASSUME DriveInv, [DriveNext]_driveVars PROVE DriveInv'
  OBVIOUS
<1>1. CASE Begin
  BY <1>1, BeginKeeps
<1>2. CASE Tick
  BY <1>2, TickKeeps
<1>3. CASE Arrive
  BY <1>3, ArriveKeeps
<1>4. CASE ServerAborts
  BY <1>4, ServerAbortsKeeps
<1>5. CASE LinkDrops
  BY <1>5, LinkDropsKeeps
<1>6. CASE \E readable \in BOOLEAN : Receive(readable)
  BY <1>6, ReceiveKeeps
<1>7. CASE Result
  BY <1>7, ResultKeeps
<1>8. CASE Brake
  BY <1>8, BrakeKeeps
<1>9. CASE SlowDown
  BY <1>9, SlowDownKeeps
<1>10. CASE LookOn
  BY <1>10, LookOnKeeps
<1>11. CASE Leave
  BY <1>11, LeaveKeeps
<1>12. CASE Resume
  BY <1>12, ResumeKeeps
<1>13. CASE Return
  BY <1>13, ReturnKeeps
<1>14. CASE UNCHANGED driveVars
  BY <1>14, DriveStill
<1> QED
  BY <1>1, <1>2, <1>3, <1>4, <1>5, <1>6, <1>7, <1>8, <1>9, <1>10, <1>11, <1>12, <1>13, <1>14 DEF DriveNext

(* CompletedIsTravelled: a drive that invoke() reports completed went as far  *)
(* as it was asked to, within the tolerance odometry is read with, wherever   *)
(* the guard slowed it and whatever came of its scans.                       *)
THEOREM CompletedWasTravelled == DriveSpec => []CompletedIsTravelled
<1>1. DriveInit => DriveInv
  BY DriveStarts
<1>2. DriveInv /\ [DriveNext]_driveVars => DriveInv'
  BY DriveKeeps
<1>3. DriveInv => CompletedIsTravelled
  BY DEF DriveInv
<1> QED
  BY <1>1, <1>2, <1>3, PTL DEF DriveSpec

NotFaster == /\ server = "canceled" => robot'.target = 0
             /\ server = "driving" => robot'.target <= robot.target

LEMMA StepsSlower == DriveInv /\ [DriveNext]_driveVars => NotFaster
<1> SUFFICES ASSUME DriveInv, [DriveNext]_driveVars PROVE NotFaster
  OBVIOUS
<1>1. robot \in Robots /\ wire \in Seq(Commands) /\ (server = "canceled" => robot.target = 0)
  BY DEF DriveInv, DriveTyped, RobotTyped, WireTyped, GuardIsSlower
<1>2. robot.target \in Nat
  BY <1>1 DEF Robots
<1>3. CASE robot' = robot
  BY <1>1, <1>2, <1>3 DEF NotFaster
<1>4. CASE robot' = [robot EXCEPT !.target = 0, !.left = 0]
  BY <1>1, <1>2, <1>4, StopsInPlace DEF NotFaster
<1>5. CASE Tick
  <2>1. robot'.target = 0 \/ robot'.target = robot.target
    BY <1>5 DEF Tick
  <2> QED
    BY <1>1, <1>2, <2>1 DEF NotFaster
<1>6. CASE Arrive /\ Head(wire).op = "goal"
  <2> DEFINE c == Head(wire)
  <2>1. robot' = [robot EXCEPT !.target = c.speed, !.left = c.left] /\ wire # <<>>
    BY <1>6 DEF Arrive
  <2>2. c = wire[1] /\ 1 \in DOMAIN wire
    BY <1>1, <2>1
  <2>3. server # "canceled" /\ (server = "driving" => c.speed <= robot.target)
    BY <1>6, <2>2 DEF DriveInv, GoalsSlower, IsGoal
  <2> HIDE DEF c
  <2>4. robot'.target = c.speed
    BY <1>1, <2>1 DEF Robots
  <2> QED
    BY <2>3, <2>4 DEF NotFaster
<1>7. CASE Arrive /\ Head(wire).op # "goal"
  BY <1>4, <1>7 DEF Arrive
<1>8. CASE ServerAborts
  BY <1>4, <1>8 DEF ServerAborts
<1> QED
  BY <1>3, <1>5, <1>6, <1>7, <1>8
     DEF DriveNext, driveVars, Begin, LinkDrops, Receive, Result, Brake, SlowDown, LookOn, Looking, Leave, Resume,
         Return, world

(* NeverDrivenFaster: a stop that reached the robot is not undone by a goal   *)
(* sent before it, and no goal on the wire drives the robot faster than the   *)
(* one that runs.                                                            *)
THEOREM NoGoalIsFaster == DriveSpec => NeverDrivenFaster
<1>1. DriveInit => DriveInv
  BY DriveStarts
<1>2. DriveInv /\ [DriveNext]_driveVars => DriveInv'
  BY DriveKeeps
<1>3. DriveInv /\ [DriveNext]_driveVars => [NotFaster]_driveVars
  BY StepsSlower
<1> QED
  BY <1>1, <1>2, <1>3, PTL DEF DriveSpec, NeverDrivenFaster, NotFaster

-----------------------------------------------------------------------------
(* The floor of a drive whose server is sent one goal.                       *)

(* The room in which a robot of a drive can stop n ticks from now.           *)
Need(n) == 2 * plan.speed * n + plan.speed * plan.speed
Latest  == Delay + React

Setting == start \in Rooms /\ profile \in BrakingProfiles /\ ask \in Asks

AtRest == call = "idle" => /\ robot.v = 0 /\ robot.target = 0 /\ ~looked /\ ~alone
                           /\ seen.v = 0 /\ seen.age = 0 /\ server = "none"

(* A command that was sent later is younger.                                 *)
AgesFall == /\ \A i, j \in DOMAIN wire : i < j => wire[j].age <= wire[i].age
            /\ \A i \in DOMAIN wire : wire[i].age <= Latest

(* A drive that is sent one goal: what the host, the wire and the robot hold. *)
OneGoal ==
    /\ call \in {"waiting", "left"} =>
          /\ guard.speed = plan.speed /\ guard.slowTo = Nothing /\ ~guard.resends
          /\ plan.speed > 0 /\ seen.v <= plan.speed
    /\ \A i \in DOMAIN wire : IsGoal(i) =>
          i = 1 /\ server = "none" /\ wire[i].speed = plan.speed /\ wire[i].left = plan.distance
    /\ server = "none" => robot.v = 0 /\ robot.target = 0 /\ robot.room = start
    /\ server = "driving" => robot.target = plan.speed /\ robot.left >= 0
    /\ server \in Ends => robot.target = 0
    /\ robot.v <= plan.speed /\ (scan # Nothing => scan.v <= plan.speed)
    /\ plan.speed <= ask.speed
    /\ Sensed(start) # Open => plan.distance + StoppingDistance(profile, plan.speed) <= start

(* The plan of a drive that saw an obstacle ends where the robot can stop.   *)
PlanIsSafe ==
    Sensed(start) # Open =>
        /\ server = "driving" => robot.left + StoppingDistance(profile, plan.speed) <= robot.room
        /\ server \in Ends => robot.v * robot.v <= robot.room

(* Somebody waits: the robot can stop for whatever the next look finds.      *)
StopOnTheWay == \E i \in DOMAIN wire : ~IsGoal(i) /\ Need(Latest - wire[i].age) <= robot.room

RoomAhead ==
    /\ guard.trip = NoTrip => Need(Latest + IF looked THEN 1 ELSE 0) <= robot.room
    /\ guard.trip # NoTrip /\ ~guard.stopSent => ~looked /\ Need(Latest) <= robot.room
    /\ guard.stopSent => StopOnTheWay

SeenRoom ==
    /\ Sensed(seen.room) = Open \/ StoppingDistance(profile, plan.speed) <= seen.room
    /\ seen.room - 2 * plan.speed * (seen.age + Delay) <= robot.room
    /\ seen.age \in Nat /\ seen.age <= OldestAge /\ (looked => seen.age < OldestAge)

WatchIsSafe ==
    ~alone =>
        /\ call # "left"
        /\ call = "over" => server # "driving" /\ \A i \in DOMAIN wire : ~IsGoal(i)
        /\ server \in Ends => robot.v * robot.v <= robot.room
        /\ call = "waiting" =>
              /\ inbox # Nothing => server \in Ends
              /\ server = "none" => wire # <<>> /\ IsGoal(1)
              /\ scan # Nothing => scan.age <= Delay /\ scan.room - 2 * plan.speed * scan.age <= robot.room
              /\ server \notin Ends => RoomAhead
              /\ guard.trip = NoTrip => SeenRoom

FloorInv == /\ Setting /\ AtRest /\ AgesFall
            /\ (call # "idle" /\ ~plan.resends) => OneGoal /\ PlanIsSafe /\ WatchIsSafe

-----------------------------------------------------------------------------
LEMMA ProductGrows ==
  ASSUME NEW a \in Nat, NEW x \in Int, NEW y \in Int, x <= y
  PROVE  a * x <= a * y /\ a * x \in Int /\ a * y \in Int
<1>1. PICK d \in Nat : y = x + d
  <2>1. y - x \in Nat /\ y = x + (y - x)
    OBVIOUS
  <2> QED
    BY <2>1
<1>2. a * d \in Nat /\ a * y = a * x + a * d
  BY <1>1
<1>3. a * x \in Int
  OBVIOUS
<1> QED
  BY <1>2, <1>3

LEMMA SquareGrows ==
  ASSUME NEW a \in Nat, NEW b \in Nat, a <= b
  PROVE  a * a <= b * b /\ a * a \in Nat /\ b * b \in Nat
<1>1. a * a <= a * b /\ b * a <= b * b
  BY ProductGrows
<1>2. a * b = b * a /\ a * a \in Nat /\ b * b \in Nat /\ a * b \in Nat
  OBVIOUS
<1> QED
  BY <1>1, <1>2

(* What stopping n ticks from now takes.                                     *)
LEMMA NeedGrows ==
  ASSUME plan.speed \in Nat, NEW m \in Int, NEW n \in Int, m <= n
  PROVE  /\ Need(m) \in Int /\ Need(n) \in Int /\ Need(m) <= Need(n)
         /\ Need(n + 1) = Need(n) + 2 * plan.speed
         /\ 0 <= m => plan.speed * plan.speed <= Need(m)
<1> DEFINE s == plan.speed
           q == s * s
<1>1. s \in Nat /\ q \in Nat
  OBVIOUS
<1>2. 2 * s \in Nat
  BY <1>1
<1> DEFINE w == 2 * s
<1> HIDE DEF s, q
<1>3. Need(m) = w * m + q /\ Need(n) = w * n + q /\ Need(n + 1) = w * (n + 1) + q
  BY DEF Need, s, q
<1> HIDE DEF w
<1>4. w \in Nat
  BY <1>2 DEF w
<1>5. w * m <= w * n /\ w * m \in Int /\ w * n \in Int
  BY <1>4, ProductGrows
<1>6. w * (n + 1) = w * n + w
  BY <1>4
<1>7. 0 <= m => 0 <= w * m
  BY <1>4, ProductGrows
<1> QED
  BY <1>1, <1>3, <1>4, <1>5, <1>6, <1>7 DEF w, s, q

(* The latency the guard reckons with covers a scan that is late and a        *)
(* command that is late, with what the age of a scan is credited for.        *)
LEMMA ProfileCovers ==
  ASSUME FloorAssumption, NEW p \in BrakingProfiles
  PROVE  /\ p.latency \in Nat /\ p.credit \in Int /\ Delay \in Nat /\ React \in Nat /\ Latest \in Nat
         /\ p.latency >= 2 + Delay + Latest
         /\ p.latency - p.credit >= Delay + Latest
<1>1. PICK measured \in Measured : p = ResolveProfile(Configured, DriveBudget, measured)
  BY DEF BrakingProfiles
<1>2. /\ Configured \in Nat /\ Period \in Nat /\ Delay \in Nat /\ React \in Nat
      /\ measured \in BOOLEAN /\ Period >= 2
  BY DriveAssumption
<1> DEFINE total == BudgetTotal(DriveBudget)
           larger == Max({Configured, total})
           rest == total - DriveBudget.period
           inner == Min({DriveBudget.period, larger - rest})
           credit == Max({0, inner})
<1>3. /\ total \in Nat /\ total = Period + Delay + Latest /\ DriveBudget.period = Period
      /\ rest = Delay + Latest /\ Latest \in Nat
  BY <1>2 DEF BudgetTotal, DriveBudget, Latest
<1>4. larger \in Nat /\ larger >= total
  <2> HIDE DEF total
  <2> QED
    BY <1>2, <1>3, MaxOfTwo
<1> HIDE DEF total, larger, rest
<1>5. inner \in Int /\ inner <= larger - rest
  BY <1>2, <1>3, <1>4, MinOfTwo
<1> HIDE DEF inner
<1>6. credit \in Int /\ credit <= larger - rest
  BY <1>2, <1>3, <1>4, <1>5, MaxOfTwo
<1> HIDE DEF credit
<1>7. CASE measured
  <2>1. p = [latency |-> larger, credit |-> credit]
    BY <1>1, <1>7 DEF ResolveProfile, larger, rest, inner, credit, total
  <2>2. p.latency = larger /\ p.credit = credit
    BY <2>1
  <2> QED
    BY <1>2, <1>3, <1>4, <1>6, <2>2
<1>8. CASE ~measured
  <2>1. p = [latency |-> Configured, credit |-> 0]
    BY <1>1, <1>8 DEF ResolveProfile
  <2>2. p.latency = Configured /\ p.credit = 0 /\ Configured >= total
    BY <1>8, <2>1 DEF FloorAssumption, total
  <2> QED
    BY <1>2, <1>3, <2>2
<1> QED
  BY <1>7, <1>8

(* The stopping distance of the drive's speed is what Need is for the latency. *)
LEMMA StoppingIsNeed ==
  ASSUME FloorAssumption, profile \in BrakingProfiles, plan.speed \in Nat
  PROVE  /\ StoppingDistance(profile, plan.speed) = Need(profile.latency)
         /\ Need(2 + Delay + Latest) <= StoppingDistance(profile, plan.speed)
         /\ plan.speed * plan.speed + 2 * plan.speed <= StoppingDistance(profile, plan.speed)
         /\ StoppingDistance(profile, plan.speed) \in Nat
<1>1. /\ profile.latency \in Nat /\ Delay \in Nat /\ Latest \in Nat
      /\ profile.latency >= 2 + Delay + Latest
  BY ProfileCovers
<1>2. StoppingDistance(profile, plan.speed) = Need(profile.latency)
  BY DEF StoppingDistance, Need
<1>3. Need(2 + Delay + Latest) <= Need(profile.latency)
  BY <1>1, NeedGrows
<1>4. Need(1) <= Need(profile.latency) /\ Need(profile.latency) \in Int /\ 0 <= 1
  BY <1>1, NeedGrows
<1>5. plan.speed * plan.speed \in Nat /\ Need(1) = plan.speed * plan.speed + 2 * plan.speed
  BY DEF Need
<1> QED
  BY <1>2, <1>3, <1>4, <1>5

LEMMA NeedShifts ==
  ASSUME plan.speed \in Nat, NEW n \in Int, NEW k \in Int
  PROVE  Need(n + k) = Need(n) + 2 * plan.speed * k /\ 2 * plan.speed * k \in Int /\ Need(n) \in Int
BY DEF Need

(* A way in which a scan sees nothing is long enough for a scan that is as    *)
(* old as any may become.                                                    *)
LEMMA SightIsFar ==
  ASSUME FloorAssumption, ask \in Asks, plan.speed \in Nat, plan.speed <= ask.speed
  PROVE  Need(Policy.ceiling + 1 + Delay + Latest) <= Horizon
<1> DEFINE s == plan.speed
           a == ask.speed
           n == Policy.ceiling + 1 + 2 * Delay + React
<1>1. /\ a \in Nat /\ s \in Nat /\ s <= a /\ Policy.ceiling \in Nat /\ Delay \in Nat /\ React \in Nat
      /\ Horizon \in Nat
  BY DriveAssumption
<1>2. n \in Nat /\ Policy.ceiling + 1 + Delay + Latest = n
  BY <1>1 DEF Latest
<1>3. 2 * a * n + a * a <= Horizon
  BY DEF FloorAssumption
<1>4. Need(n) = 2 * s * n + s * s
  BY DEF Need
<1> HIDE DEF s, a, n
<1>5. n * (2 * s) <= n * (2 * a) /\ n * (2 * s) \in Int /\ n * (2 * a) \in Int
  <2>1. 2 * s \in Int /\ 2 * a \in Int /\ 2 * s <= 2 * a
    BY <1>1
  <2> QED
    BY <1>2, <2>1, ProductGrows
<1>6. s * s <= a * a /\ s * s \in Nat /\ a * a \in Nat
  BY <1>1, SquareGrows
<1>7. n * (2 * s) = 2 * s * n /\ n * (2 * a) = 2 * a * n
  BY <1>1, <1>2
<1> QED
  BY <1>1, <1>2, <1>3, <1>4, <1>5, <1>6, <1>7

LEMMA RateIsBounded == RateLimit(Policy, Policy.configured, Period, Period) <= Policy.ceiling
                       /\ RateLimit(Policy, Policy.configured, Period, Period) \in Int
<1> DEFINE a == Policy.configured
           b == Policy.missed * Period
           c == Policy.worst * Period
           m == Max({a, b, c})
<1>1. /\ Policy.configured \in Nat /\ Policy.missed \in Nat /\ Policy.worst \in Nat
      /\ Policy.ceiling \in Nat /\ Period \in Nat
  BY DriveAssumption
<1>2. a \in Int /\ b \in Int /\ c \in Int
  BY <1>1
<1>3. RateLimit(Policy, Policy.configured, Period, Period) = Min({Policy.ceiling, m})
  BY DEF RateLimit
<1> HIDE DEF a, b, c
<1>4. m \in Int
  <2>1. IsFiniteSet({a, b, c})
    <3>1. IsFiniteSet({a}) /\ {a, b} = {a} \cup {b} /\ {a, b, c} = {a, b} \cup {c}
      BY FS_Singleton
    <3>2. IsFiniteSet({a, b})
      BY <3>1, FS_AddElement
    <3> QED
      BY <3>1, <3>2, FS_AddElement
  <2>2. {a, b, c} # {} /\ {a, b, c} \subseteq Int
    BY <1>2
  <2> DEFINE S == {a, b, c}
  <2> HIDE DEF S
  <2>3. Max(S) \in S
    BY <2>1, <2>2, MaxIsLargest DEF S
  <2> QED
    BY <2>2, <2>3 DEF S
<1> HIDE DEF m
<1> QED
  BY <1>1, <1>3, <1>4, MinOfTwo

(* A look that does not find the scan too old leaves the robot the room for   *)
(* one tick more, and the command after it.                                  *)
LEMMA LookLasts ==
  ASSUME FloorAssumption, DriveInv, Setting, OneGoal, SeenRoom, call = "waiting",
         guard.trip = NoTrip, Fresh.trip = NoTrip
  PROVE  seen.age < OldestAge /\ Need(Latest + 1) <= robot.room
<1> DEFINE s == plan.speed
           age == seen.age
           room == seen.room
           R == robot.room
           rate == RateLimit(Policy, Policy.configured, Period, Period)
           stop == StoppingDistance(profile, s)
<1>1. /\ s \in Nat /\ s > 0 /\ guard.speed = s /\ seen.v \in Int /\ seen.v <= s /\ age \in Nat
      /\ room \in Int /\ R \in Int
  BY DEF OneGoal, SeenRoom, DriveInv, DriveTyped, PlanTyped, ScanTyped, Sights, RobotTyped, Robots
<1>2. Faster(seen.v) = s
  BY <1>1, MaxOfTwo DEF Faster
<1>3. /\ Poll = 1 /\ Policy.ceiling \in Nat /\ Poll <= Policy.ceiling /\ Policy.ceiling < OldestAge
      /\ OldestAge \in Nat /\ Policy.floorBound /\ Horizon \in Nat /\ Horizon < Open /\ Open \in Nat
  BY DriveAssumption DEF FloorAssumption
<1>4. rate \in Int /\ rate <= Policy.ceiling
  BY RateIsBounded
<1>5. ~(age > Poll /\ Stale(Policy, rate, profile, Sensed(room), s, Poll, age))
  <2>1. Trip(guard, "stale").trip # NoTrip
    <3>1. guard \in Guards /\ "stale" \in Trips /\ "stale" # NoTrip
      BY DriveAssumption DEF DriveInv, DriveTyped, GuardTyped, Trips
    <3> QED
      BY <3>1, TripOnly
  <2> QED
    BY <1>2, <2>1 DEF Fresh
<1>6. age <= Policy.ceiling
  BY <1>1, <1>3, <1>4, <1>5 DEF Stale
<1>7. /\ profile.latency \in Nat /\ profile.credit \in Int /\ Delay \in Nat /\ Latest \in Nat
      /\ profile.latency - profile.credit >= Delay + Latest
  BY ProfileCovers DEF Setting
<1>8. room - 2 * s * (age + Delay) <= R /\ 2 * s * (age + Delay) \in Int
  BY <1>1, <1>7 DEF SeenRoom
<1>9. Need(Latest + 1 + (age + Delay)) = Need(Latest + 1) + 2 * s * (age + Delay) /\ Need(Latest + 1) \in Int
  <2> DEFINE n == Latest + 1
             k == age + Delay
  <2>1. n \in Int /\ k \in Int /\ plan.speed \in Nat
    BY <1>1, <1>7
  <2> HIDE DEF n, k
  <2>2. Need(n + k) = Need(n) + 2 * plan.speed * k /\ Need(n) \in Int
    BY <2>1, NeedShifts
  <2> QED
    BY <2>2 DEF n, k
<1>10. Need(Latest + 1 + (age + Delay)) <= room
  <2>1. CASE Sensed(room) = Open
    <3>1. room > Horizon
      BY <1>1, <1>3, <2>1 DEF Sensed
    <3>2. Need(Policy.ceiling + 1 + Delay + Latest) <= Horizon
      BY <1>1, SightIsFar DEF Setting, OneGoal
    <3>3. /\ Need(Latest + 1 + (age + Delay)) <= Need(Policy.ceiling + 1 + Delay + Latest)
          /\ Need(Latest + 1 + (age + Delay)) \in Int /\ Need(Policy.ceiling + 1 + Delay + Latest) \in Int
      <4>1. /\ Latest + 1 + (age + Delay) <= Policy.ceiling + 1 + Delay + Latest
            /\ Latest + 1 + (age + Delay) \in Int /\ Policy.ceiling + 1 + Delay + Latest \in Int
        BY <1>1, <1>3, <1>6, <1>7
      <4> QED
        BY <1>1, <4>1, NeedGrows
    <3> QED
      BY <1>1, <1>3, <3>1, <3>2, <3>3
  <2>2. CASE Sensed(room) # Open /\ age <= Poll
    <3>1. stop <= room /\ Need(2 + Delay + Latest) <= stop /\ stop \in Nat
      BY <1>1, <2>2, StoppingIsNeed DEF SeenRoom, Setting
    <3>2. /\ Need(Latest + 1 + (age + Delay)) <= Need(2 + Delay + Latest)
          /\ Need(Latest + 1 + (age + Delay)) \in Int /\ Need(2 + Delay + Latest) \in Int
      <4>1. /\ Latest + 1 + (age + Delay) <= 2 + Delay + Latest
            /\ Latest + 1 + (age + Delay) \in Int /\ 2 + Delay + Latest \in Int
        BY <1>1, <1>3, <1>7, <2>2
      <4> QED
        BY <1>1, <4>1, NeedGrows
    <3> QED
      BY <1>1, <3>1, <3>2
  <2>3. CASE Sensed(room) # Open /\ age > Poll
    <3> DEFINE k == age - profile.credit + 1
               l == profile.latency
    <3>1. Sensed(room) = room
      BY <2>3 DEF Sensed
    <3>2. 2 * s * k <= room - stop
      BY <1>1, <1>3, <1>5, <1>7, <2>3, <3>1 DEF Stale, PastFloorBound, StoppingDistance
    <3>3. stop = Need(l) /\ stop \in Nat
      BY <1>1, StoppingIsNeed DEF Setting
    <3>4. Need(l + k) = Need(l) + 2 * s * k /\ 2 * s * k \in Int
      <4>1. l \in Int /\ k \in Int /\ plan.speed \in Nat
        BY <1>1, <1>7
      <4> HIDE DEF l, k
      <4> QED
        BY <4>1, NeedShifts
    <3>5. Need(Latest + 1 + (age + Delay)) <= Need(l + k) /\ Need(Latest + 1 + (age + Delay)) \in Int
      <4>1. l + k \in Int /\ Latest + 1 + (age + Delay) \in Int /\ Latest + 1 + (age + Delay) <= l + k
        BY <1>1, <1>7
      <4> QED
        BY <1>1, <4>1, NeedGrows
    <3> HIDE DEF stop, k, l
    <3> QED
      BY <1>1, <3>2, <3>3, <3>4, <3>5
  <2> QED
    BY <1>1, <1>3, <2>1, <2>2, <2>3
<1> HIDE DEF R, room
<1>11. Need(Latest + 1) <= R
  BY <1>1, <1>8, <1>9, <1>10
<1> QED
  BY <1>3, <1>1, <1>6, <1>11 DEF R

-----------------------------------------------------------------------------
LEMMA StoppingGrows ==
  ASSUME NEW p \in Profile, NEW v \in Nat, NEW w \in Nat, v <= w
  PROVE  /\ StoppingDistance(p, v) <= StoppingDistance(p, w)
         /\ StoppingDistance(p, v) \in Nat /\ StoppingDistance(p, w) \in Nat
<1>1. p.latency \in Nat
  BY DEF Profile
<1> DEFINE l == p.latency
<1> HIDE DEF l
<1>2. l \in Nat
  BY <1>1 DEF l
<1>3. l * (2 * v) <= l * (2 * w) /\ l * (2 * v) \in Nat /\ l * (2 * w) \in Nat
  <2>1. 2 * v \in Nat /\ 2 * w \in Nat /\ 2 * v <= 2 * w
    OBVIOUS
  <2>2. l * (2 * v) <= l * (2 * w)
    BY <1>2, <2>1, ProductGrows
  <2> QED
    BY <1>2, <2>1, <2>2
<1>4. v * v <= w * w /\ v * v \in Nat /\ w * w \in Nat
  BY SquareGrows
<1>5. l * (2 * v) = 2 * v * l /\ l * (2 * w) = 2 * w * l
  BY <1>2
<1>6. StoppingDistance(p, v) = 2 * v * l + v * v /\ StoppingDistance(p, w) = 2 * w * l + w * w
  BY DEF StoppingDistance, l
<1> QED
  BY <1>3, <1>4, <1>5, <1>6

(* At the fastest speed that fits the robot stops in the room there is.      *)
LEMMA MaxSpeedFits ==
  ASSUME NEW p \in Profile, NEW room \in Nat, room # Open
  PROVE  StoppingDistance(p, MaxSpeed(p, room)) <= room
<1>0. TopSpeed \in Nat /\ StoppingDistance(p, 0) = 0
  BY DriveAssumption DEF StoppingDistance, Profile
<1>1. CASE room <= 0
  BY <1>0, <1>1 DEF MaxSpeed
<1>2. CASE ~(room <= 0)
  <2> DEFINE fits == {v \in 0..TopSpeed : StoppingDistance(p, v) <= room}
  <2>1. 0 \in fits
    BY <1>0, <1>2
  <2>2. IsFiniteSet(fits) /\ fits \subseteq Int
    <3>1. IsFiniteSet(0..TopSpeed)
      BY <1>0, FS_Interval
    <3>2. fits \subseteq 0..TopSpeed /\ fits \subseteq Int
      OBVIOUS
    <3> HIDE DEF fits
    <3> QED
      BY <3>1, <3>2, FS_Subset
  <2>3. MaxSpeed(p, room) = Max(fits)
    BY <1>2 DEF MaxSpeed
  <2>4. \A v \in fits : StoppingDistance(p, v) <= room
    OBVIOUS
  <2> HIDE DEF fits
  <2> QED
    BY <2>1, <2>2, <2>3, <2>4, MaxIsLargest
<1> QED
  BY <1>1, <1>2

(* A drive that is sent one goal is planned to end where the robot can stop.  *)
LEMMA PlannedStops ==
  ASSUME DriveInv, Setting, call = "idle", ~guard.resends
  PROVE  /\ Planned.speed <= ask.speed /\ (~Planned.refused => Planned.speed >= MinSpeed)
         /\ Sensed(start) # Open =>
               /\ Planned.distance + StoppingDistance(profile, Planned.speed) <= start
               /\ StoppingDistance(profile, Planned.speed) \in Nat
<1> DEFINE view == Sensed(seen.room)
           asked == ask.distance
           fastest == MaxSpeed(profile, view)
           speed == AtMost((4 * fastest) \div 5, ask.speed)
           room == view - StoppingDistance(profile, speed)
           distance == IF guard.resends \/ view = Open THEN asked ELSE AtMost(room, asked)
<1>01. ask.speed \in Nat /\ asked \in Nat /\ start \in Nat /\ start # Open /\ MinSpeed \in Nat
  <2>1. ask \in Asks /\ start \in Rooms
    BY DEF Setting
  <2>2. ask \in [speed : Nat, distance : Nat] /\ start \in Nat /\ start < Open /\ Open \in Nat /\ MinSpeed \in Nat
    BY <2>1, DriveAssumption
  <2> QED
    BY <2>2
<1>02. profile \in Profile /\ seen.room = start
  BY DEF DriveInv, DriveTyped, AskTyped, NothingYet
<1>1. /\ ask.speed \in Nat /\ asked \in Nat /\ profile \in Profile /\ seen.room = start /\ start \in Nat
      /\ start # Open /\ MinSpeed \in Nat
  BY <1>01, <1>02
<1>2. view \in Int /\ (Sensed(start) # Open => view = start)
  BY <1>1, DriveAssumption DEF Sensed
<1>3. Planned = WithDistance(speed, asked, guard.resends, distance)
  BY DEF Planned, PlanDrive, WithSpeed
<1>4. /\ Planned.speed = speed /\ Planned.distance = Max({0, distance})
      /\ ~Planned.refused => ~(speed < MinSpeed)
  BY <1>3 DEF WithDistance
<1>5. view = Sensed(start)
  BY <1>1
<1> HIDE DEF view
<1>6. fastest \in Nat
  BY <1>1, <1>2, MaxSpeedType
<1>7. (4 * fastest) \div 5 \in Nat /\ (4 * fastest) \div 5 <= fastest
  <2> HIDE DEF fastest
  <2> QED
    BY <1>6
<1>8. speed \in Nat /\ speed <= ask.speed /\ speed <= fastest
  <2> DEFINE fit == (4 * fastest) \div 5
  <2>1. fit \in Nat /\ fit <= fastest /\ speed = AtMost(fit, ask.speed)
    BY <1>7
  <2> HIDE DEF fit, fastest, speed
  <2> QED
    BY <1>1, <1>6, <2>1 DEF AtMost
<1>9. ASSUME Sensed(start) # Open
      PROVE  /\ Planned.distance + StoppingDistance(profile, speed) <= start
             /\ StoppingDistance(profile, speed) \in Nat
  <2>1. view = start /\ view # Open
    BY <1>1, <1>2, <1>9
  <2>2. StoppingDistance(profile, fastest) <= start
    BY <1>1, <2>1, MaxSpeedFits
  <2> HIDE DEF fastest, speed
  <2>3. /\ StoppingDistance(profile, speed) <= StoppingDistance(profile, fastest)
        /\ StoppingDistance(profile, speed) \in Nat /\ StoppingDistance(profile, fastest) \in Nat
    BY <1>1, <1>6, <1>8, StoppingGrows
  <2>4. distance = AtMost(room, asked) /\ room = start - StoppingDistance(profile, speed)
    BY <2>1
  <2> HIDE DEF distance, room
  <2>5. room \in Nat
    BY <1>1, <2>2, <2>3, <2>4
  <2>6. distance \in Nat /\ distance <= room
    BY <1>1, <2>4, <2>5 DEF AtMost
  <2>7. Max({0, distance}) = distance
    BY <2>6, MaxOfTwo
  <2> QED
    BY <1>1, <1>4, <2>3, <2>4, <2>5, <2>6, <2>7
<1> QED
  BY <1>1, <1>4, <1>8, <1>9

-----------------------------------------------------------------------------
Fixed == call # "idle" /\ ~plan.resends

LEMMA FloorStarts == DriveInit => FloorInv
<1> SUFFICES ASSUME DriveInit PROVE FloorInv
  OBVIOUS
<1>1. Setting
  BY DEF DriveInit, Setting
<1>2. /\ call = "idle" /\ robot = [room |-> start, v |-> 0, target |-> 0, left |-> 0] /\ looked = FALSE
      /\ alone = FALSE /\ seen = [room |-> start, v |-> 0, age |-> 0] /\ server = "none" /\ wire = <<>>
  BY DEF DriveInit
<1>3. AtRest
  BY <1>2 DEF AtRest
<1>4. DOMAIN wire = {}
  BY <1>2
<1>5. AgesFall
  BY <1>4 DEF AgesFall
<1> QED
  BY <1>1, <1>2, <1>3, <1>5 DEF FloorInv

(* The room a drive may start in is enough for a command that is late.       *)
LEMMA RoomAtStart ==
  ASSUME FloorAssumption, ask \in Asks, profile \in BrakingProfiles, NEW s \in Nat, s <= ask.speed,
         NEW room \in Nat, Sensed(room) # Open => StoppingDistance(profile, s) <= room
  PROVE  2 * s * Latest + s * s <= room /\ 0 <= 2 * s * Delay /\ 2 * s * Delay \in Int
<1> DEFINE a == ask.speed
           n == Policy.ceiling + 1 + 2 * Delay + React
           w == 2 * s
           l == profile.latency
<1>1. /\ a \in Nat /\ s <= a /\ Policy.ceiling \in Nat /\ Delay \in Nat /\ React \in Nat
      /\ Horizon \in Nat /\ Latest \in Nat /\ Latest <= n /\ n \in Nat /\ Latest = Delay + React
      /\ Horizon < Open /\ Open \in Nat
  BY DriveAssumption DEF Latest
<1>2. 2 * a * n + a * a <= Horizon
  BY DEF FloorAssumption
<1>3. l \in Nat /\ Latest <= l
  BY <1>1, ProfileCovers
<1>4. w \in Nat /\ w * Latest = 2 * s * Latest /\ w * Delay = 2 * s * Delay /\ w * l = 2 * s * l
  BY <1>1, <1>3
<1>5. StoppingDistance(profile, s) = 2 * s * l + s * s
  BY DEF StoppingDistance
<1> HIDE DEF a, w, n, l
<1>6. s * s <= a * a /\ s * s \in Nat /\ a * a \in Nat
  BY <1>1, SquareGrows
<1>7. w * 0 <= w * Delay /\ w * Delay \in Int /\ w * Latest <= w * l /\ w * Latest \in Int /\ w * l \in Int
  BY <1>1, <1>3, <1>4, ProductGrows
<1>8. w * Latest <= w * n /\ w * n \in Int
  BY <1>1, <1>4, ProductGrows
<1>9. n * w <= n * (2 * a) /\ n * w \in Int /\ n * (2 * a) \in Int
  <2>1. w \in Int /\ 2 * a \in Int /\ w <= 2 * a
    BY <1>1 DEF w
  <2> QED
    BY <1>1, <2>1, ProductGrows
<1>10. n * w = w * n /\ n * (2 * a) = 2 * a * n /\ w * 0 = 0
  BY <1>1, <1>4
<1>11. CASE Sensed(room) = Open
  <2>1. room > Horizon
    BY <1>1, <1>11 DEF Sensed
  <2> QED
    BY <1>1, <1>2, <1>4, <1>6, <1>7, <1>8, <1>9, <1>10, <2>1
<1>12. CASE Sensed(room) # Open
  BY <1>4, <1>5, <1>6, <1>7, <1>10, <1>12
<1> QED
  BY <1>11, <1>12

LEMMA BeginFloor ==
  ASSUME FloorAssumption, DriveInv, FloorInv, DriveInv', Begin
  PROVE  FloorInv'
<1>1. /\ call = "idle" /\ plan' = Planned /\ call' \in {"over", "waiting"}
      /\ UNCHANGED <<ask, profile, start, robot, server, scan, seen, looked, inbox, alone>>
  BY DEF Begin
<1>2. /\ Setting /\ ~alone /\ ~looked /\ robot.v = 0 /\ robot.target = 0 /\ seen.v = 0 /\ seen.age = 0
      /\ wire = <<>> /\ server = "none" /\ scan = Nothing /\ inbox = Nothing /\ guard.trip = NoTrip
      /\ guard.slowTo = Nothing /\ ~guard.stopSent /\ robot.room = start /\ seen.room = start
  BY <1>1 DEF DriveInv, FloorInv, AtRest, NothingYet
<1>3. Setting' /\ AtRest'
  BY <1>1, <1>2 DEF Setting, AtRest
<1>4. /\ Delay \in Nat /\ React \in Nat /\ Latest \in Nat /\ OldestAge \in Nat /\ 0 < OldestAge
      /\ MinSpeed \in Nat /\ MinSpeed > 0 /\ Horizon \in Nat /\ Horizon < Open /\ Open \in Nat
      /\ start \in Nat /\ start < Open /\ Policy.ceiling \in Nat
  BY <1>2, DriveAssumption DEF Latest, Setting
<1>5. \/ call' = "over" /\ wire' = <<>> /\ guard' = guard
      \/ /\ call' = "waiting" /\ ~plan'.refused /\ guard' = [guard EXCEPT !.speed = plan'.speed]
         /\ wire' = <<DriveGoal(plan'.speed, plan'.distance)>>
  BY <1>2 DEF Begin
<1> DEFINE goal == DriveGoal(plan'.speed, plan'.distance)
<1>6. goal.op = "goal" /\ goal.speed = plan'.speed /\ goal.left = plan'.distance /\ goal.age = 0
  BY DEF DriveGoal, Command
<1> HIDE DEF goal
<1>7. (call' = "over" /\ DOMAIN wire' = {}) \/ (call' = "waiting" /\ DOMAIN wire' = {1} /\ wire'[1] = goal)
  BY <1>5 DEF goal
<1>8. AgesFall'
  BY <1>4, <1>6, <1>7 DEF AgesFall
<1>9. plan'.speed \in Nat /\ plan'.distance \in Nat
  BY <1>1, PlannedType
<1>10. ASSUME Fixed' PROVE (OneGoal /\ PlanIsSafe /\ WatchIsSafe)'
  <2>1. ~guard.resends
    <3>1. Planned.resends = guard.resends
      BY DEF Planned, PlanDrive, WithSpeed, WithDistance
    <3> QED
      BY <1>1, <1>10, <3>1 DEF Fixed
  <2>2. /\ plan'.speed <= ask.speed /\ (~plan'.refused => plan'.speed >= MinSpeed)
        /\ Sensed(start) # Open =>
               /\ plan'.distance + StoppingDistance(profile, plan'.speed) <= start
               /\ StoppingDistance(profile, plan'.speed) \in Nat
    BY <1>1, <1>2, <2>1, PlannedStops
  <2>3. ask.speed \in Nat /\ profile \in BrakingProfiles /\ guard \in Guards
    BY <1>2, DriveAssumption DEF Setting, DriveInv, DriveTyped, GuardTyped, AskTyped
  <2>4. call' = "waiting" => /\ guard'.speed = plan'.speed /\ guard'.slowTo = Nothing
                             /\ guard'.trip = NoTrip /\ ~guard'.stopSent /\ ~guard'.resends
    BY <1>2, <1>5, <2>1, <2>3 DEF Guards
  <2>5. "none" \notin Ends /\ "none" # "driving"
    BY DEF Ends
  <2>6. OneGoal'
    <3>1. call' = "waiting" => plan'.speed > 0 /\ seen'.v <= plan'.speed
      BY <1>1, <1>2, <1>4, <1>5, <1>9, <2>2
    <3>2. \A i \in DOMAIN wire' : /\ i = 1 /\ wire'[i].speed = plan'.speed
                                  /\ wire'[i].left = plan'.distance
      BY <1>6, <1>7
    <3> QED
      BY <1>1, <1>2, <1>9, <2>2, <2>4, <2>5, <3>1, <3>2 DEF OneGoal, Sensed, StoppingDistance
  <2>7. PlanIsSafe'
    BY <1>1, <1>2, <2>5 DEF PlanIsSafe
  <2>8. call' = "waiting" => RoomAhead' /\ SeenRoom'
    <3> SUFFICES ASSUME call' = "waiting" PROVE RoomAhead' /\ SeenRoom'
      OBVIOUS
    <3> DEFINE s == plan'.speed
               stop == StoppingDistance(profile, s)
    <3>1. s \in Nat /\ s <= ask.speed /\ (Sensed(start) # Open => stop <= start)
      BY <1>4, <1>9, <2>2
    <3>2. 2 * s * Latest + s * s <= start /\ 0 <= 2 * s * Delay /\ 2 * s * Delay \in Int
      <4>1. ask \in Asks /\ profile \in BrakingProfiles /\ start \in Nat
        BY <1>2, <1>4 DEF Setting
      <4> HIDE DEF s
      <4> QED
        BY <3>1, <4>1, RoomAtStart DEF s
    <3>3. guard'.trip = NoTrip /\ ~guard'.stopSent /\ ~looked' /\ robot'.room = start
      BY <1>1, <1>2, <2>4
    <3>4. Need(Latest + IF looked THEN 1 ELSE 0)' = 2 * s * Latest + s * s
      BY <1>4, <3>3 DEF Need
    <3> HIDE DEF s
    <3>5. RoomAhead'
      BY <3>2, <3>3, <3>4 DEF RoomAhead
    <3>6. seen'.room = start /\ seen'.age = 0
      BY <1>1, <1>2
    <3>7. SeenRoom'
      <4>1. Sensed(seen'.room) = Open \/ StoppingDistance(profile', plan'.speed) <= seen'.room
        BY <1>1, <3>1, <3>6 DEF s
      <4>2. seen'.room - 2 * plan'.speed * (seen'.age + Delay) <= robot'.room
        <5>1. seen'.age + Delay = Delay
          BY <1>4, <3>6
        <5> QED
          BY <1>4, <3>2, <3>3, <3>6, <5>1 DEF s
      <4> QED
        BY <1>4, <3>3, <3>6, <4>1, <4>2 DEF SeenRoom
    <3> QED
      BY <3>5, <3>7
  <2>9. WatchIsSafe'
    <3>1. call' = "over" => \A i \in DOMAIN wire' : FALSE
      BY <1>7
    <3>2. call' = "waiting" => wire' # <<>> /\ IsGoal(1)'
      BY <1>5, <1>6, <1>7 DEF IsGoal, goal
    <3> QED
      BY <1>1, <1>2, <2>5, <2>8, <3>1, <3>2 DEF WatchIsSafe
  <2> QED
    BY <2>6, <2>7, <2>9
<1> QED
  BY <1>3, <1>8, <1>10 DEF FloorInv, Fixed

-----------------------------------------------------------------------------
(* A robot that brakes in the room it needs still has the room afterwards.    *)
LEMMA BrakesInRoom ==
  ASSUME robot.room \in Int, robot.v \in Nat, robot.target = 0, robot.v * robot.v <= robot.room
  PROVE  LET v == IF Braking THEN robot.v - 1 ELSE robot.target
         IN  v * v <= robot.room - Covered
<1> DEFINE v == IF Braking THEN robot.v - 1 ELSE robot.target
<1>1. CASE Braking
  <2>1. v = robot.v - 1 /\ Covered = 2 * robot.v - 1
    BY <1>1 DEF Covered
  <2>2. (robot.v - 1) * (robot.v - 1) = robot.v * robot.v - 2 * robot.v + 1 /\ robot.v * robot.v \in Int
    OBVIOUS
  <2> QED
    BY <2>1, <2>2
<1>2. CASE ~Braking
  <2>1. robot.v = 0 /\ v = 0 /\ Covered = 0
    BY <1>2 DEF Covered, Braking
  <2> QED
    BY <2>1
<1> QED
  BY <1>1, <1>2

(* A tick covers no more than two of the speed it began with.                *)
LEMMA CoversLittle ==
  ASSUME DriveInv, OneGoal, plan.speed \in Nat, Tick
  PROVE  /\ robot.target <= plan.speed /\ Covered <= 2 * plan.speed
         /\ robot'.v <= plan.speed /\ robot'.v \in Nat /\ robot'.room \in Int
         /\ robot'.room >= robot.room - 2 * plan.speed
<1>1. server \in {"none", "driving"} \cup Ends /\ robot' \in Robots
  <2>1. DriveInv'
    BY TickKeeps
  <2> QED
    BY <2>1 DEF DriveInv, DriveTyped, RobotTyped
<1>2. robot.room \in Int /\ robot.v \in Nat /\ robot.target \in Nat /\ Covered \in Nat
  BY TickMoves
<1>3. robot.target <= plan.speed /\ robot.v <= plan.speed
  BY <1>1, <1>2 DEF OneGoal
<1>4. Covered <= 2 * plan.speed
  BY <1>2, <1>3 DEF Covered, Braking
<1>5. robot'.room = robot.room - Covered /\ robot'.v = IF Braking THEN robot.v - 1 ELSE robot.target
  BY TickMoves
<1>6. robot'.v <= plan.speed
  BY <1>2, <1>3, <1>5
<1> QED
  BY <1>1, <1>2, <1>3, <1>4, <1>5, <1>6 DEF Robots

LEMMA TickOneGoal == ASSUME DriveInv, OneGoal, call # "idle", Tick PROVE OneGoal'
<1>1. /\ UNCHANGED <<call, ask, plan, profile, start, guard>> /\ plan.speed \in Nat
      /\ server \in {"none", "driving"} \cup Ends
  BY DEF Tick, DriveInv, DriveTyped, PlanTyped, RobotTyped
<1>2. /\ DOMAIN wire' = DOMAIN wire
      /\ \A i \in DOMAIN wire : /\ wire'[i].op = wire[i].op /\ wire'[i].speed = wire[i].speed
                                /\ wire'[i].left = wire[i].left
  BY TickMoves
<1>3. call # "over" => seen'.v = seen.v
  BY TickMoves
<1>4. /\ robot.target \in Nat /\ robot.v \in Nat /\ Covered \in Nat /\ robot.left \in Int /\ robot.room \in Int
      /\ robot'.room = robot.room - Covered /\ robot'.v = IF Braking THEN robot.v - 1 ELSE robot.target
  BY TickMoves
<1>5. \/ /\ server' = server /\ robot'.target = robot.target
         /\ server = "driving" => robot.left > Covered /\ robot'.left = robot.left - Covered
      \/ /\ server = "driving" /\ server' = "succeeded" /\ robot'.target = 0 /\ robot.left <= Covered
  BY TickMoves
<1>6. robot'.v <= plan.speed
  BY <1>1, CoversLittle
<1>7. scan' # Nothing => scan'.v <= plan.speed
  BY <1>6, TickMoves DEF OneGoal
<1>8. "none" \notin Ends /\ "driving" \notin Ends
  BY DEF Ends
<1>9. \A i \in DOMAIN wire' : IsGoal(i)' =>
          i = 1 /\ server' = "none" /\ wire'[i].speed = plan'.speed /\ wire'[i].left = plan'.distance
  BY <1>1, <1>2, <1>5 DEF OneGoal, IsGoal
<1>10. server' = "none" => robot'.v = 0 /\ robot'.target = 0 /\ robot'.room = start'
  <2> SUFFICES ASSUME server' = "none" PROVE robot'.v = 0 /\ robot'.target = 0 /\ robot'.room = start'
    OBVIOUS
  <2>1. server = "none" /\ robot.v = 0 /\ robot.target = 0 /\ robot.room = start
    BY <1>5 DEF OneGoal
  <2>2. Covered = 0 /\ ~Braking
    BY <2>1 DEF Covered, Braking
  <2> QED
    BY <1>1, <1>4, <1>5, <2>1, <2>2
<1>11. server' = "driving" => robot'.target = plan'.speed /\ robot'.left >= 0
  BY <1>1, <1>4, <1>5 DEF OneGoal
<1>12. server' \in Ends => robot'.target = 0
  BY <1>1, <1>5, <1>8 DEF OneGoal
<1>13. call' \in {"waiting", "left"} =>
          /\ guard'.speed = plan'.speed /\ guard'.slowTo = Nothing /\ ~guard'.resends
          /\ plan'.speed > 0 /\ seen'.v <= plan'.speed
  BY <1>1, <1>3 DEF OneGoal
<1>14. plan'.speed <= ask'.speed
       /\ (Sensed(start') # Open => plan'.distance + StoppingDistance(profile', plan'.speed) <= start')
  BY <1>1 DEF OneGoal
<1> QED
  BY <1>1, <1>6, <1>7, <1>9, <1>10, <1>11, <1>12, <1>13, <1>14 DEF OneGoal

LEMMA TickPlanIsSafe ==
  ASSUME FloorAssumption, DriveInv, Setting, OneGoal, PlanIsSafe, call # "idle", Tick
  PROVE  PlanIsSafe'
<1>1. /\ UNCHANGED <<plan, profile, start>> /\ plan.speed \in Nat
      /\ server \in {"none", "driving"} \cup Ends
  BY DEF Tick, DriveInv, DriveTyped, PlanTyped, RobotTyped
<1> DEFINE s == plan.speed
           stop == StoppingDistance(profile, s)
<1>2. s \in Nat /\ s * s + 2 * s <= stop /\ stop \in Nat /\ s * s \in Nat
  <2>1. plan.speed * plan.speed \in Nat
    BY <1>1
  <2> QED
    BY <1>1, <2>1, StoppingIsNeed DEF Setting
<1>3. /\ robot.target \in Nat /\ robot.v \in Nat /\ Covered \in Nat /\ robot.left \in Int /\ robot.room \in Int
      /\ robot'.room = robot.room - Covered /\ robot'.v = IF Braking THEN robot.v - 1 ELSE robot.target
  BY TickMoves
<1>4. \/ /\ server' = server /\ robot'.target = robot.target
         /\ server = "driving" => robot.left > Covered /\ robot'.left = robot.left - Covered
      \/ /\ server = "driving" /\ server' = "succeeded" /\ robot'.target = 0 /\ robot.left <= Covered
  BY TickMoves
<1>5. Covered <= 2 * s /\ robot'.v <= s /\ robot'.v \in Nat
  BY <1>1, CoversLittle
<1>6. "none" \notin Ends /\ "driving" \notin Ends
  BY DEF Ends
<1> SUFFICES ASSUME Sensed(start) # Open
             PROVE  /\ server' = "driving" => robot'.left + stop <= robot'.room
                    /\ server' \in Ends => robot'.v * robot'.v <= robot'.room
  BY <1>1 DEF PlanIsSafe
<1>7. /\ server = "driving" => robot.left + stop <= robot.room
      /\ server \in Ends => robot.v * robot.v <= robot.room
  BY DEF PlanIsSafe
<1> HIDE DEF s, stop
<1>8. ASSUME server' = "driving" PROVE robot'.left + stop <= robot'.room
  BY <1>2, <1>3, <1>4, <1>7, <1>8
<1>9. ASSUME server' \in Ends PROVE robot'.v * robot'.v <= robot'.room
  <2>1. CASE server \in Ends
    <3>1. robot.target = 0 /\ robot.v * robot.v <= robot.room
      BY <1>7, <2>1 DEF OneGoal
    <3> QED
      BY <1>3, <3>1, BrakesInRoom
  <2>2. CASE server = "driving"
    <3>1. robot.left <= Covered /\ robot.left >= 0 /\ robot.left + stop <= robot.room
      BY <1>4, <1>6, <1>7, <1>9, <2>2 DEF OneGoal
    <3>2. robot'.v * robot'.v <= s * s /\ robot'.v * robot'.v \in Nat
      BY <1>2, <1>5, SquareGrows
    <3> DEFINE q == s * s
               u == robot'.v * robot'.v
    <3>3. q + 2 * s <= stop /\ u <= q /\ q \in Nat /\ u \in Nat
      BY <1>2, <3>2
    <3> HIDE DEF q, u
    <3>4. u <= robot'.room
      BY <1>2, <1>3, <1>5, <3>1, <3>3
    <3> QED
      BY <3>4 DEF u
  <2> QED
    BY <1>1, <1>4, <1>6, <1>9, <2>1, <2>2
<1> QED
  BY <1>8, <1>9

(* What stopping takes a tick later.                                         *)
LEMMA NeedStep ==
  ASSUME plan.speed \in Nat, NEW n \in Int, 0 <= n
  PROVE  /\ Need(n + 1) = Need(n) + 2 * plan.speed /\ Need(n) \in Int
         /\ plan.speed * plan.speed <= Need(n)
<1>1. n <= n
  OBVIOUS
<1> QED
  BY <1>1, NeedGrows

LEMMA OneTickMore ==
  ASSUME NEW v \in Nat, NEW n \in Int
  PROVE  2 * v * (n + 1) = 2 * v * n + 2 * v /\ 2 * v * n \in Int
OBVIOUS

(* While somebody waits for a drive that is not over, the waiter has looked   *)
(* before time goes on, and there is room for what a tick covers.            *)
LEMMA TickHasRoom ==
  ASSUME FloorAssumption, DriveInv, AgesFall, OneGoal, WatchIsSafe, ~alone, call = "waiting",
         server \notin Ends, Tick
  PROVE  /\ inbox = Nothing /\ looked
         /\ plan.speed * plan.speed + 2 * plan.speed <= robot.room
         /\ RoomAhead'
<1>1. /\ UNCHANGED <<call, plan, guard>> /\ plan.speed \in Nat /\ looked' = FALSE
      /\ guard \in Guards
  BY DEF Tick, DriveInv, DriveTyped, PlanTyped, GuardTyped
<1>2. inbox = Nothing /\ RoomAhead
  BY DEF WatchIsSafe
<1>3. looked
  BY <1>2 DEF Tick
<1>4. Delay \in Nat /\ React \in Nat /\ Latest \in Nat /\ Latest = Delay + React
  BY DriveAssumption DEF Latest
<1>5. /\ robot.room \in Int /\ robot'.room \in Int /\ robot'.room >= robot.room - 2 * plan.speed
  BY <1>1, TickMoves, CoversLittle
<1> DEFINE s == plan.speed
           q == s * s
<1>6. q \in Nat /\ s \in Nat
  BY <1>1
<1>7. CASE guard.trip = NoTrip
  <2>1. Need(Latest + 1) <= robot.room
    BY <1>2, <1>3, <1>7 DEF RoomAhead
  <2>2. Need(Latest + 1) = Need(Latest) + 2 * s /\ Need(Latest) \in Int /\ q <= Need(Latest)
    BY <1>4, <1>6, NeedStep
  <2>3. Need(Latest) <= robot'.room /\ q + 2 * s <= robot.room
    <3> HIDE DEF s, q
    <3> QED
      BY <1>5, <1>6, <2>1, <2>2 DEF s
  <2>4. Need(Latest)' = Need(Latest) /\ Latest + 0 = Latest
    BY <1>1, <1>4 DEF Need
  <2>5. ~guard.stopSent
    BY <1>7 DEF DriveInv, CancelIsSent
  <2>6. RoomAhead'
    <3>1. (Latest + IF looked THEN 1 ELSE 0)' = Latest
      BY <1>1, <1>4
    <3> QED
      BY <1>1, <1>7, <2>3, <2>4, <2>5, <3>1 DEF RoomAhead, Need
  <2> QED
    BY <1>2, <1>3, <2>3, <2>6
<1>8. CASE guard.trip # NoTrip
  <2>1. guard.stopSent /\ StopOnTheWay
    BY <1>2, <1>3, <1>8 DEF RoomAhead, Guards
  <2>2. PICK i \in DOMAIN wire : ~IsGoal(i) /\ Need(Latest - wire[i].age) <= robot.room
    BY <2>1 DEF StopOnTheWay
  <2>3. /\ DOMAIN wire' = DOMAIN wire /\ wire[i].age \in Nat /\ wire'[i].age = wire[i].age + 1
        /\ wire'[i].op = wire[i].op /\ DOMAIN wire = 1..Len(wire) /\ Len(wire) \in Nat
    BY TickMoves
  <2>4. wire[i].age < Latest
    <3>1. wire # <<>> /\ 1 \in DOMAIN wire /\ Head(wire) = wire[1] /\ wire[1].age \in Nat
      <4>1. wire # <<>> /\ 1 \in DOMAIN wire /\ Head(wire) = wire[1]
        BY <2>3
      <4>2. \A j \in DOMAIN wire : wire[j].age \in Nat
        BY TickMoves
      <4> QED
        BY <4>1, <4>2
    <3>2. wire[1].age < Latest
      BY <1>4, <3>1 DEF Tick
    <3>3. i = 1 \/ 1 < i
      BY <2>3
    <3>4. wire[i].age <= wire[1].age
      BY <2>3, <3>1, <3>3 DEF AgesFall
    <3> QED
      BY <1>4, <2>3, <3>1, <3>2, <3>4
  <2> DEFINE n == Latest - wire[i].age - 1
  <2>5. n \in Int /\ 0 <= n /\ n + 1 = Latest - wire[i].age
    BY <1>4, <2>3, <2>4
  <2>6. n = Latest - wire'[i].age
    BY <1>4, <2>3
  <2> HIDE DEF n
  <2>7. Need(n + 1) = Need(n) + 2 * s /\ Need(n) \in Int /\ q <= Need(n)
    BY <1>6, <2>5, NeedStep
  <2>8. Need(n) <= robot'.room /\ q + 2 * s <= robot.room
    <3>1. Need(n + 1) <= robot.room
      BY <2>2, <2>5
    <3> HIDE DEF s, q
    <3> QED
      BY <1>5, <1>6, <2>7, <3>1 DEF s
  <2>9. StopOnTheWay'
    <3>1. ~IsGoal(i)'
      BY <2>2, <2>3 DEF IsGoal
    <3>2. Need(Latest - wire[i].age)' = Need(n)
      BY <1>1, <2>6 DEF Need
    <3>3. Need(Latest - wire[i].age)' <= robot'.room
      BY <2>8, <3>2
    <3> QED
      BY <2>3, <3>1, <3>3 DEF StopOnTheWay, Latest
  <2>10. RoomAhead'
    BY <1>1, <1>8, <2>1, <2>9 DEF RoomAhead
  <2> QED
    BY <1>2, <1>3, <2>8, <2>10
<1> QED
  BY <1>7, <1>8

LEMMA TickWatch ==
  ASSUME FloorAssumption, DriveInv, Setting, AgesFall, OneGoal, WatchIsSafe, call # "idle", Tick
  PROVE  WatchIsSafe'
<1> SUFFICES ASSUME ~alone' PROVE WatchIsSafe'
  BY DEF WatchIsSafe
<1>1. /\ UNCHANGED <<call, plan, guard, inbox, alone, profile, start>> /\ looked' = FALSE
      /\ plan.speed \in Nat /\ server \in {"none", "driving"} \cup Ends
  BY DEF Tick, DriveInv, DriveTyped, PlanTyped, RobotTyped
<1>2. /\ call # "left"
      /\ call = "over" => server # "driving" /\ \A i \in DOMAIN wire : ~IsGoal(i)
      /\ server \in Ends => robot.v * robot.v <= robot.room
      /\ call = "waiting" =>
              /\ inbox # Nothing => server \in Ends
              /\ server = "none" => wire # <<>> /\ IsGoal(1)
              /\ scan # Nothing => scan.age <= Delay /\ scan.room - 2 * plan.speed * scan.age <= robot.room
              /\ server \notin Ends => RoomAhead
              /\ guard.trip = NoTrip => SeenRoom
  BY <1>1 DEF WatchIsSafe
<1>3. /\ robot.target \in Nat /\ robot.v \in Nat /\ Covered \in Nat /\ robot.left \in Int /\ robot.room \in Int
      /\ robot'.room = robot.room - Covered /\ robot'.v = IF Braking THEN robot.v - 1 ELSE robot.target
  BY TickMoves
<1>4. server' = server \/ (server = "driving" /\ server' = "succeeded")
  BY TickMoves
<1>5. /\ DOMAIN wire' = DOMAIN wire /\ DOMAIN wire = 1..Len(wire) /\ Len(wire) \in Nat
      /\ \A i \in DOMAIN wire : wire'[i].op = wire[i].op
  BY TickMoves
<1>6. "none" \notin Ends /\ "driving" \notin Ends
  BY DEF Ends
<1> DEFINE s == plan.speed
           q == s * s
<1>7. /\ s \in Nat /\ q \in Nat /\ robot'.v <= s /\ robot'.v \in Nat /\ robot'.room \in Int
      /\ robot'.room >= robot.room - 2 * s
  BY <1>1, CoversLittle
<1>8. call' # "left"
  BY <1>1, <1>2
<1>9. call' = "over" => server' # "driving" /\ \A i \in DOMAIN wire' : ~IsGoal(i)'
  BY <1>1, <1>2, <1>4, <1>5 DEF IsGoal
<1>10. ASSUME server' \in Ends PROVE robot'.v * robot'.v <= robot'.room
  <2>1. CASE server \in Ends
    <3>1. robot.target = 0 /\ robot.v * robot.v <= robot.room
      BY <1>2, <2>1 DEF OneGoal
    <3> QED
      BY <1>3, <3>1, BrakesInRoom
  <2>2. CASE server = "driving"
    <3>1. call = "waiting"
      BY <1>2, <2>2 DEF DriveInv, DriveTyped, CallTyped
    <3>2. q + 2 * s <= robot.room
      BY <1>1, <1>6, <2>2, <3>1, TickHasRoom
    <3>3. robot'.v * robot'.v <= q /\ robot'.v * robot'.v \in Nat
      BY <1>7, SquareGrows
    <3> DEFINE u == robot'.v * robot'.v
    <3>4. u <= q /\ u \in Nat
      BY <3>3
    <3> HIDE DEF u, q, s
    <3>5. u <= robot'.room
      BY <1>3, <1>7, <3>2, <3>4
    <3> QED
      BY <3>5 DEF u
  <2> QED
    BY <1>1, <1>4, <1>6, <1>10, <2>1, <2>2
<1>11. ASSUME call' = "waiting"
       PROVE  /\ inbox' # Nothing => server' \in Ends
              /\ server' = "none" => wire' # <<>> /\ IsGoal(1)'
              /\ server' \notin Ends => RoomAhead'
  <2>1. inbox' # Nothing => server' \in Ends
    BY <1>1, <1>2, <1>4, <1>6, <1>11
  <2>2. server' = "none" => wire' # <<>> /\ IsGoal(1)'
    <3> SUFFICES ASSUME server' = "none" PROVE wire' # <<>> /\ IsGoal(1)'
      OBVIOUS
    <3>1. wire # <<>> /\ IsGoal(1) /\ wire \in Seq(Commands)
      BY <1>1, <1>2, <1>4, <1>11 DEF DriveInv, DriveTyped, WireTyped
    <3>2. 1 \in DOMAIN wire
      BY <3>1
    <3> QED
      BY <1>5, <3>1, <3>2 DEF IsGoal
  <2>3. server' \notin Ends => RoomAhead'
    <3> SUFFICES ASSUME server' \notin Ends PROVE RoomAhead'
      OBVIOUS
    <3>1. server \notin Ends /\ call = "waiting" /\ ~alone
      BY <1>1, <1>4, <1>11 DEF Ends
    <3> QED
      BY <3>1, TickHasRoom
  <2> QED
    BY <2>1, <2>2, <2>3
<1>12. ASSUME call' = "waiting", scan' # Nothing
       PROVE  scan'.age <= Delay /\ scan'.room - 2 * plan'.speed * scan'.age <= robot'.room
  <2>0. Delay \in Nat
    BY DriveAssumption
  <2>1. CASE scan'.room = robot'.room /\ scan'.age = 0
    <3>1. 2 * plan'.speed * scan'.age = 0
      BY <1>1, <2>1
    <3> QED
      BY <1>7, <2>0, <2>1, <3>1
  <2>2. CASE /\ scan # Nothing /\ scan'.room = scan.room /\ scan.room \in Int
             /\ scan.age \in Nat /\ scan'.age = scan.age + 1
    <3>1. scan.age <= Delay /\ scan.room - 2 * plan.speed * scan.age <= robot.room
      BY <1>1, <1>2, <1>12, <2>2
    <3>2. scan.age < Delay
      BY <2>2 DEF Tick
    <3>3. /\ 2 * plan.speed * (scan.age + 1) = 2 * plan.speed * scan.age + 2 * plan.speed
          /\ 2 * plan.speed * scan.age \in Int
      <4> DEFINE n == scan.age
                 v == plan.speed
      <4>1. n \in Int /\ v \in Nat
        BY <1>1, <2>2
      <4> HIDE DEF n, v
      <4>2. 2 * v * (n + 1) = 2 * v * n + 2 * v /\ 2 * v * n \in Int
        BY <4>1, OneTickMore
      <4> QED
        BY <4>2 DEF n, v
    <3> DEFINE w == 2 * plan.speed * scan.age
    <3>4. scan.room - w <= robot.room /\ w \in Int
      BY <3>1, <3>3
    <3>5. 2 * plan'.speed * scan'.age = w + 2 * s
      BY <1>1, <2>2, <3>3
    <3> HIDE DEF w, s
    <3> QED
      BY <1>3, <1>7, <2>0, <2>2, <3>2, <3>4, <3>5
  <2> QED
    BY <1>12, <2>1, <2>2, TickMoves
<1>13. ASSUME call' = "waiting", guard'.trip = NoTrip PROVE SeenRoom'
  <2>1. SeenRoom /\ call = "waiting" /\ guard.trip = NoTrip
    BY <1>1, <1>2, <1>13
  <2>2. looked
    BY <2>1 DEF Tick
  <2>3. seen.age \in Nat /\ seen.age < OldestAge
    BY <2>1, <2>2 DEF SeenRoom
  <2>4. seen'.room = seen.room /\ seen'.age = seen.age + 1
    BY <2>1, <2>3, TickMoves
  <2>5. seen.room \in Int /\ Delay \in Nat /\ OldestAge \in Nat
    BY DriveAssumption DEF DriveInv, DriveTyped, ScanTyped, Sights
  <2>6. /\ 2 * plan.speed * (seen.age + 1 + Delay) = 2 * plan.speed * (seen.age + Delay) + 2 * plan.speed
        /\ 2 * plan.speed * (seen.age + Delay) \in Int
    BY <1>7, <2>3, <2>5
  <2> DEFINE w == 2 * plan.speed * (seen.age + Delay)
  <2>7. seen.room - w <= robot.room /\ w \in Int
    BY <2>1, <2>6 DEF SeenRoom
  <2>8. 2 * plan'.speed * (seen'.age + Delay) = w + 2 * s
    BY <1>1, <2>4, <2>6
  <2>9. seen'.room - 2 * plan'.speed * (seen'.age + Delay) <= robot'.room
    <3> HIDE DEF w, s
    <3> QED
      BY <1>3, <1>7, <2>4, <2>5, <2>7, <2>8
  <2>10. Sensed(seen'.room) = Open \/ StoppingDistance(profile', plan'.speed) <= seen'.room
    BY <1>1, <2>1, <2>4 DEF SeenRoom
  <2>11. seen'.age \in Nat /\ seen'.age <= OldestAge
    BY <2>3, <2>4, <2>5
  <2> QED
    BY <1>1, <2>9, <2>10, <2>11 DEF SeenRoom
<1> QED
  BY <1>8, <1>9, <1>10, <1>11, <1>12, <1>13 DEF WatchIsSafe

LEMMA TickFloor == ASSUME FloorAssumption, DriveInv, FloorInv, Tick PROVE FloorInv'
<1>1. /\ call # "idle" /\ UNCHANGED <<call, ask, plan, profile, start>>
  BY DEF Tick
<1>2. Setting' /\ AtRest' /\ Setting
  BY <1>1 DEF FloorInv, Setting, AtRest
<1>3. AgesFall'
  <2>1. /\ DOMAIN wire' = DOMAIN wire /\ DOMAIN wire = 1..Len(wire) /\ Len(wire) \in Nat
        /\ \A i \in DOMAIN wire : wire[i].age \in Nat /\ wire'[i].age = wire[i].age + 1
    BY TickMoves
  <2>2. /\ \A i, j \in DOMAIN wire : i < j => wire[j].age <= wire[i].age
    BY DEF FloorInv, AgesFall
  <2>3. Latest \in Nat /\ (wire # <<>> => Head(wire).age < Latest)
    BY DriveAssumption DEF Latest, Tick
  <2>4. ASSUME NEW i \in DOMAIN wire PROVE wire'[i].age <= Latest
    <3>1. wire # <<>> /\ 1 \in DOMAIN wire /\ Head(wire) = wire[1] /\ (i = 1 \/ 1 < i)
      BY <2>1
    <3>2. wire[i].age <= wire[1].age /\ wire[1].age < Latest
      BY <2>1, <2>2, <2>3, <3>1
    <3> QED
      BY <2>1, <2>3, <3>1, <3>2
  <2> QED
    BY <2>1, <2>2, <2>4 DEF AgesFall
<1>4. ASSUME Fixed' PROVE (OneGoal /\ PlanIsSafe /\ WatchIsSafe)'
  <2>1. OneGoal /\ PlanIsSafe /\ WatchIsSafe /\ AgesFall
    BY <1>1, <1>4 DEF FloorInv, Fixed
  <2> QED
    BY <1>1, <1>2, <2>1, TickOneGoal, TickPlanIsSafe, TickWatch
<1> QED
  BY <1>2, <1>3, <1>4 DEF FloorInv, Fixed

-----------------------------------------------------------------------------
(* There is room for the speed the robot has, while a stop is still to come.  *)
LEMMA RoomForSpeed ==
  ASSUME DriveInv, AgesFall, RoomAhead, plan.speed \in Nat, robot.v <= plan.speed
  PROVE  robot.v * robot.v <= robot.room
<1>1. guard \in Guards /\ robot.v \in Nat /\ robot.room \in Int /\ wire \in Seq(Commands)
  BY DEF DriveInv, DriveTyped, GuardTyped, RobotTyped, Robots, WireTyped
<1>2. Latest \in Nat
  BY DriveAssumption DEF Latest
<1>3. PICK n \in Int : 0 <= n /\ Need(n) <= robot.room
  <2>1. CASE guard.trip = NoTrip
    <3>1. Latest + (IF looked THEN 1 ELSE 0) \in Int /\ 0 <= Latest + (IF looked THEN 1 ELSE 0)
      BY <1>2
    <3> QED
      BY <2>1, <3>1 DEF RoomAhead
  <2>2. CASE guard.trip # NoTrip /\ ~guard.stopSent
    BY <1>2, <2>2 DEF RoomAhead
  <2>3. CASE guard.stopSent
    <3>1. PICK i \in DOMAIN wire : Need(Latest - wire[i].age) <= robot.room
      BY <2>3 DEF RoomAhead, StopOnTheWay
    <3>2. wire[i].age \in Nat /\ wire[i].age <= Latest
      <4>1. wire[i] \in Commands
        BY <1>1
      <4> QED
        BY <4>1 DEF AgesFall, Commands
    <3>3. Latest - wire[i].age \in Int /\ 0 <= Latest - wire[i].age
      BY <1>2, <3>2
    <3> QED
      BY <3>1, <3>3
  <2> QED
    BY <1>1, <2>1, <2>2, <2>3 DEF Guards
<1>4. plan.speed * plan.speed <= Need(n) /\ Need(n) \in Int
  BY <1>3, NeedStep
<1>5. robot.v * robot.v <= plan.speed * plan.speed /\ robot.v * robot.v \in Nat /\ plan.speed * plan.speed \in Nat
  BY <1>1, SquareGrows
<1> DEFINE u == robot.v * robot.v
           q == plan.speed * plan.speed
<1>6. u <= q /\ q <= Need(n) /\ Need(n) <= robot.room /\ u \in Nat /\ q \in Nat /\ Need(n) \in Int
  BY <1>3, <1>4, <1>5
<1> HIDE DEF u, q
<1>7. u <= robot.room
  BY <1>1, <1>6
<1> QED
  BY <1>7 DEF u

(* A drive that is planned to end where the robot can stop can be stopped.    *)
LEMMA PlanHasRoom ==
  ASSUME FloorAssumption, DriveInv, Setting, plan.speed \in Nat, robot.v <= plan.speed, robot.left >= 0,
         robot.left + StoppingDistance(profile, plan.speed) <= robot.room
  PROVE  robot.v * robot.v <= robot.room
<1>1. robot.v \in Nat /\ robot.room \in Int /\ robot.left \in Int
  BY DEF DriveInv, DriveTyped, RobotTyped, Robots
<1> DEFINE u == robot.v * robot.v
           q == plan.speed * plan.speed
           stop == StoppingDistance(profile, plan.speed)
<1>2. q + 2 * plan.speed <= stop /\ stop \in Nat
  BY StoppingIsNeed DEF Setting
<1>3. u <= q /\ u \in Nat /\ q \in Nat
  BY <1>1, SquareGrows
<1>4. robot.left + stop <= robot.room
  OBVIOUS
<1> HIDE DEF u, q, stop
<1>5. u <= robot.room
  BY <1>1, <1>2, <1>3, <1>4
<1> QED
  BY <1>5 DEF u

LEMMA ArriveFloor == ASSUME FloorAssumption, DriveInv, FloorInv, Arrive PROVE FloorInv'
<1> DEFINE c == Head(wire)
<1>1. /\ wire # <<>> /\ wire' = Tail(wire)
      /\ UNCHANGED <<scan, call, ask, plan, profile, start, guard, seen, inbox, looked, alone>>
  BY DEF Arrive, host
<1>2. /\ robot \in Robots /\ wire \in Seq(Commands) /\ server \in {"none", "driving"} \cup Ends
  BY DEF DriveInv, DriveTyped, RobotTyped, WireTyped
<1>3. c = wire[1] /\ c \in Commands /\ 1 \in DOMAIN wire
  BY <1>1, <1>2
<1>4. \A i \in DOMAIN wire' : i \in Nat /\ i >= 1 /\ i + 1 \in DOMAIN wire /\ wire'[i] = wire[i + 1]
  BY <1>1, <1>2
<1>5. \A i \in DOMAIN wire : i # 1 => i \in Nat /\ i - 1 \in DOMAIN wire' /\ wire'[i - 1] = wire[i]
  BY <1>1, <1>2
<1>6. call # "idle"
  BY <1>1 DEF DriveInv, NothingYet
<1>7. /\ c.speed \in Nat /\ c.left \in Int /\ robot.room \in Int /\ robot.v \in Nat
      /\ robot.target \in Nat /\ robot.left \in Int
  BY <1>2, <1>3 DEF Commands, Robots
<1>8. Setting' /\ AtRest'
  BY <1>1, <1>6 DEF FloorInv, Setting, AtRest
<1>9. AgesFall'
  BY <1>4 DEF FloorInv, AgesFall
<1>10. ASSUME Fixed' PROVE (OneGoal /\ PlanIsSafe /\ WatchIsSafe)'
  <2>1. OneGoal /\ PlanIsSafe /\ WatchIsSafe /\ AgesFall /\ Setting
    BY <1>1, <1>6, <1>10 DEF FloorInv, Fixed
  <2>2. plan.speed \in Nat /\ plan.distance \in Nat /\ call \in {"waiting", "left", "over"}
    BY <1>6 DEF DriveInv, DriveTyped, PlanTyped, CallTyped
  <2>3. \A i \in DOMAIN wire' : ~IsGoal(i)'
    <3> SUFFICES ASSUME NEW i \in DOMAIN wire', wire'[i].op = "goal" PROVE FALSE
      BY DEF IsGoal
    <3>1. i + 1 \in DOMAIN wire /\ IsGoal(i + 1) /\ i \in Nat /\ i >= 1
      BY <1>4 DEF IsGoal
    <3> QED
      BY <2>1, <3>1 DEF OneGoal
  <2>4. "none" \notin Ends /\ "driving" \notin Ends
    BY DEF Ends
  <2>5. StopOnTheWay => (c.op = "goal" => StopOnTheWay')
    <3> SUFFICES ASSUME StopOnTheWay, c.op = "goal" PROVE StopOnTheWay'
      OBVIOUS
    <3>1. PICK i \in DOMAIN wire : ~IsGoal(i) /\ Need(Latest - wire[i].age) <= robot.room
      BY DEF StopOnTheWay
    <3>2. i # 1
      BY <1>3, <3>1 DEF IsGoal
    <3>3. i - 1 \in DOMAIN wire' /\ wire'[i - 1] = wire[i] /\ robot'.room = robot.room
      BY <1>2, <1>5, <3>2 DEF Arrive, Robots
    <3>4. ~IsGoal(i - 1)' /\ Need(Latest - wire[i - 1].age)' <= robot'.room
      BY <1>1, <3>1, <3>3 DEF IsGoal, Need, Latest
    <3> QED
      BY <3>3, <3>4 DEF StopOnTheWay, Latest
  <2>6. CASE c.op = "goal"
    <3>1. /\ server = "none" /\ c.speed = plan.speed /\ c.left = plan.distance
          /\ robot.v = 0 /\ robot.room = start
      BY <1>3, <2>1, <2>6 DEF OneGoal, IsGoal
    <3>2. robot' = [robot EXCEPT !.target = c.speed, !.left = c.left] /\ server' = "driving"
      BY <2>6 DEF Arrive
    <3> HIDE DEF c
    <3>3. /\ robot'.room = robot.room /\ robot'.v = robot.v /\ robot'.target = plan.speed
          /\ robot'.left = plan.distance
      BY <1>2, <3>1, <3>2 DEF Robots
    <3>4. OneGoal'
      BY <1>1, <2>1, <2>2, <2>3, <2>4, <3>1, <3>2, <3>3 DEF OneGoal
    <3>5. PlanIsSafe'
      BY <1>1, <2>1, <2>4, <3>1, <3>2, <3>3 DEF OneGoal, PlanIsSafe
    <3>6. WatchIsSafe'
      <4> SUFFICES ASSUME ~alone' PROVE WatchIsSafe'
        BY DEF WatchIsSafe
      <4>1. call = "waiting"
        BY <1>1, <1>3, <2>1, <2>2, <2>6 DEF WatchIsSafe, IsGoal, c
      <4>2. /\ inbox = Nothing /\ RoomAhead /\ (guard.trip = NoTrip => SeenRoom)
            /\ scan # Nothing => scan.age <= Delay /\ scan.room - 2 * plan.speed * scan.age <= robot.room
        BY <1>1, <2>1, <2>4, <3>1, <4>1 DEF WatchIsSafe
      <4>3. RoomAhead'
        BY <1>1, <2>5, <2>6, <3>3, <4>2 DEF RoomAhead, Need, Latest
      <4>4. guard'.trip = NoTrip => SeenRoom'
        BY <1>1, <3>3, <4>2 DEF SeenRoom
      <4> QED
        BY <1>1, <2>4, <3>2, <3>3, <4>1, <4>2, <4>3, <4>4 DEF WatchIsSafe
    <3> QED
      BY <3>4, <3>5, <3>6
  <2>7. CASE c.op # "goal"
    <3>1. /\ robot' = [robot EXCEPT !.target = 0, !.left = 0]
          /\ server' = IF server = "driving" THEN "canceled" ELSE server
      BY <2>7 DEF Arrive
    <3> HIDE DEF c
    <3>2. robot'.room = robot.room /\ robot'.v = robot.v /\ robot'.target = 0
      BY <1>2, <3>1 DEF Robots
    <3>3. OneGoal'
      BY <1>1, <2>1, <2>2, <2>3, <2>4, <3>1, <3>2 DEF OneGoal
    <3>4. PlanIsSafe'
      <4> SUFFICES ASSUME Sensed(start) # Open, server' \in Ends PROVE robot.v * robot.v <= robot.room
        BY <1>1, <3>1, <3>2 DEF PlanIsSafe
      <4>1. CASE server = "driving"
        <5>1. robot.left >= 0 /\ robot.v <= plan.speed
              /\ robot.left + StoppingDistance(profile, plan.speed) <= robot.room
          BY <2>1, <4>1 DEF PlanIsSafe, OneGoal
        <5> QED
          BY <2>1, <2>2, <5>1, PlanHasRoom
      <4>2. CASE server # "driving"
        BY <2>1, <3>1, <4>2 DEF PlanIsSafe
      <4> QED
        BY <4>1, <4>2
    <3>5. WatchIsSafe'
      <4> SUFFICES ASSUME ~alone' PROVE WatchIsSafe'
        BY DEF WatchIsSafe
      <4>0. ~alone /\ ~IsGoal(1)
        BY <1>1, <1>3, <2>7 DEF IsGoal
      <4>1. server # "driving" \/ call = "waiting"
        BY <2>1, <2>2, <4>0 DEF WatchIsSafe
      <4>2. server' \in Ends => robot.v * robot.v <= robot.room
        <5>1. CASE server = "driving"
          <6>1. call = "waiting" /\ RoomAhead /\ robot.v <= plan.speed
            BY <2>1, <2>4, <4>0, <4>1, <5>1 DEF WatchIsSafe, OneGoal
          <6> QED
            BY <2>1, <2>2, <6>1, RoomForSpeed
        <5>2. CASE server # "driving"
          BY <2>1, <3>1, <4>0, <5>2 DEF WatchIsSafe
        <5> QED
          BY <5>1, <5>2
      <4>3. call = "waiting" => server' \in Ends
        <5> SUFFICES ASSUME call = "waiting" PROVE server' \in Ends
          OBVIOUS
        <5>1. server # "none"
          BY <2>1, <4>0 DEF WatchIsSafe
        <5> QED
          BY <1>2, <3>1, <5>1 DEF Ends
      <4>4. call = "waiting" =>
              /\ scan # Nothing => scan.age <= Delay /\ scan.room - 2 * plan.speed * scan.age <= robot.room
              /\ guard.trip = NoTrip => SeenRoom
        BY <2>1, <4>0 DEF WatchIsSafe
      <4>5. guard'.trip = NoTrip /\ call = "waiting" => SeenRoom'
        BY <1>1, <3>2, <4>4 DEF SeenRoom
      <4>6. call # "left" /\ server' # "driving"
        BY <2>1, <3>1, <4>0 DEF WatchIsSafe
      <4> QED
        BY <1>1, <2>3, <2>4, <3>1, <3>2, <4>2, <4>3, <4>4, <4>5, <4>6 DEF WatchIsSafe
    <3> QED
      BY <3>3, <3>4, <3>5
  <2> QED
    BY <2>6, <2>7
<1> QED
  BY <1>8, <1>9, <1>10 DEF FloorInv, Fixed

LEMMA ServerAbortsFloor == ASSUME FloorAssumption, DriveInv, FloorInv, ServerAborts PROVE FloorInv'
<1>1. /\ server = "driving" /\ server' = "aborted" /\ robot' = [robot EXCEPT !.target = 0, !.left = 0]
      /\ UNCHANGED <<scan, wire, call, ask, plan, profile, start, guard, seen, inbox, looked, alone>>
  BY DEF ServerAborts, host
<1>2. robot \in Robots /\ call # "idle"
  BY <1>1 DEF DriveInv, DriveTyped, RobotTyped, NothingYet
<1>3. robot'.room = robot.room /\ robot'.v = robot.v /\ robot'.target = 0
  BY <1>1, <1>2 DEF Robots
<1>4. (Setting /\ AtRest /\ AgesFall)'
  BY <1>1, <1>2 DEF FloorInv, Setting, AtRest, AgesFall
<1>5. "aborted" \in Ends /\ "driving" \notin Ends /\ "aborted" # "none" /\ "aborted" # "driving"
  BY DEF Ends
<1>6. ASSUME Fixed' PROVE (OneGoal /\ PlanIsSafe /\ WatchIsSafe)'
  <2>1. OneGoal /\ PlanIsSafe /\ WatchIsSafe /\ AgesFall /\ Setting
    BY <1>1, <1>2, <1>6 DEF FloorInv, Fixed
  <2>2. plan.speed \in Nat /\ call \in {"waiting", "left", "over"}
    BY <1>2 DEF DriveInv, DriveTyped, PlanTyped, CallTyped
  <2>3. \A i \in DOMAIN wire : ~IsGoal(i)
    BY <1>1, <2>1 DEF OneGoal
  <2>4. OneGoal'
    BY <1>1, <1>3, <1>5, <2>1, <2>3 DEF OneGoal, IsGoal
  <2>5. PlanIsSafe'
    <3> SUFFICES ASSUME Sensed(start) # Open PROVE robot.v * robot.v <= robot.room
      BY <1>1, <1>3, <1>5 DEF PlanIsSafe
    <3>1. robot.left >= 0 /\ robot.v <= plan.speed
          /\ robot.left + StoppingDistance(profile, plan.speed) <= robot.room
      BY <1>1, <2>1 DEF PlanIsSafe, OneGoal
    <3> QED
      BY <2>1, <2>2, <3>1, PlanHasRoom
  <2>6. WatchIsSafe'
    <3> SUFFICES ASSUME ~alone' PROVE WatchIsSafe'
      BY DEF WatchIsSafe
    <3>1. call = "waiting" /\ ~alone
      BY <1>1, <2>1, <2>2 DEF WatchIsSafe
    <3>2. /\ RoomAhead /\ robot.v <= plan.speed /\ (guard.trip = NoTrip => SeenRoom)
          /\ scan # Nothing => scan.age <= Delay /\ scan.room - 2 * plan.speed * scan.age <= robot.room
      BY <1>1, <1>5, <2>1, <3>1 DEF WatchIsSafe, OneGoal
    <3>3. robot.v * robot.v <= robot.room
      BY <2>1, <2>2, <3>2, RoomForSpeed
    <3>4. guard'.trip = NoTrip => SeenRoom'
      BY <1>1, <1>3, <3>2 DEF SeenRoom
    <3> QED
      BY <1>1, <1>3, <1>5, <3>1, <3>2, <3>3, <3>4 DEF WatchIsSafe
  <2> QED
    BY <2>4, <2>5, <2>6
<1> QED
  BY <1>4, <1>6 DEF FloorInv, Fixed

-----------------------------------------------------------------------------
(* A call that ends leaves the robot and its wire as they are, or the wire    *)
(* without what was lost.                                                    *)
LEMMA OverFloor ==
  ASSUME FloorInv, DriveInv, call # "idle", call' = "over", wire' \in {wire, <<>>},
         scan' \in {scan, Nothing}, UNCHANGED <<ask, plan, profile, start, robot, server>>,
         Fixed /\ ~alone' =>
             /\ server # "driving" /\ \A i \in DOMAIN wire : ~IsGoal(i)
             /\ server \in Ends => robot.v * robot.v <= robot.room
  PROVE  FloorInv'
<1>1. DOMAIN wire' \subseteq DOMAIN wire /\ \A i \in DOMAIN wire' : wire'[i] = wire[i]
  <2>1. CASE wire' = wire
    BY <2>1
  <2>2. CASE wire' = <<>>
    <3>1. DOMAIN wire' = {}
      BY <2>2
    <3> QED
      BY <3>1
  <2> QED
    BY <2>1, <2>2
<1>2. (Setting /\ AtRest /\ AgesFall)'
  BY <1>1 DEF FloorInv, Setting, AtRest, AgesFall
<1>3. ASSUME Fixed' PROVE (OneGoal /\ PlanIsSafe /\ WatchIsSafe)'
  <2>1. Fixed /\ OneGoal /\ PlanIsSafe
    BY <1>3 DEF FloorInv, Fixed
  <2>2. OneGoal'
    <3>1. \A i \in DOMAIN wire' : IsGoal(i)' =>
              i = 1 /\ server' = "none" /\ wire'[i].speed = plan'.speed /\ wire'[i].left = plan'.distance
      BY <1>1, <2>1 DEF OneGoal, IsGoal
    <3> QED
      BY <2>1, <3>1 DEF OneGoal
  <2>3. PlanIsSafe'
    BY <2>1 DEF PlanIsSafe
  <2>4. WatchIsSafe'
    BY <1>1, <2>1 DEF WatchIsSafe, IsGoal
  <2> QED
    BY <2>2, <2>3, <2>4
<1> QED
  BY <1>2, <1>3 DEF FloorInv, Fixed

LEMMA LinkDropsFloor == ASSUME DriveInv, FloorInv, LinkDrops PROVE FloorInv'
<1>1. /\ call' = "over" /\ wire' \in {wire, <<>>} /\ scan' \in {scan, Nothing} /\ call # "idle"
      /\ alone' = TRUE /\ UNCHANGED <<ask, plan, profile, start, robot, server>>
  BY DEF LinkDrops
<1> QED
  BY <1>1, OverFloor

LEMMA ReturnFloor == ASSUME DriveInv, FloorInv, Return PROVE FloorInv'
<1>1. /\ call = "waiting" /\ call' = "over" /\ inbox # Nothing /\ wire' \in {wire, <<>>}
      /\ scan' \in {scan, Nothing}
      /\ UNCHANGED <<ask, plan, profile, start, robot, server, alone>>
  BY DEF Return, world
<1>2. ASSUME Fixed, ~alone'
      PROVE  /\ server # "driving" /\ \A i \in DOMAIN wire : ~IsGoal(i)
             /\ server \in Ends => robot.v * robot.v <= robot.room
  <2>1. OneGoal /\ WatchIsSafe /\ ~alone
    BY <1>1, <1>2 DEF FloorInv, Fixed
  <2>2. server \in Ends /\ robot.v * robot.v <= robot.room
    BY <1>1, <2>1 DEF WatchIsSafe
  <2>3. server # "driving" /\ server # "none"
    BY <2>2 DEF Ends
  <2> QED
    BY <2>1, <2>2, <2>3 DEF OneGoal
<1> QED
  BY <1>1, <1>2, OverFloor

LEMMA LeaveFloor == ASSUME DriveInv, FloorInv, Leave PROVE FloorInv'
<1>1. /\ call = "waiting" /\ call' = "left" /\ alone' = TRUE
      /\ UNCHANGED <<ask, plan, profile, start, robot, server, wire, scan, seen, guard, inbox>>
  BY DEF Leave, world
<1>2. (Setting /\ AtRest /\ AgesFall)'
  BY <1>1 DEF FloorInv, Setting, AtRest, AgesFall
<1>3. ASSUME Fixed' PROVE (OneGoal /\ PlanIsSafe /\ WatchIsSafe)'
  <2>1. OneGoal /\ PlanIsSafe
    BY <1>1, <1>3 DEF FloorInv, Fixed
  <2> QED
    BY <1>1, <2>1 DEF OneGoal, PlanIsSafe, WatchIsSafe, IsGoal
<1> QED
  BY <1>2, <1>3 DEF FloorInv, Fixed

LEMMA ResumeFloor == ASSUME DriveInv, FloorInv, Resume PROVE FloorInv'
<1>1. /\ call = "left" /\ UNCHANGED <<ask, plan, profile, start, robot, server, wire, scan, inbox, alone>>
  BY DEF Resume, world
<1>2. Fixed => alone
  BY <1>1 DEF FloorInv, Fixed, WatchIsSafe
<1>3. CASE call' = "over"
  BY <1>1, <1>2, <1>3, OverFloor
<1>4. CASE call' = "waiting" /\ UNCHANGED <<guard, seen>>
  <2>1. (Setting /\ AtRest /\ AgesFall)'
    BY <1>1, <1>4 DEF FloorInv, Setting, AtRest, AgesFall
  <2>2. ASSUME Fixed' PROVE (OneGoal /\ PlanIsSafe /\ WatchIsSafe)'
    <3>1. OneGoal /\ PlanIsSafe /\ alone
      BY <1>1, <1>2, <2>2 DEF FloorInv, Fixed
    <3> QED
      BY <1>1, <1>4, <3>1 DEF OneGoal, PlanIsSafe, WatchIsSafe, IsGoal
  <2> QED
    BY <2>1, <2>2 DEF FloorInv, Fixed
<1> QED
  BY <1>3, <1>4 DEF Resume

LEMMA ResultFloor == ASSUME DriveInv, FloorInv, Result PROVE FloorInv'
<1>1. /\ server \in Ends /\ inbox' = server /\ call \in {"waiting", "left"} /\ looked' = FALSE
      /\ UNCHANGED <<call, ask, plan, profile, start, robot, server, wire, scan, seen, guard, alone>>
  BY DEF Result, world, Ends
<1>2. (Setting /\ AtRest /\ AgesFall)'
  BY <1>1 DEF FloorInv, Setting, AtRest, AgesFall
<1>3. ASSUME Fixed' PROVE (OneGoal /\ PlanIsSafe /\ WatchIsSafe)'
  <2>1. OneGoal /\ PlanIsSafe /\ WatchIsSafe
    BY <1>1, <1>3 DEF FloorInv, Fixed
  <2>2. (OneGoal /\ PlanIsSafe)'
    BY <1>1, <2>1 DEF OneGoal, PlanIsSafe, IsGoal
  <2>3. SeenRoom => SeenRoom'
    BY <1>1 DEF SeenRoom
  <2>4. WatchIsSafe'
    <3> SUFFICES ASSUME ~alone' PROVE WatchIsSafe'
      BY DEF WatchIsSafe
    <3>1. /\ robot.v * robot.v <= robot.room /\ call = "waiting" /\ (guard.trip = NoTrip => SeenRoom)
          /\ scan # Nothing => scan.age <= Delay /\ scan.room - 2 * plan.speed * scan.age <= robot.room
      BY <1>1, <2>1 DEF WatchIsSafe
    <3>2. server # "none"
      BY <1>1 DEF Ends
    <3> QED
      BY <1>1, <2>3, <3>1, <3>2 DEF WatchIsSafe
  <2> QED
    BY <2>2, <2>4
<1> QED
  BY <1>2, <1>3 DEF FloorInv, Fixed

(* What a look or a scan leaves of a guard that may send one goal.           *)
LEMMA GuardStaysPlain ==
  ASSUME DriveInv, ~guard.resends, guard.slowTo = Nothing
  PROVE  /\ \A cause \in Trips : Trip(guard, cause).slowTo = Nothing /\ ~Trip(guard, cause).resends
         /\ Fresh.slowTo = Nothing /\ ~Fresh.resends
         /\ \A room, v : Judged(room, v) = IF RunsOut(room, Faster(v)) THEN Trip(guard, "clearance") ELSE guard
<1>1. guard \in Guards /\ "stale" \in Trips
  BY DEF DriveInv, DriveTyped, GuardTyped, Trips
<1>2. \A cause \in Trips : Trip(guard, cause).slowTo = Nothing /\ ~Trip(guard, cause).resends
  BY <1>1 DEF Trip, Guards
<1>3. Fresh = guard \/ Fresh = Trip(guard, "stale")
  BY DEF Fresh
<1>4. \A room, v : Judged(room, v) = IF RunsOut(room, Faster(v)) THEN Trip(guard, "clearance") ELSE guard
  BY DEF Judged
<1> QED
  BY <1>1, <1>2, <1>3, <1>4

(* There is room for what a command sent now takes, whoever stops the drive.  *)
LEMMA RoomForCommand ==
  ASSUME DriveInv, RoomAhead, plan.speed \in Nat, ~guard.stopSent
  PROVE  Need(Latest) <= robot.room
<1>1. guard \in Guards /\ robot.room \in Int
  BY DEF DriveInv, DriveTyped, GuardTyped, RobotTyped, Robots
<1>2. Latest \in Nat
  BY DriveAssumption DEF Latest
<1> DEFINE n == Latest + IF looked THEN 1 ELSE 0
<1>3. n \in Int /\ Latest \in Int /\ Latest <= n
  BY <1>2
<1>4. CASE guard.trip = NoTrip
  <2>1. Need(n) <= robot.room
    BY <1>4 DEF RoomAhead
  <2> HIDE DEF n
  <2>2. Need(Latest) <= Need(n) /\ Need(Latest) \in Int /\ Need(n) \in Int
    BY <1>3, NeedGrows
  <2> QED
    BY <1>1, <2>1, <2>2
<1>5. CASE guard.trip # NoTrip
  BY <1>5 DEF RoomAhead
<1> QED
  BY <1>4, <1>5

LEMMA ReceiveFloor ==
  ASSUME FloorAssumption, DriveInv, FloorInv, NEW readable \in BOOLEAN, Receive(readable)
  PROVE  FloorInv'
<1>1. /\ scan # Nothing /\ call # "over" /\ scan' = Nothing /\ looked' = FALSE
      /\ seen' = [room |-> IF readable THEN scan.room ELSE seen.room, v |-> scan.v, age |-> 0]
      /\ guard' = IF guard.trip # NoTrip THEN guard
                  ELSE IF ~readable THEN Trip(guard, "blind") ELSE Judged(Sensed(scan.room), scan.v)
      /\ UNCHANGED <<call, ask, plan, profile, start, robot, server, wire, inbox, alone>>
  BY DEF Receive
<1>2. scan \in Scans /\ seen \in Sights /\ guard \in Guards /\ robot \in Robots
  BY <1>1 DEF DriveInv, DriveTyped, ScanTyped, GuardTyped, RobotTyped
<1>3. /\ call # "idle" /\ seen'.v = scan.v /\ seen'.age = 0
      /\ seen'.room = IF readable THEN scan.room ELSE seen.room
  BY <1>1 DEF DriveInv, NothingYet
<1>4. (Setting /\ AtRest /\ AgesFall)'
  BY <1>1, <1>3 DEF FloorInv, Setting, AtRest, AgesFall
<1>5. ASSUME Fixed' PROVE (OneGoal /\ PlanIsSafe /\ WatchIsSafe)'
  <2>1. OneGoal /\ PlanIsSafe /\ WatchIsSafe /\ Setting
    BY <1>1, <1>3, <1>5 DEF FloorInv, Fixed
  <2>2. /\ call \in {"waiting", "left"} /\ plan.speed \in Nat /\ guard.speed = plan.speed
        /\ guard.slowTo = Nothing /\ ~guard.resends /\ scan.v <= plan.speed
    BY <1>1, <1>3, <2>1 DEF OneGoal, DriveInv, DriveTyped, CallTyped, PlanTyped
  <2>3. "blind" \in Trips /\ "clearance" \in Trips /\ "blind" # NoTrip /\ "clearance" # NoTrip
    BY DriveAssumption DEF Trips
  <2>4. guard' \in {guard, Trip(guard, "blind"), Trip(guard, "clearance")}
    BY <1>1, <2>2, GuardStaysPlain
  <2>5. /\ guard'.speed = plan.speed /\ guard'.slowTo = Nothing /\ ~guard'.resends
        /\ guard'.stopSent = guard.stopSent
    BY <1>2, <2>2, <2>3, <2>4, TripOnly, GuardStaysPlain
  <2>6. (OneGoal /\ PlanIsSafe)'
    BY <1>1, <1>3, <2>1, <2>2, <2>5 DEF OneGoal, PlanIsSafe, IsGoal
  <2>7. WatchIsSafe'
    <3> SUFFICES ASSUME ~alone' PROVE WatchIsSafe'
      BY DEF WatchIsSafe
    <3>1. /\ ~alone /\ call = "waiting"
          /\ scan.age <= Delay /\ scan.room - 2 * plan.speed * scan.age <= robot.room
      BY <1>1, <2>1, <2>2 DEF WatchIsSafe
    <3>2. ASSUME server \notin Ends PROVE RoomAhead'
      <4>1. RoomAhead
        BY <2>1, <3>1, <3>2 DEF WatchIsSafe
      <4>2. StopOnTheWay = StopOnTheWay'
        BY <1>1 DEF StopOnTheWay, IsGoal, Need
      <4>3. ~guard.stopSent => Need(Latest) <= robot.room
        BY <2>2, <4>1, RoomForCommand
      <4>4. Need(Latest + IF looked THEN 1 ELSE 0)' = Need(Latest) /\ Need(Latest)' = Need(Latest)
        <5>1. Latest + 0 = Latest
          BY DriveAssumption DEF Latest
        <5> QED
          BY <1>1, <5>1 DEF Need
      <4>5. guard'.trip = NoTrip => ~guard.stopSent
        <5>1. DriveInv'
          BY ReceiveKeeps
        <5> QED
          BY <2>5, <5>1 DEF DriveInv, CancelIsSent
      <4>6. guard.stopSent => StopOnTheWay
        BY <4>1 DEF RoomAhead
      <4> QED
        BY <1>1, <2>5, <4>2, <4>3, <4>4, <4>5, <4>6 DEF RoomAhead
    <3>3. ASSUME guard'.trip = NoTrip PROVE SeenRoom'
      <4>1. guard.trip = NoTrip /\ readable /\ ~RunsOut(Sensed(scan.room), Faster(scan.v))
        <5>1. Trip(guard, "blind").trip # NoTrip /\ Trip(guard, "clearance").trip # NoTrip
          BY <1>2, <2>3, TripOnly
        <5> QED
          BY <1>1, <2>2, <3>3, <5>1, GuardStaysPlain
      <4>2. scan.v \in Int /\ scan.room \in Int /\ scan.age \in Nat /\ robot.room \in Int
        BY <1>2 DEF Scans, Robots
      <4>3. Faster(scan.v) = plan.speed
        BY <2>2, <4>2, MaxOfTwo DEF Faster
      <4>4. Sensed(scan.room) = Open \/ StoppingDistance(profile, plan.speed) <= scan.room
        <5>1. StoppingDistance(profile, plan.speed) \in Nat
          BY <2>1, <2>2, StoppingIsNeed DEF Setting
        <5>2. Sensed(scan.room) # Open => Sensed(scan.room) = scan.room
          BY DEF Sensed
        <5> QED
          BY <4>1, <4>2, <4>3, <5>1, <5>2 DEF RunsOut
      <4>5. /\ 2 * plan.speed * scan.age <= 2 * plan.speed * (0 + Delay)
            /\ 2 * plan.speed * scan.age \in Int /\ 2 * plan.speed * (0 + Delay) \in Int
        <5> DEFINE w == 2 * plan.speed
                   a == scan.age
        <5>1. w \in Nat /\ Delay \in Nat /\ a \in Int /\ a <= 0 + Delay /\ 0 + Delay \in Int
          BY <2>2, <3>1, <4>2, DriveAssumption
        <5> HIDE DEF w, a
        <5>2. w * a <= w * (0 + Delay) /\ w * a \in Int /\ w * (0 + Delay) \in Int
          BY <5>1, ProductGrows
        <5> QED
          BY <5>2 DEF w, a
      <4> DEFINE x == 2 * plan.speed * scan.age
                 y == 2 * plan.speed * (0 + Delay)
      <4>6. x <= y /\ x \in Int /\ y \in Int /\ scan.room - x <= robot.room
        BY <3>1, <4>5
      <4>7. seen'.room - 2 * plan'.speed * (seen'.age + Delay) = scan.room - y
        BY <1>1, <1>3, <4>1
      <4> HIDE DEF x, y
      <4>8. seen'.room - 2 * plan'.speed * (seen'.age + Delay) <= robot'.room
        BY <1>1, <4>2, <4>6, <4>7
      <4>9. Sensed(seen'.room) = Open \/ StoppingDistance(profile', plan'.speed) <= seen'.room
        BY <1>1, <1>3, <4>1, <4>4
      <4>10. OldestAge \in Nat /\ 0 < OldestAge
        BY DriveAssumption
      <4> QED
        BY <1>1, <1>3, <4>8, <4>9, <4>10 DEF SeenRoom
    <3> QED
      BY <1>1, <2>1, <3>1, <3>2, <3>3 DEF WatchIsSafe, IsGoal
  <2> QED
    BY <2>6, <2>7
<1> QED
  BY <1>4, <1>5 DEF FloorInv, Fixed

-----------------------------------------------------------------------------
(* A command that is sent is the youngest on the wire.                       *)
LEMMA SentYoungest ==
  ASSUME AgesFall, wire \in Seq(Commands), NEW c \in Commands, c.age = 0, wire' = Append(wire, c)
  PROVE  AgesFall'
<1> DEFINE last == Len(wire) + 1
<1>1. /\ wire' \in Seq(Commands) /\ wire'[last] = c
      /\ \A i \in DOMAIN wire' : i \in Nat /\ (i \in DOMAIN wire \/ i = last)
      /\ \A i \in DOMAIN wire : i \in DOMAIN wire' /\ wire'[i] = wire[i] /\ i < last
  BY SentLast
<1>2. last \in Nat /\ Latest \in Nat
  BY DriveAssumption DEF Latest
<1> HIDE DEF last
<1>3. \A i \in DOMAIN wire : wire[i].age \in Nat
  <2>1. \A i \in DOMAIN wire : wire[i] \in Commands
    OBVIOUS
  <2> QED
    BY <2>1 DEF Commands
<1>4. ASSUME NEW i \in DOMAIN wire', NEW j \in DOMAIN wire', i < j
      PROVE  wire'[j].age <= wire'[i].age
  <2>1. CASE j = last
    <3>1. i \in DOMAIN wire /\ wire'[i] = wire[i]
      BY <1>1, <1>2, <1>4, <2>1
    <3> QED
      BY <1>1, <1>3, <2>1, <3>1
  <2>2. CASE j # last
    <3>1. j \in DOMAIN wire /\ wire'[j] = wire[j] /\ j < last /\ i \in Nat /\ j \in Nat
      BY <1>1, <1>4, <2>2
    <3>2. i \in DOMAIN wire /\ wire'[i] = wire[i]
      BY <1>1, <1>2, <1>4, <3>1
    <3> QED
      BY <1>4, <3>1, <3>2 DEF AgesFall
  <2> QED
    BY <2>1, <2>2
<1>5. ASSUME NEW i \in DOMAIN wire' PROVE wire'[i].age <= Latest
  BY <1>1, <1>2 DEF AgesFall
<1> QED
  BY <1>4, <1>5 DEF AgesFall

LEMMA BrakeFloor == ASSUME FloorAssumption, DriveInv, FloorInv, Brake PROVE FloorInv'
<1> DEFINE g == Fresh
           c == StopCommand
           last == Len(wire) + 1
<1>1. /\ call = "waiting" /\ inbox = Nothing /\ ~guard.stopSent /\ looked' = TRUE
      /\ g.trip # NoTrip /\ guard' = [g EXCEPT !.stopSent = TRUE] /\ wire' = Append(wire, c)
      /\ UNCHANGED <<call, ask, plan, profile, start, robot, server, scan, seen, inbox, alone>>
  BY DEF Brake, Looking
<1>2. wire \in Seq(Commands) /\ c \in Commands /\ c.op = "cancel" /\ c.age = 0
  BY DEF DriveInv, DriveTyped, WireTyped, StopCommand, Command, Commands
<1>3. g \in Guards /\ g.speed = guard.speed
  BY FreshType
<1> HIDE DEF g, c
<1>4. /\ guard'.slowTo = g.slowTo /\ guard'.speed = g.speed /\ guard'.trip = g.trip
      /\ guard'.resends = g.resends
  BY <1>1, <1>3 DEF Guards
<1>5. guard'.stopSent
  BY <1>1, <1>3 DEF Guards
<1>6. /\ wire'[last] = c /\ last \in DOMAIN wire'
      /\ \A i \in DOMAIN wire' : i \in Nat /\ (i \in DOMAIN wire \/ i = last)
      /\ \A i \in DOMAIN wire : i \in DOMAIN wire' /\ wire'[i] = wire[i] /\ i < last
  BY <1>1, <1>2, SentLast
<1> HIDE DEF last
<1>7. \A i \in DOMAIN wire' : IsGoal(i)' => i \in DOMAIN wire /\ IsGoal(i) /\ wire'[i] = wire[i]
  BY <1>2, <1>6 DEF IsGoal
<1>8. (Setting /\ AtRest)'
  BY <1>1 DEF FloorInv, Setting, AtRest
<1>9. AgesFall'
  BY <1>1, <1>2, SentYoungest DEF FloorInv
<1>10. ASSUME Fixed' PROVE (OneGoal /\ PlanIsSafe /\ WatchIsSafe)'
  <2>1. OneGoal /\ PlanIsSafe /\ WatchIsSafe /\ Setting
    BY <1>1, <1>10 DEF FloorInv, Fixed
  <2>2. /\ plan.speed \in Nat /\ guard.speed = plan.speed /\ guard.slowTo = Nothing /\ ~guard.resends
        /\ robot.room \in Int
    BY <1>1, <2>1 DEF OneGoal, DriveInv, DriveTyped, PlanTyped, RobotTyped, Robots
  <2>3. guard'.slowTo = Nothing /\ guard'.speed = plan.speed /\ ~guard'.resends
    BY <1>3, <1>4, <2>2, GuardStaysPlain DEF g
  <2>4. OneGoal'
    <3>1. \A i \in DOMAIN wire' : IsGoal(i)' =>
              i = 1 /\ server' = "none" /\ wire'[i].speed = plan'.speed /\ wire'[i].left = plan'.distance
      BY <1>1, <1>7, <2>1 DEF OneGoal
    <3> QED
      BY <1>1, <2>1, <2>3, <3>1 DEF OneGoal
  <2>5. PlanIsSafe'
    BY <1>1, <2>1 DEF PlanIsSafe
  <2>6. WatchIsSafe'
    <3> SUFFICES ASSUME ~alone' PROVE WatchIsSafe'
      BY DEF WatchIsSafe
    <3>1. /\ server = "none" => wire # <<>> /\ IsGoal(1)
          /\ scan # Nothing => scan.age <= Delay /\ scan.room - 2 * plan.speed * scan.age <= robot.room
          /\ server \in Ends => robot.v * robot.v <= robot.room
          /\ server \notin Ends => RoomAhead
      BY <1>1, <2>1 DEF WatchIsSafe
    <3>2. server = "none" => wire' # <<>> /\ IsGoal(1)'
      <4> SUFFICES ASSUME server = "none" PROVE wire' # <<>> /\ IsGoal(1)'
        OBVIOUS
      <4>1. wire # <<>> /\ 1 \in DOMAIN wire /\ IsGoal(1)
        BY <1>2, <3>1
      <4>2. 1 \in DOMAIN wire' /\ wire'[1] = wire[1]
        BY <1>6, <4>1
      <4>3. wire' # <<>>
        BY <1>1, <1>2
      <4> QED
        BY <4>1, <4>2, <4>3 DEF IsGoal
    <3>3. ASSUME server \notin Ends PROVE RoomAhead'
      <4>1. Need(Latest) <= robot.room
        BY <1>1, <2>2, <3>1, <3>3, RoomForCommand
      <4>2. wire'[last].op # "goal" /\ Latest - wire'[last].age = Latest
        <5>1. Latest \in Nat
          BY DriveAssumption DEF Latest
        <5> QED
          BY <1>2, <1>6, <5>1
      <4>3. 2 * plan'.speed * (Latest - wire'[last].age) + plan'.speed * plan'.speed <= robot'.room
        BY <1>1, <4>1, <4>2 DEF Need
      <4>4. StopOnTheWay'
        <5>1. \E i \in DOMAIN wire' :
                 /\ wire'[i].op # "goal"
                 /\ 2 * plan'.speed * (Latest - wire'[i].age) + plan'.speed * plan'.speed <= robot'.room
          BY <1>6, <4>2, <4>3
        <5> QED
          BY <5>1 DEF StopOnTheWay, Need, IsGoal, Latest
      <4> QED
        BY <1>1, <1>4, <1>5, <4>4 DEF RoomAhead
    <3> QED
      BY <1>1, <1>4, <3>1, <3>2, <3>3 DEF WatchIsSafe
  <2> QED
    BY <2>4, <2>5, <2>6
<1> QED
  BY <1>8, <1>9, <1>10 DEF FloorInv, Fixed

LEMMA SlowDownFloor == ASSUME DriveInv, FloorInv, SlowDown PROVE FloorInv'
<1> DEFINE c == DriveGoal(guard.slowTo, Remaining)
<1>1. /\ call = "waiting" /\ guard.slowTo # Nothing /\ wire' = Append(wire, c)
      /\ UNCHANGED <<call, ask, plan, profile, start, robot, server, scan, seen, inbox, alone>>
  BY DEF SlowDown, Looking
<1>2. c \in Commands /\ c.age = 0 /\ wire \in Seq(Commands)
  <2>1. guard.slowTo \in Nat /\ wire \in Seq(Commands)
    BY <1>1 DEF DriveInv, DriveTyped, GuardTyped, Guards, WireTyped
  <2>2. plan.distance \in Nat /\ start \in Int /\ seen.room \in Int
    BY <1>1 DEF DriveInv, DriveTyped, PlanTyped, AskTyped, ScanTyped, Sights
  <2>3. Remaining \in Int
    BY <2>2 DEF Remaining
  <2> QED
    BY <2>1, <2>3 DEF DriveGoal, Command, Commands
<1> HIDE DEF c
<1>3. (Setting /\ AtRest)'
  BY <1>1 DEF FloorInv, Setting, AtRest
<1>4. AgesFall'
  BY <1>1, <1>2, SentYoungest DEF FloorInv
<1>5. ~Fixed'
  BY <1>1 DEF FloorInv, Fixed, OneGoal
<1> QED
  BY <1>3, <1>4, <1>5 DEF FloorInv, Fixed

LEMMA LookOnFloor == ASSUME FloorAssumption, DriveInv, FloorInv, LookOn PROVE FloorInv'
<1> DEFINE g == Fresh
<1>1. /\ call = "waiting" /\ inbox = Nothing /\ looked' = TRUE /\ (g.trip # NoTrip => guard.stopSent)
      /\ guard' = [g EXCEPT !.slowTo = Nothing]
      /\ UNCHANGED <<call, ask, plan, profile, start, robot, server, wire, scan, seen, inbox, alone>>
  BY DEF LookOn, Looking
<1>2. /\ g \in Guards /\ g.speed = guard.speed /\ g.stopSent = guard.stopSent
      /\ guard.trip # NoTrip => g.trip # NoTrip
  BY FreshType
<1> HIDE DEF g
<1>3. /\ guard'.slowTo = Nothing /\ guard'.speed = guard.speed /\ guard'.trip = g.trip
      /\ guard'.stopSent = guard.stopSent /\ guard'.resends = g.resends
  BY <1>1, <1>2 DEF Guards
<1>4. (Setting /\ AtRest /\ AgesFall)'
  BY <1>1 DEF FloorInv, Setting, AtRest, AgesFall
<1>5. ASSUME Fixed' PROVE (OneGoal /\ PlanIsSafe /\ WatchIsSafe)'
  <2>1. OneGoal /\ PlanIsSafe /\ WatchIsSafe /\ Setting
    BY <1>1, <1>5 DEF FloorInv, Fixed
  <2>2. guard.slowTo = Nothing /\ ~guard.resends
    BY <1>1, <2>1 DEF OneGoal
  <2>3. ~guard'.resends
    BY <1>3, <2>2, GuardStaysPlain DEF g
  <2>4. (OneGoal /\ PlanIsSafe)'
    BY <1>1, <1>3, <2>1, <2>3 DEF OneGoal, PlanIsSafe, IsGoal
  <2>5. WatchIsSafe'
    <3> SUFFICES ASSUME ~alone' PROVE WatchIsSafe'
      BY DEF WatchIsSafe
    <3>1. /\ server = "none" => wire # <<>> /\ IsGoal(1)
          /\ scan # Nothing => scan.age <= Delay /\ scan.room - 2 * plan.speed * scan.age <= robot.room
          /\ server \in Ends => robot.v * robot.v <= robot.room
          /\ server \notin Ends => RoomAhead
          /\ guard.trip = NoTrip => SeenRoom
      BY <1>1, <2>1 DEF WatchIsSafe
    <3>2. guard'.trip = NoTrip =>
              /\ seen.age < OldestAge /\ Need(Latest + 1) <= robot.room /\ SeenRoom /\ ~guard.stopSent
      <4> SUFFICES ASSUME guard'.trip = NoTrip
                   PROVE  /\ seen.age < OldestAge /\ Need(Latest + 1) <= robot.room /\ SeenRoom
                          /\ ~guard.stopSent
        OBVIOUS
      <4>1. guard.trip = NoTrip /\ Fresh.trip = NoTrip
        BY <1>2, <1>3 DEF g
      <4>2. ~guard.stopSent
        BY <4>1 DEF DriveInv, CancelIsSent
      <4> QED
        BY <1>1, <2>1, <3>1, <4>1, <4>2, LookLasts
    <3>3. ASSUME server \notin Ends PROVE RoomAhead'
      <4>1. StopOnTheWay = StopOnTheWay'
        BY <1>1 DEF StopOnTheWay, IsGoal, Need
      <4>2. Need(Latest + IF looked THEN 1 ELSE 0)' = Need(Latest + 1)
        BY <1>1 DEF Need
      <4>3. guard.stopSent => StopOnTheWay
        BY <3>1, <3>3 DEF RoomAhead
      <4>4. guard'.trip # NoTrip => guard'.stopSent
        BY <1>1, <1>3
      <4> QED
        BY <1>1, <1>3, <3>2, <4>1, <4>2, <4>3, <4>4 DEF RoomAhead
    <3>4. guard'.trip = NoTrip => SeenRoom'
      BY <1>1, <3>2 DEF SeenRoom
    <3> QED
      BY <1>1, <3>1, <3>3, <3>4 DEF WatchIsSafe, IsGoal
  <2> QED
    BY <2>4, <2>5
<1> QED
  BY <1>4, <1>5 DEF FloorInv, Fixed

LEMMA FloorStill == ASSUME FloorInv, UNCHANGED driveVars PROVE FloorInv'
<1>1. UNCHANGED <<call, ask, plan, profile, start, robot, server, wire, scan, seen, guard, inbox, looked, alone>>
  BY DEF driveVars
<1>2. (Setting /\ AtRest /\ AgesFall)'
  BY <1>1 DEF FloorInv, Setting, AtRest, AgesFall
<1>3. Fixed' => OneGoal /\ PlanIsSafe /\ WatchIsSafe
  BY <1>1 DEF FloorInv, Fixed
<1>4. (OneGoal => OneGoal') /\ (PlanIsSafe => PlanIsSafe')
  BY <1>1 DEF OneGoal, PlanIsSafe, IsGoal
<1>5. RoomAhead => RoomAhead'
  BY <1>1 DEF RoomAhead, StopOnTheWay, IsGoal, Need
<1>6. SeenRoom => SeenRoom'
  BY <1>1 DEF SeenRoom
<1>7. WatchIsSafe => WatchIsSafe'
  BY <1>1, <1>5, <1>6 DEF WatchIsSafe, IsGoal
<1> QED
  BY <1>2, <1>3, <1>4, <1>7 DEF FloorInv, Fixed

LEMMA FloorKeeps ==
  ASSUME FloorAssumption, DriveInv, FloorInv, [DriveNext]_driveVars
  PROVE  FloorInv'
<1>0. DriveInv'
  BY DriveKeeps
<1>1. CASE Begin
  BY <1>0, <1>1, BeginFloor
<1>2. CASE Tick
  BY <1>2, TickFloor
<1>3. CASE Arrive
  BY <1>3, ArriveFloor
<1>4. CASE ServerAborts
  BY <1>4, ServerAbortsFloor
<1>5. CASE LinkDrops
  BY <1>5, LinkDropsFloor
<1>6. CASE \E readable \in BOOLEAN : Receive(readable)
  BY <1>6, ReceiveFloor
<1>7. CASE Result
  BY <1>7, ResultFloor
<1>8. CASE Brake
  BY <1>8, BrakeFloor
<1>9. CASE SlowDown
  BY <1>9, SlowDownFloor
<1>10. CASE LookOn
  BY <1>10, LookOnFloor
<1>11. CASE Leave
  BY <1>11, LeaveFloor
<1>12. CASE Resume
  BY <1>12, ResumeFloor
<1>13. CASE Return
  BY <1>13, ReturnFloor
<1>14. CASE UNCHANGED driveVars
  BY <1>14, FloorStill
<1> QED
  BY <1>1, <1>2, <1>3, <1>4, <1>5, <1>6, <1>7, <1>8, <1>9, <1>10, <1>11, <1>12, <1>13, <1>14 DEF DriveNext

(* FloorHeld of every drive whose server is sent one goal: while somebody     *)
(* waits for it, or when it was planned from a room that was seen, the robot  *)
(* does not come to rest inside the clearance floor, and at no moment is it   *)
(* inside it; whatever becomes of its scans, of its commands and of the link. *)
THEOREM OneGoalKeepsTheFloor ==
  ASSUME FloorAssumption
  PROVE  DriveSpec => []((call # "idle" => ~plan.resends) => FloorHeld)
<1>1. DriveInit => DriveInv /\ FloorInv
  BY DriveStarts, FloorStarts
<1>2. DriveInv /\ FloorInv /\ [DriveNext]_driveVars => (DriveInv /\ FloorInv)'
  BY DriveKeeps, FloorKeeps
<1>3. DriveInv /\ FloorInv => ((call # "idle" => ~plan.resends) => FloorHeld)
  <2> SUFFICES ASSUME DriveInv, FloorInv, call # "idle" => ~plan.resends,
                      ~alone \/ (plan # Nothing /\ ~plan.resends /\ Sensed(start) # Open)
               PROVE  robot.room >= 0
    BY DEF FloorHeld
  <2>1. robot.v \in Nat /\ robot.room \in Int /\ start \in Nat /\ guard \in Guards /\ wire \in Seq(Commands)
        /\ server \in {"none", "driving"} \cup Ends
    BY DriveAssumption DEF DriveInv, DriveTyped, RobotTyped, Robots, GuardTyped, WireTyped, FloorInv, Setting
  <2>2. CASE call = "idle"
    BY <2>1, <2>2 DEF DriveInv, NothingYet
  <2>3. CASE call # "idle"
    <3>1. OneGoal /\ PlanIsSafe /\ WatchIsSafe /\ AgesFall /\ Setting
      BY <2>3 DEF FloorInv
    <3>2. /\ plan.speed \in Nat /\ call \in {"waiting", "left", "over"} /\ robot.v <= plan.speed
      BY <2>3, <3>1 DEF DriveInv, DriveTyped, PlanTyped, CallTyped, OneGoal
    <3>3. robot.v * robot.v <= robot.room => robot.room >= 0
      <4>1. robot.v * robot.v \in Nat
        BY <2>1
      <4> QED
        BY <2>1, <4>1
    <3>4. CASE server = "none"
      BY <2>1, <3>1, <3>4 DEF OneGoal
    <3>5. CASE server \in Ends
      BY <3>1, <3>3, <3>5 DEF PlanIsSafe, WatchIsSafe
    <3>6. CASE server = "driving" /\ ~alone
      <4>1. call = "waiting" /\ server \notin Ends
        BY <3>1, <3>2, <3>6 DEF WatchIsSafe, Ends
      <4>2. RoomAhead
        BY <3>1, <3>6, <4>1 DEF WatchIsSafe
      <4> QED
        BY <3>1, <3>2, <3>3, <4>2, RoomForSpeed
    <3>7. CASE server = "driving" /\ Sensed(start) # Open
      <4>1. robot.left >= 0 /\ robot.left + StoppingDistance(profile, plan.speed) <= robot.room
        BY <3>1, <3>7 DEF OneGoal, PlanIsSafe
      <4> QED
        BY <3>1, <3>2, <3>3, <4>1, PlanHasRoom
    <3> QED
      BY <2>1, <3>4, <3>5, <3>6, <3>7
  <2> QED
    BY <2>2, <2>3
<1> QED
  BY <1>1, <1>2, <1>3, PTL DEF DriveSpec
===============================================================================
