----------------------------- MODULE Records_proofs -----------------------------
(***************************************************************************)
(* Theorems about five keepers of records: the grants of motions on ROS 2    *)
(* (ExecutionAuthority), for any manifests, plans, graph and clocks; the     *)
(* tasks of a fleet (FleetDispatch), for any number of callers and calls;    *)
(* the gates of a handoff (GuardedHandoff), for any policy and any script;   *)
(* the limits of a site (SiteLimits), for any profiles, jobs and number of   *)
(* requests; and the journal of a device's events (EventJournal), for any    *)
(* number of writers and any bound on what is kept.                          *)
(***************************************************************************)
EXTENDS ExecutionAuthority, FleetDispatch, GuardedHandoff, SiteLimits, EventJournal, SequenceTheorems,
        FiniteSetTheorems, TLAPS

-----------------------------------------------------------------------------
(* Grants of motions.                                                        *)
AuthoritySpec == AuthorityInit /\ [][AuthorityNext]_authorityVars

(* The installed manifest is one the parser accepts, and the history tells   *)
(* of every part of the graph when it was up last.                           *)
GraphInv ==
    /\ now \in Int /\ manifest \in Manifest /\ ManifestAccepted(manifest)
    /\ up \subseteq Parts /\ lastUp \in [Parts -> Int]
    /\ \A part \in up : lastUp[part] = now
    /\ \A part \in Parts : lastUp[part] <= now

(* What a probe found was up since the probe began, which is not long ago.   *)
ProbeInv ==
    probe # Nothing =>
        /\ probe \in [profile : Manifest, seen : SUBSET Parts, looked : SUBSET Parts, since : Int]
        /\ ManifestAccepted(probe.profile)
        /\ probe.since <= now /\ now <= probe.since + 1
        /\ \A part \in probe.seen : lastUp[part] >= probe.since

UpSince(part, time) == part \in Parts /\ lastUp[part] >= time

(* What a snapshot calls ready was up little before the time it is dated.    *)
SnapshotIsTrue(r) ==
    /\ r.profile \in Manifest /\ ManifestAccepted(r.profile)
    /\ r.observed \in Int /\ r.maxAge = SnapshotAge
    /\ r.stop => UpSince("stop", r.observed - FutureSkew - 1)
    /\ \A s \in r.adapters, a \in r.profile.adapters :
          InService(s) /\ s.id = a.id =>
              \A part \in {a.id} \cup a.nodes : UpSince(part, r.observed - FutureSkew - 1)

(* A grant binds the one endpoint it was issued for.                         *)
GrantIsSound(g) ==
    /\ ~g.step.leaseOnly /\ g.step.adapter = g.adapter /\ g.step.capability = g.capability
    /\ g.step.confirm => g.confirmed

AuthorityInv ==
    /\ GraphInv /\ ProbeInv
    /\ \A r \in runtimes : SnapshotIsTrue(r)
    /\ \A g \in grants : GrantIsSound(g)
    /\ AuthorityIsCurrent

-----------------------------------------------------------------------------
(* The constants' ranges, as the provers want them.                          *)
LEMMA Ages == SnapshotAge \in Nat /\ FutureSkew \in Nat /\ MaxNow \in Nat
BY AuthorityAssumption

(* Time and the history only move forward.                                   *)
LEMMA Forward ==
  ASSUME GraphInv, [AuthorityNext]_authorityVars
  PROVE  now <= now' /\ \A part \in Parts : lastUp[part] <= lastUp'[part]
<1> USE DEF GraphInv
<1>1. CASE \E m \in Manifest : Install(m)
  BY <1>1 DEF Install
<1>2. CASE \E part \in Parts : Toggle(part)
  BY <1>2 DEF Toggle
<1>3. CASE \E part \in Parts : Look(part)
  BY <1>3 DEF Look
<1>4. CASE AuthorityTick
  <2>1. now' = now + 1 /\ lastUp' = Noted(up)
    BY <1>4 DEF AuthorityTick
  <2> QED
    BY <2>1 DEF Noted
<1>5. CASE ProbeStart \/ ProbeEnd
  BY <1>5 DEF ProbeStart, ProbeEnd
<1>6. ASSUME NEW r, NEW plan, NEW capability, NEW confirmed,
             Authorize(r, plan, capability, confirmed)
      PROVE  UNCHANGED <<now, lastUp>>
  BY <1>6 DEF Authorize
<1>7. ASSUME NEW g, NEW r, Prepare(g, r)
      PROVE  UNCHANGED <<now, lastUp>>
  BY <1>7 DEF Prepare
<1>8. CASE UNCHANGED authorityVars
  BY <1>8 DEF authorityVars
<1> QED
  BY <1>1, <1>2, <1>3, <1>4, <1>5, <1>6, <1>7, <1>8 DEF AuthorityNext

(* A snapshot that was true stays true.                                      *)
LEMMA SnapshotStays ==
  ASSUME GraphInv, GraphInv', [AuthorityNext]_authorityVars, NEW r, SnapshotIsTrue(r)
  PROVE  SnapshotIsTrue(r)'
<1>1. \A part \in Parts : lastUp[part] \in Int /\ lastUp'[part] \in Int /\ lastUp[part] <= lastUp'[part]
  BY Forward DEF GraphInv
<1>2. \A part, time : time \in Int /\ UpSince(part, time) => UpSince(part, time)'
  BY <1>1 DEF UpSince
<1>3. r.observed - FutureSkew - 1 \in Int
  BY Ages DEF SnapshotIsTrue
<1> QED
  BY <1>2, <1>3 DEF SnapshotIsTrue

(* The snapshot a probe ends with is true.                                   *)
LEMMA SnapshotTaken ==
  ASSUME GraphInv, ProbeInv, probe # Nothing, NEW ahead \in 0..FutureSkew
  PROVE  SnapshotIsTrue(Snapshot(probe, now + ahead))
<1> DEFINE r == Snapshot(probe, now + ahead)
<1>1. /\ r.profile = probe.profile /\ r.observed = now + ahead /\ r.maxAge = SnapshotAge
      /\ r.stop = ("stop" \in probe.seen)
      /\ \A s \in r.adapters : \E b \in probe.profile.adapters :
            s.id = b.id /\ (InService(s) => {b.id} \cup b.nodes \subseteq probe.seen)
  BY DEF Snapshot, InService
<1>2. /\ probe.since \in Int /\ probe.seen \subseteq Parts /\ probe.profile \in Manifest
      /\ now \in Int /\ lastUp \in [Parts -> Int]
      /\ ManifestAccepted(probe.profile) /\ now <= probe.since + 1
      /\ \A part \in probe.seen : lastUp[part] >= probe.since
  BY DEF ProbeInv, GraphInv
<1>3. \A part \in probe.seen : UpSince(part, now + ahead - FutureSkew - 1)
  BY <1>2, Ages DEF UpSince
<1>4. \A a, b \in probe.profile.adapters : a.id = b.id => a = b
  BY <1>2 DEF ManifestAccepted
<1> HIDE DEF r
<1>5. r.observed \in Int /\ r.observed - FutureSkew - 1 = now + ahead - FutureSkew - 1
  BY <1>1, <1>2, Ages
<1>6. ASSUME NEW s \in r.adapters, NEW a \in r.profile.adapters, InService(s), s.id = a.id
      PROVE  \A part \in {a.id} \cup a.nodes : UpSince(part, r.observed - FutureSkew - 1)
  <2>1. PICK b \in probe.profile.adapters :
           s.id = b.id /\ {b.id} \cup b.nodes \subseteq probe.seen
    BY <1>1, <1>6
  <2>3. a \in probe.profile.adapters
    BY <1>1
  <2>2. a = b
    BY <1>4, <1>6, <2>1, <2>3
  <2> QED
    BY <1>3, <1>5, <2>1, <2>2
<1>7. r.stop => UpSince("stop", r.observed - FutureSkew - 1)
  BY <1>1, <1>3, <1>5
<1>8. SnapshotIsTrue(r)
  BY <1>1, <1>2, <1>5, <1>6, <1>7 DEF SnapshotIsTrue
<1> QED
  BY <1>8 DEF r

(* A grant is issued for the endpoint the plan binds.                        *)
LEMMA GrantIssued ==
  ASSUME NEW m, NEW r, NEW plan, NEW capability, NEW space, NEW confirmed, NEW at,
         NEW g \in Granted(m, r, plan, capability, space, confirmed, at)
  PROVE  GrantIsSound(g)
<1>1. PICK a \in m.adapters, s \in plan.steps :
         g = [profile |-> m, runtime |-> r, plan |-> plan, adapter |-> a.id,
              capability |-> capability, step |-> s, issued |-> at,
              expires |-> r.observed + r.maxAge, confirmed |-> confirmed]
  BY DEF Granted
<1>2. PICK owner \in m.adapters :
         owner.id = g.adapter /\ Binds(g.step, plan, capability, owner, space, confirmed)
  BY DEF Granted
<1> QED
  BY <1>1, <1>2 DEF Binds, GrantIsSound

-----------------------------------------------------------------------------
(* Every step keeps the manifest accepted and the history complete.          *)
LEMMA GraphStep == GraphInv /\ [AuthorityNext]_authorityVars => GraphInv'
<1> SUFFICES ASSUME GraphInv, [AuthorityNext]_authorityVars PROVE GraphInv'
  OBVIOUS
<1> USE DEF GraphInv
<1>1. CASE \E m \in Manifest : Install(m)
  BY <1>1 DEF Install
<1>2. ASSUME NEW part \in Parts, Toggle(part) PROVE GraphInv'
  BY <1>2 DEF Toggle
<1>3. CASE \E part \in Parts : Look(part)
  BY <1>3 DEF Look
<1>4. CASE AuthorityTick
  <2>1. now' = now + 1 /\ lastUp' = [part \in Parts |-> IF part \in up THEN now' ELSE lastUp[part]]
        /\ UNCHANGED <<manifest, up>>
    BY <1>4 DEF AuthorityTick, Noted
  <2> QED
    BY <2>1
<1>5. CASE ProbeStart \/ ProbeEnd
  BY <1>5 DEF ProbeStart, ProbeEnd
<1>6. ASSUME NEW r, NEW plan, NEW capability, NEW confirmed,
             Authorize(r, plan, capability, confirmed)
      PROVE  GraphInv'
  BY <1>6 DEF Authorize
<1>7. ASSUME NEW g, NEW r, Prepare(g, r) PROVE GraphInv'
  BY <1>7 DEF Prepare
<1>8. CASE UNCHANGED authorityVars
  BY <1>8 DEF authorityVars
<1> QED
  BY <1>1, <1>2, <1>3, <1>4, <1>5, <1>6, <1>7, <1>8 DEF AuthorityNext

(* Every step keeps what a probe found true.                                 *)
LEMMA ProbeStep == GraphInv /\ ProbeInv /\ [AuthorityNext]_authorityVars => ProbeInv'
<1> SUFFICES ASSUME GraphInv, ProbeInv, [AuthorityNext]_authorityVars, GraphInv'
             PROVE  ProbeInv'
  BY GraphStep
<1>1. \A part \in Parts : lastUp[part] \in Int /\ lastUp'[part] \in Int /\ lastUp[part] <= lastUp'[part]
  BY Forward DEF GraphInv
<1>2. ASSUME UNCHANGED <<probe, now>> PROVE ProbeInv'
  BY <1>1, <1>2 DEF ProbeInv
<1>3. ASSUME NEW part \in Parts, Look(part) PROVE ProbeInv'
  <2>1. PICK answer \in Answers(part) :
          probe' = [probe EXCEPT !.looked = @ \cup {part}, !.seen = @ \cup answer]
    BY <1>3 DEF Look
  <2>2. probe # Nothing /\ UNCHANGED <<now, lastUp>>
    BY <1>3 DEF Look
  <2>3. answer \subseteq up
    BY DEF Answers
  <2>4. \A seen \in answer : seen \in Parts /\ lastUp[seen] = now
    BY <2>3 DEF GraphInv
  <2>5. /\ probe \in [profile : Manifest, seen : SUBSET Parts, looked : SUBSET Parts, since : Int]
        /\ ManifestAccepted(probe.profile) /\ probe.since <= now /\ now <= probe.since + 1
        /\ \A seen \in probe.seen : lastUp[seen] >= probe.since
    BY <2>2 DEF ProbeInv
  <2>6. /\ probe'.profile = probe.profile /\ probe'.since = probe.since
        /\ probe'.seen = probe.seen \cup answer
        /\ probe' \in [profile : Manifest, seen : SUBSET Parts, looked : SUBSET Parts, since : Int]
    BY <2>1, <2>4, <2>5
  <2> QED
    BY <2>2, <2>4, <2>5, <2>6 DEF ProbeInv
<1>4. CASE AuthorityTick
  <2>1. now' = now + 1 /\ probe' = probe /\ (probe # Nothing => now < probe.since + 1)
    BY <1>4 DEF AuthorityTick
  <2> QED
    BY <1>1, <2>1 DEF ProbeInv, GraphInv
<1>5. CASE ProbeStart
  <2>1. probe' = [profile |-> manifest, seen |-> {}, looked |-> {}, since |-> now] /\ now' = now
    BY <1>5 DEF ProbeStart
  <2> QED
    BY <2>1 DEF ProbeInv, GraphInv
<1>6. CASE ProbeEnd
  BY <1>6 DEF ProbeEnd, ProbeInv
<1>7. ASSUME NEW r, NEW plan, NEW capability, NEW confirmed,
             Authorize(r, plan, capability, confirmed)
      PROVE  ProbeInv'
  BY <1>2, <1>7 DEF Authorize
<1>8. ASSUME NEW g, NEW r, Prepare(g, r) PROVE ProbeInv'
  BY <1>2, <1>8 DEF Prepare
<1>9. CASE \E m \in Manifest : Install(m)
  BY <1>2, <1>9 DEF Install
<1>10. ASSUME NEW part \in Parts, Toggle(part) PROVE ProbeInv'
  BY <1>2, <1>10 DEF Toggle
<1>11. CASE UNCHANGED authorityVars
  BY <1>2, <1>11 DEF authorityVars
<1> QED
  BY <1>3, <1>4, <1>5, <1>6, <1>7, <1>8, <1>9, <1>10, <1>11 DEF AuthorityNext

(* Every snapshot is true when it is taken, and stays so.                    *)
LEMMA SnapshotStep ==
  ASSUME GraphInv, ProbeInv, \A r \in runtimes : SnapshotIsTrue(r), [AuthorityNext]_authorityVars
  PROVE  \A r \in runtimes' : SnapshotIsTrue(r)'
<1>1. GraphInv'
  BY GraphStep
<1>2. ASSUME NEW r \in runtimes PROVE SnapshotIsTrue(r)'
  BY <1>1, SnapshotStays
<1>3. CASE ProbeEnd
  <2>1. PICK ahead \in 0..FutureSkew : runtimes' = runtimes \cup {Snapshot(probe, now + ahead)}
    BY <1>3 DEF ProbeEnd
  <2>2. SnapshotIsTrue(Snapshot(probe, now + ahead))
    BY <1>3, SnapshotTaken DEF ProbeEnd
  <2> DEFINE new == Snapshot(probe, now + ahead)
  <2>3. ASSUME NEW r, r = new PROVE SnapshotIsTrue(r)'
    <3>1. SnapshotIsTrue(r)
      BY <2>2, <2>3
    <3> QED
      BY <1>1, <3>1, SnapshotStays
  <2> QED
    BY <1>2, <2>1, <2>3
<1>4. CASE ~ProbeEnd
  <2>1. runtimes' = runtimes
    BY <1>4 DEF AuthorityNext, Install, Toggle, Look, AuthorityTick, ProbeStart, Authorize,
                Prepare, authorityVars
  <2> QED
    BY <1>2, <2>1
<1> QED
  BY <1>3, <1>4

(* Every grant is sound.                                                     *)
LEMMA GrantStep ==
  ASSUME \A g \in grants : GrantIsSound(g), [AuthorityNext]_authorityVars
  PROVE  \A g \in grants' : GrantIsSound(g)
<1>1. ASSUME NEW r, NEW plan, NEW capability, NEW confirmed,
             Authorize(r, plan, capability, confirmed)
      PROVE  \A g \in grants' : GrantIsSound(g)
  BY <1>1, GrantIssued DEF Authorize
<1>2. ASSUME ~ \E r, plan, capability, confirmed : Authorize(r, plan, capability, confirmed)
      PROVE  grants' = grants
  BY <1>2 DEF AuthorityNext, Install, Toggle, Look, AuthorityTick, ProbeStart, ProbeEnd, Prepare,
              authorityVars
<1> QED
  BY <1>1, <1>2

(* A motion is prepared by what is still so.                                 *)
LEMMA PrepareIsCurrent ==
  ASSUME AuthorityInv, NEW g \in grants, NEW r \in runtimes, Prepare(g, r)
  PROVE  AuthorityIsCurrent'
<1>1. PICK a \in Targets(g, manifest, r, now) :
         /\ a.kind = "action"
         /\ prepared' = [grant |-> g, adapter |-> a, at |-> now, manifest |-> manifest,
                         lastUp |-> lastUp]
  BY DEF Prepare
<1>2. /\ a \in manifest.adapters /\ g.profile = manifest /\ g.runtime = r
      /\ a.id = g.adapter /\ g.capability \in a.capabilities /\ Pairing(manifest, r, now)
  BY DEF Targets
<1>3. /\ r.profile = manifest /\ r.stop
      /\ now - r.observed <= SnapshotAge
      /\ \E s \in r.adapters : InService(s) /\ s.id = a.id
  BY <1>2, Ages DEF Pairing, Fresh, AuthorityInv, SnapshotIsTrue
<1>4. SnapshotIsTrue(r) /\ GrantIsSound(g) /\ now \in Int /\ r.observed \in Int
      /\ ManifestAccepted(manifest)
  BY DEF AuthorityInv, GraphInv, SnapshotIsTrue
<1>5. \A part \in {a.id, "stop"} \cup a.nodes : UpSince(part, r.observed - FutureSkew - 1)
  BY <1>2, <1>3, <1>4 DEF SnapshotIsTrue
<1>6. \A part \in {a.id, "stop"} \cup a.nodes : lastUp[part] >= now - SnapshotAge - FutureSkew - 1
  <2>1. lastUp \in [Parts -> Int]
    BY DEF AuthorityInv, GraphInv
  <2> QED
    BY <1>3, <1>4, <1>5, <2>1, Ages DEF UpSince
<1>7. a.cancelOnTimeout /\ ~a.raw /\ \A b \in manifest.adapters : g.capability \in b.capabilities => b = a
  BY <1>2, <1>4 DEF ManifestAccepted
<1> QED
  BY <1>1, <1>2, <1>3, <1>4, <1>6, <1>7 DEF AuthorityIsCurrent, GrantIsSound

(* A motion on ROS 2 is prepared only by what is still so                    *)
(* (authorize_ros2_execution, resolve_ros2_execution_target,                 *)
(* collect_ros2_runtime_snapshot): the stop, the interface and the nodes of  *)
(* its adapter were up within a snapshot's age, a probe's length and the     *)
(* clock skew; the manifest is the one it was granted and probed under; an   *)
(* endpoint that asks for it was confirmed; and the adapter alone owns the   *)
(* capability and can be cancelled.                                          *)
THEOREM MotionsAreAuthorized == AuthoritySpec => []AuthorityIsCurrent
<1>1. AuthorityInit => AuthorityInv
  <2> SUFFICES ASSUME AuthorityInit PROVE AuthorityInv
    OBVIOUS
  <2>1. now = 0 /\ lastUp = [part \in Parts |-> IF part \in up THEN 0 ELSE -MaxNow - SnapshotAge]
    BY DEF AuthorityInit
  <2>2. up \subseteq Parts /\ manifest \in Manifest /\ ManifestAccepted(manifest)
    BY DEF AuthorityInit
  <2>3. GraphInv
    BY <2>1, <2>2, Ages DEF GraphInv
  <2> QED
    BY <2>3 DEF AuthorityInit, AuthorityInv, ProbeInv, AuthorityIsCurrent
<1>2. AuthorityInv /\ [AuthorityNext]_authorityVars => AuthorityInv'
  <2> SUFFICES ASSUME AuthorityInv, [AuthorityNext]_authorityVars PROVE AuthorityInv'
    OBVIOUS
  <2>1. GraphInv' /\ ProbeInv'
    BY GraphStep, ProbeStep DEF AuthorityInv
  <2>2. (\A r \in runtimes : SnapshotIsTrue(r))' /\ (\A g \in grants : GrantIsSound(g))'
    BY SnapshotStep, GrantStep DEF AuthorityInv
  <2>3. AuthorityIsCurrent'
    <3>1. ASSUME NEW g \in grants, NEW r \in runtimes, Prepare(g, r) PROVE AuthorityIsCurrent'
      BY <3>1, PrepareIsCurrent
    <3>2. ASSUME ~ \E g \in grants, r \in runtimes : Prepare(g, r) PROVE prepared' = prepared
      BY <3>2 DEF AuthorityNext, Install, Toggle, Look, AuthorityTick, ProbeStart, ProbeEnd,
                  Authorize, authorityVars
    <3> QED
      BY <3>1, <3>2 DEF AuthorityInv, AuthorityIsCurrent
  <2> QED
    BY <2>1, <2>2, <2>3 DEF AuthorityInv
<1>3. AuthorityInv => AuthorityIsCurrent
  BY DEF AuthorityInv
<1> QED
  BY <1>1, <1>2, <1>3, PTL DEF AuthoritySpec

-----------------------------------------------------------------------------
(* Tasks of a fleet.                                                         *)
FleetSpec == FleetInit /\ [][FleetNext]_fleetVars

KeptResult == [call : FleetCall, outcome : {"completed", "failed"}]

(* The types: of the callers, of the canceller, and of the records.          *)
CallerType ==
    /\ fat \in [Caller -> {"idle", "post", "record", "poll"}]
    /\ fcall \in [Caller -> FleetCall \cup {NoTask}]
    /\ ftask \in [Caller -> Task \cup {NoId, NoTask}]
    /\ \A c \in Caller : fat[c] # "idle" => fcall[c] \in FleetCall
    /\ \A c \in Caller : fat[c] = "poll" => ftask[c] \in Task
    /\ \A c \in Caller : fat[c] = "record" => ftask[c] \in Task \cup {NoId}

CancelType == wat \in {"idle", "post"} /\ (wat = "post" => wcall \in FleetCall /\ wtask \in Task)

DispatchType ==
    /\ dispatched \in [FleetCall -> Task \cup {NoId, NoTask}]
    /\ task \in [Task -> [call : FleetCall \cup {NoTask}, status : {"queued"} \cup Ended,
                          withdrawn : BOOLEAN]]
    /\ kept \in Seq(KeptResult) /\ doubtful \subseteq FleetCall

FleetType == CallerType /\ CancelType /\ DispatchType

(* Whoever holds a task's id holds one of the call's own, and only calls     *)
(* that are a fleet's to do get as far as a task.                            *)
Placed(f) == request[f].capability \in DOMAIN Category /\ request[f].place

KeptTrue(k) ==
    \E t \in Tasks(k.call) :
        task[t].status \in IF k.outcome = "completed" THEN {"completed"} ELSE Ended \ {"completed"}

HolderLink(c) ==
    /\ fat[c] \in {"record", "poll"} /\ ftask[c] \in Task => task[ftask[c]].call = fcall[c]
    /\ fat[c] \in {"post", "record"} => Placed(fcall[c])

TaskLink ==
    /\ \A f \in FleetCall : dispatched[f] \in Task => task[dispatched[f]].call = f
    /\ wat = "post" => task[wtask].call = wcall
    /\ \A t \in Task : task[t].call # NoTask => Placed(task[t].call)

LinkInv ==
    /\ \A c \in Caller : HolderLink(c)
    /\ TaskLink
    /\ \A k \in ToSet(kept) : KeptTrue(k)

(* A call nobody doubts is dispatched by one caller, once.                   *)
Posting(f) == {c \in Caller : fcall[c] = f /\ fat[c] \in {"post", "record"}}

CallInv(f) ==
    /\ \A c, d \in Posting(f) : c = d
    /\ \A t, u \in Tasks(f) : t = u
    /\ Posting(f) # {} => dispatched[f] = NoTask
    /\ \A c \in Posting(f) : fat[c] = "post" => Tasks(f) = {}
    /\ dispatched[f] = NoTask /\ Tasks(f) # {} => Posting(f) # {}
    /\ \A c \in Caller : fcall[c] = f /\ fat[c] = "poll" => dispatched[f] \in Task

OnceInv == \A f \in FleetCall \ doubtful : CallInv(f)

(* What an answer tells of its call.                                         *)
SaidTrue(s) ==
    /\ s.tasks \subseteq Task
    /\ s.outcome = "completed" => \E t \in s.tasks : task[t].status = "completed"
    /\ s.call \notin doubtful =>
          /\ s.outcome = "failed" =>
                \/ dispatched[s.call] = NoId
                \/ \E t \in s.tasks : task[t].status \in Ended \ {"completed"}
          /\ s.outcome = "refused" => s.tasks = {}
          /\ s.outcome = "timeout" => dispatched[s.call] \in Task
          /\ s.outcome = "cancelled" => \A t \in s.tasks : task[t].withdrawn

SaidInv == /\ said.outcome # "none" => said.call \in FleetCall
           /\ SaidTrue(said)

FleetInv == FleetType /\ LinkInv /\ OnceInv /\ SaidInv

-----------------------------------------------------------------------------
(* A result that is kept is the new one or was kept before.                  *)
LEMMA KeepTells ==
  ASSUME kept \in Seq(KeptResult), NEW f \in FleetCall, NEW outcome \in {"completed", "failed"},
         Keep(outcome, f)
  PROVE  /\ kept' \in Seq(KeptResult)
         /\ ToSet(kept') \subseteq ToSet(kept) \cup {[call |-> f, outcome |-> outcome]}
<1> DEFINE new == [call |-> f, outcome |-> outcome]
           all == IF KeptOf(f) = {} THEN Append(kept, new)
                  ELSE [i \in DOMAIN kept |-> IF kept[i].call = f THEN new ELSE kept[i]]
<1>1. new \in KeptResult
  BY DEF KeptResult
<1> HIDE DEF new
<1>2. all \in Seq(KeptResult) /\ \A i \in 1..Len(all) : all[i] \in ToSet(kept) \cup {new}
  <2>1. CASE KeptOf(f) = {}
    BY <1>1, <2>1, AppendProperties DEF ToSet
  <2>2. CASE KeptOf(f) # {}
    <3>1. all = [i \in 1..Len(kept) |-> IF kept[i].call = f THEN new ELSE kept[i]]
      BY <2>2
    <3>2. \A i \in 1..Len(kept) : kept[i] \in KeptResult /\ kept[i] \in ToSet(kept)
      BY DEF ToSet
    <3> HIDE DEF all
    <3>3. all \in [1..Len(kept) -> KeptResult] /\ Len(kept) \in Nat
      BY <1>1, <3>1, <3>2
    <3>4. all \in Seq(KeptResult) /\ Len(all) = Len(kept)
      BY <3>3
    <3> QED
      BY <3>1, <3>2, <3>4
  <2> QED
    BY <2>1, <2>2
<1>3. kept' = IF Len(all) > Kept THEN Tail(all) ELSE all
  BY DEF Keep, new
<1> HIDE DEF all
<1>4. CASE Len(all) > Kept
  <2>1. all # <<>> /\ kept' = Tail(all)
    BY <1>2, <1>3, <1>4, FleetAssumption
  <2>2. kept' \in Seq(KeptResult) /\ Len(kept') = Len(all) - 1
        /\ \A i \in 1..Len(kept') : kept'[i] = all[i + 1]
    BY <1>2, <2>1, HeadTailProperties
  <2>3. \A i \in 1..Len(kept') : kept'[i] \in ToSet(kept) \cup {new}
    BY <1>2, <2>2
  <2> QED
    BY <2>2, <2>3 DEF ToSet, new
<1>5. CASE ~(Len(all) > Kept)
  BY <1>2, <1>3, <1>5 DEF ToSet, new
<1> QED
  BY <1>4, <1>5

(* Discovery offers what a bound adapter declares.                           *)
LEMMA Discovery == Discovered = Described(TRUE)
BY DEF Discovered, Described, Category

-----------------------------------------------------------------------------
(* What a caller's step does to its own place, and to nobody else's.         *)
Moves(c, at, f, t) ==
    /\ fat' = [fat EXCEPT ![c] = at] /\ fcall' = [fcall EXCEPT ![c] = f]
    /\ ftask' = [ftask EXCEPT ![c] = t]

(* A caller that moves keeps its types if what it holds fits the place it    *)
(* goes to.                                                                  *)
LEMMA MovesType ==
  ASSUME CallerType, NEW c \in Caller, NEW at, NEW f, NEW t, Moves(c, at, f, t),
         at \in {"idle", "post", "record", "poll"}, f \in FleetCall \cup {NoTask},
         t \in Task \cup {NoId, NoTask}, at # "idle" => f \in FleetCall,
         at = "poll" => t \in Task, at = "record" => t \in Task \cup {NoId}
  PROVE  CallerType'
BY DEF Moves, CallerType

(* Every step keeps the types.                                               *)
LEMMA FleetTypeStep == FleetType /\ [FleetNext]_fleetVars => FleetType'
<1> SUFFICES ASSUME CallerType, CancelType, DispatchType, [FleetNext]_fleetVars
             PROVE  CallerType' /\ CancelType' /\ DispatchType'
  BY DEF FleetType
<1> USE DEF callers, canceller
<1>1. ASSUME NEW c \in Caller, NEW f \in FleetCall, Lookup(c, f)
      PROVE  CallerType' /\ CancelType' /\ DispatchType'
  <2>1. \/ \E outcome : Return(c, f, outcome)
        \/ dispatched[f] \in Task /\ Settling(c, f, dispatched[f])
        \/ fat' = [fat EXCEPT ![c] = "post"] /\ fcall' = [fcall EXCEPT ![c] = f] /\ UNCHANGED ftask
    BY <1>1 DEF Lookup
  <2>2. ASSUME NEW outcome, Return(c, f, outcome) PROVE CallerType'
    BY <2>2, MovesType DEF Return, Moves
  <2>3. ASSUME dispatched[f] \in Task, Settling(c, f, dispatched[f]) PROVE CallerType'
    BY <2>3, MovesType DEF Settling, Moves
  <2>4. ASSUME fat' = [fat EXCEPT ![c] = "post"], fcall' = [fcall EXCEPT ![c] = f],
               UNCHANGED ftask
        PROVE  CallerType'
    BY <2>4 DEF CallerType
  <2>5. CallerType'
    BY <2>1, <2>2, <2>3, <2>4
  <2>6. CancelType' /\ DispatchType'
    BY <1>1 DEF Lookup, CancelType, DispatchType
  <2> QED
    BY <2>5, <2>6
<1>2. ASSUME NEW c \in Caller, PostRefused(c) \/ Overdue(c)
      PROVE  CallerType' /\ CancelType' /\ DispatchType'
  <2>1. \E outcome : Return(c, fcall[c], outcome)
    BY <1>2 DEF PostRefused, Overdue
  <2>2. CallerType'
    BY <2>1, MovesType DEF Return, Moves
  <2> QED
    BY <1>2, <2>2 DEF PostRefused, Overdue, CancelType, DispatchType
<1>3. ASSUME NEW c \in Caller, PostAccepted(c)
      PROVE  CallerType' /\ CancelType' /\ DispatchType'
  <2>1. PICK t \in Tasks(NoTask) :
           /\ task' = [task EXCEPT ![t].call = fcall[c]]
           /\ \/ /\ fat' = [fat EXCEPT ![c] = "record"]
                 /\ ftask' \in {[ftask EXCEPT ![c] = t], [ftask EXCEPT ![c] = NoId]}
                 /\ UNCHANGED <<fcall, said, doubtful>>
              \/ /\ Return(c, fcall[c], "refused") /\ doubtful' = doubtful \cup {fcall[c]}
    BY <1>3 DEF PostAccepted
  <2>2. fcall[c] \in FleetCall /\ t \in Task
    BY <1>3 DEF PostAccepted, CallerType, Tasks
  <2>3. CallerType'
    <3>1. CASE Return(c, fcall[c], "refused")
      BY <3>1, MovesType DEF Return, Moves
    <3>2. CASE /\ fat' = [fat EXCEPT ![c] = "record"]
               /\ ftask' \in {[ftask EXCEPT ![c] = t], [ftask EXCEPT ![c] = NoId]}
               /\ UNCHANGED fcall
      BY <2>2, <3>2 DEF CallerType
    <3> QED
      BY <2>1, <3>1, <3>2
  <2>4. DispatchType'
    BY <1>3, <2>1, <2>2 DEF PostAccepted, DispatchType
  <2> QED
    BY <1>3, <2>3, <2>4 DEF PostAccepted, CancelType
<1>4. ASSUME NEW c \in Caller, Remember(c)
      PROVE  CallerType' /\ CancelType' /\ DispatchType'
  <2>1. fcall[c] \in FleetCall /\ ftask[c] \in Task \cup {NoId}
    BY <1>4 DEF Remember, CallerType
  <2>2. CallerType'
    <3>1. CASE Return(c, fcall[c], "failed")
      BY <3>1, MovesType DEF Return, Moves
    <3>2. CASE ftask[c] \in Task /\ Settling(c, fcall[c], ftask[c])
      BY <2>1, <3>2, MovesType DEF Settling, Moves
    <3> QED
      BY <1>4, <3>1, <3>2 DEF Remember
  <2> QED
    BY <1>4, <2>1, <2>2 DEF Remember, CancelType, DispatchType
<1>5. ASSUME NEW c \in Caller, Settle(c)
      PROVE  CallerType' /\ CancelType' /\ DispatchType'
  <2>1. PICK outcome \in {"completed", "failed"} : Return(c, fcall[c], outcome) /\ Keep(outcome, fcall[c])
    BY <1>5 DEF Settle
  <2>2. CallerType'
    BY <2>1, MovesType DEF Return, Moves
  <2>3. fcall[c] \in FleetCall
    BY <1>5 DEF Settle, CallerType
  <2>4. kept' \in Seq(KeptResult)
    BY <2>1, <2>3, KeepTells DEF DispatchType
  <2> QED
    BY <1>5, <2>2, <2>4 DEF Settle, CancelType, DispatchType
<1>6. ASSUME NEW f \in FleetCall, Withdraw(f)
      PROVE  CallerType' /\ CancelType' /\ DispatchType'
  BY <1>6 DEF Withdraw, CallerType, CancelType, DispatchType
<1>7. CASE WithdrawHeard
  <2>1. wtask \in Task /\ task' = [task EXCEPT ![wtask].withdrawn = TRUE]
    BY <1>7 DEF WithdrawHeard, CancelType
  <2>2. UNCHANGED <<callers, dispatched, kept, doubtful>> /\ wat' = "idle"
    BY <1>7 DEF WithdrawHeard, WithdrawReturns
  <2> QED
    BY <2>1, <2>2 DEF CallerType, CancelType, DispatchType
<1>8. CASE WithdrawRefused
  BY <1>8 DEF WithdrawRefused, WithdrawReturns, CallerType, CancelType, DispatchType
<1>9. ASSUME NEW t \in Task, Finish(t)
      PROVE  CallerType' /\ CancelType' /\ DispatchType'
  <2>1. PICK status \in Ended : task' = [task EXCEPT ![t].status = status]
    BY <1>9 DEF Finish
  <2> QED
    BY <1>9, <2>1 DEF Finish, CallerType, CancelType, DispatchType
<1>10. CASE UNCHANGED fleetVars
  BY <1>10 DEF fleetVars, CallerType, CancelType, DispatchType
<1> QED
  BY <1>1, <1>2, <1>3, <1>4, <1>5, <1>6, <1>7, <1>8, <1>9, <1>10 DEF FleetNext

(* A task stays with its call, an end stays as it is, a withdrawal is not    *)
(* taken back, and a doubt is never resolved.                                *)
Steady ==
    /\ request' = request /\ doubtful \subseteq doubtful'
    /\ \A t \in Task : /\ task[t].call # NoTask => task'[t].call = task[t].call
                       /\ task[t].status \in Ended => task'[t].status = task[t].status
                       /\ task[t].withdrawn => task'[t].withdrawn

(* Every step is steady: tasks change hands, end and are withdrawn once.     *)
LEMMA StaysSteady == FleetType /\ [FleetNext]_fleetVars => Steady
<1> SUFFICES ASSUME CallerType, CancelType, DispatchType, [FleetNext]_fleetVars
             PROVE  Steady
  BY DEF FleetType
<1>1. ASSUME NEW c \in Caller, NEW f \in FleetCall, Lookup(c, f) PROVE Steady
  BY <1>1 DEF Lookup, Steady
<1>2. ASSUME NEW c \in Caller, PostAccepted(c) PROVE Steady
  <2>1. PICK t \in Tasks(NoTask) : task' = [task EXCEPT ![t].call = fcall[c]]
    BY <1>2 DEF PostAccepted
  <2>2. t \in Task /\ task[t].call = NoTask
    BY DEF Tasks
  <2>3. request' = request /\ doubtful \subseteq doubtful'
    BY <1>2 DEF PostAccepted
  <2> QED
    BY <2>1, <2>2, <2>3 DEF Steady, DispatchType
<1>3. ASSUME NEW c \in Caller, PostRefused(c) \/ Overdue(c) \/ Remember(c) \/ Settle(c)
      PROVE  Steady
  BY <1>3 DEF PostRefused, Overdue, Remember, Settle, Steady
<1>4. ASSUME NEW f \in FleetCall, Withdraw(f) PROVE Steady
  BY <1>4 DEF Withdraw, Steady
<1>5. CASE WithdrawHeard
  <2>1. wtask \in Task /\ task' = [task EXCEPT ![wtask].withdrawn = TRUE]
    BY <1>5 DEF WithdrawHeard, CancelType
  <2>2. UNCHANGED <<request, doubtful>>
    BY <1>5 DEF WithdrawHeard, WithdrawReturns
  <2> QED
    BY <2>1, <2>2 DEF Steady, DispatchType
<1>6. CASE WithdrawRefused
  BY <1>6 DEF WithdrawRefused, WithdrawReturns, Steady
<1>7. ASSUME NEW t \in Task, Finish(t) PROVE Steady
  <2>1. PICK status \in Ended : task' = [task EXCEPT ![t].status = status]
    BY <1>7 DEF Finish
  <2>2. task[t].status = "queued" /\ UNCHANGED <<request, doubtful>>
    BY <1>7 DEF Finish
  <2> QED
    BY <2>1, <2>2 DEF Steady, DispatchType, Ended
<1>8. CASE UNCHANGED fleetVars
  BY <1>8 DEF fleetVars, Steady
<1> QED
  BY <1>1, <1>2, <1>3, <1>4, <1>5, <1>6, <1>7, <1>8 DEF FleetNext

(* What holds of a holder, or of a kept result, holds while its task stays.  *)
LEMMA HolderStays ==
  ASSUME FleetType, Steady, NEW c \in Caller, HolderLink(c),
         fat'[c] = fat[c] /\ fcall'[c] = fcall[c] /\ ftask'[c] = ftask[c]
  PROVE  HolderLink(c)'
BY FleetAssumption DEF HolderLink, Steady, Placed, FleetType, CallerType

(* A kept result stays true, because a task that ended keeps its status,     *)
(* ...                                                                       *)
LEMMA KeptStays ==
  ASSUME FleetType, Steady, NEW k \in KeptResult, KeptTrue(k)
  PROVE  KeptTrue(k)'
<1>1. PICK t \in Tasks(k.call) :
         task[t].status \in IF k.outcome = "completed" THEN {"completed"} ELSE Ended \ {"completed"}
  BY DEF KeptTrue
<1>2. t \in Task /\ task[t].call = k.call /\ k.call # NoTask /\ task[t].status \in Ended
  BY <1>1, FleetAssumption DEF Tasks, KeptResult, Ended
<1>3. task'[t].call = k.call /\ task'[t].status = task[t].status
  BY <1>2 DEF Steady
<1> QED
  BY <1>1, <1>2, <1>3 DEF KeptTrue, Tasks

(* ... and tasks stay with their calls when nobody is given one.             *)
LEMMA TaskLinkStays ==
  ASSUME FleetType, Steady, TaskLink, UNCHANGED <<dispatched, canceller>>,
         \A t \in Task : task[t].call = NoTask => task'[t].call = NoTask
  PROVE  TaskLink'
<1>1. \A t \in Task : task'[t].call = task[t].call
  BY DEF Steady
<1> QED
  BY <1>1 DEF TaskLink, Steady, Placed, canceller, FleetType, CancelType

(* Every step keeps the ids with their calls.                                *)
LEMMA LinkStep == FleetType /\ LinkInv /\ [FleetNext]_fleetVars => LinkInv'
<1> SUFFICES ASSUME FleetType, LinkInv, [FleetNext]_fleetVars, Steady
             PROVE  (\A c \in Caller : HolderLink(c)') /\ TaskLink'
                    /\ (\A k \in ToSet(kept') : KeptTrue(k)')
  BY StaysSteady DEF LinkInv
<1> USE DEF callers, canceller
<1>0. /\ CallerType /\ CancelType /\ DispatchType /\ TaskLink
      /\ \A c \in Caller : HolderLink(c)
  BY DEF FleetType, LinkInv
<1>k. ASSUME kept' = kept PROVE \A k \in ToSet(kept') : KeptTrue(k)'
  <2>1. \A k \in ToSet(kept) : k \in KeptResult
    BY <1>0 DEF ToSet, DispatchType
  <2> QED
    BY <1>k, <2>1, KeptStays DEF LinkInv
<1>1. ASSUME NEW c \in Caller, NEW f \in FleetCall, Lookup(c, f) PROVE LinkInv'
  <2>1. HolderLink(c)'
    <3>1. \/ fat'[c] = "idle"
          \/ fat'[c] = "poll" /\ fcall'[c] = f /\ ftask'[c] = dispatched[f] /\ dispatched[f] \in Task
          \/ fat'[c] = "post" /\ fcall'[c] = f /\ Placed(f)
      BY <1>0, <1>1 DEF Lookup, Return, Settling, CallerType, Placed
    <3> QED
      BY <1>0, <1>1, <3>1 DEF HolderLink, TaskLink, Lookup, Placed
  <2>2. \A d \in Caller \ {c} : fat'[d] = fat[d] /\ fcall'[d] = fcall[d] /\ ftask'[d] = ftask[d]
    BY <1>0, <1>1 DEF Lookup, Return, Settling, CallerType
  <2>3. UNCHANGED <<dispatched, canceller, kept, task>>
    BY <1>1 DEF Lookup
  <2> QED
    BY <1>0, <1>k, <2>1, <2>2, <2>3, HolderStays, TaskLinkStays DEF LinkInv
<1>2. ASSUME NEW c \in Caller, PostRefused(c) \/ Overdue(c) PROVE LinkInv'
  <2>1. fat'[c] = "idle"
        /\ \A d \in Caller \ {c} : fat'[d] = fat[d] /\ fcall'[d] = fcall[d] /\ ftask'[d] = ftask[d]
    BY <1>0, <1>2 DEF PostRefused, Overdue, Return, CallerType
  <2>2. UNCHANGED <<dispatched, canceller, kept, task>>
    BY <1>2 DEF PostRefused, Overdue
  <2>3. HolderLink(c)'
    BY <2>1 DEF HolderLink
  <2> QED
    BY <1>0, <1>k, <2>1, <2>2, <2>3, HolderStays, TaskLinkStays DEF LinkInv
<1>3. ASSUME NEW c \in Caller, PostAccepted(c) PROVE LinkInv'
  <2>1. PICK t \in Tasks(NoTask) :
           /\ task' = [task EXCEPT ![t].call = fcall[c]]
           /\ \/ /\ fat' = [fat EXCEPT ![c] = "record"]
                 /\ ftask' \in {[ftask EXCEPT ![c] = t], [ftask EXCEPT ![c] = NoId]}
                 /\ UNCHANGED <<fcall, said, doubtful>>
              \/ /\ Return(c, fcall[c], "refused") /\ doubtful' = doubtful \cup {fcall[c]}
    BY <1>3 DEF PostAccepted
  <2>2. /\ fcall[c] \in FleetCall /\ t \in Task /\ task[t].call = NoTask /\ fat[c] = "post"
        /\ Placed(fcall[c]) /\ UNCHANGED <<dispatched, canceller, kept, request>>
    BY <1>0, <1>3 DEF PostAccepted, CallerType, Tasks, HolderLink
  <2>3. task'[t].call = fcall[c] /\ \A u \in Task \ {t} : task'[u].call = task[u].call
    BY <1>0, <2>1, <2>2 DEF DispatchType
  <2>4. HolderLink(c)'
    <3>1. \/ fat'[c] = "idle"
          \/ fat'[c] = "record" /\ fcall'[c] = fcall[c] /\ ftask'[c] \in {t, NoId}
      BY <1>0, <2>1 DEF Return, CallerType
    <3> QED
      BY <2>2, <2>3, <3>1, FleetAssumption DEF HolderLink, Placed
  <2>5. \A d \in Caller \ {c} : fat'[d] = fat[d] /\ fcall'[d] = fcall[d] /\ ftask'[d] = ftask[d]
    BY <1>0, <2>1 DEF Return, CallerType
  <2>6. TaskLink'
    BY <1>0, <2>2, <2>3, FleetAssumption DEF TaskLink, Placed, CancelType, DispatchType
  <2> QED
    BY <1>0, <1>k, <2>2, <2>4, <2>5, <2>6, HolderStays DEF LinkInv
<1>4. ASSUME NEW c \in Caller, Remember(c) PROVE LinkInv'
  <2>1. /\ fcall[c] \in FleetCall /\ ftask[c] \in Task \cup {NoId} /\ fat[c] = "record"
        /\ dispatched' = [dispatched EXCEPT ![fcall[c]] = ftask[c]]
        /\ UNCHANGED <<canceller, kept, task, request>>
    BY <1>0, <1>4 DEF Remember, CallerType
  <2>2. \/ fat'[c] = "idle"
        \/ fat'[c] = "poll" /\ fcall'[c] = fcall[c] /\ ftask'[c] = ftask[c]
    BY <1>0, <1>4 DEF Remember, Return, Settling, CallerType
  <2>3. HolderLink(c)'
    BY <1>0, <2>1, <2>2 DEF HolderLink
  <2>4. \A d \in Caller \ {c} : fat'[d] = fat[d] /\ fcall'[d] = fcall[d] /\ ftask'[d] = ftask[d]
    BY <1>0, <1>4 DEF Remember, Return, Settling, CallerType
  <2>5. TaskLink'
    BY <1>0, <2>1, FleetAssumption DEF TaskLink, HolderLink, Placed, DispatchType
  <2> QED
    BY <1>0, <1>k, <2>1, <2>3, <2>4, <2>5, HolderStays DEF LinkInv
<1>5. ASSUME NEW c \in Caller, Settle(c) PROVE LinkInv'
  <2>1. PICK outcome \in {"completed", "failed"} :
           /\ Return(c, fcall[c], outcome) /\ Keep(outcome, fcall[c])
           /\ task[ftask[c]].status \in IF outcome = "completed" THEN {"completed"}
                                         ELSE Ended \ {"completed"}
    BY <1>5 DEF Settle
  <2>2. /\ fcall[c] \in FleetCall /\ ftask[c] \in Task /\ task[ftask[c]].call = fcall[c]
        /\ UNCHANGED <<dispatched, canceller, task>>
    BY <1>0, <1>5 DEF Settle, CallerType, HolderLink
  <2>3. fat'[c] = "idle"
        /\ \A d \in Caller \ {c} : fat'[d] = fat[d] /\ fcall'[d] = fcall[d] /\ ftask'[d] = ftask[d]
    BY <1>0, <2>1 DEF Return, CallerType
  <2>4. HolderLink(c)'
    BY <2>3 DEF HolderLink
  <2> DEFINE new == [call |-> fcall[c], outcome |-> outcome]
  <2>5. new \in KeptResult /\ KeptTrue(new)
    BY <2>1, <2>2 DEF KeptTrue, Tasks, KeptResult
  <2>6. ToSet(kept') \subseteq ToSet(kept) \cup {new} /\ \A k \in ToSet(kept) : k \in KeptResult
    BY <1>0, <2>1, <2>2, KeepTells DEF DispatchType, ToSet
  <2> HIDE DEF new
  <2>7. \A k \in ToSet(kept') : KeptTrue(k)'
    <3>1. \A k \in ToSet(kept') : k \in KeptResult /\ KeptTrue(k)
      BY <2>5, <2>6 DEF LinkInv
    <3> QED
      BY <3>1, KeptStays
  <2> QED
    BY <1>0, <2>2, <2>3, <2>4, <2>7, HolderStays, TaskLinkStays DEF LinkInv
<1>6. ASSUME NEW f \in FleetCall, Withdraw(f) PROVE LinkInv'
  <2>1. UNCHANGED <<callers, dispatched, kept, task, request>>
        /\ (UNCHANGED canceller \/ (wcall' = f /\ wtask' = dispatched[f] /\ dispatched[f] \in Task))
    BY <1>6 DEF Withdraw
  <2>2. TaskLink'
    BY <1>0, <2>1 DEF TaskLink, Placed
  <2> QED
    BY <1>0, <1>k, <2>1, <2>2, HolderStays DEF LinkInv
<1>7. CASE WithdrawHeard \/ WithdrawRefused
  <2>1. UNCHANGED <<callers, dispatched, kept, request>> /\ wat' = "idle"
    BY <1>7 DEF WithdrawHeard, WithdrawRefused, WithdrawReturns
  <2>2. \A t \in Task : task'[t].call = task[t].call
    <3>1. CASE WithdrawHeard
      <4>1. wtask \in Task /\ task' = [task EXCEPT ![wtask].withdrawn = TRUE]
        BY <1>0, <3>1 DEF WithdrawHeard, CancelType
      <4> QED
        BY <1>0, <4>1 DEF DispatchType
    <3> QED
      BY <1>7, <3>1 DEF WithdrawRefused
  <2>3. TaskLink'
    BY <1>0, <2>1, <2>2 DEF TaskLink, Placed
  <2> QED
    BY <1>0, <1>k, <2>1, <2>3, HolderStays DEF LinkInv
<1>8. ASSUME NEW t \in Task, Finish(t) PROVE LinkInv'
  <2>1. UNCHANGED <<callers, canceller, dispatched, kept, request>>
    BY <1>8 DEF Finish
  <2>2. PICK status \in Ended : task' = [task EXCEPT ![t].status = status]
    BY <1>8 DEF Finish
  <2>3. \A u \in Task : task'[u].call = task[u].call
    BY <1>0, <2>2 DEF DispatchType
  <2> QED
    BY <1>0, <1>k, <2>1, <2>3, HolderStays, TaskLinkStays DEF LinkInv
<1>9. CASE UNCHANGED fleetVars
  BY <1>0, <1>k, <1>9, HolderStays, TaskLinkStays DEF fleetVars, LinkInv
<1> QED
  BY <1>1, <1>2, <1>3, <1>4, <1>5, <1>6, <1>7, <1>8, <1>9 DEF FleetNext, LinkInv

-----------------------------------------------------------------------------
(* A step that leaves a call's tasks and its posting callers alone.          *)
SamePlace(c) == fat'[c] = fat[c] /\ fcall'[c] = fcall[c] /\ ftask'[c] = ftask[c]

(* A call is as it was when the callers that dispatch it are, and its        *)
(* tasks.                                                                    *)
LEMMA CallFrame ==
  ASSUME NEW f \in FleetCall, CallInv(f), Tasks(f)' = Tasks(f), dispatched'[f] = dispatched[f],
         \A c \in Caller : \/ SamePlace(c)
                          \/ /\ ~(fcall[c] = f /\ fat[c] \in {"post", "record"})
                             /\ ~(fcall'[c] = f /\ fat'[c] \in {"post", "record"})
                             /\ fcall'[c] = f /\ fat'[c] = "poll" => dispatched[f] \in Task
  PROVE  CallInv(f)'
<1>1. Posting(f)' = Posting(f) /\ \A c \in Posting(f) : fat'[c] = fat[c]
  BY DEF Posting, SamePlace
<1>2. \A c \in Caller : fcall'[c] = f /\ fat'[c] = "poll" => dispatched[f] \in Task
  BY DEF CallInv, SamePlace
<1> QED
  BY <1>1, <1>2 DEF CallInv

(* The tasks of a call, when a step gives none of them away.                 *)
LEMMA SameTasks ==
  ASSUME \A t \in Task : task'[t].call = task[t].call
  PROVE  \A f : Tasks(f)' = Tasks(f)
BY DEF Tasks

(* Every step keeps a call nobody doubts dispatched once.                    *)
LEMMA OnceStep ==
  FleetType /\ LinkInv /\ OnceInv /\ [FleetNext]_fleetVars => OnceInv'
<1> SUFFICES ASSUME FleetType, LinkInv, OnceInv, [FleetNext]_fleetVars, Steady,
                    NEW f \in FleetCall \ doubtful'
             PROVE  CallInv(f)'
  BY StaysSteady DEF OnceInv
<1> USE DEF callers, canceller
<1>0. /\ CallerType /\ CancelType /\ DispatchType
      /\ f \in FleetCall /\ CallInv(f)
  BY DEF FleetType, OnceInv, Steady
<1>1. ASSUME NEW c \in Caller, NEW g \in FleetCall, Lookup(c, g) PROVE CallInv(f)'
  <2>1. UNCHANGED <<dispatched, task>> /\ fat[c] = "idle"
        /\ \A d \in Caller \ {c} : SamePlace(d)
    BY <1>0, <1>1 DEF Lookup, Return, Settling, CallerType, SamePlace
  <2>2. Tasks(f)' = Tasks(f)
    BY <2>1 DEF Tasks
  <2>3. CASE fat'[c] # "post"
    <3>1. \/ fat'[c] = "idle"
          \/ fat'[c] = "poll" /\ fcall'[c] = g /\ dispatched[g] \in Task
      BY <1>0, <1>1, <2>3 DEF Lookup, Return, Settling, CallerType
    <3> QED
      BY <1>0, <2>1, <2>2, <3>1, CallFrame
  <2>4. CASE fat'[c] = "post"
    <3>1. fcall'[c] = g /\ dispatched[g] = NoTask
      BY <1>0, <1>1, <2>4 DEF Lookup, Return, Settling, CallerType
    <3>2. CASE f # g
      BY <1>0, <2>1, <2>2, <2>4, <3>1, <3>2, CallFrame
    <3>3. CASE f = g
      <4>1. \A d \in Caller \ {c} : ~(fcall[d] = f /\ fat[d] \in {"post", "record"})
        BY <1>1, <2>4, <3>3 DEF Lookup
      <4>2. Posting(f) = {} /\ Posting(f)' = {c}
        BY <2>1, <2>4, <3>1, <3>3, <4>1 DEF Posting, SamePlace
      <4>3. Tasks(f) = {}
        BY <1>0, <3>1, <3>3, <4>2 DEF CallInv
      <4>4. \A d \in Caller : ~(fcall'[d] = f /\ fat'[d] = "poll")
        BY <1>0, <2>1, <2>4, <3>1, <3>3, FleetAssumption DEF CallInv, SamePlace
      <4> QED
        BY <2>1, <2>2, <3>1, <3>3, <4>2, <4>3, <4>4 DEF CallInv
    <3> QED
      BY <3>2, <3>3
  <2> QED
    BY <2>3, <2>4
<1>2. ASSUME NEW c \in Caller, PostRefused(c) PROVE CallInv(f)'
  <2>1. UNCHANGED <<dispatched, task>> /\ fat[c] = "post" /\ fat'[c] = "idle"
        /\ \A d \in Caller \ {c} : SamePlace(d)
    BY <1>0, <1>2 DEF PostRefused, Return, CallerType, SamePlace
  <2>2. Tasks(f)' = Tasks(f)
    BY <2>1 DEF Tasks
  <2>3. CASE fcall[c] # f
    BY <1>0, <2>1, <2>2, <2>3, CallFrame
  <2>4. CASE fcall[c] = f
    <3>1. Posting(f) = {c} /\ Tasks(f) = {}
      BY <1>0, <2>1, <2>4 DEF Posting, CallInv
    <3>2. Posting(f)' = {}
      BY <2>1, <3>1 DEF Posting, SamePlace
    <3>3. \A d \in Caller : ~(fcall'[d] = f /\ fat'[d] = "poll")
      BY <1>0, <2>1, <3>1, FleetAssumption DEF CallInv, SamePlace
    <3> QED
      BY <2>2, <3>1, <3>2, <3>3 DEF CallInv
  <2> QED
    BY <2>3, <2>4
<1>3. ASSUME NEW c \in Caller, Overdue(c) \/ Settle(c) PROVE CallInv(f)'
  <2>1. UNCHANGED <<dispatched, task>> /\ fat[c] = "poll" /\ fat'[c] = "idle"
        /\ \A d \in Caller \ {c} : SamePlace(d)
    BY <1>0, <1>3 DEF Overdue, Settle, Return, CallerType, SamePlace
  <2>2. Tasks(f)' = Tasks(f)
    BY <2>1 DEF Tasks
  <2> QED
    BY <1>0, <2>1, <2>2, CallFrame
<1>4. ASSUME NEW c \in Caller, PostAccepted(c) PROVE CallInv(f)'
  <2>1. PICK t \in Tasks(NoTask) :
           /\ task' = [task EXCEPT ![t].call = fcall[c]]
           /\ \/ /\ fat' = [fat EXCEPT ![c] = "record"] /\ UNCHANGED fcall
                 /\ ftask' \in {[ftask EXCEPT ![c] = t], [ftask EXCEPT ![c] = NoId]}
              \/ Return(c, fcall[c], "refused") /\ doubtful' = doubtful \cup {fcall[c]}
    BY <1>4 DEF PostAccepted
  <2>2. /\ t \in Task /\ task[t].call = NoTask /\ fat[c] = "post" /\ fcall[c] \in FleetCall
        /\ UNCHANGED dispatched
    BY <1>0, <1>4 DEF PostAccepted, Tasks, CallerType
  <2>3. \A u \in Task : task'[u].call = IF u = t THEN fcall[c] ELSE task[u].call
    BY <1>0, <2>1, <2>2 DEF DispatchType
  <2>4. \A d \in Caller \ {c} : SamePlace(d)
    BY <1>0, <2>1 DEF Return, CallerType, SamePlace
  <2>5. CASE fcall[c] # f
    <3>1. Tasks(f)' = Tasks(f)
      BY <1>0, <2>2, <2>3, <2>5, FleetAssumption DEF Tasks
    <3>2. fcall'[c] # f
      BY <1>0, <2>1, <2>5, FleetAssumption DEF Return, CallerType
    <3> QED
      BY <1>0, <2>2, <2>4, <2>5, <3>1, <3>2, CallFrame
  <2>6. CASE fcall[c] = f
    <3>1. fat' = [fat EXCEPT ![c] = "record"] /\ fcall' = fcall
      BY <2>1, <2>6
    <3>2. Posting(f) = {c} /\ Tasks(f) = {} /\ dispatched[f] = NoTask
      BY <1>0, <2>2, <2>6 DEF Posting, CallInv
    <3>3. Posting(f)' = {c} /\ fat'[c] = "record"
      BY <1>0, <2>4, <2>6, <3>1, <3>2 DEF Posting, SamePlace, CallerType
    <3>4. Tasks(f)' = {t}
      BY <2>2, <2>3, <2>6, <3>2 DEF Tasks
    <3>5. \A d \in Caller : ~(fcall'[d] = f /\ fat'[d] = "poll")
      BY <1>0, <2>4, <3>2, <3>3, FleetAssumption DEF CallInv, SamePlace
    <3> QED
      BY <2>2, <3>2, <3>3, <3>4, <3>5 DEF CallInv
  <2> QED
    BY <2>5, <2>6
<1>5. ASSUME NEW c \in Caller, Remember(c) PROVE CallInv(f)'
  <2>1. /\ fcall[c] \in FleetCall /\ ftask[c] \in Task \cup {NoId} /\ fat[c] = "record"
        /\ dispatched' = [dispatched EXCEPT ![fcall[c]] = ftask[c]] /\ UNCHANGED task
        /\ \A d \in Caller \ {c} : SamePlace(d)
    BY <1>0, <1>5 DEF Remember, Return, Settling, CallerType, SamePlace
  <2>2. \/ fat'[c] = "idle"
        \/ fat'[c] = "poll" /\ fcall'[c] = fcall[c] /\ ftask[c] \in Task
    BY <1>0, <1>5 DEF Remember, Return, Settling, CallerType
  <2>3. Tasks(f)' = Tasks(f)
    BY <2>1 DEF Tasks
  <2>4. CASE fcall[c] # f
    <3>1. dispatched'[f] = dispatched[f]
      BY <1>0, <2>1, <2>4 DEF DispatchType
    <3> QED
      BY <1>0, <2>1, <2>2, <2>3, <2>4, <3>1, CallFrame
  <2>5. CASE fcall[c] = f
    <3>1. Posting(f) = {c} /\ dispatched[f] = NoTask
      BY <1>0, <2>1, <2>5 DEF Posting, CallInv
    <3>2. Posting(f)' = {}
      BY <2>1, <2>2, <3>1 DEF Posting, SamePlace
    <3>3. dispatched'[f] = ftask[c]
      BY <1>0, <2>1, <2>5 DEF DispatchType
    <3>4. \A d \in Caller : fcall'[d] = f /\ fat'[d] = "poll" => d = c
      BY <1>0, <2>1, <3>1, FleetAssumption DEF CallInv, SamePlace
    <3>5. \A d \in Caller : fcall'[d] = f /\ fat'[d] = "poll" => dispatched'[f] \in Task
      BY <2>2, <3>3, <3>4
    <3> QED
      BY <1>0, <2>1, <2>3, <3>2, <3>3, <3>5, FleetAssumption DEF CallInv
  <2> QED
    BY <2>4, <2>5
<1>6. ASSUME NEW g \in FleetCall, Withdraw(g) PROVE CallInv(f)'
  BY <1>0, <1>6, CallFrame, SameTasks DEF Withdraw, SamePlace
<1>7. CASE WithdrawHeard \/ WithdrawRefused
  <2>1. UNCHANGED <<callers, dispatched>>
    BY <1>7 DEF WithdrawHeard, WithdrawRefused, WithdrawReturns
  <2>2. \A t \in Task : task'[t].call = task[t].call
    <3>1. CASE WithdrawHeard
      <4>1. wtask \in Task /\ task' = [task EXCEPT ![wtask].withdrawn = TRUE]
        BY <1>0, <3>1 DEF WithdrawHeard, CancelType
      <4> QED
        BY <1>0, <4>1 DEF DispatchType
    <3> QED
      BY <1>7, <3>1 DEF WithdrawRefused
  <2> QED
    BY <1>0, <2>1, <2>2, CallFrame, SameTasks DEF SamePlace
<1>8. ASSUME NEW t \in Task, Finish(t) PROVE CallInv(f)'
  <2>1. UNCHANGED <<callers, dispatched>>
    BY <1>8 DEF Finish
  <2>2. PICK status \in Ended : task' = [task EXCEPT ![t].status = status]
    BY <1>8 DEF Finish
  <2>3. \A u \in Task : task'[u].call = task[u].call
    BY <1>0, <2>2 DEF DispatchType
  <2> QED
    BY <1>0, <2>1, <2>3, CallFrame, SameTasks DEF SamePlace
<1>9. CASE UNCHANGED fleetVars
  BY <1>0, <1>9, CallFrame, SameTasks DEF fleetVars, SamePlace
<1> QED
  BY <1>1, <1>2, <1>3, <1>4, <1>5, <1>6, <1>7, <1>8, <1>9 DEF FleetNext

-----------------------------------------------------------------------------
(* What the adapter remembers of a call nobody doubts, it keeps.             *)
LEMMA DispatchStays ==
  ASSUME FleetType, OnceInv, [FleetNext]_fleetVars, NEW f \in FleetCall \ doubtful,
         dispatched[f] # NoTask
  PROVE  dispatched'[f] = dispatched[f]
<1>1. CASE \E c \in Caller : Remember(c)
  <2>1. PICK c \in Caller : Remember(c)
    BY <1>1
  <2>2. fat[c] = "record" /\ dispatched' = [dispatched EXCEPT ![fcall[c]] = ftask[c]]
    BY <2>1 DEF Remember
  <2>3. fcall[c] # f
    BY <2>2 DEF OnceInv, CallInv, Posting
  <2> QED
    BY <2>2, <2>3 DEF FleetType, DispatchType
<1>2. CASE ~ \E c \in Caller : Remember(c)
  BY <1>2 DEF FleetNext, fleetVars, Lookup, PostRefused, PostAccepted, Settle, Overdue, Withdraw,
              WithdrawHeard, WithdrawRefused, WithdrawReturns, Finish
<1> QED
  BY <1>1, <1>2

(* What was true to say stays true.                                          *)
LEMMA SaidStays ==
  ASSUME FleetType, OnceInv, [FleetNext]_fleetVars, NEW s, SaidTrue(s),
         s.outcome # "none" => s.call \in FleetCall
  PROVE  SaidTrue(s)'
<1>1. Steady
  BY StaysSteady
<1>2. ASSUME s.call \notin doubtful', s.outcome # "none", dispatched[s.call] # NoTask
      PROVE  dispatched'[s.call] = dispatched[s.call]
  BY <1>1, <1>2, DispatchStays DEF Steady
<1>3. /\ s.tasks \subseteq Task
      /\ \A t \in s.tasks : /\ task[t].status \in Ended => task'[t].status = task[t].status
                            /\ task[t].withdrawn => task'[t].withdrawn
  BY <1>1 DEF SaidTrue, Steady
<1>4. NoId # NoTask /\ NoTask \notin Task
  BY FleetAssumption
<1>5. s.outcome = "completed" => \E t \in s.tasks : task'[t].status = "completed"
  BY <1>3 DEF SaidTrue, Ended
<1>6. ASSUME s.call \notin doubtful' PROVE s.call \notin doubtful
  BY <1>1, <1>6 DEF Steady
<1>7. ASSUME s.call \notin doubtful', s.outcome = "failed"
      PROVE  \/ dispatched'[s.call] = NoId
             \/ \E t \in s.tasks : task'[t].status \in Ended \ {"completed"}
  BY <1>2, <1>3, <1>4, <1>6, <1>7 DEF SaidTrue
<1>8. ASSUME s.call \notin doubtful', s.outcome = "timeout" PROVE dispatched'[s.call] \in Task
  BY <1>2, <1>4, <1>6, <1>8 DEF SaidTrue
<1> QED
  BY <1>3, <1>5, <1>6, <1>7, <1>8 DEF SaidTrue

(* Every answer is true when it is given.                                    *)
LEMMA SaidStep == FleetInv /\ [FleetNext]_fleetVars => SaidInv'
<1> SUFFICES ASSUME FleetInv, [FleetNext]_fleetVars, Steady PROVE SaidInv'
  BY StaysSteady DEF FleetInv
<1>0. /\ CallerType /\ CancelType /\ DispatchType /\ LinkInv /\ OnceInv /\ SaidInv
      /\ FleetType
  BY DEF FleetInv, FleetType
<1>s. ASSUME said' = said PROVE SaidInv'
  BY <1>0, <1>s, SaidStays DEF SaidInv
<1>r. ASSUME NEW s, s.call \in FleetCall, SaidTrue(s), said' = s PROVE SaidInv'
  <2>1. SaidTrue(s)'
    BY <1>0, <1>r, SaidStays
  <2> QED
    BY <1>r, <2>1 DEF SaidInv, SaidTrue
<1>p. ASSUME NEW t \in Task, task[t].call \in FleetCall PROVE Placed(task[t].call)
  BY <1>0, <1>p, FleetAssumption DEF LinkInv, TaskLink
<1>n. ASSUME NEW f \in FleetCall, said' = Result("not cancelled", f) PROVE SaidInv'
  <2>1. /\ said'.call = f /\ said'.outcome = "not cancelled" /\ said'.tasks \subseteq Task
    BY <1>n DEF Result, Tasks
  <2> QED
    BY <2>1 DEF SaidInv, SaidTrue
<1>1. ASSUME NEW c \in Caller, NEW f \in FleetCall, Lookup(c, f) PROVE SaidInv'
  <2>1. CASE said' = Result("refused", f) /\ ~Placed(f)
    <3>1. Tasks(f) = {}
      BY <1>p, <2>1 DEF Tasks
    <3> QED
      BY <1>r, <2>1, <3>1 DEF Result, SaidTrue
  <2>2. ASSUME NEW k \in KeptOf(f), said' = Result(k.outcome, f) PROVE SaidInv'
    <3>1. k \in ToSet(kept) /\ k \in KeptResult /\ k.call = f
      BY <1>0 DEF KeptOf, ToSet, DispatchType
    <3>2. KeptTrue(k) /\ k.outcome \in {"completed", "failed"}
      BY <1>0, <3>1 DEF LinkInv, KeptResult
    <3>3. SaidTrue(Result(k.outcome, f))
      BY <3>1, <3>2 DEF KeptTrue, Result, SaidTrue, Tasks
    <3> QED
      BY <1>r, <2>2, <3>3 DEF Result
  <2>3. CASE said' = Result("failed", f) /\ dispatched[f] = NoId
    BY <1>r, <2>3 DEF Result, SaidTrue, Tasks
  <2>4. \/ said' = said
        \/ said' = Result("refused", f) /\ ~Placed(f)
        \/ \E k \in KeptOf(f) : said' = Result(k.outcome, f)
        \/ said' = Result("failed", f) /\ dispatched[f] = NoId
    BY <1>1 DEF Lookup, Return, Settling, Placed, NotFleetWork, Category
  <2> QED
    BY <1>s, <2>1, <2>2, <2>3, <2>4
<1>2. ASSUME NEW c \in Caller, PostRefused(c) PROVE SaidInv'
  <2>1. said' = Result("refused", fcall[c]) /\ fcall[c] \in FleetCall /\ fat[c] = "post"
    BY <1>0, <1>2 DEF PostRefused, Return, CallerType
  <2>2. fcall[c] \notin doubtful => Tasks(fcall[c]) = {}
    BY <1>0, <2>1 DEF OnceInv, CallInv, Posting
  <2> QED
    BY <1>r, <2>1, <2>2 DEF Result, SaidTrue, Tasks
<1>3. ASSUME NEW c \in Caller, PostAccepted(c) PROVE SaidInv'
  <2>1. CASE said' = said
    BY <1>s, <2>1
  <2>2. CASE said' # said
    <3>1. said' = Result("refused", fcall[c]) /\ fcall[c] \in doubtful' /\ fcall[c] \in FleetCall
      BY <1>0, <1>3, <2>2 DEF PostAccepted, Return, CallerType
    <3> QED
      BY <3>1 DEF SaidInv, SaidTrue, Result, Tasks
  <2> QED
    BY <2>1, <2>2
<1>4. ASSUME NEW c \in Caller, Remember(c) PROVE SaidInv'
  <2>1. CASE said' = said
    BY <1>s, <2>1
  <2>2. CASE said' # said
    <3>1. said' = Result("failed", fcall[c]) /\ fcall[c] \in FleetCall /\ ftask[c] = NoId
          /\ dispatched' = [dispatched EXCEPT ![fcall[c]] = ftask[c]]
      BY <1>0, <1>4, <2>2 DEF Remember, Return, Settling, CallerType
    <3>2. dispatched'[fcall[c]] = NoId
      BY <1>0, <3>1 DEF DispatchType
    <3> QED
      BY <3>1, <3>2 DEF SaidInv, SaidTrue, Result, Tasks
  <2> QED
    BY <2>1, <2>2
<1>5. ASSUME NEW c \in Caller, Settle(c) PROVE SaidInv'
  <2>1. PICK outcome \in {"completed", "failed"} :
           /\ said' = Result(outcome, fcall[c])
           /\ task[ftask[c]].status \in IF outcome = "completed" THEN {"completed"}
                                         ELSE Ended \ {"completed"}
    BY <1>5 DEF Settle, Return
  <2>2. ftask[c] \in Tasks(fcall[c]) /\ fcall[c] \in FleetCall
    BY <1>0, <1>5 DEF Settle, CallerType, LinkInv, HolderLink, Tasks
  <2>3. SaidTrue(Result(outcome, fcall[c]))
    BY <2>1, <2>2 DEF SaidTrue, Result, Tasks
  <2> QED
    BY <1>r, <2>1, <2>2, <2>3 DEF Result
<1>6. ASSUME NEW c \in Caller, Overdue(c) PROVE SaidInv'
  <2>1. said' = Result("timeout", fcall[c]) /\ fcall[c] \in FleetCall /\ fat[c] = "poll"
    BY <1>0, <1>6 DEF Overdue, Return, CallerType
  <2>2. fcall[c] \notin doubtful => dispatched[fcall[c]] \in Task
    BY <1>0, <2>1 DEF OnceInv, CallInv
  <2> QED
    BY <1>r, <2>1, <2>2 DEF Result, SaidTrue, Tasks
<1>7. ASSUME NEW f \in FleetCall, Withdraw(f) PROVE SaidInv'
  <2>1. said' = said \/ said' = Result("not cancelled", f)
    BY <1>7 DEF Withdraw
  <2> QED
    BY <1>n, <1>s, <2>1
<1>8. CASE WithdrawHeard
  <2>1. /\ wat = "post" /\ task' = [task EXCEPT ![wtask].withdrawn = TRUE]
        /\ \E outcome \in {"cancelled", "not cancelled"} : said' = Result(outcome, wcall)
        /\ UNCHANGED doubtful
    BY <1>8 DEF WithdrawHeard, WithdrawReturns
  <2>2. wcall \in FleetCall /\ wtask \in Tasks(wcall)
    BY <1>0, <2>1 DEF CancelType, LinkInv, TaskLink, Tasks
  <2>3. wcall \notin doubtful => \A t \in Tasks(wcall) : task'[t].withdrawn
    <3>1. task'[wtask].withdrawn
      BY <1>0, <2>1, <2>2 DEF DispatchType, Tasks
    <3> QED
      BY <1>0, <2>2, <3>1 DEF OnceInv, CallInv
  <2>4. CASE said' = Result("cancelled", wcall)
    <3>1. /\ said'.call = wcall /\ said'.outcome = "cancelled" /\ said'.tasks = Tasks(wcall)
          /\ Tasks(wcall) \subseteq Task
      BY <2>4 DEF Result, Tasks
    <3> QED
      BY <2>1, <2>2, <2>3, <3>1 DEF SaidInv, SaidTrue
  <2> QED
    BY <1>n, <2>1, <2>2, <2>4
<1>9. CASE WithdrawRefused
  <2>1. said' = Result("not cancelled", wcall) /\ wcall \in FleetCall
    BY <1>0, <1>9 DEF WithdrawRefused, WithdrawReturns, CancelType
  <2> QED
    BY <1>n, <2>1
<1>10. ASSUME NEW t \in Task, Finish(t) PROVE SaidInv'
  BY <1>s, <1>10 DEF Finish
<1>11. CASE UNCHANGED fleetVars
  BY <1>s, <1>11 DEF fleetVars
<1> QED
  BY <1>1, <1>2, <1>3, <1>4, <1>5, <1>6, <1>7, <1>8, <1>9, <1>10, <1>11 DEF FleetNext

(* A call of an Open-RMF fleet is what its task is (OpenRmfAdapter.invoke,   *)
(* _settle, cancel), for any number of callers, calls and tasks, unless the  *)
(* answer to its dispatch was lost or two threads posted it at once: it has  *)
(* at most one task, it is told as completed or failed only when the task    *)
(* came to that, as refused only when there is none, and as cancelled only   *)
(* when the task was withdrawn.                                              *)
THEOREM CallsAreTheirTasks == FleetSpec => []FleetCallIsItsTask
<1>1. FleetInit => FleetInv
  <2> SUFFICES ASSUME FleetInit PROVE FleetInv
    OBVIOUS
  <2>1. FleetType
    BY DEF FleetInit, FleetType, CallerType, CancelType, DispatchType
  <2>2. LinkInv
    BY FleetAssumption DEF FleetInit, LinkInv, HolderLink, TaskLink, ToSet
  <2>3. \A f \in FleetCall : Tasks(f) = {} /\ Posting(f) = {}
    BY FleetAssumption DEF FleetInit, Tasks, Posting
  <2>4. OnceInv
    BY <2>3 DEF FleetInit, OnceInv, CallInv
  <2>5. SaidInv
    BY DEF FleetInit, SaidInv, SaidTrue
  <2> QED
    BY <2>1, <2>2, <2>4, <2>5 DEF FleetInv
<1>2. FleetInv /\ [FleetNext]_fleetVars => FleetInv'
  BY FleetTypeStep, LinkStep, OnceStep, SaidStep DEF FleetInv
<1>3. FleetInv => FleetCallIsItsTask
  <2> SUFFICES ASSUME FleetInv PROVE FleetCallIsItsTask
    OBVIOUS
  <2>1. ASSUME NEW f \in FleetCall \ doubtful PROVE Cardinality(Tasks(f)) <= 1
    <3>1. \A t, u \in Tasks(f) : t = u
      BY DEF FleetInv, OnceInv, CallInv
    <3>2. CASE Tasks(f) = {}
      BY <3>2, FS_EmptySet
    <3>3. ASSUME NEW t \in Tasks(f) PROVE Cardinality(Tasks(f)) <= 1
      <4>1. Tasks(f) = {t}
        BY <3>1
      <4> QED
        BY <4>1, FS_Singleton
    <3> QED
      BY <3>2, <3>3
  <2>2. Discovered = Described(TRUE)
    BY Discovery
  <2> QED
    BY <2>1, <2>2 DEF FleetInv, SaidInv, SaidTrue, FleetCallIsItsTask
<1> QED
  BY <1>1, <1>2, <1>3, PTL DEF FleetSpec

-----------------------------------------------------------------------------
(* Gates of a handoff.                                                       *)
HandoffSpec == HandoffInit /\ [][HandoffNext]_handoffVars

ItemKinds      == {"item_verified", "item_rejected"}
RecipientKinds == {"recipient_verified", "recipient_rejected"}
Opened         == {"unlocked", "completed"}
ItemPassed     == {"checkpoint_ready", "awaiting_recipient", "ready_to_unlock"} \cup Opened

States         == {"awaiting_preconditions", "awaiting_item", "blocked_item"} \cup ItemPassed
Kinds          ==
    {"handoff_started", "precondition_verified", "precondition_rejected", "checkpoint_resumed",
     "container_unlocked", "handoff_completed"} \cup ItemKinds \cup RecipientKinds

EventRecord == [kind : Kinds, name : Preconditions \cup {""}, state : States, locked : BOOLEAN]

SessionType(s) ==
    s \in [state : States,
           locked : BOOLEAN, checkpoint : BOOLEAN, verified : SUBSET Preconditions,
           item : BOOLEAN, recipient : BOOLEAN, events : Seq(EventRecord)]

Told(s, i, kinds) == i \in 1..Len(s.events) /\ s.events[i].kind \in kinds

(* The container is opened once, after every gate, and stays locked before.  *)
LockInv(s) ==
    /\ s.state \in Opened =>
          /\ ~s.locked
          /\ \E u \in 1..Len(s.events) :
                /\ s.events[u].kind = "container_unlocked"
                /\ \A i \in 1..Len(s.events) : s.events[i].locked <=> i < u
                /\ \A i : Told(s, i, {"container_unlocked"}) => i = u
                /\ \A i : Told(s, i, ItemKinds \cup RecipientKinds \cup {"checkpoint_resumed"}) => i < u
    /\ s.state \notin Opened =>
          /\ s.locked
          /\ \A i \in 1..Len(s.events) : s.events[i].locked /\ s.events[i].kind # "container_unlocked"

(* No item is scanned before every precondition was verified.                *)
VerifiedBy(s, p, n) ==
    \E i \in 1..n : s.events[i].kind = "precondition_verified" /\ s.events[i].name = p

PreconditionInv(s) ==
    /\ \A p \in s.verified : VerifiedBy(s, p, Len(s.events))
    /\ s.state # "awaiting_preconditions" => s.verified = Preconditions
    /\ \A j : Told(s, j, ItemKinds) => \A p \in Preconditions : VerifiedBy(s, p, j)

(* The last item scanned was the right one, and is resumed from if another   *)
(* was rejected before it.                                                   *)
ItemInv(s) ==
    /\ s.state \in {"awaiting_preconditions", "awaiting_item"} =>
          ~s.checkpoint /\ \A i : ~Told(s, i, ItemKinds)
    /\ s.state = "blocked_item" => s.checkpoint
    /\ s.state \in ItemPassed =>
          \E k \in 1..Len(s.events) :
             /\ s.events[k].kind = "item_verified"
             /\ \A j : Told(s, j, ItemKinds) => j <= k
             /\ s.state # "checkpoint_ready" /\ (\E j : Told(s, j, {"item_rejected"})) =>
                   \E i : i > k /\ Told(s, i, {"checkpoint_resumed"})

(* The last recipient was the right one, and came after the item.            *)
RecipientInv(s) ==
    /\ s.state \notin ItemPassed \ {"checkpoint_ready"} => \A i : ~Told(s, i, RecipientKinds)
    /\ \A i, j : Told(s, i, RecipientKinds) /\ Told(s, j, ItemKinds \cup {"checkpoint_resumed"}) => j < i
    /\ s.state \in {"ready_to_unlock"} \cup Opened =>
          \E w \in 1..Len(s.events) :
             /\ s.events[w].kind = "recipient_verified"
             /\ \A j : Told(s, j, RecipientKinds) => j <= w

SessionInv(s) == SessionType(s) /\ LockInv(s) /\ PreconditionInv(s) /\ ItemInv(s) /\ RecipientInv(s)

-----------------------------------------------------------------------------
(* The last event of a kind is the one no other comes after.                 *)
LEMMA LastIs ==
  ASSUME NEW kinds, NEW n \in Nat, NEW k \in 1..n, session.events[k].kind \in kinds,
         \A j \in 1..n : session.events[j].kind \in kinds => j <= k
  PROVE  LastOf(kinds, n) = k
<1> DEFINE S == {0} \cup {i \in 1..n : session.events[i].kind \in kinds}
<1>1. k \in S /\ S \subseteq Int /\ \A y \in S : k >= y
  OBVIOUS
<1>2. \A x \in S : (\A y \in S : x >= y) => x = k
  BY <1>1
<1> HIDE DEF S
<1>3. Max(S) = k
  BY <1>1, <1>2 DEF Max
<1> QED
  BY <1>3 DEF LastOf, S

(* There is no last event of a kind that was never told.                     *)
LEMMA LastNone ==
  ASSUME NEW kinds, NEW n, \A j \in 1..n : session.events[j].kind \notin kinds
  PROVE  LastOf(kinds, n) = 0
<1>1. {0} \cup {i \in 1..n : session.events[i].kind \in kinds} = {0}
  OBVIOUS
<1>2. Max({0}) = 0
  BY DEF Max
<1> QED
  BY <1>1, <1>2 DEF LastOf

(* A new event is the last, and the others stay where they are.              *)
LEMMA AppendAdds ==
  ASSUME NEW s, SessionType(s), NEW t, NEW e \in EventRecord, t.events = Append(s.events, e)
  PROVE  /\ t.events \in Seq(EventRecord)
         /\ Len(s.events) \in Nat /\ Len(t.events) = Len(s.events) + 1
         /\ t.events[Len(s.events) + 1] = e
         /\ \A i \in 1..Len(s.events) : t.events[i] = s.events[i]
         /\ \A i, kinds : Told(t, i, kinds) <=>
               \/ Told(s, i, kinds)
               \/ i = Len(s.events) + 1 /\ e.kind \in kinds
         /\ \A p, n : n \in 1..Len(s.events) /\ VerifiedBy(s, p, n) => VerifiedBy(t, p, n)
<1>1. s.events \in Seq(EventRecord)
  BY DEF SessionType
<1>2. /\ t.events \in Seq(EventRecord)
      /\ Len(s.events) \in Nat /\ Len(t.events) = Len(s.events) + 1
      /\ t.events[Len(s.events) + 1] = e
      /\ \A i \in 1..Len(s.events) : t.events[i] = s.events[i]
  BY <1>1, AppendProperties
<1>3. \A i, kinds : Told(t, i, kinds) <=>
               \/ Told(s, i, kinds)
               \/ i = Len(s.events) + 1 /\ e.kind \in kinds
  BY <1>2 DEF Told
<1>4. \A p, n : n \in 1..Len(s.events) /\ VerifiedBy(s, p, n) => VerifiedBy(t, p, n)
  BY <1>2 DEF VerifiedBy
<1> QED
  BY <1>2, <1>3, <1>4

(* The gates a completed handoff has behind it.                              *)
LEMMA GatesHeld ==
  ASSUME SessionInv(session), session.state = "completed", driver.published = {driver.pending}
  PROVE  HandoffBeforeApproval
<1> DEFINE e == session.events
           n == Len(session.events)
<1>1. n \in Nat
  BY DEF SessionInv, SessionType
<1>2. PICK u \in 1..n :
         /\ e[u].kind = "container_unlocked"
         /\ \A i \in 1..n : e[i].locked <=> i < u
         /\ \A i : Told(session, i, {"container_unlocked"}) => i = u
         /\ \A i : Told(session, i, ItemKinds \cup RecipientKinds \cup {"checkpoint_resumed"}) => i < u
  BY DEF SessionInv, LockInv, Opened
<1>3. PICK k \in 1..n :
         /\ e[k].kind = "item_verified"
         /\ \A j : Told(session, j, ItemKinds) => j <= k
         /\ (\E j : Told(session, j, {"item_rejected"})) =>
                \E i : i > k /\ Told(session, i, {"checkpoint_resumed"})
  BY DEF SessionInv, ItemInv, ItemPassed, Opened
<1>4. PICK w \in 1..n :
         e[w].kind = "recipient_verified" /\ \A j : Told(session, j, RecipientKinds) => j <= w
  BY DEF SessionInv, RecipientInv, Opened
<1>5. k < u /\ w < u /\ k < w
  BY <1>2, <1>3, <1>4 DEF SessionInv, RecipientInv, Told, ItemKinds, RecipientKinds
<1>6. LastOf({"container_unlocked"}, n) = u
  <2>1. \A j \in 1..n : e[j].kind \in {"container_unlocked"} => j <= u
    BY <1>1, <1>2 DEF Told
  <2> QED
    BY <1>1, <1>2, <2>1, LastIs
<1>7. LastOf({"item_verified", "item_rejected"}, u) = k
  <2>1. \A j \in 1..u : e[j].kind \in {"item_verified", "item_rejected"} => j <= k
    BY <1>1, <1>2, <1>3 DEF Told, ItemKinds
  <2> QED
    BY <1>1, <1>3, <1>5, <2>1, LastIs
<1>8. LastOf({"recipient_verified", "recipient_rejected"}, u) = w
  <2>1. \A j \in 1..u : e[j].kind \in {"recipient_verified", "recipient_rejected"} => j <= w
    BY <1>1, <1>2, <1>4 DEF Told, RecipientKinds
  <2> QED
    BY <1>1, <1>4, <1>5, <2>1, LastIs
<1>9. \A p \in Preconditions : \E i \in 1..k : e[i].kind = "precondition_verified" /\ e[i].name = p
  BY <1>3 DEF SessionInv, PreconditionInv, VerifiedBy, Told, ItemKinds
<1>10. LastOf({"item_rejected"}, k) > 0 => \E i \in k..w : e[i].kind = "checkpoint_resumed"
  <2>1. CASE \A j \in 1..k : e[j].kind \notin {"item_rejected"}
    BY <2>1, LastNone
  <2>2. ASSUME NEW j \in 1..k, e[j].kind = "item_rejected"
        PROVE  \E i \in k..w : e[i].kind = "checkpoint_resumed"
    <3>1. Told(session, j, {"item_rejected"})
      BY <1>1, <2>2 DEF Told
    <3>2. PICK i : i > k /\ Told(session, i, {"checkpoint_resumed"})
      BY <1>3, <3>1
    <3>3. i < w /\ i \in 1..n /\ e[i].kind = "checkpoint_resumed"
      BY <1>4, <3>2 DEF SessionInv, RecipientInv, Told, RecipientKinds
    <3> QED
      BY <3>2, <3>3
  <2> QED
    BY <2>1, <2>2
<1> HIDE DEF e, n
<1> QED
  BY <1>2, <1>3, <1>4, <1>5, <1>6, <1>7, <1>8, <1>9, <1>10 DEF HandoffBeforeApproval, e, n

-----------------------------------------------------------------------------
(* What an action makes of a session: its new state, and one event.          *)
Adds(s, t, kind, name) ==
    /\ SessionType(t)
    /\ \E e \in EventRecord : /\ t.events = Append(s.events, e)
                            /\ e.kind = kind /\ e.name = name /\ e.locked = t.locked

(* A handler that ends in an event adds that event and nothing else.         *)
LEMMA EventAdds ==
  ASSUME NEW s, NEW r, SessionType(r), r.events = s.events, NEW kind \in Kinds,
         NEW name \in Preconditions \cup {""}
  PROVE  /\ Adds(s, Event(r, kind, name), kind, name)
         /\ Event(r, kind, name).state = r.state /\ Event(r, kind, name).locked = r.locked
         /\ Event(r, kind, name).checkpoint = r.checkpoint
         /\ Event(r, kind, name).verified = r.verified
<1> DEFINE e == [kind |-> kind, name |-> name, state |-> r.state, locked |-> r.locked]
           t == Event(r, kind, name)
<1>1. e \in EventRecord
  <2>1. r.state \in States
    BY DEF SessionType
  <2>2. r.locked \in BOOLEAN
    BY DEF SessionType
  <2> QED
    BY <2>1, <2>2 DEF EventRecord
<1>2. t = [r EXCEPT !.events = Append(r.events, e)]
  BY DEF Event
<1>3. Append(r.events, e) \in Seq(EventRecord)
  BY <1>1, AppendProperties DEF SessionType
<1>4. SessionType(t) /\ t.events = Append(s.events, e)
  BY <1>2, <1>3 DEF SessionType
<1> QED
  BY <1>1, <1>2, <1>4 DEF Adds, SessionType

(* An action that opens nothing keeps the container locked.                  *)
LEMMA LockKept ==
  ASSUME NEW s, NEW t, NEW kind, NEW name, SessionInv(s), Adds(s, t, kind, name),
         s.state \notin Opened, t.state \notin Opened, t.locked = s.locked,
         kind # "container_unlocked"
  PROVE  LockInv(t)
<1>1. PICK e \in EventRecord : t.events = Append(s.events, e) /\ e.kind = kind /\ e.locked = t.locked
  BY DEF Adds
<1>2. /\ Len(s.events) \in Nat /\ Len(t.events) = Len(s.events) + 1
      /\ t.events[Len(s.events) + 1] = e
      /\ \A i \in 1..Len(s.events) : t.events[i] = s.events[i]
  BY <1>1, AppendAdds DEF SessionInv
<1> QED
  BY <1>1, <1>2 DEF SessionInv, LockInv

(* Preconditions that were verified stay verified.                           *)
LEMMA PreconditionsKept ==
  ASSUME NEW s, NEW t, NEW kind, NEW name, SessionInv(s), Adds(s, t, kind, name),
         t.verified = s.verified, s.state # "awaiting_preconditions"
  PROVE  PreconditionInv(t)
<1>1. PICK e \in EventRecord : t.events = Append(s.events, e) /\ e.kind = kind
  BY DEF Adds
<1>2. /\ Len(s.events) \in Nat /\ Len(t.events) = Len(s.events) + 1
      /\ \A i, kinds : Told(t, i, kinds) <=>
               \/ Told(s, i, kinds)
               \/ i = Len(s.events) + 1 /\ e.kind \in kinds
      /\ \A p, n : n \in 1..Len(s.events) /\ VerifiedBy(s, p, n) => VerifiedBy(t, p, n)
  BY <1>1, AppendAdds DEF SessionInv
<1>3. s.verified = Preconditions /\ \A p \in Preconditions : VerifiedBy(s, p, Len(s.events))
  BY DEF SessionInv, PreconditionInv
<1>4. \A p \in Preconditions : VerifiedBy(t, p, Len(s.events)) /\ VerifiedBy(t, p, Len(t.events))
                             /\ VerifiedBy(t, p, Len(s.events) + 1)
  <2> SUFFICES ASSUME NEW p \in Preconditions
               PROVE  /\ VerifiedBy(t, p, Len(s.events)) /\ VerifiedBy(t, p, Len(t.events))
                      /\ VerifiedBy(t, p, Len(s.events) + 1)
    OBVIOUS
  <2>1. VerifiedBy(s, p, Len(s.events))
    BY <1>3
  <2>2. Len(s.events) \in 1..Len(s.events)
    BY <1>2, <2>1 DEF VerifiedBy
  <2>3. VerifiedBy(t, p, Len(s.events))
    BY <1>2, <2>1, <2>2
  <2> QED
    BY <1>2, <2>3 DEF VerifiedBy
<1>5. \A j : Told(s, j, ItemKinds) => \A p \in Preconditions : VerifiedBy(t, p, j)
  BY <1>2 DEF SessionInv, PreconditionInv, Told
<1> QED
  BY <1>2, <1>3, <1>4, <1>5 DEF PreconditionInv

(* A checked precondition keeps the gates (check_precondition), ...          *)
LEMMA CheckKeeps ==
  ASSUME NEW s, SessionInv(s), NEW a, a.kind = "check_precondition", Allowed(s, a)
  PROVE  SessionInv(Apply(s, a)) /\ Apply(s, a).state # "completed"
<1> DEFINE t == Apply(s, a)
           name == a.name
           r == IF a.right THEN [s EXCEPT !.verified = s.verified \cup {name},
                                          !.state = IF s.verified \cup {name} = Preconditions
                                                    THEN "awaiting_item" ELSE @]
                ELSE s
           kind == IF a.right THEN "precondition_verified" ELSE "precondition_rejected"
<1>1. s.state = "awaiting_preconditions" /\ name \in Preconditions /\ SessionType(s)
  BY DEF Allowed, SessionInv
<1>2. t = Event(r, kind, name)
  BY DEF Apply, CheckPrecondition
<1>3. /\ SessionType(r) /\ r.events = s.events /\ r.locked = s.locked /\ r.checkpoint = s.checkpoint
      /\ r.state \in {"awaiting_preconditions", "awaiting_item"}
      /\ r.verified = IF a.right THEN s.verified \cup {name} ELSE s.verified
      /\ r.state # "awaiting_preconditions" => r.verified = Preconditions
  BY <1>1 DEF SessionType, States
<1> HIDE DEF t, r
<1>k. kind \in Kinds /\ name \in Preconditions \cup {""}
  BY <1>1 DEF Kinds, ItemKinds
<1> HIDE DEF kind
<1>4. /\ Adds(s, t, kind, name) /\ t.state = r.state /\ t.locked = s.locked
      /\ t.checkpoint = s.checkpoint /\ t.verified = r.verified
  <2>1. /\ Adds(s, Event(r, kind, name), kind, name)
        /\ Event(r, kind, name).state = r.state /\ Event(r, kind, name).locked = r.locked
        /\ Event(r, kind, name).checkpoint = r.checkpoint /\ Event(r, kind, name).verified = r.verified
    BY <1>k, <1>3, EventAdds
  <2> QED
    BY <1>2, <1>3, <2>1
<1> USE DEF kind
<1>5. PICK e \in EventRecord : t.events = Append(s.events, e) /\ e.kind = kind /\ e.name = name
  BY <1>4 DEF Adds
<1>6. /\ Len(s.events) \in Nat /\ Len(t.events) = Len(s.events) + 1
      /\ t.events[Len(s.events) + 1] = e
      /\ \A i, kinds : Told(t, i, kinds) <=>
               \/ Told(s, i, kinds)
               \/ i = Len(s.events) + 1 /\ e.kind \in kinds
      /\ \A p, n : n \in 1..Len(s.events) /\ VerifiedBy(s, p, n) => VerifiedBy(t, p, n)
  BY <1>1, <1>5, AppendAdds
<1>7. LockInv(t)
  BY <1>1, <1>3, <1>4, LockKept DEF Opened
<1>8. /\ \A i : ~Told(s, i, ItemKinds) /\ ~Told(s, i, RecipientKinds)
      /\ ~s.checkpoint
  BY <1>1 DEF SessionInv, ItemInv, RecipientInv, ItemPassed, Opened
<1>9. \A i : ~Told(t, i, ItemKinds) /\ ~Told(t, i, RecipientKinds)
  BY <1>5, <1>6, <1>8 DEF ItemKinds, RecipientKinds
<1>10. PreconditionInv(t)
  <2>1. \A p \in s.verified : VerifiedBy(t, p, Len(t.events))
    <3> SUFFICES ASSUME NEW p \in s.verified PROVE VerifiedBy(t, p, Len(t.events))
      OBVIOUS
    <3>1. VerifiedBy(s, p, Len(s.events))
      BY DEF SessionInv, PreconditionInv
    <3>2. Len(s.events) \in 1..Len(s.events)
      BY <1>6, <3>1 DEF VerifiedBy
    <3>3. VerifiedBy(t, p, Len(s.events))
      BY <1>6, <3>1, <3>2
    <3> QED
      BY <1>6, <3>3 DEF VerifiedBy
  <2>2. a.right => VerifiedBy(t, name, Len(t.events))
    BY <1>5, <1>6 DEF VerifiedBy
  <2> QED
    BY <1>3, <1>4, <1>9, <2>1, <2>2 DEF PreconditionInv
<1>11. ItemInv(t) /\ RecipientInv(t)
  BY <1>3, <1>4, <1>8, <1>9 DEF ItemInv, RecipientInv, ItemPassed, Opened
<1>12. SessionInv(t) /\ t.state # "completed"
  BY <1>3, <1>4, <1>7, <1>10, <1>11 DEF SessionInv, Adds
<1> QED
  BY <1>12 DEF t

(* ... and so does a scanned item, right or wrong (scan_item), ...           *)
LEMMA ItemKeeps ==
  ASSUME NEW s, SessionInv(s), NEW a, a.kind = "scan_item", Allowed(s, a)
  PROVE  SessionInv(Apply(s, a)) /\ Apply(s, a).state # "completed"
<1> DEFINE t == Apply(s, a)
           r == IF a.right
                THEN [s EXCEPT !.item = TRUE,
                               !.state = IF s.checkpoint THEN "checkpoint_ready" ELSE "awaiting_recipient"]
                ELSE [s EXCEPT !.item = FALSE, !.state = "blocked_item", !.checkpoint = TRUE]
           kind == IF a.right THEN "item_verified" ELSE "item_rejected"
<1>1. s.state \in {"awaiting_item", "blocked_item"} /\ SessionType(s)
  BY DEF Allowed, SessionInv
<1>2. t = Event(r, kind, "")
  BY DEF Apply, ScanItem
<1>3. /\ SessionType(r) /\ r.events = s.events /\ r.locked = s.locked /\ r.verified = s.verified
      /\ r.state = IF ~a.right THEN "blocked_item"
                   ELSE IF s.checkpoint THEN "checkpoint_ready" ELSE "awaiting_recipient"
      /\ ~a.right => r.checkpoint
  BY <1>1 DEF SessionType, States, ItemPassed
<1> HIDE DEF t, r
<1>k. kind \in Kinds /\ "" \in Preconditions \cup {""}
  BY <1>1 DEF Kinds, ItemKinds
<1> HIDE DEF kind
<1>4. /\ Adds(s, t, kind, "") /\ t.state = r.state /\ t.locked = s.locked
      /\ t.checkpoint = r.checkpoint /\ t.verified = s.verified
  <2>1. /\ Adds(s, Event(r, kind, ""), kind, "")
        /\ Event(r, kind, "").state = r.state /\ Event(r, kind, "").locked = r.locked
        /\ Event(r, kind, "").checkpoint = r.checkpoint /\ Event(r, kind, "").verified = r.verified
    BY <1>k, <1>3, EventAdds
  <2> QED
    BY <1>2, <1>3, <2>1
<1> USE DEF kind
<1>5. PICK e \in EventRecord : t.events = Append(s.events, e) /\ e.kind = kind
  BY <1>4 DEF Adds
<1>6. /\ Len(s.events) \in Nat /\ Len(t.events) = Len(s.events) + 1
      /\ t.events[Len(s.events) + 1] = e
      /\ \A i, kinds : Told(t, i, kinds) <=>
               \/ Told(s, i, kinds)
               \/ i = Len(s.events) + 1 /\ e.kind \in kinds
  BY <1>1, <1>5, AppendAdds
<1>7. LockInv(t) /\ PreconditionInv(t)
  BY <1>1, <1>3, <1>4, LockKept, PreconditionsKept DEF Opened
<1>8. \A i : ~Told(t, i, RecipientKinds)
  BY <1>1, <1>5, <1>6 DEF SessionInv, RecipientInv, ItemPassed, Opened, RecipientKinds
<1>9. RecipientInv(t)
  BY <1>3, <1>4, <1>8 DEF RecipientInv, Opened
<1>10. ItemInv(t)
  <2>1. CASE ~a.right
    BY <1>3, <1>4, <2>1 DEF ItemInv, ItemPassed, Opened
  <2>2. CASE a.right
    <3> DEFINE k == Len(s.events) + 1
    <3>1. k \in 1..Len(t.events) /\ t.events[k].kind = "item_verified"
      BY <1>5, <1>6, <2>2
    <3>2. \A j : Told(t, j, ItemKinds) => j <= k
      BY <1>6 DEF Told
    <3>3. t.state # "checkpoint_ready" => \A j : ~Told(t, j, {"item_rejected"})
      <4> SUFFICES ASSUME t.state # "checkpoint_ready", NEW j, Told(t, j, {"item_rejected"})
                   PROVE  FALSE
        OBVIOUS
      <4>1. ~s.checkpoint /\ s.state = "awaiting_item"
        BY <1>1, <1>3, <1>4, <2>2 DEF SessionInv, ItemInv
      <4>2. ~Told(s, j, ItemKinds)
        BY <4>1 DEF SessionInv, ItemInv
      <4> QED
        BY <1>5, <1>6, <2>2, <4>2 DEF Told, ItemKinds
    <3>4. t.state \in ItemPassed
      BY <1>3, <1>4, <2>2 DEF ItemPassed
    <3> HIDE DEF k
    <3> QED
      BY <1>3, <1>4, <2>2, <3>1, <3>2, <3>3, <3>4 DEF ItemInv
  <2> QED
    BY <2>1, <2>2
<1>11. SessionInv(t) /\ t.state # "completed"
  BY <1>3, <1>4, <1>7, <1>9, <1>10 DEF SessionInv, Adds
<1> QED
  BY <1>11 DEF t

(* ... the return from a blocked item (resume_checkpoint), ...               *)
LEMMA ResumeKeeps ==
  ASSUME NEW s, SessionInv(s), NEW a, a.kind = "resume_checkpoint", Allowed(s, a)
  PROVE  SessionInv(Apply(s, a)) /\ Apply(s, a).state # "completed"
<1> DEFINE t == Apply(s, a)
           r == [s EXCEPT !.state = "awaiting_recipient", !.checkpoint = FALSE]
           kind == "checkpoint_resumed"
<1>1. s.state = "checkpoint_ready" /\ SessionType(s)
  BY DEF Allowed, SessionInv
<1>2. t = Event(r, kind, "")
  BY DEF Apply, ResumeCheckpoint
<1>3. /\ SessionType(r) /\ r.events = s.events /\ r.locked = s.locked /\ r.verified = s.verified
      /\ r.state = "awaiting_recipient"
  BY <1>1 DEF SessionType, States, ItemPassed
<1> HIDE DEF t, r
<1>k. kind \in Kinds /\ "" \in Preconditions \cup {""}
  BY <1>1 DEF Kinds, ItemKinds
<1> HIDE DEF kind
<1>4. /\ Adds(s, t, kind, "") /\ t.state = r.state /\ t.locked = s.locked /\ t.verified = s.verified
  <2>1. /\ Adds(s, Event(r, kind, ""), kind, "")
        /\ Event(r, kind, "").state = r.state /\ Event(r, kind, "").locked = r.locked
        /\ Event(r, kind, "").checkpoint = r.checkpoint /\ Event(r, kind, "").verified = r.verified
    BY <1>k, <1>3, EventAdds
  <2> QED
    BY <1>2, <1>3, <2>1
<1> USE DEF kind
<1>5. PICK e \in EventRecord : t.events = Append(s.events, e) /\ e.kind = kind
  BY <1>4 DEF Adds
<1>6. /\ Len(s.events) \in Nat /\ Len(t.events) = Len(s.events) + 1
      /\ t.events[Len(s.events) + 1] = e
      /\ \A i \in 1..Len(s.events) : t.events[i] = s.events[i]
      /\ \A i, kinds : Told(t, i, kinds) <=>
               \/ Told(s, i, kinds)
               \/ i = Len(s.events) + 1 /\ e.kind \in kinds
  BY <1>1, <1>5, AppendAdds
<1>7. LockInv(t) /\ PreconditionInv(t)
  BY <1>1, <1>3, <1>4, LockKept, PreconditionsKept DEF Opened
<1>8. \A i : ~Told(t, i, RecipientKinds)
  BY <1>1, <1>5, <1>6 DEF SessionInv, RecipientInv, ItemPassed, Opened, RecipientKinds
<1>9. RecipientInv(t)
  BY <1>3, <1>4, <1>8 DEF RecipientInv, Opened
<1>10. ItemInv(t)
  <2>1. PICK k \in 1..Len(s.events) :
           s.events[k].kind = "item_verified" /\ \A j : Told(s, j, ItemKinds) => j <= k
    BY <1>1 DEF SessionInv, ItemInv, ItemPassed
  <2>2. k \in 1..Len(t.events) /\ t.events[k].kind = "item_verified"
    BY <1>6, <2>1
  <2>3. \A j : Told(t, j, ItemKinds) => j <= k
    BY <1>5, <1>6, <2>1 DEF ItemKinds
  <2>4. Len(s.events) + 1 > k /\ Told(t, Len(s.events) + 1, {"checkpoint_resumed"})
    BY <1>5, <1>6, <2>1 DEF Told
  <2> QED
    BY <1>3, <1>4, <2>2, <2>3, <2>4 DEF ItemInv
<1>11. SessionInv(t) /\ t.state # "completed"
  BY <1>3, <1>4, <1>7, <1>9, <1>10 DEF SessionInv, Adds
<1> QED
  BY <1>11 DEF t

(* An action adds nothing to the kinds it does not tell of.                  *)
LEMMA NotTold ==
  ASSUME NEW s, SessionType(s), NEW t, NEW kind, NEW name, Adds(s, t, kind, name),
         NEW kinds, kind \notin kinds
  PROVE  \A i : Told(t, i, kinds) <=> Told(s, i, kinds)
<1>1. PICK e \in EventRecord : t.events = Append(s.events, e) /\ e.kind = kind
  BY DEF Adds
<1> QED
  BY <1>1, AppendAdds

(* ... a scanned recipient (scan_recipient), ...                             *)
LEMMA RecipientKeeps ==
  ASSUME NEW s, SessionInv(s), NEW a, a.kind = "scan_recipient", a.right \in BOOLEAN, Allowed(s, a)
  PROVE  SessionInv(Apply(s, a)) /\ Apply(s, a).state # "completed"
<1> DEFINE t == Apply(s, a)
           r == [s EXCEPT !.recipient = a.right,
                          !.state = IF a.right THEN "ready_to_unlock" ELSE "awaiting_recipient"]
           kind == IF a.right THEN "recipient_verified" ELSE "recipient_rejected"
<1>1. s.state \in {"awaiting_recipient", "ready_to_unlock"} /\ SessionType(s)
  BY DEF Allowed, SessionInv
<1>2. t = Event(r, kind, "")
  BY DEF Apply, ScanRecipient
<1>3. /\ SessionType(r) /\ r.events = s.events /\ r.locked = s.locked /\ r.verified = s.verified
      /\ r.state = IF a.right THEN "ready_to_unlock" ELSE "awaiting_recipient"
  BY <1>1 DEF SessionType, States, ItemPassed
<1>k. kind \in Kinds /\ "" \in Preconditions \cup {""}
  BY DEF Kinds, RecipientKinds
<1>n. /\ kind \notin ItemKinds /\ kind \notin {"item_rejected"} /\ kind \notin {"checkpoint_resumed"}
      /\ kind # "container_unlocked"
  BY DEF ItemKinds
<1> HIDE DEF t, r, kind
<1>4. /\ Adds(s, t, kind, "") /\ t.state = r.state /\ t.locked = s.locked /\ t.verified = s.verified
  <2>1. /\ Adds(s, Event(r, kind, ""), kind, "")
        /\ Event(r, kind, "").state = r.state /\ Event(r, kind, "").locked = r.locked
        /\ Event(r, kind, "").checkpoint = r.checkpoint /\ Event(r, kind, "").verified = r.verified
    BY <1>k, <1>3, EventAdds
  <2> QED
    BY <1>2, <1>3, <2>1
<1>5. PICK e \in EventRecord : t.events = Append(s.events, e) /\ e.kind = kind
  BY <1>4 DEF Adds
<1>6. /\ Len(s.events) \in Nat /\ Len(t.events) = Len(s.events) + 1
      /\ t.events[Len(s.events) + 1] = e
      /\ \A i \in 1..Len(s.events) : t.events[i] = s.events[i]
      /\ \A i, kinds : Told(t, i, kinds) <=>
               \/ Told(s, i, kinds)
               \/ i = Len(s.events) + 1 /\ e.kind \in kinds
  BY <1>1, <1>5, AppendAdds
<1>7. LockInv(t) /\ PreconditionInv(t)
  <2>1. LockInv(t)
    BY <1>1, <1>3, <1>4, <1>n, LockKept DEF Opened
  <2>2. PreconditionInv(t)
    BY <1>1, <1>4, PreconditionsKept
  <2> QED
    BY <2>1, <2>2
<1>a. \A i : Told(t, i, ItemKinds) <=> Told(s, i, ItemKinds)
  BY <1>1, <1>4, <1>n, NotTold
<1>b. \A i : Told(t, i, {"item_rejected"}) <=> Told(s, i, {"item_rejected"})
  BY <1>1, <1>4, <1>n, NotTold
<1>c. \A i : Told(t, i, {"checkpoint_resumed"}) <=> Told(s, i, {"checkpoint_resumed"})
  BY <1>1, <1>4, <1>n, NotTold
<1>d. \A i : Told(t, i, ItemKinds \cup {"checkpoint_resumed"})
                <=> Told(s, i, ItemKinds \cup {"checkpoint_resumed"})
  BY <1>1, <1>4, <1>n, NotTold
<1> USE DEF kind
<1>9. ItemInv(t)
  <2>1. PICK k \in 1..Len(s.events) :
           /\ s.events[k].kind = "item_verified"
           /\ \A j : Told(s, j, ItemKinds) => j <= k
           /\ (\E j : Told(s, j, {"item_rejected"})) =>
                  \E i : i > k /\ Told(s, i, {"checkpoint_resumed"})
    BY <1>1 DEF SessionInv, ItemInv, ItemPassed
  <2>2. k \in 1..Len(t.events) /\ t.events[k].kind = "item_verified"
    BY <1>6, <2>1
  <2> QED
    BY <1>3, <1>4, <1>a, <1>b, <1>c, <2>1, <2>2 DEF ItemInv
<1>10. RecipientInv(t)
  <2>1. \A i, j : Told(t, i, RecipientKinds) /\ Told(t, j, ItemKinds \cup {"checkpoint_resumed"}) => j < i
    <3> SUFFICES ASSUME NEW i, NEW j, Told(t, i, RecipientKinds),
                        Told(t, j, ItemKinds \cup {"checkpoint_resumed"})
                 PROVE  j < i
      OBVIOUS
    <3>1. Told(s, j, ItemKinds \cup {"checkpoint_resumed"})
      BY <1>d
    <3>2. Told(s, i, RecipientKinds) \/ i = Len(s.events) + 1
      BY <1>6
    <3> QED
      <4>1. CASE Told(s, i, RecipientKinds)
        BY <3>1, <4>1 DEF SessionInv, RecipientInv
      <4>2. CASE i = Len(s.events) + 1
        BY <1>6, <3>1, <4>2 DEF Told
      <4> QED
        BY <3>2, <4>1, <4>2
  <2>2. a.right => /\ Len(s.events) + 1 \in 1..Len(t.events)
                   /\ t.events[Len(s.events) + 1].kind = "recipient_verified"
                   /\ \A j : Told(t, j, RecipientKinds) => j <= Len(s.events) + 1
    BY <1>5, <1>6 DEF Told
  <2> QED
    BY <1>3, <1>4, <2>1, <2>2 DEF RecipientInv, ItemPassed, Opened
<1>11. SessionInv(t) /\ t.state # "completed"
  BY <1>3, <1>4, <1>7, <1>9, <1>10 DEF SessionInv, Adds
<1> QED
  BY <1>11 DEF t

(* Neither the opening nor the end of a handoff touches the item's gate or   *)
(* the recipient's.                                                          *)
LEMMA GatesKept ==
  ASSUME NEW s, NEW t, NEW kind, NEW name, SessionInv(s), Adds(s, t, kind, name),
         s.state \in {"ready_to_unlock", "unlocked"}, t.state \in Opened,
         kind \in {"container_unlocked", "handoff_completed"}
  PROVE  ItemInv(t) /\ RecipientInv(t)
<1>5. PICK e \in EventRecord : t.events = Append(s.events, e) /\ e.kind = kind
  BY DEF Adds
<1>6. /\ Len(s.events) \in Nat /\ Len(t.events) = Len(s.events) + 1
      /\ \A i \in 1..Len(s.events) : t.events[i] = s.events[i]
      /\ \A i, kinds : Told(t, i, kinds) <=>
               \/ Told(s, i, kinds)
               \/ i = Len(s.events) + 1 /\ e.kind \in kinds
  BY <1>5, AppendAdds DEF SessionInv
<1>1. SessionType(s)
  BY DEF SessionInv
<1>a. \A i : Told(t, i, ItemKinds) <=> Told(s, i, ItemKinds)
  BY <1>1, NotTold DEF ItemKinds
<1>b. \A i : Told(t, i, {"item_rejected"}) <=> Told(s, i, {"item_rejected"})
  BY <1>1, NotTold
<1>c. \A i : Told(t, i, {"checkpoint_resumed"}) <=> Told(s, i, {"checkpoint_resumed"})
  BY <1>1, NotTold
<1>d. \A i : Told(t, i, ItemKinds \cup {"checkpoint_resumed"})
                <=> Told(s, i, ItemKinds \cup {"checkpoint_resumed"})
  BY <1>1, NotTold DEF ItemKinds
<1>e. \A i : Told(t, i, RecipientKinds) <=> Told(s, i, RecipientKinds)
  BY <1>1, NotTold DEF RecipientKinds
<1>9. ItemInv(t)
  <2>1. PICK k \in 1..Len(s.events) :
           /\ s.events[k].kind = "item_verified"
           /\ \A j : Told(s, j, ItemKinds) => j <= k
           /\ (\E j : Told(s, j, {"item_rejected"})) =>
                  \E i : i > k /\ Told(s, i, {"checkpoint_resumed"})
    BY DEF SessionInv, ItemInv, ItemPassed, Opened
  <2>2. k \in 1..Len(t.events) /\ t.events[k].kind = "item_verified"
    BY <1>6, <2>1
  <2> QED
    BY <1>a, <1>b, <1>c, <2>1, <2>2 DEF ItemInv, Opened
<1>10. RecipientInv(t)
  <2>1. PICK w \in 1..Len(s.events) :
           s.events[w].kind = "recipient_verified" /\ \A j : Told(s, j, RecipientKinds) => j <= w
    BY DEF SessionInv, RecipientInv, Opened
  <2>2. w \in 1..Len(t.events) /\ t.events[w].kind = "recipient_verified"
    BY <1>6, <2>1
  <2> QED
    BY <1>d, <1>e, <2>1, <2>2 DEF SessionInv, RecipientInv, Opened, ItemPassed
<1> QED
  BY <1>9, <1>10

(* ... the opening of the container (unlock_container), ...                  *)
LEMMA UnlockKeeps ==
  ASSUME NEW s, SessionInv(s), NEW a, a.kind = "unlock_container", Allowed(s, a)
  PROVE  SessionInv(Apply(s, a)) /\ Apply(s, a).state # "completed"
<1> DEFINE t == Apply(s, a)
           r == [s EXCEPT !.locked = FALSE, !.state = "unlocked"]
           kind == "container_unlocked"
<1>1. s.state = "ready_to_unlock" /\ SessionType(s)
  BY DEF Allowed, SessionInv
<1>2. t = Event(r, kind, "")
  BY DEF Apply, UnlockContainer
<1>3. /\ SessionType(r) /\ r.events = s.events /\ r.locked = FALSE /\ r.verified = s.verified
      /\ r.state = "unlocked"
  BY <1>1 DEF SessionType, States, ItemPassed, Opened
<1>k. kind \in Kinds /\ "" \in Preconditions \cup {""}
  BY DEF Kinds
<1> HIDE DEF t, r, kind
<1>4. Adds(s, t, kind, "") /\ t.state = "unlocked" /\ t.locked = FALSE /\ t.verified = s.verified
  <2>1. /\ Adds(s, Event(r, kind, ""), kind, "")
        /\ Event(r, kind, "").state = r.state /\ Event(r, kind, "").locked = r.locked
        /\ Event(r, kind, "").checkpoint = r.checkpoint /\ Event(r, kind, "").verified = r.verified
    BY <1>k, <1>3, EventAdds
  <2> QED
    BY <1>2, <1>3, <2>1
<1> USE DEF kind
<1>5. PICK e \in EventRecord : t.events = Append(s.events, e) /\ e.kind = kind /\ e.locked = t.locked
  BY <1>4 DEF Adds
<1>6. /\ Len(s.events) \in Nat /\ Len(t.events) = Len(s.events) + 1
      /\ t.events[Len(s.events) + 1] = e
      /\ \A i \in 1..Len(s.events) : t.events[i] = s.events[i]
      /\ \A i, kinds : Told(t, i, kinds) <=>
               \/ Told(s, i, kinds)
               \/ i = Len(s.events) + 1 /\ e.kind \in kinds
  BY <1>1, <1>5, AppendAdds
<1>7. PreconditionInv(t) /\ ItemInv(t) /\ RecipientInv(t)
  BY <1>1, <1>4, PreconditionsKept, GatesKept DEF Opened
<1>8. LockInv(t)
  <2> DEFINE u == Len(s.events) + 1
  <2>1. \A i \in 1..Len(s.events) : s.events[i].locked /\ s.events[i].kind # "container_unlocked"
    BY <1>1 DEF SessionInv, LockInv, Opened
  <2>2. \A i \in 1..Len(t.events) : t.events[i].locked <=> i < u
    <3>1. ~t.events[u].locked
      BY <1>4, <1>5, <1>6
    <3> QED
      BY <1>6, <2>1, <3>1
  <2>3. \A i : Told(t, i, {"container_unlocked"}) => i = u
    BY <1>6, <2>1 DEF Told
  <2>4. \A i : Told(t, i, ItemKinds \cup RecipientKinds \cup {"checkpoint_resumed"}) => i < u
    BY <1>5, <1>6 DEF Told, ItemKinds, RecipientKinds
  <2>5. u \in 1..Len(t.events) /\ t.events[u].kind = "container_unlocked"
    BY <1>5, <1>6
  <2> HIDE DEF u
  <2> QED
    BY <1>4, <2>2, <2>3, <2>4, <2>5 DEF LockInv, Opened
<1>11. SessionInv(t) /\ t.state # "completed"
  BY <1>4, <1>7, <1>8 DEF SessionInv, Adds
<1> QED
  BY <1>11 DEF t

(* ... and the end of the handoff (complete).                                *)
LEMMA CompleteKeeps ==
  ASSUME NEW s, SessionInv(s), NEW a, a.kind = "complete", Allowed(s, a)
  PROVE  SessionInv(Apply(s, a))
<1> DEFINE t == Apply(s, a)
           r == [s EXCEPT !.state = "completed"]
           kind == "handoff_completed"
<1>1. s.state = "unlocked" /\ ~s.locked /\ SessionType(s)
  BY DEF Allowed, SessionInv
<1>2. t = Event(r, kind, "")
  BY DEF Apply, Complete
<1>3. /\ SessionType(r) /\ r.events = s.events /\ r.locked = FALSE /\ r.verified = s.verified
      /\ r.state = "completed"
  BY <1>1 DEF SessionType, States, ItemPassed, Opened
<1>k. kind \in Kinds /\ "" \in Preconditions \cup {""}
  BY DEF Kinds
<1> HIDE DEF t, r, kind
<1>4. Adds(s, t, kind, "") /\ t.state = "completed" /\ t.locked = FALSE /\ t.verified = s.verified
  <2>1. /\ Adds(s, Event(r, kind, ""), kind, "")
        /\ Event(r, kind, "").state = r.state /\ Event(r, kind, "").locked = r.locked
        /\ Event(r, kind, "").checkpoint = r.checkpoint /\ Event(r, kind, "").verified = r.verified
    BY <1>k, <1>3, EventAdds
  <2> QED
    BY <1>2, <1>3, <2>1
<1> USE DEF kind
<1>5. PICK e \in EventRecord : t.events = Append(s.events, e) /\ e.kind = kind /\ e.locked = t.locked
  BY <1>4 DEF Adds
<1>6. /\ Len(s.events) \in Nat /\ Len(t.events) = Len(s.events) + 1
      /\ t.events[Len(s.events) + 1] = e
      /\ \A i \in 1..Len(s.events) : t.events[i] = s.events[i]
      /\ \A i, kinds : Told(t, i, kinds) <=>
               \/ Told(s, i, kinds)
               \/ i = Len(s.events) + 1 /\ e.kind \in kinds
  BY <1>1, <1>5, AppendAdds
<1>7. PreconditionInv(t) /\ ItemInv(t) /\ RecipientInv(t)
  BY <1>1, <1>4, PreconditionsKept, GatesKept DEF Opened
<1>8. LockInv(t)
  <2>1. PICK u \in 1..Len(s.events) :
           /\ s.events[u].kind = "container_unlocked"
           /\ \A i \in 1..Len(s.events) : s.events[i].locked <=> i < u
           /\ \A i : Told(s, i, {"container_unlocked"}) => i = u
           /\ \A i : Told(s, i, ItemKinds \cup RecipientKinds \cup {"checkpoint_resumed"}) => i < u
    BY <1>1 DEF SessionInv, LockInv, Opened
  <2>2. \A i \in 1..Len(t.events) : t.events[i].locked <=> i < u
    <3>1. ~t.events[Len(s.events) + 1].locked
      BY <1>4, <1>5, <1>6
    <3> QED
      BY <1>6, <2>1, <3>1
  <2>3. \A i : Told(t, i, {"container_unlocked"}) <=> Told(s, i, {"container_unlocked"})
    <3>1. kind \notin {"container_unlocked"}
      OBVIOUS
    <3> HIDE DEF kind
    <3> QED
      BY <1>1, <1>4, <3>1, NotTold
  <2>4. u \in 1..Len(t.events) /\ t.events[u].kind = "container_unlocked"
    BY <1>6, <2>1
  <2>5. \A i : Told(t, i, {"container_unlocked"}) => i = u
    BY <2>1, <2>3
  <2>6. \A i : Told(t, i, ItemKinds \cup RecipientKinds \cup {"checkpoint_resumed"}) => i < u
    <3>1. kind \notin ItemKinds \cup RecipientKinds \cup {"checkpoint_resumed"}
      BY DEF ItemKinds, RecipientKinds
    <3>2. \A i : Told(t, i, ItemKinds \cup RecipientKinds \cup {"checkpoint_resumed"})
                   <=> Told(s, i, ItemKinds \cup RecipientKinds \cup {"checkpoint_resumed"})
      BY <1>1, <1>4, <3>1, NotTold
    <3> QED
      BY <2>1, <3>2
  <2>7. t.state \in Opened /\ ~t.locked
    BY <1>4 DEF Opened
  <2>8. \E v \in 1..Len(t.events) :
           /\ t.events[v].kind = "container_unlocked"
           /\ \A i \in 1..Len(t.events) : t.events[i].locked <=> i < v
           /\ \A i : Told(t, i, {"container_unlocked"}) => i = v
           /\ \A i : Told(t, i, ItemKinds \cup RecipientKinds \cup {"checkpoint_resumed"}) => i < v
    BY <2>2, <2>4, <2>5, <2>6
  <2> QED
    BY <2>7, <2>8 DEF LockInv
<1>11. SessionInv(t)
  BY <1>4, <1>7, <1>8 DEF SessionInv, Adds
<1> QED
  BY <1>11 DEF t

(* Whatever a script asks for next, the gates are kept.                      *)
LEMMA ActionKeeps ==
  ASSUME NEW s, SessionInv(s), NEW a \in ScriptActions, Allowed(s, a)
  PROVE  SessionInv(Apply(s, a))
<1>1. a.kind \in {"check_precondition", "scan_item", "scan_recipient", "resume_checkpoint",
                  "unlock_container", "complete"} /\ a.right \in BOOLEAN
  BY DEF ScriptActions
<1> QED
  BY <1>1, CheckKeeps, ItemKeeps, RecipientKeeps, ResumeKeeps, UnlockKeeps, CompleteKeeps

(* A session begins with its gates closed.                                   *)
LEMMA StartKeeps == SessionInv(Started)
<1> DEFINE r == [state |-> "awaiting_preconditions", locked |-> TRUE, checkpoint |-> FALSE,
                 verified |-> {}, item |-> FALSE, recipient |-> FALSE, events |-> <<>>]
           e == [kind |-> "handoff_started", name |-> "", state |-> "awaiting_preconditions",
                 locked |-> TRUE]
<1>1. Started = [r EXCEPT !.events = Append(<<>>, e)]
  BY DEF Started, Event
<1>2. e \in EventRecord
  BY DEF EventRecord, Kinds, States
<1> DEFINE es == Append(<<>>, e)
<1>3. es \in Seq(EventRecord) /\ Len(es) = 1 /\ es[1] = e
  <2>1. <<>> \in Seq(EventRecord) /\ Len(<<>>) = 0
    OBVIOUS
  <2> HIDE DEF e
  <2> QED
    BY <1>2, <2>1, AppendProperties
<1> HIDE DEF es
<1>4. /\ Started.events = es /\ Started.state = "awaiting_preconditions" /\ Started.locked
      /\ ~Started.checkpoint /\ Started.verified = {}
  BY <1>1 DEF es
<1>5. SessionType(Started)
  BY <1>1, <1>3 DEF SessionType, States, es
<1>k. /\ Len(Started.events) = 1 /\ Started.events[1].kind = "handoff_started"
      /\ Started.events[1].locked
  <2>1. Started.events[1] = e
    BY <1>3, <1>4
  <2>2. e.kind = "handoff_started" /\ e.locked
    OBVIOUS
  <2> QED
    BY <1>3, <1>4, <2>1, <2>2
<1>6. \A i : ~Told(Started, i, ItemKinds) /\ ~Told(Started, i, RecipientKinds)
  BY <1>k DEF Told, ItemKinds, RecipientKinds
<1>7. LockInv(Started) /\ PreconditionInv(Started) /\ ItemInv(Started) /\ RecipientInv(Started)
  BY <1>k, <1>4, <1>6 DEF LockInv, PreconditionInv, ItemInv, RecipientInv, Opened, ItemPassed
<1> QED
  BY <1>5, <1>7 DEF SessionInv

-----------------------------------------------------------------------------
DriverRecord ==
    [guarded : BOOLEAN, index : Nat, failed : BOOLEAN,
     pending : Approvals \cup {NoApproval}, payload : Approvals \cup {NoApproval},
     published : SUBSET (Approvals \cup {NoApproval}), replays : Nat,
     used : SUBSET (Approvals \cup {NoApproval}), replayRefused : BOOLEAN, alive : BOOLEAN]

(* A guarded driver starts its gates for one request, and answers that       *)
(* request, once, when they are through.                                     *)
DriverInv ==
    /\ driver \in DriverRecord
    /\ driver.guarded =>
         \/ session = NoApproval /\ driver.published = {}
         \/ /\ SessionInv(session)
            /\ driver.pending \in Approvals
            /\ driver.published # {} => /\ session.state = "completed"
                                        /\ driver.payload = driver.pending
                                        /\ driver.published = {driver.pending}
    /\ ~driver.guarded => session = NoApproval

(* What publishing changes of the driver, whether it comes through or not.   *)
LEMMA Published ==
  ASSUME NEW d, NEW approval \in Approvals, NEW clock,
         d \in DriverRecord
  PROVE  LET e == PublishApproval(d, approval, clock) IN
         /\ e \in DriverRecord
         /\ e.guarded = d.guarded /\ e.pending = d.pending
         /\ \/ e.published = d.published
            \/ e.published = d.published \cup {approval} /\ e.payload = approval
<1> DEFINE token == Confirmation(approval, 0)
           used == d.used \cup {token.nonce}
           refused == Verifies(token, approval, d.used, clock[2])
                        /\ ~Verifies(token, approval, used, clock[2])
           e == PublishApproval(d, approval, clock)
<1>1. \/ e = [d EXCEPT !.alive = FALSE]
      \/ e = [d EXCEPT !.payload = approval, !.published = @ \cup {approval}, !.used = used,
                       !.replayRefused = refused]
  BY DEF PublishApproval
<1>2. used \in SUBSET (Approvals \cup {NoApproval})
  BY DEF Confirmation, DriverRecord
<1>3. refused \in BOOLEAN
  OBVIOUS
<1> HIDE DEF token, used, refused, e
<1>4. CASE e = [d EXCEPT !.alive = FALSE]
  BY <1>4 DEF e, DriverRecord
<1>5. CASE e = [d EXCEPT !.payload = approval, !.published = @ \cup {approval}, !.used = used,
                         !.replayRefused = refused]
  <2>1. d.published \cup {approval} \in SUBSET (Approvals \cup {NoApproval})
    BY DEF DriverRecord
  <2>2. /\ e.guarded = d.guarded /\ e.pending = d.pending
        /\ e.published = d.published \cup {approval} /\ e.payload = approval
    BY <1>5 DEF DriverRecord
  <2>3. e \in DriverRecord
    BY <1>2, <1>3, <1>5, <2>1 DEF DriverRecord
  <2> QED
    BY <2>2, <2>3 DEF e
<1> QED
  BY <1>1, <1>4, <1>5

(* Before the first request nothing was published.                           *)
LEMMA DriverInit == HandoffInit => DriverInv
<1> SUFFICES ASSUME HandoffInit PROVE DriverInv
  OBVIOUS
<1>1. session = NoApproval /\ driver.published = {}
  BY DEF HandoffInit
<1>2. driver \in DriverRecord
  <2> DEFINE R == [guarded : BOOLEAN, index : {0}, failed : {FALSE}, pending : {NoApproval},
                   payload : {NoApproval}, published : {{}}, replays : {0}, used : {{}},
                   replayRefused : {FALSE}, alive : {TRUE}]
  <2>1. driver \in R
    BY DEF HandoffInit
  <2>2. PICK g \in BOOLEAN :
           driver = [guarded |-> g, index |-> 0, failed |-> FALSE, pending |-> NoApproval,
                     payload |-> NoApproval, published |-> {}, replays |-> 0, used |-> {},
                     replayRefused |-> FALSE, alive |-> TRUE]
    <3>1. driver.guarded \in BOOLEAN
      BY <2>1
    <3>2. driver = [guarded |-> driver.guarded, index |-> 0, failed |-> FALSE,
                    pending |-> NoApproval, payload |-> NoApproval, published |-> {},
                    replays |-> 0, used |-> {}, replayRefused |-> FALSE, alive |-> TRUE]
      BY <2>1
    <3> HIDE DEF R
    <3> QED
      BY <3>1, <3>2
  <2>3. {} \in SUBSET (Approvals \cup {NoApproval})
    OBVIOUS
  <2> HIDE DEF R
  <2> QED
    BY <2>2, <2>3 DEF DriverRecord
<1> QED
  BY <1>1, <1>2 DEF DriverInv

(* A request starts the gates, or is answered at once when there are none.   *)
LEMMA RequestStep ==
  ASSUME DriverInv, NEW approval \in Approvals, OnApprovalRequested(approval)
  PROVE  DriverInv'
<1>1. CASE ~driver.guarded
  <2>1. PICK clock \in Clocks : driver' = PublishApproval(driver, approval, clock) /\ UNCHANGED session
    BY <1>1 DEF OnApprovalRequested
  <2> QED
    BY <1>1, <2>1, Published DEF DriverInv
<1>2. CASE driver.guarded
  <2>1. /\ session = NoApproval /\ session' = Started /\ driver.payload = NoApproval
        /\ driver' = [driver EXCEPT !.pending = approval, !.index = 0]
    BY <1>2 DEF OnApprovalRequested
  <2>2. driver.published = {}
    BY <1>2, <2>1, HandoffAssumption DEF DriverInv, DriverRecord
  <2> QED
    BY <1>2, <2>1, <2>2, StartKeeps DEF DriverInv, DriverRecord
<1> QED
  BY <1>1, <1>2

(* An action of the script keeps the gates, and the last one may publish.    *)
LEMMA AdvanceStep ==
  ASSUME DriverInv, NEW action \in ScriptActions, Advance(action)
  PROVE  DriverInv'
<1>0. session # NoApproval /\ session.state # "completed"
  BY DEF Advance
<1>1. /\ driver.guarded /\ SessionInv(session) /\ driver.pending \in Approvals
      /\ driver.published = {}
  BY <1>0 DEF DriverInv
<1>2. CASE ~Allowed(session, action)
  <2>1. driver' = [driver EXCEPT !.failed = TRUE] /\ session' = session
    BY <1>2 DEF Advance
  <2> QED
    BY <1>0, <1>1, <2>1 DEF DriverInv, DriverRecord
<1>3. CASE Allowed(session, action)
  <2> DEFINE moved == [driver EXCEPT !.index = @ + 1]
  <2>1. /\ session' = Apply(session, action)
        /\ \/ /\ session'.state = "completed"
              /\ \E clock \in Clocks : driver' = PublishApproval(moved, driver.pending, clock)
           \/ driver' = moved
    BY <1>3 DEF Advance
  <2>2. SessionInv(session')
    BY <1>1, <1>3, <2>1, ActionKeeps
  <2>3. /\ moved \in DriverRecord
        /\ moved.guarded /\ moved.pending = driver.pending /\ moved.published = {}
    BY <1>1 DEF DriverInv, DriverRecord
  <2> HIDE DEF moved
  <2>4. CASE driver' = moved
    BY <1>1, <2>2, <2>3, <2>4 DEF DriverInv
  <2>5. ASSUME session'.state = "completed", NEW clock \in Clocks,
               driver' = PublishApproval(moved, driver.pending, clock)
        PROVE  DriverInv'
    <3>1. /\ driver' \in DriverRecord
          /\ driver'.guarded /\ driver'.pending = driver.pending
          /\ \/ driver'.published = {}
             \/ driver'.published = {driver.pending} /\ driver'.payload = driver.pending
      BY <1>1, <2>3, <2>5, Published
    <3> QED
      BY <1>1, <2>2, <2>5, <3>1 DEF DriverInv
  <2> QED
    BY <2>1, <2>4, <2>5
<1> QED
  BY <1>2, <1>3

(* The end of a script and a replay publish nothing.                         *)
LEMMA ScriptEndsStep ==
  ASSUME DriverInv, ScriptEnds \/ Replay
  PROVE  DriverInv'
<1>1. CASE ScriptEnds
  BY <1>1 DEF ScriptEnds, DriverInv, DriverRecord
<1>2. CASE Replay
  BY <1>2 DEF Replay, DriverInv, DriverRecord
<1> QED
  BY <1>1, <1>2

(* Whatever a policy requires and whatever a script observes, right or       *)
(* wrong, in any order: a guarded delivery is approved only after every      *)
(* precondition was satisfied, the last item scanned was the right one and   *)
(* was resumed from if another was rejected before, the last recipient was   *)
(* the right one, and only then the container was opened, for the request    *)
(* that was asked (guarded_handoff.py, gazebo_lab_driver.py's                *)
(* _advance_guarded_handoff).                                                *)
THEOREM GatesBeforeApproval == HandoffSpec => []HandoffBeforeApproval
<1>1. DriverInv /\ [HandoffNext]_handoffVars => DriverInv'
  <2> SUFFICES ASSUME DriverInv, [HandoffNext]_handoffVars PROVE DriverInv'
    OBVIOUS
  <2>1. CASE UNCHANGED handoffVars
    BY <2>1 DEF handoffVars, DriverInv
  <2> QED
    BY <2>1, RequestStep, AdvanceStep, ScriptEndsStep DEF HandoffNext
<1>2. DriverInv => HandoffBeforeApproval
  BY GatesHeld DEF DriverInv, HandoffBeforeApproval
<1> QED
  BY <1>1, <1>2, DriverInit, PTL DEF HandoffSpec

-----------------------------------------------------------------------------
(* The limits of a site.                                                     *)
LimitsSpec == LimitsInit /\ [][LimitsNext]_limitVars

Site   == Profiles \cup {<<>>}
LimitChange == {ChangeRecord(before, after) : before \in Site, after \in Site}
Line   == [records : Seq(LimitChange), ended : BOOLEAN, torn : BOOLEAN]

OnRecord(limits) == limits = <<>> \/ \E record \in RecordsKept : record.after = limits

(* The profile in force and the limits of every mission are on record, and   *)
(* so is a change whose request goes on to the profile.                      *)
LimitsInv ==
    /\ profile \in Site /\ OnRecord(profile)
    /\ audit \in Seq(Line)
    /\ update \in [Updaters -> {NoUpdate} \cup [stage : {1, 2}, record : LimitChange]]
    /\ \A u \in Updaters : At(u, "profile") => update[u].record \in RecordsKept
    /\ \A m \in missions :
          /\ m.under \in Site /\ OnRecord(m.under)
          /\ m.job \in Jobs /\ m.limits = ApplyProfile(m.under, m.job)

(* A profile limits fields that can be limited, to numbers.                  *)
LEMMA SiteLimitsFields ==
    ASSUME NEW limits \in Site PROVE DOMAIN limits \subseteq LimitFields /\ \A f \in DOMAIN limits : limits[f] \in Int
BY LimitsAssumption DEF Site, LimitFields

(* What a line of the audit holds once was on record stays there, and what   *)
(* is appended is on record too, even if it was run into a torn line.        *)
LEMMA AuditGrows ==
    ASSUME audit \in Seq(Line), NEW records \in Seq(LimitChange), NEW ended \in BOOLEAN,
           audit' = Appended(records, ended)
    PROVE  /\ audit' \in Seq(Line) /\ RecordsKept \subseteq RecordsKept'
           /\ \A i \in 1..Len(records) : records[i] \in RecordsKept'
<1>0. /\ \A r : r \in RecordsKept <=> \E i \in DOMAIN audit : \E n \in DOMAIN audit[i].records : r = audit[i].records[n]
      /\ \A r : r \in RecordsKept' <=>
                  \E i \in DOMAIN audit' : \E n \in DOMAIN audit'[i].records : r = audit'[i].records[n]
  BY DEF RecordsKept, Range
<1>1. CASE audit # <<>> /\ ~Last(audit).ended
  <2> DEFINE old  == audit[Len(audit)]
             line == [records |-> old.records \o records, ended |-> ended, torn |-> TRUE]
             front == SubSeq(audit, 1, Len(audit) - 1)
  <2>1. Len(audit) \in Nat \ {0} /\ old \in Line
    BY <1>1, EmptySeq
  <2>2. audit' = Append(front, line)
    BY <1>1 DEF Appended, Last, Front
  <2>3. front \in Seq(Line) /\ Len(front) = Len(audit) - 1 /\ \A i \in 1..Len(front) : front[i] = audit[i]
    <3>1. Len(audit) - 1 \in 0..Len(audit) /\ \A i \in 1..Len(audit) - 1 : i \in 1..Len(audit)
      BY <2>1
    <3>2. \A i \in 1..Len(audit) - 1 : audit[i] \in Line
      BY <3>1
    <3>3. /\ front \in Seq(Line) /\ Len(front) = IF 1 <= Len(audit) - 1 THEN Len(audit) - 1 - 1 + 1 ELSE 0
          /\ \A i \in 1..Len(audit) - 1 - 1 + 1 : front[i] = audit[1 + i - 1]
      BY <3>1, <3>2, SubSeqProperties
    <3>4. /\ Len(audit) - 1 - 1 + 1 = Len(audit) - 1 /\ \A i \in 1..Len(audit) - 1 : 1 + i - 1 = i
          /\ (IF 1 <= Len(audit) - 1 THEN Len(audit) - 1 - 1 + 1 ELSE 0) = Len(audit) - 1
      <4> DEFINE n == Len(audit)
      <4>1. n \in Nat \ {0}
        BY <2>1
      <4> HIDE DEF n
      <4>2. /\ n - 1 - 1 + 1 = n - 1 /\ \A i \in 1..n - 1 : 1 + i - 1 = i
            /\ (IF 1 <= n - 1 THEN n - 1 - 1 + 1 ELSE 0) = n - 1
        BY <4>1
      <4> QED
        BY <4>2 DEF n
    <3> HIDE DEF front
    <3>5. front \in Seq(Line) /\ Len(front) = Len(audit) - 1
      BY <3>3, <3>4
    <3>6. ASSUME NEW i \in 1..Len(audit) - 1 PROVE front[i] = audit[i]
      <4>1. 1 + i - 1 = i
        BY <3>4
      <4>2. front[i] = audit[1 + i - 1]
        BY <3>3, <3>4
      <4> QED
        BY <4>1, <4>2
    <3> QED
      BY <3>5, <3>6
  <2>4. line \in Line
    BY <2>1 DEF Line
  <2> HIDE DEF front
  <2>5. /\ audit' \in Seq(Line) /\ Len(audit') = Len(audit) /\ audit'[Len(audit)] = line
        /\ \A i \in 1..Len(audit) - 1 : audit'[i] = audit[i]
    BY <2>1, <2>2, <2>3, <2>4
  <2>6. /\ old.records \in Seq(LimitChange) /\ line.records = old.records \o records
        /\ \A i \in DOMAIN old.records : i \in DOMAIN line.records /\ line.records[i] = old.records[i]
        /\ \A i \in 1..Len(records) : /\ Len(old.records) + i \in DOMAIN line.records
                                      /\ line.records[Len(old.records) + i] = records[i]
    BY <2>1 DEF Line
  <2> HIDE DEF line, old
  <2>7. ASSUME NEW i \in DOMAIN audit, NEW n \in DOMAIN audit[i].records
        PROVE  \E k \in DOMAIN audit' : n \in DOMAIN audit'[k].records /\ audit'[k].records[n] = audit[i].records[n]
    <3>1. i \in 1..Len(audit) /\ i \in DOMAIN audit'
      BY <2>5
    <3>2. CASE i = Len(audit)
      BY <3>1, <3>2, <2>5, <2>6, <2>7 DEF old
    <3>3. CASE i # Len(audit)
      BY <3>1, <3>3, <2>1, <2>5, <2>7
    <3> QED
      BY <3>2, <3>3
  <2>8. RecordsKept \subseteq RecordsKept'
    BY <1>0, <2>7
  <2>9. Len(audit) \in DOMAIN audit'
    BY <2>1, <2>5
  <2>10. \A i \in 1..Len(records) : records[i] \in RecordsKept'
    <3> TAKE i \in 1..Len(records)
    <3>1. Len(old.records) + i \in DOMAIN audit'[Len(audit)].records
          /\ audit'[Len(audit)].records[Len(old.records) + i] = records[i]
      BY <2>5, <2>6
    <3> QED
      BY <1>0, <2>9, <3>1
  <2> QED
    BY <2>5, <2>8, <2>10
<1>2. CASE ~(audit # <<>> /\ ~Last(audit).ended)
  <2> DEFINE line == [records |-> records, ended |-> ended, torn |-> ~ended]
  <2>1. audit' = Append(audit, line) /\ line \in Line
    BY <1>2 DEF Appended, Line
  <2>2. /\ audit' \in Seq(Line) /\ Len(audit') = Len(audit) + 1 /\ audit'[Len(audit) + 1] = line
        /\ \A i \in 1..Len(audit) : audit'[i] = audit[i]
    BY <2>1
  <2>3. line.records = records
    OBVIOUS
  <2> HIDE DEF line
  <2>4. Len(audit) + 1 \in DOMAIN audit' /\ \A i \in DOMAIN audit : i \in DOMAIN audit' /\ audit'[i] = audit[i]
    BY <2>2
  <2>5. RecordsKept \subseteq RecordsKept'
    BY <1>0, <2>4
  <2>6. \A i \in 1..Len(records) : records[i] \in RecordsKept'
    BY <1>0, <2>2, <2>3, <2>4
  <2> QED
    BY <2>2, <2>5, <2>6
<1> QED
  BY <1>1, <1>2

(* LimitsInv begins, ...                                                     *)
LEMMA LimitsInitInv == LimitsInit => LimitsInv
BY DEF LimitsInit, LimitsInv, Site, OnRecord, At

(* ... and every step keeps it.                                              *)
LEMMA LimitsStep == LimitsInv /\ [LimitsNext]_limitVars => LimitsInv'
<1> SUFFICES ASSUME LimitsInv, [LimitsNext]_limitVars PROVE LimitsInv'
  OBVIOUS
<1> USE DEF Stages
<1>1. ASSUME NEW u \in Updaters, NEW after \in Profiles, BeginUpdate(u, after) PROVE LimitsInv'
  <2>1. update' = [update EXCEPT ![u] = [stage |-> 1, record |-> ChangeRecord(profile, after)]]
        /\ ChangeRecord(profile, after) \in LimitChange
    BY <1>1 DEF BeginUpdate, LimitsInv, LimitChange, Site
  <2>2. RecordsKept' = RecordsKept
    BY <1>1 DEF BeginUpdate, RecordsKept
  <2>3. \A v \in Updaters : At(v, "profile")' => update'[v].record \in RecordsKept
    BY <2>1 DEF LimitsInv, At
  <2> QED
    BY <1>1, <2>1, <2>2, <2>3 DEF BeginUpdate, LimitsInv, OnRecord
<1>2. ASSUME NEW u \in Updaters, NEW outcome \in {"synced", "unsynced", "torn", "refused"},
             AppendAudit(u, outcome)
      PROVE  LimitsInv'
  <2>1. update[u] \in [stage : {1, 2}, record : LimitChange] /\ update[u].stage = 1
    BY <1>2 DEF AppendAudit, At, LimitsInv
  <2>2. audit' \in Seq(Line) /\ RecordsKept \subseteq RecordsKept'
        /\ (outcome = "synced" => update[u].record \in RecordsKept')
    <3>1. CASE outcome \in {"synced", "unsynced"}
      <4> DEFINE record == update[u].record
      <4>1. audit' = Appended(<<record>>, TRUE)
        BY <1>2, <3>1 DEF AppendAudit
      <4>2. record \in LimitChange
        BY <2>1
      <4> HIDE DEF record
      <4>3. <<record>> \in Seq(LimitChange) /\ Len(<<record>>) = 1 /\ <<record>>[1] = record
        BY <4>2
      <4>4. /\ audit' \in Seq(Line) /\ RecordsKept \subseteq RecordsKept'
            /\ \A i \in 1..Len(<<record>>) : <<record>>[i] \in RecordsKept'
        BY <4>1, <4>3, AuditGrows DEF LimitsInv
      <4> QED
        BY <4>3, <4>4 DEF record
    <3>2. CASE outcome = "torn"
      <4>1. <<>> \in Seq(LimitChange) /\ audit' = Appended(<<>>, FALSE)
        BY <1>2, <3>2 DEF AppendAudit
      <4> QED
        BY <4>1, <3>2, AuditGrows DEF LimitsInv
    <3>3. CASE outcome = "refused"
      BY <1>2, <3>3 DEF AppendAudit, LimitsInv, RecordsKept
    <3> QED
      BY <3>1, <3>2, <3>3
  <2>3. /\ update' \in [Updaters -> {NoUpdate} \cup [stage : {1, 2}, record : LimitChange]]
        /\ \A v \in Updaters : At(v, "profile")' => update'[v].record \in RecordsKept'
    <3>1. CASE outcome = "synced"
      <4>1. update' = [update EXCEPT ![u] = [stage |-> 2, record |-> update[u].record]]
        <5>1. update[u].stage # Len(Stages) /\ update[u].stage + 1 = 2
          BY <2>1
        <5>2. update' = [update EXCEPT ![u] = IF update[u].stage = Len(Stages) THEN NoUpdate
                                             ELSE [stage |-> update[u].stage + 1, record |-> update[u].record]]
          BY <1>2, <3>1 DEF AppendAudit, Proceed
        <5> QED
          BY <5>1, <5>2
      <4> QED
        BY <2>1, <2>2, <3>1, <4>1 DEF LimitsInv, At
    <3>2. CASE outcome # "synced"
      BY <1>2, <2>1, <2>2, <3>2 DEF AppendAudit, GiveUp, LimitsInv, At
    <3> QED
      BY <3>1, <3>2
  <2> QED
    BY <1>2, <2>2, <2>3 DEF AppendAudit, LimitsInv, OnRecord
<1>3. ASSUME NEW u \in Updaters, NEW ok \in BOOLEAN, ReplaceProfile(u, ok) PROVE LimitsInv'
  <2>1. update[u] \in [stage : {1, 2}, record : LimitChange] /\ update[u].stage = 2
        /\ update[u].record \in RecordsKept /\ update[u].record.after \in Site
    BY <1>3 DEF ReplaceProfile, At, LimitsInv, LimitChange, ChangeRecord
  <2>2. RecordsKept' = RecordsKept
    BY <1>3 DEF ReplaceProfile, RecordsKept
  <2>3. profile' \in Site /\ OnRecord(profile')
    BY <1>3, <2>1 DEF ReplaceProfile, LimitsInv, OnRecord
  <2>4. update' = [update EXCEPT ![u] = NoUpdate]
    BY <1>3, <2>1 DEF ReplaceProfile, Proceed, GiveUp
  <2>5. \A v \in Updaters : At(v, "profile")' => update'[v].record \in RecordsKept
    BY <2>4 DEF LimitsInv, At
  <2> QED
    BY <1>3, <2>2, <2>3, <2>4, <2>5 DEF ReplaceProfile, LimitsInv, OnRecord
<1>4. CASE GatewayCrashes
  <2>1. RecordsKept' = RecordsKept
    BY <1>4 DEF GatewayCrashes, RecordsKept
  <2> QED
    BY <1>4, <2>1 DEF GatewayCrashes, LimitsInv, OnRecord, At
<1>5. ASSUME NEW job \in Jobs, LoadJob(job) PROVE LimitsInv'
  <2>1. RecordsKept' = RecordsKept
    BY <1>5 DEF LoadJob, RecordsKept
  <2> QED
    BY <1>5, <2>1 DEF LoadJob, LimitsInv, OnRecord, At
<1>6. CASE UNCHANGED limitVars
  <2>1. RecordsKept' = RecordsKept
    BY <1>6 DEF limitVars, RecordsKept
  <2> QED
    BY <1>6, <2>1 DEF limitVars, LimitsInv, OnRecord, At
<1> QED
  BY <1>1, <1>2, <1>3, <1>4, <1>5, <1>6 DEF LimitsNext

(* A profile that lets some job run wider has that field among its relaxed   *)
(* limits.                                                                   *)
LEMMA WiderIsRelaxed ==
    ASSUME NEW before \in Site, NEW after \in Site, NEW f \in LimitFields, Wider(f, after, before)
    PROVE  f \in Relaxed(before, after)
<1>1. PICK job \in Jobs : /\ job[f] # Unset
                          /\ MoreConservative(f, ApplyProfile(before, job)[f], ApplyProfile(after, job)[f])
  BY DEF Wider
<1>2. job[f] \in Int
  BY <1>1, LimitsAssumption DEF LimitFields
<1>3. /\ f \in DOMAIN before => before[f] \in Int
      /\ f \in DOMAIN after => after[f] \in Int
  BY SiteLimitsFields
<1>4. f \in DOMAIN before
  BY <1>1, <1>2, <1>3 DEF ApplyProfile, MoreConservative
<1>5. f \in DOMAIN after => after[f] # before[f] /\ ~MoreConservative(f, after[f], before[f])
  BY <1>1, <1>2, <1>3, <1>4 DEF ApplyProfile, MoreConservative
<1> QED
  BY <1>4, <1>5 DEF Relaxed

(* Every mission runs under limits the audit tells of, and a change that     *)
(* relaxes one is flagged: whatever requests, crashes and failed writes come *)
(* between the two files.                                                    *)
THEOREM LimitsAreRecorded == LimitsSpec => LimitsAreOnRecord
<1>1. ASSUME LimitsInv, NEW m \in missions
      PROVE  /\ m.under = <<>> \/ \E record \in RecordsKept : record.after = m.under
             /\ \A f \in DOMAIN m.under :
                    m.job[f] # Unset => ~MoreConservative(f, m.under[f], m.limits[f])
  <2>1. m.under \in Site /\ OnRecord(m.under) /\ m.job \in Jobs /\ m.limits = ApplyProfile(m.under, m.job)
    BY <1>1 DEF LimitsInv
  <2>2. ASSUME NEW f \in DOMAIN m.under, m.job[f] # Unset PROVE ~MoreConservative(f, m.under[f], m.limits[f])
    <3>1. f \in LimitFields /\ m.under[f] \in Int
      BY <2>1, SiteLimitsFields
    <3>2. m.job[f] \in Int
      BY <2>1, <2>2, <3>1, LimitsAssumption DEF LimitFields
    <3> QED
      BY <2>1, <2>2, <3>1, <3>2 DEF ApplyProfile, MoreConservative
  <2> QED
    BY <2>1, <2>2 DEF OnRecord
<1>2. LimitsInv => \A m \in missions :
          /\ m.under = <<>> \/ \E record \in RecordsKept : record.after = m.under
          /\ \A f \in DOMAIN m.under :
                 m.job[f] # Unset => ~MoreConservative(f, m.under[f], m.limits[f])
  BY <1>1
<1>3. ASSUME LimitsInv, NEW u \in Updaters, NEW f \in LimitFields, At(u, "profile"),
             profile' = update[u].record.after, profile = update[u].record.before, Wider(f, profile', profile)
      PROVE  f \in update[u].record.relaxed
  <2>1. update[u].record \in LimitChange
    BY <1>3 DEF LimitsInv, At
  <2>2. PICK before \in Site, after \in Site : update[u].record = ChangeRecord(before, after)
    BY <2>1 DEF LimitChange
  <2>3. before = profile /\ after = profile' /\ update[u].record.relaxed = Relaxed(before, after)
    BY <1>3, <2>2 DEF ChangeRecord
  <2> QED
    BY <1>3, <2>3, WiderIsRelaxed
<1>4. LimitsInv =>
        [\A u \in Updaters, f \in LimitFields :
            At(u, "profile") /\ profile' # profile /\ profile' = update[u].record.after
            /\ profile = update[u].record.before /\ Wider(f, profile', profile)
            => f \in update[u].record.relaxed]_limitVars
  BY <1>3
<1> QED
  BY <1>2, <1>4, LimitsInitInv, LimitsStep, PTL
  DEF LimitsSpec, LimitsAreOnRecord, MissionsRunUnderRecordedLimits, RelaxationIsFlagged

-----------------------------------------------------------------------------
(* The journal of a device's events.                                         *)
JournalSpec == JournalInit /\ [][JournalNext]_journalVars

Inode == 1..Inodes
Rec   == [pos : Nat \ {0}, event : Nat]
File  == [id : Nat, records : Seq(Rec), torn : BOOLEAN]

JournalType ==
    /\ file \in [Inode -> File]
    /\ lock \in [Inode -> JWriters \cup {NoCursor}]
    /\ named \in 0..Inodes
    /\ writer \in [JWriters -> [pc : {"idle", "opened", "loaded", "verified"}, dir : 0..Inodes, seen : File]]
    /\ \A w \in JWriters : writer[w].pc # "idle" => writer[w].dir \in Inode
    /\ minted \in [events : Nat, journals : Nat, dirs : Nat]
    /\ written \subseteq [id : Nat, pos : Nat \ {0}, event : Nat]
    /\ \A a \in acked : a.dir \in Inode /\ [id |-> a.id, pos |-> a.pos, event |-> a.event] \in written

(* Who has loaded a journal holds the lock of its directory, and what it     *)
(* loaded is what the file says.                                             *)
HoldsLock(w) == writer[w].pc \in {"loaded", "verified"}

HolderInv ==
    \A w \in JWriters : HoldsLock(w) =>
        /\ lock[writer[w].dir] = w
        /\ file[writer[w].dir] = writer[w].seen /\ Readable(writer[w].seen)

(* A file holds an unbroken end of its journal, whose id no other has, and   *)
(* nothing was written to that journal past the end.                         *)
LastPos(f)  == f.records[Len(f.records)].pos
Unbroken(f) == \A i \in 1..Len(f.records) : f.records[i].pos = f.records[1].pos + i - 1

FileInv(d) ==
    /\ Unbroken(file[d]) /\ file[d].id <= minted.journals
    /\ file[d].id = 0 <=> file[d].records = <<>>
    /\ file[d].id # 0 => \A e \in written : e.id = file[d].id => e.pos <= LastPos(file[d])

WrittenInv ==
    /\ \A d, other \in Inode : file[d].id # 0 /\ file[d].id = file[other].id => d = other
    /\ \A e \in written : e.id \in 1..minted.journals
    /\ \A e, other \in written : e.id = other.id /\ e.pos = other.pos => e.event = other.event

(* A position is in a file as the event tells, or retention dropped it.      *)
Keeps(f, pos, event) ==
    \/ \E i \in DOMAIN f.records : f.records[i].pos = pos /\ f.records[i].event = event
    \/ f.records[1].pos > pos

AckInv == \A a \in acked : file[a.dir].id = a.id => Keeps(file[a.dir], a.pos, a.event)

(* What a file holds was written as it stands there.                         *)
KeptInv ==
    \A d \in Inode : \A i \in 1..Len(file[d].records) :
        [id |-> file[d].id, pos |-> file[d].records[i].pos, event |-> file[d].records[i].event] \in written

JournalInv ==
    JournalType /\ HolderInv /\ (\A d \in Inode : FileInv(d)) /\ WrittenInv /\ AckInv /\ KeptInv

(* Retention leaves an end of what there was.                                *)
EndOf(rest, k, records) ==
    /\ k \in 0..(Len(records) - 1) /\ Len(rest) = Len(records) - k
    /\ \A i \in 1..Len(rest) : rest[i] = records[k + i]

LEMMA RetainedIsEnd ==
    ASSUME NEW records \in Seq(Rec), records # <<>>
    PROVE  Retained(records) \in Seq(Rec) /\ \E k \in 0..(Len(records) - 1) : EndOf(Retained(records), k, records)
<1> DEFINE n == Len(records)
           rest == SubSeq(records, n - MaxKept + 1, n)
<1>1. n \in Nat \ {0} /\ MaxKept \in Nat \ {0}
  BY JournalAssumption, EmptySeq
<1>2. CASE n <= MaxKept
  <2>1. Retained(records) = records
    BY <1>2 DEF Retained
  <2>2. 0 \in 0..(n - 1) /\ n = n - 0 /\ \A i \in 1..n : 0 + i = i
    BY <1>1
  <2>3. EndOf(records, 0, records)
    BY <2>2 DEF EndOf
  <2> QED
    BY <2>1, <2>2, <2>3
<1>3. CASE ~(n <= MaxKept)
  <2>1. Retained(records) = rest
    BY <1>3 DEF Retained
  <2> DEFINE k == n - MaxKept
  <2>2. k \in 1..(n - 1)
    BY <1>1, <1>3
  <2>3. \A i \in (k + 1)..n : records[i] \in Rec
    <3>1. \A i \in (k + 1)..n : i \in 1..n
      BY <1>1, <2>2
    <3> QED
      BY <3>1
  <2>4. k + 1 \in 1..(n + 1) /\ n \in 0..n /\ k + 1 <= n
    BY <1>1, <2>2
  <2>5. /\ rest \in Seq(Rec) /\ Len(rest) = (IF k + 1 <= n THEN n - (k + 1) + 1 ELSE 0)
        /\ \A i \in 1..(n - (k + 1) + 1) : rest[i] = records[k + 1 + i - 1]
    BY <2>3, <2>4, SubSeqProperties
  <2> HIDE DEF rest, n
  <2>6. Len(rest) = n - k /\ \A i \in 1..(n - k) : i \in 1..(n - (k + 1) + 1) /\ k + 1 + i - 1 = k + i
    BY <1>1, <2>2, <2>4, <2>5
  <2> HIDE DEF k
  <2>7. EndOf(rest, k, records)
    BY <1>1, <2>2, <2>5, <2>6 DEF EndOf, n
  <2> QED
    BY <1>1, <2>1, <2>2, <2>5, <2>7 DEF n
<1> QED
  BY <1>1, <1>2, <1>3

LEMMA JournalBegins == JournalInit => JournalInv
<1> SUFFICES ASSUME JournalInit PROVE JournalInv
  OBVIOUS
<1>1. EmptyFile \in File /\ EmptyFile.id = 0 /\ EmptyFile.records = <<>>
  BY DEF EmptyFile, File
<1>2. JournalType
  BY <1>1, JournalAssumption DEF JournalInit, JournalType, Idle, Inode
<1>3. HolderInv /\ WrittenInv /\ AckInv /\ KeptInv
  BY <1>1 DEF JournalInit, HolderInv, HoldsLock, Idle, WrittenInv, AckInv, KeptInv, Inode
<1>4. \A d \in Inode : FileInv(d)
  BY <1>1 DEF JournalInit, FileInv, Unbroken, Inode
<1> QED
  BY <1>2, <1>3, <1>4 DEF JournalInv

(* A step that publishes nothing keeps what the files hold.                  *)
LEMMA FilesStay ==
    ASSUME JournalInv, UNCHANGED <<written, acked>>, minted'.journals = minted.journals,
           \A d \in Inode : file'[d].id = file[d].id /\ file'[d].records = file[d].records
    PROVE  (\A d \in Inode : FileInv(d)') /\ WrittenInv' /\ AckInv' /\ KeptInv'
<1>1. \A d \in Inode : FileInv(d)'
  BY DEF JournalInv, FileInv, Unbroken, LastPos
<1>2. AckInv'
  <2> SUFFICES ASSUME NEW a \in acked, file'[a.dir].id = a.id PROVE Keeps(file'[a.dir], a.pos, a.event)
    BY DEF AckInv
  <2>1. a.dir \in Inode
    BY DEF JournalInv, JournalType
  <2>2. Keeps(file[a.dir], a.pos, a.event) /\ file'[a.dir].records = file[a.dir].records
    BY <2>1 DEF JournalInv, AckInv
  <2> QED
    BY <2>2 DEF Keeps
<1>3. KeptInv'
  BY DEF JournalInv, KeptInv
<1> QED
  BY <1>1, <1>2, <1>3 DEF JournalInv, WrittenInv

(* A writer that lets its lock go disturbs no other.                         *)
LEMMA ReleaseKeeps ==
    ASSUME JournalInv, NEW w \in JWriters, writer[w].pc # "idle", Release(w)
    PROVE  /\ lock' \in [Inode -> JWriters \cup {NoCursor}]
           /\ writer' \in [JWriters -> [pc : {"idle", "opened", "loaded", "verified"}, dir : 0..Inodes, seen : File]]
           /\ writer'[w] = Idle
           /\ \A v \in JWriters : v # w => writer'[v] = writer[v] /\ (lock[writer[v].dir] = v => lock'[writer[v].dir] = v)
<1> USE DEF JournalInv, JournalType
<1>1. /\ writer' = [writer EXCEPT ![w] = Idle]
      /\ lock' = [lock EXCEPT ![writer[w].dir] = IF lock[writer[w].dir] = w THEN NoCursor ELSE lock[writer[w].dir]]
  BY DEF Release
<1>2. Idle \in [pc : {"idle", "opened", "loaded", "verified"}, dir : 0..Inodes, seen : File]
  BY JournalAssumption DEF Idle, EmptyFile, File
<1>3. writer[w].dir \in Inode
  OBVIOUS
<1> QED
  BY <1>1, <1>2, <1>3

(* Taking the lock, giving it back, and what the operator and the readers    *)
(* do.                                                                       *)
LEMMA QuietStep ==
    ASSUME JournalInv,
           \/ \E w \in JWriters : OpenDirectory(w) \/ LockAndLoad(w) \/ Reverify(w)
           \/ Displace \/ (\E r \in JReaders : StartOver(r) \/ \E limit \in Pages : Export(r, limit))
           \/ UNCHANGED journalVars
    PROVE  JournalInv'
<1> USE DEF JournalInv
<1>1. ASSUME UNCHANGED <<file, lock, writer, minted, written, acked>>, named' \in 0..Inodes PROVE JournalInv'
  <2>1. JournalType' /\ HolderInv'
    BY <1>1 DEF JournalType, HolderInv, HoldsLock
  <2> QED
    BY <1>1, <2>1, FilesStay
<1>2. ASSUME NEW w \in JWriters, OpenDirectory(w) PROVE JournalInv'
  <2>1. /\ named' \in Inode /\ minted' \in [events : Nat, journals : Nat, dirs : Nat]
        /\ minted'.journals = minted.journals
        /\ UNCHANGED <<file, lock, written, acked>>
    <3>1. CASE named = 0
      <4>1. minted.dirs < Inodes /\ minted.dirs \in Nat /\ named' = minted.dirs + 1
        BY <1>2, <3>1 DEF OpenDirectory, JournalType
      <4>2. named' \in Inode
        BY <4>1, JournalAssumption DEF Inode
      <4>3. minted' = [minted EXCEPT !.dirs = minted.dirs + 1]
        BY <1>2, <3>1 DEF OpenDirectory, JournalType
      <4> QED
        BY <1>2, <4>1, <4>2, <4>3 DEF OpenDirectory, JournalType
    <3>2. CASE named # 0
      <4>1. named \in Inode
        BY <3>2, JournalAssumption DEF JournalType, Inode
      <4> QED
        BY <1>2, <3>2, <4>1 DEF OpenDirectory, JournalType
    <3> QED
      BY <3>1, <3>2
  <2>2. writer' = [writer EXCEPT ![w] = [pc |-> "opened", dir |-> named', seen |-> EmptyFile]]
    BY <1>2 DEF OpenDirectory
  <2>3. EmptyFile \in File /\ named' \in 0..Inodes
    BY <2>1, JournalAssumption DEF EmptyFile, File, Inode
  <2>4. JournalType'
    BY <2>1, <2>2, <2>3 DEF JournalType
  <2>5. HolderInv'
    BY <2>1, <2>2 DEF JournalType, HolderInv, HoldsLock
  <2> QED
    BY <2>1, <2>4, <2>5, FilesStay
<1>3. ASSUME NEW w \in JWriters, LockAndLoad(w) PROVE JournalInv'
  <2> DEFINE dir == writer[w].dir
  <2>1. dir \in Inode /\ writer[w].pc = "opened" /\ lock[dir] = NoCursor /\ UNCHANGED <<file, named, minted, written, acked>>
    BY <1>3 DEF LockAndLoad, JournalType, Free
  <2>2. CASE named = dir /\ Readable(file[dir])
    <3>1. /\ lock' = [lock EXCEPT ![dir] = w]
          /\ writer' = [writer EXCEPT ![w] = [pc |-> "loaded", dir |-> dir, seen |-> file[dir]]]
      BY <1>3, <2>2 DEF LockAndLoad, JournalType
    <3>2. JournalType'
      BY <2>1, <3>1 DEF JournalType
    <3>3. HolderInv'
      BY <2>1, <2>2, <3>1, JournalAssumption DEF JournalType, HolderInv, HoldsLock
    <3> QED
      BY <2>1, <3>2, <3>3, FilesStay
  <2>3. CASE ~(named = dir /\ Readable(file[dir]))
    <3>1. writer' = [writer EXCEPT ![w] = Idle] /\ lock' = lock
      BY <1>3, <2>3 DEF LockAndLoad
    <3>2. JournalType'
      BY <2>1, <3>1, JournalAssumption DEF JournalType, Idle, EmptyFile, File
    <3>3. HolderInv'
      BY <2>1, <3>1 DEF JournalType, HolderInv, HoldsLock, Idle
    <3> QED
      BY <2>1, <3>2, <3>3, FilesStay
  <2> QED
    BY <2>2, <2>3
<1>4. ASSUME NEW w \in JWriters, Reverify(w) PROVE JournalInv'
  <2>1. writer[w].pc = "loaded" /\ UNCHANGED <<file, named, minted, written, acked>>
    BY <1>4 DEF Reverify
  <2>2. CASE Release(w)
    <3>1. JournalType'
      BY <2>1, <2>2, ReleaseKeeps DEF JournalType, Idle
    <3>2. HolderInv'
      BY <2>1, <2>2, ReleaseKeeps DEF HolderInv, HoldsLock, Idle
    <3> QED
      BY <2>1, <3>1, <3>2, FilesStay
  <2>3. CASE writer' = [writer EXCEPT ![w].pc = "verified"] /\ lock' = lock
    <3>1. JournalType'
      BY <2>1, <2>3 DEF JournalType
    <3>2. HolderInv'
      BY <2>1, <2>3 DEF JournalType, HolderInv, HoldsLock
    <3> QED
      BY <2>1, <3>1, <3>2, FilesStay
  <2> QED
    BY <1>4, <2>2, <2>3 DEF Reverify
<1>5. CASE Displace
  BY <1>1, <1>5, JournalAssumption DEF Displace
<1>6. ASSUME NEW r \in JReaders, StartOver(r) \/ \E limit \in Pages : Export(r, limit) PROVE JournalInv'
  BY <1>1, <1>6 DEF StartOver, Export, JournalType
<1>7. CASE UNCHANGED journalVars
  BY <1>1, <1>7 DEF journalVars, JournalType
<1> QED
  BY <1>2, <1>3, <1>4, <1>5, <1>6, <1>7


(* Removing a journal nobody can read: nobody has loaded it.                 *)
LEMMA RemoveStep == ASSUME JournalInv, RemoveTorn PROVE JournalInv'
<1> USE DEF JournalInv
<1>1. /\ named \in Inode /\ ~Readable(file[named]) /\ file' = [file EXCEPT ![named] = EmptyFile]
      /\ UNCHANGED <<lock, named, writer, minted, written, acked>>
  BY JournalAssumption DEF RemoveTorn, JournalType, Inode
<1>2. EmptyFile \in File /\ EmptyFile.id = 0 /\ EmptyFile.records = <<>>
  BY DEF EmptyFile, File
<1>3. JournalType'
  BY <1>1, <1>2 DEF JournalType
<1>4. HolderInv'
  BY <1>1 DEF JournalType, HolderInv, HoldsLock
<1>5. \A d \in Inode : file'[d] = (IF d = named THEN EmptyFile ELSE file[d])
  BY <1>1 DEF JournalType
<1>6. ASSUME NEW d \in Inode PROVE FileInv(d)'
  <2>1. CASE d = named
    <3>1. Unbroken(file'[d])
      BY <1>2, <1>5, <2>1 DEF Unbroken
    <3> QED
      BY <1>1, <1>2, <1>5, <2>1, <3>1 DEF FileInv, JournalType, Unbroken
  <2>2. CASE d # named
    BY <1>1, <1>5, <2>2 DEF FileInv, Unbroken, LastPos
  <2> QED
    BY <2>1, <2>2
<1>7. WrittenInv'
  BY <1>1, <1>2, <1>5 DEF WrittenInv
<1>8. AckInv'
  <2> SUFFICES ASSUME NEW a \in acked, file'[a.dir].id = a.id PROVE Keeps(file'[a.dir], a.pos, a.event)
    BY <1>1 DEF AckInv
  <2>1. a.dir \in Inode /\ [id |-> a.id, pos |-> a.pos, event |-> a.event] \in written
    BY DEF JournalType
  <2>2. a.id # 0
    BY <2>1 DEF WrittenInv, JournalType
  <2> QED
    BY <1>2, <1>5, <2>1, <2>2 DEF AckInv
<1>9. KeptInv'
  BY <1>1, <1>2, <1>5 DEF KeptInv
<1> QED
  BY <1>3, <1>4, <1>6, <1>7, <1>8, <1>9

(* What is left of a journal's file when a record is written after its end   *)
(* and the k oldest go: an unbroken end, with the new record last.           *)
LEMMA NewEnd ==
    ASSUME NEW old \in Seq(Rec), NEW record \in Rec, NEW records \in Seq(Rec), records # <<>>,
           NEW k \in Nat, EndOf(records, k, Append(old, record)),
           \A i \in 1..Len(old) : old[i].pos = old[1].pos + i - 1,
           record.pos = IF old = <<>> THEN 1 ELSE old[Len(old)].pos + 1
    PROVE  /\ \A i \in 1..Len(records) : records[i].pos = records[1].pos + i - 1
           /\ records[Len(records)] = record
           /\ \A i \in 1..Len(old) : i > k => i - k \in 1..Len(records) /\ records[i - k] = old[i]
           /\ \A i \in 1..Len(old) : i <= k => records[1].pos > old[i].pos
           /\ old # <<>> => records[1].pos >= old[1].pos
<1> DEFINE n     == Len(old)
           whole == Append(old, record)
<1>1. /\ n \in Nat /\ Len(whole) = n + 1 /\ whole[n + 1] = record
      /\ \A i \in 1..n : whole[i] = old[i]
  OBVIOUS
<1>0. \A r \in Rec : r.pos \in Nat \ {0}
  BY DEF Rec
<1>2. \A i \in 1..n : old[i] \in Rec
  OBVIOUS
<1>3. old = <<>> <=> n = 0
  BY EmptySeq
<1>4. EndOf(records, k, whole)
  OBVIOUS
<1>5. (\A i \in 1..n : old[i].pos = old[1].pos + i - 1) /\ record.pos \in Nat
  BY DEF Rec
<1>6. record.pos = IF n = 0 THEN 1 ELSE old[n].pos + 1
  BY <1>3
<1>7. Len(records) \in Nat
  OBVIOUS
<1> HIDE DEF n, whole
<1>8. \E b \in Nat : \A i \in 1..(n + 1) : whole[i].pos = b + i
  <2>1. CASE n = 0
    <3>1. \A i \in 1..(n + 1) : whole[i].pos = 0 + i
      BY <1>1, <1>6, <2>1
    <3> QED
      BY <3>1
  <2>2. CASE n # 0
    <3> DEFINE b == old[1].pos - 1
    <3>1. 1 \in 1..n /\ n \in 1..n
      BY <1>1, <2>2
    <3>2. old[1].pos \in Nat \ {0}
      BY <1>0, <1>2, <3>1
    <3>3. b \in Nat /\ old[1].pos = b + 1
      BY <3>2
    <3> HIDE DEF b
    <3>4. \A i \in 1..n : old[i].pos = b + i
      BY <1>1, <1>5, <3>3
    <3>5. record.pos = b + (n + 1)
      <4>1. old[n].pos = b + n
        BY <3>1, <3>4
      <4> QED
        BY <1>1, <1>6, <2>2, <3>3, <4>1
    <3>6. \A i \in 1..(n + 1) : i \in 1..n \/ i = n + 1
      BY <1>1
    <3>7. \A i \in 1..(n + 1) : whole[i].pos = b + i
      BY <1>1, <3>4, <3>5, <3>6
    <3> QED
      BY <3>3, <3>7
  <2> QED
    BY <2>1, <2>2
<1>9. PICK b \in Nat : \A i \in 1..(n + 1) : whole[i].pos = b + i
  BY <1>8
<1>10. /\ k \in 0..n /\ Len(records) = n + 1 - k
       /\ \A i \in 1..Len(records) : k + i \in 1..(n + 1) /\ records[i] = whole[k + i]
  BY <1>1, <1>4 DEF EndOf
<1>11. \A i \in 1..Len(records) : records[i].pos = b + k + i
  <2> SUFFICES ASSUME NEW i \in 1..Len(records) PROVE records[i].pos = b + k + i
    OBVIOUS
  <2>1. records[i].pos = b + (k + i)
    BY <1>9, <1>10
  <2> QED
    BY <1>1, <1>10, <2>1
<1>12. 1 \in 1..Len(records) /\ Len(records) \in 1..Len(records)
  BY <1>1, <1>10
<1>13. \A i \in 1..n : old[i].pos = b + i
  BY <1>1, <1>9
<1>14. \A i \in 1..Len(records) : records[i].pos = records[1].pos + i - 1
  BY <1>11, <1>12, <1>10, <1>1
<1>15. records[Len(records)] = record
  BY <1>1, <1>10, <1>12
<1>16. \A i \in 1..n : i > k => i - k \in 1..Len(records) /\ records[i - k] = old[i]
  <2> SUFFICES ASSUME NEW i \in 1..n, i > k PROVE i - k \in 1..Len(records) /\ records[i - k] = old[i]
    OBVIOUS
  <2>1. i - k \in 1..Len(records) /\ k + (i - k) = i
    BY <1>1, <1>10
  <2> QED
    BY <1>1, <1>10, <2>1
<1>17. records[1].pos = b + k + 1
  BY <1>11, <1>12
<1>18. \A i \in 1..n : i <= k => records[1].pos > old[i].pos
  BY <1>1, <1>10, <1>13, <1>17
<1>19. n # 0 => records[1].pos >= old[1].pos
  BY <1>1, <1>10, <1>13, <1>17
<1> QED
  BY <1>3, <1>14, <1>15, <1>16, <1>18, <1>19 DEF n

(* A record is written after the end of a journal, and old ones may go.      *)
LEMMA RecordStep ==
    ASSUME JournalInv, NEW dir \in Inode, NEW id \in Nat, NEW record \in Rec, NEW records \in Seq(Rec),
           NEW k \in Nat, NEW torn \in BOOLEAN,
           records # <<>>, EndOf(records, k, Append(file[dir].records, record)),
           record.pos = NextPos(file[dir]),
           id = IF file[dir].id = 0 THEN minted.journals + 1 ELSE file[dir].id,
           file' = [file EXCEPT ![dir] = [id |-> id, records |-> records, torn |-> torn]],
           minted'.journals = IF file[dir].id = 0 THEN minted.journals + 1 ELSE minted.journals,
           written' = written \cup {[id |-> id, pos |-> record.pos, event |-> record.event]},
           acked' \in {acked, acked \cup {[dir |-> dir, id |-> id, pos |-> record.pos, event |-> record.event]}}
    PROVE  (\A d \in Inode : FileInv(d)') /\ WrittenInv' /\ AckInv' /\ KeptInv'
<1>0. \A r \in Rec : r.pos \in Nat
  BY DEF Rec
<1>t. JournalType
  BY DEF JournalInv
<1>f. \A d \in Inode : FileInv(d)
  BY DEF JournalInv
<1>w. WrittenInv
  BY DEF JournalInv
<1>k. AckInv
  BY DEF JournalInv
<1>m. KeptInv
  BY DEF JournalInv
<1> DEFINE old == file[dir].records
           n   == Len(old)
<1>1. /\ old \in Seq(Rec) /\ n \in Nat /\ file[dir].id \in Nat /\ minted.journals \in Nat
      /\ file[dir].id = 0 <=> old = <<>>
  BY <1>t, <1>f, EmptySeq DEF JournalType, File, FileInv
<1>2. /\ \A i \in 1..n : old[i].pos = old[1].pos + i - 1
      /\ \A i \in 1..n : old[i].pos \in Nat
  <2>1. \A i \in 1..n : old[i] \in Rec
    BY <1>1
  <2> QED
    BY <1>0, <1>f, <2>1 DEF FileInv, Unbroken
<1>3. record.pos = IF old = <<>> THEN 1 ELSE old[n].pos + 1
  BY <1>1 DEF NextPos, Last
<1>4. n # 0 <=> old # <<>>
  BY <1>1, EmptySeq
<1>5. /\ EndOf(records, k, Append(old, record))
      /\ record.pos \in Nat \ {0} /\ Len(records) \in 1..Len(records) /\ 1 \in 1..Len(records)
  BY EmptySeq DEF Rec
<1>6. /\ \A i \in 1..Len(records) : records[i].pos = records[1].pos + i - 1
      /\ records[Len(records)] = record
      /\ \A i \in 1..n : i > k => i - k \in 1..Len(records) /\ records[i - k] = old[i]
      /\ \A i \in 1..n : i <= k => records[1].pos > old[i].pos
      /\ old # <<>> => records[1].pos >= old[1].pos
  <2> HIDE DEF old
  <2> QED
    BY <1>1, <1>2, <1>3, <1>5, NewEnd
<1>7. \A i \in 1..Len(records) : records[i].pos \in Nat
  <2>1. \A i \in 1..Len(records) : records[i] \in Rec
    OBVIOUS
  <2> QED
    BY <1>0, <2>1
<1> HIDE DEF old, n
<1>8. \A d \in Inode : file'[d] = (IF d = dir THEN [id |-> id, records |-> records, torn |-> torn] ELSE file[d])
  BY <1>t DEF JournalType
<1>9. id # 0 /\ id <= minted'.journals /\ minted.journals <= minted'.journals
  BY <1>1, <1>f DEF FileInv
<1>10. \A e \in written : e.id = id => e.pos < record.pos
  <2> SUFFICES ASSUME NEW e \in written, e.id = id PROVE e.pos < record.pos
    OBVIOUS
  <2>1. e.id \in 1..minted.journals /\ e.pos \in Nat
    BY <1>t, <1>w DEF WrittenInv, JournalType
  <2>2. file[dir].id # 0 /\ id = file[dir].id
    BY <1>1, <2>1
  <2>3. e.pos <= old[n].pos
    BY <1>f, <2>2 DEF FileInv, LastPos, old, n
  <2>4. old[n].pos \in Nat /\ record.pos = old[n].pos + 1
    <3>1. old # <<>> /\ n \in 1..n
      BY <1>1, <1>4, <2>2
    <3> QED
      BY <1>2, <1>3, <3>1
  <2> QED
    BY <2>1, <2>3, <2>4
<1>11. \A d \in Inode : d # dir => file[d].id # id
  BY <1>1, <1>t, <1>f, <1>w DEF WrittenInv, FileInv, JournalType, File
<1>12. ASSUME NEW d \in Inode PROVE FileInv(d)'
  <2>1. CASE d = dir
    <3>1. Unbroken(file'[d])
      BY <1>6, <1>8, <2>1 DEF Unbroken
    <3>2. LastPos(file'[d]) = record.pos /\ file'[d].id = id /\ file'[d].records = records
      BY <1>6, <1>8, <2>1 DEF LastPos
    <3>3. \A e \in written' : e.id = id => e.pos <= record.pos
      <4>1. \A e \in written : e.pos \in Nat
        BY <1>t DEF JournalType
      <4> QED
        BY <1>5, <1>10, <4>1
    <3> QED
      BY <1>9, <2>1, <3>1, <3>2, <3>3 DEF FileInv
  <2>2. CASE d # dir
    <3>1. file'[d] = file[d] /\ file[d].id \in Nat /\ file[d].id # id
      BY <1>8, <1>11, <1>t, <2>2 DEF JournalType, File
    <3>2. file[d].id <= minted'.journals
      BY <1>1, <1>9, <1>f, <3>1 DEF FileInv
    <3> QED
      BY <1>f, <3>1, <3>2 DEF FileInv, Unbroken, LastPos
  <2> QED
    BY <2>1, <2>2
<1>13. WrittenInv'
  <2>1. \A d, other \in Inode : file'[d].id # 0 /\ file'[d].id = file'[other].id => d = other
    BY <1>8, <1>11, <1>w DEF WrittenInv
  <2>2. \A e \in written' : e.id \in 1..minted'.journals
    BY <1>1, <1>9, <1>w DEF WrittenInv
  <2>3. \A e, other \in written' : e.id = other.id /\ e.pos = other.pos => e.event = other.event
    <3> DEFINE new == [id |-> id, pos |-> record.pos, event |-> record.event]
    <3>1. \A e \in written : ~(e.id = new.id /\ e.pos = new.pos)
      <4>1. \A e \in written : e.pos \in Nat
        BY <1>t DEF JournalType
      <4> QED
        BY <1>1, <1>10, <4>1
    <3>2. written' = written \cup {new}
      OBVIOUS
    <3> HIDE DEF new
    <3> QED
      BY <1>w, <3>1, <3>2 DEF WrittenInv
  <2> QED
    BY <2>1, <2>2, <2>3 DEF WrittenInv
<1>14. AckInv'
  <2> SUFFICES ASSUME NEW a \in acked', file'[a.dir].id = a.id PROVE Keeps(file'[a.dir], a.pos, a.event)
    BY DEF AckInv
  <2>1. CASE a \in acked /\ a.dir # dir
    BY <1>8, <1>k, <1>t, <2>1 DEF AckInv, JournalType
  <2>2. CASE a \in acked /\ a.dir = dir
    <3>1. a.id = id /\ [id |-> a.id, pos |-> a.pos, event |-> a.event] \in written
      BY <1>8, <1>t, <2>2 DEF JournalType
    <3>2. file[dir].id = id /\ old # <<>>
      BY <1>1, <1>w, <3>1 DEF WrittenInv
    <3>3. Keeps(file[dir], a.pos, a.event) /\ a.pos \in Nat
      BY <1>k, <1>t, <2>2, <3>1, <3>2 DEF AckInv, JournalType
    <3>4. records[1].pos \in Nat /\ old[1].pos \in Nat /\ records[1].pos >= old[1].pos
      BY <1>1, <1>2, <1>4, <1>5, <1>6, <1>7, <3>2
    <3>5. CASE old[1].pos > a.pos
      <4>1. records[1].pos > a.pos
        BY <3>3, <3>4, <3>5
      <4> QED
        BY <1>8, <2>2, <4>1 DEF Keeps
    <3>6. CASE \E i \in DOMAIN old : old[i].pos = a.pos /\ old[i].event = a.event
      <4>1. PICK i \in 1..n : old[i].pos = a.pos /\ old[i].event = a.event
        BY <3>6, <1>1 DEF n
      <4>2. CASE i <= k
        BY <1>6, <1>8, <2>2, <4>1, <4>2 DEF Keeps
      <4>3. CASE i > k
        <5>1. i - k \in DOMAIN records /\ records[i - k] = old[i]
          BY <1>6, <4>3
        <5> QED
          BY <1>8, <2>2, <4>1, <5>1 DEF Keeps
      <4> QED
        BY <1>1, <4>1, <4>2, <4>3
    <3> QED
      BY <3>3, <3>5, <3>6 DEF Keeps, old
  <2>3. CASE a \notin acked
    <3>1. a = [dir |-> dir, id |-> id, pos |-> record.pos, event |-> record.event]
      BY <2>3
    <3>2. Len(records) \in DOMAIN records
      BY <1>5
    <3> QED
      BY <1>6, <1>8, <3>1, <3>2 DEF Keeps
  <2> QED
    BY <2>1, <2>2, <2>3
<1>15. KeptInv'
  <2> SUFFICES ASSUME NEW d \in Inode, NEW i \in 1..Len(file'[d].records)
               PROVE  [id |-> file'[d].id, pos |-> file'[d].records[i].pos,
                       event |-> file'[d].records[i].event] \in written'
    BY DEF KeptInv
  <2>1. CASE d # dir
    BY <1>8, <1>m, <2>1 DEF KeptInv
  <2>2. CASE d = dir
    <3>1. file'[d].id = id /\ file'[d].records = records /\ i \in 1..Len(records)
      BY <1>8, <2>2
    <3>2. CASE i = Len(records)
      BY <1>6, <3>1, <3>2
    <3>3. CASE i # Len(records)
      <4>1. /\ k \in 0..n /\ Len(records) = n + 1 - k
            /\ \A j \in 1..Len(records) : records[j] = Append(old, record)[k + j]
        <5>1. Len(Append(old, record)) = n + 1
          BY <1>1 DEF n
        <5>2. EndOf(records, k, Append(old, record))
          BY <1>5
        <5> HIDE DEF n, old
        <5> QED
          BY <1>1, <5>1, <5>2 DEF EndOf
      <4>2. k + i \in 1..n
        BY <1>1, <3>1, <3>3, <4>1
      <4>3. records[i] = old[k + i]
        BY <1>1, <3>1, <4>1, <4>2 DEF n, old
      <4>4. file[dir].id # 0
        BY <1>1, <1>4, <4>2
      <4>5. [id |-> file[dir].id, pos |-> old[k + i].pos, event |-> old[k + i].event] \in written
        BY <1>m, <4>2 DEF KeptInv, n, old
      <4> QED
        BY <3>1, <4>3, <4>4, <4>5
    <3> QED
      BY <3>2, <3>3
  <2> QED
    BY <2>1, <2>2
<1> QED
  BY <1>12, <1>13, <1>14, <1>15

(* What append() writes, or a crash leaves of it: the record after the end   *)
(* of the journal that was loaded, which the lock kept as it was.            *)
LEMMA PublishStep ==
    ASSUME JournalInv, NEW w \in JWriters, NEW outcome \in {"acked", "unacked", "torn", "nothing"},
           Publish(w, outcome)
    PROVE  JournalInv'
<1> DEFINE dir    == writer[w].dir
           seen   == writer[w].seen
           id     == IF seen.id = 0 THEN minted.journals + 1 ELSE seen.id
           record == [pos |-> NextPos(seen), event |-> minted.events + 1]
           whole  == Append(seen.records, record)
           entry  == [id |-> id, pos |-> record.pos, event |-> record.event]
           ack    == [dir |-> dir, id |-> id, pos |-> record.pos, event |-> record.event]
           stored == outcome \in {"acked", "unacked"}
<1>t. JournalType
  BY DEF JournalInv
<1>1. /\ writer[w].pc = "verified" /\ dir \in Inode /\ lock[dir] = w /\ file[dir] = seen /\ Release(w)
      /\ UNCHANGED <<named, reader>>
  <2>1. writer[w].pc = "verified" /\ Release(w) /\ UNCHANGED <<named, reader>>
    BY DEF Publish
  <2> QED
    BY <2>1 DEF JournalInv, JournalType, HolderInv, HoldsLock
<1>2. seen \in File /\ file[dir] = [id |-> seen.id, records |-> seen.records, torn |-> seen.torn]
  BY <1>1, <1>t DEF JournalType, File
<1>3. seen.id \in Nat /\ seen.records \in Seq(Rec) /\ seen.torn \in BOOLEAN
      /\ minted.journals \in Nat /\ minted.events \in Nat
  BY <1>2, <1>t DEF File, JournalType
<1>4. NextPos(seen) \in Nat \ {0}
  <2>1. CASE seen.records = <<>>
    BY <2>1 DEF NextPos
  <2>2. CASE seen.records # <<>>
    <3>1. Last(seen.records) \in Rec
      BY <1>3, <2>2, EmptySeq DEF Last
    <3> QED
      BY <2>2, <3>1 DEF NextPos, Rec
  <2> QED
    BY <2>1, <2>2
<1>5. record \in Rec /\ whole \in Seq(Rec) /\ whole # <<>> /\ id \in Nat
  <2>1. record \in Rec /\ id \in Nat
    BY <1>3, <1>4 DEF Rec
  <2>2. whole \in Seq(Rec) /\ Len(whole) = Len(seen.records) + 1 /\ Len(seen.records) \in Nat
    BY <1>3, <2>1
  <2> QED
    BY <2>1, <2>2, EmptySeq
<1>6. \A v \in JWriters : v # w /\ HoldsLock(v) => writer[v].dir \in Inode \ {dir}
  BY <1>1 DEF JournalInv, JournalType, HolderInv, HoldsLock
<1>7. ASSUME file' \in [Inode -> File], \A d \in Inode \ {dir} : file'[d] = file[d] PROVE HolderInv'
  BY <1>1, <1>6, <1>7, ReleaseKeeps DEF JournalInv, HolderInv, HoldsLock, Idle
<1>8. ASSUME file' \in [Inode -> File], minted' \in [events : Nat, journals : Nat, dirs : Nat],
             \/ written' = written /\ acked' = acked
             \/ written' = written \cup {entry} /\ acked' \in {acked, acked \cup {ack}}
      PROVE  JournalType'
  <2>1. entry \in [id : Nat, pos : Nat \ {0}, event : Nat]
    BY <1>5 DEF Rec
  <2>2. /\ written' \subseteq [id : Nat, pos : Nat \ {0}, event : Nat]
        /\ \A a \in acked' : a.dir \in Inode /\ [id |-> a.id, pos |-> a.pos, event |-> a.event] \in written'
    BY <1>1, <1>8, <1>t, <2>1 DEF JournalType
  <2>3. \A v \in JWriters : writer'[v].pc # "idle" => writer'[v].dir \in Inode
    <3>1. writer'[w].pc = "idle" /\ \A v \in JWriters : v # w => writer'[v] = writer[v]
      BY <1>1, ReleaseKeeps DEF Idle
    <3> QED
      BY <1>t, <3>1 DEF JournalType
  <2> QED
    BY <1>1, <1>8, <1>t, <2>2, <2>3, ReleaseKeeps DEF JournalType
<1>9. CASE stored
  <2>1. /\ written' = written \cup {entry} /\ acked' \in {acked, acked \cup {ack}}
        /\ minted' = [minted EXCEPT !.events = minted.events + 1,
                        !.journals = IF seen.id = 0 THEN minted.journals + 1 ELSE minted.journals]
    BY <1>9 DEF Publish
  <2>2. \/ file' = [file EXCEPT ![dir] = [id |-> id, records |-> Retained(whole), torn |-> FALSE]]
        \/ file' = [file EXCEPT ![dir] = [id |-> seen.id, records |-> whole, torn |-> seen.torn]] /\ seen.id # 0
    BY <1>1, <1>9 DEF Publish, Rewritten, Extended
  <2>3. PICK records \in Seq(Rec), torn \in BOOLEAN, k \in Nat :
           /\ file' = [file EXCEPT ![dir] = [id |-> id, records |-> records, torn |-> torn]]
           /\ EndOf(records, k, whole)
    <3>1. CASE file' = [file EXCEPT ![dir] = [id |-> id, records |-> Retained(whole), torn |-> FALSE]]
      <4>1. Retained(whole) \in Seq(Rec) /\ \E k \in 0..(Len(whole) - 1) : EndOf(Retained(whole), k, whole)
        BY <1>5, RetainedIsEnd
      <4>2. Len(whole) \in Nat
        BY <1>5
      <4> HIDE DEF whole, id, dir
      <4>3. PICK k \in 0..(Len(whole) - 1) : EndOf(Retained(whole), k, whole)
        BY <4>1
      <4>4. k \in Nat
        BY <4>2
      <4> QED
        BY <3>1, <4>1, <4>3, <4>4
    <3>2. CASE file' = [file EXCEPT ![dir] = [id |-> seen.id, records |-> whole, torn |-> seen.torn]] /\ seen.id # 0
      <4>1. Len(whole) \in Nat \ {0}
        BY <1>5, EmptySeq
      <4>2. EndOf(whole, 0, whole)
        <5> HIDE DEF whole
        <5> QED
          BY <4>1 DEF EndOf
      <4> QED
        BY <1>3, <1>5, <3>2, <4>2
    <3> QED
      BY <2>2, <3>1, <3>2
  <2>4. records # <<>>
    BY <1>5, <2>3, EmptySeq DEF EndOf
  <2>5. minted' \in [events : Nat, journals : Nat, dirs : Nat]
        /\ minted'.journals = IF seen.id = 0 THEN minted.journals + 1 ELSE minted.journals
    <3> DEFINE begun == IF seen.id = 0 THEN minted.journals + 1 ELSE minted.journals
    <3>1. begun \in Nat /\ minted.events + 1 \in Nat /\ minted \in [events : Nat, journals : Nat, dirs : Nat]
      BY <1>3, <1>t DEF JournalType
    <3>2. minted' = [minted EXCEPT !.events = minted.events + 1, !.journals = begun]
      BY <2>1
    <3> HIDE DEF begun
    <3>3. minted' = [events |-> minted.events + 1, journals |-> begun, dirs |-> minted.dirs]
      BY <3>1, <3>2
    <3>4. minted' \in [events : Nat, journals : Nat, dirs : Nat] /\ minted'.journals = begun
      BY <3>1, <3>3
    <3> QED
      BY <3>4 DEF begun
  <2>6. file' \in [Inode -> File] /\ \A d \in Inode \ {dir} : file'[d] = file[d]
    BY <1>1, <1>5, <1>t, <2>3 DEF JournalType, File
  <2>7. NextPos(seen) = NextPos(file[dir]) /\ record.pos = NextPos(seen)
    BY <1>1
  <2> HIDE DEF record, id, whole
  <2>8. (\A d \in Inode : FileInv(d)') /\ WrittenInv' /\ AckInv' /\ KeptInv'
    BY <1>1, <1>5, <2>1, <2>3, <2>4, <2>5, <2>7, RecordStep DEF id, whole
  <2> QED
    BY <1>7, <1>8, <2>1, <2>5, <2>6, <2>8 DEF JournalInv
<1>10. CASE ~stored
  <2>1. /\ UNCHANGED <<minted, written, acked>>
        /\ \/ file' = [file EXCEPT ![dir] = [id |-> seen.id, records |-> seen.records, torn |-> TRUE]]
           \/ file' = [file EXCEPT ![dir] = seen]
    BY <1>1, <1>10 DEF Publish, Torn
  <2>2. /\ file' \in [Inode -> File] /\ \A d \in Inode \ {dir} : file'[d] = file[d]
        /\ \A d \in Inode : file'[d].id = file[d].id /\ file'[d].records = file[d].records
    <3>1. PICK torn \in BOOLEAN : file' = [file EXCEPT ![dir] = [id |-> seen.id, records |-> seen.records, torn |-> torn]]
      BY <1>1, <1>2, <1>3, <2>1
    <3>2. file \in [Inode -> File] /\ [id |-> seen.id, records |-> seen.records, torn |-> torn] \in File
      BY <1>3, <1>t DEF JournalType, File
    <3>3. \A d \in Inode : file'[d] = IF d = dir THEN [id |-> seen.id, records |-> seen.records, torn |-> torn] ELSE file[d]
      BY <3>1, <3>2
    <3> QED
      BY <1>1, <3>1, <3>2, <3>3
  <2>3. (\A d \in Inode : FileInv(d)') /\ WrittenInv' /\ AckInv' /\ KeptInv'
    BY <2>1, <2>2, FilesStay
  <2> QED
    BY <1>7, <1>8, <1>t, <2>1, <2>2, <2>3 DEF JournalInv, JournalType
<1> QED
  BY <1>9, <1>10

(* Every step keeps the invariant.                                           *)
LEMMA JournalStep == JournalInv /\ [JournalNext]_journalVars => JournalInv'
BY QuietStep, RemoveStep, PublishStep DEF JournalNext

(* An event that append() acknowledged is in the journal it was written to,  *)
(* at its position, until retention drops it or the operator removes the     *)
(* file, and nothing else was ever written at that position: whatever other  *)
(* writers do, wherever one of them dies, and when the directory is renamed  *)
(* away under a writer.                                                      *)
THEOREM AppendedIsKept == JournalSpec => []AcknowledgedIsKept
<1>1. JournalInv => AcknowledgedIsKept
  <2> SUFFICES ASSUME JournalInv, NEW a \in acked
               PROVE  /\ \A other \in written : other.id = a.id /\ other.pos = a.pos => other.event = a.event
                      /\ file[a.dir].id = a.id => Keeps(file[a.dir], a.pos, a.event)
    BY DEF AcknowledgedIsKept, Keeps
  <2>1. [id |-> a.id, pos |-> a.pos, event |-> a.event] \in written
    BY DEF JournalInv, JournalType
  <2> QED
    BY <2>1 DEF JournalInv, WrittenInv, AckInv
<1> QED
  BY <1>1, JournalBegins, JournalStep, PTL DEF JournalSpec
-----------------------------------------------------------------------------
(* A page holds records of the file, behind the cursor, and leaves none out. *)
IsPage(page, f, after) ==
    /\ page \in Seq(Rec)
    /\ \A i \in 1..Len(page) : \E k \in 1..Len(f.records) : page[i] = f.records[k]
    /\ \A i \in 1..Len(page) : page[i].pos = page[1].pos + i - 1
    /\ Len(page) > 0 => page[1].pos > after

LEMMA PageIsPage ==
    ASSUME NEW f \in File, Unbroken(f), NEW after \in Nat, NEW limit \in Pages
    PROVE  IsPage(Page(f, after, limit), f, after)
<1> DEFINE page    == Page(f, after, limit)
           records == f.records
           n    == Len(records)
           old  == {i \in DOMAIN records : records[i].pos <= after}
           k    == Cardinality(old)
           last == IF k + 1 + limit <= n THEN k + 1 + limit - 1 ELSE n
<1>1. records \in Seq(Rec) /\ n \in Nat /\ DOMAIN records = 1..n /\ limit \in Nat \ {0}
  BY JournalAssumption DEF File
<1>2. \A i \in 1..n : records[i] \in Rec /\ records[i].pos \in Nat \ {0} /\ records[i].pos = records[1].pos + i - 1
  <2>1. \A i \in 1..n : records[i].pos = records[1].pos + i - 1
    BY DEF Unbroken
  <2> HIDE DEF records
  <2>2. \A i \in 1..n : records[i] \in Rec
    BY <1>1
  <2> QED
    BY <2>1, <2>2 DEF Rec
<1>3. page = SubSeq(records, k + 1, last)
  BY DEF Page
<1> HIDE DEF page
<1>4. k \in 0..n /\ old = 1..k
  <2>1. \E m \in 0..n : old = 1..m
    <3>1. CASE n = 0
      BY <1>1, <3>1
    <3>2. CASE n > 0 /\ records[1].pos > after
      <4>1. \A i \in 1..n : ~(records[i].pos <= after)
        BY <1>2, <3>2, <1>1
      <4>2. old = {}
        BY <1>1, <4>1
      <4> QED
        BY <1>1, <4>2
    <3>3. CASE n > 0 /\ records[1].pos <= after
      <4> DEFINE d == after - records[1].pos + 1
                 m == IF d > n THEN n ELSE d
      <4>1. records[1].pos \in Nat /\ d \in Nat /\ m \in 0..n
        BY <1>1, <1>2, <3>3
      <4>2. \A i \in 1..n : records[i].pos <= after <=> i <= m
        <5> SUFFICES ASSUME NEW i \in 1..n PROVE records[i].pos <= after <=> i <= m
          OBVIOUS
        <5>1. records[i].pos = records[1].pos + i - 1
          BY <1>2
        <5> HIDE DEF records, n
        <5> QED
          BY <1>1, <4>1, <5>1
      <4> HIDE DEF m
      <4>3. old = 1..m
        BY <1>1, <4>1, <4>2
      <4> QED
        BY <4>1, <4>3
    <3>4. n > 0 => records[1].pos \in Nat
      BY <1>1, <1>2
    <3> HIDE DEF records, n, old
    <3> QED
      BY <1>1, <3>1, <3>2, <3>3, <3>4
  <2>2. PICK m \in 0..n : old = 1..m
    BY <2>1
  <2>3. Cardinality(1..m) = m
    BY <1>1, <2>2, FS_Interval
  <2> HIDE DEF old
  <2> QED
    BY <2>2, <2>3
<1>5. last \in 0..n
  BY <1>1, <1>4
<1>6. \A i \in (k + 1)..last : i \in 1..n
  BY <1>1, <1>4, <1>5
<1>7. \A i \in (k + 1)..last : records[i] \in Rec
  BY <1>1, <1>6
<1> HIDE DEF old, last
<1>8. k \in Nat /\ \A i \in 1..k : records[i].pos <= after
  BY <1>1, <1>4 DEF old
<1>9. \A i \in 1..n : i > k => records[i].pos > after
  <2>1. \A i \in 1..n : i \notin old => ~(records[i].pos <= after)
    BY <1>1 DEF old
  <2> QED
    BY <1>1, <1>2, <1>4, <2>1
<1> HIDE DEF k, n, records
<1>10. /\ page \in Seq(Rec)
       /\ Len(page) = IF k + 1 <= last THEN last - (k + 1) + 1 ELSE 0
       /\ \A i \in 1..(last - (k + 1) + 1) : page[i] = records[k + 1 + i - 1]
  BY <1>3, <1>5, <1>7, <1>8, SubSeqProperties
<1>11. \A i \in 1..Len(page) : k + i \in 1..n /\ page[i] = records[k + i]
  <2> SUFFICES ASSUME NEW i \in 1..Len(page) PROVE k + i \in 1..n /\ page[i] = records[k + i]
    OBVIOUS
  <2>1. i \in 1..(last - (k + 1) + 1) /\ k + i \in (k + 1)..last /\ k + 1 + i - 1 = k + i
    BY <1>1, <1>5, <1>8, <1>10
  <2> QED
    BY <1>6, <1>10, <2>1
<1>12. Len(page) \in Nat
  BY <1>10
<1>13. ASSUME Len(page) > 0 PROVE page[1].pos > after
  <2>1. k + 1 \in 1..n /\ page[1] = records[k + 1]
    BY <1>11, <1>12, <1>13
  <2> QED
    BY <1>8, <1>9, <2>1
<1>14. \A i \in 1..Len(page) : page[i].pos = page[1].pos + i - 1
  <2> SUFFICES ASSUME NEW i \in 1..Len(page) PROVE page[i].pos = page[1].pos + i - 1
    OBVIOUS
  <2>1. 1 \in 1..Len(page)
    BY <1>12
  <2>2. /\ records[k + i].pos = records[1].pos + (k + i) - 1
        /\ records[k + 1].pos = records[1].pos + (k + 1) - 1
    BY <1>2, <1>11, <2>1
  <2>3. 1 \in 1..n
    BY <1>1, <1>8, <1>11, <2>1
  <2>4. records[1].pos \in Nat
    BY <1>2, <2>3
  <2>5. page[i] = records[k + i] /\ page[1] = records[k + 1]
    BY <1>11, <2>1
  <2>6. k \in Nat /\ i \in Nat
    BY <1>8, <1>12
  <2>7. records[k + i].pos = records[k + 1].pos + i - 1
    BY <2>2, <2>4, <2>6
  <2> QED
    BY <2>5, <2>7
<1> QED
  BY <1>10, <1>11, <1>13, <1>14 DEF IsPage, page, n, records

(* A reader was told of every position up to its cursor.                     *)
Cursor == [id : Nat, pos : Nat, event : Nat]

ReaderType ==
    reader \in [JReaders -> [cursor : Cursor \cup {NoCursor}, got : SUBSET Rec, gaps : SUBSET Nat]]

ReaderInv == ReaderType /\ ReaderIsToldOfGaps

LEMMA ReaderBegins == JournalInit => ReaderInv
BY DEF JournalInit, ReaderInv, ReaderType, ReaderIsToldOfGaps, NewReader

(* Whoever writes, what was written stays.                                   *)
LEMMA ReaderStays ==
    ASSUME ReaderInv, reader' = reader, written \subseteq written'
    PROVE  ReaderInv'
BY DEF ReaderInv, ReaderType, ReaderIsToldOfGaps

LEMMA StartsOver ==
    ASSUME ReaderInv, NEW r \in JReaders, StartOver(r)
    PROVE  ReaderInv'
<1>1. reader' = [reader EXCEPT ![r] = NewReader] /\ written' = written
  BY DEF StartOver
<1>2. ReaderType'
  BY <1>1 DEF ReaderInv, ReaderType, NewReader
<1>3. \A q \in JReaders : reader'[q] = IF q = r THEN NewReader ELSE reader[q]
  BY <1>1 DEF ReaderInv, ReaderType
<1>4. ReaderIsToldOfGaps'
  BY <1>1, <1>3 DEF ReaderInv, ReaderIsToldOfGaps, NewReader
<1> QED
  BY <1>2, <1>4 DEF ReaderInv

(* A page brings every position from the cursor to its end, or a gap.        *)
LEMMA PageIsTold ==
    ASSUME JournalInv, ReaderInv, NEW r \in JReaders, NEW limit \in Pages, Export(r, limit)
    PROVE  ReaderInv'
<1> DEFINE f     == file[named]
           at    == reader[r]
           after == After(at.cursor)
           page  == Page(f, after, limit)
           gaps  == IF Gap(page, after) THEN at.gaps \cup (after + 1)..(page[1].pos - 1) ELSE at.gaps
           got   == at.got \cup Range(page)
           next  == IF page # <<>> THEN CursorAt(f, Last(page))
                    ELSE IF at.cursor # NoCursor THEN at.cursor
                    ELSE CursorAt(f, [pos |-> 0, event |-> 0])
<1>1. /\ named \in Inode /\ ~Refuses(at.cursor, f) /\ written' = written
      /\ reader' = [reader EXCEPT ![r] = [cursor |-> next, got |-> got, gaps |-> gaps]]
  BY JournalAssumption DEF Export, JournalInv, JournalType, Inode
<1>2. f \in File /\ Unbroken(f)
      /\ \A i \in 1..Len(f.records) :
            [id |-> f.id, pos |-> f.records[i].pos, event |-> f.records[i].event] \in written
  BY <1>1 DEF JournalInv, JournalType, FileInv, KeptInv
<1>3. /\ at \in [cursor : Cursor \cup {NoCursor}, got : SUBSET Rec, gaps : SUBSET Nat]
      /\ at.cursor # NoCursor =>
            \A p \in 1..at.cursor.pos :
                p \in at.gaps \/ \E record \in at.got :
                    record.pos = p /\ [id |-> at.cursor.id, pos |-> p, event |-> record.event] \in written
  BY DEF ReaderInv, ReaderType, ReaderIsToldOfGaps
<1>4. after \in Nat /\ (at.cursor # NoCursor => after = at.cursor.pos /\ at.cursor.id = f.id)
      /\ (at.cursor = NoCursor => after = 0)
  BY <1>1, <1>3 DEF After, Refuses, Cursor
<1>5. IsPage(page, f, after)
  BY <1>2, <1>4, PageIsPage
<1> HIDE DEF page, f, after
<1>6. \A i \in 1..Len(page) : [id |-> f.id, pos |-> page[i].pos, event |-> page[i].event] \in written
  BY <1>2, <1>5 DEF IsPage
<1>7. /\ Range(page) = {page[i] : i \in 1..Len(page)}
      /\ \A i \in 1..Len(page) : page[i] \in Rec /\ page[i].pos \in Nat \ {0} /\ page[i].event \in Nat
      /\ Len(page) \in Nat /\ (page # <<>> <=> Len(page) > 0)
  <2>1. page \in Seq(Rec)
    BY <1>5 DEF IsPage
  <2>2. DOMAIN page = 1..Len(page) /\ Len(page) \in Nat /\ \A i \in 1..Len(page) : page[i] \in Rec
    BY <2>1
  <2>3. page # <<>> <=> Len(page) > 0
    BY <2>1, <2>2, EmptySeq
  <2>4. \A record \in Rec : record.pos \in Nat \ {0} /\ record.event \in Nat
    BY DEF Rec
  <2> QED
    BY <2>2, <2>3, <2>4 DEF Range
<1>8. page # <<>> => Last(page) = page[Len(page)] /\ Len(page) \in 1..Len(page) /\ 1 \in 1..Len(page)
                     /\ page[1].pos > after
  BY <1>5, <1>7 DEF Last, IsPage
<1>9. page # <<>> => next = [id |-> f.id, pos |-> page[Len(page)].pos, event |-> page[Len(page)].event]
  BY <1>8 DEF CursorAt
<1>10. next \in Cursor \cup {NoCursor}
  <2>1. CASE page # <<>>
    BY <1>2, <1>7, <1>8, <1>9, <2>1 DEF Cursor, File
  <2>2. CASE page = <<>>
    BY <1>2, <1>3, <2>2 DEF Cursor, CursorAt, File
  <2> QED
    BY <2>1, <2>2
<1>11. gaps \in SUBSET Nat /\ got \in SUBSET Rec
  <2>1. got \in SUBSET Rec
    BY <1>3, <1>7
  <2>2. gaps \in SUBSET Nat
    BY <1>3, <1>4
  <2> QED
    BY <2>1, <2>2
<1>12. ASSUME next # NoCursor, NEW p \in 1..next.pos
       PROVE  p \in gaps \/ \E record \in got :
                  record.pos = p /\ [id |-> next.id, pos |-> p, event |-> record.event] \in written
  <2>1. CASE page = <<>>
    <3>1. CASE at.cursor # NoCursor
      BY <1>3, <1>12, <2>1, <3>1 DEF Gap
    <3>2. CASE at.cursor = NoCursor
      BY <1>12, <2>1, <3>2 DEF CursorAt
    <3> QED
      BY <3>1, <3>2
  <2>2. CASE page # <<>>
    <3>1. next.id = f.id /\ next.pos = page[Len(page)].pos /\ p \in Nat \ {0}
          /\ page[1].pos \in Nat /\ page[Len(page)].pos \in Nat
      BY <1>7, <1>8, <1>9, <2>2
    <3>2. CASE p <= after
      <4>1. at.cursor # NoCursor /\ p \in 1..at.cursor.pos /\ at.cursor.id = next.id
        BY <1>4, <3>1, <3>2
      <4> QED
        BY <1>3, <4>1
    <3>3. CASE after < p /\ p < page[1].pos
      <4>1. Gap(page, after) /\ p \in (after + 1)..(page[1].pos - 1)
        BY <1>4, <2>2, <3>1, <3>3 DEF Gap
      <4> QED
        BY <4>1
    <3>4. CASE page[1].pos <= p
      <4> DEFINE i == p - page[1].pos + 1
      <4>1. page[Len(page)].pos = page[1].pos + Len(page) - 1
        BY <1>5, <1>8, <2>2 DEF IsPage
      <4>2. i \in 1..Len(page)
        BY <1>7, <3>1, <3>4, <1>12, <4>1
      <4>3. page[i].pos = p
        <5>1. page[i].pos = page[1].pos + i - 1
          BY <1>5, <4>2 DEF IsPage
        <5> QED
          BY <3>1, <5>1
      <4> HIDE DEF i
      <4>4. page[i] \in got /\ [id |-> next.id, pos |-> p, event |-> page[i].event] \in written
        BY <1>6, <1>7, <3>1, <4>2, <4>3
      <4> QED
        BY <4>3, <4>4
    <3>5. p <= after \/ (after < p /\ p < page[1].pos) \/ page[1].pos <= p
      BY <1>4, <3>1
    <3> QED
      BY <3>2, <3>3, <3>4, <3>5
  <2> QED
    BY <2>1, <2>2
<1> HIDE DEF next, got, gaps
<1>13. ReaderType'
  BY <1>1, <1>10, <1>11 DEF ReaderInv, ReaderType
<1>14. \A q \in JReaders :
          reader'[q] = IF q = r THEN [cursor |-> next, got |-> got, gaps |-> gaps] ELSE reader[q]
  BY <1>1 DEF ReaderInv, ReaderType
<1>15. ReaderIsToldOfGaps'
  <2> SUFFICES ASSUME NEW q \in JReaders, reader'[q].cursor # NoCursor, NEW p \in 1..reader'[q].cursor.pos
               PROVE  p \in reader'[q].gaps \/ \E record \in reader'[q].got :
                          record.pos = p /\ [id |-> reader'[q].cursor.id, pos |-> p,
                                             event |-> record.event] \in written
    BY <1>1 DEF ReaderIsToldOfGaps
  <2>1. CASE q = r
    BY <1>12, <1>14, <2>1
  <2>2. CASE q # r
    BY <1>14, <2>2 DEF ReaderInv, ReaderIsToldOfGaps
  <2> QED
    BY <2>1, <2>2
<1> QED
  BY <1>13, <1>15 DEF ReaderInv

LEMMA ReaderStep == JournalInv /\ ReaderInv /\ [JournalNext]_journalVars => ReaderInv'
<1> SUFFICES ASSUME JournalInv, ReaderInv, [JournalNext]_journalVars PROVE ReaderInv'
  OBVIOUS
<1>1. CASE UNCHANGED journalVars
  BY <1>1, ReaderStays DEF journalVars
<1>2. ASSUME NEW w \in JWriters, OpenDirectory(w) \/ LockAndLoad(w) \/ Reverify(w) PROVE ReaderInv'
  BY <1>2, ReaderStays DEF OpenDirectory, LockAndLoad, Reverify
<1>3. ASSUME NEW w \in JWriters, NEW outcome, Publish(w, outcome) PROVE ReaderInv'
  <2>1. reader' = reader /\ written \subseteq written'
    BY <1>3 DEF Publish
  <2> QED
    BY <2>1, ReaderStays
<1>4. CASE Displace \/ RemoveTorn
  BY <1>4, ReaderStays DEF Displace, RemoveTorn
<1> QED
  BY <1>1, <1>2, <1>3, <1>4, StartsOver, PageIsTold DEF JournalNext

(* The journal can be audited, whatever its writers, its readers and the     *)
(* operator do: an appended event stays until retention drops it, and every  *)
(* reader was handed each position up to its cursor, as it was written, or   *)
(* was told of the gap it lies in.                                           *)
THEOREM JournalAccountable == JournalSpec => []JournalIsAccountable
<1>1. ReaderInv => ReaderIsToldOfGaps
  BY DEF ReaderInv
<1>2. JournalSpec => [](JournalInv /\ ReaderInv)
  BY JournalBegins, ReaderBegins, JournalStep, ReaderStep, PTL DEF JournalSpec
<1> QED
  BY <1>1, <1>2, AppendedIsKept, PTL DEF JournalIsAccountable
===============================================================================
