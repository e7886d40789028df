------------------------------- MODULE SiteLimits -------------------------------
(***************************************************************************)
(* The limits an installation sets over the missions of its robots: the    *)
(* profile file, its audit, the gateway's threads that change them         *)
(* (safety_profile.py, mission_gateway.py), and the loading of a job under *)
(* the profile (contracts.py).                                             *)
(*                                                                         *)
(* A profile is a function from the fields it limits to their values; an   *)
(* absent file is the empty profile.  A job is a function from every field *)
(* to what it asks, Unset where it leaves the field out.                   *)
(***************************************************************************)
EXTENDS Integers, Sequences, FiniteSetsExt, SequencesExt, Functions

CONSTANTS
    Direction,    \* field -> "at_most" | "at_least": CONSTRAINABLE
    Unset,
    Profiles,     \* profiles somebody sets
    Jobs,         \* jobs somebody starts
    Updaters,     \* requests to change the profile under way
    NoUpdate,
    MaxLines,     \* bound: lines of the audit
    MaxMissions   \* bound: missions started

ASSUME LimitsAssumption ==
    /\ \A p \in Profiles : DOMAIN p \subseteq DOMAIN Direction /\ \A f \in DOMAIN p : p[f] \in Int
    /\ \A job \in Jobs, f \in DOMAIN Direction : job[f] # Unset => job[f] \in Int

VARIABLES
    profile,     \* the limits in the profile file
    audit,       \* its lines: the whole records in each, whether its newline was written, and
                 \* whether it also holds a torn record, which makes it unreadable
    update,      \* updater -> [stage, record], or NoUpdate
    missions     \* jobs loaded: [job, limits, under]

limitVars == <<profile, audit, update, missions>>

LimitFields == DOMAIN Direction

\* is_more_conservative()
MoreConservative(field, candidate, than) ==
    IF Direction[field] = "at_most" THEN candidate < than ELSE candidate > than

\* apply_profile(): what a job runs under; what it leaves out stays out.
ApplyProfile(limits, job) ==
    [f \in LimitFields |->
        IF job[f] # Unset /\ f \in DOMAIN limits /\ MoreConservative(f, limits[f], job[f])
        THEN limits[f] ELSE job[f]]

RelaxedKept(before, after) ==
    {f \in DOMAIN before \cap DOMAIN after :
        after[f] # before[f] /\ ~MoreConservative(f, after[f], before[f])}

\* change_record(): the fields whose limit was removed or moved to the less safe side.
Relaxed(before, after) ==
    {f \in DOMAIN before : f \in DOMAIN after =>
        after[f] # before[f] /\ ~MoreConservative(f, after[f], before[f])}

ChangeRecord(before, after) ==
    [before |-> before, after |-> after, relaxed |-> Relaxed(before, after)]

\* The record is on disk before the profile is touched.
Stages == <<"audit", "profile">>

-----------------------------------------------------------------------------
\* update_profile(): the profile is read and the record made; no lock is taken.
BeginUpdate(u, after) ==
    /\ update[u] = NoUpdate
    /\ update' = [update EXCEPT ![u] = [stage |-> 1, record |-> ChangeRecord(profile, after)]]
    /\ UNCHANGED <<profile, audit, missions>>

\* O_APPEND: a line goes after whatever the file ends with.
Appended(records, ended) ==
    IF audit # <<>> /\ ~Last(audit).ended
    THEN Append(Front(audit), [records |-> Last(audit).records \o records, ended |-> ended, torn |-> TRUE])
    ELSE Append(audit, [records |-> records, ended |-> ended, torn |-> ~ended])

At(u, stage) == update[u] # NoUpdate /\ Stages[update[u].stage] = stage

Proceed(u) ==
    update' = [update EXCEPT ![u] =
                  IF @.stage = Len(Stages) THEN NoUpdate
                  ELSE [stage |-> @.stage + 1, record |-> @.record]]

GiveUp(u) == update' = [update EXCEPT ![u] = NoUpdate]

\* The audit line: whole and synced; whole and the sync fails; torn; or not at all.
AppendAudit(u, outcome) ==
    /\ At(u, "audit")
    /\ Len(audit) < MaxLines
    /\ audit' = CASE outcome \in {"synced", "unsynced"} -> Appended(<<update[u].record>>, TRUE)
                  [] outcome = "torn"                   -> Appended(<<>>, FALSE)
                  [] outcome = "refused"                -> audit
    /\ IF outcome = "synced" THEN Proceed(u) ELSE GiveUp(u)
    /\ UNCHANGED <<profile, missions>>

\* The profile is replaced, or left entirely alone.
ReplaceProfile(u, ok) ==
    /\ At(u, "profile")
    /\ profile' = IF ok THEN update[u].record.after ELSE profile
    /\ IF ok THEN Proceed(u) ELSE GiveUp(u)
    /\ UNCHANGED <<audit, missions>>

\* The gateway's process ends with every request in it.
GatewayCrashes ==
    /\ \E u \in Updaters : update[u] # NoUpdate
    /\ update' = [u \in Updaters |-> NoUpdate]
    /\ UNCHANGED <<profile, audit, missions>>

\* parse_job(): the limits of a mission are resolved once, when it is loaded.
LoadJob(job) ==
    /\ Cardinality(missions) < MaxMissions
    /\ missions' = missions \cup {[job |-> job, limits |-> ApplyProfile(profile, job), under |-> profile]}
    /\ UNCHANGED <<profile, audit, update>>

LimitsInit ==
    /\ profile = <<>>
    /\ audit = <<>>
    /\ update = [u \in Updaters |-> NoUpdate]
    /\ missions = {}

LimitsNext ==
    \/ \E u \in Updaters :
          \/ \E after \in Profiles : BeginUpdate(u, after)
          \/ \E outcome \in {"synced", "unsynced", "torn", "refused"} : AppendAudit(u, outcome)
          \/ \E ok \in BOOLEAN : ReplaceProfile(u, ok)
    \/ GatewayCrashes
    \/ \E job \in Jobs : LoadJob(job)

-----------------------------------------------------------------------------
RecordsKept == UNION {Range(line.records) : line \in Range(audit)}

\* Every mission runs under limits the audit tells of, even if the line that does so
\* was run into a torn one, and no field it asks for is less safe than they allow.
\* A crash, a failed write or another update between the two files does not change
\* that (safety_profile.py:283 "The audit is checked for writability before the
\* profile is touched").
MissionsRunUnderRecordedLimits ==
    [](\A m \in missions :
          /\ m.under = <<>> \/ \E record \in RecordsKept : record.after = m.under
          /\ \A f \in DOMAIN m.under :
                 m.job[f] # Unset => ~MoreConservative(f, m.under[f], m.limits[f]))

Wider(f, limits, than) ==
    \E job \in {j \in Jobs : j[f] # Unset} :
        MoreConservative(f, ApplyProfile(than, job)[f], ApplyProfile(limits, job)[f])

\* A replacement of the profile under which some job runs wider than before has that
\* field in its record's relaxed limits, whatever the change was called; unless the
\* profile was changed after the record had read it, which nothing notices
\* (safety_profile.py:231, 288).
RelaxationIsFlagged ==
    [][\A u \in Updaters, f \in LimitFields :
          At(u, "profile") /\ profile' # profile /\ profile' = update[u].record.after
          /\ profile = update[u].record.before /\ Wider(f, profile', profile)
          => f \in update[u].record.relaxed]_limitVars

\* The audit tells the limits of every mission, and which changes relaxed them.
LimitsAreOnRecord == MissionsRunUnderRecordedLimits /\ RelaxationIsFlagged
===============================================================================
