--------------------------- MODULE FacilityResources ---------------------------
(***************************************************************************)
(* The devices of a building a robot leases by kind, and the evidence of   *)
(* it: facility_resources.py as the showcase observer drives it            *)
(* (showcase_gazebo_observer.py).                                          *)
(*                                                                         *)
(* A call changes the state and records events in turn; _record() raises   *)
(* for a time outside the run, a reason that is no identifier, or a full   *)
(* list, and the call ends there with what it had changed so far.          *)
(***************************************************************************)
EXTENDS RouteGraph

CONSTANTS
    NoDevice,
    Catalog,        \* sequence of [id, kind, zone, priority, fallback, contract]
    Requirements,   \* dependency contracts a caller may state, NoDevice among them
    FacilityEvents  \* MAX_EVENTS

\* FacilityResourceCatalog.from_mapping() accepts the catalog.
ValidCatalog(catalog) ==
    /\ catalog # <<>>
    /\ \A i, j \in DOMAIN catalog : catalog[i].id = catalog[j].id => i = j
    /\ \A i \in DOMAIN catalog : ValidContract(catalog[i].contract) /\ catalog[i].priority \in Nat

VARIABLES
    healthy,     \* resource -> reported health
    lease,       \* kind -> [resource, zone, contract], or NoDevice
    seenFrames,  \* cameras that delivered a frame
    facility,    \* the events recorded: [kind, resource, ...]
    raised       \* ghost: a call ended in the middle

facilityVars == <<healthy, lease, seenFrames, facility, raised>>

Resources == {Catalog[i].id : i \in DOMAIN Catalog}
Kinds     == {Catalog[i].kind : i \in DOMAIN Catalog}
DeviceZones == {Catalog[i].zone : i \in DOMAIN Catalog}
Contracts == {Catalog[i].contract : i \in DOMAIN Catalog} \cup (Requirements \ {NoDevice})

\* What a lease holds.
Leases == [resource : Resources, zone : DeviceZones, contract : Contracts]

ASSUME CatalogAssumption ==
    /\ ValidCatalog(Catalog)
    /\ FacilityEvents \in Nat
    /\ NoDevice \notin Resources \cup Leases

Device(r) == Catalog[CHOOSE i \in DOMAIN Catalog : Catalog[i].id = r]

Covers(device, zone) == device.zone = zone \/ device.fallback \cap {zone, "*"} # {}

\* FacilityResourceCatalog.select(): the best of these, if there is one.
Candidate(kind, zone, health) ==
    {r \in Resources : Device(r).kind = kind /\ health[r] /\ Covers(Device(r), zone)}

Better(a, b, zone) ==
    LET far(d) == IF d.zone = zone THEN 0 ELSE 1 IN
    \/ far(a) < far(b)
    \/ far(a) = far(b) /\ a.priority < b.priority
    \/ far(a) = far(b) /\ a.priority = b.priority /\ a.id <= b.id

Selects(r, kind, zone, health) ==
    LET some == Candidate(kind, zone, health) IN
    r \in some /\ \A other \in some : Better(Device(r), Device(other), zone)

\* _record() raises for the next record but i - 1.
RecordRefused(records, i, fault) ==
    \/ Len(facility) + i > FacilityEvents
    \/ fault = "time"
    \/ fault = "reason" /\ records[i].reasoned

\* It takes n of these records, up to the first it refuses.
Recorded(records, n, fault) ==
    /\ \A i \in 1..n : ~RecordRefused(records, i, fault)
    /\ n < Len(records) => RecordRefused(records, n + 1, fault)
    /\ facility' = facility \o SubSeq(records, 1, n)
    /\ raised' = (raised \/ n < Len(records))

Record(kind, r, reasoned) == [kind |-> kind, resource |-> r, reasoned |-> reasoned]

HealthChanged(r, ok) == [kind |-> "health_changed", resource |-> r, reasoned |-> TRUE, healthy |-> ok]

Good(fallback) ==
    [healthy |-> TRUE, confidence |-> 10, age |-> 0, available |-> fallback,
     equivalent |-> FALSE, validated |-> FALSE, evidence |-> TRUE]

\* _record_dependency_assessment(): the action is part of the record.
Assessment(r, contract, observation) ==
    [kind |-> "dependency_assessed", resource |-> r, reasoned |-> FALSE,
     action |-> Action(contract, observation, "*")]

-----------------------------------------------------------------------------
\* observe_frame()
ObserveFrame(r, fault) ==
    /\ r \notin seenFrames
    /\ seenFrames' = seenFrames \cup {r}
    /\ \E n \in 0..1 : Recorded(<<Record("stream_ready", r, FALSE)>>, n, fault)
    /\ UNCHANGED <<healthy, lease>>

\* _fallback_available(), read after the health was changed.
FallbackAvailable(r, zone, health) ==
    \E other \in Resources \ {r} : Selects(other, Device(r).kind, zone, health)

\* set_health(): the lease of an unhealthy resource goes after its loss was assessed.
SetHealth(r, ok, fault) ==
    LET kind    == Device(r).kind
        changed == IF healthy[r] # ok THEN <<HealthChanged(r, ok)>> ELSE <<>>
        lost    == ~ok /\ lease[kind] # NoDevice /\ lease[kind].resource = r
        loss    == IF lost
                   THEN << Assessment(r, lease[kind].contract,
                              [Good(FallbackAvailable(r, lease[kind].zone, [healthy EXCEPT ![r] = ok]))
                                  EXCEPT !.healthy = FALSE, !.confidence = 0]),
                           Record("lease_released", r, FALSE) >>
                   ELSE <<>>
    IN  /\ healthy' = [healthy EXCEPT ![r] = ok]
        /\ \E n \in 0..Len(changed \o loss) :
              /\ Recorded(changed \o loss, n, fault)
              /\ lease' = IF lost /\ n > Len(changed) THEN [lease EXCEPT ![kind] = NoDevice] ELSE lease
        /\ UNCHANGED seenFrames

Required(r, requirement) == IF requirement = NoDevice THEN Device(r).contract ELSE requirement

Held(kind) == IF lease[kind] = NoDevice THEN NoDevice ELSE lease[kind].resource

\* What handoff() records when a lease goes from one device to another.
Released(old)       == <<Record("lease_released", old, FALSE)>>
Acquired(r, quality) == <<Record("router_selected", r, TRUE), Record("lease_acquired", r, FALSE), quality>>

\* Mutant: the lease of the other device is not released.
HandoffUnreleased(kind, zone, r, requirement, fault) ==
    LET bound   == [resource |-> r, zone |-> zone, contract |-> Required(r, requirement)]
        quality == Assessment(r, bound.contract, Good(TRUE))
        records == IF Held(kind) = r THEN <<Record("lease_retained", r, TRUE), quality>>
                   ELSE Acquired(r, quality)
    IN  /\ Selects(r, kind, zone, healthy)
        /\ \E n \in 0..Len(records) : Recorded(records, n, fault)
        /\ lease' = [lease EXCEPT ![kind] = bound]
        /\ UNCHANGED <<healthy, seenFrames>>

\* handoff(): without a candidate it raises and changes nothing.
Handoff(kind, zone, r, requirement, fault) ==
    LET bound   == [resource |-> r, zone |-> zone, contract |-> Required(r, requirement)]
        release == IF Held(kind) \in {NoDevice, r} THEN <<>> ELSE Released(Held(kind))
        quality == Assessment(r, bound.contract, Good(TRUE))
        records == IF Held(kind) = r THEN <<Record("lease_retained", r, TRUE), quality>>
                   ELSE release \o Acquired(r, quality)
    IN  /\ Selects(r, kind, zone, healthy)
        /\ \E n \in 0..Len(records) :
              /\ Recorded(records, n, fault)
              /\ lease' = IF n >= Len(release) THEN [lease EXCEPT ![kind] = bound] ELSE lease
        /\ UNCHANGED <<healthy, seenFrames>>

Faults == {"", "time", "reason"}

FacilityInit ==
    /\ healthy = [r \in Resources |-> TRUE]
    /\ lease = [k \in Kinds |-> NoDevice]
    /\ seenFrames = {} /\ facility = <<>> /\ raised = FALSE

\* What raises in a callback of the observer ends its process.
FacilityNext ==
    /\ ~raised
    /\ \E fault \in Faults :
        \/ \E r \in Resources : ObserveFrame(r, fault)
        \/ \E r \in Resources, ok \in BOOLEAN : SetHealth(r, ok, fault)
        \/ \E k \in Kinds, z \in DeviceZones, r \in Resources, q \in Requirements :
              Handoff(k, z, r, q, fault)

-----------------------------------------------------------------------------
About(record, kinds, r) == record.kind \in kinds /\ record.resource = r

\* What a reader of the evidence concludes: the last record of these kinds counts.
LastAbout(i, kinds, r) ==
    /\ About(facility[i], kinds, r)
    /\ \A j \in (i + 1)..Len(facility) : ~About(facility[j], kinds, r)

Leased(r) ==
    \E i \in DOMAIN facility :
        LastAbout(i, {"lease_acquired", "lease_released"}, r) /\ facility[i].kind = "lease_acquired"

ReportedHealth(r) ==
    \A i \in DOMAIN facility : LastAbout(i, {"health_changed"}, r) => facility[i].healthy

\* The evidence replays to the state as long as every record was taken: who holds
\* which lease and who is healthy, and no leased device is unhealthy or away from
\* the zone it is leased for (facility_resources.py:205, 253).
EvidenceTellsTheLeases ==
    ~raised =>
        /\ {r \in Resources : Leased(r)} = {lease[k].resource : k \in {j \in Kinds : lease[j] # NoDevice}}
        /\ \A r \in Resources : ReportedHealth(r) = healthy[r]
        /\ \A k \in Kinds : lease[k] # NoDevice =>
              healthy[lease[k].resource] /\ Covers(Device(lease[k].resource), lease[k].zone)
===============================================================================
