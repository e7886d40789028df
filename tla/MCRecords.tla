------------------------------- MODULE MCRecords -------------------------------
(* Six keepers of records, each with the program around it: the leases of a   *)
(* building's devices, the gates of a handoff, the limits of a site, the      *)
(* journal of a device, the tasks of a fleet, and the grants of motions.      *)
(* They share nothing, so a behaviour is one of them, chosen at the start,    *)
(* while the others stay where they began.                                    *)
EXTENDS FacilityResources, GuardedHandoff, SiteLimits, EventJournal, FleetDispatch,
        ExecutionAuthority

CONSTANTS f1, f2

VARIABLE scene

vars == <<facilityVars, handoffVars, limitVars, journalVars, fleetVars, authorityVars, scene>>

Init ==
    /\ scene \in {"leases", "handoff", "limits", "journal", "fleet", "authority"}
    /\ FacilityInit /\ LimitsInit /\ JournalInit /\ FleetInit /\ AuthorityInit
    /\ HandoffInit /\ (driver.guarded \/ scene = "handoff")
    /\ scene # "fleet" => /\ request = CHOOSE asked \in Asked : TRUE
                          /\ accepts = {"patrol"}
    /\ scene # "authority" => /\ up = Parts
                              /\ manifest = CHOOSE m \in Manifest : ManifestAccepted(m)

Next ==
    /\ UNCHANGED scene
    /\ \/ /\ scene = "leases" /\ FacilityNext
          /\ UNCHANGED <<handoffVars, limitVars, journalVars, fleetVars, authorityVars>>
       \/ /\ scene = "handoff" /\ HandoffNext
          /\ UNCHANGED <<facilityVars, limitVars, journalVars, fleetVars, authorityVars>>
       \/ /\ scene = "limits" /\ LimitsNext
          /\ UNCHANGED <<facilityVars, handoffVars, journalVars, fleetVars, authorityVars>>
       \/ /\ scene = "journal" /\ JournalNext
          /\ UNCHANGED <<facilityVars, handoffVars, limitVars, fleetVars, authorityVars>>
       \/ /\ scene = "fleet" /\ FleetNext
          /\ UNCHANGED <<facilityVars, handoffVars, limitVars, journalVars, authorityVars>>
       \/ /\ scene = "authority" /\ AuthorityNext
          /\ UNCHANGED <<facilityVars, handoffVars, limitVars, journalVars, fleetVars>>

Spec == Init /\ [][Next]_vars

-----------------------------------------------------------------------------
Contract(safety, work) ==
    [safety |-> safety, task |-> work, substitution |-> "any_healthy", phases |-> {"*"},
     evidence |-> "none", confidence |-> 5, maxAge |-> 2]
Device0(id, kind, zone, priority, fallback) ==
    [id |-> id, kind |-> kind, zone |-> zone, priority |-> priority, fallback |-> fallback,
     contract |-> Contract("stop", "none")]
MCCatalog == <<Device0(1, "camera", "blue", 1, {}), Device0(2, "camera", "yellow", 1, {"*"})>>
MCRequirements == {NoDevice, Contract("none", "degrade")}

MCDirection == [speed |-> "at_most", lateral |-> "at_least"]
MCProfiles  == {<<>>, [speed |-> 2], [speed |-> 1, lateral |-> 2], [lateral |-> 3]}
MCJobs      == {[speed |-> 3, lateral |-> 1], [speed |-> 1, lateral |-> Unset], [speed |-> 2, lateral |-> 3]}

\* The callers of the fleet are alike.
MCSymmetry == Permutations(Caller)

\* One call travels; the other carries a load, or is not a fleet's to do.
MCAsked ==
    {f1 :> [capability |-> "navigate_to_waypoint", place |-> TRUE]
         @@ f2 :> [capability |-> c, place |-> TRUE] : c \in {"load", "halt"}}
        \cup {[call \in {f1, f2} |-> [capability |-> "load", place |-> call = f1]]}

\* Deployments the parser accepts and ones it refuses.
MCCapabilities ==
    [navigate |-> [motion |-> TRUE, observations |-> {"range"}],
     inspect  |-> [motion |-> FALSE, observations |-> {}]]
Nav ==
    [id |-> "nav", order |-> 1, capabilities |-> {"navigate"}, kind |-> "action", approved |-> TRUE,
     raw |-> FALSE, observations |-> {"range"}, nodes |-> {"planner"}, feedback |-> TRUE,
     cancelOnTimeout |-> TRUE]
Inspect ==
    [Nav EXCEPT !.id = "inspect", !.order = 2, !.capabilities = {"inspect"}, !.kind = "service"]
Deployed(adapters) ==
    [failClosed |-> TRUE, directActuation |-> FALSE, stopRequired |-> TRUE, adapters |-> adapters]
MCManifest ==
    {Deployed({Nav}), Deployed({Nav, Inspect}), Deployed({[Nav EXCEPT !.kind = "service"]}),
     Deployed({Nav, [Inspect EXCEPT !.capabilities = {"navigate"}, !.kind = "action"]}),
     Deployed({[Nav EXCEPT !.observations = {}]})}
Step ==
    [capability |-> "navigate", adapter |-> "nav", endpoint |-> 1, space |-> "lab",
     leaseOnly |-> FALSE, confirm |-> FALSE]
PlanOf(steps) == [executable |-> TRUE, missing |-> {}, space |-> "lab", steps |-> steps]
MCPlan ==
    {PlanOf({[Step EXCEPT !.confirm = TRUE]}), PlanOf({Step, [Step EXCEPT !.endpoint = 2]}),
     PlanOf({[Step EXCEPT !.leaseOnly = TRUE]})}
===============================================================================
