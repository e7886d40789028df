---------------------------- MODULE StressCampaign ----------------------------
(***************************************************************************)
(* The stress driver: run_nav2_stress.sh, and the reports it builds with   *)
(* ros2_stress_evidence.py through cli.py. It runs every scenario of every *)
(* round, each in a container of its own, verifies its evidence at once,   *)
(* proves that an expired grant is rejected, builds the round's report,    *)
(* and in the end the campaign's and the pressure's; the first step that   *)
(* fails ends it.                                                          *)
(* What a container leaves is external: as it should be, or with one       *)
(* oddity, at most MaxOdd of them in a campaign. Files of an earlier       *)
(* campaign may lie where the run id was used before.                      *)
(***************************************************************************)
EXTENDS Naturals, Sequences, SequencesExt, FiniteSets

CONSTANTS
    Rounds,     \* of a campaign: ROS2_STRESS_CAMPAIGN_PROFILES' required_rounds
    Soaks,      \* a round's runs of "success"
    LabFaults,  \* FAULT_EXPECTATIONS' keys, in order
    MaxOdd

ASSUME CampaignAssumption ==
    /\ Rounds \in Nat \ {0} /\ Soaks \in Nat \ {0} /\ MaxOdd \in Nat
    /\ LabFaults \in Seq(ToSet(LabFaults)) /\ "success" \notin ToSet(LabFaults)

VARIABLES
    kind,       \* "plain", "campaign", or the pressure's mode: "resource", "network"
    again,      \* the run id was used before; more scenarios than this time, if `extra`
    extra,
    round, todo,\* the round, and its scenarios to come
    results,    \* what each scenario left
    reported,   \* the rounds whose report passed
    altered,    \* one of them was changed since
    driverExit       \* the driver's exit: "none", "zero", "other"

campaignVars == <<kind, again, extra, round, todo, results, reported, altered,
                  driverExit>>

Pressed == kind \in {"resource", "network"}
Planned == IF kind = "plain" THEN 1 ELSE Rounds

CampaignInit ==
    /\ kind \in {"plain", "campaign", "resource", "network"} /\ again \in BOOLEAN
    /\ extra \in BOOLEAN /\ (extra => again)
    /\ round = 0 /\ todo = <<>> /\ results = <<>> /\ reported = 0 /\ altered = FALSE
    /\ driverExit = "none"

\* A round's scenarios; under a bad network the faults come first.
Scenarios ==
    LET soak == [k \in 1..Soaks |-> "success"]
    IN IF kind = "network" THEN LabFaults \o soak ELSE soak \o LabFaults

StartRound ==
    /\ driverExit = "none" /\ todo = <<>> /\ reported = round /\ round < Planned
    /\ round' = round + 1 /\ todo' = Scenarios
    /\ UNCHANGED <<kind, again, extra, results, reported, altered, driverExit>>

Impaired(scenario) == kind = "network" /\ scenario # "success"

\* A container as it should be; the fault of a lifecycle failure is a manager's death.
AsPlanned(scenario) ==
    [scenario |-> scenario, evidence |-> "mine", verified |-> TRUE, pressure |-> TRUE,
     exit |-> "zero", prompt |-> TRUE, limited |-> TRUE, oom |-> FALSE,
     impaired |-> Impaired(scenario), lifted |-> Impaired(scenario),
     died |-> IF scenario = "nav2_lifecycle_failure" THEN {"gazebo", "manager"} ELSE {"gazebo"}]

\* With one oddity: no evidence, or the earlier one's; evidence that does not pass; no
\* pressure file; an exit code; a stop slower than the profile allows; limits that did not
\* hold, an out-of-memory kill; the network still impaired at the end; another death.
Oddities(scenario) ==
    LET plan == AsPlanned(scenario)
    IN {[plan EXCEPT !.evidence = e] : e \in {"none"} \cup (IF again THEN {"left"} ELSE {})}
         \cup {[plan EXCEPT !.verified = FALSE], [plan EXCEPT !.pressure = FALSE],
               [plan EXCEPT !.exit = "other"], [plan EXCEPT !.limited = FALSE],
               [plan EXCEPT !.oom = TRUE]}
         \cup (IF scenario # "success" THEN {[plan EXCEPT !.prompt = FALSE]} ELSE {})
         \cup (IF Impaired(scenario) THEN {[plan EXCEPT !.lifted = FALSE]} ELSE {})
         \cup {[plan EXCEPT !.died = plan.died \cup {d}] : d \in {"manager", "other"} \ plan.died}

Odd(result) == result # AsPlanned(result.scenario)
OddCount == Cardinality({k \in DOMAIN results : Odd(results[k])})

\* A scenario counts if there is a pressure file, the exit is zero, and there is evidence,
\* which is verified; otherwise it is an incident.
Counts(result) ==
    result.pressure /\ result.exit = "zero" /\ result.evidence # "none" /\ result.verified

\* run_scenario()
RunScenario ==
    /\ driverExit = "none" /\ todo # <<>>
    /\ \E result \in {AsPlanned(Head(todo))}
                        \cup (IF OddCount < MaxOdd THEN Oddities(Head(todo)) ELSE {}) :
           /\ results' = Append(results, result)
           /\ driverExit' = IF Counts(result) THEN "none" ELSE "other"
    /\ todo' = Tail(todo) /\ UNCHANGED <<kind, again, extra, round, reported, altered>>

RoundOf(k) == (k - 1) \div (Soaks + Len(LabFaults)) + 1
Executions(scenarios) == {k \in DOMAIN results : results[k].scenario \in scenarios}

\* build_ros2_stress_report(): the successes are as many as asked, and each fault is there
\* once. (That each stop came within 750 ms is verified with the evidence.)
RoundPassed(rejected) ==
    LET mine == {k \in DOMAIN results : RoundOf(k) = round}
    IN /\ rejected
       /\ Cardinality(mine \cap Executions({"success"})) = Soaks
       /\ \A fault \in ToSet(LabFaults) : Cardinality(mine \cap Executions({fault})) = 1
       /\ Cardinality(mine) = Soaks + Len(LabFaults)

\* The probe: whether the expired grant is rejected; then the round's report, verified.
ReportRound ==
    /\ driverExit = "none" /\ round > reported /\ todo = <<>>
    /\ \E rejected \in BOOLEAN :
           IF RoundPassed(rejected) THEN reported' = reported + 1 /\ UNCHANGED driverExit
           ELSE driverExit' = "other" /\ UNCHANGED reported
    /\ UNCHANGED <<kind, again, extra, round, todo, results, altered>>

\* Someone changes a round's report.
ChangeReport ==
    /\ driverExit = "none" /\ reported > 0 /\ ~altered /\ altered' = TRUE
    /\ UNCHANGED <<kind, again, extra, round, todo, results, reported, driverExit>>

\* parse_ros2_stress_report(): one that no longer agrees with itself is refused.
ParsedReports == ~altered

\* The death of Gazebo is expected, and a manager's in the scenario that kills it.
Expected(death, scenario) ==
    death = "gazebo" \/ (death = "manager" /\ scenario = "nav2_lifecycle_failure")

UnexpectedDeaths == {k \in DOMAIN results :
    \E death \in results[k].died : ~Expected(death, results[k].scenario)}

\* build_ros2_stress_campaign(); it counts every log that lies in its rounds.
CampaignPassed ==
    /\ ParsedReports /\ reported = Rounds
    /\ Cardinality(Executions({"success"})) >= Rounds * Soaks
    /\ Cardinality(Executions(ToSet(LabFaults))) >= Rounds * Len(LabFaults)
    /\ ~extra
    /\ UnexpectedDeaths = {}
    /\ \A k \in DOMAIN results : results[k].prompt

\* build_ros2_pressure_report(), from every pressure file.
PressurePassed ==
    LET faults == Executions(ToSet(LabFaults))
    IN /\ ~extra
       /\ \A k \in DOMAIN results :
             /\ results[k].exit = "zero" /\ results[k].evidence # "none"
             /\ results[k].limited /\ ~results[k].oom
       /\ UnexpectedDeaths = {}
       /\ \A k \in Executions({"success"}) : ~results[k].impaired
       /\ kind = "network" => \A k \in faults : results[k].impaired /\ results[k].lifted

\* After the rounds: a plain run is done; a campaign's report must pass, and its pressure's.
Conclude ==
    /\ driverExit = "none" /\ round = Planned /\ reported = Planned
    /\ driverExit' = IF (kind = "plain" \/ CampaignPassed) /\ (Pressed => PressurePassed)
                     THEN "zero" ELSE "other"
    /\ UNCHANGED <<kind, again, extra, round, todo, results, reported, altered>>

CampaignNext == StartRound \/ RunScenario \/ ReportRound \/ ChangeReport \/ Conclude

-----------------------------------------------------------------------------
(* The driver exits with zero only if every scenario of every round ran and  *)
(* left evidence that passed, its own unless the run id was used before;     *)
(* after a campaign, also only if no round's report was changed, no process  *)
(* died that was not to, a manager only where it was killed, and no stop was *)
(* slower than the profile allows; under pressure, also only if the limits   *)
(* held, nothing ran out of memory, and the network was bad in the fault     *)
(* scenarios only, and mended.                                               *)
CampaignIsEarned ==
    driverExit = "zero" =>
        /\ Len(results) = Planned * Len(Scenarios)
        /\ \A r \in 1..Planned, k \in 1..Len(Scenarios) :
              results[(r - 1) * Len(Scenarios) + k].scenario = Scenarios[k]
        /\ kind # "plain" => ~altered
        /\ \A k \in DOMAIN results :
              /\ results[k].evidence = "mine" \/ (again /\ results[k].evidence = "left")
              /\ results[k].verified
              /\ kind # "plain" =>
                    /\ results[k].died \subseteq AsPlanned(results[k].scenario).died
                    /\ results[k].prompt
              /\ Pressed =>
                    /\ results[k].limited /\ ~results[k].oom
                    /\ results[k].impaired = Impaired(results[k].scenario)
                    /\ results[k].impaired => results[k].lifted
===============================================================================
