------------------------------ MODULE MCExecution ------------------------------
(* The processes of a navigation, one at a time: the executor in each of its  *)
(* scenarios, the safety supervisor whose topics it follows, at one tick of   *)
(* the clock per sensor window, and the laboratory around an execution; and   *)
(* the programs that run the laboratory in containers and judge what it left: *)
(* the resilience series, an acceptance control, and the stress campaign.     *)
(* Each has the others for environment.                                       *)
EXTENDS NavigationExecution, SafetySupervisor, ClosedLoopLab, ResilienceSeries,
        AcceptanceProof, StressCampaign

VARIABLE scene

In(s, step) == scene = s /\ step

labScenes  == <<executionVars, safetyVars, labVars>>
proofVars  == <<runVars, seriesVars, acceptanceVars, campaignVars>>

Init ==
    /\ scene \in {"executor", "supervisor", "lab", "series", "acceptance", "campaign"}
    /\ ExecutionInit /\ (scene # "executor" => scenario = "success")
    /\ SafetyInit
    /\ LabInit
    /\ scene # "lab" => ~preparing /\ stopUp /\ node = [n \in NavNode |-> "unconfigured"]
    /\ RunInit
    /\ SeriesInit /\ (scene # "series" => ~reused)
    /\ AcceptanceInit /\ (scene # "acceptance" => proof = "shutdown-smoke")
    /\ CampaignInit /\ (scene # "campaign" => kind = "plain" /\ ~again)

Next ==
    /\ UNCHANGED scene
    /\ \/ scene = "executor" /\ ExecutionNext /\ UNCHANGED <<safetyVars, labVars, proofVars>>
       \/ scene = "supervisor" /\ SafetyNext /\ UNCHANGED <<executionVars, labVars, proofVars>>
       \/ scene = "lab" /\ LabNext /\ UNCHANGED <<executionVars, safetyVars, proofVars>>
       \/ /\ scene = "series" /\ SeriesNext
          /\ UNCHANGED <<labScenes, acceptanceVars, campaignVars>>
       \/ /\ scene = "acceptance" /\ AcceptanceNext
          /\ UNCHANGED <<labScenes, seriesVars, campaignVars>>
       \/ /\ scene = "campaign" /\ CampaignNext
          /\ UNCHANGED <<labScenes, runVars, seriesVars, acceptanceVars>>

\* The executor's thread runs, a spin returns, and time passes.
ExecutionFairness ==
    /\ WF_executionVars(In("executor", Execute /\ UNCHANGED <<scenario, injected>>))
    /\ WF_executionVars(In("executor", Quiet /\ UNCHANGED <<scenario, injected>>))
    /\ WF_executionVars(In("executor", Pass /\ UNCHANGED <<scenario, injected>>))

\* The watchdog thread polls for ever, and a callback that began ends.
SafetyFairness ==
    /\ WF_safetyVars(In("supervisor", WatchdogStep))
    /\ WF_safetyVars(In("supervisor", RosContinues))

Spec ==
    /\ Init /\ [][Next]_<<executionVars, safetyVars, labVars, proofVars, scene>>
    /\ ExecutionFairness /\ SafetyFairness

(* What the programs conclude from the evidence is what the containers did,  *)
(* and the laboratory in them accounts for the stack it started.             *)
VerdictsAreEarned ==
    LabIsAccountable /\ SeriesIsEarned /\ AcceptanceIsEarned /\ CampaignIsEarned
-----------------------------------------------------------------------------
MCExpects == [f \in Fault |-> "lidar"]
MCNodes   == <<"controller", "navigator">>
MCAsked   ==
    {<<"runtime-network-r2", "resource-cliff-r2", "compound-chaos-c1", "gazebo-endurance-l4",
       "cold-repro-b3">>}
MCProofRuns  == [p \in Proofs |-> IF p = "lidar-fault-proof" THEN 1 ELSE 2]
MCLabFaults  == <<"lidar_dropout", "nav2_lifecycle_failure">>
================================================================================
