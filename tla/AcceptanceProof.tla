---------------------------- MODULE AcceptanceProof ----------------------------
(***************************************************************************)
(* The acceptance controls: run_ros2_shutdown_soak.py and                  *)
(* run_ros2_fault_proof.py, which run their scenarios (ScenarioRun) into a *)
(* new or empty directory, and the report ros2_acceptance.py builds from   *)
(* what lies there and accepts only if it can build it again.              *)
(* A runner may be killed. Its container goes on without it and may write  *)
(* into the directory later, when another runner has taken it for empty.   *)
(* Once a report is there, a file, the directory's set of files or the     *)
(* repository's sources may change.                                        *)
(***************************************************************************)
EXTENDS ScenarioRun

CONSTANTS
    Proofs,     \* the profiles to run
    ProofRuns,  \* ROS2_ACCEPTANCE_PROFILES' expected_runs
    MaxKills

ASSUME AcceptanceAssumption ==
    /\ Proofs \subseteq {"shutdown-smoke", "lidar-fault-proof"}
    /\ ProofRuns \in [Proofs -> Nat \ {0}] /\ MaxKills \in Nat

VARIABLES
    proof,      \* the profile
    runner,     \* "down", "running", "verifying", "ended", "raised"
    files,      \* the directory: what each run left in it so far
    stray,      \* there is a file of a run that is not expected
    source,     \* the sources' version
    proofReport,     \* the report's file
    orphan,     \* what a killed runner's container may still write: NoFile, "evidence", "pressure"
    kills

acceptanceVars == <<proof, runner, files, stray, source, proofReport, orphan, kills>>

Nowhere == [evidence |-> NoFile, pressure |-> NoFile, log |-> NoFile]

AcceptanceInit ==
    /\ proof \in Proofs /\ runner = "down" /\ files = [k \in 1..ProofRuns[proof] |-> Nowhere]
    /\ stray = FALSE /\ source = 0 /\ proofReport = NoFile /\ orphan = NoFile /\ kills = 0

ProofScenario == IF proof = "lidar-fault-proof" THEN "lidar_dropout" ELSE "success"
LastRun == ProofRuns[proof]
Present == {k \in 1..LastRun : files[k] # Nowhere}

\* _run_checks(): what a run's evidence and its pressure file must tell.
EvidenceWanted(evidence) ==
    /\ evidence.steady
    /\ IF proof = "lidar-fault-proof"
       THEN evidence.status = "safety_stopped" /\ evidence.reason = "lidar_stale" /\ evidence.prompt
       ELSE evidence.status = "succeeded" /\ evidence.reason = NoFile

PressureWanted(pressure) == ~pressure.oom /\ pressure.exit = "zero"

\* Of a file, only whether it tells what is wanted is kept, and whose it is.
Files(found) ==
    [evidence |-> IF found.evidence = NoFile THEN NoFile
                  ELSE [wanted |-> EvidenceWanted(found.evidence), mine |-> found.evidence.mine],
     pressure |-> IF found.pressure = NoFile THEN NoFile
                  ELSE [wanted |-> PressureWanted(found.pressure), mine |-> found.pressure.mine],
     log      |-> NoFile]

\* classify_process_deaths(), _lifecycle_shutdowns(): no process died but Gazebo's, which
\* is ended, and both managers were shut down.
LogWanted(died, shutdown) == died \subseteq {"gazebo"} /\ shutdown

\* All three artifacts are there and tell what is wanted.
RunAccepted(run) == NoFile \notin {run.evidence, run.pressure, run.log}
                    /\ run.evidence.wanted /\ run.pressure.wanted /\ run.log.wanted

\* The verdict that follows from a report's summaries.
RunsAccepted(found, more) == ~more /\ \A k \in 1..LastRun : RunAccepted(found[k])

\* build_ros2_acceptance_report(): rebuilt from what is there.
Rebuilt ==
    [files |-> files, stray |-> stray, source |-> source, passed |-> RunsAccepted(files, stray)]

\* parse_ros2_acceptance_report(): the verdict is the one that follows.
Consistent(report) == report.passed = RunsAccepted(report.files, report.stray)

(***************************************************************************)
(* The runner                                                              *)
(***************************************************************************)

\* It starts; a directory with anything in it is refused.
StartRunner ==
    /\ runner = "down" /\ host = "idle"
    /\ runner' = IF Present = {} /\ ~stray /\ proofReport = NoFile THEN "running" ELSE "raised"
    /\ UNCHANGED <<proof, files, stray, source, proofReport, orphan, kills, runVars>>

\* write_report_atomic()
WriteReport == proofReport' = Rebuilt'

\* The run to do is the first that was not returned from.
CurrentRun ==
    CHOOSE k \in 1..LastRun :
        files[k].log = NoFile /\ \A j \in 1..(k - 1) : files[j].log # NoFile

StartRun ==
    /\ runner = "running" /\ host = "idle" /\ task = NoFile
    /\ \E k \in 1..LastRun : files[k].log = NoFile
    /\ Call([scenario |-> ProofScenario, network |-> FALSE], NoDisk)
    /\ UNCHANGED acceptanceVars

\* _nav_run() returns, the log written. The report is built and put in the place of the
\* last one: after each run of a soak, and after the only one of a fault proof.
AcceptRun ==
    /\ runner = "running" /\ HandRun
    /\ \E died \in SUBSET {"gazebo", "other"}, shutdown \in BOOLEAN :
           files' = [files EXCEPT ![CurrentRun] =
               [Files(disk) EXCEPT !.log =
                   [wanted |-> LogWanted(died, shutdown), edited |-> FALSE]]]
    /\ UNCHANGED <<proof, stray, source, orphan, kills>>
    /\ WriteReport
    /\ runner' = IF CurrentRun = LastRun THEN "verifying" ELSE "running"

RunnerRaises ==
    /\ runner = "running" /\ host = "raised" /\ runner' = "raised"
    /\ UNCHANGED <<proof, files, stray, source, proofReport, orphan, kills, runVars>>

\* verify_ros2_acceptance_report(): the report is there and is what can be rebuilt.
Verified == proofReport # NoFile /\ Consistent(proofReport) /\ Rebuilt = proofReport

VerifyReport ==
    /\ runner = "verifying" /\ runner' = IF Verified THEN "ended" ELSE "raised"
    /\ UNCHANGED <<proof, files, stray, source, proofReport, orphan, kills, runVars>>

\* It is killed in its first run; what the container wrote by then stays.
KillRunner ==
    /\ runner = "running" /\ task # NoFile /\ host # "raised" /\ CurrentRun = 1 /\ kills < MaxKills
    /\ kills' = kills + 1 /\ runner' = "down" /\ orphan' = IF box = "up" THEN "evidence" ELSE NoFile
    /\ files' = [files EXCEPT ![1] = Files(disk)]
    /\ task' = NoFile /\ host' = "idle" /\ seen' = {} /\ box' = "none" /\ happened' = <<>>
    /\ prompt' = FALSE /\ disk' = NoDisk /\ exit' = "zero"
    /\ UNCHANGED <<proof, stray, source, proofReport>>

(***************************************************************************)
(* What others do                                                          *)
(***************************************************************************)

\* The first run's paths are the killed runner's too. (Before the run is called it is as if
\* it wrote right after.) Its run passed; one that failed only fails the report.
OrphanWrites ==
    /\ orphan # NoFile /\ (runner = "running" /\ task = NoFile => CurrentRun # 1)
    /\ LET fault == proof = "lidar-fault-proof"
           seal  == [status |-> IF fault THEN "safety_stopped" ELSE "succeeded",
                     reason |-> IF fault THEN "lidar_stale" ELSE NoFile,
                     steady |-> TRUE, prompt |-> fault, mine |-> FALSE]
           trap  == [oom |-> FALSE, exit |-> "zero", mine |-> FALSE]
           Into(old, new) ==
               IF orphan = "evidence" THEN [old EXCEPT !.evidence = new.evidence]
               ELSE [old EXCEPT !.pressure = new.pressure]
           found == [evidence |-> seal, pressure |-> trap]
       IN IF task # NoFile /\ CurrentRun = 1
          THEN disk' = Into(disk, found) /\ UNCHANGED files
          ELSE files' = [files EXCEPT ![1] = Into(files[1], Files(found))] /\ UNCHANGED disk
    /\ orphan' = IF orphan = "evidence" THEN "pressure" ELSE NoFile
    /\ UNCHANGED <<proof, runner, stray, source, proofReport, kills, task, host, seen, box,
                   happened, prompt, exit>>

\* Someone replaces a log by one that tells nothing bad, adds a file, changes the sources,
\* or turns the report's verdict round.
Alter ==
    /\ runner \in {"verifying", "ended"} /\ ~stray /\ source = 0
    /\ \A k \in 1..LastRun : ~files[k].log.edited
    /\ \/ stray' = TRUE /\ UNCHANGED <<files, source>>
       \/ source' = 1 /\ UNCHANGED <<files, stray>>
       \/ /\ \E k \in 1..LastRun :
                files' = [files EXCEPT ![k].log = [wanted |-> TRUE, edited |-> TRUE]]
          /\ UNCHANGED <<stray, source>>
       \/ UNCHANGED <<files, stray, source>>
    /\ proofReport' \in {proofReport, [proofReport EXCEPT !.passed = ~proofReport.passed]}
    /\ UNCHANGED <<proof, runner, orphan, kills, runVars>>

AcceptanceNext ==
    \/ StartRunner \/ StartRun \/ AcceptRun \/ RunnerRaises \/ VerifyReport \/ KillRunner
    \/ OrphanWrites \/ Alter
    \/ RunStep /\ UNCHANGED acceptanceVars

-----------------------------------------------------------------------------
(* main() of ros2_acceptance.py, at any time, by anyone. *)
Accepts == Verified /\ proofReport.passed

(* A report is accepted only for a complete set of runs, each of which ended *)
(* as its profile wants in a container of this runner, with every manager    *)
(* shut down, none of its files changed since; unless a runner was killed,   *)
(* whose container may have written one of them.                             *)
AcceptanceIsEarned ==
    Accepts =>
        /\ ~stray /\ source = 0
        /\ \A k \in 1..LastRun :
              /\ files[k].log = [wanted |-> TRUE, edited |-> FALSE]
              /\ kills = 0 => files[k].evidence.mine /\ files[k].pressure.mine
===============================================================================
