------------------------------ MODULE ScenarioRun ------------------------------
(***************************************************************************)
(* One scenario of the closed-loop laboratory in a container of its own,   *)
(* as _nav_run() drives it (run_ros2_resilience_series.py), with the       *)
(* observer it starts in it (ros2_execution_observer.py).                  *)
(* The host waits for marks the container leaves, may impair its network   *)
(* once the robot moves, waits for the stop, lifts the impairment, waits   *)
(* for the exit and judges the evidence file. Every wait has a deadline,   *)
(* which passes at any time; a docker command may time out or fail. The    *)
(* container and the laboratory in it are external: what the laboratory    *)
(* may write is NavigationExecution, how it ends is ClosedLoopLab. Its     *)
(* launch exits with zero also when the laboratory failed.                 *)
(* A time is a place in the order of what happened.                        *)
(***************************************************************************)
EXTENDS Naturals, Sequences, SequencesExt

CONSTANT NoFile

VARIABLES
    task,    \* the run _nav_run() was called for: its scenario, with network or not
    host,       \* where _nav_run() is; "raised": it raised
    seen,     \* the marks it took down
    box,      \* the container: "none", "created", "up", "done"
    happened, \* what happened in it, in order; its log
    prompt,   \* the stop came within the limit of what it answers
    disk,     \* the evidence and the pressure file of the run's id
    exit      \* the exit code: zero or not

runVars == <<task, host, seen, box, happened, prompt, disk, exit>>

NoDisk == [evidence |-> NoFile, pressure |-> NoFile]

RunInit ==
    /\ task = NoFile /\ host = "idle" /\ seen = {} /\ box = "none" /\ happened = <<>>
    /\ prompt = FALSE /\ disk = NoDisk /\ exit = "zero"

Happened(mark) == mark \in ToSet(happened)
Place(mark, log) == CHOOSE k \in DOMAIN log : log[k] = mark

(***************************************************************************)
(* The host                                                                *)
(***************************************************************************)

\* The marks are unlinked first; the evidence of an earlier run under the same id stays.
Call(run, left) ==
    /\ task = NoFile /\ task' = run /\ host' = "create" /\ disk' = left
    /\ seen' = {} /\ box' = "none" /\ happened' = <<>> /\ prompt' = FALSE
    /\ exit' = "zero"

HostGoes(to) == host' = to /\ UNCHANGED <<task, prompt, disk, exit>>

Create == host = "create" /\ HostGoes("start") /\ box' = "created" /\ UNCHANGED <<seen, happened>>

Start ==
    /\ host = "start" /\ box' = "up" /\ HostGoes(IF task.network THEN "observe" ELSE "exit")
    /\ UNCHANGED <<seen, happened>>

\* _start_execution_observer()
StartObserver == host = "observe" /\ HostGoes("active") /\ UNCHANGED <<seen, box, happened>>

\* _wait_host_file(): the mark, or the container gone, or the deadline.
Await ==
    /\ host \in {"active", "moved"} /\ UNCHANGED <<box, happened>>
    /\ \/ /\ Happened(host) /\ seen' = seen \cup {host}
          /\ HostGoes(IF host = "active" THEN "moved" ELSE "inject")
       \/ HostGoes("exit") /\ UNCHANGED seen

\* The impairment is set, shown and stamped by one command; only if all of it was done
\* is it taken down.
Impair ==
    /\ host = "inject" /\ UNCHANGED box
    /\ \/ box = "up" /\ happened' = Append(happened, "injected")
          /\ \/ seen' = seen \cup {"injected"} /\ HostGoes("hold")
             \/ UNCHANGED seen /\ HostGoes("exit")
       \/ HostGoes("exit") /\ UNCHANGED <<seen, happened>>

\* _wait_log() for the fault and the stop, which may not come; then the impairment is
\* lifted, if the container still runs.
Lift ==
    /\ host = "hold" /\ HostGoes("exit") /\ UNCHANGED box
    /\ \/ box = "up" /\ happened' = Append(happened, "removed") /\ seen' = seen \cup {"removed"}
       \/ UNCHANGED <<seen, happened>>

\* docker wait; then the container is removed.
Waited ==
    /\ host = "exit" /\ box = "done" /\ host' = "read" /\ box' = "none"
    /\ UNCHANGED <<task, seen, happened, prompt, disk, exit>>

\* A docker command that times out ends the run, and the container with it.
Overrun ==
    /\ host \in {"start", "observe", "active", "moved", "inject", "hold", "exit"}
    /\ host' = "read" /\ box' = "none" /\ exit' = "other"
    /\ UNCHANGED <<task, seen, happened, prompt, disk>>

\* A docker command that fails, or one of the last that takes too long, ends the program,
\* the container removed.
Break ==
    /\ host \in {"create", "start", "observe", "exit"} /\ host' = "raised" /\ box' = "none"
    /\ UNCHANGED <<task, seen, happened, prompt, disk, exit>>

\* The stop and the fault are read from the log, and only if the network was impaired.
Noticed ==
    seen \cup (IF "injected" \in seen THEN {"stopped"} \cap ToSet(happened) ELSE {})
         \cup (IF "injected" \in seen /\ task.scenario = "lidar_dropout"
               THEN {"fault"} \cap ToSet(happened) ELSE {})

\* _evidence_passes_scenario(): the terminal status, and the stop if one is expected.
AsExpected(evidence, scenario) ==
    /\ evidence # NoFile
    /\ CASE scenario = "success"       -> evidence.status = "succeeded"
         [] scenario = "lidar_dropout" ->
                evidence.status = "safety_stopped" /\ evidence.reason = "lidar_stale"

RunPassed ==
    IF task.scenario = "success" /\ task.network
    THEN /\ disk.evidence # NoFile /\ disk.evidence.status = "safety_stopped"
         /\ {"active", "moved", "injected", "stopped", "removed"} \subseteq Noticed
    ELSE AsExpected(disk.evidence, task.scenario)

\* The stop's latency, from the impairment; one that came before it took no time.
PromptAfter(mark) ==
    {mark, "stopped"} \subseteq ToSet(happened)
        /\ (prompt \/ Place("stopped", happened) < Place(mark, happened))

NavRun ==
    [task |-> task, passed |-> RunPassed, seen |-> Noticed,
     happened |-> IF task.network THEN happened ELSE <<>>,
     exit |-> exit, evidence |-> disk.evidence,
     oom |-> disk.pressure # NoFile /\ disk.pressure.oom,
     prompt |-> "stopped" \in Noticed /\ PromptAfter("injected")]

\* _nav_run() returns NavRun.
HandRun ==
    /\ host = "read" /\ host' = "idle" /\ task' = NoFile /\ disk' = NoDisk
    /\ seen' = {} /\ happened' = <<>> /\ prompt' = FALSE /\ exit' = "zero"
    /\ UNCHANGED box

(***************************************************************************)
(* The container                                                           *)
(***************************************************************************)

Written == Happened("attested")

\* The goal becomes active, the robot moves (which only the observer tells), a fault is
\* injected, the stop latches.
Occur(mark) ==
    /\ box = "up" /\ ~Written /\ ~Happened(mark) /\ happened' = Append(happened, mark)
    /\ CASE mark = "active" -> TRUE
         [] mark = "moved"  -> task.network /\ Happened("active") /\ ~Happened("stopped")
         [] mark = "fault"  -> Happened("active") /\ task.scenario = "lidar_dropout"
         [] OTHER           -> Happened("active")
    /\ IF mark = "stopped" THEN prompt' \in BOOLEAN ELSE UNCHANGED prompt
    /\ UNCHANGED <<task, host, seen, box, disk, exit>>

\* The laboratory writes its evidence, if there is one that parses.
Attest ==
    /\ box = "up" /\ ~Written /\ Happened("active")
    /\ task.scenario = "lidar_dropout" => Happened("fault") /\ Happened("stopped")
    /\ \E status \in {"succeeded", "failed", "safety_stopped"},
          reason \in {NoFile, "lidar_stale", "command_stale"}, steady \in BOOLEAN :
          /\ (status = "safety_stopped") = Happened("stopped")
          /\ (reason # NoFile) = Happened("stopped")
          /\ status # "safety_stopped" => steady
          /\ disk' = [disk EXCEPT !.evidence =
                 [status |-> status, reason |-> reason, steady |-> steady, mine |-> TRUE,
                  prompt |-> Happened("fault") /\ PromptAfter("fault")]]
    /\ happened' = Append(happened, "attested")
    /\ UNCHANGED <<task, host, seen, box, prompt, exit>>

\* The launch ends, or is ended after 210 s; its trap writes the pressure file, unless
\* the container was killed.
Exit ==
    /\ box = "up" /\ box' = "done"
    /\ \/ /\ exit' = "zero"
          /\ \E oom \in BOOLEAN :
                disk' = [disk EXCEPT !.pressure = [oom |-> oom, exit |-> "zero", mine |-> TRUE]]
       \/ /\ exit' = "other"
          /\ disk' = [disk EXCEPT !.pressure = [oom |-> FALSE, exit |-> "other", mine |-> TRUE]]
       \/ exit' = "other" /\ UNCHANGED disk
    /\ UNCHANGED <<task, host, seen, happened, prompt>>

HostStep ==
    \/ Create \/ Start \/ StartObserver \/ Await \/ Impair \/ Lift \/ Waited
    \/ Overrun \/ Break
BoxStep  == (\E mark \in {"active", "moved", "fault", "stopped"} : Occur(mark)) \/ Attest \/ Exit
RunStep  == HostStep \/ BoxStep
===============================================================================
