--------------------------- MODULE ResilienceSeries ---------------------------
(***************************************************************************)
(* The resilience tests: main() of run_ros2_resilience_series.py and the   *)
(* reports it seals (ros2_stress_evidence.py, build_ros2_resilience_       *)
(* report.py).                                                             *)
(* A test is a list of scenario runs (ScenarioRun), or, for the endurance  *)
(* test, a campaign of the stress driver (StressCampaign). Its report is   *)
(* recomputed from the manifest it is sealed with. An endurance run and    *)
(* the driver's files are external, chosen as the driver may leave them.   *)
(* Under a run id that was used before, files of the earlier runs, which   *)
(* passed, may still lie there.                                            *)
(***************************************************************************)
EXTENDS ScenarioRun

CONSTANTS
    Asked,      \* the tests to run: ROS2_RESILIENCE_PROFILES in order, or one of them
    Cells,      \* the runs of the resource matrix, its cells times their repetitions
    ColdRuns    \* the runs of the cold test

TestNames ==
    {"runtime-network-r2", "resource-cliff-r2", "compound-chaos-c1", "gazebo-endurance-l4",
     "cold-repro-b3"}

ASSUME SeriesAssumption ==
    /\ Asked \subseteq Seq(TestNames) /\ Cells \in Nat \ {0} /\ ColdRuns \in Nat \ {0}
    /\ NoFile \notin BOOLEAN

VARIABLES
    tests,      \* the tests to come, the present one first
    reused,     \* the run id was used before
    runs,       \* the present test's runs, summarised; inOrder is what really happened
    driver,     \* the stress driver's end, for the endurance test
    sealed,    \* of the report sealed last: NoFile, TRUE, FALSE
    failing,    \* a report of the series has failed
    exitCode        \* "none", "zero", "one"

seriesVars == <<tests, reused, runs, driver, sealed, failing, exitCode>>

SeriesInit ==
    /\ tests \in Asked /\ reused \in BOOLEAN
    /\ runs = <<>> /\ driver = NoFile /\ sealed = NoFile /\ failing = FALSE /\ exitCode = "none"

Test == Head(tests)

Run(scenario, network) == [scenario |-> scenario, network |-> network]

\* Under a bad network, with a fault or without, and once more without; each cell of the
\* matrix, repeatedly; and from a new container each time.
NetworkRuns(scenario) == <<Run(scenario, TRUE), Run("success", FALSE)>>
MatrixRuns == [k \in 1..Cells |-> Run("success", FALSE)]
FreshRuns  == [k \in 1..ColdRuns |-> Run("success", FALSE)]

\* The runs a test is made of.
Runs(test) ==
    CASE test = "runtime-network-r2"  -> NetworkRuns("success")
      [] test = "compound-chaos-c1"   -> NetworkRuns("lidar_dropout")
      [] test = "resource-cliff-r2"   -> MatrixRuns
      [] test = "cold-repro-b3"       -> FreshRuns
      [] test = "gazebo-endurance-l4" -> <<>>

\* What an earlier run under the same id left: it passed.
LeftBy(run) ==
    [evidence |-> [status |-> IF run.network THEN "safety_stopped" ELSE "succeeded",
                   reason |-> IF run.network THEN "lidar_stale" ELSE NoFile,
                   steady |-> TRUE, mine |-> FALSE, prompt |-> run.scenario = "lidar_dropout"],
     pressure |-> [oom |-> FALSE, exit |-> "zero", mine |-> FALSE]]

Ready == tests # <<>> /\ exitCode = "none" /\ sealed = NoFile /\ host = "idle" /\ task = NoFile

NextRun ==
    /\ Ready /\ Len(runs) < Len(Runs(Test))
    /\ LET run == Runs(Test)[Len(runs) + 1]
       IN \E left \in {NoDisk} \cup (IF reused THEN {LeftBy(run)} ELSE {}) : Call(run, left)
    /\ UNCHANGED seriesVars

\* A run that raises ends the program.
RunRaises == host = "raised" /\ exitCode = "none" /\ exitCode' = "one"
             /\ UNCHANGED <<tests, reused, runs, driver, sealed, failing, runVars>>

(***************************************************************************)
(* The reports                                                             *)
(***************************************************************************)

\* The events of a test with network, in the order they are to have.
Wanted(test) ==
    IF test = "compound-chaos-c1"
    THEN <<"active", "moved", "injected", "fault", "stopped", "removed">>
    ELSE <<"active", "moved", "injected", "stopped", "removed">>

Rising(marks, log) ==
    \A j, k \in DOMAIN marks : j < k => Place(marks[j], log) < Place(marks[k], log)

RequiredEventsObserved(test, run) == ToSet(Wanted(test)) \subseteq run.seen

\* The mutant asks only that the impairment was lifted after it was set.
TimelineMonotonicEnds(test, run) ==
    {"injected", "removed"} \subseteq run.seen => Rising(<<"injected", "removed">>, run.happened)

\* Of the events that were noticed, each is no later than the next.
TimelineMonotonic(test, run) ==
    LET order == Wanted(test)
    IN \A j, k \in DOMAIN order :
           j < k /\ {order[j], order[k]} \subseteq run.seen
           => Place(order[j], run.happened) < Place(order[k], run.happened)

\* _profile_stop_latency_ms(): the impairment's, or, in the compound test, the fault's own.
StopLatencyMet(test, run) ==
    IF test = "compound-chaos-c1" THEN run.evidence # NoFile /\ run.evidence.prompt ELSE run.prompt

\* What a report takes from a run: its verdict, its events, its metrics and its evidence.
RunSummary(test, run) ==
    LET impaired == run.task.network
    IN [passed   |-> run.passed,
        told     |-> impaired => RequiredEventsObserved(test, run) /\ TimelineMonotonic(test, run),
        met      |-> /\ ~run.oom /\ run.exit = "zero"
                     /\ impaired => /\ StopLatencyMet(test, run)
                                    /\ run.evidence # NoFile /\ run.evidence.steady,
        evidence |-> IF run.evidence = NoFile THEN "none"
                     ELSE IF run.evidence.mine THEN "mine" ELSE "left",
        inOrder  |-> impaired => /\ ToSet(Wanted(test)) \subseteq ToSet(run.happened)
                                /\ Rising(Wanted(test), run.happened)]

RunReturns ==
    /\ HandRun /\ runs' = Append(runs, RunSummary(Test, NavRun))
    /\ UNCHANGED <<tests, reused, driver, sealed, failing, exitCode>>

\* parse_ros2_stress_campaign(), parse_ros2_pressure_report(): a file that is torn or no
\* longer agrees with itself is as good as none.
ParsedCampaign(file) == IF file # NoFile /\ file.whole THEN file ELSE NoFile
ParsedPressure(file) == IF file # NoFile /\ file.whole THEN file ELSE NoFile

\* _inner_endurance_status()
InnerPassed ==
    LET campaign == ParsedCampaign(driver.campaign)
        pressure == ParsedPressure(driver.pressure)
    IN /\ driver.exit = "zero"
       /\ campaign # NoFile /\ campaign.passed
       /\ pressure # NoFile /\ pressure.passed

\* The driver's runs all passed, and neither memory nor latency crept up with the hours.
EnduranceMet == InnerPassed /\ driver.runsPassed /\ driver.trendsMet

ReportPassed(test) ==
    IF test = "gazebo-endurance-l4" THEN EnduranceMet
    ELSE \A k \in DOMAIN runs : runs[k].passed /\ runs[k].told /\ runs[k].met

\* The stress driver ended. With exit zero it has written a campaign and a pressure
\* report, both passed; otherwise there may be none, its own, perhaps torn, or an earlier
\* one's.
DriverEnds ==
    /\ Ready /\ Test = "gazebo-endurance-l4" /\ driver = NoFile
    /\ LET File(passed, mine, whole) == [passed |-> passed, mine |-> mine, whole |-> whole]
           own == {File(TRUE, TRUE, TRUE), File(FALSE, TRUE, TRUE), File(TRUE, TRUE, FALSE)}
           old == IF reused THEN {File(TRUE, FALSE, TRUE)} ELSE {}
       IN \E end \in [exit : {"zero", "other"}, campaign : own \cup old \cup {NoFile},
                      pressure : own \cup old \cup {NoFile}, runsPassed : BOOLEAN,
                      trendsMet : BOOLEAN] :
              /\ end.exit = "zero" =>
                     {end.campaign, end.pressure} = {File(TRUE, TRUE, TRUE)}
              /\ driver' = end
    /\ UNCHANGED <<tests, reused, runs, sealed, failing, exitCode, runVars>>

\* It may take longer than eight hours.
DriverOverruns ==
    /\ Ready /\ Test = "gazebo-endurance-l4" /\ driver = NoFile /\ exitCode' = "one"
    /\ UNCHANGED <<tests, reused, runs, driver, sealed, failing, runVars>>

Complete ==
    IF Test = "gazebo-endurance-l4" THEN driver # NoFile ELSE Len(runs) = Len(Runs(Test))

\* build_from_manifest(): a run is told by its evidence, or by its log, which another run's
\* may equal.
Snapshot(k) == IF runs[k].evidence = "none" THEN 0 ELSE k
Twins == \E j, k \in DOMAIN runs : j < k /\ Snapshot(j) = Snapshot(k)

\* _seal(): the manifest, then the report, or none if two runs are the same.
Seal ==
    /\ Ready /\ Complete /\ UNCHANGED <<tests, reused, runs, driver, runVars>>
    /\ \/ /\ sealed' = ReportPassed(Test) /\ failing' = (failing \/ ~ReportPassed(Test))
          /\ UNCHANGED exitCode
       \/ Twins /\ exitCode' = "one" /\ UNCHANGED <<sealed, failing>>

\* build_ros2_resilience_series(), or the only report.
AllPassed == ~failing

\* main()'s loop, and what follows it: the series, which holds every test's report.
NextTest ==
    /\ sealed # NoFile /\ exitCode = "none"
    /\ tests' = Tail(tests) /\ runs' = <<>> /\ driver' = NoFile /\ sealed' = NoFile
    /\ exitCode' = IF Len(tests) > 1 THEN "none" ELSE IF AllPassed THEN "zero" ELSE "one"
    /\ UNCHANGED <<reused, failing, runVars>>

SeriesNext ==
    \/ NextRun \/ RunReturns \/ RunRaises \/ DriverEnds \/ DriverOverruns \/ Seal \/ NextTest
    \/ RunStep /\ UNCHANGED seriesVars

-----------------------------------------------------------------------------
(* A network test passes only if its container really did it in that order:  *)
(* the robot moved, the network was impaired, (the fault was injected,) the  *)
(* stop latched, the impairment was lifted. An endurance test passes only on *)
(* a campaign its own driver ended well. What a report passes on is its own  *)
(* containers' evidence, unless the run id was used before. And the program  *)
(* exits with zero only if every report passed.                              *)
SeriesIsEarned ==
    /\ sealed = TRUE =>
        /\ \A k \in DOMAIN runs :
              /\ runs[k].inOrder
              /\ runs[k].evidence = "mine" \/ (reused /\ runs[k].evidence = "left")
        /\ Test = "gazebo-endurance-l4" => driver.campaign.mine /\ driver.pressure.mine
    /\ exitCode = "zero" => tests = <<>> /\ ~failing
===============================================================================
