----------------------------- MODULE MCSurveyor -----------------------------
(***************************************************************************)
(* Three users of DuckDB files that share no state, each checked on its    *)
(* own instance: the records that runs of a blueprint leave, the signals   *)
(* and plans their executions leave, and the store of benchmark results.   *)
(* A behaviour is one of one part; the others stay in one of their initial *)
(* states.                                                                 *)
(***************************************************************************)
EXTENDS MCBenchmark, MCRunRecords, MCRunSignals

VARIABLE part

surveyorVars == <<part, benchVars, recordsVars, sigVars>>

SomeBench == CHOOSE bench \in AllBenches : TRUE
SomeGuardrails == CHOOSE g \in Labelled : TRUE
SomeVersion == CHOOSE v \in TwoVersions : TRUE

SurveyorInit ==
    /\ part \in {"benchmark", "records", "signals"}
    /\ part # "benchmark" => suite = SomeBench.suite /\ options = SomeBench.options
    /\ part # "records" => guardrails = SomeGuardrails /\ multi = FALSE
    /\ part # "signals" => disk = SomeVersion
    /\ BenchmarkInit /\ RecordsInit /\ SignalsInit

InBenchmark == part = "benchmark" /\ UNCHANGED <<part, recordsVars, sigVars>>
InRecords == part = "records" /\ UNCHANGED <<part, benchVars, sigVars>>
InSignals == part = "signals" /\ UNCHANGED <<part, benchVars, recordsVars>>

SurveyorNext ==
    \/ InBenchmark /\ BenchmarkNext
    \/ InRecords /\ RecordsNext
    \/ InSignals /\ SignalsNext

SurveyorSpec == SurveyorInit /\ [][SurveyorNext]_surveyorVars
=============================================================================
