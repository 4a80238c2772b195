----------------------------- MODULE RunSignals -----------------------------
(***************************************************************************)
(* What executions of one blueprint tell its observability store while     *)
(* they run, and the two decisions taken on it: the signals of Probes      *)
(* (executor/spark/probe.py), by which a Regulator opens or closes         *)
(* (surveyor.py), and the physical plans of modules, with which the        *)
(* explain gate compares a patch (patch/explain_gate.py).                  *)
(*                                                                         *)
(* One Regulator; a Probe's signals, its verdict and a module's plan are   *)
(* those of the version executed.  Where in the walk Probes and Regulators *)
(* come is the business of Executor: here all Probes come first.           *)
(***************************************************************************)
EXTENDS Naturals, Sequences, FiniteSets, Functions

CONSTANTS
    Versions,       \* of the blueprint: see SignalsAssumption
    RunIds,       \* what --run-id may be; a run may be given an earlier one's
    Modules,        \* modules whose frame has a plan
    FullActions,    \* danger.allow_full_probe_actions
    KeepLast,       \* keep_last_n of the plan snapshots
    MaxExecutions

SignalTypes ==
    {"schema_snapshot", "row_count_estimate", "null_rates", "sample_rows", "value_distribution",
     "distinct_count", "data_freshness", "partition_stats", "threshold"}
Signal == [type : SignalTypes, given : BOOLEAN, listener : BOOLEAN, sampled : BOOLEAN]

\* What explain() shows of a frame.
Plan == [shuffles : Nat, udfs : Nat, broadcasts : Nat, known : BOOLEAN]

\* A version has the signals of each Probe; the Probes on the Regulator's signal
\* port, in the order of the edges; and the plan of each module.
ASSUME SignalsAssumption ==
    /\ FullActions \in BOOLEAN /\ KeepLast \in Nat \ {0} /\ MaxExecutions \in Nat
    /\ RunIds \cap Nat = {}
    /\ \A v \in Versions :
        /\ v.signals \in [DOMAIN v.signals -> Seq(Signal)]
        /\ v.wired \in Seq(DOMAIN v.signals)
        /\ v.plan \in [Modules -> Plan]

VARIABLES
    disk,           \* the version on disk
    manifest,       \* the version the Surveyor was started with
    version,        \* the version executed
    run, exec,      \* the run_id of the Surveyor, and of the execution
    count,          \* executions so far; the uuid of one is its number
    phase, probed,
    signals,        \* the rows of probe_signals
    closed,         \* signal_overrides: Probes closed by hand
    gate,           \* the Regulator's answer in this execution
    verdict,        \* history: per Probe, what its threshold came to in this execution
    snapshots,      \* the rows of explain_snapshot
    delivered,      \* history: per module, its plan in the last success
    judged          \* the explain gate's answer on a patch

sigVars == <<disk, manifest, version, run, exec, count, phase, probed, signals, closed,
             gate, verdict, snapshots, delivered, judged>>

Probes(v) == DOMAIN v.signals

Unasked == [answer |-> "none", closed |-> FALSE]
NotJudged == [status |-> "none"]
Unknown == [shuffles |-> 0, udfs |-> 0, broadcasts |-> 0, known |-> FALSE]

-----------------------------------------------------------------------------
(* Signals: what each reads of the frame, nothing, a few rows or all; when  *)
(* full actions are blocked most read nothing.                              *)

SchemaSnapshot(s) == "nothing"

\* spark_listener asks module_metrics; a sample is a scan.
RowCountEstimate(s, block) == IF s.listener \/ block THEN "nothing" ELSE "all"

NullRates(s, block) == IF block THEN "nothing" ELSE "all"

SampleRows(s) == "rows"

\* Without columns given, the numeric ones, of which there may be none.
ValueDistribution(s, block) == IF block \/ ~s.given THEN "nothing" ELSE "all"

DistinctCount(s, block) == IF block THEN "nothing" ELSE "all"

\* allow_sample lifts the block.
DataFreshness(s, block) == IF block /\ ~s.sampled THEN "nothing" ELSE "all"

PartitionStats(s) == "nothing"

\* Never blocked.
Threshold(s) == "all"

Reads(s, block) ==
    CASE s.type = "schema_snapshot" -> SchemaSnapshot(s)
      [] s.type = "row_count_estimate" -> RowCountEstimate(s, block)
      [] s.type = "null_rates" -> NullRates(s, block)
      [] s.type = "sample_rows" -> SampleRows(s)
      [] s.type = "value_distribution" -> ValueDistribution(s, block)
      [] s.type = "distinct_count" -> DistinctCount(s, block)
      [] s.type = "data_freshness" -> DataFreshness(s, block)
      [] s.type = "partition_stats" -> PartitionStats(s)
      [] s.type = "threshold" -> Threshold(s)

\* Does the signal raise?  It lacks its column or expr, or reads a frame whose
\* plan fails when it is run.
Raised(s, block, broken) ==
    \/ s.type \in {"data_freshness", "threshold"} /\ ~s.given
    \/ broken /\ Reads(s, block) # "nothing"

\* The key `passed` of the payload; an aggregate that is NULL has not passed.
Passed(s, value) == IF s.type # "threshold" THEN "none" ELSE IF value = "true" THEN "yes" ELSE "no"

\* Rows are dated by the execution that wrote them; a Probe has one turn in it, so
\* its rows of that execution follow each other as its signals do.
SignalRow(p, i, value) ==
    [probe |-> p, run |-> exec, at |-> count, nth |-> i,
     passed |-> Passed(version.signals[p][i], value)]

\* Mutant: the first signal that raises ends the Probe.
CapturedUntilRaise(p, block, broken, value) ==
    LET cfgs == version.signals[p]
    IN  {SignalRow(p, i, value) :
            i \in {j \in DOMAIN cfgs : \A k \in 1..j : ~Raised(cfgs[k], block, broken)}}

\* execute_probe: a row for every signal that does not raise.
Captured(p, block, broken, value) ==
    LET cfgs == version.signals[p]
    IN  {SignalRow(p, i, value) : i \in {j \in DOMAIN cfgs : ~Raised(cfgs[j], block, broken)}}

WithVerdict(rows) == {row \in rows : row.passed # "none"}

\* Only the first execution of an iteration is told to block full actions.
Blocking == ~FullActions /\ phase = "executing"

ProbeTurn(p) ==
    /\ phase \in {"executing", "trying"} /\ p \in Probes(version) \ probed
    /\ \E broken \in BOOLEAN, value \in {"true", "false", "null"} :
        /\ signals' = signals \cup Captured(p, Blocking, broken, value)
        /\ verdict' = IF broken \/ ~\E s \in Range(version.signals[p]) : s.type = "threshold" /\ s.given
                      THEN verdict
                      ELSE [verdict EXCEPT ![p] = IF value = "true" THEN "yes" ELSE "no"]
    /\ probed' = probed \cup {p}
    /\ UNCHANGED <<disk, manifest, version, run, exec, count, phase, closed, gate, snapshots,
                   delivered, judged>>

-----------------------------------------------------------------------------
(* The gate.                                                                *)

Follows(row, other) == row.at > other.at \/ (row.at = other.at /\ row.nth > other.nth)

\* evaluate_regulator: of the Probe's rows under the Surveyor's run, the newest that
\* has a verdict.
RunVerdict(p) ==
    LET rows == WithVerdict({row \in signals : row.probe = p /\ row.run = run})
    IN  IF rows = {} THEN "none"
        ELSE (CHOOSE row \in rows : \A other \in rows \ {row} : Follows(row, other)).passed

\* Only the first Probe wired counts, in the manifest the Surveyor knows.
GateAnswer ==
    IF manifest.wired = <<>> THEN "open"
    ELSE LET p == manifest.wired[1]
         IN  IF p \in closed \/ RunVerdict(p) = "no" THEN "closed" ELSE "open"

\* The store cannot be read: the gate opens.
GateTurn(unread) ==
    /\ phase \in {"executing", "trying"} /\ probed = Probes(version) /\ gate = Unasked
    /\ version.wired # <<>>
    /\ gate' = [answer |-> IF unread THEN "unread" ELSE GateAnswer,
                closed |-> version.wired[1] \in closed]
    /\ UNCHANGED <<disk, manifest, version, run, exec, count, phase, probed, signals, closed,
                   verdict, snapshots, delivered, judged>>

\* aqueduct signal PROBE --value false (or --error), and --value true.
Overrides(p) ==
    /\ phase = "idle"
    /\ closed' \in {closed \cup {p}, closed \ {p}} \ {closed}
    /\ UNCHANGED <<disk, manifest, version, run, exec, count, phase, probed, signals, gate,
                   verdict, snapshots, delivered, judged>>

-----------------------------------------------------------------------------
(* The plans.                                                               *)

\* _count_markers of the plan's text, which is empty if it cannot be had.  The
\* word counted for a shuffle is in that of a broadcast too.
Markers(plan) ==
    [exchange |-> plan.shuffles + plan.broadcasts, udf |-> plan.udfs,
     broadcast |-> plan.broadcasts]

SnapshotRow(m, plan) == [run |-> exec, module |-> m, at |-> count, marks |-> Markers(plan)]

\* Rows of other runs, or of modules that have no plan now.
Untouched(table, plans) == {row \in table : row.run # exec \/ row.module \notin DOMAIN plans}

\* Mutant: a full table takes no more rows.
RecordedWhileFree(table, plans) ==
    LET others == Untouched(table, plans)
        free == {m \in DOMAIN plans : Cardinality({row \in others : row.module = m}) < KeepLast}
    IN  others \cup {SnapshotRow(m, plans[m]) : m \in free}

\* record_explain_snapshot for each module: one row per run and module, of which
\* the KeepLast newest stay.
Recorded(table, plans) ==
    LET grown == Untouched(table, plans) \cup {SnapshotRow(m, plans[m]) : m \in DOMAIN plans}
        Newer(row) == {other \in grown : other.module = row.module /\ other.at > row.at}
    IN  {row \in grown : row.module \in DOMAIN plans => Cardinality(Newer(row)) < KeepLast}

\* What is only kept while an execution is under way.
Over == probed' = {} /\ gate' = Unasked /\ verdict' = [p \in Probes(version) |-> "none"]

\* The execution ends well.  Modules whose frame is there have their plan
\* recorded; some may have none to read, or fail to be recorded.
ExecutionSucceeds(have, legible) ==
    /\ phase \in {"executing", "trying"} /\ probed = Probes(version)
    /\ version.wired = <<>> \/ gate # Unasked
    /\ LET plans == [m \in have |-> IF m \in legible THEN version.plan[m] ELSE Unknown]
       IN  /\ snapshots' = Recorded(snapshots, plans)
           /\ delivered' = [m \in Modules |-> IF m \in have THEN plans[m] ELSE delivered[m]]
    /\ disk' = IF phase = "trying" THEN version ELSE disk
    /\ phase' = "idle" /\ judged' = NotJudged /\ Over
    /\ UNCHANGED <<manifest, version, run, exec, count, signals, closed>>

\* latest_explain_snapshots.
SnapshotsOf(m) == {row \in snapshots : row.module = m}
Latest(m) == CHOOSE row \in SnapshotsOf(m) : \A other \in SnapshotsOf(m) : other.at <= row.at

Worse(before, after) ==
    after.exchange > before.exchange \/ after.udf > before.udf \/ after.broadcast < before.broadcast

\* run_explain_gate on the plans of a sandbox replay; with no module touched, on all.
ExplainGate(v, touched, after) ==
    LET known == {m \in Modules : SnapshotsOf(m) # {}}
        modules == IF touched = {} THEN known \cap DOMAIN after ELSE touched
        compared == modules \cap known \cap DOMAIN after
    IN  [status |-> IF known = {} THEN "skip"
                    ELSE IF \E m \in compared :
                                Worse(Latest(m).marks, Markers(after[m]))
                    THEN "warn" ELSE "pass",
         version |-> v, compared |-> compared, after |-> after]

-----------------------------------------------------------------------------
(* Runs.                                                                    *)

SignalsInit ==
    /\ disk \in Versions /\ manifest = disk /\ version = disk
    /\ run = 0 /\ exec = 0 /\ count = 0
    /\ phase = "idle" /\ probed = {}
    /\ signals = {} /\ closed = {}
    /\ gate = Unasked /\ verdict = [p \in Probes(disk) |-> "none"]
    /\ snapshots = {} /\ delivered = [m \in Modules |-> Unknown]
    /\ judged = NotJudged

\* Somebody edits the blueprint.
BlueprintEdited ==
    /\ phase = "idle"
    /\ disk' \in Versions \ {disk}
    /\ UNCHANGED <<manifest, version, run, exec, count, phase, probed, signals, closed, gate,
                   verdict, snapshots, delivered, judged>>

Executes(v, i) ==
    /\ count < MaxExecutions /\ count' = count + 1
    /\ version' = v /\ exec' = i
    /\ probed' = {} /\ gate' = Unasked /\ verdict' = [p \in Probes(v) |-> "none"]
    /\ UNCHANGED <<disk, signals, closed, snapshots, delivered>>

RunBegins(given) ==
    /\ phase = "idle"
    /\ Executes(disk, given)
    /\ phase' = "executing" /\ run' = given /\ manifest' = disk
    /\ UNCHANGED judged

\* Anything may fail the execution, a closed gate with on_block=abort included.
ExecutionFails ==
    /\ phase \in {"executing", "trying"}
    /\ phase' = "failed" /\ judged' = NotJudged /\ Over
    /\ UNCHANGED <<disk, manifest, version, run, exec, count, signals, closed, snapshots,
                   delivered>>

\* A patch takes the version on disk to v; its replay leaves the plans of some
\* modules, of none if it is skipped or fails.
Judges(v, touched, replayed) ==
    /\ phase = "failed"
    /\ phase' = "judged"
    /\ judged' = ExplainGate(v, touched, [m \in replayed |-> v.plan[m]])
    /\ UNCHANGED <<disk, manifest, version, run, exec, count, probed, signals, closed, gate,
                   verdict, snapshots, delivered>>

\* Without block_on_explain_regression a warning only warns.
TrialBegins ==
    /\ phase = "judged"
    /\ Executes(judged.version, count + 1)
    /\ phase' = "trying"
    /\ UNCHANGED <<run, manifest, judged>>

\* The patch is dropped, and the loop executes the blueprint again.
IterationBegins ==
    /\ phase \in {"failed", "judged"}
    /\ Executes(manifest, count + 1)
    /\ phase' = "executing" /\ judged' = NotJudged
    /\ UNCHANGED <<run, manifest>>

RunEnds ==
    /\ phase \in {"failed", "judged"}
    /\ phase' = "idle" /\ judged' = NotJudged
    /\ UNCHANGED <<disk, manifest, version, run, exec, count, probed, signals, closed, gate,
                   verdict, snapshots, delivered>>

SignalsNext ==
    \/ \E given \in RunIds : RunBegins(given)
    \/ \E p \in Probes(version) : ProbeTurn(p) \/ Overrides(p)
    \/ \E unread \in BOOLEAN : GateTurn(unread)
    \/ \E have, legible \in SUBSET Modules : legible \subseteq have /\ ExecutionSucceeds(have, legible)
    \/ \E v \in Versions, touched, replayed \in SUBSET Modules : Judges(v, touched, replayed)
    \/ BlueprintEdited \/ ExecutionFails \/ TrialBegins \/ IterationBegins \/ RunEnds

SignalsSpec == SignalsInit /\ [][SignalsNext]_sigVars

-----------------------------------------------------------------------------
(* Properties.                                                              *)

\* What the gate of the execution under way ought to answer by its own signals.
Hears ==
    LET own == verdict[version.wired[1]]
    IN  gate.answer = "closed" <=> gate.closed \/ own = "no"

\* In the execution that runs under the run's own id the Regulator goes by the
\* latest verdict of its Probe in that execution, whichever other signals were
\* lost, and whatever a run left that had the same id; only when this execution
\* has no verdict does an older one of the id count.
GateHearsVerdict ==
    gate.answer \in {"open", "closed"} /\ exec = run =>
        \/ Hears
        \/ verdict[version.wired[1]] = "none" /\ RunVerdict(version.wired[1]) = "no"

\* surveyor.py, evaluate_regulator: "queries the latest passed field from its signals
\* in the current run".  Here for the run in which a patch is tried; it executes
\* under an id of its own.
GateHearsTrial ==
    phase = "trying" /\ gate.answer \in {"open", "closed"} /\ verdict[version.wired[1]] # "none"
        => Hears

\* No patch passes the explain gate that makes the plan of a compared module worse
\* than in the last execution that succeeded: more shuffles, more Python UDFs or
\* fewer broadcasts, whatever runs had an id twice and however old rows are pruned.
PlanRegressionHeard ==
    judged.status = "pass" =>
        \A m \in judged.compared :
            LET before == delivered[m]
                after == judged.after[m]
            IN  before.known => /\ after.shuffles <= before.shuffles
                                /\ after.udfs <= before.udfs
                                /\ after.broadcasts >= before.broadcasts
=============================================================================
