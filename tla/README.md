# Aqueduct in TLA+

Aqueduct runs Spark pipelines that are described as YAML blueprints, and repairs
them: when a run fails, a language model proposes a patch to the blueprint, and
depending on the approval mode the patch is staged for a human or tried, written
and archived without one. This directory models the parts of it that decide
*what is executed, what is written and what is claimed afterwards*. TLC checks
the models on small instances, TLAPS proves theorems about them for all instances.

Run everything from this directory: `tlc -workers 2 -config MCExecutor.cfg
MCExecutor`, `tlapm ExecutorProofs.tla`. `PROJECT.json` lists the runs, the
source lines every definition stands for, a mutation of the model each
property was seen to catch, and the hazards the properties are for.

## Inventory

State, operations and partners of every component; "hard" is what tests hardly
reach. Paths are below `src/aqueduct/`.

| component | state | operations | works with | hard | module |
| :- | :- | :- | :- | :- | :- |
| attempt loop, `agent/loop.py`, `agent/budget.py` | attempt count, rows, tokens, time, escalation, patch in hand | one attempt: call, parse, defer, validate, apply, record, stop or reprompt | called by the run loop, `heal`, scenarios, the cascade; calls back into the gates | nine exits with their own bookkeeping, six budget axes in order, one escalation | HealSession, HealAttempts |
| cascade, `agent/cascade.py` | tier | start a tier's session, return or escalate | HealSession | order of two tests decides what is dearer | HealCascade |
| self-healing loop, `cli.py` `run` | mode, patch count, last result, patch, blueprint file, `patches/`, outcome rows | execute, ask, trust, guard, gate, try, write, stage, report | attempt loop, surveyor, executor, gates | crash between steps of a write, termination, exit codes, hourly cap | HealRun |
| incremental Channels, `executor/spark/executor.py` | sidecar and depot watermark, pending watermarks of a run, checkpoints, what sinks hold | read above the watermark, write, mark, compute, store twice | executor, depot, sinks | a run dies between any two steps; several sinks, one watermark | Watermarks |
| executor, `executor/spark/executor.py` | frames, results, cancel event, checkpoints, signals | one turn per module type, resume, finish | surveyor (gates), stores, modules | threads, sentinel propagation, resume, order of Probes and Regulators | Executor |
| patch lifecycle, `patch/apply.py`, `agent/loop.py`, `cli.py patch ...`, `rollback` | blueprint file, git history, `patches/{pending,applied,rejected}` | stage, apply, reject, commit, discard, rollback | everyone who reads `patches/` | several files per command, timestamps against git, sharing between blueprints | PatchLifecycle |
| Airflow, `integrations/airflow` | task state, trigger, event | run, defer, poll, resume, retry, time out | `aqueduct run` and `patch list` as subprocesses | stale decisions, polling while files move | AirflowApproval |
| row routing, `executor/spark/{assert_,junction,funnel}.py`, spillways | plans of filters, quarantine parts | Assert rules, spillway split, branches, unions | executor, compiler check | conditions that are null, frames that are run again later, rules in sequence | RowRouting |
| session views, `executor/spark/{channel,egress}.py` | catalog of the session | register, query, drop | executor threads, retries, later executions | names all components share, registration before the try | SessionViews |
| surveyor, `surveyor/{surveyor,blob_store}.py`, `executor/spark/probe.py`, `patch/explain_gate.py` | run records, failure contexts, blobs, outcomes, signals, overrides, plan snapshots | start, record, count, capture, evaluate a regulator, compare plans | run loop, executor, `aqueduct heal` and `signal` | ids shared by runs and given to iterations and trials, a kill between record and context, cap counted from rows, pruned baselines | RunRecords, RunSignals |
| patch operations and checks, `patch/{operations,grammar,apply,preview}.py`, `cli.py` write-back | blueprint file, temporary files, backups, the PatchSpec in memory | apply the operations, guard, compile, trace columns, write back | run loop, reviewer, editors | nothing locks the file, the patch is applied anew at each stage, operations alias the patch's edges and context values, backups share a name within a second | PatchOps, PatchGates |
| replies, `agent/parse.py`, `patch/grammar.py` | none | strip, decode, repair, unwrap, rename, validate | attempt loop | several objects in one reply, order of the clean-ups, what counts as recovered | ReplyParsing |
| benchmark, `surveyor/{scenario,benchmark_store}.py`, `cli.py benchmark` | results, rows of a shared DuckDB file | load, run on a pool, grade, store, compare, exit | attempt loop, CI | lost pairs, duplicate ids, other invocations' rows, a gate that must fail exactly on a regression | Benchmark |
| parser, `parser/` | none | validate, layer and resolve the context, detect cycles | compiler | cycles, references in place in any key order | graph part in BlueprintCompile, context in ContextMap |
| compiler, `compiler/` | modules and edges of the pass | expand Arcades, check wiring, take out passive Regulators; Tier-1 calls, lineage; macros | parser, executor | rewiring pass by pass, ids that collide, what was checked before an edge changed, calls made before a reference is known | BlueprintCompile, ContextMap, PatchOps |
| stores, depot | key-value rows | get, put | all | failures swallowed as defaults | inputs of the other models |
| webhooks, doctor, configuration, secrets, templates, warnings, test runner, remaining commands | none the pipeline depends on | print, probe, substitute | | | not modelled |

How they interact: `cli.run` owns the loop. It calls the executor with a
manifest; the executor asks the surveyor about every Regulator and stores the
signals of every Probe. On a failure `cli.run` calls the agent (directly or
through the cascade), which may call back into the gates. The patch goes to
`patches/` and maybe into the blueprint, which git commands and reviewers touch
too, and an Airflow trigger in another process reads `patches/` through
`aqueduct patch list`.

What makes each correct: the loop must stay within every budget axis and return
only patches that passed the gates it was given; the run may touch real data and
the blueprint only for patches that are trusted and proven, and its exit code
and outcome rows must be true; the executor must give a sink only data whose
whole lineage succeeded, whatever failed elsewhere; the lifecycle must never
lose a patch and must be able to tell what is committed; the task must hear each
decision and never act without one. A reply must be taken for what it says, a
patch must reach the file as it was judged and without eating a person's edits,
what the store says of a failure must be enough to heal it, and the gates that
read the store - Regulator, hourly cap, explain gate, benchmark gate - must hear
what was put there.

## Modules

**HealSession** is what callers of `generate_agent_patch` rely on: at most
`limit` attempts, one answer, a deferral only if allowed. **HealAttempts** is the
loop itself. One action per way through the body: `BeginAttempt` (top of the
loop, deadline), the exits of the call (`CallHitsBudget`, `CallFails`), of the
parser (`ReplyUnparsable`), of a deferral (`DeferRejected`, `DeferAccepted`), of
the callbacks (`Validate...`, `Apply...`) and `Accept`. `CheckStop` is
`BudgetTracker.check_stop`, in its order. `KeepsSessionContract` states that it
implements HealSession.

**HealCascade** uses HealSession's own steps for the session of a tier and adds
the cascade's decision after each answer.

**HealRun** uses HealSession the same way and follows `cli.run` from an execution
to the exit code. A patch carries what the loop looks at: does it defer, how
sure was the model, is it allowed by the guardrails. `backup`, `replace` and
`archive` are separate steps; `Killed` may fall between any two, `WriteFails` ends
any of them silently, as the `except` of the write-back does, and `NextRun` starts
from what is left. `cut` remembers the patches whose write-back ended before the
blueprint was replaced.

**Executor** walks a manifest: `TopoSort`, `ExecutionOrder` (Probes right after
their source), `Component` and `Threads` for parallel mode, `Included` for
`--from/--to`. A frame of a module's port is absent, data or the closed-gate
sentinel. Each module type has its turn as an action; failures are split by the
policy (`FailsAlone` for `alert_only`, `Fails`, `Raises` for what no handler
catches). An Egress's write and its checkpoint marker are two steps. After an
execution the run may be repeated, resumed, or executed again by the healing
loop under a new run id and the old surveyor.

**PatchLifecycle** has the commands on `patches/`, the blueprint files and git,
each broken where it touches the disk again, with `CommandKilled` in between, commits by
hand, and a clock of whole seconds because git keeps no more.

**AirflowApproval** has the task, the poll of its trigger in two reads, the
operator's resume, Airflow's retry and timeout, and reviewers that move patches
in two steps.

**BlueprintCompile** takes a blueprint through `parse_dict`'s graph checks and
through `compile`: one step per module of a pass (`KeepModule`, `ExpandArcade`,
`ArcadeFails`), the check for colliding ids and the next pass, the wiring rules,
and `CompileAway` for passive Regulators. `Parses` has the three refusals of a graph:
names that lead nowhere (the field `spillway` included, which nothing after the
parser reads), ids used twice, cycles. Ids are sequences of tokens, so that
`x` + `__` + `_b` and `x_` + `__` + `b` are the same id as they are in Python. The
sub-blueprints lie in a constant `Library`; one that refers to itself is caught by
the nesting limit.

**Watermarks** has an incremental Channel and the sinks below it. `WriteEgress`,
`MarkDone`, `ComputeWatermark`, `WriteSidecar` and `PutDepot` are five steps because
the code touches five things; `Killed`, `Resume` and the loss of the local store
come between any two. The source delivers rows in the order of the watermark
column and sinks append: both are what the documents ask of an incremental
Channel. Rows that arrive late are outside of what a watermark can see.

**RowRouting** takes one input through an Assert, a Channel's spillway or a Junction
to the sinks. A frame is a set of filters and is evaluated when it is counted or
written, as Spark does: `RowsOf` uses the time of the step, so a freshness limit may
give different rows to two sinks. Conditions are true, false or null for a row.
The rules come in the order of the code: `CheckSchema`, `CheckBatch`, `CheckSample`,
then row rule after row rule (`SqlRow`, `Custom`, `FreshRow`), then `CheckRate`.
`Compiles` is the compiler's check of the rules, which decides what reaches the
executor. `MayBeLost` and `MayBeTwice` list every way a row can be in no sink or in
several; `RowsRouted` says there is no other.

**SessionViews** has the temporary views of a session and the threads that register,
query and drop them, one call per step, with retries (`Retry`), registrations that
fail (`CreateFails`) and executions that follow in the same session. It holds
`_run_sql` and `_write_merge`, whose protocol is the same under other names. A frame
is tagged with its execution and upstream, and `reads` remembers what every
query got next to what it should have got.

**ReplyParsing** takes a reply, a sequence of tags, fences, prose and JSON objects,
through the clean-ups of `_parse_patch_spec` (`Cleaned`), `Decoded` (with what
`json_repair` may make of a broken object), `Unwrapped`, and the PatchSpec validators
(`Normalised`, `Valid`). HealAttempts takes the outcome as a choice; this module says
when it is which.

**PatchOps** has the patch operations as operators on an abstract blueprint
(modules with the parts of a config that checks look at, edges, one context value,
which an operation replaces by itself or with the block it stands in), `ApplyPatch`,
the guardrails and the lineage gate. The code puts the PatchSpec's own objects into
the blueprint. So an edge an operation adds carries its origin, and a later
`replace_edge` changes both; and a value written below a context block the patch gave
before is written into the patch (`ReplaceContextValue`, `GivesBlock`).
**PatchGates** is the way of a patch into the file: two runs that heal, a reviewer
and a person with an editor. A stage (callback, gates, run) is a step; the write-back
is broken into load, backup, dump and replace, and `Killed` may come between. A
backup is named by patch_id and second (`Copies`), so one may take the place of
another; `overwritten` remembers the saves only the lost one held.

**RunRecords** has `Surveyor.start` and `record` with the row, the two blobs and the
context as separate steps, each blob opened and then filled (a kill in between leaves
it `Torn`), iterations and trials under ids of their own, the healing
loop's reads (guardrails, cap) and `aqueduct heal`, for two runs at once that may
be given one id. The manifest that is stored is always the one the Surveyor was made
with (`SurveyorManifest`), also for a trial, which ran another (`Ran`). **RunSignals** has the signals of Probes, overrides by hand and
the Regulator's answer, and the snapshots of plans with the explain gate; the rows of
both tables are sets of dated rows, as the queries order them by their time.

**Benchmark** is an invocation from its files to its exit code (`Loads`, the worker
pool, grading, storing, comparing) with several invocations over one store.

**ContextMap** resolves the context: `StaticValues` and `Overrides` put the layers
together (an entry of a profile that is a block is not flattened, and becomes one value
under its own key), `CrossReference` replaces references in place, key after key in any order
and round after round, `CallInContext`, `SubstituteAgain` and `CallInModule` are the
compiler's share. A value is a sequence of tokens.

Modules that share no state are checked side by side in one run each:
**MCPipeline** (context, compile, routing, views, watermark), **MCAnswers** (reprompt
loop, reply, cascade, airflow) and **MCSurveyor** (records, signals, benchmark). A behaviour of
such a run is one of one part while the others stay where they started, so each
part sees exactly the states it would have by itself.

`*Proofs` modules hold the theorems of the modules they extend: HealSessionProofs those of
HealAttempts and HealCascade, SurveyorProofs those of RunRecords, RunSignals and
Benchmark, ReviewProofs those of PatchLifecycle, PatchOps, PatchGates and
AirflowApproval, RowsProofs those of Watermarks and RowRouting, PipelineProofs those of
SessionViews and of the parser in BlueprintCompile, the others those of the module in
their name. FoldInduction is the induction along a `FoldLeft` they share.

`MC*` modules give the constants their values. Definitions whose comment starts
with "Mutant" are plausible slips of the code; nothing of the specifications
uses them, they are put in place of the definition after them to see that a
property catches the slip.

## Runs

| run | what it asks | bounds, and why they do |
| :- | :- | :- |
| answers, loop | every attempt recorded once, the result is sound, one escalation, no call past the budget, termination, refinement of HealSession | two budgets, one where time and tokens bind and one with the default signature axes; five attempts and two signatures make every axis trip first somewhere |
| heal_run | trust before real data, the blueprint and the archive account for each other, honest exit and rows but for a write-back that was cut short, the run ends | two runs (a crash and a successor), two patches per run, a set of configurations that covers every mode and each switch on and off |
| executor | lineage and starvation of sinks, status, resume, gates, ends | nine manifests of six or seven modules with all module types, diamonds, spillways, two threads; two executions (one to crash or fail, one to resume or repeat) |
| lifecycle | nothing lost and in one folder, uncommitted found, rollback removes | two patches of one blueprint and a second blueprint on the same folder, four commits, seconds 0 to 2, one command cut short; commit, later commit, rollback and apply again fit |
| pipeline, context | every key and module gets what the layers say, and resolution fails only for a reason (`ContextResolved`) | three keys with every value that matters and each layer in turn, a nested profile, a chain of four; one round stands for twenty, three calls for twenty |
| pipeline, compile | the parser refuses the graphs it should (`CycleVerdict`); data flows through the manifest as through the blueprint; the manifest can be executed (`ManifestSound`) | five modules, two of them of any of twelve and five kinds, all sets of eight edges, ten sub-blueprints, a spillway that leads nowhere; two levels of nesting stand for ten, and one deeper is refused |
| pipeline, routing | what passes has passed; each row in exactly one sink but for the listed reasons; the quarantine stays within its rate (`RowsRouted`) | two rows (one to keep, one to lose), two conditions with three values, all pairs of eleven row rules, eight other rules in front, three points in time: before, between and after the two sinks |
| pipeline, views | foreign frames only under the shared names and of this execution; nothing left in the session (`ViewsStayApart`) | two threads of up to two statements and one of four, two attempts, two executions: enough to retry, to die and to be executed again |
| pipeline, watermark | no row skipped, no unexplained duplicate (`WatermarkInStep`) | three rows, five runs, four incidents: enough to die, resume, die again and lose the sidecar |
| gates | edits survive, applying a patch leaves it as it was (`SpecsKept`), what is written was judged, the file can be parsed and keeps to allowed paths, a broken read is warned about | two runs and a reviewer, one edit, a pipeline of four modules, a patch of each kind, two that change themselves; both runs have one patch_id, so that backups collide |
| answers, reply | no draft, repair or rescued reply passes for a clean patch, no recognisable patch is lost | one or two objects behind eight kinds of lead, three fences and three tails; fifty-one shapes of an object, four flaws |
| answers, cascade | each tier is charged for its own attempts (`TierBudgetsHold`) | three tiers (first, middle, last), limits 1 and 2 |
| answers, airflow | no answer without cause, no decision unheard | three runs, one Airflow retry |
| surveyor, records | a stored error can be healed, the cap holds | two runs, which may share an id, two patches, one heal per hour, two points in time |
| surveyor, signals | the gate goes by the execution's own verdict, no worse plan passes | three executions, two versions, one Probe, one joined module; one kept snapshot stands for five |
| surveyor, benchmark | exit 0 means every pair was answered as asked; the gate fails exactly on a regression | two files (twins, unusable, asking for less, an effect alone) for the grading, three invocations over one store for the gate |
| unwritten_patch, watermark_two_sinks, shared_alias, never_heal, trial_gate | see Divergences | as the run of the same module, fewer configurations |

A property with several parts is the conjunction of definitions that stand above
it in the module (`EscalatesOnce`, `ResultSound`, `BlueprintAccountedFor`,
`ReportsHonest`, `SinksGetWholeLineage`, `RowsRouted`, `ViewsStayApart`,
`ReplyUnderstood`, `ManifestSound`, `WatermarkInStep`).

Deadlock checking is off where the system may stop: a session has answered, the
runs are used up, an operator need not type another command.

### Divergences

Five runs check a sentence of the documents that the program does not
keep; each stops with a counterexample.

* `unwritten_patch` - "`patch_applied` | Whether the patch was written to Blueprint"
  (`docs/archive/SPECS-1.1.0.md:1616`): `_write_patch_to_blueprint` swallows every exception
  (`cli.py:259`) and nobody looks at its result, so a row says applied and successful
  of a patch that is not in the blueprint (`cli.py:2116`). `RowsFollowWrites` says that
  a write-back cut short, by an exception or a kill, is the only way to such a row.
* `watermark_two_sinks` - "Watermark is not advanced if the Channel or Egress
  fails" (`docs/archive/SPECS-1.1.0.md:348`): with two sinks the one that is written
  advances it for both. `NothingSkipped` holds with one sink.
* `shared_alias` - "For single-input Channels, the upstream is auto-registered as
  `__input__`" (`docs/specs.md:262`): with `--parallel` all threads share the session's
  catalog, and a query can get the upstream of another component's Channel
  (`channel.py:109`). `_aq_merge_src` of parallel merges is shared in the same way
  (`egress.py:161`). `ForeignOnlyUnderSharedName` says that these two names are all.
* `never_heal` - "`never_heal_errors` matches stack trace class name" (`tests/TEST_MANIFEST.md:1367`):
  the trace has become the path of its blob when the guardrail looks at it
  (`surveyor.py:576`), so the class is never found. The prompts parse the same paths
  (`agent/prompts.py:280`).
* `trial_gate` - in the trial of a patch the Regulator "queries the latest ``passed`` field from its signals in
  the current run" (`surveyor.py:1021`): a trial's signals are under the trial's id,
  the Regulator asks for the run's (`surveyor.py:1070`). `GateHearsVerdict` holds for
  the execution that has the run's id. Later iterations have the same fate; the run
  asks for trials only.

Met on the way and not made a run. Replies: the comment pattern is said to keep out
of strings (`agent/parse.py:37`), but a string with a blank and a `#` or `//` loses its
end, and `json_repair` closes it; the result counts as recovered. What the
PatchSpec validators rename does not count as recovered (`cli.py:1965`). The first
alias of `operations` is taken whatever it holds, so a text under `fix` hides a list
under `edits`. The backticks that close a block of another language open a fence. A
draft in a `<think>` that is never closed is read. Gates: the operations put the
patch's own edges and context values into the blueprint (`operations.py:161`, `:231`), so
rewiring one, or writing below one, changes the patch; backups of one patch_id made in
one second overwrite each other (`cli.py:246`); `patch apply` makes no backup though its docstring says so (`apply.py:284`), and
the write-back of a run is not verified again; the two share no lock and runs share
`.llm_patch.tmp.yml`; values of the context are outside `allowed_paths`; the
lineage gate does not look at reads the patch writes or reroutes, and always warns
when an Ingress is touched. Store: an iteration that succeeds under an id leaves
the failure context of an earlier run with that id; the manifest stored for a failed trial
is not the one that ran (`surveyor.py:570`), and what lies half written under a blob's name is
no error to the row that names it (`blob_store.py:42`); trials are never registered as
iterations, against `docs/observability_guide.md:75`; the guide's transparent blobs
(`:194`) are not read back everywhere; a locked store counts no heal against the cap.
Signals: a trial is not told to block full scans, nor where the store is; only the
first wired Probe of the original manifest counts; any error of the store opens the
gate; an unreadable plan is stored as one without shuffles. Benchmark: an
interrupt promises that completed pairs are kept, nothing is stored before the
end; no scenarios, lost pairs and unloadable files exit 0; the docstring of the comparison
says that lower confidence gates, it does not; an expected effect is called gating
(`scenario.py:652`, `docs/archive/SPECS-1.0.0.md:2155`, `tests/TEST_MANIFEST.md:1984`), but
the patched blueprint it is looked for in exists only if `patch_applies` was asserted as
well (`scenario.py:286`), and without it any answer passes. Context: a profile's block
becomes a string under its parent key and overrides nothing below it
(`resolver.py:114`; `schema.py:218` allows it, the documents use dotted keys); a call with a reference in its
arguments is made before the reference is known when it stands in the context, and
after when in a module; a `${VAR}` that is not set is an error although a higher
layer overrides the value; `AQUEDUCT_CTX_` keys are lower-cased; a chain longer than
the depth resolves or fails with the order of the keys. Approval: `trigger.py:4` promises to wait for the patch
produced; any older decision under the run id answers. Compiler: "Passive
Regulators are compiled away entirely" (`wirer.py:62`), but two in a row leave edges
to each other, which the executor stops at, and a Probe attached to one and a
Funnel that lists it keep its name; `ManifestSound` is stated for
the Regulators that can be taken out (`Bypassable`). Rows: one for which a condition
is null is in no branch and not in `_else_` (`junction.py:86`), in neither port of a
`spillway_condition` (`executor.py:1013`) and in neither side of a `sql_row` rule
(`assert_.py:429`); `on_fail: {action: quarantine}` drops the failing rows with a
warning (`assert_.py:444`), although the compiler takes it for a quarantine; a row rule
without `on_fail` is a quarantine at run time (`assert_.py:420`) and an abort to the
compiler (`compiler.py:198`), so it may have no spillway and its rows are discarded;
the rows a custom rule names stay in what passes (`assert_.py:487`); an Assert whose
rules quarantine nothing leaves the sink on its spillway without a frame, which is an
error. Healing: `cli.py:2067` trusts deep_loop to have
run the gates, tiers of a cascade that do not repeat the option run none; a
deferral returned in mode auto is executed and archived as applied, where
`patch/operations.py:333` says it is staged for a human; a cascade returns a deferral instead of
escalating it as its docstring and `docs/specs.md:525` say (`cascade.py:48`, `:86`), so the
order of two tests decides which failures buy a dearer model, and no property here
takes the code's side; with the default
axes `progress_stalled` cannot fire, the overall axis always trips first; a
trial that fails leaves a row with `patch_applied` set although nothing was written (`cli.py:2268`); in auto
mode the loop ends after one patch whatever `max_patches` says (`cli.py:2165`);
patches accepted on the sandbox alone exit 2 although recorded as success
(`cli.py:2116`). Execution: the closed-gate sentinel does not travel to spillway
ports, against `executor.py:33`; a resumed run never moves a watermark, so the run
after it writes the same rows again; `depends_on` is checked by the parser and
ignored by the executor's order (`docs/specs.md:196`). Compilation: a Funnel
inside an Arcade keeps un-namespaced `inputs`; edges into a passive Regulator from
a branch or a spillway are dropped; a Probe attached to an Arcade is rejected.
Lifecycle: `cli.py:4535` calls the rollback non-destructive, it overwrites patches
that are applied and not committed; `discard` moves patches of other blueprints (`cli.py:2903`);
`apply` on a file in `applied/` deletes it (`apply.py:354`); the rejection reason
the trigger hands on is the rationale of the patch (`trigger.py:113`); a patch
staged in a later iteration carries a run id the trigger never matches.

## Fairness

HealAttempts and HealRun are sequential code: weak fairness of their
next step says that a process that can go on does. Calls to the model have a
timeout, callbacks return. In HealRun it does not extend to `Killed` or
`NextRun`. The Executor has weak fairness for every thread and for `Finish`;
kills, overrides by hand and new executions need not happen. In AirflowApproval
the triggerer, the operator and Airflow's timeouts are fair, reviewers are not:
no property waits for one; MCAnswers repeats this fairness for its part. The other
modules have no liveness: they end with their sessions, with their input or with
their runs.

## Proofs

`HealSessionProofs` proves, for every budget, signature set and token cost that meets
`AttemptAssumption`, the type invariant, the safety properties
`EveryAttemptRecordedOnce`, `ResultSound` and `EscalatesOnce`, the action property
`NoCallPastBudget`, and that HealAttempts implements HealSession. `TypeOK` and the
properties are not inductive by themselves. `AttemptInv` adds three parts: `LoopOpen` (a
session is over exactly when it has a reason, and the top of the loop is reached only
with an attempt left), `PatchInHand` (what is in hand, and cleared by which gate, at
each point of the body), and `EscalationLedger` (an escalation marked is either owed to
the next record or already in one, never both), without which a second escalated row
could not be excluded. `BudgetLeft` says that no axis has tripped when the loop is back
at its top, and that after the same signature in a row (the sixth axis) only the one
escalated attempt is left (`EscalationLeft`); it carries `NoCallPastBudget`. Each action has its step, and what all
rejections share is proved once (`RejectStep`). The refinement splits the steps into
failed and last tries. The assumptions are what `BudgetConfig.__post_init__` enforces
and that the special values are no ordinary ones.

Of the cascade it proves two properties for every number of tiers and every
attempt limit. `TierBudgetsHold` counts rows, so it needs to know where the
count comes from: `RowsOfSession` says that the rows of the running tier are as many as
the attempts of its session, that this session has the tier's own budget, and that no
row is ahead of the tier. `LastAnswerReturned` needs that a session's answer without a
patch is one of the give-up reasons, which is HealSession's contract - and the theorems
above show that the loop keeps it.

`RowsProofs` is about rows. Watermarks: for any number of rows, runs and incidents, with
one sink no row is skipped and every duplicate has an incident of its own. The invariant
has two parts. `WrittenIsPrefix`: the sink holds a prefix of the rows, and both
watermarks, the running frame and the checkpointed one start inside it; hence the
maximum of what is written never passes a gap. `Paid`: at each place of a run, how many
copies of a row the incidents so far allow, one less if the row is above the watermark
and about to be written by a resume, because a resume never moves the watermark. That
the maximum exists is the least-element principle of the natural numbers. With two sinks
the theorem is false (`watermark_two_sinks`).

Routing (`RowsRouted`): for any rows, rules, branches, conditions and times, what an
Assert lets through has passed its rules, what its spillway's sink gets stays within a
rate that aborts, and every row is in exactly one sink but for the listed reasons. The
model has frames, which are filters evaluated later; the property speaks of rows and
rules. `RoutingInv` says for each rule passed what the frames mean for a row, fresh or
not: it is kept by the passing frame exactly if it passed every rule (`PassingTells`),
by at most one part of the quarantine (`PartsApart`) and by the part of the rule it
failed (`PartsComplete`); it is still passing or a rule has dropped it for a listed
reason (`Covered`); no row came to an aborting rule and failed it (`AbortsHeld`).
`Covered` and `AbortsHeld` are stated for a time, since a row that goes stale between
two steps changes sides: the invariant has them for now while the rules are walked, and
for the time of each sink afterwards (`SinksTell`). The rate is about sizes: an
injection takes the sink's copies into the pairs of part and row the rule counted
(`RateHeld`), and without a quarantine by age both see the same rows (`PartsAgeless`).
Assumed (`RoutingAssumption`): rules have what their type needs, a Channel has at most
one condition, a Junction has branches.

`HealRunProofs` proves for every set of configurations and any number of runs that real
data needs trust, that blueprint, backups and archive account for each other wherever a
kill falls, and that exit code and outcome rows are honest. The three have one
invariant, `LoopInv`. Its core is `PatchesNumbered`: the number of the next patch is on
no file, trial or row yet, so whatever is known of the patch in hand is known from this
iteration. `PatchIsCurrent`, `TrustIsEarned`, `GateRemembered`, `WriteIsProven` and
`NotTurnedDown` say what each phase may count on about the patch; `WritesOnce`,
`ResultTells` and `StagedTells` what a run has left behind. The rows are honest in two
parts: which patches worked and were turned down holds without exception, and that a
row "applied, successful" names a patch of the blueprint (`RowsFollowWrites`) but for
the patches in `cut`. Assumed is only that
`NoPatch` is no patch.

`ExecutorProofs` proves of every walk over any manifest, with any number of threads,
executions, kills and resumes: the status is accounted for, completed sinks stay as they
are on a resume, and a sink is given only whole lineages. `WalkInv` has what is left of
each thread as an end of its order (`TodoInOrder`), the reasons of the status
(`QuietWalk`, `FailureKept`, `AgentKept`, `EndsAsItWent`), where data comes from
(`DataProduced`, `DataFed`, `WritesFed`) and what Probes and gates have to do with each
other (`GateInv`). Actions that differ only in what a module leaves behind share one
step (`Turn`, the ways to stop).

The walk counts on its order, and that is proved too: `OrdersAreSound` says that every
module has one turn, in the thread of its component, behind everything it reads from,
with nothing but other Probes between a module and a Probe of it. Kahn's queue is two
folds: the in-degree of a module is the number of edges that still hold it back
(`Degrees`, `Waiting`), so whatever is in the queue or the order waits for nothing
(`QueueSound`, kept edge by edge in `Released` and round by round in `RoundSound`).
Placing the Probes (`Appended`, `TapsPlaced`) and dealing the order out to threads
(`Kept`) keep `WellOrdered`; the second needs that a component holds both ends of its
edges and taps and shares no module with another (`ThreadsFacts`), which is so because as
many hops as there are modules close a set (`Reached`). Assumed are unique ids, which
the schema checks, that the sort has reached every module and that no edge leaves a
Probe (`SortAssumption`): `execute` raises otherwise.

Two theorems have a hypothesis about the manifest that no code checks. No module starves
(`SinksGetWholeLineage`) if every data edge leaves a port its module fills
(`PortsServed`), and a gate waits for the Probe above it if it goes by one Probe
(`OneProbePerGate`). The run's manifests meet both.

`PipelineProofs` proves `ViewsStayApart` for any threads, statements, retries and
executions. `ViewsInv` says that what a thread has in hand is its own (`InHand`), that
every name it has registered in this attempt stands for its own frame unless the name is
shared (`RegisteredApart`), and that every registered name has a thread that will still
drop it (`SomebodyDrops`).

Its second part is the parser's verdict on a graph of any size. `KahnFindsCycles`:
`detect_cycles` leaves something over exactly if some link can be followed back to where
it comes from. One direction is an invariant of the rounds (`KahnHolds`): what is
released is closed downwards, and nothing on a cycle is ever released. The other one
is a counting argument - as many rounds as modules are enough, because a round that
releases nothing new is the last - and then a smallest set: among the modules left over,
each with a predecessor left over, one with the fewest modules above it must be above
itself (`CycleAmong`). `CyclesAreFound` is the run's property `CycleVerdict`, which adds
unique ids and links and spillways that name something (`ParsesIfSound`) and that no later stage takes
the verdict back (`VerdictInv`). Assumed: a blueprint's modules are a sequence.

Induction over data. What a fold computes cannot be shown by the library's induction
theorems, whose operator parameter the provers cannot instantiate. `FoldInduction`
takes the step and the predicate as CONSTANTS with parameters of their own and proves,
from the definition of `FoldLeft` and the well-foundedness of the naturals, that what
holds of the base and is passed on by every step holds of the fold
(`FoldLeftInduction`). A module that folds takes one instance per fold, for example
`KahnFold == INSTANCE FoldInduction WITH step <- KahnStep, Holds <- KahnHolds`; a first
lemma says that the model's own fold is that instance's (`RoundsFold`, `OperationsFold`
and the like). This is why the models fold where they could recurse.

`SurveyorProofs` is about the store. Records: `RecordsInv` follows the id of a run
(`IdsOwned`: its own, or a uuid of the patch it is at), what it has written before the
row of a failure context (`RowsOwned`) and the paths in that row (`PathsLead`), whoever
shares the id; a stored error can be healed. Files are written under an id while no
other run records under it (`RecordersApart`, `FilesWritten`), so a torn file is either
still being written or its writer was killed (`HalfRecorded`), which are the exceptions
of `ErrorsAreHealable`. The cap needs `SpendInv`: at any time at
most `Cap` plus the number of other runs sessions count against it or may yet come to; a
run reads the sum before it starts and others may have read it too. So the cap itself
is not a bound, and sessions that leave no row are in no sum. Assumed: uuids are
no given ids, there are finitely many runs, `Nothing` is no value. Signals: `SignalsInv`
dates every row by its execution (`RowsDated`); since a Probe has one turn in an
execution, the newest of its rows with a verdict is that turn's (`VerdictsTold`),
however many rows an earlier run left under the same id. For plans, `NewestTells` says
that a module's newest snapshot is the one of its last success: pruning keeps the
newest, because `KeepLast` is at least 1. Assumed: run ids given by hand are no uuids,
versions are typed. Benchmark: exit code 0 is earned because every pair graded was
judged by its own file (`GradingInv`) - but for what `ExitZeroMeansFixed` lists, an effect
nobody could grade among it -, and the gate fails exactly on a regression
because dates in the store follow the order of insertion and each date belongs to one
invocation (`StoreInv`: `OneAtATime`, `EntriesOwned`, `DatesInOrder`).

`ReviewProofs` has the lifecycle, the writers of the file and Airflow. `HistoryInv`
(`OwnContent`, `ClaimsInTime`) gives that a rollback takes the patch out, whatever else
happens. That no patch is lost or filed twice, and that what is not committed is
reported, holds if nobody applies a file out of `applied/`: `patch apply` deletes its
argument when it is done (`apply.py:354`), and then it deletes the archived copy it has
just written; see Divergences. Under `"applied" \notin ApplyDirs`, which the run's
constants meet as well, `FoldersInv` (`FiledAreKnown`, `FiledInOneFolder`, `BusyWith`:
which patch the command in progress has between two folders) and `LastWritten` are
inductive. `EditsInv` says that a run which has its backup replaces nothing that is in
no backup (`BackupsComplete`) and that a reviewer installs what the file held when it
verified (`VerifiedComplete`), except for saves in the window, which `raced` remembers, and
saves whose only backup another one has replaced (`overwritten`; `CopiesKeep`).
`WritingInv` is about the runs: what a run has seen of its patch is what the patch would
do to the same content again (`Remembers`), what was put in place had been dumped
(`PutWasDumped`), and what waits under the temporary name was put in place by nobody yet
(`PutOnce`); so of any number of runs no two report the same content as written.
`WrittenAsJudged` needs besides that an operation leaves the patch's own objects alone,
unless the patch changes itself (`ChangesItself`: it rewires an edge it adds, or writes
below a context block it gives), and that is proved, not assumed:
`SpecsAreKept` is an induction over the operations of a patch. Its predicate (`Worked`)
says of the state after k operations that ids, edges and origins have the shape a
blueprint has (`IsBlueprint`, `IsPatch`, which the constants must meet at first), that an
edge with an origin is the PatchSpec's edge of that origin, that the PatchSpec differs
from the one it was only in such edges and values (`ChangedWithin`), and that every path
in it was there or is written by the patch. `RunsWriteWhatWasJudged` excepts patches that
rewire, as the property does, and has as its premise that no patch in hand writes below a
block it gives; TLC finds `WrittenAsJudged` kept by one of the second kind, too. `ContentsInv` carries this
through every interleaving: whatever content a run has read, tried or put in place, a
reviewer has verified or a person has saved has only legal paths (`ContentsFit`), and
parses if its run's patch is steady (`ContentsParse`). So in the file no module has a path
that was neither there nor allowed (`PathsStayLegal`, for every patch), and the file
parses (`FileIsSound`, which is `FileStaysSound`) as long as no run's patch changes
itself. The exception is real: the next application of such a patch need not give what
was compiled. The run has one of either kind, and there TLC finds the property kept.
`AirflowInv`: a file lies in `applied/` or `rejected/` only because that was decided
(`FiledAsDecided`), and what the poll saw was decided, even if it moved on since
(`ListingHasCause`).

Where two parts share a proof module their names are disjoint; each theorem is of one
specification.

Only model-checked:

* everything under fairness (`Terminates`, `RunEnds`, `ExecEnds`, `DecisionIsHeard`) -
  liveness is out of the prover's reach;
* `ManifestSound` and `ContextResolved`. That a manifest of nested Arcades has unique ids
  and closed names depends on how ids are spelt: two Arcades `a__b` and `a__b_` may both
  make `a__b___c`, and only the collision check at the end of a pass stops it. In between
  edges join the wrong modules, so a proof needs the grammar of ids, which the model
  keeps to tokens. The context's substitution is a fold over a set in no fixed order
  inside a function by depth;
* `LineageGateHears`, which is no theorem: for patches the run does not have it fails.
  Removing the only upstream of a Channel that selects named columns and a star changes
  what it puts out, and a read below can break without its table being among the touched
  modules;
* `ReplyUnderstood`: the run has the shapes the aliases of the grammar are for, and no
  operation with both an `op` and a `type`; for arbitrary replies it is no theorem.

The properties of the five violation runs are false, so there is nothing to prove.

## Not modelled

Retries of a module appear by their outcome (in SessionViews, by their attempts), SQL
and metrics not at all; the wording of prompts and reprompts, the HTTP calls of the
providers and the signatures of errors are choices of the environment. Two runs of
one blueprint meet in PatchGates and RunRecords, not in HealRun. Rollback assumes
that the blueprint lies in the root of the repository (elsewhere its relative
paths miss). The row-aligned modes of a Funnel depend on how partitions number
rows. Webhooks are daemon threads nobody joins: whether one gets its turn before
the process exits is the interpreter's business. Stores and depot have one statement
per call; what they hold is in the models of their callers. Test runner, doctor,
configuration, secrets, redaction, warnings and the remaining commands read, print or
substitute and keep no state these questions depend on.

## Plan

1. HealSession, HealAttempts and proofs; HealCascade, HealRun; Executor - done.
2. PatchLifecycle, AirflowApproval; Watermarks, BlueprintCompile - done.
3. RowRouting, SessionViews - done.
4. PatchOps, PatchGates, ReplyParsing; RunRecords, RunSignals; Benchmark;
   ContextMap - done.
5. Theorems: HealAttempts, HealCascade, Watermarks; HealRun, Executor, SessionViews,
   PatchLifecycle, PatchGates, AirflowApproval, RunRecords, RunSignals, Benchmark,
   RowRouting - done.
6. Induction along folds, and with it PatchOps and the parser of BlueprintCompile - done.
7. Worth doing next: ids of BlueprintCompile as sequences without a double underscore
   inside, and from that the naming half of `ManifestSound`.
