----------------------------- MODULE Benchmark -----------------------------
(***************************************************************************)
(* aqueduct benchmark: scenarios are run against models by a pool of       *)
(* workers (surveyor/scenario.py), graded, stored in a DuckDB file and     *)
(* compared with earlier benchmarks (surveyor/benchmark_store.py), and the *)
(* exit code is what CI goes by (cli.py).  Several invocations may share a *)
(* store; DuckDB lets one process at a time open it.                       *)
(*                                                                         *)
(* An answer is what the session of HealAttempts came back with: nothing,  *)
(* a deferral, a fix, a patch that applies and does not help, or one that  *)
(* applied in the session and does not apply again (PatchOps).  Of the     *)
(* quality scores only the diagnosis score is kept, the one the gate uses. *)
(***************************************************************************)
EXTENDS Naturals, Sequences, FiniteSetsExt, Functions

CONSTANTS
    Files,          \* scenario files
    Models,
    Benches,        \* what the files may hold, and who runs them with which options
    Absent,         \* what is not in a scenario, or not in a row
    Free            \* no process has the store open

Answers == {"none", "defer", "fix", "wrong", "once"}
Asserted == {"yes", "no", Absent}
Pairs == Files \X Models

\* loads: the file is a scenario; builds: its blueprint compiles; sane: its
\* assertions can be evaluated; diagnosis: a cause or a category is expected;
\* answers: what the models have for it.
ASSUME BenchmarkAssumption ==
    /\ Absent \notin Nat \cup {"yes", "no"}
    /\ \A bench \in Benches :
        /\ \A f \in Files : LET s == bench.suite[f] IN
            /\ {s.loads, s.builds, s.sane, s.diagnosis} \subseteq BOOLEAN
            /\ {s.valid, s.applies, s.defer} \subseteq Asserted
            /\ s.effect \in {"effect", "ops", Absent}
            /\ s.answers \subseteq Answers
        /\ Free \notin DOMAIN bench.options
        /\ \A i \in DOMAIN bench.options :
               bench.options[i] \in [gate : BOOLEAN, persist : BOOLEAN, version : Nat]

VARIABLES
    suite,
    stage,      \* of each invocation
    options,    \* gate, persist, and the PROMPT_VERSION of the code
    todo,       \* pairs whose result is not collected
    answers,    \* history: what each pair was answered
    results,    \* (scenario id, model) -> row
    unsaved,    \* keys of results not inserted yet
    regressed,  \* verdict of the gate
    exit,
    opened,     \* the invocation that has the store open, or Free
    clock,      \* recorded_at of the newest rows
    store       \* rows, in the order of their insertion

benchVars == <<suite, stage, options, todo, answers, results, unsaved, regressed, exit,
          opened, clock, store>>

-----------------------------------------------------------------------------
(* Grading.                                                                 *)

\* Does the patch apply once more, to the blueprint of the scenario?
Applies(a) == a \notin {"none", "once"}

\* Only an assertion on patch_applies tries the patch; the effect is graded on
\* what that left, and on nothing if nobody asked.
Tried(s, a) == s.applies # Absent /\ Applies(a)

FailsValid(s, a) ==
    s.valid # Absent /\ IF a = "defer" THEN s.defer # "yes" \/ s.valid = "no"
                        ELSE (s.valid = "yes") # (a # "none")
FailsDefer(s, a) == s.defer # Absent /\ (s.defer = "yes") # (a = "defer")
FailsApplies(s, a) ==
    s.applies # Absent /\ IF a = "none" THEN s.applies = "yes"
                          ELSE (s.applies = "yes") # Applies(a)

\* _check_expected_effect; the deleted ops syntax fails whatever the patch is.
FailsEffect(s, a) ==
    a # "none" /\ (s.effect = "ops" \/ (s.effect = "effect" /\ Tried(s, a) /\ a # "fix"))

\* Mutant: an allowed deferral is not asked whether it was expected.
RowLenient(s, a, diag, version) ==
    [passed |-> ~(FailsValid(s, a) \/ FailsApplies(s, a) \/ FailsEffect(s, a)),
     valid |-> a # "none", applies |-> Tried(s, a), diag |-> diag, version |-> version]

\* _check_assertions and the verdict of run_scenario.
Row(s, a, diag, version) ==
    [passed |-> ~(FailsValid(s, a) \/ FailsDefer(s, a) \/ FailsApplies(s, a) \/ FailsEffect(s, a)),
     valid |-> a # "none", applies |-> Tried(s, a), diag |-> diag, version |-> version]

\* No FailureContext, no session.
Unbuilt(version) ==
    [passed |-> FALSE, valid |-> FALSE, applies |-> FALSE, diag |-> Absent, version |-> version]

-----------------------------------------------------------------------------
(* An invocation.                                                           *)

Invocations == DOMAIN options

BenchmarkInit ==
    /\ \E bench \in Benches : suite = bench.suite /\ options = bench.options
    /\ stage = [i \in Invocations |-> "running"]
    /\ todo = [i \in Invocations |-> {p \in Pairs : suite[p[1]].loads}]
    /\ answers = [i \in Invocations |-> [p \in Pairs |-> Absent]]
    /\ results = [i \in Invocations |-> <<>>]
    /\ unsaved = [i \in Invocations |-> {}]
    /\ regressed = [i \in Invocations |-> FALSE]
    /\ exit = [i \in Invocations |-> Absent]
    /\ opened = Free /\ clock = 0 /\ store = <<>>

Goes(i, from, to) == stage[i] = from /\ stage' = [stage EXCEPT ![i] = to]
Exits(i, code) == exit' = [exit EXCEPT ![i] = code]

Key(p) == <<suite[p[1]].id, p[2]>>

\* A worker is done with a pair; a later result of the same id and model takes
\* the place of an earlier one.
Collects(i, p, row) ==
    /\ stage[i] = "running" /\ p \in todo[i]
    /\ todo' = [todo EXCEPT ![i] = @ \ {p}]
    /\ results' = [results EXCEPT ![i] = [k \in DOMAIN @ \cup {Key(p)} |->
                                             IF k = Key(p) THEN row ELSE @[k]]]
    /\ UNCHANGED <<suite, stage, options, unsaved, regressed, exit, opened, clock, store>>

Finishes(i, p, a, diag) ==
    LET s == suite[p[1]] IN
    /\ s.builds /\ s.sane /\ a \in s.answers
    /\ diag \in IF s.diagnosis THEN 0..1 ELSE {Absent}
    /\ a = "none" => diag \in {0, Absent}
    /\ Collects(i, p, Row(s, a, diag, options[i].version))
    /\ answers' = [answers EXCEPT ![i][p] = a]

DoesNotBuild(i, p) ==
    /\ ~suite[p[1]].builds
    /\ Collects(i, p, Unbuilt(options[i].version))
    /\ UNCHANGED answers

\* An exception in a worker is logged and the pair is gone.
Vanishes(i, p) ==
    /\ stage[i] = "running" /\ p \in todo[i] /\ suite[p[1]].builds /\ ~suite[p[1]].sane
    /\ todo' = [todo EXCEPT ![i] = @ \ {p}]
    /\ UNCHANGED <<suite, stage, options, answers, results, unsaved, regressed, exit,
                   opened, clock, store>>

\* Ctrl-C: exit code 130; results are still in memory only, and lost.
Interrupted(i) ==
    /\ Goes(i, "running", "done")
    /\ Exits(i, 130)
    /\ UNCHANGED <<suite, options, todo, answers, results, unsaved, regressed,
                   opened, clock, store>>

AllCollected(i) ==
    /\ todo[i] = {}
    /\ Goes(i, "running", IF options[i].persist THEN "collected" ELSE "report")
    /\ UNCHANGED <<suite, options, todo, answers, results, unsaved, regressed, exit,
                   opened, clock, store>>

-----------------------------------------------------------------------------
(* persist_results and diff_latest.                                         *)

Opens(i) ==
    /\ Goes(i, "collected", "inserting")
    /\ opened = Free /\ opened' = i
    /\ clock' = clock + 1
    /\ unsaved' = [unsaved EXCEPT ![i] = DOMAIN results[i]]
    /\ UNCHANGED <<suite, options, todo, answers, results, regressed, exit, store>>

AfterPersist(i) == IF options[i].gate THEN "gating" ELSE "report"

\* The store is locked: no row, and no error either.
CannotOpen(i) ==
    /\ Goes(i, "collected", AfterPersist(i))
    /\ opened # Free
    /\ UNCHANGED <<suite, options, todo, answers, results, unsaved, regressed, exit,
                   opened, clock, store>>

\* All rows of an invocation have one recorded_at; each is committed by itself.
Inserts(i, k) ==
    /\ stage[i] = "inserting" /\ k \in unsaved[i]
    /\ store' = Append(store, [key |-> k, by |-> i, at |-> clock, row |-> results[i][k]])
    /\ unsaved' = [unsaved EXCEPT ![i] = @ \ {k}]
    /\ UNCHANGED <<suite, stage, options, todo, answers, results, regressed, exit, opened, clock>>

Closes(i) ==
    /\ unsaved[i] = {}
    /\ Goes(i, "inserting", AfterPersist(i))
    /\ opened' = Free
    /\ UNCHANGED <<suite, options, todo, answers, results, unsaved, regressed, exit, clock, store>>

\* A kill between two rows.
Killed(i) ==
    /\ Goes(i, "inserting", "done")
    /\ Exits(i, 1)
    /\ opened' = Free
    /\ UNCHANGED <<suite, options, todo, answers, results, unsaved, regressed, clock, store>>

Newest(rows) == CHOOSE e \in rows : \A other \in rows : other.at <= e.at

\* Mutant: the baseline is the newest earlier row, whatever the prompt was.
BaselineAnyPrompt(current) ==
    LET earlier == {e \in Range(store) : e.key = current.key /\ e.at < current.at}
    IN  IF earlier = {} THEN Absent ELSE Newest(earlier)

\* _fetch_baseline: of the same prompt version if there is one.
Baseline(current) ==
    LET earlier == {e \in Range(store) : e.key = current.key /\ e.at < current.at}
        same == {e \in earlier : e.row.version = current.row.version}
    IN  IF same # {} THEN Newest(same) ELSE IF earlier # {} THEN Newest(earlier) ELSE Absent

\* _compare; the confidence is not compared.
Regressed(before, after) ==
    \/ before.passed /\ ~after.passed
    \/ before.applies /\ ~after.applies
    \/ before.valid /\ ~after.valid
    \/ before.diag # Absent /\ after.diag # Absent /\ after.diag < before.diag

\* The newest row of a pair is taken for the one this invocation stored.
EntryRegressed(k) ==
    LET rows == {e \in Range(store) : e.key = k}
    IN  /\ rows # {}
        /\ Baseline(Newest(rows)) # Absent
        /\ Regressed(Baseline(Newest(rows)).row, Newest(rows).row)

Gates(i) ==
    /\ Goes(i, "gating", "report")
    /\ opened = Free
    /\ regressed' = [regressed EXCEPT ![i] = \E k \in DOMAIN results[i] : EntryRegressed(k)]
    /\ UNCHANGED <<suite, options, todo, answers, results, unsaved, exit, opened, clock, store>>

\* Nothing to compare, so nothing has regressed.
CannotGate(i) ==
    /\ Goes(i, "gating", "report")
    /\ opened # Free
    /\ UNCHANGED <<suite, options, todo, answers, results, unsaved, regressed, exit,
                   opened, clock, store>>

Reports(i) ==
    /\ Goes(i, "report", "done")
    /\ Exits(i, IF (\E k \in DOMAIN results[i] : ~results[i][k].passed) \/ regressed[i]
                THEN 1 ELSE 0)
    /\ UNCHANGED <<suite, options, todo, answers, results, unsaved, regressed,
                   opened, clock, store>>

BenchmarkNext ==
    \E i \in Invocations :
        \/ \E p \in Pairs : \/ \E a \in Answers, diag \in {0, 1, Absent} : Finishes(i, p, a, diag)
                            \/ DoesNotBuild(i, p) \/ Vanishes(i, p)
        \/ Interrupted(i) \/ AllCollected(i)
        \/ Opens(i) \/ CannotOpen(i) \/ \E k \in unsaved[i] : Inserts(i, k)
        \/ Closes(i) \/ Killed(i) \/ Gates(i) \/ CannotGate(i) \/ Reports(i)

BenchmarkSpec == BenchmarkInit /\ [][BenchmarkNext]_benchVars

-----------------------------------------------------------------------------
(* Properties.                                                              *)

\* What the author of a scenario asks for, of the answer itself: the gating
\* assertions, and the effect of expected_patch, which gates by itself.
MeetsAssertions(s, a) ==
    /\ s.applies = "yes" => a \notin {"none", "once"}
    /\ s.defer = "yes" => a = "defer"
    /\ s.valid = "yes" /\ s.defer # "yes" => a \notin {"none", "defer"}

Meets(s, a) == MeetsAssertions(s, a) /\ (s.effect = "effect" => a = "fix")

\* An effect is looked for in what trying the patch left, and the patch is
\* tried for patch_applies only.
EffectUngraded(s) == s.effect = "effect" /\ s.applies # "yes"

\* A benchmark that exits 0 has seen every pair answered as its scenario asks,
\* whatever the workers, the store and other invocations did.  What it does not
\* count: files that do not load, pairs whose worker died, pairs whose result
\* was replaced by that of another file with the same id, and an expected
\* effect without patch_applies, which any answer passes, none included.
ExitZeroMeansFixed ==
    \A i \in Invocations : exit[i] = 0 =>
        \A p \in Pairs :
            LET s == suite[p[1]] IN
            \/ ~s.loads
            \/ s.builds /\ ~s.sane
            \/ \E other \in Pairs \ {p} : suite[other[1]].loads /\ Key(other) = Key(p)
            \/ s.builds /\ Meets(s, answers[i][p])
            \/ s.builds /\ EffectUngraded(s) /\ MeetsAssertions(s, answers[i][p])

LastStored(positions) == store[Max(positions)]

\* What the results of an invocation have to be measured by: the last row of
\* another invocation, of the same prompt version if there is one.
Measure(i, k) ==
    LET others == {j \in DOMAIN store : store[j].key = k /\ store[j].by # i}
        same == {j \in others : store[j].row.version = options[i].version}
    IN  IF same # {} THEN LastStored(same) ELSE IF others # {} THEN LastStored(others) ELSE Absent

Stored(i, k) == \E e \in Range(store) : e.by = i /\ e.key = k

\* The gate fails an invocation exactly if one of its results is worse than the
\* newest one of the same prompt version (of any, if there is none), provided
\* its rows were stored and nobody stored newer ones since.
RegressionSeen ==
    [][\A i \in Invocations :
        (/\ Gates(i)
         /\ \A k \in DOMAIN results[i] :
               /\ Stored(i, k)
               /\ LastStored({j \in DOMAIN store : store[j].key = k}).by = i)
        => (regressed'[i] <=>
               \E k \in DOMAIN results[i] :
                   /\ Measure(i, k) # Absent
                   /\ Regressed(Measure(i, k).row, results[i][k]))]_benchVars

=============================================================================
