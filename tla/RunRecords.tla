----------------------------- MODULE RunRecords -----------------------------
(***************************************************************************)
(* What runs of one blueprint leave in its observability store             *)
(* (surveyor/surveyor.py, surveyor/blob_store.py): a run_records row for   *)
(* each execution, the context of a failure with its large texts in blob   *)
(* files, and a healing_outcomes row for each heal; and what is read back  *)
(* from it: the pre-trigger guardrails and the hourly cap of the healing   *)
(* loop (cli.py), and `aqueduct heal`.                                     *)
(*                                                                         *)
(* HealRun has the loop in full for one run after another; here several    *)
(* runs are under way, and of the loop only what writes the store is left. *)
(***************************************************************************)
EXTENDS Naturals, FiniteSets, Sequences

CONSTANTS
    Runs,           \* invocations of aqueduct run; each starts once
    GivenIds,       \* what --run-id may be; runs may be given the same
    Failures,       \* [label: error_type of a rule, class: of the exception]
    Guardrails,     \* [never, on: sets of labels and classes]
    Nothing,        \* no label, no exception, no parent, no row, no file
    Torn,           \* a file that is being written, or was left half written
    MaxPatches,
    MaxAttempts,    \* of a session
    Cap,            \* max_heal_attempts_per_hour
    Window,         \* the last 60 minutes, in ticks
    LastTime

\* The uuid of an iteration of a run, and of the trial of its patch.
Ids == GivenIds \cup (Runs \X (1..MaxPatches) \X {"iteration"})
                \cup (Runs \X (1..MaxPatches) \X {"trial"})
IsTrial(i) == i \notin GivenIds /\ i[3] = "trial"

\* run_records: by, a history field, is the run that wrote the row last.
RecordRow == [status : {"running", "error", "patched", "success"},
              parent : GivenIds \cup {Nothing}, by : Runs]

\* failure_contexts: trace is the path of a blob, or empty.
ContextRow == [by : Runs, label : {f.label : f \in Failures},
               trace : {<<>>} \cup ({"blobs"} \X Ids)]

\* A manifest: of which run, and with its how-manieth patch (0: as compiled).
ManifestText == [by : Runs, patch : 0..MaxPatches]

ASSUME RecordsAssumption ==
    /\ {MaxPatches, MaxAttempts, Cap, Window, LastTime} \subseteq Nat
    /\ MaxPatches > 0 /\ Cap > 0
    /\ IsFiniteSet(Runs)
    /\ \A f \in Failures : DOMAIN f = {"label", "class"}
    /\ \A g \in Guardrails : DOMAIN g = {"never", "on"}
    \* A uuid is new.
    /\ \A i \in GivenIds : i \notin Runs \X Nat \X {"iteration", "trial"}
    /\ Nothing \notin Runs \cup Ids \cup Failures
    /\ Nothing \notin RecordRow \cup ContextRow \cup ManifestText
    /\ Torn \notin Runs \cup ManifestText

VARIABLES
    guardrails, multi,      \* agent.guardrails; is max_patches > 1?
    at,                     \* where each run is
    outer,                  \* run_id the user sees
    id,                     \* run_id of the execution under way
    patchCount,
    failure,                \* how that execution failed
    records,                \* run_records: id -> row, or Nothing
    manifests, traces,      \* blob files: id -> manifest; id -> run it is the trace of
    contexts,               \* failure_contexts
    outcomes,               \* healing_outcomes
    sessions,               \* history: sessions with the agent
    now

loopVars == <<at, outer, id, patchCount, failure>>
storeVars == <<records, manifests, traces, contexts, outcomes>>
recordsVars == <<guardrails, multi, loopVars, storeVars, sessions, now>>

RecordsInit ==
    /\ guardrails \in Guardrails /\ multi \in BOOLEAN
    /\ at = [r \in Runs |-> "none"]
    /\ outer = [r \in Runs |-> Nothing] /\ id = outer
    /\ patchCount = [r \in Runs |-> 0]
    /\ failure = outer
    /\ records = [i \in Ids |-> Nothing]
    /\ manifests = records /\ traces = records /\ contexts = records
    /\ outcomes = {} /\ sessions = {} /\ now = 0

Moves(r, from, to) == at[r] = from /\ at' = [at EXCEPT ![r] = to]
Fixed == UNCHANGED <<guardrails, multi, now>>
Put(table, key, row) == table' = [table EXCEPT ![key] = row]

-----------------------------------------------------------------------------
(* Surveyor.start and record.                                               *)

\* A run is over; "cut": it was killed while it recorded a failure.
Gone == {"ended", "cut"}

\* A second run under the same id, once the first is over, takes the row over,
\* not the context.
Starts(r, given) ==
    /\ \A q \in Runs : outer[q] = given => at[q] \in Gone
    /\ Moves(r, "none", "executing")
    /\ Put(outer, r, given) /\ Put(id, r, given)
    /\ Put(records, given, [status |-> "running", parent |-> Nothing, by |-> r])
    /\ Fixed /\ UNCHANGED <<patchCount, failure, manifests, traces, contexts,
                            outcomes, sessions>>

Trying(r) == IsTrial(id[r])

\* register_iteration is called for iterations, and for no trial.
Parent(r) == IF id[r] \in GivenIds \/ Trying(r) THEN Nothing ELSE outer[r]

\* The execution is over, and its row is written; f is how it failed, or Nothing.
RecordsRow(r, f) ==
    /\ Moves(r, "executing", IF f # Nothing THEN "blobs" ELSE IF Trying(r) THEN "tried" ELSE "ended")
    /\ Put(failure, r, f)
    /\ Put(records, id[r],
           [status |-> IF f # Nothing THEN "error" ELSE IF Trying(r) THEN "patched" ELSE "success",
            parent |-> Parent(r), by |-> r])
    /\ Fixed /\ UNCHANGED <<outer, id, patchCount, manifests, traces, contexts,
                            outcomes, sessions>>

\* A failure is being recorded: its row is written, its context is not.
Recording == {"blobs", "manifest", "stack", "trace", "context"}

\* What the Surveyor of a run was made with, and what an execution ran: the
\* trial of a patch runs another manifest, and the Surveyor stays the same.
SurveyorManifest(r) == [by |-> r, patch |-> 0]
Ran(r, i) == [by |-> r, patch |-> IF IsTrial(i) THEN i[2] ELSE 0]

\* Mutant: the trace is filed under the run the user sees.
TraceFileOfOuter(r) == outer[r]

\* externalise files the texts under the id of the execution.
TraceFile(r) == id[r]

\* One file after the other, and each is emptied before it is written.
OpensManifest(r) ==
    /\ Moves(r, "blobs", "manifest")
    /\ Put(manifests, id[r], Torn)
    /\ Fixed /\ UNCHANGED <<outer, id, patchCount, failure, records, traces, contexts,
                            outcomes, sessions>>

\* An empty text has no file.
FillsManifest(r) ==
    /\ Moves(r, "manifest", IF failure[r].class = Nothing THEN "context" ELSE "stack")
    /\ Put(manifests, id[r], SurveyorManifest(r))
    /\ Fixed /\ UNCHANGED <<outer, id, patchCount, failure, records, traces, contexts,
                            outcomes, sessions>>

OpensTrace(r) ==
    /\ Moves(r, "stack", "trace")
    /\ Put(traces, TraceFile(r), Torn)
    /\ Fixed /\ UNCHANGED <<outer, id, patchCount, failure, records, manifests, contexts,
                            outcomes, sessions>>

FillsTrace(r) ==
    /\ Moves(r, "trace", "context")
    /\ Put(traces, TraceFile(r), r)
    /\ Fixed /\ UNCHANGED <<outer, id, patchCount, failure, records, manifests, contexts,
                            outcomes, sessions>>

\* stack_trace of the FailureContext, in the store and in memory: a path.
StackTrace(r) == IF failure[r].class = Nothing THEN <<>> ELSE <<"blobs", id[r]>>

RecordsContext(r) ==
    /\ Moves(r, "context", IF Trying(r) THEN "tried" ELSE "deciding")
    /\ Put(contexts, id[r],
           [by |-> r, label |-> failure[r].label, trace |-> StackTrace(r)])
    /\ Fixed /\ UNCHANGED <<outer, id, patchCount, failure, records, manifests, traces,
                            outcomes, sessions>>

-----------------------------------------------------------------------------
(* The decision to ask the agent.                                           *)

\* _extract_stack_class of the last line: of a path, its file extension.
StackClasses(trace, f) ==
    IF trace = <<>> THEN {} ELSE IF trace[1] = "blobs" THEN {"zst"} ELSE {f.class}

\* _check_heal_guardrails.
ShouldHeal(r) ==
    LET f == failure[r]
        candidates == ({f.label} \ {Nothing}) \cup StackClasses(StackTrace(r), f)
    IN  /\ candidates \cap guardrails.never = {}
        /\ guardrails.on = {} \/ candidates \cap guardrails.on # {}

\* Mutant: the cap is on patches that were applied.
RecentApplied == Cardinality({o \in outcomes : o.at + Window >= now /\ o.applied})

\* count_recent_heal_attempts.
Recent == Cardinality({o \in outcomes : o.at + Window >= now})

Patched(r) == patchCount[r] >= IF multi THEN MaxPatches ELSE 1

\* The count is 0 if the store cannot be opened, as while another run has it.
Others(r) == {q \in Runs \ {r} : at[q] \notin Gone \cup {"none"}}

Asks(r, missed) ==
    /\ Moves(r, "deciding", "session")
    /\ ~Patched(r) /\ ShouldHeal(r)
    /\ IF missed THEN Others(r) # {} ELSE Recent < Cap
    /\ sessions' = sessions \cup {[run |-> r, n |-> patchCount[r], failure |-> failure[r],
                                   at |-> now, missed |-> missed]}
    /\ Fixed /\ UNCHANGED <<outer, id, patchCount, failure, storeVars>>

DoesNotAsk(r) ==
    /\ Moves(r, "deciding", "ended")
    /\ Patched(r) \/ ~ShouldHeal(r) \/ Recent >= Cap
    /\ Fixed /\ UNCHANGED <<outer, id, patchCount, failure, storeVars, sessions>>

-----------------------------------------------------------------------------
(* What becomes of the session.                                             *)

\* Rows of the session under way; an attempt without a patch has one each.
Records(r, count, applied) ==
    outcomes' = outcomes \cup
        {[run |-> r, n |-> patchCount[r], attempt |-> a, applied |-> applied, at |-> now] :
            a \in 1..count}

\* No valid patch: a row for each attempt, as far as they can be written.
SessionFails(r, count) ==
    /\ Moves(r, "session", "ended")
    /\ Records(r, count, FALSE)
    /\ Fixed /\ UNCHANGED <<outer, id, patchCount, failure, records, manifests,
                            traces, contexts, sessions>>

\* Staged, blocked by a guardrail, rejected by a gate of auto mode, or written
\* after the sandbox alone; patch_count is not read again.
Settles(r, applied) ==
    /\ Moves(r, "session", "ended")
    /\ Records(r, 1, applied)
    /\ Fixed /\ UNCHANGED <<outer, id, patchCount, failure, records, manifests, traces,
                            contexts, sessions>>

\* The patched blueprint does not compile: auto mode leaves without a row.
DoesNotCompile(r) ==
    /\ Moves(r, "session", "ended")
    /\ IF multi THEN Records(r, 1, FALSE) ELSE UNCHANGED outcomes
    /\ Fixed /\ UNCHANGED <<outer, id, patchCount, failure, records, manifests, traces,
                            contexts, sessions>>

Iterates(r, n) == Put(id, r, <<r, n, "iteration">>)

\* A gate rejects the patch and the loop goes on with the next.
Rejected(r) ==
    /\ multi /\ Moves(r, "session", "executing")
    /\ Records(r, 1, FALSE)
    /\ Put(patchCount, r, patchCount[r] + 1) /\ Iterates(r, patchCount[r] + 1)
    /\ Fixed /\ UNCHANGED <<outer, failure, records, manifests, traces,
                            contexts, sessions>>

\* execute() of the patched manifest under a fresh id.
Tries(r) ==
    /\ Moves(r, "session", "executing")
    /\ Put(patchCount, r, patchCount[r] + 1)
    /\ Put(id, r, <<r, patchCount[r] + 1, "trial">>)
    /\ Fixed /\ UNCHANGED <<outer, failure, storeVars, sessions>>

TrialEnds(r) ==
    /\ IF multi /\ failure[r] # Nothing
       THEN Moves(r, "tried", "executing") /\ Iterates(r, patchCount[r])
       ELSE Moves(r, "tried", "ended") /\ UNCHANGED id
    /\ outcomes' = outcomes \cup {[run |-> r, n |-> patchCount[r] - 1, attempt |-> 1,
                                   applied |-> TRUE, at |-> now]}
    /\ Fixed /\ UNCHANGED <<outer, patchCount, failure, records, manifests,
                            traces, contexts, sessions>>

\* A kill, or a store that cannot be opened for a write.
Dies(r) ==
    /\ at[r] \notin Gone \cup {"none"}
    /\ at' = [at EXCEPT ![r] = IF at[r] \in Recording THEN "cut" ELSE "ended"]
    /\ Fixed /\ UNCHANGED <<outer, id, patchCount, failure, storeVars, sessions>>

Tick ==
    /\ now < LastTime /\ now' = now + 1
    /\ UNCHANGED <<guardrails, multi, loopVars, storeVars, sessions>>

RecordsNext ==
    \/ Tick
    \/ \E r \in Runs :
        \/ \E given \in GivenIds : Starts(r, given)
        \/ \E f \in Failures \cup {Nothing} : RecordsRow(r, f)
        \/ OpensManifest(r) \/ FillsManifest(r) \/ OpensTrace(r) \/ FillsTrace(r)
        \/ RecordsContext(r)
        \/ \E missed \in BOOLEAN : Asks(r, missed)
        \/ DoesNotAsk(r)
        \/ \E count \in 0..MaxAttempts : SessionFails(r, count)
        \/ \E applied \in BOOLEAN : Settles(r, applied)
        \/ DoesNotCompile(r) \/ Rejected(r) \/ Tries(r) \/ TrialEnds(r) \/ Dies(r)

RecordsSpec == RecordsInit /\ [][RecordsNext]_recordsVars

-----------------------------------------------------------------------------
(* Properties.                                                              *)

\* What `aqueduct heal` reads for an id; Nothing or Torn where a path leads to
\* no text, and the path itself is taken for it.
HealReads(i) ==
    [manifest |-> manifests[i],
     trace |-> IF contexts[i].trace = <<>> THEN contexts[i].by ELSE traces[i]]

\* Is a run recording a failure under this id, or was it killed while it did?
HalfRecorded(r, i) == id[r] = i /\ at[r] \in Recording \cup {"cut"}

\* The execution that an error row tells of can be healed later, iterations and
\* trials included: its context is stored, the trace is its own, and the
\* manifest is the one that ran - for a trial, the one its run was started
\* with.  A stored path leads to a whole text.  What is left out: an error whose
\* run is still recording it, or was killed between the row and the context,
\* and files that a later run under the same id was killed in.
ErrorsAreHealable ==
    \A i \in Ids :
        /\ contexts[i] # Nothing /\ (\A r \in Runs : ~HalfRecorded(r, i)) =>
              {HealReads(i).manifest, HealReads(i).trace} \cap {Nothing, Torn} = {}
        /\ records[i] # Nothing /\ records[i].status = "error" =>
              LET r == records[i].by
              IN  \/ HalfRecorded(r, i)
                  \/ /\ contexts[i] # Nothing /\ contexts[i].by = r
                     /\ HealReads(i).trace = r
                     /\ HealReads(i).manifest =
                            IF IsTrial(i) THEN SurveyorManifest(r) ELSE Ran(r, i)

\* Within an hour no more sessions are begun than the cap allows, and one for
\* each other run that began one at the same time.  What does not count: a
\* session that left no row, and one begun on a count that could not be read.
SpendCapped ==
    LET counted == {s \in sessions :
                       /\ s.at + Window >= now /\ ~s.missed
                       /\ \E o \in outcomes : o.run = s.run /\ o.n = s.n}
    IN  Cardinality(counted) <= Cap + Cardinality(Runs) - 1

\* tests/TEST_MANIFEST.md: "never_heal_errors matches stack trace class name ->
\* LLM blocked".
NeverHealRespected == \A s \in sessions : s.failure.class \notin guardrails.never
=============================================================================
