---------------------------- MODULE SessionViews ----------------------------
(***************************************************************************)
(* The temporary views of the one SparkSession an execution has            *)
(* (executor/spark/channel.py _run_sql, executor/spark/egress.py           *)
(* _write_merge).  A statement registers its frames under view names, runs *)
(* its SQL and drops the names.  Under --parallel one thread per component *)
(* does so, and the threads share the session: upstream module ids are     *)
(* different in every component, "__input__" and "_aq_merge_src" are not.  *)
(*                                                                         *)
(* Every call to the session is a step.  A query resolves its names in one *)
(* step; what it computes is left out.  The session outlives an execution, *)
(* so that the self-healing loop's next one finds what was left.           *)
(***************************************************************************)
EXTENDS Naturals, Sequences, FiniteSets

CONSTANTS
    Manifests,      \* each: thread -> its statements, in order (see Statements)
    NoView,         \* what an unregistered name stands for
    MaxTries,       \* retry_policy.max_attempts
    MaxExecutions   \* executions in the session

Alias == "__input__"
MergeSource == "_aq_merge_src"
SharedNames == {Alias, MergeSource}
ViewNames == STRING \cup SharedNames

\* kind: channel or merge; inputs: the upstream module ids, a merge's one;
\* reads: the names its SQL refers to.
Statements == [kind : {"channel", "merge"}, inputs : Seq(ViewNames) \ {<<>>},
               reads : SUBSET ViewNames]

\* A single upstream is registered under the alias, too.
NamesOf(s) ==
    IF s.kind = "merge" THEN <<MergeSource>>
    ELSE IF Len(s.inputs) = 1 THEN s.inputs \o <<Alias>> ELSE s.inputs

NamesIn(s) == {NamesOf(s)[i] : i \in DOMAIN NamesOf(s)}

ASSUME ViewsAssumption ==
    /\ MaxTries \in Nat \ {0} /\ MaxExecutions \in Nat \ {0}
    /\ NoView \notin Nat \X ViewNames
    /\ \A m \in Manifests : IsFiniteSet(DOMAIN m) /\ m \in [DOMAIN m -> Seq(Statements)]
    /\ \A m \in Manifests : \A t \in DOMAIN m : \A i \in DOMAIN m[t] :
        /\ m[t][i].reads \subseteq NamesIn(m[t][i])
        \* A module is in one component.
        /\ \A u \in DOMAIN m \ {t} : \A j \in DOMAIN m[u] :
               NamesIn(m[t][i]) \cap NamesIn(m[u][j]) \subseteq SharedNames

VARIABLES
    manifest,   \* the statements of every thread
    exec,       \* the execution
    views,      \* the session's catalog: name -> the frame it stands for
    queue,      \* per thread: the statements not done
    place,      \* per thread: module, drop, create, query, clean or over
    step,       \* per thread: the name being registered or dropped
    tries,      \* per thread: attempts of the statement
    answered,   \* per thread: did the query of this attempt succeed
    cancel,     \* _cancel_event
    died,       \* <<execution, thread>> that a failed registration ended
    reads       \* every name a query resolved: the frame it got, and its own one

threadVars == <<queue, place, step, tries, answered>>
viewsVars == <<manifest, exec, views, threadVars, cancel, died, reads>>

Threads == DOMAIN manifest
Statement(t) == Head(queue[t])
Name(t) == NamesOf(Statement(t))[step[t]]
LastName(t) == step[t] = Len(NamesOf(Statement(t)))

NamesOfThread(t) == UNION {NamesIn(manifest[t][i]) : i \in DOMAIN manifest[t]}
AllNames == UNION {NamesOfThread(t) : t \in Threads}

\* What a name of the statement should stand for: the upstream of that id, and
\* under a shared name the first one.
Own(s, name) == <<exec, IF name \in SharedNames THEN s.inputs[1] ELSE name>>

ViewsInit ==
    /\ manifest \in Manifests
    /\ exec = 1 /\ views = [n \in AllNames |-> NoView]
    /\ queue = manifest
    /\ place = [t \in Threads |-> "module"] /\ step = [t \in Threads |-> 1]
    /\ tries = [t \in Threads |-> 0] /\ answered = [t \in Threads |-> FALSE]
    /\ cancel = FALSE /\ died = {} /\ reads = {}

At(t, p) == place[t] = p
Go(t, p, n) == place' = [place EXCEPT ![t] = p] /\ step' = [step EXCEPT ![t] = n]

\* The thread comes to its next module: nothing left, or another one failed.
Leave(t) ==
    /\ At(t, "module") /\ (queue[t] = <<>> \/ cancel)
    /\ Go(t, "over", 1)
    /\ UNCHANGED <<manifest, exec, views, queue, tries, answered, cancel, died, reads>>

Begin(t) ==
    /\ At(t, "module") /\ queue[t] # <<>> /\ ~cancel
    /\ Go(t, "drop", 1)
    /\ tries' = [tries EXCEPT ![t] = 1]
    /\ UNCHANGED <<manifest, exec, views, queue, answered, cancel, died, reads>>

\* Mutant: a name that is there is taken for registered.
DropUnlessThere(t) ==
    /\ At(t, "drop")
    /\ IF views[Name(t)] = NoView THEN Go(t, "create", step[t])
       ELSE IF LastName(t) THEN Go(t, "query", 1) ELSE Go(t, "drop", step[t] + 1)
    /\ UNCHANGED <<manifest, exec, views, queue, tries, answered, cancel, died, reads>>

\* dropTempView, of whatever an earlier attempt or execution left.
DropOld(t) ==
    /\ At(t, "drop")
    /\ views' = [views EXCEPT ![Name(t)] = NoView]
    /\ Go(t, "create", step[t])
    /\ UNCHANGED <<manifest, exec, queue, tries, answered, cancel, died, reads>>

CreateView(t) ==
    /\ At(t, "create") /\ views[Name(t)] = NoView
    /\ views' = [views EXCEPT ![Name(t)] = Own(Statement(t), Name(t))]
    /\ IF LastName(t) THEN Go(t, "query", 1) ELSE Go(t, "drop", step[t] + 1)
    /\ UNCHANGED <<manifest, exec, queue, tries, answered, cancel, died, reads>>

\* The policy may retry, as long as there are attempts left.
Retry(t) ==
    /\ tries[t] < MaxTries
    /\ tries' = [tries EXCEPT ![t] = @ + 1]
    /\ Go(t, "drop", 1)
    /\ UNCHANGED <<cancel, died>>

\* createTempView finds the name taken.  That is before the try: nothing is
\* dropped, and without a retry the exception is none the executor's handlers
\* know and ends the thread.
CreateFails(t) ==
    /\ At(t, "create") /\ views[Name(t)] # NoView
    /\ \/ Retry(t)
       \/ /\ Go(t, "over", 1) /\ UNCHANGED tries
          /\ cancel' = TRUE /\ died' = died \cup {<<exec, t>>}
    /\ UNCHANGED <<manifest, exec, views, queue, answered, reads>>

\* spark.sql: the names are resolved now, later changes of the catalog do not
\* reach the plan.  A name may be gone, and a query may fail by itself.
RunQuery(t) ==
    LET s == Statement(t)
        found == {n \in s.reads : views[n] # NoView}
    IN  /\ At(t, "query")
        /\ \E ok \in BOOLEAN :
            /\ ok => found = s.reads
            /\ answered' = [answered EXCEPT ![t] = ok]
            /\ reads' = IF ok
                        THEN reads \cup {[name |-> n, got |-> views[n], own |-> Own(s, n)] :
                                             n \in s.reads}
                        ELSE reads
        /\ Go(t, "clean", 1)
        /\ UNCHANGED <<manifest, exec, views, queue, tries, cancel, died>>

\* The finally: every name is dropped, whoever registered it last.  Then on to
\* the next module (after a failure, too, if that is alert_only: what reads from
\* the failed one is skipped, the others are not), to the next attempt, or to
\* _signal_fail.
Clean(t) ==
    /\ At(t, "clean")
    /\ views' = [views EXCEPT ![Name(t)] = NoView]
    /\ IF ~LastName(t)
       THEN Go(t, "clean", step[t] + 1) /\ UNCHANGED <<queue, tries, cancel, died>>
       ELSE \/ /\ queue' = [queue EXCEPT ![t] = Tail(@)] /\ Go(t, "module", 1)
               /\ UNCHANGED <<tries, cancel, died>>
            \/ ~answered[t] /\ Retry(t) /\ UNCHANGED queue
            \/ /\ ~answered[t] /\ Go(t, "over", 1) /\ cancel' = TRUE
               /\ UNCHANGED <<queue, tries, died>>
    /\ UNCHANGED <<manifest, exec, answered, reads>>

\* The self-healing loop executes again in the same session.
ExecuteAgain ==
    /\ \A t \in Threads : At(t, "over")
    /\ cancel /\ exec < MaxExecutions
    /\ exec' = exec + 1 /\ cancel' = FALSE /\ queue' = manifest
    /\ place' = [t \in Threads |-> "module"] /\ step' = [t \in Threads |-> 1]
    /\ tries' = [t \in Threads |-> 0] /\ answered' = [t \in Threads |-> FALSE]
    /\ UNCHANGED <<manifest, views, died, reads>>

ViewsNext ==
    \/ \E t \in Threads :
           \/ Leave(t) \/ Begin(t) \/ DropOld(t) \/ CreateView(t) \/ CreateFails(t)
           \/ RunQuery(t) \/ Clean(t)
    \/ ExecuteAgain

ViewsSpec == ViewsInit /\ [][ViewsNext]_viewsVars

-----------------------------------------------------------------------------
(* Properties.                                                             *)

Parallel == Cardinality(Threads) > 1

\* A query gets frames of its own execution, whatever earlier attempts and
\* executions left in the catalog; and it gets its own upstreams, unless
\* threads run in parallel and the name is one that all of them use.
ForeignOnlyUnderSharedName ==
    \A r \in reads :
        /\ r.got[1] = r.own[1]
        /\ r.got # r.own => Parallel /\ r.name \in SharedNames

\* As long as no thread died of a taken name, nobody leaves a view behind:
\* whatever the threads drop of each other's, the last one to use a name drops it.
NothingLeftBehind ==
    (died = {} /\ \A t \in Threads : place[t] \in {"module", "over"})
        => \A n \in AllNames : views[n] = NoView

\* What threads and executions register in the one catalog of the session stays
\* apart: no query reads what is not its own, nor leaves anything to be read.
ViewsStayApart == ForeignOnlyUnderSharedName /\ NothingLeftBehind

\* docs/specs.md: the upstream of a single-input Channel is registered as
\* __input__ - so that is what the name stands for in the Channel's query.
AliasIsOwnUpstream ==
    \A r \in reads : r.name = Alias => r.got = r.own
=============================================================================
