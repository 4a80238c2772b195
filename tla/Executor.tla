------------------------------ MODULE Executor ------------------------------
(***************************************************************************)
(* execute (executor/spark/executor.py): the walk over a manifest's        *)
(* modules, serially or with one thread per connected component, together  *)
(* with the Regulator gate of surveyor.py and the signals of the Probes.   *)
(*                                                                         *)
(* An execution may be killed, resumed from the checkpoints of an earlier  *)
(* one, or repeated by the self-healing loop under the surveyor of the     *)
(* first.  What survives it: checkpoint markers, probe signals, overrides  *)
(* and what the sinks were given.                                          *)
(*                                                                         *)
(* Abstractions.  A frame is data, closed (the _GATE_CLOSED sentinel) or   *)
(* absent.  A module's work succeeds or fails for good: retries are part   *)
(* of one step (_with_retry).  Metrics, lineage and plan snapshots, which  *)
(* never change the walk, are left out, and so is what a patch changes     *)
(* inside a module between two executions.                                 *)
(***************************************************************************)
EXTENDS Naturals, Sequences, SequencesExt

CONSTANTS
    Plans,          \* the manifests to execute (see PlanFields)
    NoModule,       \* attach_to of a module that is no Probe; no selector
    MaxExecutions   \* executions: the first, its repetitions and resumes

ModuleTypes == {"Ingress", "Channel", "Junction", "Funnel", "Assert", "Regulator",
                "Egress", "Probe"}

\* What the executor reads of a manifest and of the command line: modules and
\* edges in declaration order; per module its type, its attach_to and what to do
\* when it fails for good (on_exhaustion, an Assert's on_fail, a Regulator's
\* on_block); --from and --to, or NoModule; --parallel.
PlanFields == {"modules", "edges", "type", "attach", "policy", "checkpoint", "parallel",
               "from", "to"}

Ids(p) == Range(p.modules)

ASSUME ExecutorAssumption ==
    /\ MaxExecutions \in Nat \ {0}
    /\ \A p \in Plans :
        /\ PlanFields = DOMAIN p
        /\ p.modules \in Seq(Ids(p)) /\ p.edges \in Seq(Range(p.edges))
        /\ \A i, j \in DOMAIN p.modules : p.modules[i] = p.modules[j] => i = j
        /\ \A m \in Ids(p) :
            /\ p.type[m] \in ModuleTypes
            /\ p.type[m] = "Probe" <=> p.attach[m] \in Ids(p)
        /\ \A e \in Range(p.edges) : {e.from, e.to} \subseteq Ids(p)

VARIABLES
    plan,       \* the manifest
    exec,       \* execution id (run_id)
    outer,      \* the run_id the Surveyor was started with
    source,     \* resume_run_id, or 0
    phase,      \* running, or how the execution ended
    todo,       \* per thread: the modules it has still to visit
    writing,    \* Egress modules that have written and not yet marked
    frames,     \* frame_store
    results,    \* ModuleResult.status; "missing" is an error for want of a frame
    reloaded,   \* modules taken from a checkpoint
    cancel,     \* _cancel_event
    agent,      \* _trigger_agent_flag: "unset", or its first entry
    raised,     \* threads that died of an exception and left no results
    marks,      \* <<execution, module>> with an _aq_done marker
    signals,    \* <<execution, Probe>> whose probe_signals row has passed = false
    overrides,  \* Probes closed by hand (signal_overrides)
    writes      \* <<execution, Egress>>: what the sinks were given

walkVars == <<todo, writing, frames, results, reloaded, cancel, agent, raised>>
storeVars == <<marks, signals, overrides, writes>>
execVars == <<plan, exec, outer, source, phase, walkVars, storeVars>>

-----------------------------------------------------------------------------
(* The graph.                                                              *)

Flow(p) == {e \in Range(p.edges) : e.port # "signal"}

\* The modules the order is sorted for, all but the Probes, and the edges it goes by.
Nodes(p) == {m \in Ids(p) : p.type[m] # "Probe"}
Sorted(p) == {e \in Flow(p) : p.type[e.to] # "Probe"}

\* placed, and behind it what is wanted of seq.
Appending(placed, seq, wanted) ==
    FoldLeft(LAMBDA order, m : IF m \in wanted THEN Append(order, m) ELSE order, placed, seq)

\* m's successors have one predecessor less; who has none left joins the queue.
Release(p, m, s) ==
    FoldLeft(LAMBDA t, e :
                 IF e \notin Sorted(p) \/ e.from # m THEN t
                 ELSE [t EXCEPT !.degree[e.to] = @ - 1,
                                !.queue = IF t.degree[e.to] = 1 THEN Append(@, e.to) ELSE @],
             s, p.edges)

\* One round of Kahn's queue: the head is next, and is released.
KahnRound(p, s) ==
    IF s.queue = <<>> THEN s
    ELSE Release(p, Head(s.queue),
                 [s EXCEPT !.queue = Tail(@), !.order = Append(@, Head(s.queue))])

\* _topo_sort: modules without incoming data edges first, in declaration order.
TopoSort(p) ==
    LET degree == [m \in Nodes(p) |->
                      Cardinality({i \in DOMAIN p.edges : /\ p.edges[i] \in Sorted(p)
                                                          /\ p.edges[i].to = m})]
        free == {m \in Nodes(p) : degree[m] = 0}
        start == [queue |-> Appending(<<>>, p.modules, free), degree |-> degree, order |-> <<>>]
    IN  FoldLeft(LAMBDA s, turn : KahnRound(p, s), start, p.modules).order

\* Every Probe right after the module it taps.
WithTaps(p, order) ==
    FoldLeft(LAMBDA placed, m :
                 Appending(Append(placed, m), p.modules, {q \in Ids(p) : p.attach[q] = m}),
             <<>>, order)

\* _build_execution_order: with the Probes of Probes at the end.
ExecutionOrder(p) ==
    Appending(WithTaps(p, TopoSort(p)), p.modules,
              {q \in Ids(p) \ Nodes(p) : p.attach[q] \notin Nodes(p)})

\* What can be reached from a set of modules, along a set of pairs of modules, in
\* as many hops as there are modules.
Reach(p, from, steps) ==
    FoldLeft(LAMBDA near, turn : near \cup {s[2] : s \in {r \in steps : r[1] \in near}},
             from, p.modules)

Follows(p) == {<<e.from, e.to>> : e \in Flow(p)}
Precedes(p) == {<<e.to, e.from>> : e \in Flow(p)}

\* _find_connected_components: data edges and attach_to connect, signals do not.
Component(p, m) ==
    LET taps == {q \in Ids(p) : p.type[q] = "Probe"}
    IN  Reach(p, {m}, Follows(p) \cup Precedes(p) \cup {<<q, p.attach[q]>> : q \in taps}
                      \cup {<<p.attach[q], q>> : q \in taps})

\* One thread per component under --parallel, else one for everything.
Threads(p) == IF p.parallel THEN {Component(p, m) : m \in Ids(p)} ELSE {Ids(p)}

ThreadOrders ==
    [p \in Plans |->
        LET order == ExecutionOrder(p)
        IN  [t \in Threads(p) |-> Appending(<<>>, order, t)]]

\* execute goes on only with an order of all modules; else there was a cycle, or
\* an edge from a Probe.
ASSUME SortAssumption ==
    \A p \in Plans :
        /\ Nodes(p) \subseteq Range(TopoSort(p))
        /\ \A e \in Flow(p) : p.type[e.from] # "Probe"

\* _selector_included: forward of --from and backward of --to, on data edges,
\* and the Probes that tap what is in between.
Included ==
    [p \in Plans |->
        LET forward == IF p.from = NoModule THEN Ids(p) ELSE Reach(p, {p.from}, Follows(p))
            backward == IF p.to = NoModule THEN Ids(p) ELSE Reach(p, {p.to}, Precedes(p))
            between == forward \cap backward
        IN  between \cup {m \in Ids(p) : p.attach[m] \in between}]

HasSpillway(m) == \E e \in Range(plan.edges) : e.from = m /\ e.port = "spillway"

\* The edges a module reads from, by position: a Channel its main edges, a Funnel
\* all data edges, an Egress its first data edge, the others their first main edge.
InputsOf ==
    [p \in Plans |-> [m \in Ids(p) |->
        LET any == {i \in DOMAIN p.edges : p.edges[i].to = m /\ p.edges[i].port # "signal"}
            main == {i \in any : p.edges[i].port = "main"}
            first(edges) == {i \in edges : \A j \in edges : i <= j}
        IN  CASE p.type[m] = "Channel" -> main
              [] p.type[m] = "Funnel" -> any
              [] p.type[m] = "Egress" -> first(any)
              [] p.type[m] \in {"Junction", "Assert", "Regulator"} -> first(main)
              [] p.type[m] \in {"Ingress", "Probe"} -> {}]]

Inputs(m) == InputsOf[plan][m]

\* The frame key at the other end of an edge.
Key(i) == <<plan.edges[i].from, plan.edges[i].port>>

\* The frame keys a module writes.
Outputs(m) ==
    IF plan.type[m] = "Junction"
    THEN {<<m, e.port>> : e \in {d \in Flow(plan) : d.from = m}}
    ELSE IF plan.type[m] \in {"Egress", "Probe"} THEN {} ELSE {<<m, "main">>}

Keys(p) == {<<m, "main">> : m \in Ids(p)} \cup {<<e.from, e.port>> : e \in Flow(p)}

\* Has every input a frame?  If not, the first one that has none decides; a
\* module without an incoming edge has nothing to read.
Supply(m) ==
    LET lacking == {i \in Inputs(m) : frames[Key(i)] # "data"}
        first == CHOOSE i \in lacking : \A j \in lacking : i <= j
    IN  IF lacking # {} THEN frames[Key(first)]
        ELSE IF Inputs(m) = {} /\ plan.type[m] \notin {"Ingress", "Probe"} THEN "absent"
        ELSE "data"

Deliver(m, value) ==
    frames' = [k \in DOMAIN frames |-> IF k \in Outputs(m) THEN value ELSE frames[k]]

-----------------------------------------------------------------------------
(* The store.                                                              *)

\* Mutant: the signals of the run that is resumed, not of the surveyor's run.
GateOpenAsResumed(r) ==
    LET wired == {i \in DOMAIN plan.edges : /\ plan.edges[i].to = r
                                            /\ plan.edges[i].port = "signal"}
    IN  \A i \in wired : (\A j \in wired : i <= j) =>
            /\ plan.edges[i].from \notin overrides
            /\ <<source, plan.edges[i].from>> \notin signals

\* evaluate_regulator: the first Probe wired to it closes the gate, if it was closed
\* by hand or left a failing signal under the surveyor's run id.
GateOpen(r) ==
    LET wired == {i \in DOMAIN plan.edges : /\ plan.edges[i].to = r
                                            /\ plan.edges[i].port = "signal"}
    IN  \A i \in wired : (\A j \in wired : i <= j) =>
            /\ plan.edges[i].from \notin overrides
            /\ <<outer, plan.edges[i].from>> \notin signals

\* _write_checkpoint: the marker comes last; writing a checkpoint is taken to
\* succeed (if its data fails, the module just has none).
Mark(m) ==
    marks' = IF plan.checkpoint /\ plan.type[m] \notin {"Assert", "Regulator"}
             THEN marks \cup {<<exec, m>>} ELSE marks

-----------------------------------------------------------------------------
(* The walk: one step of one thread visits the module at its head.         *)
ExecInit ==
    /\ plan \in Plans
    /\ exec = 1 /\ outer = 1 /\ source = 0 /\ phase = "running"
    /\ todo = ThreadOrders[plan] /\ writing = {}
    /\ frames = [k \in Keys(plan) |-> "absent"]
    /\ results = [m \in Ids(plan) |-> "none"]
    /\ reloaded = {} /\ cancel = FALSE /\ agent = "unset" /\ raised = {}
    /\ marks = {} /\ signals = {} /\ overrides = {} /\ writes = {}

\* The thread goes on to its next module with this status for the one visited.
Visited(t, m, status) ==
    /\ todo' = [todo EXCEPT ![t] = Tail(@)]
    /\ results' = [results EXCEPT ![m] = status]

\* Mutant: the failing thread returns without setting the cancel event.
SignalFailQuietly(t, m, status, triggerAgent) ==
    /\ todo' = [todo EXCEPT ![t] = <<>>]
    /\ results' = [results EXCEPT ![m] = status]
    /\ cancel' = cancel
    /\ agent' = IF agent = "unset" THEN IF triggerAgent THEN "yes" ELSE "no" ELSE agent

\* _signal_fail and return: the rest of this thread gets no result at all, the
\* other threads skip what they have left, the first failure sets the flag.
SignalFail(t, m, status, triggerAgent) ==
    /\ todo' = [todo EXCEPT ![t] = <<>>]
    /\ results' = [results EXCEPT ![m] = status]
    /\ cancel' = TRUE
    /\ agent' = IF agent = "unset" THEN IF triggerAgent THEN "yes" ELSE "no" ELSE agent

\* The thread's next module, not already being written.
AtHead(t, m) == phase = "running" /\ todo[t] # <<>> /\ m = Head(todo[t]) /\ m \notin writing

\* Mutant: only a checkpoint with data counts, and a sink's has none.
HasCheckpointData(m) ==
    source # 0 /\ <<source, m>> \in marks /\ plan.type[m] # "Egress"

HasCheckpoint(m) == source # 0 /\ <<source, m>> \in marks

\* The head is visited for its own sake: not cancelled, selected, no checkpoint.
Visits(t, m) == AtHead(t, m) /\ ~cancel /\ m \in Included[plan] /\ ~HasCheckpoint(m)

Skip(t, m) ==
    /\ AtHead(t, m) /\ (cancel \/ m \notin Included[plan])
    /\ Visited(t, m, "skipped")
    /\ UNCHANGED <<plan, exec, outer, source, phase, writing, frames, reloaded, cancel,
                   agent, raised, storeVars>>

\* From the checkpoint of the resumed run.  The spillway frame is not in it.
Reload(t, m) ==
    /\ AtHead(t, m) /\ ~cancel /\ m \in Included[plan] /\ HasCheckpoint(m)
    /\ Visited(t, m, "success")
    /\ Deliver(m, "data")
    /\ reloaded' = reloaded \cup {m}
    /\ UNCHANGED <<plan, exec, outer, source, phase, writing, cancel, agent, raised,
                   storeVars>>

\* An input is the sentinel: skip, and pass the sentinel on through the main
\* port or the branches, never through the spillway.
Blocked(t, m) ==
    /\ Visits(t, m) /\ Supply(m) = "closed"
    /\ Visited(t, m, "skipped")
    /\ Deliver(m, "closed")
    /\ UNCHANGED <<plan, exec, outer, source, phase, writing, reloaded, cancel, agent,
                   raised, storeVars>>

\* "produced no DataFrame", or no edge to read at all.
Starved(t, m) ==
    /\ Visits(t, m) /\ Supply(m) = "absent"
    /\ SignalFail(t, m, "missing", FALSE)
    /\ UNCHANGED <<plan, exec, outer, source, phase, writing, frames, reloaded, raised,
                   storeVars>>

Works(t, m) == Visits(t, m) /\ Supply(m) = "data"

\* A module's own work has a spillway to fill: always for a Channel, only if
\* rows were quarantined for an Assert.
Transforms(t, m) ==
    /\ Works(t, m) /\ plan.type[m] \in {"Ingress", "Channel", "Junction", "Funnel", "Assert"}
    /\ Visited(t, m, "success")
    /\ \E quarantined \in BOOLEAN :
           LET spills == /\ HasSpillway(m)
                         /\ \/ plan.type[m] = "Channel"
                            \/ plan.type[m] = "Assert" /\ quarantined
               filled == Outputs(m) \cup (IF spills THEN {<<m, "spillway">>} ELSE {})
           IN  frames' = [k \in DOMAIN frames |-> IF k \in filled THEN "data" ELSE frames[k]]
    /\ Mark(m)
    /\ UNCHANGED <<plan, exec, outer, source, phase, writing, reloaded, cancel, agent,
                   raised, signals, overrides, writes>>

\* Mutant: what a failed module had so far stays in the frame store.
FailsAloneOpen(t, m) ==
    /\ Works(t, m) /\ plan.policy[m] = "alert_only"
    /\ plan.type[m] \in {"Ingress", "Channel", "Junction", "Funnel", "Egress"}
    /\ Visited(t, m, "error")
    /\ Deliver(m, "data")
    /\ UNCHANGED <<plan, exec, outer, source, phase, writing, reloaded, cancel, agent,
                   raised, storeVars>>

\* Retries exhausted under alert_only: an error, the sentinel, and the walk goes on.
FailsAlone(t, m) ==
    /\ Works(t, m) /\ plan.policy[m] = "alert_only"
    /\ plan.type[m] \in {"Ingress", "Channel", "Junction", "Funnel", "Egress"}
    /\ Visited(t, m, "error")
    /\ Deliver(m, "closed")
    /\ UNCHANGED <<plan, exec, outer, source, phase, writing, reloaded, cancel, agent,
                   raised, storeVars>>

\* Retries exhausted under abort or trigger_agent, or an AssertError.
Fails(t, m) ==
    /\ Works(t, m) /\ plan.policy[m] # "alert_only"
    /\ plan.type[m] \notin {"Regulator", "Probe"}
    /\ SignalFail(t, m, "error", plan.policy[m] = "trigger_agent")
    /\ UNCHANGED <<plan, exec, outer, source, phase, writing, frames, reloaded, raised,
                   storeVars>>

\* Anything the handlers do not catch: execute raises when it is serial; a
\* parallel thread's exception is logged, and its results are lost with it.
Raises(t, m) ==
    /\ Works(t, m) /\ plan.type[m] \notin {"Probe", "Regulator"}
    /\ IF plan.parallel
       THEN /\ cancel' = TRUE
            /\ results' = [x \in Ids(plan) |-> IF x \in t THEN "none" ELSE results[x]]
            /\ todo' = [todo EXCEPT ![t] = <<>>]
            /\ UNCHANGED phase
       ELSE phase' = "raised" /\ UNCHANGED <<cancel, results, todo>>
    /\ raised' = raised \cup {t}
    /\ UNCHANGED <<plan, exec, outer, source, writing, frames, reloaded, agent, storeVars>>

\* A Probe's failure is swallowed, its result is always success.
ProbeTurn(t, m) ==
    /\ Works(t, m) /\ plan.type[m] = "Probe"
    /\ Visited(t, m, "success")
    /\ signals' \in IF frames[<<plan.attach[m], "main">>] = "data"
                    THEN {signals, signals \cup {<<exec, m>>}} ELSE {signals}
    /\ UNCHANGED <<plan, exec, outer, source, phase, writing, frames, reloaded, cancel,
                   agent, raised, marks, overrides, writes>>

OpenGate(t, m) ==
    /\ Works(t, m) /\ plan.type[m] = "Regulator" /\ GateOpen(m)
    /\ Visited(t, m, "success")
    /\ Deliver(m, "data")
    /\ UNCHANGED <<plan, exec, outer, source, phase, writing, reloaded, cancel, agent,
                   raised, storeVars>>

\* Mutant: under on_block=skip the gate is polled for ever.
CloseGatePolling(t, m) ==
    /\ Works(t, m) /\ plan.type[m] = "Regulator" /\ ~GateOpen(m) /\ plan.policy[m] # "skip"
    /\ SignalFail(t, m, "error", plan.policy[m] = "trigger_agent")
    /\ UNCHANGED <<plan, exec, outer, source, phase, writing, frames, reloaded, raised,
                   storeVars>>

\* Still closed when timeout_seconds is up (0 by default): on_block.
CloseGate(t, m) ==
    /\ Works(t, m) /\ plan.type[m] = "Regulator" /\ ~GateOpen(m)
    /\ IF plan.policy[m] = "skip"
       THEN Visited(t, m, "skipped") /\ Deliver(m, "closed") /\ UNCHANGED <<cancel, agent>>
       ELSE /\ SignalFail(t, m, "error", plan.policy[m] = "trigger_agent")
            /\ UNCHANGED frames
    /\ UNCHANGED <<plan, exec, outer, source, phase, writing, reloaded, raised, storeVars>>

\* The write and the marker are two steps: a kill may fall between them.
WriteSink(t, m) ==
    /\ Works(t, m) /\ plan.type[m] = "Egress"
    /\ writes' = writes \cup {<<exec, m>>}
    /\ writing' = writing \cup {m}
    /\ UNCHANGED <<plan, exec, outer, source, phase, todo, frames, results, reloaded,
                   cancel, agent, raised, marks, signals, overrides>>

MarkSink(t, m) ==
    /\ phase = "running" /\ todo[t] # <<>> /\ m = Head(todo[t]) /\ m \in writing
    /\ Visited(t, m, "success")
    /\ writing' = writing \ {m}
    /\ Mark(m)
    /\ UNCHANGED <<plan, exec, outer, source, phase, frames, reloaded, cancel, agent,
                   raised, signals, overrides, writes>>

ThreadStep(t) ==
    \E m \in t :
        \/ Skip(t, m) \/ Reload(t, m) \/ Blocked(t, m) \/ Starved(t, m)
        \/ Transforms(t, m) \/ FailsAlone(t, m) \/ Fails(t, m) \/ Raises(t, m)
        \/ ProbeTurn(t, m) \/ OpenGate(t, m) \/ CloseGate(t, m)
        \/ WriteSink(t, m) \/ MarkSink(t, m)

-----------------------------------------------------------------------------
(* Between executions.                                                     *)

\* Every thread is through.
Finish ==
    /\ phase = "running" /\ \A t \in DOMAIN todo : todo[t] = <<>>
    /\ phase' = IF cancel THEN "error" ELSE "success"
    /\ UNCHANGED <<plan, exec, outer, source, walkVars, storeVars>>

Killed ==
    /\ phase = "running"
    /\ phase' = "killed"
    /\ UNCHANGED <<plan, exec, outer, source, walkVars, storeVars>>

\* aqueduct signal: close the gate of a Probe by hand, or clear that.
Override ==
    /\ \E m \in Ids(plan) :
        /\ plan.type[m] = "Probe"
        /\ overrides' \in {overrides \cup {m}, overrides \ {m}}
    /\ UNCHANGED <<plan, exec, outer, source, phase, walkVars, marks, signals, writes>>

StartWalk ==
    /\ exec < MaxExecutions
    /\ exec' = exec + 1 /\ phase' = "running"
    /\ todo' = ThreadOrders[plan] /\ writing' = {}
    /\ frames' = [k \in Keys(plan) |-> "absent"]
    /\ results' = [m \in Ids(plan) |-> "none"]
    /\ reloaded' = {} /\ cancel' = FALSE /\ agent' = "unset" /\ raised' = {}
    /\ UNCHANGED <<plan, storeVars>>

\* The self-healing loop executes again: a new run_id under the old surveyor.
HealAgain ==
    /\ phase = "error"
    /\ StartWalk
    /\ source' = 0 /\ UNCHANGED outer

\* aqueduct run, maybe with --resume.
RunAgain ==
    /\ phase # "running"
    /\ StartWalk
    /\ outer' = exec + 1
    /\ source' \in {0} \cup (IF plan.checkpoint THEN 1..exec ELSE {})

ExecNext ==
    \/ \E t \in DOMAIN todo : ThreadStep(t)
    \/ Finish \/ Killed \/ Override \/ HealAgain \/ RunAgain

\* Threads run on and a walk that is through returns; kills, overrides and new
\* executions need not happen.
ExecFairness ==
    /\ WF_execVars(Finish)
    /\ \A p \in Plans : \A t \in Threads(p) :
           WF_execVars(plan = p /\ t \in DOMAIN todo /\ ThreadStep(t))

ExecSpec == ExecInit /\ [][ExecNext]_execVars /\ ExecFairness

-----------------------------------------------------------------------------
(* Properties.                                                             *)

\* Types, and: who was skipped, blocked or starved never left data, and a
\* reloaded module has a marker in the resumed run.
ExecTypeOK ==
    /\ exec \in 1..MaxExecutions /\ outer \in 1..exec /\ source \in 0..(exec - 1)
    /\ phase \in {"running", "success", "error", "raised", "killed"}
    /\ \A t \in DOMAIN todo : Range(todo[t]) \subseteq t
    /\ writing \subseteq Ids(plan)
    /\ \A k \in DOMAIN frames : frames[k] \in {"absent", "closed", "data"}
    /\ \A m \in Ids(plan) :
        /\ results[m] \in {"none", "success", "skipped", "error", "missing"}
        /\ results[m] \in {"skipped", "missing"} =>
               \A k \in DOMAIN frames : k[1] = m => frames[k] # "data"
    /\ \A m \in reloaded : <<source, m>> \in marks
    /\ cancel \in BOOLEAN /\ agent \in {"unset", "yes", "no"}
    /\ \A w \in marks \cup signals \cup writes : w \in (1..exec) \X Ids(plan)

\* Producers(m): whose data m's frame was computed from in this execution.  The
\* chain ends at a module reloaded from a checkpoint.
Producers(m) ==
    LET read == {i \in DOMAIN plan.edges : /\ plan.edges[i].to \notin reloaded
                                           /\ i \in Inputs(plan.edges[i].to)}
    IN  Reach(plan, {plan.edges[i].from : i \in Inputs(m)},
              {<<plan.edges[i].to, plan.edges[i].from>> : i \in read})

\* A sink is only ever given data that every module above it produced: none of
\* them failed, was skipped or was waiting for its turn, whatever the other
\* threads did.  (alert_only goes on after an error; the sentinel must stop it.)
OnlyWholeLineages ==
    phase # "raised" =>
        \A m \in Ids(plan) : <<exec, m>> \in writes =>
            \A a \in Producers(m) :
                \/ results[a] = "success"
                \/ \E t \in raised : a \in t

\* The order of the walk never starves a module: when one finds no frame, the
\* frame is a spillway nobody fills, or its producer was left out by --from, or
\* it has no edge to read.
StarvedOnlyWithoutProducer ==
    \A m \in Ids(plan) : results[m] = "missing" =>
        \/ Inputs(m) = {}
        \/ \E i \in Inputs(m) :
               /\ frames[Key(i)] = "absent"
               /\ Key(i)[2] = "spillway" \/ Key(i)[1] \notin Included[plan]

\* The walk serves the sinks whatever the threads do: nothing is written too
\* early, and nothing goes without data that was on its way.
SinksGetWholeLineage == OnlyWholeLineages /\ StarvedOnlyWithoutProducer

\* The status execute returns is accounted for by its module results: an error
\* names a module that failed, unless a thread died of an exception; success
\* means that every module was visited and whatever failed was alert_only; the
\* agent is called for a module that asks for it.
StatusAccountedFor ==
    /\ phase = "error" =>
           (raised # {} \/ \E m \in Ids(plan) : results[m] \in {"error", "missing"})
    /\ phase = "success" =>
           /\ raised = {}
           /\ \A m \in Ids(plan) :
                  /\ results[m] \notin {"none", "missing"}
                  /\ results[m] = "error" => plan.policy[m] = "alert_only"
    /\ (agent = "yes" /\ raised = {}) =>
           \E m \in Ids(plan) : results[m] = "error" /\ plan.policy[m] = "trigger_agent"

Upstream ==
    [p \in Plans |-> [m \in Ids(p) |->
        Reach(p, {e.from : e \in {d \in Flow(p) : d.to = m}}, Precedes(p))]]

Opened(r) == r \notin reloaded /\ results[r] # "success" /\ results'[r] = "success"

Wires(probe, r) == \E e \in Range(plan.edges) : e.from = probe /\ e.to = r /\ e.port = "signal"

\* Whoever opens a gate has heard of the Probe above it.
OpensOnVerdict ==
    \A r, q \in Ids(plan) :
        (/\ plan.type[r] = "Regulator" /\ exec = outer /\ exec' = exec
         /\ Opened(r) /\ Wires(q, r) /\ plan.attach[q] \in Upstream[plan][r]
         /\ q \in Included[plan])
        => results[q] = "success" /\ <<exec, q>> \notin signals

\* In the execution the surveyor was started for, a gate whose Probe taps
\* something above it opens only when that Probe has had its turn and left no
\* failing signal.
GateSeesUpstreamProbe == [][OpensOnVerdict]_execVars

\* Resuming does not write again what the resumed execution completed: a sink
\* is given data a second time only if the first write was never marked.
ResumeKeepsCompletedSinks ==
    \A m \in Ids(plan) :
        (source # 0 /\ <<exec, m>> \in writes) => <<source, m>> \notin marks

\* An execution that is not killed ends: every thread comes to the end of its
\* order whatever the other threads fail at, and execute returns.
ExecEnds == phase = "running" ~> phase # "running"

=============================================================================
