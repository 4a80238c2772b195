------------------------------ MODULE PatchOps ------------------------------
(***************************************************************************)
(* What a patch does to a blueprint and what judges it, as operators: the  *)
(* operations (patch/operations.py), applying them all or none, guardrails *)
(* (patch/apply.py), the lineage gate and the sandbox's compilation        *)
(* (patch/preview.py, compiler/lineage.py).                                *)
(*                                                                         *)
(* A blueprint is [modules, edges, context, saves]: of a module's config   *)
(* the path, whether the key its type needs is there (op, format), and the *)
(* select list of a SQL Channel, a set of [out, col, table]; context is    *)
(* the value of the one key a path may refer to, in a block of its own     *)
(* ("paths.input"); saves stands for whatever else a human has typed.      *)
(*                                                                         *)
(* Edges and context values are put in as the very objects the PatchSpec   *)
(* holds: an edge of a working copy carries its origin, <<operation,       *)
(* edge>>, and rewiring it rewrites the PatchSpec; so does writing below a *)
(* context key that the patch itself has given a block.                    *)
(***************************************************************************)
EXTENDS Naturals, Sequences, SequencesExt, FiniteSets

CONSTANTS
    Allowed,        \* paths that match agent.guardrails.allowed_paths
    ForbiddenOps,   \* agent.guardrails.forbidden_ops
    NoPath,         \* a module without a path
    CtxPath,        \* the path "${ctx.path}"
    NoContext       \* a blueprint without a context block

None == ""
InFile == <<>>      \* the origin of an edge that came with the file

\* What is left of seq without some of its elements, in the same order.
Dropping(seq, gone) ==
    FoldLeft(LAMBDA kept, x : IF x \in gone THEN kept ELSE Append(kept, x), <<>>, seq)

IdsOf(bp) == {m.id : m \in Range(bp.modules)}
Joins(from, to, e) == e.from = from /\ e.to = to

-----------------------------------------------------------------------------
(* Operations.  Each takes and gives a state [bp, ops, ok]: the working     *)
(* copy, the PatchSpec as it is by now, and whether nothing failed yet.     *)

Failing(st) == [st EXCEPT !.ok = FALSE]

\* _find_module: the first with the id.
ModuleAt(bp, id) == SelectInSeq(bp.modules, LAMBDA m : m.id = id)

Configured(st, op, Change(_)) ==
    LET i == ModuleAt(st.bp, op.module_id)
    IN  IF i = 0 THEN Failing(st) ELSE [st EXCEPT !.bp.modules[i] = Change(@)]

SetModuleConfigKey(st, op) == Configured(st, op, LAMBDA m : [m EXCEPT !.path = op.value])

\* What the new config does not repeat is gone.
ReplaceModuleConfig(st, op) ==
    Configured(st, op, LAMBDA m : [m EXCEPT !.path = op.config.path,
                                            !.complete = op.config.complete,
                                            !.select = op.config.select])

\* replace_module_label, set_module_on_failure; replace_retry_policy and
\* set_spark_config name no module; defer_to_human does nothing.
Annotate(st, op) ==
    IF op.module_id = None THEN st ELSE Configured(st, op, LAMBDA m : m)

AddModule(st, op) == [st EXCEPT !.bp.modules = Append(@, op.module)]

RemoveEdges(st, specs) ==
    LET step(s, spec) ==
            LET kept == Dropping(s.bp.edges,
                                 {e \in Range(s.bp.edges) : Joins(spec.from, spec.to, e)})
            IN  IF kept = s.bp.edges THEN Failing(s) ELSE [s EXCEPT !.bp.edges = kept]
    IN  FoldLeft(step, st, specs)

\* _add_edges appends the specs themselves.
AddEdges(st, i) ==
    LET added == [k \in DOMAIN st.ops[i].add |->
                      [from |-> st.ops[i].add[k].from, to |-> st.ops[i].add[k].to,
                       port |-> st.ops[i].add[k].port, origin |-> <<i, k>>]]
    IN  [st EXCEPT !.bp.edges = @ \o added]

\* Mutant: the list of edges to remove is emptied on the way.
InsertConsuming(st, i) ==
    IF st.ops[i].module.id \in IdsOf(st.bp) THEN Failing(st)
    ELSE [AddEdges(RemoveEdges(AddModule(st, st.ops[i]), st.ops[i].remove), i)
              EXCEPT !.ops[i].remove = <<>>]

\* insert_module and add_arcade_ref.
InsertModule(st, i) ==
    IF st.ops[i].module.id \in IdsOf(st.bp) THEN Failing(st)
    ELSE AddEdges(RemoveEdges(AddModule(st, st.ops[i]), st.ops[i].remove), i)

\* Nothing asks whether the probe's own id is taken.
AddProbe(st, i) ==
    IF st.ops[i].module.type # "Probe" \/ st.ops[i].module.attach \notin IdsOf(st.bp)
    THEN Failing(st)
    ELSE AddEdges(AddModule(st, st.ops[i]), i)

\* Edges go with the module; attach_to, depends_on and inputs that name it stay.
RemoveModule(st, i) ==
    LET id == st.ops[i].module_id
        without == [st EXCEPT !.bp.modules = Dropping(@, {m \in Range(@) : m.id = id}),
                              !.bp.edges = Dropping(@, {e \in Range(@) : id \in {e.from, e.to}})]
    IN  IF id \notin IdsOf(st.bp) THEN Failing(st) ELSE AddEdges(without, i)

\* The value is the whole block (a dict that has the key), not one within it.
GivesBlock(op) == op.op = "replace_context_value" /\ op.whole

\* _set_nested: the block by now is the one the patch gave last, or the file's.
ReplaceContextValue(st, i) ==
    LET value == st.ops[i].value
        written == [st EXCEPT !.bp.context = value]
        given == {j \in 1..(i - 1) : GivesBlock(st.ops[j])}
    IN  IF st.bp.context = NoContext THEN Failing(st)
        ELSE IF st.ops[i].whole \/ given = {} THEN written
        ELSE [written EXCEPT !.ops[Max(given)].value = value]

Rewired(op, e) ==
    [e EXCEPT !.from = IF op.new_from_id = None THEN @ ELSE op.new_from_id,
              !.to = IF op.new_to_id = None THEN @ ELSE op.new_to_id,
              !.port = IF op.new_port = None THEN @ ELSE op.new_port]

\* The first such edge, whatever its port; where the new ends lead is not asked.
ReplaceEdge(st, op) ==
    LET at == SelectInSeq(st.bp.edges, LAMBDA e : Joins(op.from_id, op.to_id, e))
        origin == st.bp.edges[at].origin
        moved == [st EXCEPT !.bp.edges[at] = Rewired(op, @)]
    IN  IF at = 0 \/ {op.new_from_id, op.new_to_id, op.new_port} = {None} THEN Failing(st)
        ELSE IF origin = InFile THEN moved
        ELSE [moved EXCEPT !.ops[origin[1]].add[origin[2]] = Rewired(op, @)]

\* apply_operation
Operation(st, i) ==
    LET op == st.ops[i] IN
    CASE op.op = "set_module_config_key" -> SetModuleConfigKey(st, op)
      [] op.op = "replace_module_config" -> ReplaceModuleConfig(st, op)
      [] op.op \in {"insert_module", "add_arcade_ref"} -> InsertModule(st, i)
      [] op.op = "add_probe" -> AddProbe(st, i)
      [] op.op = "remove_module" -> RemoveModule(st, i)
      [] op.op = "replace_context_value" -> ReplaceContextValue(st, i)
      [] op.op = "replace_edge" -> ReplaceEdge(st, op)
      [] OTHER -> Annotate(st, op)

\* apply_operation after apply_operation; after a failing one nothing happens.
OperationsInOrder(bp, ops) ==
    LET step(st, i) == IF st.ok THEN Operation(st, i) ELSE st
    IN  FoldLeft(step, [bp |-> bp, ops |-> ops, ok |-> TRUE], [i \in DOMAIN ops |-> i])

\* apply_patch_to_dict: a copy of the file's content, all or nothing; what no
\* operation is about is carried along.  The PatchSpec keeps what the operations
\* before a failing one did to it.
ApplyPatch(bp, ops) ==
    LET done == OperationsInOrder(bp, ops)
    IN  [bp |-> [modules |-> done.bp.modules,
                 edges |-> [k \in DOMAIN done.bp.edges |->
                                [done.bp.edges[k] EXCEPT !.origin = InFile]],
                 context |-> done.bp.context,
                 saves |-> bp.saves],
         ops |-> done.ops, ok |-> done.ok]

-----------------------------------------------------------------------------
(* Parser and compiler, as far as a patch can upset them.                   *)

\* Kahn's algorithm: each round releases the modules that wait for no other.
Acyclic(modules, edges) ==
    LET ids == {m.id : m \in Range(modules)}
        release(gone, m) ==
            gone \cup {id \in ids : \A e \in Range(edges) : e.to = id => e.from \in gone}
    IN  FoldLeft(release, {}, modules) = ids

Parses(bp) ==
    /\ Cardinality(IdsOf(bp)) = Len(bp.modules)
    /\ \A e \in Range(bp.edges) : {e.from, e.to} \subseteq IdsOf(bp)
    /\ \A m \in Range(bp.modules) : m.path = CtxPath => bp.context # NoContext
    /\ Acyclic(bp.modules, bp.edges)

Compiles(bp) ==
    /\ Parses(bp)
    /\ \A m \in Range(bp.modules) : m.type = "Probe" => m.attach \in IdsOf(bp)

-----------------------------------------------------------------------------
(* What judges a patch.                                                     *)

WritesModule == {"insert_module", "add_arcade_ref", "add_probe"}

PathWritten(op) ==
    IF op.op = "set_module_config_key" THEN op.value
    ELSE IF op.op = "replace_module_config" THEN op.config.path
    ELSE IF op.op \in WritesModule THEN op.module.path ELSE NoPath

IsModule(m) ==
    m = [id |-> m.id, type |-> m.type, attach |-> m.attach, path |-> m.path,
         complete |-> m.complete, select |-> m.select]

\* A blueprint as it is loaded, and the operations of a PatchSpec that passed its
\* schema: what they hold where.
IsBlueprint(bp) ==
    /\ bp = [modules |-> bp.modules, edges |-> bp.edges, context |-> bp.context,
             saves |-> bp.saves]
    /\ bp.modules \in Seq(Range(bp.modules)) /\ bp.edges \in Seq(Range(bp.edges))
    /\ \A m \in Range(bp.modules) : IsModule(m)
    /\ \A e \in Range(bp.edges) :
          e = [from |-> e.from, to |-> e.to, port |-> e.port, origin |-> InFile]

IsPatch(ops) ==
    /\ ops \in Seq(Range(ops))
    /\ \A i \in DOMAIN ops :
          /\ ops[i].op \in WritesModule =>
                {"op", "module", "add"} \subseteq DOMAIN ops[i] /\ IsModule(ops[i].module)
          /\ ops[i].op \in WritesModule \ {"add_probe"} =>
                "remove" \in DOMAIN ops[i] /\ ops[i].remove \in Seq(Range(ops[i].remove))
          /\ ops[i].op = "remove_module" => {"op", "add"} \subseteq DOMAIN ops[i]
          /\ ops[i].op = "replace_context_value" =>
                {"op", "whole", "value"} \subseteq DOMAIN ops[i]
          /\ ops[i].op \in WritesModule \cup {"remove_module"} =>
                /\ ops[i].add \in Seq(Range(ops[i].add))
                /\ \A e \in Range(ops[i].add) :
                      e = [from |-> e.from, to |-> e.to, port |-> e.port]

\* _check_guardrails.  No caller passes a provenance map, so a path that is a
\* template is compared as it stands; values of the context are not looked at.
Guarded(ops) ==
    \A i \in DOMAIN ops :
        /\ ops[i].op \notin ForbiddenOps
        /\ PathWritten(ops[i]) \in Allowed \cup {NoPath}

\* The apply callback's check of every module, touched by the patch or not.
Drifts(bp) ==
    \E m \in Range(bp.modules) : m.type \in {"Channel", "Ingress", "Egress"} /\ ~m.complete

\* touched_module_ids: of an edge that is moved, the module it led to.
Touched(ops) ==
    UNION {LET op == ops[i] IN
           IF op.op \in WritesModule THEN {op.module.id}
           ELSE IF op.op = "replace_edge" THEN {op.to_id}
           ELSE IF op.op \in {"replace_context_value", "defer_to_human"} THEN {}
           ELSE {op.module_id} \ {None} : i \in DOMAIN ops}

MainUpstream(bp, id) ==
    {e.from : e \in {d \in Range(bp.edges) : d.to = id /\ d.port = "main"}}

\* _live_lineage_rows, _extract_sql_lineage: a column without a table belongs
\* to the only upstream; a star is one row per upstream.
LineageRows(bp) ==
    UNION {LET up == MainUpstream(bp, m.id)
               table(s) == IF s.table # None THEN s.table
                           ELSE IF Cardinality(up) = 1 THEN CHOOSE u \in up : TRUE ELSE None
           IN  {[channel |-> m.id, out |-> s.out, col |-> s.col, table |-> table(s)] :
                    s \in {t \in m.select : t.out # "*"}}
               \cup {[channel |-> m.id, out |-> "*", col |-> "*", table |-> u] :
                         u \in {v \in up : \E s \in m.select : s.out = "*"}}
           : m \in {n \in Range(bp.modules) : n.type = "Channel"}}

Outputs(rows, id) == {r.out : r \in {s \in rows : s.channel = id}}

\* Mutant: what a module emits is read from the blueprint before the patch.
LineageWarningsStale(before, after, ops) ==
    {r \in LineageRows(before) :
        /\ r.table \in Touched(ops) /\ r.col # "*"
        /\ "*" \notin Outputs(LineageRows(before), r.table)
        /\ r.col \notin Outputs(LineageRows(before), r.table)}

\* run_lineage_gate: reads of touched modules that the unpatched blueprint has
\* and the patched one no longer serves.
LineageWarnings(before, after, ops) ==
    {r \in LineageRows(before) :
        /\ r.table \in Touched(ops) /\ r.col # "*"
        /\ "*" \notin Outputs(LineageRows(after), r.table)
        /\ r.col \notin Outputs(LineageRows(after), r.table)}

\* run_sandbox_gate: what is replayed has no Egress and no edge to one.
Sandboxed(bp) ==
    LET sinks == {m.id : m \in {n \in Range(bp.modules) : n.type = "Egress"}}
    IN  [bp EXCEPT !.modules = Dropping(@, {m \in Range(@) : m.id \in sinks}),
                   !.edges = Dropping(@, {e \in Range(@) : {e.from, e.to} \cap sinks # {}})]

=============================================================================
