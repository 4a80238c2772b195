-------------------------- MODULE BlueprintCompile --------------------------
(***************************************************************************)
(* parse_dict (parser/parser.py) and compile (compiler/compiler.py): from  *)
(* a blueprint to the flat manifest the executor walks.  The parser looks  *)
(* for cycles, the compiler puts the modules of a sub-blueprint in the     *)
(* place of each Arcade, pass by pass, checks the wiring, and takes out    *)
(* the Regulators nobody signals to.                                       *)
(*                                                                         *)
(* An id is a sequence of tokens, so that joining with "__" is what it is  *)
(* in the code: two different pairs may give the same id.  Edges form a    *)
(* set: a repeated edge changes no decision here.  Values of the context,  *)
(* macros, provenance, fingerprints and warnings are left out; of the      *)
(* context only which keys an Arcade gives and its blueprint needs.        *)
(***************************************************************************)
EXTENDS Naturals, Sequences, SequencesExt

CONSTANTS
    Roots,       \* blueprints to compile
    Library,     \* the files on disk: ref -> blueprint
    MaxNesting   \* 10 in the code: how deep Arcades may be in Arcades

NoId == <<>>
NoRef == ""

\* A module as the two stages read it.  inputs: the ids a Funnel merges; gives:
\* keys of context_override; quarantine: what an Assert's quarantine rules are;
\* spillway: the field of that name, which only the parser reads.
ModuleFields ==
    {"id", "type", "attach", "inputs", "ref", "gives", "deps", "quarantine", "spillway"}

IdsOf(ms) == {m.id : m \in Range(ms)}

ASSUME CompileAssumption ==
    /\ MaxNesting \in Nat \ {0}
    /\ \A b \in Roots \cup Range(Library) :
        /\ DOMAIN b = {"modules", "edges", "needs"}
        /\ b.modules \in Seq(Range(b.modules))
        /\ \A m \in Range(b.modules) : DOMAIN m = ModuleFields

VARIABLES
    root,       \* the blueprint
    stage,      \* parse, expand, wire, gates; ready or failed
    cause,      \* of a failure
    pending,    \* this pass's modules still to look at
    modules,    \* result_modules of the pass; afterwards the manifest's modules
    edges,
    depth

compileVars == <<root, stage, cause, pending, modules, edges, depth>>

-----------------------------------------------------------------------------
(* Graphs.                                                                 *)

Data(es) == {e \in es : e.port # "signal"}

\* Explicit edges of any port and depends_on both count for the parser.
Links(b) == {<<e.from, e.to>> : e \in b.edges}
            \cup UNION {{<<d, m.id>> : d \in m.deps} : m \in Range(b.modules)}

\* Mutant: a module is released by its first predecessor.
DetectCyclesEager(b) ==
    LET release(done, turn) ==
            done \cup {id \in IdsOf(b.modules) :
                           LET preds == {l[1] : l \in {k \in Links(b) : k[2] = id}}
                           IN  preds = {} \/ preds \cap done # {}}
    IN  IdsOf(b.modules) \ FoldLeft(release, {}, b.modules)

\* detect_cycles: Kahn's queue, round by round; what is never released comes
\* back, the modules of a cycle and everything below them.
DetectCycles(b) ==
    LET release(done, turn) ==
            done \cup {id \in IdsOf(b.modules) : \A l \in Links(b) : l[2] = id => l[1] \in done}
    IN  IdsOf(b.modules) \ FoldLeft(release, {}, b.modules)

\* parse_dict: ids are unique, what edges, depends_on and spillway name exists, no
\* cycle.
Parses(b) ==
    /\ Cardinality(IdsOf(b.modules)) = Len(b.modules)
    /\ \A l \in Links(b) : {l[1], l[2]} \subseteq IdsOf(b.modules)
    /\ DetectCycles(b) = {}
    /\ \A m \in Range(b.modules) : m.spillway \in IdsOf(b.modules) \cup {NoId}

-----------------------------------------------------------------------------
(* Steps.                                                                  *)
CompileInit ==
    /\ root \in Roots
    /\ stage = "parse" /\ cause = "none"
    /\ pending = <<>> /\ modules = <<>> /\ edges = {} /\ depth = 0

Fail(why) ==
    /\ stage' = "failed" /\ cause' = why
    /\ UNCHANGED <<root, pending, modules, edges, depth>>

ParseError == stage = "parse" /\ ~Parses(root) /\ Fail("ParseError")

Parse ==
    /\ stage = "parse" /\ Parses(root)
    /\ stage' = "expand" /\ pending' = root.modules /\ edges' = root.edges
    /\ UNCHANGED <<root, cause, modules, depth>>

Namespaced(ns, id) == ns \o <<"_", "_">> \o id

\* _entry_modules, _exit_modules
EntryModules(b) == IdsOf(b.modules) \ {e.to : e \in b.edges}
ExitModules(b) ==
    {m.id : m \in {n \in Range(b.modules) : n.type \notin {"Egress", "Probe"}}}
        \ {e.from : e \in b.edges}

\* A child's own references follow it under the new name, a Funnel's inputs do not.
NamespacedModule(ns, b, m) ==
    [m EXCEPT !.id = Namespaced(ns, m.id),
              !.attach = IF m.attach \in IdsOf(b.modules) THEN Namespaced(ns, @) ELSE NoId,
              !.deps = {Namespaced(ns, d) : d \in @},
              !.spillway = IF m.spillway = NoId THEN NoId ELSE Namespaced(ns, @)]

\* Mutant: an edge into the Arcade goes to one of its entries only.
RewiredOnce(ns, b, es) ==
    {[e EXCEPT !.to = Namespaced(ns, CHOOSE n \in EntryModules(b) : TRUE)] :
         e \in {d \in es : d.to = ns}}
    \cup {[e EXCEPT !.from = Namespaced(ns, x)] :
              e \in {d \in es : d.to # ns /\ d.from = ns}, x \in ExitModules(b)}

\* Edges into the Arcade go to every entry, edges out of it come from every exit.
Rewired(ns, b, es) ==
    {[e EXCEPT !.to = Namespaced(ns, n)] : e \in {d \in es : d.to = ns}, n \in EntryModules(b)}
    \cup {[e EXCEPT !.from = Namespaced(ns, x)] :
              e \in {d \in es : d.to # ns /\ d.from = ns}, x \in ExitModules(b)}

InternalEdges(ns, b) ==
    {[e EXCEPT !.from = Namespaced(ns, @), !.to = Namespaced(ns, @)] : e \in b.edges}

\* _replace_ids: a Funnel that merges the Arcade merges its exits instead.
WithExits(ns, b, ms) ==
    [i \in DOMAIN ms |->
        IF ns \notin ms[i].inputs THEN ms[i]
        ELSE [ms[i] EXCEPT !.inputs = (@ \ {ns}) \cup {Namespaced(ns, x) : x \in ExitModules(b)}]]

\* The ways an Arcade cannot be expanded, in the order the code meets them.
ExpandError(m) ==
    IF m.ref \notin DOMAIN Library THEN "not found"
    ELSE LET b == Library[m.ref] IN
         IF ~Parses(b) THEN "sub-blueprint does not parse"
         ELSE IF ~(b.needs \subseteq m.gives) THEN "context missing"
         ELSE IF EntryModules(b) = {} THEN "no entry"
         ELSE IF ExitModules(b) = {} THEN "no exit"
         ELSE "none"

AtArcade == stage = "expand" /\ pending # <<>> /\ Head(pending).type = "Arcade"

KeepModule ==
    /\ stage = "expand" /\ pending # <<>> /\ Head(pending).type # "Arcade"
    /\ modules' = Append(modules, Head(pending)) /\ pending' = Tail(pending)
    /\ UNCHANGED <<root, stage, cause, edges, depth>>

ArcadeFails == AtArcade /\ ExpandError(Head(pending)) # "none" /\ Fail(ExpandError(Head(pending)))

ExpandArcade ==
    /\ AtArcade /\ ExpandError(Head(pending)) = "none"
    /\ LET ns == Head(pending).id
           b == Library[Head(pending).ref]
           children == [i \in DOMAIN b.modules |-> NamespacedModule(ns, b, b.modules[i])]
       IN  /\ modules' = WithExits(ns, b, modules \o children)
           /\ pending' = WithExits(ns, b, Tail(pending))
           /\ edges' = {e \in edges : ns \notin {e.from, e.to}}
                       \cup InternalEdges(ns, b) \cup Rewired(ns, b, edges)
    /\ UNCHANGED <<root, stage, cause, depth>>

Nested == \E m \in Range(modules) : m.type = "Arcade"
Collision == Cardinality(IdsOf(modules)) # Len(modules)
PassOver == stage = "expand" /\ pending = <<>>

CollisionFails == PassOver /\ Collision /\ Fail("id collision")

\* Whether anything is nested is not asked again at the last depth.
TooDeep == PassOver /\ ~Collision /\ depth = MaxNesting /\ Fail("nesting")

\* _expand_recursive calls itself with what the pass produced.
NextPass ==
    /\ PassOver /\ ~Collision /\ Nested /\ depth < MaxNesting
    /\ pending' = modules /\ modules' = <<>> /\ depth' = depth + 1
    /\ UNCHANGED <<root, stage, cause, edges>>

Expanded ==
    /\ PassOver /\ ~Collision /\ ~Nested /\ depth < MaxNesting
    /\ stage' = "wire"
    /\ UNCHANGED <<root, cause, pending, modules, edges, depth>>

\* Mutant: quarantine rules are not checked.
WiredProbesOnly(ms, es) ==
    /\ \A m \in Range(ms) : m.type = "Probe" => m.attach \in IdsOf(ms)
    /\ \A e \in es : e.port = "spillway" => e.to \in IdsOf(ms)

\* validate_probes, validate_spillway_edges, and the rule that quarantined rows
\* need a row-level predicate and a spillway edge to leave by.
Wired(ms, es) ==
    /\ \A m \in Range(ms) : m.type = "Probe" => m.attach \in IdsOf(ms)
    /\ \A e \in es : e.port = "spillway" => e.to \in IdsOf(ms)
    /\ \A m \in Range(ms) : m.type = "Assert" =>
          /\ m.quarantine # "aggregate"
          /\ m.quarantine = "row" => \E e \in es : e.from = m.id /\ e.port = "spillway"

WireError == stage = "wire" /\ ~Wired(modules, edges) /\ Fail("WireError")

Wire ==
    /\ stage = "wire" /\ Wired(modules, edges)
    /\ stage' = "gates"
    /\ UNCHANGED <<root, cause, pending, modules, edges, depth>>

\* Regulators no signal edge leads to.
Passive(ms, es) ==
    {m.id : m \in {n \in Range(ms) : n.type = "Regulator"}}
        \ {e.to : e \in {d \in es : d.port = "signal"}}

\* One edge per main edge into and main edge out of a passive Regulator, in the
\* place of every edge that touches one.
Bypassed(es, gone) ==
    LET into(r) == {e.from : e \in {d \in es : d.to = r /\ d.port = "main"}}
        outOf(r) == {e.to : e \in {d \in es : d.from = r /\ d.port = "main"}}
    IN  {e \in es : {e.from, e.to} \cap gone = {}}
        \cup UNION {{[from |-> u, to |-> v, port |-> "main"] : u \in into(r), v \in outOf(r)} :
                        r \in gone}

\* compile_away_regulators
CompileAway ==
    LET gone == Passive(modules, edges) IN
    /\ stage = "gates"
    /\ modules' = SelectSeq(modules, LAMBDA m : m.id \notin gone)
    /\ edges' = Bypassed(edges, gone)
    /\ stage' = "ready"
    /\ UNCHANGED <<root, cause, pending, depth>>

CompileNext ==
    \/ ParseError \/ Parse
    \/ KeepModule \/ ArcadeFails \/ ExpandArcade
    \/ CollisionFails \/ TooDeep \/ NextPass \/ Expanded
    \/ WireError \/ Wire \/ CompileAway

CompileSpec == CompileInit /\ [][CompileNext]_compileVars

-----------------------------------------------------------------------------
(* Properties.                                                             *)

\* What can be reached along es from a, a itself included.
ReachedFrom(es, a) ==
    LET nodes == {e.to : e \in es}
        hop(near, turn) == near \cup {e.to : e \in {d \in es : d.from \in near}}
    IN  FoldLeft(hop, {a}, [turn \in 1..Cardinality(nodes) |-> turn])

\* The parser rejects a blueprint for its graph exactly when a module precedes
\* itself, an id is used twice, or an edge, a depends_on or a spillway names
\* nothing (detect_cycles is Kahn's algorithm, this is the closure of the links).
CycleVerdict ==
    LET b == root
        asEdges == {[from |-> l[1], to |-> l[2]] : l \in Links(b)}
        sound == /\ \A i, j \in DOMAIN b.modules :
                       b.modules[i].id = b.modules[j].id => i = j
                 /\ \A e \in asEdges : {e.from, e.to} \subseteq IdsOf(b.modules)
                 /\ \A e \in asEdges : e.from \notin ReachedFrom(asEdges, e.to)
                 /\ \A m \in Range(b.modules) :
                       m.spillway = NoId \/ \E n \in Range(b.modules) : n.id = m.spillway
    IN  stage # "parse" => (sound <=> cause # "ParseError")

\* The passive Regulators compile_away_regulators can take out without a trace:
\* joined by main edges only, no two in a row, tapped by no Probe and listed by
\* no Funnel.  The others leave edges, a Probe or a Funnel that name them.
Bypassable ==
    LET gone == Passive(modules, edges) IN
    /\ \A e \in edges : {e.from, e.to} \cap gone # {} =>
          e.port = "main" /\ ~({e.from, e.to} \subseteq gone)
    /\ \A m \in Range(modules) : m.attach \notin gone /\ m.inputs \cap gone = {}

\* Data flows in the manifest as in the blueprint: a module of the blueprint
\* reaches another through Arcades and gates exactly when it does without them,
\* and whatever flows into an Arcade reaches every module inside that stays.
FlowKept ==
    [][ (CompileAway /\ Bypassable) =>
        LET outer == {m \in Range(root.modules) : m.id \in IdsOf(modules')}
            arcades == {m \in Range(root.modules) : m.type = "Arcade"}
            before(a) == ReachedFrom(Data(root.edges), a)
            after(a) == ReachedFrom(Data(edges'), a)
            inside(a) == {id \in IdsOf(modules') : IsPrefix(Namespaced(a, NoId), id)}
        IN  \A a \in outer :
                /\ \A b \in outer : b.id \in before(a.id) <=> b.id \in after(a.id)
                /\ \A b \in arcades : inside(b.id) # {} =>
                      (b.id \in before(a.id) <=> inside(b.id) \subseteq after(a.id)) ]_compileVars

\* Nothing in a manifest names a module it does not have; what a Funnel of the
\* blueprint merges arrives if it did in the blueprint.
NamesClosed(ms, es) ==
    /\ \A e \in es : {e.from, e.to} \subseteq IdsOf(ms)
    /\ \A m \in Range(ms) : m.type = "Probe" => m.attach \in IdsOf(ms)
    /\ \A m \in Range(ms), n \in Range(root.modules) :
          (/\ m.id = n.id /\ m.type = "Funnel"
           /\ n.inputs \subseteq {e.from : e \in {d \in Data(root.edges) : d.to = n.id}})
          => m.inputs \subseteq {e.from : e \in {d \in Data(es) : d.to = m.id}}

\* What compiles can be executed: ids are unique, names resolve, the executor's
\* topological sort finds no cycle (executor.py calls one an error of the
\* manifest) and quarantined rows still have their way out.
ManifestRunnable ==
    [][ (CompileAway /\ Bypassable) =>
        /\ Cardinality(IdsOf(modules')) = Len(modules')
        /\ NamesClosed(modules', edges')
        /\ \A e \in Data(edges') : e.from \notin ReachedFrom(Data(edges'), e.to)
        /\ \A m \in Range(modules') : m.quarantine = "row" =>
              \E e \in edges' : e.from = m.id /\ e.port = "spillway" ]_compileVars
\* The two together: a manifest does what the blueprint says, and can be executed.
ManifestSound == FlowKept /\ ManifestRunnable
=============================================================================
