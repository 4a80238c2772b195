---------------------------- MODULE MCPatchGates ----------------------------
(* src -> clean -> report -> sink, and a patch of every kind: good ones, one
   that each of the checks is there to stop, and ones that only fail later. *)
EXTENDS PatchGates, TLC

CONSTANTS r1, r2, reviewer

Module(id, type, path) ==
    [id |-> id, type |-> type, attach |-> None, path |-> path, complete |-> TRUE, select |-> {}]
Select(id, columns, table) ==
    [Module(id, "Channel", NoPath) EXCEPT
        !.select = {[out |-> c, col |-> c, table |-> table] : c \in columns}]
Edge(from, to) == [from |-> from, to |-> to, port |-> "main"]
FileEdge(from, to) == [from |-> from, to |-> to, port |-> "main", origin |-> InFile]

Small ==
    [modules |-> <<Module("src", "Ingress", CtxPath), Select("clean", {"a", "b"}, None),
                   Select("report", {"a"}, "clean"), Module("sink", "Egress", "out")>>,
     edges |-> <<FileEdge("src", "clean"), FileEdge("clean", "report"), FileEdge("report", "sink")>>,
     context |-> "in", saves |-> {}]

SetPath(id, path) == [op |-> "set_module_config_key", module_id |-> id, value |-> path]
Config(m) == [op |-> "replace_module_config", module_id |-> m.id, config |-> m]
Insert(m, add, remove) == [op |-> "insert_module", module |-> m, add |-> add, remove |-> remove]
Probe(id, target, path) ==
    [op |-> "add_probe", add |-> <<>>,
     module |-> [Module(id, "Probe", path) EXCEPT !.attach = target]]
Rewire(from, to, newFrom, newTo) ==
    [op |-> "replace_edge", from_id |-> from, to_id |-> to,
     new_from_id |-> newFrom, new_to_id |-> newTo, new_port |-> None]
Context(value, whole) == [op |-> "replace_context_value", value |-> value, whole |-> whole]
Between == Insert(Select("mid", {"*"}, None), <<Edge("clean", "mid"), Edge("mid", "report")>>,
                  <<Edge("clean", "report")>>)

Probed == <<Probe("probe", "src", NoPath), SetPath("sink", "good")>>

SmallPatches ==
    { <<SetPath("src", "good")>>,
      <<SetPath("src", "bad")>>,
      <<Config(Select("clean", {"b"}, None))>>,
      <<Config([Select("clean", {"a"}, None) EXCEPT !.complete = FALSE])>>,
      <<Between>>,
      <<Between, Rewire("mid", "report", None, "sink")>>,
      Probed,
      <<Insert(Module("copy", "Egress", "bad"), <<Edge("clean", "copy")>>, <<>>)>>,
      <<Insert(Module("copy", "Egress", "good"), <<Edge("clean", "copy")>>, <<>>)>>,
      <<[op |-> "remove_module", module_id |-> "report", add |-> <<Edge("clean", "sink")>>]>>,
      <<Context("bad", FALSE), Rewire("clean", "report", "src", None)>>,
      <<Context("bad", TRUE), Context("good", FALSE)>>,
      <<[op |-> "set_spark_config", module_id |-> None]>> }

\* One run has any patch, another one and a reviewer keep it company.  The model
\* has given both runs' patches one patch_id.
SmallIds == (r1 :> "fix" @@ r2 :> "fix")
SmallAssignments ==
    {(r1 :> any @@ r2 :> <<Between>> @@ reviewer :> Probed) : any \in SmallPatches}
=============================================================================
