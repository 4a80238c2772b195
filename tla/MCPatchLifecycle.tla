-------------------------- MODULE MCPatchLifecycle --------------------------
(* Two patches of one blueprint, next to another blueprint that shares the  *)
(* patches/ folder: its commits and discards reach the first one's patches. *)
EXTENDS PatchLifecycle, TLC

CONSTANTS etl, report, p1, p2

Owner == [p \in {p1, p2} |-> etl]

Interchangeable == Permutations({p1, p2})
=============================================================================
