---------------------------- MODULE MCWatermarks ----------------------------
(* One sink below the incremental Channel, and two. *)
EXTENDS Watermarks

OneSink == <<"sink">>
TwoSinks == <<"sink", "copy">>
=============================================================================
