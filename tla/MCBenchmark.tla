---------------------------- MODULE MCBenchmark ----------------------------
(* One model.  For the grading, one invocation over two scenario files: one
   that asks for everything, next to one that shares its id, cannot be used,
   or asks for less.  For the store, one scenario in use by three invocations
   with a gate, the last of which may have another prompt version; and two
   invocations over two scenarios, of which the first may not store. *)
EXTENDS Benchmark, TLC

CONSTANTS f1, f2, m

Strict(id) == [id |-> id, loads |-> TRUE, builds |-> TRUE, sane |-> TRUE, valid |-> "yes",
               applies |-> "yes", defer |-> Absent, effect |-> "effect", diagnosis |-> FALSE,
               answers |-> Answers]
Loose(id) == [Strict(id) EXCEPT !.valid = Absent, !.applies = Absent, !.diagnosis = TRUE]
Unusable == [Strict("b") EXCEPT !.loads = FALSE]

Pair(s, other) == f1 :> s @@ f2 :> other
Option(gate, persist, version) == [gate |-> gate, persist |-> persist, version |-> version]

Graded ==
    [suite : {Pair(Strict("a"), other) : other \in
                 {Strict("a"), Loose("b"), Unusable,
                  [Strict("b") EXCEPT !.builds = FALSE],
                  [Strict("b") EXCEPT !.sane = FALSE],
                  [Strict("b") EXCEPT !.defer = "yes", !.effect = Absent],
                  [Strict("b") EXCEPT !.defer = "no", !.valid = "no", !.applies = "no"],
                  [Strict("b") EXCEPT !.effect = "ops"]}},
     options : {<<Option(FALSE, FALSE, 1)>>}]

Compared ==
    LET Versioned(v) == <<Option(TRUE, TRUE, 1), Option(FALSE, TRUE, v), Option(TRUE, TRUE, 1)>>
    IN  {[suite |-> Pair([Loose("a") EXCEPT !.answers = {"none", "wrong"}], Unusable),
          options |-> Versioned(1)],
         [suite |-> Pair([Strict("a") EXCEPT !.answers = {"wrong", "fix"}], Unusable),
          options |-> Versioned(2)]}

Shared ==
    [suite : {Pair([Strict("a") EXCEPT !.answers = {"none", "fix"}],
                     [Strict("b") EXCEPT !.answers = {"none", "fix"}])},
     options : {<<Option(TRUE, persist, 1), Option(TRUE, TRUE, 1)>> : persist \in BOOLEAN}]

AllBenches == Graded \cup Compared \cup Shared
=============================================================================
