---------------------------- MODULE MCRunRecords ----------------------------
(* Two runs, which may be given one id, of a blueprint whose agent may try two
   patches and heal once an hour.  The failures have a label, an exception, or
   both. *)
EXTENDS RunRecords, TLC

CONSTANTS r1, r2, mine, yours

Failed(label, class) == [label |-> label, class |-> class]
Broken == Failed(Nothing, "AnalysisException")
Checked == Failed("EmptyDataset", "AssertError")
Empty == Failed("EmptyDataset", Nothing)

RuleFailures == {Checked}
AllFailures == {Broken, Checked, Empty}

Labelled == {[never |-> {}, on |-> {"EmptyDataset"}], [never |-> {"EmptyDataset"}, on |-> {}]}
Infrastructure == {[never |-> {"AnalysisException"}, on |-> {}]}

Interchangeable ==
    {p @@ q : p \in Permutations({r1, r2}), q \in Permutations({mine, yours})}
=============================================================================
