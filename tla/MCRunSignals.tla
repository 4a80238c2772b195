---------------------------- MODULE MCRunSignals ----------------------------
(* Two versions of a blueprint, whose Probe has a signal of each type in one and
   a threshold between malformed signals in the other, and whose join is
   broadcast in one and not in the other. *)
EXTENDS RunSignals, TLC

CONSTANTS quality, join

Plain(type) == [type |-> type, given |-> TRUE, listener |-> FALSE, sampled |-> FALSE]
Malformed(type) == [Plain(type) EXCEPT !.given = FALSE]

Measuring ==
    <<Plain("schema_snapshot"), Plain("row_count_estimate"), Plain("null_rates"),
      Plain("sample_rows"), Plain("value_distribution"), Plain("distinct_count"),
      Plain("threshold"), Plain("partition_stats")>>

Checking ==
    <<[Plain("row_count_estimate") EXCEPT !.listener = TRUE], Malformed("value_distribution"),
      [Plain("data_freshness") EXCEPT !.sampled = TRUE], Malformed("data_freshness"),
      Plain("threshold"), Malformed("threshold")>>

Version(measures, shuffles, broadcasts) ==
    [signals |-> quality :> measures, wired |-> <<quality>>,
     plan |-> join :> [shuffles |-> shuffles, udfs |-> 0, broadcasts |-> broadcasts,
                       known |-> TRUE]]

TwoVersions == {Version(Measuring, 1, 1), Version(Checking, 2, 0)}
=============================================================================
