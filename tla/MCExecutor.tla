----------------------------- MODULE MCExecutor -----------------------------
(* Three small manifests that between them hold every module type.         *)
EXTENDS Executor

Edge(from, to, port) == [from |-> from, to |-> to, port |-> port]

\* Every module of a manifest has the same policy when it fails; Regulators
\* have theirs for a closed gate, Asserts never go on after a failure.
Policy(type, failing, closing) ==
    [m \in DOMAIN type |->
        IF type[m] = "Regulator" THEN closing
        ELSE IF type[m] = "Assert" /\ failing = "alert_only" THEN "abort" ELSE failing]

Attach(type, taps) ==
    [m \in DOMAIN type |-> IF m \in DOMAIN taps THEN taps[m] ELSE NoModule]

\* A gate in front of a Channel that spills.
GatedTypes == [ raw |-> "Ingress", watch |-> "Probe", gate |-> "Regulator",
                clean |-> "Channel", sink |-> "Egress", bad |-> "Egress" ]

Gated(failing, closing) ==
    [ modules |-> <<"sink", "bad", "clean", "gate", "watch", "raw">>,
      edges |-> << Edge("raw", "gate", "main"), Edge("watch", "gate", "signal"),
                   Edge("gate", "clean", "main"), Edge("clean", "sink", "main"),
                   Edge("clean", "bad", "spillway") >>,
      type |-> GatedTypes, attach |-> Attach(GatedTypes, [watch |-> "raw"]),
      policy |-> Policy(GatedTypes, failing, closing),
      checkpoint |-> TRUE, parallel |-> FALSE, from |-> NoModule, to |-> NoModule ]

\* Two lanes; the gate of one goes by a Probe of each.
LaneTypes == [ raw |-> "Ingress", other |-> "Ingress", gate |-> "Regulator",
               watch |-> "Probe", sink |-> "Egress", copy |-> "Egress" ]

Lanes(failing, closing, checkpoint) ==
    [ modules |-> <<"raw", "other", "gate", "watch", "sink", "copy">>,
      edges |-> << Edge("raw", "gate", "main"), Edge("gate", "sink", "main"),
                   Edge("watch", "gate", "signal"), Edge("other", "copy", "main") >>,
      type |-> LaneTypes, attach |-> Attach(LaneTypes, [watch |-> "other"]),
      policy |-> Policy(LaneTypes, failing, closing),
      checkpoint |-> checkpoint, parallel |-> TRUE, from |-> NoModule, to |-> NoModule ]

\* A Junction whose branches meet again in a Funnel, then an Assert.
DiamondTypes == [ fix |-> "Ingress", raw |-> "Ingress", split |-> "Junction",
                  merge |-> "Funnel", check |-> "Assert", sink |-> "Egress",
                  bad |-> "Egress" ]

Diamond(failing, from, to) ==
    [ modules |-> <<"fix", "raw", "merge", "check", "split", "sink", "bad">>,
      edges |-> << Edge("fix", "merge", "main"), Edge("raw", "split", "main"),
                   Edge("split", "merge", "left"), Edge("split", "merge", "right"),
                   Edge("merge", "check", "main"), Edge("check", "sink", "main"),
                   Edge("check", "bad", "spillway") >>,
      type |-> DiamondTypes, attach |-> Attach(DiamondTypes, <<>>),
      policy |-> Policy(DiamondTypes, failing, "skip"),
      checkpoint |-> TRUE, parallel |-> FALSE, from |-> from, to |-> to ]

SmallPlans ==
    { Gated("abort", "skip"), Gated("alert_only", "trigger_agent"),
      Gated("trigger_agent", "abort"),
      Lanes("abort", "skip", TRUE), Lanes("alert_only", "abort", FALSE),
      Diamond("abort", NoModule, NoModule), Diamond("alert_only", NoModule, NoModule),
      Diamond("trigger_agent", NoModule, "check"), Diamond("abort", "split", NoModule) }
=============================================================================
