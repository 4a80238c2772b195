---------------------------- MODULE MCRowRouting ----------------------------
(* Every pair of row rules, each of the other rules in front of one or two,
   the Channels and the Junctions. *)
EXTENDS RowRouting

R(type, onFail, cond, limit) ==
    [type |-> type, onFail |-> onFail, dict |-> FALSE, cond |-> cond, limit |-> limit]
Dict(rule) == [rule EXCEPT !.dict = TRUE]

ConditionsOf(rules) ==
    {rules[i].cond : i \in {j \in DOMAIN rules : rules[j].type \in RowRules}}
        \cup {Fresh : i \in {j \in DOMAIN rules : rules[j].type = "null_rate"}}

Asserting(rules, wired) ==
    [type |-> "Assert", rules |-> rules, wired |-> wired, conditions |-> ConditionsOf(rules)]
Channel(conditions, wired) == [type |-> "Channel", conditions |-> conditions, wired |-> wired]
Junction(mode, branches, funnel) ==
    [type |-> "Junction", mode |-> mode, branches |-> branches, funnel |-> funnel,
     conditions |-> Range(branches) \ {"_else_"}]

Filters == { R("sql_row", "quarantine", "p", NoLimit), R("sql_row", "unset", "q", NoLimit),
             R("sql_row", "warn", "p", NoLimit), R("sql_row", "abort", "q", NoLimit),
             Dict(R("sql_row", "quarantine", "p", NoLimit)),
             R("sql_row", "quarantine", "p", 60), R("sql_row", "webhook", "q", 60),
             R("custom", "quarantine", "p", NoLimit), R("custom", "trigger_agent", "p", NoLimit),
             Dict(R("freshness", "quarantine", Fresh, NoLimit)),
             R("freshness", "unset", Fresh, NoLimit) }

Gates == { R("schema_match", "abort", "p", NoLimit), R("min_rows", "abort", "p", 1),
           R("max_rows", "warn", "p", 1), R("sql", "trigger_agent", "p", NoLimit),
           R("null_rate", "abort", "p", 40), R("spillway_rate", "abort", "p", 50),
           R("spillway_rate", "warn", "p", 0), R("min_rows", "quarantine", "p", 1) }

Gated == { R("sql_row", "quarantine", "p", NoLimit), R("custom", "unset", "p", NoLimit),
           Dict(R("freshness", "quarantine", Fresh, NoLimit)) }

SmallRouters ==
    { Asserting(<<a, b>>, TRUE) : a \in Filters, b \in Filters }
    \cup { Asserting(<<a>>, wired) : a \in Filters, wired \in BOOLEAN }
    \cup { Asserting(<<g, a>>, TRUE) : g \in Gates, a \in Gated }
    \cup { Asserting(<<g, R("sql_row", "unset", "q", NoLimit), a>>, TRUE) : g \in Gates, a \in Gated }
    \cup { Asserting(<<>>, FALSE), Channel({"p"}, TRUE), Channel({"p"}, FALSE), Channel({}, TRUE),
           Junction("broadcast", <<"p", "q">>, "none"),
           Junction("partition", <<"p", "q">>, "union_all"),
           Junction("conditional", <<"p", "q", "_else_">>, "none"),
           Junction("conditional", <<"p", "q", "_else_">>, "union"),
           Junction("conditional", <<"p", "_else_", "_else_">>, "union_all"),
           Junction("conditional", <<"_else_">>, "none") }
=============================================================================
