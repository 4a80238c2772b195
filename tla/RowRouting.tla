----------------------------- MODULE RowRouting -----------------------------
(***************************************************************************)
(* Which rows go where: the rules of an Assert (executor/spark/assert_.py),*)
(* the spillway of a Channel (executor.py), the branches of a Junction     *)
(* (junction.py) and a Funnel that brings them together again (funnel.py). *)
(*                                                                         *)
(* A frame is a plan, not data: a set of filters, and a row is in it if    *)
(* every filter keeps it when the plan is run.  Counting runs a plan, and  *)
(* so does every sink, at its own time; the age limit of a freshness rule  *)
(* is measured from that time.  A SQL condition is true, false or null for *)
(* a row, and a filter keeps a row only for what is true: the rows for     *)
(* which a condition is null pass neither it nor its negation.             *)
(*                                                                         *)
(* Rows are told apart by their conditions; columns, the error columns of  *)
(* a quarantined row, and the row-aligned modes of a Funnel are left out.  *)
(* A count takes no time; between two steps time may pass.                 *)
(***************************************************************************)
EXTENDS Naturals, Sequences, FiniteSets, Functions

CONSTANTS
    Tuples,         \* the rows of the router's input
    Routers,        \* the modules to route through (see Asserting, Channel, Junction in MC)
    NoLimit,        \* a rule without a bound of its own
    LastTime        \* time is 1 .. LastTime

\* The condition of a freshness rule.
Fresh == "fresh"

RowRules == {"sql_row", "custom", "freshness"}
AggregateRules == {"min_rows", "max_rows", "sql", "freshness"}
OnFail == {"unset", "abort", "trigger_agent", "warn", "webhook", "quarantine"}

\* A rule with what its type needs: a condition on the row or a limit.
RuleOK(rule, conditions) ==
    /\ rule.onFail \in OnFail /\ rule.dict \in BOOLEAN
    /\ rule.type \in {"sql_row", "custom"} => rule.cond \in conditions \ {Fresh}
    /\ rule.type \in {"min_rows", "max_rows", "null_rate", "spillway_rate"} => rule.limit \in Nat

\* A Channel has one spillway_condition or none.
ASSUME RoutingAssumption ==
    /\ LastTime \in Nat \ {0} /\ IsFiniteSet(Tuples)
    /\ \A m \in Routers :
        \/ /\ m.type = "Assert" /\ m.wired \in BOOLEAN
           /\ m.rules \in Seq(Range(m.rules))
           /\ \A i \in DOMAIN m.rules : RuleOK(m.rules[i], m.conditions)
        \/ /\ m.type = "Channel" /\ m.wired \in BOOLEAN
           /\ Fresh \notin m.conditions /\ \A c, d \in m.conditions : c = d
        \/ /\ m.type = "Junction" /\ m.branches \in Seq(Range(m.branches)) /\ m.branches # <<>>
           /\ m.conditions = Range(m.branches) \ {"_else_"} /\ Fresh \notin m.conditions

\* The action of a failed rule.  What is left unset is a quarantine for the
\* row rules that can, and an abort for all others.
Action(rule) ==
    IF rule.onFail # "unset" THEN rule.onFail
    ELSE IF rule.type \in {"sql_row", "custom"} THEN "quarantine" ELSE "abort"

\* compile's check of the rules (5.5).  It reads what is unset as abort.
Compiles(m) ==
    m.type = "Assert" =>
        \A i \in DOMAIN m.rules : m.rules[i].onFail = "quarantine" =>
            /\ m.rules[i].type \notin {"min_rows", "max_rows", "sql", "null_rate"}
            /\ m.rules[i].type \in RowRules => m.wired

VARIABLES
    router,     \* the module
    input,      \* the rows that come in
    truth,      \* condition -> row -> true, false or null
    freshUntil, \* row -> the last time at which it is fresh; 0 if the column is null
    now,
    phase,      \* schema, batch, sample, rows, rate, split, ports or failed
    ruleAt,     \* the rule being looked at
    passing,    \* passing_df: the filters of the main port so far
    parts,      \* quarantine_parts
    fired,      \* rules whose failure was a warning or a webhook
    frames,     \* port -> the frames whose union it holds
    sinks       \* port -> when its sink ran, and how often it got each row

dataVars == <<router, input, truth, freshUntil>>
planVars == <<ruleAt, passing, parts, fired, frames>>
routingVars == <<dataVars, now, phase, planVars, sinks>>

Is(cond, value) == [cond |-> cond, value |-> value]

Value(cond, row) ==
    IF cond = Fresh THEN IF freshUntil[row] >= now THEN "true" ELSE "false"
    ELSE truth[cond][row]

RowsOf(frame) == {r \in input : \A f \in frame : Value(f.cond, r) = f.value}

\* How often a row is in the union of the frames.
Copies(union, row) == Cardinality({i \in DOMAIN union : row \in RowsOf(union[i])})

\* The conditions of a partition compare one key with different values.
Partitioned == router.type = "Junction" /\ router.mode = "partition"

RoutingInit ==
    /\ router \in {m \in Routers : Compiles(m)}
    /\ input \in {Tuples, {}}
    /\ truth \in [router.conditions \ {Fresh} -> [Tuples -> {"true", "false", "null"}]]
    /\ Partitioned => \A r \in Tuples : \A c, d \in DOMAIN truth : c # d =>
           /\ truth[c][r] = "true" => truth[d][r] = "false"
           /\ truth[c][r] = "null" => truth[d][r] = "null"
    /\ freshUntil \in [Tuples -> IF Fresh \in router.conditions THEN 0..LastTime ELSE {0}]
    /\ now = 1
    /\ phase = IF router.type = "Assert" THEN "schema" ELSE "split"
    /\ ruleAt = 1 /\ passing = {} /\ parts = <<>> /\ fired = {}
    /\ frames = <<>> /\ sinks = <<>>

-----------------------------------------------------------------------------
(* An Assert: the rules in the order of their phases.                      *)

Rule(i) == router.rules[i]
RulesOf(types) == {i \in DOMAIN router.rules : Rule(i).type \in types}
Raises(i) == Action(Rule(i)) \in {"abort", "trigger_agent"}

\* _handle_fail for the rules that failed, in their order: the first one that
\* aborts or triggers the agent raises AssertError, everything else (a
\* quarantine that cannot be one, too) warns.
Handle(failed, next) ==
    LET raising == {i \in failed : Raises(i)}
        heard == {i \in failed : \A j \in raising : i < j}
    IN  /\ fired' = fired \cup heard
        /\ phase' = IF raising = {} THEN next ELSE "failed"

CheckSchema ==
    /\ phase = "schema"
    /\ \E failed \in SUBSET RulesOf({"schema_match"}) : Handle(failed, "batch")
    /\ UNCHANGED <<dataVars, now, ruleAt, passing, parts, frames, sinks>>

\* One aggregation over everything that came in.
CheckBatch ==
    /\ phase = "batch"
    /\ \E sql \in SUBSET RulesOf({"sql"}) :
        Handle(sql
               \cup {i \in RulesOf({"min_rows"}) : Cardinality(input) < Rule(i).limit}
               \cup {i \in RulesOf({"max_rows"}) : Cardinality(input) > Rule(i).limit}
               \cup {i \in RulesOf({"freshness"}) : RowsOf({Is(Fresh, "true")}) = {}},
               "sample")
    /\ UNCHANGED <<dataVars, now, ruleAt, passing, parts, frames, sinks>>

\* A share above its limit, in percent.  The share of nothing is 0.
Exceeds(count, total, limit) == 100 * count > limit * total

\* null_rate: one sample for all of them, any subset.
CheckSample ==
    /\ phase = "sample"
    /\ \E sample \in SUBSET input :
        LET nulls == {r \in sample : freshUntil[r] = 0}
        IN  Handle({i \in RulesOf({"null_rate"}) :
                        Exceeds(Cardinality(nulls), Cardinality(sample), Rule(i).limit)},
                   "rows")
    /\ UNCHANGED <<dataVars, now, ruleAt, passing, parts, frames, sinks>>

AtRule(types) ==
    phase = "rows" /\ ruleAt <= Len(router.rules) /\ Rule(ruleAt).type \in types

\* Only a plain string asks for a quarantine; {action: quarantine} does not.
PlainQuarantine(rule) == Action(rule) = "quarantine" /\ ~rule.dict

\* The rule is over: what passes it, and what it quarantined.
Route(pass, quarantined) ==
    /\ ruleAt' = ruleAt + 1
    /\ passing' = pass
    /\ parts' = parts \o quarantined

\* Mutant: every rule starts from the input again.
SqlRowOfInput ==
    /\ AtRule({"sql_row"})
    /\ LET rule == Rule(ruleAt)
           fail == {Is(rule.cond, "false")}
       IN  /\ IF PlainQuarantine(rule) \/ RowsOf(fail) = {}
              THEN UNCHANGED <<fired, phase>> ELSE Handle({ruleAt}, "rows")
           /\ Route({Is(rule.cond, "true")}, IF PlainQuarantine(rule) THEN <<fail>> ELSE <<>>)
    /\ UNCHANGED <<dataVars, now, frames, sinks>>

\* min_pass_rate is looked at first, and there a quarantine is an abort.  Then
\* the failing rows are quarantined, or counted and dropped.
SqlRow ==
    /\ AtRule({"sql_row"})
    /\ LET rule == Rule(ruleAt)
           pass == passing \cup {Is(rule.cond, "true")}
           fail == passing \cup {Is(rule.cond, "false")}
           low  == /\ rule.limit # NoLimit
                   /\ 100 * Cardinality(RowsOf(pass)) < rule.limit * Cardinality(RowsOf(passing))
       IN  IF low /\ (Raises(ruleAt) \/ PlainQuarantine(rule))
           THEN phase' = "failed" /\ UNCHANGED planVars
           ELSE /\ IF PlainQuarantine(rule) \/ (~low /\ RowsOf(fail) = {})
                   THEN UNCHANGED <<fired, phase>> ELSE Handle({ruleAt}, "rows")
                /\ Route(pass, IF PlainQuarantine(rule) THEN <<fail>> ELSE <<>>)
                /\ UNCHANGED frames
    /\ UNCHANGED <<dataVars, now, sinks>>

\* A function of the user: it cannot be loaded, it raises (which passes), or it
\* says what it finds, with the rows or without them.  The rows it names stay
\* in what passes.
Custom ==
    /\ AtRule({"custom"})
    /\ LET rule == Rule(ruleAt)
           bad == passing \cup {Is(rule.cond, "false")}
       IN  \/ phase' = "failed" /\ UNCHANGED planVars
           \/ Route(passing, <<>>) /\ UNCHANGED <<phase, fired, frames>>
           \/ /\ RowsOf(bad) # {} /\ PlainQuarantine(rule)
              /\ Route(passing, <<bad>>)
              /\ UNCHANGED <<phase, fired, frames>>
           \/ /\ RowsOf(bad) # {}
              /\ Route(passing, <<>>) /\ Handle({ruleAt}, "rows")
              /\ UNCHANGED frames
    /\ UNCHANGED <<dataVars, now, sinks>>

FreshRow ==
    /\ AtRule({"freshness"}) /\ Action(Rule(ruleAt)) = "quarantine"
    /\ Route(passing \cup {Is(Fresh, "true")}, <<passing \cup {Is(Fresh, "false")}>>)
    /\ UNCHANGED <<dataVars, now, phase, fired, frames, sinks>>

NoRowRule ==
    /\ phase = "rows" /\ ruleAt <= Len(router.rules)
    /\ Rule(ruleAt).type \notin {"sql_row", "custom"}
    /\ Rule(ruleAt).type = "freshness" => Action(Rule(ruleAt)) # "quarantine"
    /\ Route(passing, <<>>)
    /\ UNCHANGED <<dataVars, now, phase, fired, frames, sinks>>

RowRulesDone ==
    /\ phase = "rows" /\ ruleAt > Len(router.rules)
    /\ phase' = "rate"
    /\ UNCHANGED <<dataVars, now, planVars, sinks>>

\* quarantine_df.count(): a row counts once per part it is in.
Quarantined == Cardinality({p \in (DOMAIN parts) \X input : p[2] \in RowsOf(parts[p[1]])})

\* spillway_rate comes last; then execute hands on what passed, and the
\* quarantine if there is one and an edge to take it.
CheckRate ==
    /\ phase = "rate"
    /\ Handle({i \in RulesOf({"spillway_rate"}) :
                   Exceeds(Quarantined, Cardinality(input), Rule(i).limit)}, "ports")
    /\ frames' = IF phase' = "failed" THEN frames
                 ELSE IF router.wired /\ parts # <<>>
                      THEN [main |-> <<passing>>, spillway |-> parts]
                      ELSE [main |-> <<passing>>]
    /\ UNCHANGED <<dataVars, now, ruleAt, passing, parts, sinks>>

-----------------------------------------------------------------------------
(* A Channel with a spillway edge or a spillway_condition, and a Junction. *)

Split(ports) ==
    /\ phase = "split" /\ phase' = "ports"
    /\ frames' = ports
    /\ UNCHANGED <<dataVars, now, ruleAt, passing, parts, fired, sinks>>

\* Without an edge everything stays on the main port; without a condition the
\* spillway is there and empty.
SplitChannel ==
    /\ router.type = "Channel"
    /\ LET bad(value) == {Is(c, value) : c \in router.conditions}
       IN  Split(IF ~router.wired THEN [main |-> <<{}>>]
                 ELSE IF router.conditions = {} THEN [main |-> <<{}>>, spillway |-> <<>>]
                 ELSE [main |-> <<bad("false")>>, spillway |-> <<bad("true")>>])

\* The frame of a branch: its condition (a partition's is key = value), or what
\* makes NOT (c1 OR c2 ...) true.
Branch(b) ==
    CASE router.mode = "broadcast" -> {}
      [] router.mode # "broadcast" /\ router.branches[b] # "_else_" ->
             {Is(router.branches[b], "true")}
      [] OTHER -> {Is(c, "false") : c \in router.conditions}

SplitJunction ==
    /\ router.type = "Junction"
    /\ Split([b \in DOMAIN router.branches |-> <<Branch(b)>>])

-----------------------------------------------------------------------------
(* The sinks: one per port with an edge, or one below a Funnel.            *)

Ports == IF router.type = "Junction" THEN DOMAIN router.branches
         ELSE IF router.wired THEN {"main", "spillway"} ELSE {"main"}

\* execute_funnel over the branches: union_all keeps copies, union does not.
Merged(row) ==
    LET copies == Cardinality({b \in Ports : Copies(frames[b], row) > 0})
    IN  IF router.funnel = "union" /\ copies > 1 THEN 1 ELSE copies

Funnelled == router.type = "Junction" /\ router.funnel # "none"
Outlets == IF Funnelled THEN {0} ELSE Ports

\* Egress: its frame is run now, all parts of it at the same time.
Write(s) ==
    /\ phase = "ports" /\ s \in Outlets \ DOMAIN sinks
    /\ Funnelled \/ s \in DOMAIN frames
    /\ sinks' = [q \in DOMAIN sinks \cup {s} |->
                    IF q # s THEN sinks[q]
                    ELSE [at |-> now,
                          copies |-> [r \in Tuples |-> IF Funnelled THEN Merged(r)
                                                     ELSE Copies(frames[s], r)]]]
    /\ UNCHANGED <<dataVars, now, phase, planVars>>

\* "produced no DataFrame": an Assert that quarantined by no rule fills no
\* spillway, and the sink that waits for it fails.
Starved(s) ==
    /\ phase = "ports" /\ ~Funnelled /\ s \in Outlets \ DOMAIN frames
    /\ phase' = "failed"
    /\ UNCHANGED <<dataVars, now, planVars, sinks>>

Tick ==
    /\ phase # "failed" /\ now < LastTime
    /\ now' = now + 1
    /\ UNCHANGED <<dataVars, phase, planVars, sinks>>

RoutingNext ==
    \/ CheckSchema \/ CheckBatch \/ CheckSample
    \/ SqlRow \/ Custom \/ FreshRow \/ NoRowRule \/ RowRulesDone \/ CheckRate
    \/ SplitChannel \/ SplitJunction
    \/ \E s \in Outlets : Write(s) \/ Starved(s)
    \/ Tick

RoutingSpec == RoutingInit /\ [][RoutingNext]_routingVars

-----------------------------------------------------------------------------
(* Properties.                                                             *)

Filled(s) == s \in DOMAIN sinks
Got(s, row) == IF Filled(s) THEN sinks[s].copies[row] ELSE 0

\* Was the row fresh when the sink ran?
FreshAt(s, row) == freshUntil[row] >= sinks[s].at

\* What an Assert lets through has passed every one of its row filters - those
\* that only warn, too - at the time the sink got it, and is there once; and
\* nothing gets through at all if a rule that aborts has not held.
PassedTheRules ==
    (router.type = "Assert" /\ Filled("main")) =>
        /\ \A r \in input : Got("main", r) > 0 =>
               /\ Got("main", r) = 1
               /\ \A i \in RulesOf({"sql_row"}) : truth[Rule(i).cond][r] = "true"
               /\ \A i \in RulesOf({"freshness"}) :
                      Action(Rule(i)) = "quarantine" => FreshAt("main", r)
        /\ \A i \in RulesOf({"sql_row"}) : Raises(i) =>
               \A r \in input : truth[Rule(i).cond][r] = "false" =>
                   \E j \in RulesOf({"sql_row", "freshness"}) :
                       /\ j < i
                       /\ IF Rule(j).type = "sql_row" THEN truth[Rule(j).cond][r] # "true"
                          ELSE Action(Rule(j)) = "quarantine" /\ ~FreshAt("main", r)
        /\ \A i \in RulesOf({"min_rows"}) : Raises(i) => Cardinality(input) >= Rule(i).limit

\* What the spillway's sink gets stays within a spillway_rate that aborts,
\* although the rule counted an earlier run of the frame, as long as no age
\* limit moves rows in between.
SpilledWithinRate ==
    (router.type = "Assert" /\ Filled("spillway")) =>
        \A i \in RulesOf({"spillway_rate"}) :
            (Raises(i) /\ \A j \in RulesOf({"freshness"}) : Action(Rule(j)) # "quarantine") =>
                LET got == UNION {{r} \X (1..Got("spillway", r)) : r \in input}
                IN  ~Exceeds(Cardinality(got), Cardinality(input), Rule(i).limit)

\* Both ports of an Assert keep to its rules.
AssertKeepsRules == PassedTheRules /\ SpilledWithinRate

\* The ways a row can miss every sink.  An Assert's rule: a condition that is
\* null; a failure that was announced, not quarantined; a quarantine without a
\* spillway; an age limit passed between the run of the spillway's sink and that
\* of the main one.  A spillway_condition that is null; no branch for the row,
\* or a null among the conditions that "_else_" negates.
MayBeLost(r) ==
    CASE router.type = "Assert" ->
             \/ \E i \in RulesOf({"sql_row"}) :
                    \/ truth[Rule(i).cond][r] = "null"
                    \/ /\ truth[Rule(i).cond][r] = "false"
                       /\ IF PlainQuarantine(Rule(i)) THEN ~router.wired ELSE i \in fired
             \/ /\ \E i \in RulesOf({"freshness"}) : Action(Rule(i)) = "quarantine"
                /\ ~FreshAt("main", r) /\ FreshAt("spillway", r)
      [] router.type = "Channel" ->
             router.wired /\ \E c \in router.conditions : truth[c][r] = "null"
      [] router.type = "Junction" ->
             /\ router.mode # "broadcast"
             /\ \A c \in router.conditions : truth[c][r] # "true"
             /\ (\E b \in Ports : router.branches[b] = "_else_") =>
                    \E c \in router.conditions : truth[c][r] = "null"

\* The ways a row can get to the sinks more than once: a custom function leaves
\* what it names in what passes, the age limit passes between the run of the
\* main sink and that of the spillway's, branches overlap (two may be "_else_").
MayBeTwice(r) ==
    CASE router.type = "Assert" ->
             \/ \E i \in RulesOf({"custom"}) : truth[Rule(i).cond][r] = "false"
             \/ /\ \E i \in RulesOf({"freshness"}) : Action(Rule(i)) = "quarantine"
                /\ FreshAt("main", r) /\ ~FreshAt("spillway", r)
      [] router.type = "Channel" -> FALSE
      [] router.type = "Junction" ->
             /\ router.funnel # "union"
             /\ \/ router.mode = "broadcast"
                \/ \E b, d \in Ports : b # d /\
                       \/ \A x \in {b, d} : /\ router.branches[x] # "_else_"
                                            /\ truth[router.branches[x]][r] = "true"
                       \/ \A x \in {b, d} : router.branches[x] = "_else_"

\* Every row that comes in is in exactly one sink, except for the reasons above.
RowsAccountedFor ==
    DOMAIN sinks = Outlets =>
        \A r \in input :
            LET copies == UNION {{s} \X (1..Got(s, r)) : s \in Outlets}
            IN  /\ copies = {} => MayBeLost(r)
                /\ Cardinality(copies) > 1 => MayBeTwice(r)

\* The two together: where each row goes, and what gets through an Assert.
RowsRouted == AssertKeepsRules /\ RowsAccountedFor

=============================================================================
