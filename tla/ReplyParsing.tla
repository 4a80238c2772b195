--------------------------- MODULE ReplyParsing ----------------------------
(***************************************************************************)
(* What the attempt loop takes a model's reply to be: _parse_patch_spec    *)
(* (agent/parse.py), which peels off the wrapping models put around a      *)
(* patch and decodes the first JSON object left, and the PatchSpec         *)
(* validators (patch/grammar.py), which forgive wrong names.               *)
(*                                                                         *)
(* A reply is a sequence of pieces: "think" and "unthink" tags, "tick" (a  *)
(* line of three backticks, with its language), "prose", "brace" (prose    *)
(* that holds an opening brace), a "bracket" of a JSON list, and "obj", a  *)
(* JSON object with its fields and its flaw: a line "comment", a "hash"    *)
(* (a string that holds a blank and a # or //), "broken" syntax, or        *)
(* "none".  A field holds a "text", a list of "ops" or an "object"; an     *)
(* operation is a function whose "args" stands for its other fields.       *)
(***************************************************************************)
EXTENDS Naturals, Sequences, FiniteSets, FiniteSetsExt, SequencesExt

CONSTANT Replies          \* the replies a model may give

VARIABLES
    reply,                \* the raw text of the turn
    parsed                \* what _parse_patch_spec returned

replyVars == <<reply, parsed>>

OpNames == {"set_module_config_key", "replace_module_config", "defer_to_human"}
\* _OP_ALIASES and _METADATA_ALIASES, some of them.
OpAliases == [replace_module_config_key |-> "set_module_config_key",
              update_module_config |-> "replace_module_config",
              defer |-> "defer_to_human"]
RationaleAliases == {"description", "summary", "reason"}
Discriminators == <<"type", "action", "operation", "method", "kind", "name">>
OperationsAliases ==
    <<"ops", "op_list", "patches", "steps", "fix", "changes", "actions", "modifications", "updates",
      "patch_operations", "module_updates", "module_changes", "edits", "diff">>

Pending == [kind |-> "pending"]
\* The caller reprompts with the error, whichever it was.
Rejected == [kind |-> "rejected"]
Accepted(ops, recovery) == [kind |-> "patch", ops |-> ops, recovery |-> recovery]

-----------------------------------------------------------------------------
(* The text.  Each step maps [text, recovery] to the same.                  *)

Is(piece, kind) == piece.t = kind

\* A closed block ends at the first closing tag; an open one is not a block.
InThink(text, i) ==
    \E open, close \in DOMAIN text :
        /\ open <= i /\ i <= close
        /\ Is(text[open], "think") /\ Is(text[close], "unthink")
        /\ \A k \in open..(close - 1) : ~Is(text[k], "unthink")

\* Mutant: a reasoning block is left in the text.
ThinkingKept(text) == text
WithoutThinking(text) ==
    LET kept == SelectSeq([i \in DOMAIN text |-> i], LAMBDA i : ~InThink(text, i))
    IN  [k \in DOMAIN kept |-> text[kept[k]]]

\* The first fence that opens with no language or with json.  The closing
\* backticks of another block open one just as well.
Fences(text) ==
    {<<i, j>> \in (DOMAIN text) \X (DOMAIN text) :
        /\ j > i + 1 /\ Is(text[i], "tick") /\ Is(text[j], "tick")
        /\ text[i].lang # "other"
        /\ \A k \in (i + 2)..(j - 1) : ~Is(text[k], "tick")}
Fenced(text) ==
    IF Fences(text) = {} THEN text
    ELSE LET fence == CHOOSE f \in Fences(text) : \A g \in Fences(text) : f[1] <= g[1]
         IN  SubSeq(text, fence[1] + 1, fence[2] - 1)

FromFirstBrace(text) ==
    LET braces == {i \in DOMAIN text : text[i].t \in {"obj", "brace"}}
    IN  IF braces = {} THEN text ELSE SubSeq(text, Min(braces), Len(text))

\* The pattern does not know strings: one that holds a marker loses its end.
WithoutComments(text) ==
    [i \in DOMAIN text |->
        IF ~Is(text[i], "obj") THEN text[i]
        ELSE CASE text[i].flaw = "comment" -> [text[i] EXCEPT !.flaw = "none"]
               [] text[i].flaw = "hash" -> [text[i] EXCEPT !.flaw = "cut"]
               [] OTHER -> text[i]]

Cleaned(raw) ==
    FoldLeft(LAMBDA t, step :
                LET next == CASE step = "stripped_think_block" -> WithoutThinking(t.text)
                              [] step = "stripped_code_fence" -> Fenced(t.text)
                              [] step = "stripped_leading_prose" -> FromFirstBrace(t.text)
                              [] OTHER -> WithoutComments(t.text)
                IN  [text |-> next,
                     recovery |-> IF next = t.text THEN t.recovery ELSE t.recovery \cup {step}],
            [text |-> raw, recovery |-> {}],
            <<"stripped_think_block", "stripped_code_fence", "stripped_leading_prose",
              "stripped_line_comments">>)

-----------------------------------------------------------------------------
(* The object.                                                              *)

\* What json_repair makes of an object: it closes what is open, and may
\* guess the rest right.  External, and not always installed.
Damaged(fields) ==
    [k \in DOMAIN fields |->
        IF fields[k].k # "ops" THEN fields[k]
        ELSE [fields[k] EXCEPT !.ops = [i \in DOMAIN @ |-> [@[i] EXCEPT !.args = "damaged"]]]]
Repairs(piece) ==
    IF Is(piece, "brace") THEN {<<>>}
    ELSE {Damaged(piece.fields)} \cup (IF piece.flaw = "broken" THEN {piece.fields} ELSE {})

\* raw_decode reads the first object and stops; a failed repair is an error.
Decoded(t) ==
    IF t.text = <<>> \/ t.text[1].t \notin {"obj", "brace"} THEN {}
    ELSE IF Is(t.text[1], "obj") /\ t.text[1].flaw = "none"
         THEN {[fields |-> t.text[1].fields, recovery |-> t.recovery]}
         ELSE {[fields |-> f, recovery |-> t.recovery \cup {"json_repair"}] : f \in Repairs(t.text[1])}
RepairFails(t) == t.text = <<>> \/ ~Is(t.text[1], "obj") \/ t.text[1].flaw # "none"

Unwrapped(d) ==
    IF Cardinality(DOMAIN d.fields) # 1 THEN d
    ELSE LET inner == d.fields[CHOOSE k \in DOMAIN d.fields : TRUE]
         IN  IF inner.k = "object" /\ "operations" \in DOMAIN inner.fields
             THEN [fields |-> inner.fields, recovery |-> d.recovery \cup {"unwrapped"}]
             ELSE d

Renamed(f, from, to) ==
    [k \in (DOMAIN f \ {from}) \cup {to} |-> IF k = to THEN f[from] ELSE f[k]]

\* The first alias present is taken, whatever it holds; only when there is
\* none is a list of operations looked for under any name.
OperationsFound(fields) ==
    LET aliases == SelectSeq(OperationsAliases, LAMBDA a : a \in DOMAIN fields)
        lists == {k \in DOMAIN fields : fields[k].k = "ops" /\ fields[k].ops # <<>>
                      /\ DOMAIN fields[k].ops[1] \cap {"op", "type"} # {}}
    IN  CASE "operations" \in DOMAIN fields -> fields
          [] OTHER ->
               IF aliases # <<>> THEN Renamed(fields, Head(aliases), "operations")
               ELSE IF lists # {} THEN Renamed(fields, CHOOSE k \in lists : TRUE, "operations")
               ELSE fields

RationaleFound(fields) ==
    LET aliases == DOMAIN fields \cap RationaleAliases
    IN  IF "rationale" \in DOMAIN fields \/ aliases = {} THEN fields
        ELSE Renamed(fields, CHOOSE k \in aliases : TRUE, "rationale")

NormalOp(op) ==
    LET wrong == SelectSeq(Discriminators, LAMBDA a : a \in DOMAIN op)
        named == IF "op" \in DOMAIN op \/ wrong = <<>> THEN op ELSE Renamed(op, Head(wrong), "op")
    IN  IF "op" \in DOMAIN named /\ named.op \in DOMAIN OpAliases
        THEN [named EXCEPT !.op = OpAliases[@]] ELSE named

\* The validator that runs before the fields are read.  A missing patch_id is
\* made up and an unknown field kept in misc: neither changes the blueprint.
Normalised(fields) ==
    LET found == OperationsFound(RationaleFound(fields))
    IN  [k \in DOMAIN found |->
            IF k = "operations" /\ found[k].k = "ops"
            THEN [found[k] EXCEPT !.ops = [i \in DOMAIN @ |-> NormalOp(@[i])]] ELSE found[k]]

ValidOp(op) == DOMAIN op = {"op", "args"} /\ op.op \in OpNames
RejectMixedDefer(ops) ==
    LET names == {ops[i].op : i \in DOMAIN ops} IN "defer_to_human" \in names /\ Cardinality(names) > 1
Valid(fields) ==
    /\ {"operations", "rationale"} \subseteq DOMAIN fields
    /\ fields.operations.k = "ops" /\ fields.operations.ops # <<>>
    /\ \A i \in DOMAIN fields.operations.ops : ValidOp(fields.operations.ops[i])
    /\ ~RejectMixedDefer(fields.operations.ops)

PatchSpecOf(raw) ==
    LET t == Cleaned(raw)
    IN  (IF RepairFails(t) THEN {Rejected} ELSE {})
        \cup {LET u == Unwrapped(d) IN
              IF Valid(Normalised(u.fields))
              THEN Accepted(Normalised(u.fields).operations.ops, u.recovery) ELSE Rejected
              : d \in Decoded(t)}

-----------------------------------------------------------------------------
ReplyInit == reply \in Replies /\ parsed = Pending

ParseReply ==
    /\ parsed = Pending
    /\ parsed' \in PatchSpecOf(reply)
    /\ UNCHANGED reply

ReplyNext == ParseReply
ReplySpec == ReplyInit /\ [][ReplyNext]_replyVars

-----------------------------------------------------------------------------
(* Properties.                                                              *)

Args(ops) == [i \in DOMAIN ops |-> ops[i].args]
Spoken == {i \in DOMAIN reply : Is(reply[i], "obj") /\ ~InThink(reply, i)}
ListsOf(fields) ==
    {fields[k].ops : k \in {q \in DOMAIN fields : fields[q].k = "ops"}}
    \cup UNION {{fields[q].fields[k].ops : k \in {x \in DOMAIN fields[q].fields : fields[q].fields[x].k = "ops"}}
                : q \in {x \in DOMAIN fields : fields[x].k = "object"}}

\* A patch that was not repaired holds the operations of one object of the
\* answer, none left out and none taken from a reasoning block; a repaired one
\* says so, because a string may have lost its end.  One without any recovery,
\* the only kind a run in auto mode applies unreviewed (cli.py:1965), was the
\* start of the reply.  A deferral, under whichever of its names, comes alone.
NothingInvented ==
    parsed.kind = "patch" =>
        /\ "json_repair" \in parsed.recovery
           \/ \E i \in Spoken :
                 /\ reply[i].flaw \in {"none", "comment"}
                 /\ \E ops \in ListsOf(reply[i].fields) : Args(ops) = Args(parsed.ops)
        /\ parsed.recovery = {} =>
               /\ Is(reply[1], "obj") /\ reply[1].flaw = "none"
               /\ \E ops \in ListsOf(reply[1].fields) : Args(ops) = Args(parsed.ops)
        /\ (\E i \in DOMAIN parsed.ops : parsed.ops[i].op = "defer_to_human") =>
               \A i \in DOMAIN parsed.ops : parsed.ops[i].op = "defer_to_human"

\* A patch a person would recognise: one list of operations with names the
\* schema knows by themselves or as a confusion, and a rationale.
Names(op) == {op[k] : k \in DOMAIN op \ {"args"}}
KnownOp(op) == Cardinality(Names(op)) = 1 /\ Names(op) \subseteq OpNames \cup DOMAIN OpAliases
Deferral(op) == Names(op) \subseteq {"defer", "defer_to_human"}
Recognisable(fields) ==
    /\ DOMAIN fields \cap (RationaleAliases \cup {"rationale"}) # {}
    /\ \E key \in DOMAIN fields :
        /\ fields[key].k = "ops" /\ fields[key].ops # <<>>
        /\ \A i \in DOMAIN fields[key].ops : KnownOp(fields[key].ops[i])
        /\ (\A i \in DOMAIN fields[key].ops : Deferral(fields[key].ops[i]))
           \/ (\A i \in DOMAIN fields[key].ops : ~Deferral(fields[key].ops[i]))
        /\ \/ key \in Range(OperationsAliases) \cup {"operations"}
           \/ DOMAIN fields[key].ops[1] \cap {"op", "type"} # {}
        /\ \A other \in DOMAIN fields \ {key} : other \notin Range(OperationsAliases) \cup {"operations"}

\* A recognisable patch is not lost, and not repaired either, whatever
\* reasoning, prose, comments or one json fence the model put around it: only
\* when a brace comes before it, another code block stands in the reply or a
\* second object follows may the parser pick something else.
NothingLost ==
    LET i == CHOOSE k \in Spoken : TRUE
        ticks == {k \in DOMAIN reply : Is(reply[k], "tick") /\ ~InThink(reply, k)}
    IN  (/\ parsed # Pending /\ Cardinality(Spoken) = 1
         /\ reply[i].flaw \in {"none", "comment"}
         /\ Recognisable(reply[i].fields)
         /\ \A k \in 1..i : InThink(reply, k) \/ ~Is(reply[k], "brace")
         /\ ticks = {} \/ (Cardinality(ticks) = 2 /\ Min(ticks) < i /\ i < Max(ticks)
                           /\ reply[Min(ticks)].lang # "other"))
        => parsed.kind = "patch" /\ "json_repair" \notin parsed.recovery

\* Both: the reply is taken for what it says.
ReplyUnderstood == NothingInvented /\ NothingLost

=============================================================================
