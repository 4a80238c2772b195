-------------------------- MODULE MCReplyParsing ---------------------------
(***************************************************************************)
(* Replies of at most eight pieces around one or two objects: a draft in a *)
(* reasoning block, open or closed, prose with or without a brace, a code  *)
(* block of another language, a fence, a second object, and the shapes and *)
(* flaws an object may have.                                               *)
(***************************************************************************)
EXTENDS ReplyParsing

Piece(kind) == [t |-> kind]
Tick(lang) == [t |-> "tick", lang |-> lang]
Obj(fields, flaw) == [t |-> "obj", fields |-> fields, flaw |-> flaw]
Text == [k |-> "text"]
Ops(ops) == [k |-> "ops", ops |-> ops]

OpA == [op |-> "set_module_config_key", args |-> "a"]
OpB == [name |-> "update_module_config", args |-> "b"]
Typed == [type |-> "replace_module_config_key", args |-> "a"]
Twice == [name |-> "Channel", type |-> "set_module_config_key", args |-> "a"]
Stray == [op |-> "set_module_config_key", name |-> "x", args |-> "a"]
Defer == [op |-> "defer", args |-> "d"]
DraftFields == [rationale |-> Text, operations |-> Ops(<<[OpA EXCEPT !.args = "draft"]>>)]

OpLists == {<<OpA>>, <<OpA, OpB>>, <<Typed>>, <<Twice>>, <<Stray>>, <<Defer>>, <<OpA, Defer>>, <<>>}
Bodies ==
    UNION {{[rationale |-> Text, operations |-> Ops(l)], [summary |-> Text, changes |-> Ops(l)],
            [rationale |-> Text, remedy |-> Ops(l)], [fix |-> Text, reason |-> Text, edits |-> Ops(l)],
            [operations |-> Ops(l)], [patch |-> Text, operations |-> Ops(l)]} : l \in OpLists}
    \cup {[patch |-> [k |-> "object", fields |-> f]]
              : f \in {DraftFields, [rationale |-> Text, ops |-> Ops(<<OpA>>)]}}
    \cup {[rationale |-> Text]}

Leads ==
    {<<>>, <<Piece("prose")>>, <<Piece("brace")>>, <<Piece("bracket")>>,
     <<Piece("think"), Obj(DraftFields, "none"), Piece("unthink")>>,
     <<Piece("think"), Obj(DraftFields, "none")>>,
     <<Tick("other"), Piece("prose"), Tick(""), Piece("prose")>>,
     <<Obj(DraftFields, "none"), Piece("prose")>>}
Wraps == {<<<<>>, <<>>>>, <<<<Tick("json")>>, <<Tick("")>>>>, <<<<Tick("")>>, <<>>>>}
Tails == {<<>>, <<Piece("brace")>>, <<Obj(DraftFields, "none")>>}

SmallReplies ==
    {p \o w[1] \o <<Obj(b, f)>> \o w[2] \o s :
        p \in Leads, w \in Wraps, s \in Tails, b \in Bodies,
        f \in {"none", "comment", "hash", "broken"}}
=============================================================================
