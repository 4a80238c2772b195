---------------------------- MODULE MCContextMap ----------------------------
(* Three keys with every value that matters, overridden by every layer in
   turn, a chain of four that MaxDepth = 1 resolves in some orders only, and
   profiles with a nested block. *)
EXTENDS ContextMap

Shell == [SET |-> "home"]
Answering == {"get"}

NoKeys == [k \in {} |-> <<>>]

Values(k, others) ==
    {<<Text(k)>>, <<Text(k), VarOr("UNSET", <<Text("def")>>)>>,
     <<Open("get"), Text(k), Close>>, <<Ref(Reserved)>>}
    \cup UNION {{<<Ref(o), Text(k)>>, <<Open("get"), Ref(o), Close>>, <<Open("get"), Close, Ref(o)>>} :
                    o \in others}

Statics == {[a |-> x, b |-> y, c |-> z] :
                x \in Values("a", {"b", "c"}), y \in Values("b", {"a", "c"}),
                z \in {<<Text("c")>>, <<Var("SET")>>, <<Open("get"), Text("c"), Close>>}}

Uses == {<<Ref("a"), Ref("b")>>, <<Open("get"), Ref("a"), Close, Var("SET")>>}

Overridden ==
    {[static |-> [a |-> <<Ref("b")>>, b |-> <<Text("b"), Ref("c")>>, c |-> <<Var(v)>>],
      profile |-> p, nested |-> NoKeys, shell |-> s, cli |-> o, used |-> <<Ref("a"), Var("SET")>>] :
         v \in {"SET", "UNSET"},
         p \in {NoKeys, [b |-> <<Var("SET")>>], [c |-> <<Var("UNSET")>>], [c |-> <<Ref("d")>>]},
         s \in {NoKeys, [b |-> <<Text("shell")>>], [d |-> <<Text("d")>>]},
         o \in {NoKeys, [b |-> <<Var("UNSET")>>], [c |-> <<Ref("b")>>],
                [d |-> <<Open("nope"), Close>>]}}

Chain == [static |-> [a |-> <<Ref("b")>>, b |-> <<Ref("c")>>, c |-> <<Ref("d")>>, d |-> <<Text("d")>>],
          profile |-> NoKeys, nested |-> NoKeys, shell |-> NoKeys, cli |-> NoKeys, used |-> <<Ref("a")>>]

\* A profile that nests db.host under db, as the blueprint may in its context.
Blocks ==
    {[static |-> ("db.host" :> <<Text("local"), Ref("c")>>) @@ ("c" :> <<Text("c")>>),
      profile |-> NoKeys, nested |-> "db" :> ("host" :> v), shell |-> s, cli |-> NoKeys,
      used |-> <<Ref("db"), Ref("db.host")>>] :
         v \in {<<Text("remote")>>, <<Ref("c"), Var("UNSET")>>, <<Ref("db")>>},
         s \in {NoKeys, "db" :> <<Text("shell")>>, "db.host" :> <<Text("shell")>>}}

SmallLayerings ==
    Blocks \cup {Chain, [Chain EXCEPT !.used = <<Ref("nothing")>>]} \cup Overridden
    \cup {[static |-> s, profile |-> NoKeys, nested |-> NoKeys, shell |-> NoKeys, cli |-> NoKeys, used |-> u] :
              s \in Statics, u \in Uses}
=============================================================================
