----------------------------- MODULE ContextMap -----------------------------
(***************************************************************************)
(* The context of a blueprint: build_context_map and resolve_value         *)
(* (parser/resolver.py), which put together the layers a value may come    *)
(* from and substitute ${VAR} and ${ctx.key}, and the steps of compile     *)
(* (compiler/compiler.py) and resolve_tier1_str (compiler/runtime.py) that *)
(* make the @aq.* calls afterwards.                                        *)
(*                                                                         *)
(* A string is a sequence of tokens: text, a reference to a variable of    *)
(* the shell or to a key, the opening "@aq.f(" or the closing ")" of a     *)
(* call, and the result of one.  The keys of the context are flat already  *)
(* (flatten_dict), those of a profile are as the file has them, and it may *)
(* list them in any order.  What a call returns is told apart by its       *)
(* function and its arguments; the clock, secrets and the depot are left   *)
(* out, and so are macros and provenance.                                  *)
(***************************************************************************)
EXTENDS Naturals, Sequences, FiniteSets, SequencesExt, TLC

CONSTANTS
    Layerings,  \* what static, profile (its strings, and its nested blocks), shell
                \* and cli give, and a module's value
    ShellVars,  \* variable -> its text
    Callable, \* the @aq functions that answer; any other one raises
    MaxDepth,   \* 20 in the code: how deep a reference may lead
    MaxCalls    \* 20 in the code: calls made in one string

Token(kind, name, args) == [kind |-> kind, name |-> name, args |-> args]
Text(t) == Token("text", t, <<>>)
Ref(key) == Token("ctx", key, <<>>)
Var(name) == Token("env", name, <<>>)
VarOr(name, default) == Token("envOr", name, default)
Open(f) == Token("open", f, <<>>)
Close == Token("close", "", <<>>)
Result(f, args) == Token("result", f, args)
Raised == Token("raised", "", <<>>)

\* _RESERVED_DEFERRED: left for the executor.
Reserved == "_watermark"

IsFaulty(v) == Raised \in Range(v)
HasCall(v) == \E t \in Range(v) : t.kind = "open"
RefsOf(v) == {t.name : t \in {u \in Range(v) : u.kind = "ctx"}}

Layers == {"static", "profile", "nested", "shell", "cli"}

ASSUME ContextAssumption ==
    /\ {MaxDepth, MaxCalls} \subseteq Nat
    /\ \A l \in Layerings : DOMAIN l = Layers \cup {"used"}

VARIABLES
    layers,     \* the inputs
    doing,      \* static, profile, cross, module, calls, again, ready or failed
    values,     \* flat, str_flat, later resolved_ctx
    visited,    \* keys of this round
    changed,    \* in this round
    rounds,     \* rounds over the keys that are over
    used        \* a string of a module's config

contextVars == <<layers, doing, values, visited, changed, rounds, used>>

\* _sub_env
SubEnv(v) ==
    FlattenSeq([i \in DOMAIN v |->
        IF v[i].kind \notin {"env", "envOr"} THEN <<v[i]>>
        ELSE IF v[i].name \in DOMAIN ShellVars THEN <<Text(ShellVars[v[i].name])>>
        ELSE IF v[i].kind = "envOr" THEN v[i].args ELSE <<Raised>>])

\* A string with a call in it keeps its ${VAR}.
EnvResolved(v) == IF HasCall(v) THEN v ELSE SubEnv(v)

\* A key's value put in the place of each reference to it.
Replaced(v, m, of) ==
    FlattenSeq([i \in DOMAIN v |->
        IF v[i].kind # "ctx" THEN <<v[i]>>
        ELSE IF v[i].name \in DOMAIN m THEN of[v[i].name]
        ELSE IF v[i].name = Reserved THEN <<v[i]>> ELSE <<Raised>>])

\* _sub_ctx: a value with references of its own is substituted first, down to
\* MaxDepth.
SubCtx(v, m) ==
    LET below[levels \in Nat] ==
            [k \in DOMAIN m |->
                IF RefsOf(m[k]) = {} THEN m[k]
                ELSE IF levels = 0 THEN <<Raised>>
                ELSE Replaced(m[k], m, below[levels - 1])]
    IN  Replaced(v, m, below[MaxDepth])

\* _INNER_CALL_RE: the first call with no call among its arguments.
InnerCalls(v) ==
    {p \in (DOMAIN v) \X (DOMAIN v) :
        /\ p[1] < p[2] /\ v[p[1]].kind = "open" /\ v[p[2]].kind = "close"
        /\ \A i \in (p[1] + 1)..(p[2] - 1) : v[i].kind \notin {"open", "close"}}

\* resolve_tier1_str: innermost call by innermost call.  What is left of a call
\* then is an error.
Called(v) ==
    LET call(w, turn) ==
            IF InnerCalls(w) = {} THEN w
            ELSE LET p == CHOOSE q \in InnerCalls(w) : \A r \in InnerCalls(w) : q[1] <= r[1]
                     f == w[p[1]].name
                 IN  SubSeq(w, 1, p[1] - 1)
                     \o <<IF f \in Callable THEN Result(f, SubSeq(w, p[1] + 1, p[2] - 1))
                          ELSE Raised>>
                     \o SubSeq(w, p[2] + 1, Len(w))
        done == FoldLeft(call, v, [turn \in 1..MaxCalls |-> turn])
    IN  IF HasCall(done) THEN <<Raised>> ELSE done

-----------------------------------------------------------------------------
(* Steps.                                                                  *)
NothingResolved ==
    /\ doing = "static"
    /\ values = <<>> /\ visited = {} /\ changed = FALSE /\ rounds = 0
    /\ used = layers.used

ContextInit == layers \in Layerings /\ NothingResolved

\* The outcome of a step, or an error if it raised on the way.
Becomes(m, next) ==
    IF \E k \in DOMAIN m : IsFaulty(m[k])
    THEN doing' = "failed" /\ UNCHANGED values
    ELSE doing' = next /\ values' = m

\* Step 1 of build_context_map: also for a value that is overridden later.
StaticValues ==
    /\ doing = "static"
    /\ Becomes([k \in DOMAIN layers.static |-> EnvResolved(layers.static[k])], "profile")
    /\ UNCHANGED <<layers, visited, changed, rounds, used>>

\* A profile is not flattened: a block becomes one string, its keys and values in
\* braces, under its own name.
Block(entries) ==
    LET keys == SetToSeq(DOMAIN entries)
    IN  <<Text("{")>> \o FlattenSeq([i \in DOMAIN keys |-> <<Text(keys[i])>> \o entries[keys[i]]])
        \o <<Text("}")>>

ProfileValues ==
    [k \in DOMAIN layers.nested |-> Block(layers.nested[k])]
    @@ [k \in DOMAIN layers.profile |-> EnvResolved(layers.profile[k])]

\* Mutant: the shell's variables are looked at last.
OverridesShellLast ==
    /\ doing = "profile"
    /\ Becomes(layers.shell @@ layers.cli @@ ProfileValues @@ values, "cross")
    /\ UNCHANGED <<layers, visited, changed, rounds, used>>

\* Steps 2 to 4.  What the shell and the command line give is taken as it is.
Overrides ==
    /\ doing = "profile"
    /\ Becomes(layers.cli @@ layers.shell @@ ProfileValues @@ values, "cross")
    /\ UNCHANGED <<layers, visited, changed, rounds, used>>

\* Step 5: a value without a call has its references resolved, in place.
CrossReference(k) ==
    /\ doing = "cross" /\ k \in DOMAIN values \ visited
    /\ LET v == values[k]
           resolved == IF RefsOf(v) = {} \/ HasCall(v) THEN v ELSE SubCtx(v, values)
       IN  /\ Becomes([values EXCEPT ![k] = resolved], "cross")
           /\ changed' = (changed \/ resolved # v)
    /\ visited' = visited \cup {k}
    /\ UNCHANGED <<layers, rounds, used>>

\* Another round if this one changed something (20 at most in the code; see
\* ContextResolved).
RoundOver ==
    /\ doing = "cross" /\ visited = DOMAIN values
    /\ doing' = IF changed THEN "cross" ELSE "module"
    /\ visited' = {} /\ changed' = FALSE /\ rounds' = rounds + 1
    /\ UNCHANGED <<layers, values, used>>

\* resolve_value
ResolveModule ==
    /\ doing = "module"
    /\ used' = SubCtx(EnvResolved(used), values)
    /\ doing' = IF IsFaulty(used') THEN "failed" ELSE "calls"
    /\ UNCHANGED <<layers, values, visited, changed, rounds>>

\* Steps 1 to 3 of compile: the calls in the context, the references that were
\* left because of them, and the calls in the module's config.
CallInContext ==
    /\ doing = "calls"
    /\ Becomes([k \in DOMAIN values |-> Called(values[k])], "again")
    /\ UNCHANGED <<layers, visited, changed, rounds, used>>

SubstituteAgain ==
    /\ doing = "again"
    /\ Becomes([k \in DOMAIN values |-> SubCtx(values[k], values)], "call")
    /\ UNCHANGED <<layers, visited, changed, rounds, used>>

CallInModule ==
    /\ doing = "call"
    /\ used' = Called(used)
    /\ doing' = IF IsFaulty(used') THEN "failed" ELSE "ready"
    /\ UNCHANGED <<layers, values, visited, changed, rounds>>

ContextNext ==
    \/ StaticValues \/ Overrides
    \/ \E k \in DOMAIN values : CrossReference(k)
    \/ RoundOver \/ ResolveModule
    \/ CallInContext \/ SubstituteAgain \/ CallInModule

ContextSpec == ContextInit /\ [][ContextNext]_contextVars

-----------------------------------------------------------------------------
(* Properties.                                                             *)

Keys == UNION {DOMAIN layers[l] : l \in Layers}

\* The value of a key: of the command line, else the shell, else the profile,
\* else the blueprint.  What a block of the profile gives is its own name.
Given(k) ==
    IF k \in DOMAIN layers.cli THEN layers.cli[k]
    ELSE IF k \in DOMAIN layers.shell THEN layers.shell[k]
    ELSE IF k \in DOMAIN layers.nested THEN Block(layers.nested[k])
    ELSE EnvResolved(IF k \in DOMAIN layers.profile THEN layers.profile[k] ELSE layers.static[k])

\* v with references replaced, again and again, by what is given.
Substituted(v) ==
    LET given == [k \in Keys |-> Given(k)]
    IN  FoldLeft(LAMBDA w, k : Replaced(w, given, given), v, SetToSeq(Keys \cup {Reserved}))

\* The keys v leads to in n references.
Led(v, n) ==
    LET led[i \in Nat] == IF i = 0 THEN RefsOf(v)
                          ELSE UNION {RefsOf(Given(k)) : k \in led[i - 1] \cap Keys}
    IN  led[n]
LeadsTo(v) == UNION {Led(v, n) : n \in 0..Cardinality(Keys)}

\* Why a string cannot be resolved: it names what nobody gives, or it leads to
\* itself; a chain can be too long, or not, as the file orders its keys.
Unresolvable(v) ==
    \/ ~(LeadsTo(v) \subseteq Keys \cup {Reserved})
    \/ Led(v, Cardinality(Keys)) # {}
TooLong(v) == Led(v, MaxDepth + 1) # {}

\* A call one of whose arguments is a reference, which is made in the context
\* before the reference is resolved.
CallOnReference(v) ==
    \E i, j \in DOMAIN v : i < j /\ v[i].kind = "open" /\ v[j].kind = "ctx"

\* A key's value is the one of the highest layer that gives it (a nested block of
\* a profile gives its name, and no key below it), and so is that of everything it
\* refers to, however the file orders its keys (two rounds are enough); a module
\* gets it with its calls made, and so does the manifest's context; and resolution
\* fails only for a reason: a variable that is not set, a reference to nothing, to
\* itself or down a long chain, a call that raises.
ContextResolved ==
    /\ rounds <= 2
    /\ doing = "module" => \A k \in Keys : ~HasCall(Given(k)) =>
           ~Unresolvable(Given(k)) /\ values[k] = Substituted(Given(k))
    /\ doing = "ready" =>
           /\ used = Called(Substituted(EnvResolved(layers.used)))
           /\ \A k \in Keys :
                  (\A n \in {k} \cup (LeadsTo(Given(k)) \cap Keys) : ~CallOnReference(Given(n)))
                  => values[k] = Called(Substituted(Given(k)))
    /\ doing = "failed" =>
           \/ \E l \in {"static", "profile"} :
                  \E k \in DOMAIN layers[l] : IsFaulty(EnvResolved(layers[l][k]))
           \/ \E v \in {Given(k) : k \in Keys} \cup {EnvResolved(layers.used)} :
                  \/ IsFaulty(v) \/ Unresolvable(v) \/ TooLong(v)
                  \/ IsFaulty(Called(v)) \/ IsFaulty(Called(Substituted(v)))
=============================================================================
