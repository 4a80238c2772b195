------------------------- MODULE MCBlueprintCompile -------------------------
(***************************************************************************)
(* Blueprints of five modules: a source, two modules of any type in the    *)
(* middle, a sink and a Probe, with every choice of edges between them     *)
(* that can matter, over a library of sub-blueprints.                      *)
(***************************************************************************)
EXTENDS BlueprintCompile

Mod(id, type) ==
    [id |-> id, type |-> type, attach |-> NoId, inputs |-> {}, ref |-> NoRef, gives |-> {},
     deps |-> {}, quarantine |-> "no", spillway |-> NoId]
Arc(id, ref) == [Mod(id, "Arcade") EXCEPT !.ref = ref]
Tap(id, of) == [Mod(id, "Probe") EXCEPT !.attach = of]
Main(a, b) == [from |-> a, to |-> b, port |-> "main"]

src == <<"src">>
x == <<"x">>
x_ == <<"x", "_">>
y == <<"y">>
p == <<"p">>
out == <<"out">>
b == <<"b">>
_b == <<"_", "b">>
c == <<"c">>
g == <<"g">>

Sub(ms, es) == [modules |-> ms, edges |-> es, needs |-> {}]

Files ==
    [plain |-> Sub(<<Mod(b, "Channel"), Mod(c, "Channel")>>, {Main(b, c)}),
     forked |-> Sub(<<Mod(b, "Channel"), Mod(c, "Channel"), Mod(g, "Egress"), Tap(p, b)>>, {Main(b, g)}),
     gated |-> Sub(<<Mod(b, "Channel"), Mod(g, "Regulator")>>, {Main(b, g)}),
     nested |-> Sub(<<Arc(b, "plain"), Arc(c, "gated")>>, {Main(b, c)}),
     deep |-> Sub(<<Arc(b, "nested")>>, {}),
     looping |-> Sub(<<Arc(b, "looping")>>, {}),
     sinks |-> Sub(<<Mod(b, "Egress")>>, {}),
     cyclic |-> Sub(<<Mod(b, "Channel"), Mod(c, "Channel")>>, {Main(b, c), Main(c, b)}),
     needy |-> [Sub(<<Mod(b, "Channel")>>, {}) EXCEPT !.needs = {"env"}],
     under |-> Sub(<<Mod(_b, "Channel")>>, {}),
     single |-> Sub(<<[Mod(b, "Channel") EXCEPT !.spillway = g], Mod(g, "Egress")>>, {})]

First == {Mod(x, "Channel"), Mod(x, "Regulator"), Mod(x, "Junction"),
          [Mod(x, "Assert") EXCEPT !.quarantine = "row"]}
         \cup {Arc(x, f) : f \in {"forked", "gated", "nested", "looping", "sinks", "cyclic",
                                  "needy", "missing"}}
Second == {Mod(y, "Channel"), Mod(y, "Regulator"), Arc(y, "forked"),
           [Mod(y, "Funnel") EXCEPT !.inputs = {src, x}],
           [Mod(y, "Assert") EXCEPT !.quarantine = "aggregate"]}

Edges ==
    {Main(src, x), Main(src, y), Main(x, y), Main(x, out), Main(y, out), Main(y, x),
     [from |-> x, to |-> y, port |-> "spillway"], [from |-> p, to |-> y, port |-> "signal"]}

\* Two Arcades whose modules get the same id; one that depends on what follows it;
\* Arcades as deep as they may be, and one deeper; a spillway that leads nowhere.
Special ==
    {Sub(<<Arc(x, "under"), Arc(x_, "single")>>, {}),
     Sub(<<Mod(src, "Ingress"), [Arc(x, "needy") EXCEPT !.gives = {"env"}]>>, {Main(src, x)}),
     Sub(<<[Mod(src, "Ingress") EXCEPT !.deps = {out}], Mod(out, "Egress")>>, {Main(src, out)}),
     Sub(<<Mod(src, "Ingress"), Mod(src, "Ingress")>>, {}),
     Sub(<<Mod(src, "Ingress")>>, {Main(src, x)}),
     Sub(<<Arc(x, NoRef)>>, {}),
     Sub(<<Arc(x, "nested"), Mod(out, "Egress")>>, {Main(x, out)}),
     Sub(<<Arc(x, "deep"), Mod(out, "Egress")>>, {Main(x, out)}),
     Sub(<<[Mod(src, "Ingress") EXCEPT !.spillway = x]>>, {})}

MCRoots ==
    Special
    \cup {Sub(<<Mod(src, "Ingress"), m, n, Mod(out, "Egress"), Tap(p, at)>>, es) :
              m \in First, n \in Second, at \in {src, x}, es \in SUBSET Edges}
=============================================================================
