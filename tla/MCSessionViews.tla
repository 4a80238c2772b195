--------------------------- MODULE MCSessionViews ---------------------------
(* Two lanes, each with a query and a merge or two queries; the same in one
   thread; a join, whose upstreams have no alias. *)
EXTENDS SessionViews

ByAlias(u) == [kind |-> "channel", inputs |-> <<u>>, reads |-> {Alias}]
ById(u) == [kind |-> "channel", inputs |-> <<u>>, reads |-> {u}]
Join(u, v) == [kind |-> "channel", inputs |-> <<u, v>>, reads |-> {u, v}]
Merge(u) == [kind |-> "merge", inputs |-> <<u>>, reads |-> {MergeSource}]

Lanes(left, right) == [lane |-> left, other |-> right]
Serial(statements) == [lane |-> statements]

SmallManifests ==
    { Lanes(<<ByAlias("raw")>>, <<ById("log")>>),
      Lanes(<<Merge("raw")>>, <<Merge("log")>>),
      Lanes(<<Join("raw", "ref"), Merge("raw")>>, <<ByAlias("log")>>),
      Serial(<<ByAlias("raw"), Join("raw", "ref"), Merge("clean"), ById("log")>>) }

AliasManifests == { Lanes(<<ByAlias("raw")>>, <<ByAlias("log")>>) }
=============================================================================
