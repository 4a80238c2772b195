--------------------------- MODULE ExecutorProofs ---------------------------
(***************************************************************************)
(* What holds of every walk over every manifest, for any number of         *)
(* threads, modules, executions, kills and resumes: the order of the walk  *)
(* is sound, the status is accounted for, a sink is given whole lineages,  *)
(* a resume leaves completed sinks alone, no module starves for want of    *)
(* its turn, and a gate waits for the Probe above it.                      *)
(***************************************************************************)
EXTENDS Executor, FiniteSetTheorems, WellFoundedInduction, TLAPS

-----------------------------------------------------------------------------
(* The order.  What _topo_sort and _build_execution_order compute are      *)
(* folds over the manifest; what holds of them follows by FoldInduction.   *)

LEMMA ManifestFacts ==
    ASSUME NEW p \in Plans
    PROVE  /\ p.modules \in Seq(Ids(p)) /\ p.edges \in Seq(Range(p.edges))
           /\ Len(p.modules) \in Nat /\ DOMAIN p.modules = 1..Len(p.modules)
           /\ Len(p.edges) \in Nat /\ DOMAIN p.edges = 1..Len(p.edges)
           /\ \A i, j \in DOMAIN p.modules : p.modules[i] = p.modules[j] => i = j
           /\ \A e \in Sorted(p) : e.from \in Ids(p) /\ e.to \in Nodes(p)
           /\ \A m \in Ids(p) : m \in Nodes(p) <=> p.attach[m] \notin Ids(p)
           /\ IsFiniteSet(Ids(p)) /\ Cardinality(Ids(p)) = Len(p.modules)
           /\ Nodes(p) \subseteq Ids(p)
<1>1. /\ p.modules \in Seq(Ids(p)) /\ p.edges \in Seq(Range(p.edges))
      /\ \A i, j \in DOMAIN p.modules : p.modules[i] = p.modules[j] => i = j
      /\ \A m \in Ids(p) : p.type[m] = "Probe" <=> p.attach[m] \in Ids(p)
      /\ \A e \in Range(p.edges) : e.from \in Ids(p) /\ e.to \in Ids(p)
  BY ExecutorAssumption
<1>2. /\ Len(p.modules) \in Nat /\ DOMAIN p.modules = 1..Len(p.modules)
      /\ Len(p.edges) \in Nat /\ DOMAIN p.edges = 1..Len(p.edges)
  BY <1>1
<1>3. \A e \in Sorted(p) : e.from \in Ids(p) /\ e.to \in Nodes(p)
  BY <1>1 DEF Sorted, Flow, Nodes
<1>4. IsFiniteSet(Ids(p)) /\ Cardinality(Ids(p)) = Len(p.modules)
  <2>1. PICK f, n : f = p.modules /\ n = Len(p.modules)
    OBVIOUS
  <2>2. PICK ids : ids = Ids(p)
    OBVIOUS
  <2>3. f \in Seq(ids) /\ n \in Nat /\ DOMAIN f = 1..n
    BY <1>1, <1>2, <2>1, <2>2
  <2>4. \A x \in ids : \E i \in 1..n : f[i] = x
    BY <2>1, <2>2, <2>3 DEF Ids, Range
  <2>5. \A i, j \in 1..n : f[i] = f[j] => i = j
    BY <1>1, <2>1, <2>3
  <2>6. f \in [1..n -> ids]
    BY <2>3
  <2>7. f \in Surjection(1..n, ids)
    BY <2>4, <2>6 DEF Surjection
  <2>8. f \in Injection(1..n, ids)
    BY <2>5, <2>6 DEF Injection, IsInjective
  <2>9. IsFiniteSet(1..n) /\ Cardinality(1..n) = n
    BY <2>3, FS_Interval
  <2>10. IsFiniteSet(ids) /\ Cardinality(ids) <= n
                           /\ (Cardinality(ids) = n <=> f \in Injection(1..n, ids))
    BY <2>7, <2>9, FS_Surjection
  <2> QED
    BY <2>1, <2>2, <2>8, <2>10
<1> QED
  BY <1>1, <1>2, <1>3, <1>4 DEF Nodes

\* In o, up to position k, m comes and behind it only Probes of m.
EndsWith(p, m, o, k) ==
    \E h \in 1..k : o[h] = m /\ \A y \in (h + 1)..k : p.attach[o[y]] = m

\* What the walk counts on: modules once, producers before consumers, and between
\* a module and a Probe of it only other Probes of it.
WellOrdered(p, o) ==
    /\ o \in Seq(Ids(p))
    /\ \A i, j \in DOMAIN o : o[i] = o[j] => i = j
    /\ \A e \in Sorted(p) : \A j \in DOMAIN o : o[j] = e.to => \E i \in 1..(j - 1) : o[i] = e.from
    /\ \A j \in DOMAIN o : p.attach[o[j]] \in Nodes(p) => EndsWith(p, p.attach[o[j]], o, j - 1)

LEMMA AppendedSeq ==
    ASSUME NEW S, NEW o \in Seq(S), NEW x \in S
    PROVE  /\ Append(o, x) \in Seq(S)
           /\ Len(o) \in Nat /\ DOMAIN o = 1..Len(o)
           /\ Len(Append(o, x)) = Len(o) + 1 /\ DOMAIN Append(o, x) = 1..(Len(o) + 1)
           /\ \A i \in 1..Len(o) : Append(o, x)[i] = o[i]
           /\ Append(o, x)[Len(o) + 1] = x
           /\ Range(Append(o, x)) = Range(o) \cup {x}
<1>1. /\ Append(o, x) \in Seq(S)
      /\ Len(o) \in Nat /\ DOMAIN o = 1..Len(o)
      /\ Len(Append(o, x)) = Len(o) + 1 /\ DOMAIN Append(o, x) = 1..(Len(o) + 1)
      /\ \A i \in 1..Len(o) : Append(o, x)[i] = o[i]
      /\ Append(o, x)[Len(o) + 1] = x
  OBVIOUS
<1>2. Range(Append(o, x)) = Range(o) \cup {x}
  <2> DEFINE o2 == Append(o, x)
  <2>1. DOMAIN o2 = 1..(Len(o) + 1) /\ DOMAIN o = 1..Len(o) /\ Len(o) \in Nat
        /\ (\A i \in 1..Len(o) : o2[i] = o[i]) /\ o2[Len(o) + 1] = x
    BY <1>1
  <2> HIDE DEF o2
  <2>2. \A i \in 1..(Len(o) + 1) : i \in 1..Len(o) \/ i = Len(o) + 1
    BY <2>1
  <2>3. Range(o2) \subseteq Range(o) \cup {x}
    BY <2>1, <2>2 DEF Range
  <2>4. Range(o) \cup {x} \subseteq Range(o2)
    BY <2>1 DEF Range
  <2> QED
    BY <2>3, <2>4 DEF o2
<1> QED
  BY <1>1, <1>2

\* Appending what has all its producers, behind the module it taps if it taps one.
LEMMA AppendedOrder ==
    ASSUME NEW p, NEW o, WellOrdered(p, o), NEW x \in Ids(p), x \notin Range(o),
           \A e \in Sorted(p) : e.to = x => e.from \in Range(o),
           p.attach[x] \in Nodes(p) => EndsWith(p, p.attach[x], o, Len(o))
    PROVE  WellOrdered(p, Append(o, x))
<1> DEFINE o2 == Append(o, x)
           n == Len(o)
<1>1. o \in Seq(Ids(p))
  BY DEF WellOrdered
<1>2. /\ o2 \in Seq(Ids(p)) /\ n \in Nat /\ DOMAIN o = 1..n /\ DOMAIN o2 = 1..(n + 1)
      /\ \A i \in 1..n : o2[i] = o[i]
      /\ o2[n + 1] = x
  BY <1>1, AppendedSeq
<1> HIDE DEF o2, n
<1>3. \A i \in 1..n : o[i] \in Range(o)
  BY <1>2 DEF Range
<1>4. \A j \in DOMAIN o2 : j \in 1..n \/ j = n + 1
  BY <1>2
<1>5. \A i, j \in DOMAIN o2 : o2[i] = o2[j] => i = j
  BY <1>2, <1>3, <1>4 DEF WellOrdered
<1>6. ASSUME NEW e \in Sorted(p), NEW j \in DOMAIN o2, o2[j] = e.to
      PROVE  \E i \in 1..(j - 1) : o2[i] = e.from
  <2>1. CASE j \in 1..n
    <3>1. PICK i \in 1..(j - 1) : o[i] = e.from
      BY <1>2, <1>6, <2>1 DEF WellOrdered
    <3>2. i \in 1..n
      BY <1>2, <2>1, <3>1
    <3> QED
      BY <1>2, <3>1, <3>2
  <2>2. CASE j = n + 1
    <3>1. PICK i \in 1..n : o[i] = e.from
      BY <1>2, <1>6, <2>2 DEF Range
    <3>2. i \in 1..(j - 1)
      BY <1>2, <2>2, <3>1
    <3> QED
      BY <1>2, <3>1, <3>2
  <2> QED
    BY <1>4, <2>1, <2>2
<1>7. \A m : \A k \in 0..n : EndsWith(p, m, o, k) => EndsWith(p, m, o2, k)
  <2> SUFFICES ASSUME NEW m, NEW k \in 0..n, EndsWith(p, m, o, k) PROVE EndsWith(p, m, o2, k)
    OBVIOUS
  <2>1. PICK h \in 1..k : o[h] = m /\ \A y \in (h + 1)..k : p.attach[o[y]] = m
    BY DEF EndsWith
  <2>2. h \in 1..n /\ \A y \in (h + 1)..k : y \in 1..n
    BY <1>2
  <2>3. o2[h] = m /\ \A y \in (h + 1)..k : o2[y] = o[y]
    BY <1>2, <2>1, <2>2
  <2> QED
    BY <2>1, <2>3 DEF EndsWith
<1>8. ASSUME NEW j \in DOMAIN o2, p.attach[o2[j]] \in Nodes(p)
      PROVE  EndsWith(p, p.attach[o2[j]], o2, j - 1)
  <2>1. CASE j \in 1..n
    <3>1. EndsWith(p, p.attach[o[j]], o, j - 1)
      BY <1>2, <1>8, <2>1 DEF WellOrdered
    <3>2. j - 1 \in 0..n /\ o2[j] = o[j]
      BY <1>2, <2>1
    <3> QED
      BY <1>7, <3>1, <3>2
  <2>2. CASE j = n + 1
    <3>1. o2[j] = x /\ j - 1 = n /\ n \in 0..n
      BY <1>2, <2>2
    <3>2. EndsWith(p, p.attach[x], o, n)
      BY <1>8, <3>1 DEF n
    <3> QED
      BY <1>7, <3>1, <3>2
  <2> QED
    BY <1>4, <2>1, <2>2
<1>9. WellOrdered(p, o2)
  BY <1>2, <1>5, <1>6, <1>8 DEF WellOrdered
<1> QED
  BY <1>9 DEF o2

\* The head of what is left comes once.
LEMMA HeadOnce ==
    ASSUME NEW S, NEW s \in Seq(S), s # <<>>,
           \A i, j \in DOMAIN s : s[i] = s[j] => i = j
    PROVE  /\ Head(s) \in S /\ Head(s) \in Range(s) /\ Tail(s) \in Seq(S)
           /\ Range(s) = {Head(s)} \cup Range(Tail(s))
           /\ Head(s) \notin Range(Tail(s))
           /\ \A i \in DOMAIN Tail(s) : i + 1 \in DOMAIN s /\ Tail(s)[i] = s[i + 1]
           /\ \A i, j \in DOMAIN Tail(s) : Tail(s)[i] = Tail(s)[j] => i = j
<1>1. /\ Len(s) \in Nat /\ Len(s) >= 1 /\ DOMAIN s = 1..Len(s) /\ s[1] = Head(s)
      /\ Tail(s) \in Seq(S) /\ DOMAIN Tail(s) = 1..(Len(s) - 1)
      /\ \A i \in 1..(Len(s) - 1) : Tail(s)[i] = s[i + 1]
  OBVIOUS
<1>2. \A i \in DOMAIN Tail(s) : i + 1 \in DOMAIN s /\ Tail(s)[i] = s[i + 1]
  BY <1>1
<1>3. Head(s) \in S /\ Head(s) \in Range(s)
  BY <1>1 DEF Range
<1>4. Range(s) = {Head(s)} \cup Range(Tail(s))
  <2>1. ASSUME NEW x \in Range(s) PROVE x = Head(s) \/ x \in Range(Tail(s))
    <3>1. PICK i \in 1..Len(s) : x = s[i]
      BY <1>1, <2>1 DEF Range
    <3>2. CASE i = 1
      BY <1>1, <3>1, <3>2
    <3>3. CASE i # 1
      <4>1. i - 1 \in 1..(Len(s) - 1) /\ (i - 1) + 1 = i
        BY <1>1, <3>1, <3>3
      <4>2. i - 1 \in DOMAIN Tail(s) /\ Tail(s)[i - 1] = x
        BY <1>1, <3>1, <4>1
      <4> QED
        BY <4>2 DEF Range
    <3> QED
      BY <3>2, <3>3
  <2>2. \A x \in Range(Tail(s)) : x \in Range(s)
    BY <1>1, <1>2 DEF Range
  <2> QED
    BY <1>3, <2>1, <2>2
<1>5. Head(s) \notin Range(Tail(s))
  <2> SUFFICES ASSUME NEW i \in DOMAIN Tail(s), Tail(s)[i] = Head(s)
               PROVE  FALSE
    BY DEF Range
  <2>1. i + 1 \in DOMAIN s /\ s[i + 1] = s[1] /\ 1 \in DOMAIN s /\ i \in Nat /\ i >= 1
    BY <1>1, <1>2
  <2> QED
    BY <2>1
<1>6. \A i, j \in DOMAIN Tail(s) : Tail(s)[i] = Tail(s)[j] => i = j
  <2> TAKE i, j \in DOMAIN Tail(s)
  <2>1. Tail(s)[i] = Tail(s)[j] => i + 1 = j + 1
    BY <1>2
  <2> QED
    BY <1>1, <2>1
<1> QED
  BY <1>1, <1>2, <1>3, <1>4, <1>5, <1>6


-----------------------------------------------------------------------------
(* Appending and WithTaps.                                                 *)

\* c is the manifest, what is placed, what it is taken from, and what is wanted.
AppStep(c, o, x) == IF x \in c[4] THEN Append(o, x) ELSE o
AppHolds(c, k, o) ==
    /\ WellOrdered(c[1], o)
    /\ Range(o) = Range(c[2]) \cup {x \in c[4] : \E i \in 1..k : c[3][i] = x}
    /\ \A x \in c[4] : c[1].attach[x] \in Nodes(c[1]) => EndsWith(c[1], c[1].attach[x], o, Len(o))
AppFold == INSTANCE FoldInduction WITH step <- AppStep, Holds <- AppHolds

LEMMA AppendingFolds ==
    ASSUME NEW c
    PROVE  Appending(c[2], c[3], c[4]) = AppFold!Folded(c, c[2], c[3])
  BY Zenon DEF Appending, AppStep, AppFold!Folded, AppFold!FoldLeft, FoldLeft,
     AppFold!MapThenFoldSet, MapThenFoldSet, AppFold!Max, Max

\* One more behind, if it comes right behind what it taps.
LEMMA EndsWithMore ==
    ASSUME NEW p, NEW o \in Seq(Ids(p)), NEW x \in Ids(p), NEW m,
           m = x \/ (EndsWith(p, m, o, Len(o)) /\ p.attach[x] = m)
    PROVE  EndsWith(p, m, Append(o, x), Len(Append(o, x)))
<1> DEFINE o2 == Append(o, x)
           n == Len(o)
<1>1. /\ n \in Nat /\ Len(o2) = n + 1
      /\ \A i \in 1..n : o2[i] = o[i]
      /\ o2[n + 1] = x
  BY AppendedSeq
<1> HIDE DEF o2
<1>2. CASE m = x
  <2>1. n + 1 \in 1..(n + 1) /\ \A y \in ((n + 1) + 1)..(n + 1) : FALSE
    BY <1>1
  <2> QED
    BY <1>1, <1>2, <2>1 DEF EndsWith, o2
<1>3. CASE EndsWith(p, m, o, n) /\ p.attach[x] = m
  <2>1. PICK h \in 1..n : o[h] = m /\ \A y \in (h + 1)..n : p.attach[o[y]] = m
    BY <1>3 DEF EndsWith
  <2>2. h \in 1..(n + 1) /\ o2[h] = m
    BY <1>1, <2>1
  <2>3. ASSUME NEW y \in (h + 1)..(n + 1) PROVE p.attach[o2[y]] = m
    <3>1. CASE y = n + 1
      BY <1>1, <1>3, <3>1
    <3>2. CASE y # n + 1
      <4>1. y \in (h + 1)..n /\ y \in 1..n
        BY <1>1, <3>2
      <4> QED
        BY <1>1, <2>1, <4>1
    <3> QED
      BY <3>1, <3>2
  <2> QED
    BY <1>1, <2>2, <2>3 DEF EndsWith, o2
<1> QED
  BY <1>2, <1>3

\* What is wanted comes behind, provided that nothing of it waits for a producer,
\* and that the last module placed is what it taps.
LEMMA Appended ==
    ASSUME NEW p \in Plans, NEW base, WellOrdered(p, base),
           NEW wanted, wanted \subseteq Ids(p), wanted \cap Range(base) = {},
           \A e \in Sorted(p) : e.to \in wanted => e.from \in Range(base),
           \A x \in wanted : p.attach[x] \in Nodes(p) =>
               /\ EndsWith(p, p.attach[x], base, Len(base))
               /\ \A y \in wanted : p.attach[y] = p.attach[x]
    PROVE  /\ WellOrdered(p, Appending(base, p.modules, wanted))
           /\ Range(Appending(base, p.modules, wanted)) = Range(base) \cup wanted
<1> DEFINE seq == p.modules
<1>0. PICK c : c = <<p, base, seq, wanted>>
  OBVIOUS
<1>1. c[1] = p /\ c[2] = base /\ c[3] = seq /\ c[4] = wanted
  BY <1>0
<1>2. /\ Len(seq) \in Nat /\ DOMAIN seq = 1..Len(seq)
      /\ \A i, j \in DOMAIN seq : seq[i] = seq[j] => i = j
      /\ \A i \in DOMAIN seq : seq[i] \in Ids(p)
  BY ManifestFacts DEF Ids, Range
<1>3. Ids(p) = {seq[i] : i \in DOMAIN seq}
  BY DEF Ids, Range
<1> HIDE DEF seq
<1>4. AppHolds(c, 0, base)
  <2>1. {x \in wanted : \E i \in 1..0 : seq[i] = x} = {}
    OBVIOUS
  <2> QED
    BY <1>1, <2>1 DEF AppHolds
<1>5. ASSUME NEW k \in 0..(Len(seq) - 1), NEW o, AppHolds(c, k, o)
      PROVE  AppHolds(c, k + 1, AppStep(c, o, seq[k + 1]))
  <2>1. PICK x : x = seq[k + 1]
    OBVIOUS
  <2>2. k + 1 \in DOMAIN seq /\ x \in Ids(p) /\ \A i \in 1..k : i \in DOMAIN seq /\ seq[i] # x
    <3>1. k + 1 \in DOMAIN seq /\ \A i \in 1..k : i \in DOMAIN seq /\ i # k + 1
      BY <1>2
    <3> QED
      BY <1>2, <2>1, <3>1
  <2>3. /\ WellOrdered(p, o)
        /\ Range(o) = Range(base) \cup {y \in wanted : \E i \in 1..k : seq[i] = y}
        /\ \A y \in wanted : p.attach[y] \in Nodes(p) => EndsWith(p, p.attach[y], o, Len(o))
    BY <1>1, <1>5 DEF AppHolds
  <2>4. {y \in wanted : \E i \in 1..(k + 1) : seq[i] = y}
            = {y \in wanted : \E i \in 1..k : seq[i] = y} \cup (wanted \cap {x})
    <3>1. \A i \in 1..(k + 1) : i \in 1..k \/ i = k + 1
      OBVIOUS
    <3>2. k + 1 \in 1..(k + 1) /\ \A i \in 1..k : i \in 1..(k + 1)
      OBVIOUS
    <3> QED
      BY <2>1, <3>1, <3>2
  <2>5. CASE x \notin wanted
    <3>1. AppStep(c, o, x) = o
      BY <1>1, <2>5 DEF AppStep
    <3>2. AppHolds(c, k + 1, o)
      BY <1>1, <2>3, <2>4, <2>5 DEF AppHolds
    <3> QED
      BY <2>1, <3>1, <3>2
  <2>6. CASE x \in wanted
    <3>1. AppStep(c, o, x) = Append(o, x)
      BY <1>1, <2>6 DEF AppStep
    <3>2. o \in Seq(Ids(p))
      BY <2>3 DEF WellOrdered
    <3>3. x \notin Range(o)
      BY <2>2, <2>3, <2>6
    <3>4. WellOrdered(p, Append(o, x))
      BY <2>2, <2>3, <2>6, <3>3, AppendedOrder
    <3>5. Range(Append(o, x)) = Range(o) \cup {x}
      BY <2>2, <3>2, AppendedSeq
    <3>6. ASSUME NEW y \in wanted, p.attach[y] \in Nodes(p)
          PROVE  EndsWith(p, p.attach[y], Append(o, x), Len(Append(o, x)))
      <4>1. EndsWith(p, p.attach[y], o, Len(o)) /\ p.attach[x] = p.attach[y]
        BY <2>3, <2>6, <3>6
      <4> QED
        BY <2>2, <3>2, <4>1, EndsWithMore
    <3>7. AppHolds(c, k + 1, Append(o, x))
      BY <1>1, <2>3, <2>4, <2>6, <3>4, <3>5, <3>6 DEF AppHolds
    <3> QED
      BY <2>1, <3>1, <3>7
  <2> QED
    BY <2>5, <2>6
<1>6. AppHolds(c, Len(seq), AppFold!Folded(c, base, seq))
  BY <1>2, <1>4, <1>5, AppFold!FoldLeftInduction
<1>7. AppFold!Folded(c, base, seq) = Appending(base, seq, wanted)
  BY <1>1, AppendingFolds
<1>8. AppHolds(c, Len(seq), Appending(base, seq, wanted))
  BY <1>6, <1>7
<1>9. {x \in wanted : \E i \in 1..Len(seq) : seq[i] = x} = wanted
  BY <1>2, <1>3
<1> QED
  BY <1>1, <1>8, <1>9 DEF AppHolds, seq

\* c is the manifest and the order of its other modules.
TapStep(c, o, m) ==
    Appending(Append(o, m), c[1].modules, {q \in Ids(c[1]) : c[1].attach[q] = m})
TapHolds(c, k, o) ==
    /\ WellOrdered(c[1], o)
    /\ Range(o) = {x \in Ids(c[1]) : \E i \in 1..k : c[2][i] = x \/ c[1].attach[x] = c[2][i]}
TapFold == INSTANCE FoldInduction WITH step <- TapStep, Holds <- TapHolds

LEMMA TapsFold ==
    ASSUME NEW c
    PROVE  WithTaps(c[1], c[2]) = TapFold!Folded(c, <<>>, c[2])
  BY Zenon DEF WithTaps, TapStep, TapFold!Folded, TapFold!FoldLeft, FoldLeft,
     TapFold!MapThenFoldSet, MapThenFoldSet, TapFold!Max, Max

LEMMA NothingPlaced ==
    ASSUME NEW p
    PROVE  WellOrdered(p, <<>>) /\ Range(<<>>) = {}
  BY DEF WellOrdered, Range

LEMMA TapsPlaced ==
    ASSUME NEW p \in Plans, NEW order, WellOrdered(p, order), Range(order) = Nodes(p)
    PROVE  /\ WellOrdered(p, WithTaps(p, order))
           /\ Range(WithTaps(p, order)) =
                  {x \in Ids(p) : x \in Nodes(p) \/ p.attach[x] \in Nodes(p)}
<1>0. PICK c : c = <<p, order>>
  OBVIOUS
<1>1. c[1] = p /\ c[2] = order
  BY <1>0
<1>2. /\ order \in Seq(Ids(p)) /\ Len(order) \in Nat /\ DOMAIN order = 1..Len(order)
      /\ \A i, j \in DOMAIN order : order[i] = order[j] => i = j
      /\ \A i \in DOMAIN order : order[i] \in Nodes(p)
      /\ \A x \in Nodes(p) : \E i \in DOMAIN order : order[i] = x
  BY DEF WellOrdered, Range
<1>3. /\ \A m \in Ids(p) : m \in Nodes(p) <=> p.attach[m] \notin Ids(p)
      /\ Nodes(p) \subseteq Ids(p)
      /\ \A e \in Sorted(p) : e.from \in Ids(p) /\ e.to \in Nodes(p)
  BY ManifestFacts
<1>4. TapHolds(c, 0, <<>>)
  <2>1. \A i \in 1..0 : FALSE
    OBVIOUS
  <2> QED
    BY <1>1, <2>1, NothingPlaced DEF TapHolds
<1>5. ASSUME NEW k \in 0..(Len(order) - 1), NEW o, TapHolds(c, k, o)
      PROVE  TapHolds(c, k + 1, TapStep(c, o, order[k + 1]))
  <2>1. PICK m : m = order[k + 1]
    OBVIOUS
  <2>2. PICK taps : taps = {q \in Ids(p) : p.attach[q] = m}
    OBVIOUS
  <2>3. k + 1 \in DOMAIN order /\ m \in Nodes(p) /\ m \in Ids(p) /\ p.attach[m] \notin Nodes(p)
    <3>1. k + 1 \in DOMAIN order
      BY <1>2
    <3> QED
      BY <1>2, <1>3, <2>1, <3>1
  <2>4. \A i \in 1..k : i \in DOMAIN order /\ order[i] # m /\ order[i] \in Nodes(p)
    <3>1. \A i \in 1..k : i \in DOMAIN order /\ i # k + 1
      BY <1>2
    <3> QED
      BY <1>2, <2>1, <2>3, <3>1
  <2>5. /\ WellOrdered(p, o)
        /\ Range(o) = {x \in Ids(p) : \E i \in 1..k : order[i] = x \/ p.attach[x] = order[i]}
        /\ o \in Seq(Ids(p))
    BY <1>1, <1>5 DEF TapHolds, WellOrdered
  <2>6. m \notin Range(o)
    BY <2>3, <2>4, <2>5
  <2>7. ASSUME NEW e \in Sorted(p), e.to = m PROVE e.from \in Range(o)
    <3>1. \E i \in 1..((k + 1) - 1) : order[i] = e.from
      BY <2>1, <2>3, <2>7 DEF WellOrdered
    <3>2. (k + 1) - 1 = k
      OBVIOUS
    <3> QED
      BY <1>3, <2>5, <3>1, <3>2
  <2>8. PICK o1 : o1 = Append(o, m)
    OBVIOUS
  <2>9. WellOrdered(p, o1) /\ Range(o1) = Range(o) \cup {m}
    <3>1. WellOrdered(p, o1)
      BY <2>3, <2>5, <2>6, <2>7, <2>8, AppendedOrder
    <3>2. Range(o1) = Range(o) \cup {m}
      BY <2>3, <2>5, <2>8, AppendedSeq
    <3> QED
      BY <3>1, <3>2
  <2>10. EndsWith(p, m, o1, Len(o1))
    BY <2>3, <2>5, <2>8, EndsWithMore
  <2>11. \A q \in taps : q \in Ids(p) /\ q \notin Nodes(p) /\ p.attach[q] = m
    BY <1>3, <2>2, <2>3
  <2>12. taps \cap Range(o1) = {}
    BY <2>3, <2>4, <2>5, <2>9, <2>11
  <2>13. \A e \in Sorted(p) : e.to \notin taps
    BY <1>3, <2>11
  <2>14. /\ WellOrdered(p, Appending(o1, p.modules, taps))
         /\ Range(Appending(o1, p.modules, taps)) = Range(o1) \cup taps
    <3>1. taps \subseteq Ids(p)
      BY <2>11
    <3>2. \A x \in taps : p.attach[x] \in Nodes(p) =>
              /\ EndsWith(p, p.attach[x], o1, Len(o1))
              /\ \A y \in taps : p.attach[y] = p.attach[x]
      BY <2>10, <2>11
    <3> QED
      BY <2>9, <2>12, <2>13, <3>1, <3>2, Appended
  <2>15. TapStep(c, o, m) = Appending(o1, p.modules, taps)
    BY <1>1, <2>2, <2>8 DEF TapStep
  <2>16. Range(o1) \cup taps
             = {x \in Ids(p) : \E i \in 1..(k + 1) : order[i] = x \/ p.attach[x] = order[i]}
    <3>1. \A i \in 1..(k + 1) : i \in 1..k \/ i = k + 1
      OBVIOUS
    <3>2. k + 1 \in 1..(k + 1) /\ \A i \in 1..k : i \in 1..(k + 1)
      OBVIOUS
    <3>3. ASSUME NEW x \in Range(o1) \cup taps
          PROVE  x \in Ids(p) /\ \E i \in 1..(k + 1) : order[i] = x \/ p.attach[x] = order[i]
      BY <2>1, <2>3, <2>5, <2>9, <2>11, <3>2, <3>3
    <3>4. ASSUME NEW x \in Ids(p), NEW i \in 1..(k + 1), order[i] = x \/ p.attach[x] = order[i]
          PROVE  x \in Range(o1) \cup taps
      BY <2>1, <2>2, <2>5, <2>9, <3>1, <3>4
    <3> QED
      BY <3>3, <3>4
  <2>17. TapHolds(c, k + 1, TapStep(c, o, m))
    BY <1>1, <2>14, <2>15, <2>16 DEF TapHolds
  <2> QED
    BY <2>1, <2>17
<1>6. TapHolds(c, Len(order), TapFold!Folded(c, <<>>, order))
  BY <1>2, <1>4, <1>5, TapFold!FoldLeftInduction
<1>7. TapFold!Folded(c, <<>>, order) = WithTaps(p, order)
  BY <1>1, TapsFold
<1>8. TapHolds(c, Len(order), WithTaps(p, order))
  BY <1>6, <1>7
<1>9. {x \in Ids(p) : \E i \in 1..Len(order) : order[i] = x \/ p.attach[x] = order[i]}
          = {x \in Ids(p) : x \in Nodes(p) \/ p.attach[x] \in Nodes(p)}
  BY <1>2
<1> QED
  BY <1>1, <1>8, <1>9 DEF TapHolds

-----------------------------------------------------------------------------
(* Reach, and the components it finds.                                     *)

\* c is the manifest, where Reach starts, its steps, and a set closed under them.
Hop(steps, near) == near \cup {s[2] : s \in {r \in steps : r[1] \in near}}
HopStep(c, near, turn) == Hop(c[3], near)
HopHolds(c, k, near) ==
    /\ c[2] \subseteq near /\ near \subseteq c[4]
    /\ (IsFiniteSet(c[4]) /\ c[2] # {}) => (Hop(c[3], near) = near \/ Cardinality(near) > k)
HopFold == INSTANCE FoldInduction WITH step <- HopStep, Holds <- HopHolds

LEMMA ReachFolds ==
    ASSUME NEW c
    PROVE  Reach(c[1], c[2], c[3]) = HopFold!Folded(c, c[2], c[1].modules)
  BY Zenon DEF Reach, HopStep, Hop, HopFold!Folded, HopFold!FoldLeft, FoldLeft,
     HopFold!MapThenFoldSet, MapThenFoldSet, HopFold!Max, Max

\* After as many hops as there are modules nothing new is found, where all there is
\* to find is modules.
LEMMA Reached ==
    ASSUME NEW p \in Plans, NEW from, NEW steps, NEW S,
           from \subseteq S, \A s \in steps : s[1] \in S => s[2] \in S
    PROVE  /\ from \subseteq Reach(p, from, steps) /\ Reach(p, from, steps) \subseteq S
           /\ (S \subseteq Ids(p) /\ from # {}) =>
                  \A s \in steps : s[1] \in Reach(p, from, steps) => s[2] \in Reach(p, from, steps)
<1>0. PICK c : c = <<p, from, steps, S>>
  OBVIOUS
<1>1. c[1] = p /\ c[2] = from /\ c[3] = steps /\ c[4] = S
  BY <1>0
<1>2. PICK seq : seq = p.modules
  OBVIOUS
<1>3. Len(seq) \in Nat /\ DOMAIN seq = 1..Len(seq)
  BY <1>2, ManifestFacts
<1>4. HopHolds(c, 0, from)
  <2>1. ASSUME IsFiniteSet(S), from # {} PROVE Cardinality(from) > 0
    <3>1. IsFiniteSet(from)
      BY <2>1, FS_Subset
    <3> QED
      BY <2>1, <3>1, FS_EmptySet, FS_CardinalityType
  <2> QED
    BY <1>1, <2>1 DEF HopHolds
<1>5. ASSUME NEW k \in 0..(Len(seq) - 1), NEW near, HopHolds(c, k, near)
      PROVE  HopHolds(c, k + 1, HopStep(c, near, seq[k + 1]))
  <2>1. PICK more : more = Hop(steps, near)
    OBVIOUS
  <2>2. /\ from \subseteq near /\ near \subseteq S
        /\ (IsFiniteSet(S) /\ from # {}) => (more = near \/ Cardinality(near) > k)
    BY <1>1, <1>5, <2>1 DEF HopHolds
  <2>3. near \subseteq more /\ more \subseteq S
    BY <2>1, <2>2 DEF Hop
  <2>4. ASSUME IsFiniteSet(S), from # {}
        PROVE  Hop(steps, more) = more \/ Cardinality(more) > k + 1
    <3>1. CASE more = near
      BY <2>1, <3>1
    <3>2. CASE more # near
      <4>1. Cardinality(near) > k
        BY <2>2, <2>4, <3>2
      <4>2. IsFiniteSet(more)
        BY <2>3, <2>4, FS_Subset
      <4>3. /\ Cardinality(near) <= Cardinality(more)
            /\ Cardinality(near) # Cardinality(more)
        BY <2>3, <3>2, <4>2, FS_Subset
      <4>4. Cardinality(near) \in Nat /\ Cardinality(more) \in Nat /\ k \in Nat
        BY <2>3, <4>2, FS_Subset, FS_CardinalityType
      <4> QED
        BY <4>1, <4>3, <4>4
    <3> QED
      BY <3>1, <3>2
  <2>5. HopHolds(c, k + 1, more)
    BY <1>1, <2>2, <2>3, <2>4 DEF HopHolds
  <2> QED
    BY <1>1, <2>1, <2>5 DEF HopStep
<1>6. HopHolds(c, Len(seq), HopFold!Folded(c, from, seq))
  BY <1>3, <1>4, <1>5, HopFold!FoldLeftInduction
<1>7. PICK R : R = Reach(p, from, steps)
  OBVIOUS
<1>8. HopFold!Folded(c, from, seq) = R
  BY <1>1, <1>2, <1>7, ReachFolds
<1>9. /\ from \subseteq R /\ R \subseteq S
      /\ (IsFiniteSet(S) /\ from # {}) => (Hop(steps, R) = R \/ Cardinality(R) > Len(seq))
  BY <1>1, <1>6, <1>8 DEF HopHolds
<1>10. ASSUME S \subseteq Ids(p), from # {}
       PROVE  \A s \in steps : s[1] \in R => s[2] \in R
  <2>1. IsFiniteSet(Ids(p)) /\ Cardinality(Ids(p)) = Len(seq)
    BY <1>2, ManifestFacts
  <2>2. IsFiniteSet(S) /\ R \subseteq Ids(p)
    BY <1>9, <1>10, <2>1, FS_Subset
  <2>3. IsFiniteSet(R) /\ Cardinality(R) <= Len(seq) /\ Cardinality(R) \in Nat
    BY <2>1, <2>2, FS_Subset, FS_CardinalityType
  <2>4. Hop(steps, R) = R
    BY <1>3, <1>9, <1>10, <2>2, <2>3
  <2> QED
    BY <2>4 DEF Hop
<1> QED
  BY <1>7, <1>9, <1>10

LEMMA ReachWithin ==
    ASSUME NEW p \in Plans, NEW from, NEW steps, NEW S,
           from \subseteq S, \A s \in steps : s[1] \in S => s[2] \in S
    PROVE  Reach(p, from, steps) \subseteq S
  BY Reached

\* What Component follows: data edges and attach_to, both ways.
Ties(p) ==
    LET taps == {q \in Ids(p) : p.type[q] = "Probe"}
    IN  Follows(p) \cup Precedes(p) \cup {<<q, p.attach[q]>> : q \in taps}
            \cup {<<p.attach[q], q>> : q \in taps}

LEMMA TiesFacts ==
    ASSUME NEW p \in Plans
    PROVE  /\ \A s \in Ties(p) : /\ s = <<s[1], s[2]>> /\ s[1] \in Ids(p) /\ s[2] \in Ids(p)
                                 /\ <<s[2], s[1]>> \in Ties(p)
           /\ \A e \in Flow(p) : <<e.from, e.to>> \in Ties(p)
           /\ \A q \in Ids(p) : p.attach[q] \in Ids(p) => <<q, p.attach[q]>> \in Ties(p)
           /\ \A m \in Ids(p) : Component(p, m) = Reach(p, {m}, Ties(p))
<1> DEFINE taps == {q \in Ids(p) : p.type[q] = "Probe"}
<1>1. \A m \in Ids(p) : p.type[m] = "Probe" <=> p.attach[m] \in Ids(p)
  BY ExecutorAssumption
<1>2. \A e \in Range(p.edges) : e.from \in Ids(p) /\ e.to \in Ids(p)
  BY ExecutorAssumption
<1>3. ASSUME NEW s \in Ties(p)
      PROVE  /\ s = <<s[1], s[2]>> /\ s[1] \in Ids(p) /\ s[2] \in Ids(p)
             /\ <<s[2], s[1]>> \in Ties(p)
  <2>1. CASE s \in Follows(p)
    <3>1. PICK e \in Flow(p) : s = <<e.from, e.to>>
      BY <2>1 DEF Follows
    <3>2. <<e.to, e.from>> \in Precedes(p)
      BY DEF Precedes
    <3> QED
      BY <1>2, <3>1, <3>2 DEF Flow, Ties
  <2>2. CASE s \in Precedes(p)
    <3>1. PICK e \in Flow(p) : s = <<e.to, e.from>>
      BY <2>2 DEF Precedes
    <3>2. <<e.from, e.to>> \in Follows(p)
      BY DEF Follows
    <3> QED
      BY <1>2, <3>1, <3>2 DEF Flow, Ties
  <2>3. CASE s \in {<<q, p.attach[q]>> : q \in taps}
    BY <1>1, <2>3 DEF Ties
  <2>4. CASE s \in {<<p.attach[q], q>> : q \in taps}
    BY <1>1, <2>4 DEF Ties
  <2> QED
    BY <2>1, <2>2, <2>3, <2>4 DEF Ties
<1>4. \A e \in Flow(p) : <<e.from, e.to>> \in Ties(p)
  BY DEF Ties, Follows
<1>5. \A q \in Ids(p) : p.attach[q] \in Ids(p) => <<q, p.attach[q]>> \in Ties(p)
  BY <1>1 DEF Ties
<1>6. \A m \in Ids(p) : Component(p, m) = Reach(p, {m}, Ties(p))
  BY DEF Component, Ties
<1> QED
  BY <1>3, <1>4, <1>5, <1>6

\* A component is closed, and whoever it holds has the same one.
LEMMA Components ==
    ASSUME NEW p \in Plans, NEW m \in Ids(p)
    PROVE  /\ m \in Component(p, m) /\ Component(p, m) \subseteq Ids(p)
           /\ \A s \in Ties(p) : s[1] \in Component(p, m) => s[2] \in Component(p, m)
           /\ \A S : (m \in S /\ \A s \in Ties(p) : s[1] \in S => s[2] \in S)
                         => Component(p, m) \subseteq S
<1>1. Component(p, m) = Reach(p, {m}, Ties(p))
  BY TiesFacts
<1>2. PICK from : from = {m}
  OBVIOUS
<1>3. from \subseteq Ids(p) /\ from # {} /\ \A s \in Ties(p) : s[1] \in Ids(p) => s[2] \in Ids(p)
  BY <1>2, TiesFacts
<1>4. /\ from \subseteq Reach(p, from, Ties(p)) /\ Reach(p, from, Ties(p)) \subseteq Ids(p)
      /\ \A s \in Ties(p) :
             s[1] \in Reach(p, from, Ties(p)) => s[2] \in Reach(p, from, Ties(p))
  BY <1>3, Reached
<1>5. \A S : (m \in S /\ \A s \in Ties(p) : s[1] \in S => s[2] \in S)
                 => Reach(p, from, Ties(p)) \subseteq S
  <2> TAKE S
  <2> HAVE m \in S /\ \A s \in Ties(p) : s[1] \in S => s[2] \in S
  <2>1. from \subseteq S
    BY <1>2
  <2> QED
    BY <2>1, ReachWithin
<1> QED
  BY <1>1, <1>2, <1>4, <1>5

LEMMA ComponentOf ==
    ASSUME NEW p \in Plans, NEW m \in Ids(p), NEW x \in Component(p, m)
    PROVE  Component(p, x) = Component(p, m)
<1>1. /\ \A s \in Ties(p) : /\ s = <<s[1], s[2]>> /\ s[1] \in Ids(p) /\ s[2] \in Ids(p)
                            /\ <<s[2], s[1]>> \in Ties(p)
  BY TiesFacts
<1>2. x \in Ids(p)
  BY Components
<1>3. Component(p, x) \subseteq Component(p, m)
  <2>1. \A s \in Ties(p) : s[1] \in Component(p, m) => s[2] \in Component(p, m)
    BY Components
  <2> QED
    BY <1>2, <2>1, Components
<1>4. m \in Component(p, x)
  <2> SUFFICES ASSUME m \notin Component(p, x) PROVE FALSE
    OBVIOUS
  <2>1. PICK S : S = Ids(p) \ Component(p, x)
    OBVIOUS
  <2>2. ASSUME NEW s \in Ties(p), s[1] \in S PROVE s[2] \in S
    <3>1. PICK a, b : a = s[1] /\ b = s[2]
      OBVIOUS
    <3>2. <<b, a>> \in Ties(p) /\ a \in Ids(p) /\ b \in Ids(p)
      BY <1>1, <3>1
    <3>3. PICK r \in Ties(p) : r = <<b, a>>
      BY <3>2
    <3>4. r[1] \in Component(p, x) => r[2] \in Component(p, x)
      BY <1>2, Components
    <3> QED
      BY <2>1, <2>2, <3>1, <3>2, <3>3, <3>4
  <2>3. Component(p, m) \subseteq S
    BY <2>1, <2>2, Components
  <2>4. x \in Component(p, x)
    BY <1>2, Components
  <2> QED
    BY <2>1, <2>3, <2>4
<1>5. Component(p, m) \subseteq Component(p, x)
  <2>1. \A s \in Ties(p) : s[1] \in Component(p, x) => s[2] \in Component(p, x)
    BY <1>2, Components
  <2> QED
    BY <1>2, <1>4, <2>1, Components
<1> QED
  BY <1>3, <1>5

\* Threads hold both ends of every data edge and of every tap, and share no module.
LEMMA ThreadsFacts ==
    ASSUME NEW p \in Plans
    PROVE  /\ \A m \in Ids(p) : \E t \in Threads(p) : m \in t
           /\ \A t, u \in Threads(p) : t = u \/ t \cap u = {}
           /\ \A t \in Threads(p) :
                  /\ t \subseteq Ids(p)
                  /\ \A e \in Flow(p) : e.from \in t <=> e.to \in t
                  /\ \A q \in Ids(p) :
                         p.attach[q] \in Ids(p) => (q \in t <=> p.attach[q] \in t)
<1>1. CASE ~p.parallel
  <2>1. Threads(p) = {Ids(p)}
    BY <1>1 DEF Threads
  <2>2. \A e \in Flow(p) : e.from \in Ids(p) /\ e.to \in Ids(p)
    BY ExecutorAssumption DEF Flow
  <2> QED
    BY <2>1, <2>2
<1>2. CASE p.parallel
  <2>1. Threads(p) = {Component(p, m) : m \in Ids(p)}
    BY <1>2 DEF Threads
  <2>2. \A m \in Ids(p) : \E t \in Threads(p) : m \in t
    BY <2>1, Components
  <2>3. ASSUME NEW t \in Threads(p), NEW u \in Threads(p), t \cap u # {}
        PROVE  t = u
    <3>1. PICK m \in Ids(p), n \in Ids(p) : t = Component(p, m) /\ u = Component(p, n)
      BY <2>1
    <3>2. PICK x : x \in t /\ x \in u
      BY <2>3
    <3> QED
      BY <3>1, <3>2, ComponentOf
  <2>4. ASSUME NEW t \in Threads(p)
        PROVE  /\ t \subseteq Ids(p)
               /\ \A e \in Flow(p) : e.from \in t <=> e.to \in t
               /\ \A q \in Ids(p) :
                      p.attach[q] \in Ids(p) => (q \in t <=> p.attach[q] \in t)
    <3>1. PICK m \in Ids(p) : t = Component(p, m)
      BY <2>1
    <3>2. t \subseteq Ids(p) /\ \A s \in Ties(p) : s[1] \in t => s[2] \in t
      BY <3>1, Components
    <3>3. \A a, b : <<a, b>> \in Ties(p) => (a \in t <=> b \in t)
      <4> TAKE a, b
      <4> HAVE <<a, b>> \in Ties(p)
      <4>1. PICK s \in Ties(p) : s = <<a, b>>
        OBVIOUS
      <4>2. <<s[2], s[1]>> \in Ties(p)
        BY TiesFacts
      <4>3. PICK r \in Ties(p) : r = <<b, a>>
        BY <4>1, <4>2
      <4> QED
        BY <3>2, <4>1, <4>3
    <3> QED
      BY <3>2, <3>3, TiesFacts
  <2> QED
    BY <2>2, <2>3, <2>4
<1> QED
  BY <1>1, <1>2

-----------------------------------------------------------------------------
(* The orders of the threads.                                              *)

\* c is the manifest, the order and a thread.
KeepStep(c, o, x) == IF x \in c[3] THEN Append(o, x) ELSE o
KeepHolds(c, k, o) ==
    /\ WellOrdered(c[1], o)
    /\ Range(o) = {x \in c[3] : \E i \in 1..k : c[2][i] = x}
    /\ \A m \in c[3] : EndsWith(c[1], m, c[2], k) => EndsWith(c[1], m, o, Len(o))
KeepFold == INSTANCE FoldInduction WITH step <- KeepStep, Holds <- KeepHolds

LEMMA KeepingFolds ==
    ASSUME NEW c
    PROVE  Appending(<<>>, c[2], c[3]) = KeepFold!Folded(c, <<>>, c[2])
  BY Zenon DEF Appending, KeepStep, KeepFold!Folded, KeepFold!FoldLeft, FoldLeft,
     KeepFold!MapThenFoldSet, MapThenFoldSet, KeepFold!Max, Max

\* What a thread keeps of the order is well ordered: it has all or nothing of a
\* module, what it reads from and what taps it.
LEMMA Kept ==
    ASSUME NEW p \in Plans, NEW order, WellOrdered(p, order), NEW t \in Threads(p)
    PROVE  /\ WellOrdered(p, Appending(<<>>, order, t))
           /\ Range(Appending(<<>>, order, t)) = t \cap Range(order)
<1>0. PICK c : c = <<p, order, t>>
  OBVIOUS
<1>1. c[1] = p /\ c[2] = order /\ c[3] = t
  BY <1>0
<1>2. /\ order \in Seq(Ids(p)) /\ Len(order) \in Nat /\ DOMAIN order = 1..Len(order)
      /\ \A i, j \in DOMAIN order : order[i] = order[j] => i = j
      /\ \A i \in DOMAIN order : order[i] \in Ids(p)
  BY DEF WellOrdered
<1>3. /\ t \subseteq Ids(p)
      /\ \A e \in Flow(p) : e.from \in t <=> e.to \in t
      /\ \A q \in Ids(p) : p.attach[q] \in Ids(p) => (q \in t <=> p.attach[q] \in t)
  BY ThreadsFacts
<1>4. KeepHolds(c, 0, <<>>)
  <2>1. (\A i \in 1..0 : FALSE) /\ \A m : ~EndsWith(p, m, order, 0)
    BY DEF EndsWith
  <2> QED
    BY <1>1, <2>1, NothingPlaced DEF KeepHolds
<1>5. ASSUME NEW k \in 0..(Len(order) - 1), NEW o, KeepHolds(c, k, o)
      PROVE  KeepHolds(c, k + 1, KeepStep(c, o, order[k + 1]))
  <2>1. PICK x : x = order[k + 1]
    OBVIOUS
  <2>2. /\ k + 1 \in DOMAIN order /\ x \in Ids(p) /\ k \in Nat /\ (k + 1) - 1 = k
        /\ \A i \in 1..k : order[i] # x
    <3>1. k + 1 \in DOMAIN order /\ \A i \in 1..k : i \in DOMAIN order /\ i # k + 1
      BY <1>2
    <3> QED
      BY <1>2, <2>1, <3>1
  <2>3. /\ WellOrdered(p, o) /\ o \in Seq(Ids(p))
        /\ Range(o) = {y \in t : \E i \in 1..k : order[i] = y}
        /\ \A m \in t : EndsWith(p, m, order, k) => EndsWith(p, m, o, Len(o))
    BY <1>1, <1>5 DEF KeepHolds, WellOrdered
  <2>4. {y \in t : \E i \in 1..(k + 1) : order[i] = y}
            = {y \in t : \E i \in 1..k : order[i] = y} \cup (t \cap {x})
    <3>1. \A i \in 1..(k + 1) : i \in 1..k \/ i = k + 1
      OBVIOUS
    <3>2. k + 1 \in 1..(k + 1) /\ \A i \in 1..k : i \in 1..(k + 1)
      OBVIOUS
    <3> QED
      BY <2>1, <3>1, <3>2
  <2>5. ASSUME NEW m \in t, EndsWith(p, m, order, k + 1)
        PROVE  m = x \/ (EndsWith(p, m, order, k) /\ p.attach[x] = m /\ x \in t)
    <3>1. PICK h \in 1..(k + 1) :
              order[h] = m /\ \A y \in (h + 1)..(k + 1) : p.attach[order[y]] = m
      BY <2>5 DEF EndsWith
    <3>2. CASE h = k + 1
      BY <2>1, <3>1, <3>2
    <3>3. CASE h # k + 1
      <4>1. h \in 1..k /\ k + 1 \in (h + 1)..(k + 1)
            /\ \A y \in (h + 1)..k : y \in (h + 1)..(k + 1)
        BY <2>2, <3>3
      <4>2. p.attach[x] = m /\ EndsWith(p, m, order, k)
        BY <2>1, <3>1, <4>1 DEF EndsWith
      <4> QED
        BY <1>3, <2>2, <4>2
    <3> QED
      BY <3>2, <3>3
  <2>6. CASE x \notin t
    <3>1. KeepStep(c, o, x) = o
      BY <1>1, <2>6 DEF KeepStep
    <3>2. KeepHolds(c, k + 1, o)
      BY <1>1, <2>3, <2>4, <2>5, <2>6 DEF KeepHolds
    <3> QED
      BY <2>1, <3>1, <3>2
  <2>7. CASE x \in t
    <3>1. KeepStep(c, o, x) = Append(o, x)
      BY <1>1, <2>7 DEF KeepStep
    <3>2. x \notin Range(o)
      BY <2>2, <2>3
    <3>3. ASSUME NEW e \in Sorted(p), e.to = x PROVE e.from \in Range(o)
      <4>1. \E i \in 1..k : order[i] = e.from
        BY <2>1, <2>2, <3>3 DEF WellOrdered
      <4>2. e.from \in t
        BY <1>3, <2>7, <3>3 DEF Sorted
      <4> QED
        BY <2>3, <4>1, <4>2
    <3>4. ASSUME p.attach[x] \in Nodes(p) PROVE EndsWith(p, p.attach[x], o, Len(o))
      <4>1. EndsWith(p, p.attach[x], order, k)
        BY <2>1, <2>2, <3>4 DEF WellOrdered
      <4>2. p.attach[x] \in t
        BY <1>3, <2>2, <2>7, <3>4 DEF Nodes
      <4> QED
        BY <2>3, <4>1, <4>2
    <3>5. WellOrdered(p, Append(o, x))
      BY <2>2, <2>3, <3>2, <3>3, <3>4, AppendedOrder
    <3>6. Range(Append(o, x)) = Range(o) \cup {x}
      BY <2>2, <2>3, AppendedSeq
    <3>7. ASSUME NEW m \in t, EndsWith(p, m, order, k + 1)
          PROVE  EndsWith(p, m, Append(o, x), Len(Append(o, x)))
      BY <2>2, <2>3, <2>5, <3>7, EndsWithMore
    <3>8. KeepHolds(c, k + 1, Append(o, x))
      BY <1>1, <2>3, <2>4, <2>7, <3>5, <3>6, <3>7 DEF KeepHolds
    <3> QED
      BY <2>1, <3>1, <3>8
  <2> QED
    BY <2>6, <2>7
<1>6. KeepHolds(c, Len(order), KeepFold!Folded(c, <<>>, order))
  BY <1>2, <1>4, <1>5, KeepFold!FoldLeftInduction
<1>7. KeepFold!Folded(c, <<>>, order) = Appending(<<>>, order, t)
  BY <1>1, KeepingFolds
<1>8. KeepHolds(c, Len(order), Appending(<<>>, order, t))
  BY <1>6, <1>7
<1>9. {x \in t : \E i \in 1..Len(order) : order[i] = x} = t \cap Range(order)
  BY <1>2 DEF Range
<1> QED
  BY <1>1, <1>8, <1>9 DEF KeepHolds

-----------------------------------------------------------------------------
(* TopoSort: Kahn's queue.                                                 *)

\* The edges, by position, that still hold m back: those from modules that are not
\* done, and of those from h the ones behind position k.
Waiting(p, done, h, k, m) ==
    {i \in DOMAIN p.edges :
        /\ p.edges[i] \in Sorted(p) /\ p.edges[i].to = m
        /\ p.edges[i].from \notin done /\ (p.edges[i].from = h => i > k)}

Degrees(p, done, h, k, degree) ==
    \A m \in Nodes(p) : degree[m] = Cardinality(Waiting(p, done, h, k, m))

\* The order is sound, and nothing in it or in the queue waits for anything.
QueueSound(p, s) ==
    /\ s = [queue |-> s.queue, degree |-> s.degree, order |-> s.order]
    /\ s.queue \in Seq(Nodes(p)) /\ s.degree \in [Nodes(p) -> Nat]
    /\ WellOrdered(p, s.order) /\ Range(s.order) \subseteq Nodes(p)
    /\ \A i, j \in DOMAIN s.queue : s.queue[i] = s.queue[j] => i = j
    /\ Range(s.queue) \cap Range(s.order) = {}
    /\ \A m \in Range(s.queue) \cup Range(s.order) : s.degree[m] = 0

LEMMA WaitingFacts ==
    ASSUME NEW p \in Plans, NEW done, NEW h, NEW k, NEW m
    PROVE  /\ IsFiniteSet(Waiting(p, done, h, k, m))
           /\ Cardinality(Waiting(p, done, h, k, m)) \in Nat
           /\ Cardinality(Waiting(p, done, h, k, m)) = 0 <=> Waiting(p, done, h, k, m) = {}
<1>0. PICK n : n = Len(p.edges)
  OBVIOUS
<1>1. n \in Nat /\ DOMAIN p.edges = 1..n
  BY <1>0, ManifestFacts
<1>2. IsFiniteSet(1..n)
  BY <1>1, FS_Interval
<1>3. Waiting(p, done, h, k, m) \in SUBSET (1..n)
  BY <1>1 DEF Waiting
<1>4. IsFiniteSet(Waiting(p, done, h, k, m))
  BY <1>2, <1>3, FS_Subset
<1> QED
  BY <1>4, FS_CardinalityType, FS_EmptySet

LEMMA WaitingStarts ==
    ASSUME NEW p \in Plans, NEW done, NEW h, NEW g, NEW m
    PROVE  Waiting(p, done, h, 0, m) = Waiting(p, done, g, 0, m)
<1>1. \A i \in DOMAIN p.edges : i > 0
  BY ManifestFacts
<1> QED
  BY <1>1 DEF Waiting

\* Behind its last edge h is done.
LEMMA WaitingEnds ==
    ASSUME NEW p \in Plans, NEW done, NEW h, NEW g, NEW m,
           NEW after, after = done \cup {h}, NEW k, k = Len(p.edges)
    PROVE  Waiting(p, done, h, k, m) = Waiting(p, after, g, 0, m)
<1>1. \A i \in DOMAIN p.edges : i > 0 /\ ~(i > Len(p.edges))
  BY ManifestFacts
<1> QED
  BY <1>1 DEF Waiting

LEMMA WaitingNoMore ==
    ASSUME NEW p \in Plans, NEW done, NEW h, NEW m, Waiting(p, done, h, 0, m) = {},
           NEW e \in Sorted(p), e.to = m
    PROVE  e.from \in done
<1>1. PICK i \in DOMAIN p.edges : p.edges[i] = e
  BY DEF Sorted, Flow, Range
<1>2. i > 0
  BY ManifestFacts
<1> QED
  BY <1>1, <1>2 DEF Waiting

\* The next edge: if it is one of h's, its module waits for one less.
LEMMA WaitingNext ==
    ASSUME NEW p \in Plans, NEW done, NEW h, h \notin done,
           NEW k \in 0..(Len(p.edges) - 1), NEW e, e = p.edges[k + 1], NEW m
    PROVE  /\ ~(e \in Sorted(p) /\ e.from = h /\ e.to = m) =>
                  Waiting(p, done, h, k + 1, m) = Waiting(p, done, h, k, m)
           /\ (e \in Sorted(p) /\ e.from = h /\ e.to = m) =>
                  Cardinality(Waiting(p, done, h, k, m))
                      = Cardinality(Waiting(p, done, h, k + 1, m)) + 1
<1> DEFINE es == p.edges
<1>1. Len(es) \in Nat /\ DOMAIN es = 1..Len(es) /\ k \in Nat /\ k + 1 \in DOMAIN es
  BY ManifestFacts
<1>2. \A i \in DOMAIN es : i > k <=> (i > k + 1 \/ i = k + 1)
  BY <1>1
<1>3. ASSUME ~(e \in Sorted(p) /\ e.from = h /\ e.to = m)
      PROVE  Waiting(p, done, h, k + 1, m) = Waiting(p, done, h, k, m)
  BY <1>2, <1>3 DEF Waiting
<1>4. ASSUME e \in Sorted(p), e.from = h, e.to = m
      PROVE  Cardinality(Waiting(p, done, h, k, m))
                 = Cardinality(Waiting(p, done, h, k + 1, m)) + 1
  <2>1. k + 1 \in Waiting(p, done, h, k, m)
    BY <1>1, <1>2, <1>4 DEF Waiting
  <2>2. Waiting(p, done, h, k + 1, m) = Waiting(p, done, h, k, m) \ {k + 1}
    <3>1. ~(k + 1 > k + 1)
      BY <1>1
    <3> QED
      BY <1>2, <1>4, <3>1 DEF Waiting
  <2>3. /\ IsFiniteSet(Waiting(p, done, h, k, m))
        /\ Cardinality(Waiting(p, done, h, k, m)) \in Nat
    BY WaitingFacts
  <2>4. Cardinality(Waiting(p, done, h, k, m) \ {k + 1})
            = Cardinality(Waiting(p, done, h, k, m)) - 1
    BY <2>1, <2>3, FS_RemoveElement
  <2>5. PICK a, b : /\ a = Cardinality(Waiting(p, done, h, k, m))
                    /\ b = Cardinality(Waiting(p, done, h, k + 1, m))
    OBVIOUS
  <2>6. a \in Nat /\ b = a - 1
    BY <2>2, <2>3, <2>4, <2>5
  <2> QED
    BY <2>5, <2>6
<1> QED
  BY <1>3, <1>4

\* c is the manifest, the module released, what was done before it, and the order.
ReleaseStep(c, t, e) ==
    IF e \notin Sorted(c[1]) \/ e.from # c[2] THEN t
    ELSE [t EXCEPT !.degree[e.to] = @ - 1,
                   !.queue = IF t.degree[e.to] = 1 THEN Append(@, e.to) ELSE @]
ReleaseHolds(c, k, t) ==
    /\ QueueSound(c[1], t) /\ t.order = c[4]
    /\ Degrees(c[1], c[3], c[2], k, t.degree)
ReleaseFold == INSTANCE FoldInduction WITH step <- ReleaseStep, Holds <- ReleaseHolds

LEMMA ReleaseFolds ==
    ASSUME NEW c, NEW s
    PROVE  Release(c[1], c[2], s) = ReleaseFold!Folded(c, s, c[1].edges)
  BY Zenon DEF Release, ReleaseStep, ReleaseFold!Folded, ReleaseFold!FoldLeft, FoldLeft,
     ReleaseFold!MapThenFoldSet, MapThenFoldSet, ReleaseFold!Max, Max

LEMMA Released ==
    ASSUME NEW p \in Plans, NEW h, NEW done, h \notin done, NEW s,
           QueueSound(p, s), Degrees(p, done, h, 0, s.degree)
    PROVE  /\ QueueSound(p, Release(p, h, s)) /\ Release(p, h, s).order = s.order
           /\ Degrees(p, done, h, Len(p.edges), Release(p, h, s).degree)
<1>0. PICK c : c = <<p, h, done, s.order>>
  OBVIOUS
<1>1. c[1] = p /\ c[2] = h /\ c[3] = done /\ c[4] = s.order
  BY <1>0
<1>2. PICK es : es = p.edges
  OBVIOUS
<1>3. Len(es) \in Nat /\ DOMAIN es = 1..Len(es)
  BY <1>2, ManifestFacts
<1>4. ReleaseHolds(c, 0, s)
  BY <1>1 DEF ReleaseHolds
<1>5. ASSUME NEW k \in 0..(Len(es) - 1), NEW t, ReleaseHolds(c, k, t)
      PROVE  ReleaseHolds(c, k + 1, ReleaseStep(c, t, es[k + 1]))
  <2>1. PICK e : e = es[k + 1]
    OBVIOUS
  <2>2. QueueSound(p, t) /\ t.order = s.order /\ Degrees(p, done, h, k, t.degree)
    BY <1>1, <1>5 DEF ReleaseHolds
  <2>3. CASE e \notin Sorted(p) \/ e.from # h
    <3>1. ReleaseStep(c, t, e) = t
      BY <1>1, <2>3 DEF ReleaseStep
    <3>2. Degrees(p, done, h, k + 1, t.degree)
      <4> SUFFICES ASSUME NEW m \in Nodes(p)
                   PROVE  t.degree[m] = Cardinality(Waiting(p, done, h, k + 1, m))
        BY DEF Degrees
      <4>1. Waiting(p, done, h, k + 1, m) = Waiting(p, done, h, k, m)
        BY <1>2, <2>1, <2>3, WaitingNext
      <4> QED
        BY <2>2, <4>1 DEF Degrees
    <3>3. ReleaseHolds(c, k + 1, t)
      BY <1>1, <2>2, <3>2 DEF ReleaseHolds
    <3> QED
      BY <2>1, <3>1, <3>3
  <2>4. CASE e \in Sorted(p) /\ e.from = h
    <3>1. PICK q, d, o : q = t.queue /\ d = t.degree /\ o = t.order
      OBVIOUS
    <3>2. /\ t = [queue |-> q, degree |-> d, order |-> o]
          /\ q \in Seq(Nodes(p)) /\ d \in [Nodes(p) -> Nat]
          /\ WellOrdered(p, o) /\ Range(o) \subseteq Nodes(p)
          /\ \A i, j \in DOMAIN q : q[i] = q[j] => i = j
          /\ Range(q) \cap Range(o) = {}
          /\ \A m \in Range(q) \cup Range(o) : d[m] = 0
      BY <2>2, <3>1 DEF QueueSound
    <3>3. PICK x : x = e.to
      OBVIOUS
    <3>4. x \in Nodes(p)
      BY <2>4, <3>3, ManifestFacts
    <3>5. PICK q2, d2 : /\ q2 = IF d[x] = 1 THEN Append(q, x) ELSE q
                        /\ d2 = [d EXCEPT ![x] = d[x] - 1]
      OBVIOUS
    <3>6. ReleaseStep(c, t, e) = [queue |-> q2, degree |-> d2, order |-> o]
      <4>1. ReleaseStep(c, t, e)
                = [t EXCEPT !.degree[x] = @ - 1,
                            !.queue = IF d[x] = 1 THEN Append(@, x) ELSE @]
        BY <1>1, <2>4, <3>1, <3>3 DEF ReleaseStep
      <4> QED
        BY <3>2, <3>5, <4>1
    <3>7. d[x] = Cardinality(Waiting(p, done, h, k + 1, x)) + 1
      <4>1. Cardinality(Waiting(p, done, h, k, x))
                = Cardinality(Waiting(p, done, h, k + 1, x)) + 1
        BY <1>2, <2>1, <2>4, <3>3, WaitingNext
      <4> QED
        BY <2>2, <3>1, <3>4, <4>1 DEF Degrees
    <3>8. d[x] \in Nat /\ d[x] # 0 /\ d[x] - 1 \in Nat /\ (d[x] = 1 => d[x] - 1 = 0)
      <4>1. Cardinality(Waiting(p, done, h, k + 1, x)) \in Nat
        BY WaitingFacts
      <4> QED
        BY <3>7, <4>1
    <3>9. x \notin Range(q) /\ x \notin Range(o)
      BY <3>2, <3>8
    <3>10. d2 \in [Nodes(p) -> Nat] /\ d2[x] = d[x] - 1 /\ \A m \in Nodes(p) : m # x => d2[m] = d[m]
      BY <3>2, <3>4, <3>5, <3>8
    <3>11. Degrees(p, done, h, k + 1, d2)
      <4> SUFFICES ASSUME NEW m \in Nodes(p)
                   PROVE  d2[m] = Cardinality(Waiting(p, done, h, k + 1, m))
        BY DEF Degrees
      <4>1. CASE m = x
        <5>1. Cardinality(Waiting(p, done, h, k + 1, x)) \in Nat
          BY WaitingFacts
        <5> QED
          BY <3>7, <3>10, <4>1, <5>1
      <4>2. CASE m # x
        <5>1. Waiting(p, done, h, k + 1, m) = Waiting(p, done, h, k, m)
          BY <1>2, <2>1, <3>3, <4>2, WaitingNext
        <5> QED
          BY <2>2, <3>1, <3>10, <4>2, <5>1 DEF Degrees
      <4> QED
        BY <4>1, <4>2
    <3>12. /\ q2 \in Seq(Nodes(p))
           /\ \A i, j \in DOMAIN q2 : q2[i] = q2[j] => i = j
           /\ Range(q2) \subseteq Range(q) \cup {x}
           /\ d[x] # 1 => Range(q2) = Range(q)
      <4>1. CASE d[x] # 1
        BY <3>2, <3>5, <4>1
      <4>2. CASE d[x] = 1
        <5>1. q2 = Append(q, x)
          BY <3>5, <4>2
        <5>2. \A i \in DOMAIN q : q[i] # x
          BY <3>9 DEF Range
        <5>3. /\ q2 \in Seq(Nodes(p))
              /\ Len(q) \in Nat /\ DOMAIN q = 1..Len(q) /\ DOMAIN q2 = 1..(Len(q) + 1)
              /\ \A i \in 1..Len(q) : q2[i] = q[i]
              /\ q2[Len(q) + 1] = x
              /\ Range(q2) = Range(q) \cup {x}
          BY <3>2, <3>4, <5>1, AppendedSeq
        <5>4. \A i \in DOMAIN q2 : i \in 1..Len(q) \/ i = Len(q) + 1
          BY <5>3
        <5>5. \A i, j \in DOMAIN q2 : q2[i] = q2[j] => i = j
          BY <3>2, <5>2, <5>3, <5>4
        <5> QED
          BY <4>2, <5>3, <5>5
      <4> QED
        BY <4>1, <4>2
    <3>13. Range(q2) \cap Range(o) = {}
      BY <3>2, <3>9, <3>12
    <3>14. \A m \in Range(q2) \cup Range(o) : d2[m] = 0
      <4>1. \A m \in Range(q) \cup Range(o) : m \in Nodes(p) /\ m # x /\ d[m] = 0
        BY <3>2, <3>9 DEF Range
      <4>2. \A m \in Range(q) \cup Range(o) : d2[m] = 0
        BY <3>10, <4>1
      <4>3. x \in Range(q2) => d2[x] = 0
        BY <3>8, <3>9, <3>10, <3>12
      <4> QED
        BY <3>12, <4>2, <4>3
    <3>15. PICK t2 : t2 = [queue |-> q2, degree |-> d2, order |-> o]
      OBVIOUS
    <3>16. t2.queue = q2 /\ t2.degree = d2 /\ t2.order = o
      BY <3>15
    <3>17. QueueSound(p, t2)
      BY <3>2, <3>10, <3>12, <3>13, <3>14, <3>15, <3>16 DEF QueueSound
    <3>18. ReleaseHolds(c, k + 1, t2)
      BY <1>1, <2>2, <3>1, <3>11, <3>16, <3>17 DEF ReleaseHolds
    <3> QED
      BY <2>1, <3>6, <3>15, <3>18
  <2> QED
    BY <2>3, <2>4
<1>6. ReleaseHolds(c, Len(es), ReleaseFold!Folded(c, s, es))
  BY <1>3, <1>4, <1>5, ReleaseFold!FoldLeftInduction
<1>7. ReleaseFold!Folded(c, s, es) = Release(p, h, s)
  BY <1>1, <1>2, ReleaseFolds
<1>8. ReleaseHolds(c, Len(es), Release(p, h, s))
  BY <1>6, <1>7
<1> QED
  BY <1>1, <1>2, <1>8 DEF ReleaseHolds

\* One round, and all of them.
KahnStep(p, s, turn) == KahnRound(p, s)
KahnHolds(p, k, s) ==
    QueueSound(p, s) /\ Degrees(p, Range(s.order), NoModule, 0, s.degree)
KahnFold == INSTANCE FoldInduction WITH step <- KahnStep, Holds <- KahnHolds

InDegrees(p) ==
    [m \in Nodes(p) |-> Cardinality({i \in DOMAIN p.edges : /\ p.edges[i] \in Sorted(p)
                                                            /\ p.edges[i].to = m})]
Start(p) ==
    [queue |-> Appending(<<>>, p.modules, {m \in Nodes(p) : InDegrees(p)[m] = 0}),
     degree |-> InDegrees(p), order |-> <<>>]

LEMMA RoundsFold ==
    ASSUME NEW p
    PROVE  TopoSort(p) = KahnFold!Folded(p, Start(p), p.modules).order
  BY Zenon DEF TopoSort, Start, InDegrees, KahnStep, KahnFold!Folded, KahnFold!FoldLeft,
     FoldLeft, KahnFold!MapThenFoldSet, MapThenFoldSet, KahnFold!Max, Max

LEMMA StartSound ==
    ASSUME NEW p \in Plans
    PROVE  KahnHolds(p, 0, Start(p))
<1> DEFINE free == {m \in Nodes(p) : InDegrees(p)[m] = 0}
           queue == Appending(<<>>, p.modules, free)
<1>1. \A m \in Nodes(p) : InDegrees(p)[m] = Cardinality(Waiting(p, {}, NoModule, 0, m))
  <2> SUFFICES ASSUME NEW m \in Nodes(p)
               PROVE  InDegrees(p)[m] = Cardinality(Waiting(p, {}, NoModule, 0, m))
    OBVIOUS
  <2> DEFINE edges == {i \in DOMAIN p.edges : p.edges[i] \in Sorted(p) /\ p.edges[i].to = m}
  <2>1. InDegrees(p)[m] = Cardinality(edges)
    BY DEF InDegrees
  <2>2. \A i \in DOMAIN p.edges : i > 0
    BY ManifestFacts
  <2>3. edges = Waiting(p, {}, NoModule, 0, m)
    BY <2>2 DEF Waiting
  <2> QED
    BY <2>1, <2>3
<1>2. InDegrees(p) \in [Nodes(p) -> Nat]
  <2>1. InDegrees(p) = [m \in Nodes(p) |-> InDegrees(p)[m]]
    BY DEF InDegrees
  <2>2. \A m \in Nodes(p) : InDegrees(p)[m] \in Nat
    BY <1>1, WaitingFacts
  <2> QED
    BY <2>1, <2>2
<1>3. ASSUME NEW e \in Sorted(p) PROVE e.to \notin free
  <2> SUFFICES ASSUME e.to \in free PROVE FALSE
    OBVIOUS
  <2>1. Waiting(p, {}, NoModule, 0, e.to) = {}
    BY <1>1, WaitingFacts
  <2>2. e.from \in {}
    BY <2>1, WaitingNoMore
  <2> QED
    BY <2>2
<1>4. /\ \A m \in Nodes(p) : p.attach[m] \notin Nodes(p)
      /\ free \subseteq Nodes(p) /\ free \subseteq Ids(p)
  BY ManifestFacts
<1>5. WellOrdered(p, queue) /\ Range(queue) = Range(<<>>) \cup free
  <2>1. PICK base, wanted : base = <<>> /\ wanted = free
    OBVIOUS
  <2>2. /\ WellOrdered(p, base) /\ wanted \subseteq Ids(p) /\ wanted \cap Range(base) = {}
        /\ \A e \in Sorted(p) : e.to \notin wanted
        /\ \A x \in wanted : p.attach[x] \notin Nodes(p)
    <3> HIDE DEF free
    <3> QED
      BY <1>3, <1>4, <2>1, NothingPlaced
  <2> HIDE DEF free
  <2>3. /\ WellOrdered(p, Appending(base, p.modules, wanted))
        /\ Range(Appending(base, p.modules, wanted)) = Range(base) \cup wanted
    BY <2>2, Appended
  <2> QED
    BY <2>1, <2>3
<1> HIDE DEF free, queue
<1>6. Range(queue) = free
  BY <1>5, NothingPlaced
<1>7. queue \in Seq(Ids(p)) /\ \A i, j \in DOMAIN queue : queue[i] = queue[j] => i = j
  BY <1>5 DEF WellOrdered
<1>8. queue \in Seq(Nodes(p))
  <2>1. \A i \in DOMAIN queue : queue[i] \in Nodes(p)
    BY <1>4, <1>6 DEF Range
  <2> QED
    BY <1>7, <2>1
<1>9. PICK s : s = [queue |-> queue, degree |-> InDegrees(p), order |-> <<>>]
  OBVIOUS
<1>10. s.queue = queue /\ s.degree = InDegrees(p) /\ s.order = <<>>
  BY <1>9
<1>11. \A m \in free : InDegrees(p)[m] = 0
  BY DEF free
<1>12. QueueSound(p, s)
  BY <1>2, <1>6, <1>7, <1>8, <1>9, <1>10, <1>11, NothingPlaced DEF QueueSound
<1>13. Degrees(p, Range(s.order), NoModule, 0, s.degree)
  BY <1>1, <1>10, NothingPlaced DEF Degrees
<1>14. Start(p) = s
  BY <1>9 DEF Start, queue, free
<1> QED
  BY <1>12, <1>13, <1>14 DEF KahnHolds

\* Whoever is taken from the queue has all its producers behind it.
LEMMA RoundSound ==
    ASSUME NEW p \in Plans, NEW k, NEW s, KahnHolds(p, k, s)
    PROVE  KahnHolds(p, k + 1, KahnRound(p, s))
<1>1. PICK q, d, o : q = s.queue /\ d = s.degree /\ o = s.order
  OBVIOUS
<1>2. /\ s = [queue |-> q, degree |-> d, order |-> o]
      /\ q \in Seq(Nodes(p)) /\ d \in [Nodes(p) -> Nat]
      /\ WellOrdered(p, o) /\ Range(o) \subseteq Nodes(p)
      /\ \A i, j \in DOMAIN q : q[i] = q[j] => i = j
      /\ Range(q) \cap Range(o) = {}
      /\ \A m \in Range(q) \cup Range(o) : d[m] = 0
      /\ Degrees(p, Range(o), NoModule, 0, d)
  BY <1>1 DEF KahnHolds, QueueSound
<1>3. CASE q = <<>>
  <2>1. KahnRound(p, s) = s
    BY <1>1, <1>3 DEF KahnRound
  <2>2. KahnHolds(p, k + 1, s)
    BY DEF KahnHolds
  <2> QED
    BY <2>1, <2>2
<1>4. CASE q # <<>>
  <2>1. PICK h, q1, o1, done : h = Head(q) /\ q1 = Tail(q) /\ o1 = Append(o, h) /\ done = Range(o)
    OBVIOUS
  <2>2. /\ h \in Nodes(p) /\ h \in Range(q) /\ q1 \in Seq(Nodes(p))
        /\ Range(q) = {h} \cup Range(q1) /\ h \notin Range(q1)
        /\ \A i, j \in DOMAIN q1 : q1[i] = q1[j] => i = j
    BY <1>2, <1>4, <2>1, HeadOnce
  <2>3. PICK t : t = [queue |-> q1, degree |-> d, order |-> o1]
    OBVIOUS
  <2>4. KahnRound(p, s) = Release(p, h, t)
    <3>1. KahnRound(p, s) = Release(p, h, [s EXCEPT !.queue = q1, !.order = o1])
      BY <1>1, <1>4, <2>1 DEF KahnRound
    <3>2. s = [queue |-> q, degree |-> d, order |-> o]
      BY <1>2
    <3>3. [s EXCEPT !.queue = q1, !.order = o1] = t
      <4>1. PICK s1 : s1 = [s EXCEPT !.queue = q1]
        OBVIOUS
      <4>2. s1 = [queue |-> q1, degree |-> d, order |-> o]
        BY <3>2, <4>1
      <4>3. [s1 EXCEPT !.order = o1] = [queue |-> q1, degree |-> d, order |-> o1]
        BY <4>2
      <4>4. [s EXCEPT !.queue = q1, !.order = o1] = [s1 EXCEPT !.order = o1]
        BY <4>1
      <4> QED
        BY <2>3, <4>3, <4>4
    <3> QED
      BY <3>1, <3>3
  <2>5. t.queue = q1 /\ t.degree = d /\ t.order = o1
    BY <2>3
  <2>6. h \in Ids(p) /\ h \notin done /\ p.attach[h] \notin Nodes(p)
    BY <1>2, <2>1, <2>2, ManifestFacts
  <2>7. \A e \in Sorted(p) : e.to = h => e.from \in done
    <3>1. Cardinality(Waiting(p, done, NoModule, 0, h)) = 0
      BY <1>2, <2>1, <2>2 DEF Degrees
    <3>2. Waiting(p, done, NoModule, 0, h) = {}
      BY <3>1, WaitingFacts
    <3> QED
      BY <3>2, WaitingNoMore
  <2>8. WellOrdered(p, o1)
    BY <1>2, <2>1, <2>6, <2>7, AppendedOrder
  <2>9. Range(o1) = done \cup {h}
    BY <1>2, <2>1, <2>6, AppendedSeq DEF WellOrdered
  <2>10. Range(o1) \subseteq Nodes(p)
    BY <1>2, <2>1, <2>2, <2>9
  <2>11. Range(q1) \cap Range(o1) = {}
    BY <1>2, <2>1, <2>2, <2>9
  <2>12. \A m \in Range(q1) \cup Range(o1) : d[m] = 0
    BY <1>2, <2>1, <2>2, <2>9
  <2>13. QueueSound(p, t)
    BY <1>2, <2>2, <2>3, <2>5, <2>8, <2>10, <2>11, <2>12 DEF QueueSound
  <2>14. Degrees(p, done, h, 0, t.degree)
    <3> SUFFICES ASSUME NEW m \in Nodes(p)
                 PROVE  t.degree[m] = Cardinality(Waiting(p, done, h, 0, m))
      BY DEF Degrees
    <3>1. Waiting(p, done, h, 0, m) = Waiting(p, done, NoModule, 0, m)
      BY WaitingStarts
    <3> QED
      BY <1>2, <2>1, <2>5, <3>1 DEF Degrees
  <2>15. PICK r : r = Release(p, h, t)
    OBVIOUS
  <2>16. QueueSound(p, r) /\ r.order = o1 /\ Degrees(p, done, h, Len(p.edges), r.degree)
    BY <2>5, <2>6, <2>13, <2>14, <2>15, Released
  <2>17. Degrees(p, Range(r.order), NoModule, 0, r.degree)
    <3> SUFFICES ASSUME NEW m \in Nodes(p)
                 PROVE  r.degree[m] = Cardinality(Waiting(p, Range(r.order), NoModule, 0, m))
      BY DEF Degrees
    <3>1. Waiting(p, done, h, Len(p.edges), m) = Waiting(p, done \cup {h}, NoModule, 0, m)
      BY WaitingEnds
    <3>2. Range(r.order) = done \cup {h}
      BY <2>9, <2>16
    <3> QED
      BY <2>16, <3>1, <3>2 DEF Degrees
  <2>18. KahnHolds(p, k + 1, r)
    BY <2>16, <2>17 DEF KahnHolds
  <2> QED
    BY <2>4, <2>15, <2>18
<1> QED
  BY <1>3, <1>4

\* The sorted order never puts a module before one it reads from.
LEMMA TopoSorted ==
    ASSUME NEW p \in Plans
    PROVE  WellOrdered(p, TopoSort(p)) /\ Range(TopoSort(p)) \subseteq Nodes(p)
<1>1. Len(p.modules) \in Nat /\ DOMAIN p.modules = 1..Len(p.modules)
  BY ManifestFacts
<1>2. \A k \in 0..(Len(p.modules) - 1) : \A s :
          KahnHolds(p, k, s) => KahnHolds(p, k + 1, KahnStep(p, s, p.modules[k + 1]))
  BY RoundSound DEF KahnStep
<1>3. PICK s : s = KahnFold!Folded(p, Start(p), p.modules)
  OBVIOUS
<1>4. KahnHolds(p, Len(p.modules), s)
  BY <1>1, <1>2, <1>3, StartSound, KahnFold!FoldLeftInduction
<1>5. TopoSort(p) = s.order
  BY <1>3, RoundsFold
<1> QED
  BY <1>4, <1>5 DEF KahnHolds, QueueSound

-----------------------------------------------------------------------------
(* The orders the walk goes by.                                            *)

LEMMA WholeOrder ==
    ASSUME NEW p \in Plans
    PROVE  WellOrdered(p, ExecutionOrder(p)) /\ Range(ExecutionOrder(p)) = Ids(p)
<1>1. PICK order, base : order = TopoSort(p) /\ base = WithTaps(p, order)
  OBVIOUS
<1>2. WellOrdered(p, order) /\ Range(order) = Nodes(p)
  BY <1>1, TopoSorted, SortAssumption
<1>3. /\ WellOrdered(p, base)
      /\ Range(base) = {x \in Ids(p) : x \in Nodes(p) \/ p.attach[x] \in Nodes(p)}
  BY <1>1, <1>2, TapsPlaced
<1>4. PICK last : last = {q \in Ids(p) \ Nodes(p) : p.attach[q] \notin Nodes(p)}
  OBVIOUS
<1>5. last \subseteq Ids(p) /\ last \cap Range(base) = {}
      /\ (\A e \in Sorted(p) : e.to \notin last) /\ \A x \in last : p.attach[x] \notin Nodes(p)
  BY <1>3, <1>4, ManifestFacts
<1>6. /\ WellOrdered(p, Appending(base, p.modules, last))
      /\ Range(Appending(base, p.modules, last)) = Range(base) \cup last
  BY <1>3, <1>5, Appended
<1>7. ExecutionOrder(p) = Appending(base, p.modules, last)
  BY <1>1, <1>4 DEF ExecutionOrder
<1>8. Range(base) \cup last = Ids(p)
  BY <1>3, <1>4, ManifestFacts
<1> QED
  BY <1>6, <1>7, <1>8

\* execute walks over every module once, in its own thread, never before one it reads
\* from, and over nothing but the Probes of a module between the module and a Probe
\* of it: this is so of every manifest _topo_sort has an order for.
THEOREM OrdersAreSound ==
    ASSUME NEW p \in Plans
    PROVE  /\ ThreadOrders[p] \in [Threads(p) -> Seq(Ids(p))]
           /\ \A m \in Ids(p) : \E t \in Threads(p) : m \in Range(ThreadOrders[p][t])
           /\ \A t, u \in Threads(p) : t = u \/ t \cap u = {}
           /\ \A t \in Threads(p) : /\ WellOrdered(p, ThreadOrders[p][t])
                                    /\ Range(ThreadOrders[p][t]) = t
<1>1. PICK order : order = ExecutionOrder(p)
  OBVIOUS
<1>2. WellOrdered(p, order) /\ Range(order) = Ids(p)
  BY <1>1, WholeOrder
<1>3. ThreadOrders[p] = [t \in Threads(p) |-> Appending(<<>>, order, t)]
  BY <1>1 DEF ThreadOrders
<1>4. ASSUME NEW t \in Threads(p)
      PROVE  /\ WellOrdered(p, Appending(<<>>, order, t))
             /\ Range(Appending(<<>>, order, t)) = t
             /\ Appending(<<>>, order, t) \in Seq(Ids(p))
  <2>0. PICK kept : kept = Appending(<<>>, order, t)
    OBVIOUS
  <2>1. WellOrdered(p, kept) /\ Range(kept) = t \cap Range(order)
    BY <1>2, <2>0, Kept
  <2>2. t \subseteq Ids(p)
    BY ThreadsFacts
  <2>3. kept \in Seq(Ids(p))
    BY <2>1 DEF WellOrdered
  <2>4. Range(kept) = t
    BY <1>2, <2>1, <2>2
  <2> QED
    BY <2>0, <2>1, <2>3, <2>4
<1>5. PICK orders : orders = [t \in Threads(p) |-> Appending(<<>>, order, t)]
  OBVIOUS
<1>6. orders = ThreadOrders[p]
  BY <1>3, <1>5
<1>7. \A t \in Threads(p) : /\ WellOrdered(p, orders[t]) /\ Range(orders[t]) = t
                            /\ orders[t] \in Seq(Ids(p))
  BY <1>4, <1>5
<1>8. orders \in [Threads(p) -> Seq(Ids(p))]
  BY <1>4, <1>5
<1> QED
  BY <1>6, <1>7, <1>8, ThreadsFacts

-----------------------------------------------------------------------------
(* The invariant.                                                          *)

\* Modules some thread has still to visit.
Left == UNION {Range(todo[t]) : t \in Threads(plan)}

Statuses == {"none", "success", "skipped", "error", "missing"}

WalkTypes ==
    /\ plan \in Plans
    /\ exec \in Nat /\ source \in 0..(exec - 1)
    /\ phase \in {"running", "success", "error", "raised", "killed"}
    /\ todo \in [Threads(plan) -> Seq(Ids(plan))]
    /\ frames \in [Keys(plan) -> {"absent", "closed", "data"}]
    /\ results \in [Ids(plan) -> Statuses]
    /\ cancel \in BOOLEAN /\ agent \in {"unset", "yes", "no"}
    /\ raised \subseteq Threads(plan)
    /\ writing \subseteq {m \in Ids(plan) : plan.type[m] = "Egress"}
    /\ marks \subseteq (1..exec) \X Ids(plan) /\ writes \subseteq (1..exec) \X Ids(plan)

\* What is left of a thread is of its own component, and an end of its order.
EndOf(order, t, left) ==
    /\ Range(left) \subseteq t
    /\ \A i, j \in DOMAIN left : left[i] = left[j] => i = j
    /\ \E done \in Nat : \A i \in DOMAIN left :
           done + i \in DOMAIN order /\ left[i] = order[done + i]

TodoInOrder == \A t \in Threads(plan) : EndOf(ThreadOrders[plan][t], t, todo[t])

\* A thread has stopped at a module with this status.
StoppedAt(status, asks) ==
    \E t \in Threads(plan) : \E m \in t \cap Ids(plan) :
        todo[t] = <<>> /\ results[m] \in status /\ (asks => plan.policy[m] = "trigger_agent")

\* As long as nothing stopped the walk every module is visited or will be, and
\* what failed was alert_only.
QuietWalk ==
    ~cancel =>
        /\ phase # "raised" => raised = {}
        /\ \A m \in Ids(plan) :
               /\ results[m] # "missing"
               /\ results[m] = "error" => plan.policy[m] = "alert_only"
               /\ results[m] = "none" => m \in Left

FailureKept == cancel => raised # {} \/ StoppedAt({"error", "missing"}, FALSE)
AgentKept == agent = "yes" => raised # {} \/ StoppedAt({"error"}, TRUE)

EndsAsItWent ==
    /\ phase = "success" => ~cancel /\ Left = {}
    /\ phase = "error" => cancel

StatusInv == QuietWalk /\ FailureKept /\ AgentKept /\ EndsAsItWent

Succeeded(m) == results[m] = "success" \/ \E t \in raised : m \in t

\* Data is of a module that had its turn and succeeded ...
DataProduced ==
    \A k \in Keys(plan) : frames[k] = "data" => k[1] \notin Left /\ Succeeded(k[1])

\* ... on data, unless it comes from a checkpoint; and so is what sinks get.
DataFed ==
    \A k \in Keys(plan) : (frames[k] = "data" /\ k[1] \notin reloaded) =>
        \A i \in Inputs(k[1]) : frames[Key(i)] = "data"

WritesFed ==
    \A m \in Ids(plan) : <<exec, m>> \in writes =>
        \A i \in Inputs(m) : frames[Key(i)] = "data"

DataInv == DataProduced /\ DataFed /\ WritesFed

\* A Probe that had its turn has reported, and no gate is ever marked as passed.
GateInv ==
    /\ ~cancel => \A q \in Ids(plan) :
           (plan.type[q] = "Probe" /\ q \in Included[plan] /\ q \notin Left) =>
               results[q] = "success"
    /\ \A w \in marks : plan.type[w[2]] # "Regulator"

WalkInv ==
    /\ WalkTypes /\ TodoInOrder /\ StatusInv /\ DataInv /\ GateInv
    /\ ResumeKeepsCompletedSinks

\* Every data edge leaves a port its module fills.  Nothing checks that of a
\* manifest: any port name will do, and an Egress may have edges too.
PortsServed ==
    \A p \in Plans : \A e \in Flow(p) :
        /\ p.type[e.from] \notin {"Egress", "Probe"}
        /\ p.type[e.from] # "Junction" => e.port \in {"main", "spillway"}

\* Every gate goes by one Probe.  Nothing checks that of a manifest either: the
\* Surveyor takes the first of several.
OneProbePerGate ==
    \A p \in Plans : \A d, e \in Range(p.edges) :
        (d.to = e.to /\ d.port = "signal" /\ e.port = "signal") => d.from = e.from

\* Whoever had its turn has filled the edges that leave it.
Served ==
    ~cancel =>
        \A e \in Flow(plan) : e.from \notin Left =>
            \/ frames[<<e.from, e.port>>] # "absent"
            \/ e.port = "spillway" \/ e.from \notin Included[plan]

\* Why a module starved stays as it was.
MissingTold ==
    \A m \in Ids(plan) : results[m] = "missing" =>
        \/ Inputs(m) = {}
        \/ \E i \in Inputs(m) :
               /\ frames[Key(i)] = "absent" /\ Key(i)[1] \notin Left
               /\ Key(i)[2] = "spillway" \/ Key(i)[1] \notin Included[plan]

StarvedInv == Served /\ MissingTold

-----------------------------------------------------------------------------
(* Sequences, plans and frames.                                            *)

\* The orders of the threads of the walk at hand.
LEMMA OrderFacts ==
    ASSUME plan \in Plans
    PROVE  /\ ThreadOrders[plan] \in [Threads(plan) -> Seq(Ids(plan))]
           /\ \A m \in Ids(plan) : \E t \in Threads(plan) : m \in Range(ThreadOrders[plan][t])
           /\ \A t, u \in Threads(plan) : t = u \/ t \cap u = {}
           /\ \A e \in Flow(plan) : plan.type[e.from] # "Probe"
  BY OrdersAreSound, SortAssumption

LEMMA ThreadFacts ==
    ASSUME plan \in Plans, NEW t \in Threads(plan)
    PROVE  /\ ThreadOrders[plan][t] \in Seq(Ids(plan))
           /\ Range(ThreadOrders[plan][t]) \subseteq t
           /\ \A i, j \in DOMAIN ThreadOrders[plan][t] :
                  ThreadOrders[plan][t][i] = ThreadOrders[plan][t][j] => i = j
<1>1. PICK order : order = ThreadOrders[plan][t]
  OBVIOUS
<1>2. WellOrdered(plan, order) /\ Range(order) = t
  BY <1>1, OrdersAreSound
<1>3. order \in Seq(Ids(plan)) /\ \A i, j \in DOMAIN order : order[i] = order[j] => i = j
  BY <1>2 DEF WellOrdered
<1> QED
  BY <1>1, <1>2, <1>3

LEMMA ProducersBefore ==
    ASSUME plan \in Plans, NEW t \in Threads(plan), NEW e \in Sorted(plan),
           NEW j \in DOMAIN ThreadOrders[plan][t], ThreadOrders[plan][t][j] = e.to
    PROVE  \E i \in 1..(j - 1) : ThreadOrders[plan][t][i] = e.from
<1>1. PICK order : order = ThreadOrders[plan][t]
  OBVIOUS
<1>2. WellOrdered(plan, order)
  BY <1>1, OrdersAreSound
<1>3. j \in DOMAIN order /\ order[j] = e.to
  BY <1>1
<1>4. \E i \in 1..(j - 1) : order[i] = e.from
  BY <1>2, <1>3 DEF WellOrdered
<1> QED
  BY <1>1, <1>4

\* A Probe comes right behind the module it taps, or behind its other Probes.
LEMMA ProbesBehind ==
    ASSUME plan \in Plans, NEW t \in Threads(plan), NEW k \in DOMAIN ThreadOrders[plan][t],
           NEW m, m = plan.attach[ThreadOrders[plan][t][k]],
           m \in Ids(plan), plan.type[m] # "Probe"
    PROVE  \E h \in 1..(k - 1) :
               /\ ThreadOrders[plan][t][h] = m
               /\ \A x \in (h + 1)..(k - 1) : plan.attach[ThreadOrders[plan][t][x]] = m
<1>1. PICK order : order = ThreadOrders[plan][t]
  OBVIOUS
<1>2. WellOrdered(plan, order)
  BY <1>1, OrdersAreSound
<1>3. k \in DOMAIN order /\ m = plan.attach[order[k]] /\ m \in Nodes(plan)
  BY <1>1 DEF Nodes
<1>4. EndsWith(plan, m, order, k - 1)
  BY <1>2, <1>3 DEF WellOrdered
<1> QED
  BY <1>1, <1>4 DEF EndsWith

\* A nonempty set of positions has a first one.
LEMMA FirstPosition ==
    ASSUME NEW n \in Nat, NEW T \in SUBSET (1..n), T # {}
    PROVE  \E x \in T : \A y \in T : x <= y
<1> DEFINE U == {1..x : x \in T}
           R == StrictSubsetOrdering(1..n)
<1>1. IsWellFoundedOn(R, SUBSET (1..n))
  <2>1. IsWellFoundedOn(R, FiniteSubsetsOf(1..n))
    BY FS_StrictSubsetOrderingWellFounded
  <2>2. IsFiniteSet(1..n)
    BY FS_Interval
  <2>3. FiniteSubsetsOf(1..n) = SUBSET (1..n)
    BY <2>2, FS_FiniteSubsetsOfFinite
  <2> QED
    BY <2>1, <2>3
<1>2. U \subseteq SUBSET (1..n) /\ U # {}
  <2>1. \A x \in T : 1..x \subseteq 1..n
    OBVIOUS
  <2> QED
    BY <2>1
<1>3. PICK u \in U : \A y \in U : ~ (<<y, u>> \in R)
  <2> HIDE DEF R, U
  <2> QED
    BY <1>1, <1>2, WFMin
<1>4. PICK x \in T : u = 1..x
  OBVIOUS
<1>5. ASSUME NEW y \in T, y < x PROVE FALSE
  <2>1. <<1..y, 1..x>> \in R
    BY <1>5 DEF StrictSubsetOrdering
  <2> QED
    BY <1>3, <1>4, <2>1
<1> QED
  BY <1>5

\* What is known of the manifest at hand.
LEMMA PlanFacts ==
    ASSUME plan \in Plans
    PROVE  /\ \A m \in Ids(plan) :
                  /\ plan.type[m] \in ModuleTypes
                  /\ plan.type[m] = "Probe" <=> plan.attach[m] \in Ids(plan)
           /\ \A e \in Flow(plan) : e.from \in Ids(plan) /\ e.to \in Ids(plan)
           /\ \A t, u \in Threads(plan) : t = u \/ t \cap u = {}
<1>1. \A e \in Range(plan.edges) : e.from \in Ids(plan) /\ e.to \in Ids(plan)
  BY ExecutorAssumption
<1>2. Flow(plan) \subseteq Range(plan.edges)
  BY DEF Flow
<1>3. \A t, u \in Threads(plan) : t = u \/ t \cap u = {}
  BY ThreadsFacts
<1>4. \A m \in Ids(plan) : /\ plan.type[m] \in ModuleTypes
                           /\ plan.type[m] = "Probe" <=> plan.attach[m] \in Ids(plan)
  BY ExecutorAssumption
<1> QED
  BY <1>1, <1>2, <1>3, <1>4

\* What a module reads is data edges into it.
LEMMA InputsAreEdges ==
    ASSUME plan \in Plans, NEW m \in Ids(plan), NEW i \in Inputs(m)
    PROVE  /\ i \in DOMAIN plan.edges /\ plan.edges[i].to = m
           /\ plan.edges[i] \in Sorted(plan)
           /\ Key(i) \in Keys(plan)
           /\ Key(i)[1] = plan.edges[i].from /\ Key(i)[2] = plan.edges[i].port
           /\ Key(i)[1] \in Ids(plan)
<1> DEFINE any == {j \in DOMAIN plan.edges : plan.edges[j].to = m /\ plan.edges[j].port # "signal"}
           main == {j \in any : plan.edges[j].port = "main"}
           first(edges) == {j \in edges : \A l \in edges : j <= l}
<1>1. plan.type[m] \in ModuleTypes
  BY PlanFacts
<1>2. Inputs(m) = CASE plan.type[m] = "Channel" -> main
                    [] plan.type[m] = "Funnel" -> any
                    [] plan.type[m] = "Egress" -> first(any)
                    [] plan.type[m] \in {"Junction", "Assert", "Regulator"} -> first(main)
                    [] plan.type[m] \in {"Ingress", "Probe"} -> {}
  BY DEF Inputs, InputsOf
<1>3. main \subseteq any /\ first(any) \subseteq any /\ first(main) \subseteq any
  OBVIOUS
<1>4. Inputs(m) \subseteq any
  <2> HIDE DEF any, main, first
  <2> QED
    BY <1>1, <1>2, <1>3 DEF ModuleTypes
<1>5. i \in DOMAIN plan.edges /\ plan.edges[i].to = m /\ plan.edges[i].port # "signal"
  BY <1>4
<1>6. plan.edges[i] \in Flow(plan)
  BY <1>5 DEF Flow, Range
<1>8. plan.type[m] # "Probe"
  BY DEF Inputs, InputsOf
<1>9. plan.edges[i] \in Sorted(plan)
  BY <1>5, <1>6, <1>8 DEF Sorted
<1>7. Key(i) \in Keys(plan) /\ Key(i)[1] = plan.edges[i].from /\ Key(i)[2] = plan.edges[i].port
  BY <1>6 DEF Keys, Key
<1> QED
  BY <1>5, <1>6, <1>7, <1>9, PlanFacts

\* What a module is supplied with is what all its inputs hold, or the first that
\* holds no data.
LEMMA SupplyFacts ==
    ASSUME WalkTypes, NEW m \in Ids(plan)
    PROVE  /\ Supply(m) = "data" => \A i \in Inputs(m) : frames[Key(i)] = "data"
           /\ Supply(m) = "absent" =>
                  Inputs(m) = {} \/ \E i \in Inputs(m) : frames[Key(i)] = "absent"
<1> DEFINE lacking == {i \in Inputs(m) : frames[Key(i)] # "data"}
           first == CHOOSE i \in lacking : \A j \in lacking : i <= j
<1>1. Supply(m) = IF lacking # {} THEN frames[Key(first)]
                  ELSE IF Inputs(m) = {} /\ plan.type[m] \notin {"Ingress", "Probe"}
                       THEN "absent" ELSE "data"
  BY DEF Supply
<1>2. CASE lacking = {}
  BY <1>1, <1>2
<1>3. CASE lacking # {}
  <2>1. plan.edges \in Seq(Range(plan.edges))
    BY ExecutorAssumption DEF WalkTypes
  <2>2. lacking \in SUBSET (1..Len(plan.edges)) /\ Len(plan.edges) \in Nat
    <3>1. \A i \in Inputs(m) : i \in DOMAIN plan.edges
      BY InputsAreEdges DEF WalkTypes
    <3> QED
      BY <2>1, <3>1
  <2>3. \E i \in lacking : \A j \in lacking : i <= j
    <3> HIDE DEF lacking
    <3> QED
      BY <1>3, <2>2, FirstPosition
  <2>4. first \in lacking
    <3> HIDE DEF lacking
    <3> QED
      BY <2>3
  <2> HIDE DEF first
  <2>5. Supply(m) = frames[Key(first)] /\ first \in Inputs(m) /\ frames[Key(first)] # "data"
    BY <1>1, <1>3, <2>4
  <2> QED
    BY <2>5
<1> QED
  BY <1>2, <1>3

\* The tail of an end is an end, and so is nothing.
LEMMA EndsOfOrders ==
    ASSUME NEW order, NEW t
    PROVE  /\ EndOf(order, t, <<>>)
           /\ \A S : \A left \in Seq(S) : (left # <<>> /\ EndOf(order, t, left)) =>
                  EndOf(order, t, Tail(left))
<1>1. EndOf(order, t, <<>>)
  <2>1. 0 \in Nat
    OBVIOUS
  <2> QED
    BY <2>1 DEF EndOf, Range
<1>2. ASSUME NEW S, NEW left \in Seq(S), left # <<>>, EndOf(order, t, left)
      PROVE  EndOf(order, t, Tail(left))
  <2>1. /\ Range(left) = {Head(left)} \cup Range(Tail(left))
        /\ \A i \in DOMAIN Tail(left) : i + 1 \in DOMAIN left /\ Tail(left)[i] = left[i + 1]
        /\ \A i, j \in DOMAIN Tail(left) : Tail(left)[i] = Tail(left)[j] => i = j
        /\ DOMAIN Tail(left) \subseteq Nat
    BY <1>2, HeadOnce DEF EndOf
  <2>2. PICK done \in Nat : \A i \in DOMAIN left :
            done + i \in DOMAIN order /\ left[i] = order[done + i]
    BY <1>2 DEF EndOf
  <2>3. ASSUME NEW i \in DOMAIN Tail(left)
        PROVE  (done + 1) + i \in DOMAIN order /\ Tail(left)[i] = order[(done + 1) + i]
    <3>1. i + 1 \in DOMAIN left /\ Tail(left)[i] = left[i + 1]
      BY <2>1
    <3>2. (done + 1) + i = done + (i + 1)
      BY <2>1
    <3> QED
      BY <2>2, <3>1, <3>2
  <2>4. \E k \in Nat : \A i \in DOMAIN Tail(left) :
            k + i \in DOMAIN order /\ Tail(left)[i] = order[k + i]
    <3>1. done + 1 \in Nat
      OBVIOUS
    <3> QED
      BY <2>3, <3>1
  <2>5. Range(Tail(left)) \subseteq t
    BY <1>2, <2>1 DEF EndOf
  <2> QED
    BY <2>1, <2>4, <2>5 DEF EndOf
<1> QED
  BY <1>1, <1>2

\* A thread that goes on has one module less to visit.
LEMMA ThreadGoesOn ==
    ASSUME WalkTypes, TodoInOrder, NEW t \in Threads(plan), todo[t] # <<>>,
           plan' = plan, todo' = [todo EXCEPT ![t] = Tail(@)]
    PROVE  /\ todo' \in [Threads(plan) -> Seq(Ids(plan))] /\ TodoInOrder'
           /\ Head(todo[t]) \in Ids(plan) /\ Head(todo[t]) \in t
           /\ Head(todo[t]) \in Left /\ Left' = Left \ {Head(todo[t])}
<1> DEFINE m == Head(todo[t])
<1>1. /\ plan \in Plans /\ todo \in [Threads(plan) -> Seq(Ids(plan))]
      /\ todo[t] \in Seq(Ids(plan)) /\ Range(todo[t]) \subseteq t
      /\ \A i, j \in DOMAIN todo[t] : todo[t][i] = todo[t][j] => i = j
      /\ EndOf(ThreadOrders[plan][t], t, todo[t])
  BY DEF WalkTypes, TodoInOrder, EndOf
<1>2. /\ m \in Ids(plan) /\ m \in Range(todo[t]) /\ Tail(todo[t]) \in Seq(Ids(plan))
      /\ Range(todo[t]) = {m} \cup Range(Tail(todo[t])) /\ m \notin Range(Tail(todo[t]))
  BY <1>1, HeadOnce
<1>3. /\ todo'[t] = Tail(todo[t]) /\ Threads(plan') = Threads(plan)
      /\ \A u \in Threads(plan) : u # t => todo'[u] = todo[u]
  BY <1>1
<1>4. todo' \in [Threads(plan) -> Seq(Ids(plan))]
  BY <1>1, <1>2
<1>5. TodoInOrder'
  <2>1. EndOf(ThreadOrders[plan][t], t, todo'[t])
    BY <1>1, <1>3, EndsOfOrders
  <2>2. \A u \in Threads(plan) : EndOf(ThreadOrders[plan][u], u, todo'[u])
    BY <1>3, <2>1 DEF TodoInOrder
  <2> QED
    BY <2>2 DEF TodoInOrder
<1>6. m \in t /\ m \in Left
  BY <1>1, <1>2 DEF Left
<1>7. Left' = Left \ {m}
  <2>1. \A u \in Threads(plan) : u # t => m \notin Range(todo[u])
    BY <1>1, <1>6, PlanFacts DEF TodoInOrder, EndOf
  <2>2. \A x : x \in Left' <=> \E u \in Threads(plan) : x \in Range(todo'[u])
    BY <1>3 DEF Left
  <2>3. \A x : x \in Left <=> \E u \in Threads(plan) : x \in Range(todo[u])
    BY DEF Left
  <2>4. ASSUME NEW x \in Left' PROVE x \in Left \ {m}
    BY <1>2, <1>3, <2>1, <2>2, <2>3
  <2>5. ASSUME NEW x \in Left, x # m PROVE x \in Left'
    BY <1>2, <1>3, <2>2, <2>3, <2>5
  <2> QED
    BY <2>1, <2>4, <2>5, <1>6
<1> QED
  BY <1>2, <1>4, <1>5, <1>6, <1>7

\* A thread that stops has none left.
LEMMA ThreadStops ==
    ASSUME WalkTypes, TodoInOrder, NEW t \in Threads(plan), plan' = plan,
           todo' = [todo EXCEPT ![t] = <<>>]
    PROVE  /\ todo' \in [Threads(plan) -> Seq(Ids(plan))] /\ TodoInOrder'
           /\ Left' \subseteq Left
<1>1. /\ todo \in [Threads(plan) -> Seq(Ids(plan))] /\ todo'[t] = <<>>
      /\ Threads(plan') = Threads(plan)
      /\ \A u \in Threads(plan) : u # t => todo'[u] = todo[u]
  BY DEF WalkTypes
<1>2. Range(todo'[t]) = {}
  BY <1>1 DEF Range
<1>3. TodoInOrder'
  <2>1. EndOf(ThreadOrders[plan][t], t, todo'[t])
    BY <1>1, EndsOfOrders
  <2>2. \A u \in Threads(plan) : EndOf(ThreadOrders[plan][u], u, todo'[u])
    BY <1>1, <2>1 DEF TodoInOrder
  <2> QED
    BY <2>2 DEF TodoInOrder
<1>4. \A u \in Threads(plan) : Range(todo'[u]) \subseteq Range(todo[u])
  BY <1>1, <1>2
<1>5. Left' \subseteq Left
  BY <1>1, <1>4 DEF Left
<1>6. todo' \in [Threads(plan) -> Seq(Ids(plan))]
  BY <1>1
<1> QED
  BY <1>3, <1>5, <1>6

\* The module at a head is in its thread's order, and whatever comes before it
\* there is not waiting in any thread.
LEMMA BeforeTheHead ==
    ASSUME WalkTypes, TodoInOrder, NEW t \in Threads(plan), todo[t] # <<>>
    PROVE  \E j \in DOMAIN ThreadOrders[plan][t] :
               /\ ThreadOrders[plan][t][j] = Head(todo[t])
               /\ \A i \in 1..(j - 1) : /\ i \in DOMAIN ThreadOrders[plan][t]
                                        /\ ThreadOrders[plan][t][i] \in t
                                        /\ ThreadOrders[plan][t][i] \notin Left
<1> DEFINE order == ThreadOrders[plan][t]
<1>1. /\ plan \in Plans /\ todo[t] \in Seq(Ids(plan)) /\ order \in Seq(Ids(plan))
      /\ Range(order) \subseteq t /\ \A i, j \in DOMAIN order : order[i] = order[j] => i = j
  <2>1. plan \in Plans /\ todo[t] \in Seq(Ids(plan))
    BY DEF WalkTypes
  <2> QED
    BY <2>1, ThreadFacts
<1> HIDE DEF order
<1>2. PICK done \in Nat : \A i \in DOMAIN todo[t] :
          done + i \in DOMAIN order /\ todo[t][i] = order[done + i]
  BY DEF TodoInOrder, EndOf, order
<1>3. 1 \in DOMAIN todo[t] /\ Head(todo[t]) = todo[t][1]
  BY <1>1
<1>4. done + 1 \in DOMAIN order /\ order[done + 1] = Head(todo[t])
  BY <1>2, <1>3
<1>5. ASSUME NEW i \in 1..((done + 1) - 1)
      PROVE  i \in DOMAIN order /\ order[i] \in t /\ order[i] \notin Left
  <2>1. i \in DOMAIN order /\ i \in Nat /\ i <= done
    BY <1>1, <1>4
  <2>2. order[i] \in t
    BY <1>1, <2>1 DEF Range
  <2>3. ASSUME order[i] \in Left PROVE FALSE
    <3>1. PICK u \in Threads(plan) : order[i] \in Range(todo[u])
      BY <2>3 DEF Left
    <3>2. u = t
      BY <1>1, <2>2, <3>1, PlanFacts DEF TodoInOrder, EndOf
    <3>3. PICK k \in DOMAIN todo[t] : todo[t][k] = order[i]
      BY <3>1, <3>2 DEF Range
    <3>4. done + k = i
      BY <1>1, <1>2, <2>1, <3>3
    <3>5. k \in Nat /\ k >= 1
      BY <1>1
    <3> QED
      BY <2>1, <3>4, <3>5
  <2> QED
    BY <2>1, <2>2, <2>3
<1> QED
  BY <1>4, <1>5 DEF order

\* Who feeds the module at a head is not waiting in any thread.
LEMMA ProducersHadTheirTurn ==
    ASSUME WalkTypes, TodoInOrder, NEW t \in Threads(plan), todo[t] # <<>>,
           NEW e \in Sorted(plan), e.to = Head(todo[t])
    PROVE  e.from \notin Left
<1>1. PICK j \in DOMAIN ThreadOrders[plan][t] :
          /\ ThreadOrders[plan][t][j] = Head(todo[t])
          /\ \A i \in 1..(j - 1) : ThreadOrders[plan][t][i] \notin Left
  BY BeforeTheHead
<1>2. PICK i \in 1..(j - 1) : ThreadOrders[plan][t][i] = e.from
  <2>1. plan \in Plans
    BY DEF WalkTypes
  <2> QED
    BY <1>1, <2>1, ProducersBefore
<1> QED
  BY <1>1, <1>2

\* A module writes frames of its own.
LEMMA OutputsAreOwn ==
    ASSUME plan \in Plans, NEW m \in Ids(plan)
    PROVE  \A k \in Outputs(m) : k \in Keys(plan) /\ k[1] = m
<1>1. \A e \in {d \in Flow(plan) : d.from = m} :
          <<m, e.port>> \in Keys(plan) /\ <<m, e.port>>[1] = m
  BY DEF Keys
<1>2. <<m, "main">> \in Keys(plan) /\ <<m, "main">>[1] = m
  BY DEF Keys
<1>3. CASE plan.type[m] = "Junction"
  BY <1>1, <1>3 DEF Outputs
<1>4. CASE plan.type[m] # "Junction"
  BY <1>2, <1>4 DEF Outputs
<1> QED
  BY <1>3, <1>4

-----------------------------------------------------------------------------
(* What the steps of a thread have in common.                              *)

\* At most m's own frames change, to this value.
FramesOf(m, value) ==
    /\ frames' \in [Keys(plan) -> {"absent", "closed", "data"}]
    /\ \A k \in Keys(plan) : frames'[k] = frames[k] \/ (k[1] = m /\ frames'[k] = value)

\* A module has had its turn and the thread goes on.
Turn(t, m, status, value) ==
    /\ todo[t] # <<>> /\ m = Head(todo[t])
    /\ status \in {"success", "skipped", "error"}
    /\ status = "error" => plan.policy[m] = "alert_only"
    /\ Visited(t, m, status)
    /\ value \in {"closed", "data"} /\ FramesOf(m, value)
    /\ value = "data" =>
           /\ status = "success"
           /\ m \in reloaded' \/ \A i \in Inputs(m) : frames[Key(i)] = "data"
    /\ (~cancel /\ m \in Included[plan]) => \A k \in Outputs(m) : frames'[k] = value
    /\ reloaded \subseteq reloaded' /\ writing' \subseteq writing
    /\ marks' \in {marks, marks \cup {<<exec, m>>}}
    /\ plan.type[m] = "Regulator" =>
           /\ marks' = marks
           /\ status = "success" => ~cancel /\ (GateOpen(m) \/ HasCheckpoint(m))
    /\ (plan.type[m] = "Probe" /\ ~cancel /\ m \in Included[plan]) => status = "success"
    /\ UNCHANGED <<plan, exec, source, phase, cancel, agent, raised, writes>>

\* A module has failed and the thread stops.
Halt(t, m, status, asks) ==
    /\ todo[t] # <<>> /\ m = Head(todo[t])
    /\ status \in {"error", "missing"} /\ asks \in BOOLEAN
    /\ asks => status = "error" /\ plan.policy[m] = "trigger_agent"
    /\ status = "missing" => ~cancel /\ Supply(m) = "absent"
    /\ SignalFail(t, m, status, asks)
    /\ UNCHANGED <<plan, exec, source, phase, writing, frames, reloaded, raised, marks, writes>>

\* The frames a module fills are its own, and its outputs are among them.
LEMMA Filled ==
    ASSUME WalkTypes, NEW m \in Ids(plan), NEW value \in {"closed", "data"}, NEW filled,
           Outputs(m) \subseteq filled, \A k \in filled : k[1] = m,
           frames' = [k \in DOMAIN frames |-> IF k \in filled THEN value ELSE frames[k]]
    PROVE  FramesOf(m, value) /\ \A k \in Outputs(m) : frames'[k] = value
<1>1. frames \in [Keys(plan) -> {"absent", "closed", "data"}] /\ DOMAIN frames = Keys(plan)
  BY DEF WalkTypes
<1>2. frames' \in [Keys(plan) -> {"absent", "closed", "data"}]
  BY <1>1
<1>3. \A k \in Keys(plan) : frames'[k] = frames[k] \/ (k[1] = m /\ frames'[k] = value)
  BY <1>1
<1>4. \A k \in Outputs(m) : k \in Keys(plan)
  BY OutputsAreOwn DEF WalkTypes
<1>5. \A k \in Outputs(m) : frames'[k] = value
  BY <1>1, <1>4
<1> QED
  BY <1>2, <1>3, <1>5 DEF FramesOf

\* The same for a module that fills its outputs only.
LEMMA Delivered ==
    ASSUME WalkTypes, NEW m \in Ids(plan), NEW value \in {"closed", "data"}, Deliver(m, value)
    PROVE  FramesOf(m, value) /\ \A k \in Outputs(m) : frames'[k] = value
<1>1. \A k \in Outputs(m) : k[1] = m
  BY OutputsAreOwn DEF WalkTypes
<1>2. frames' = [k \in DOMAIN frames |-> IF k \in Outputs(m) THEN value ELSE frames[k]]
  BY DEF Deliver
<1> QED
  BY <1>1, <1>2, Filled

\* Frames may as well stay as they are.
LEMMA FramesStay ==
    ASSUME WalkTypes, NEW m, NEW value, frames' = frames, plan' = plan
    PROVE  FramesOf(m, value)
BY DEF WalkTypes, FramesOf

\* A Probe reads no edge and always has its turn.
LEMMA ProbesAreSupplied ==
    ASSUME plan \in Plans, NEW m \in Ids(plan), plan.type[m] = "Probe"
    PROVE  Supply(m) = "data"
<1>1. Inputs(m) = {}
  BY DEF Inputs, InputsOf
<1> QED
  BY <1>1 DEF Supply

\* Marker or none.
LEMMA Marked ==
    ASSUME NEW m, Mark(m)
    PROVE  marks' \in {marks, marks \cup {<<exec, m>>}}
BY DEF Mark

\* A thread's step is a turn, a halt, an exception, or the write of a sink.
LEMMA StepShapes ==
    ASSUME WalkTypes, NEW t \in Threads(plan), NEW m \in t,
           \/ Skip(t, m) \/ Reload(t, m) \/ Blocked(t, m) \/ Starved(t, m)
           \/ Transforms(t, m) \/ FailsAlone(t, m) \/ Fails(t, m) \/ Raises(t, m)
           \/ ProbeTurn(t, m) \/ OpenGate(t, m) \/ CloseGate(t, m)
           \/ WriteSink(t, m) \/ MarkSink(t, m)
    PROVE  /\ m \in Ids(plan) /\ todo[t] # <<>> /\ m = Head(todo[t]) /\ phase = "running"
           /\ \/ \E status, value : Turn(t, m, status, value)
              \/ \E status, asks : Halt(t, m, status, asks)
              \/ WriteSink(t, m)
              \/ Raises(t, m)
<1>1. todo[t] # <<>> /\ m = Head(todo[t]) /\ phase = "running"
  BY DEF Skip, Reload, Blocked, Starved, Transforms, FailsAlone, Fails, Raises, ProbeTurn,
         OpenGate, CloseGate, WriteSink, MarkSink, Works, Visits, AtHead
<1>2. m \in Ids(plan)
  <2>1. todo[t] \in Seq(Ids(plan))
    BY DEF WalkTypes
  <2> QED
    BY <1>1, <2>1
<1>3. Supply(m) = "data" => \A i \in Inputs(m) : frames[Key(i)] = "data"
  BY <1>2, SupplyFacts
<1>4. CASE Skip(t, m)
  <2>1. FramesOf(m, "closed")
    BY <1>4, FramesStay DEF Skip
  <2>2. Turn(t, m, "skipped", "closed")
    BY <1>1, <1>4, <2>1 DEF Turn, Skip, storeVars
  <2> QED
    BY <1>1, <1>2, <2>2
<1>5. CASE Reload(t, m)
  <2>1. FramesOf(m, "data") /\ \A k \in Outputs(m) : frames'[k] = "data"
    BY <1>2, <1>5, Delivered DEF Reload
  <2>2. Turn(t, m, "success", "data")
    BY <1>1, <1>5, <2>1 DEF Turn, Reload, storeVars
  <2> QED
    BY <1>1, <1>2, <2>2
<1>6. CASE Blocked(t, m)
  <2>1. FramesOf(m, "closed") /\ \A k \in Outputs(m) : frames'[k] = "closed"
    BY <1>2, <1>6, Delivered DEF Blocked
  <2>2. plan.type[m] # "Probe"
    BY <1>2, <1>6, ProbesAreSupplied DEF Blocked, WalkTypes
  <2>3. Turn(t, m, "skipped", "closed")
    BY <1>1, <1>6, <2>1, <2>2 DEF Turn, Blocked, storeVars
  <2> QED
    BY <1>1, <1>2, <2>3
<1>7. CASE Starved(t, m)
  <2>1. Halt(t, m, "missing", FALSE)
    BY <1>1, <1>7 DEF Halt, Starved, Visits, storeVars
  <2> QED
    BY <1>1, <1>2, <2>1
<1>8. CASE Transforms(t, m)
  <2>1. PICK quarantined \in BOOLEAN :
            LET spills == /\ HasSpillway(m)
                          /\ \/ plan.type[m] = "Channel"
                             \/ plan.type[m] = "Assert" /\ quarantined
                filled == Outputs(m) \cup (IF spills THEN {<<m, "spillway">>} ELSE {})
            IN  frames' = [k \in DOMAIN frames |-> IF k \in filled THEN "data" ELSE frames[k]]
    BY <1>8 DEF Transforms
  <2>2. \E filled : /\ Outputs(m) \subseteq filled
                    /\ filled \subseteq Outputs(m) \cup {<<m, "spillway">>}
                    /\ frames' = [k \in DOMAIN frames |->
                                     IF k \in filled THEN "data" ELSE frames[k]]
    <3> DEFINE filled == Outputs(m)
                   \cup (IF /\ HasSpillway(m)
                            /\ \/ plan.type[m] = "Channel"
                               \/ plan.type[m] = "Assert" /\ quarantined
                         THEN {<<m, "spillway">>} ELSE {})
    <3>1. frames' = [k \in DOMAIN frames |-> IF k \in filled THEN "data" ELSE frames[k]]
      BY <2>1
    <3>2. Outputs(m) \subseteq filled /\ filled \subseteq Outputs(m) \cup {<<m, "spillway">>}
      OBVIOUS
    <3> HIDE DEF filled
    <3> QED
      BY <3>1, <3>2
  <2>3. \A k \in Outputs(m) \cup {<<m, "spillway">>} : k[1] = m
    BY <1>2, OutputsAreOwn DEF WalkTypes
  <2>4. FramesOf(m, "data") /\ \A k \in Outputs(m) : frames'[k] = "data"
    BY <1>2, <2>2, <2>3, Filled
  <2>5. marks' \in {marks, marks \cup {<<exec, m>>}}
    BY <1>8, Marked DEF Transforms
  <2>6. Turn(t, m, "success", "data")
    BY <1>1, <1>3, <1>8, <2>4, <2>5 DEF Turn, Transforms, Works
  <2> QED
    BY <1>1, <1>2, <2>6
<1>9. CASE FailsAlone(t, m)
  <2>1. FramesOf(m, "closed") /\ \A k \in Outputs(m) : frames'[k] = "closed"
    BY <1>2, <1>9, Delivered DEF FailsAlone
  <2>2. Turn(t, m, "error", "closed")
    BY <1>1, <1>9, <2>1 DEF Turn, FailsAlone, storeVars
  <2> QED
    BY <1>1, <1>2, <2>2
<1>10. CASE Fails(t, m)
  <2>1. \E asks \in BOOLEAN : /\ asks = (plan.policy[m] = "trigger_agent")
                              /\ SignalFail(t, m, "error", asks)
    BY <1>10 DEF Fails
  <2>2. PICK asks \in BOOLEAN : /\ asks = (plan.policy[m] = "trigger_agent")
                                /\ SignalFail(t, m, "error", asks)
    BY <2>1
  <2>3. Halt(t, m, "error", asks)
    BY <1>1, <1>10, <2>2 DEF Halt, Fails, storeVars
  <2> QED
    BY <1>1, <1>2, <2>3
<1>11. CASE Raises(t, m)
  BY <1>1, <1>2, <1>11
<1>12. CASE ProbeTurn(t, m)
  <2>1. FramesOf(m, "closed")
    BY <1>12, FramesStay DEF ProbeTurn
  <2>2. Outputs(m) = {}
    BY <1>12 DEF ProbeTurn, Outputs
  <2>3. Turn(t, m, "success", "closed")
    BY <1>1, <1>12, <2>1, <2>2 DEF Turn, ProbeTurn
  <2> QED
    BY <1>1, <1>2, <2>3
<1>13. CASE OpenGate(t, m)
  <2>1. FramesOf(m, "data") /\ \A k \in Outputs(m) : frames'[k] = "data"
    BY <1>2, <1>13, Delivered DEF OpenGate
  <2>2. Turn(t, m, "success", "data")
    BY <1>1, <1>3, <1>13, <2>1 DEF Turn, OpenGate, Works, Visits, storeVars
  <2> QED
    BY <1>1, <1>2, <2>2
<1>14. CASE CloseGate(t, m)
  <2>1. CASE plan.policy[m] = "skip"
    <3>1. FramesOf(m, "closed") /\ \A k \in Outputs(m) : frames'[k] = "closed"
      BY <1>2, <1>14, <2>1, Delivered DEF CloseGate
    <3>2. Turn(t, m, "skipped", "closed")
      BY <1>1, <1>14, <2>1, <3>1 DEF Turn, CloseGate, storeVars
    <3> QED
      BY <1>1, <1>2, <3>2
  <2>2. CASE plan.policy[m] # "skip"
    <3>1. \E asks \in BOOLEAN : /\ asks = (plan.policy[m] = "trigger_agent")
                                /\ SignalFail(t, m, "error", asks)
      BY <1>14, <2>2 DEF CloseGate
    <3>2. PICK asks \in BOOLEAN : /\ asks = (plan.policy[m] = "trigger_agent")
                                  /\ SignalFail(t, m, "error", asks)
      BY <3>1
    <3>3. Halt(t, m, "error", asks)
      BY <1>1, <1>14, <2>2, <3>2 DEF Halt, CloseGate, storeVars
    <3> QED
      BY <1>1, <1>2, <3>3
  <2> QED
    BY <2>1, <2>2
<1>15. CASE WriteSink(t, m)
  BY <1>1, <1>2, <1>15
<1>16. CASE MarkSink(t, m)
  <2>1. FramesOf(m, "closed")
    BY <1>16, FramesStay DEF MarkSink
  <2>2. plan.type[m] = "Egress" /\ Outputs(m) = {}
    <3>1. plan.type[m] = "Egress"
      BY <1>16 DEF MarkSink, WalkTypes
    <3> QED
      BY <3>1 DEF Outputs
  <2>3. marks' \in {marks, marks \cup {<<exec, m>>}}
    BY <1>16, Marked DEF MarkSink
  <2>4. Turn(t, m, "success", "closed")
    BY <1>1, <1>16, <2>1, <2>2, <2>3 DEF Turn, MarkSink
  <2> QED
    BY <1>1, <1>2, <2>4
<1> QED
  BY <1>4, <1>5, <1>6, <1>7, <1>8, <1>9, <1>10, <1>11, <1>12, <1>13, <1>14, <1>15, <1>16

-----------------------------------------------------------------------------
(* A turn.                                                                 *)

\* It takes one module off what is left and keeps the types and the order.
LEMMA TurnKeepsTypes ==
    ASSUME WalkTypes, TodoInOrder, NEW t \in Threads(plan), NEW m \in t \cap Ids(plan),
           NEW status, NEW value, Turn(t, m, status, value)
    PROVE  /\ WalkTypes' /\ TodoInOrder'
           /\ m \in Left /\ Left' = Left \ {m}
           /\ \A x \in Ids(plan) : results'[x] = IF x = m THEN status ELSE results[x]
<1>1. /\ plan' = plan /\ exec' = exec /\ source' = source /\ phase' = phase
      /\ cancel' = cancel /\ agent' = agent /\ raised' = raised /\ writes' = writes
      /\ writing' \subseteq writing /\ todo[t] # <<>> /\ m = Head(todo[t])
      /\ todo' = [todo EXCEPT ![t] = Tail(@)] /\ results' = [results EXCEPT ![m] = status]
      /\ status \in Statuses
  BY DEF Turn, Visited, Statuses
<1>2. /\ todo' \in [Threads(plan) -> Seq(Ids(plan))] /\ TodoInOrder'
      /\ m \in Left /\ Left' = Left \ {m}
  BY <1>1, ThreadGoesOn
<1>3. /\ results' \in [Ids(plan) -> Statuses]
      /\ \A x \in Ids(plan) : results'[x] = IF x = m THEN status ELSE results[x]
  BY <1>1 DEF WalkTypes
<1>4. frames' \in [Keys(plan) -> {"absent", "closed", "data"}]
  BY DEF Turn, FramesOf
<1>5. marks' \subseteq (1..exec) \X Ids(plan)
  <2>1. exec \in Nat /\ exec >= 1 /\ marks \subseteq (1..exec) \X Ids(plan)
    BY DEF WalkTypes
  <2>2. <<exec, m>> \in (1..exec) \X Ids(plan)
    BY <2>1
  <2>3. marks' = marks \/ marks' = marks \cup {<<exec, m>>}
    BY DEF Turn
  <2> QED
    BY <2>1, <2>2, <2>3
<1>6. WalkTypes'
  BY <1>1, <1>2, <1>3, <1>4, <1>5 DEF WalkTypes
<1> QED
  BY <1>2, <1>3, <1>6

\* Nothing that explains the status is lost.
LEMMA TurnKeepsStatus ==
    ASSUME WalkTypes, TodoInOrder, NEW t \in Threads(plan), NEW m \in t \cap Ids(plan),
           NEW status, NEW value, Turn(t, m, status, value), StatusInv, phase = "running"
    PROVE  StatusInv'
<1>1. /\ plan' = plan /\ phase' = phase /\ cancel' = cancel /\ agent' = agent
      /\ raised' = raised /\ todo[t] # <<>> /\ todo' = [todo EXCEPT ![t] = Tail(@)]
      /\ status \in {"success", "skipped", "error"}
      /\ status = "error" => plan.policy[m] = "alert_only"
  BY DEF Turn, Visited
<1>2. /\ Left' = Left \ {m}
      /\ \A x \in Ids(plan) : results'[x] = IF x = m THEN status ELSE results[x]
  BY TurnKeepsTypes
<1>3. Ids(plan') = Ids(plan) /\ Threads(plan') = Threads(plan)
  BY <1>1
<1>4. QuietWalk'
  <2> SUFFICES ASSUME ~cancel
               PROVE  /\ phase # "raised" => raised = {}
                      /\ \A x \in Ids(plan) :
                             /\ results'[x] # "missing"
                             /\ results'[x] = "error" => plan.policy[x] = "alert_only"
                             /\ results'[x] = "none" => x \in Left'
    BY <1>1, <1>3 DEF QuietWalk
  <2>1. /\ phase # "raised" => raised = {}
        /\ \A x \in Ids(plan) : /\ results[x] # "missing"
                                /\ results[x] = "error" => plan.policy[x] = "alert_only"
                                /\ results[x] = "none" => x \in Left
    BY DEF StatusInv, QuietWalk
  <2> QED
    BY <1>1, <1>2, <2>1
<1>5. ASSUME NEW kinds, NEW asks \in BOOLEAN, StoppedAt(kinds, asks)
      PROVE  StoppedAt(kinds, asks)'
  <2>0. PICK u \in Threads(plan) : \E x \in u \cap Ids(plan) :
            todo[u] = <<>> /\ results[x] \in kinds /\ (asks => plan.policy[x] = "trigger_agent")
    BY <1>5 DEF StoppedAt
  <2>1. PICK x \in u \cap Ids(plan) :
            todo[u] = <<>> /\ results[x] \in kinds /\ (asks => plan.policy[x] = "trigger_agent")
    BY <2>0
  <2>2. u # t
    BY <1>1, <2>1
  <2>3. x # m
    BY <2>1, <2>2, PlanFacts DEF WalkTypes
  <2>4. todo'[u] = <<>> /\ results'[x] \in kinds
    BY <1>1, <1>2, <2>1, <2>2, <2>3 DEF WalkTypes
  <2> QED
    BY <1>1, <1>3, <2>1, <2>4 DEF StoppedAt
<1>6. FailureKept'
  <2>1. StoppedAt({"error", "missing"}, FALSE) => StoppedAt({"error", "missing"}, FALSE)'
    BY <1>5
  <2> QED
    BY <1>1, <2>1 DEF StatusInv, FailureKept
<1>7. AgentKept'
  <2>1. StoppedAt({"error"}, TRUE) => StoppedAt({"error"}, TRUE)'
    BY <1>5
  <2> QED
    BY <1>1, <2>1 DEF StatusInv, AgentKept
<1>8. EndsAsItWent'
  BY <1>1 DEF EndsAsItWent
<1> QED
  BY <1>4, <1>6, <1>7, <1>8 DEF StatusInv

\* New data is of the module whose turn it was, made of data that stays.
LEMMA TurnKeepsData ==
    ASSUME WalkTypes, TodoInOrder, NEW t \in Threads(plan), NEW m \in t \cap Ids(plan),
           NEW status, NEW value, Turn(t, m, status, value), DataInv
    PROVE  DataInv'
<1>1. /\ plan' = plan /\ exec' = exec /\ raised' = raised /\ writes' = writes
      /\ reloaded \subseteq reloaded'
      /\ value = "data" =>
           /\ status = "success"
           /\ m \in reloaded' \/ \A i \in Inputs(m) : frames[Key(i)] = "data"
      /\ \A k \in Keys(plan) : frames'[k] = frames[k] \/ (k[1] = m /\ frames'[k] = value)
  BY DEF Turn, FramesOf
<1>2. /\ m \in Left /\ Left' = Left \ {m}
      /\ \A x \in Ids(plan) : results'[x] = IF x = m THEN status ELSE results[x]
  BY TurnKeepsTypes
<1>3. Keys(plan') = Keys(plan) /\ Ids(plan') = Ids(plan)
  BY <1>1
<1>4. \A x \in Ids(plan) : Inputs(x)' = Inputs(x)
  BY <1>1 DEF Inputs
<1>5. \A i : Key(i)' = Key(i)
  BY <1>1 DEF Key
<1>6. \A k \in Keys(plan) : k[1] \in Ids(plan)
  <2>1. \A e \in Flow(plan) : e.from \in Ids(plan)
    BY PlanFacts DEF WalkTypes
  <2> QED
    BY <2>1 DEF Keys
<1>7. \A k \in Keys(plan) : frames[k] = "data" => k[1] # m /\ frames'[k] = "data"
  BY <1>1, <1>2 DEF DataInv, DataProduced
<1>8. \A x \in Ids(plan) : \A i \in Inputs(x) : Key(i) \in Keys(plan)
  BY InputsAreEdges DEF WalkTypes
<1>9. DataProduced'
  <2> SUFFICES ASSUME NEW k \in Keys(plan), frames'[k] = "data"
               PROVE  k[1] \notin Left' /\ (\/ results'[k[1]] = "success"
                                            \/ \E u \in raised' : k[1] \in u)
    BY <1>3 DEF DataProduced, Succeeded
  <2>1. CASE frames[k] = "data"
    BY <1>1, <1>2, <1>6, <1>7, <2>1 DEF DataInv, DataProduced, Succeeded
  <2>2. CASE frames[k] # "data"
    BY <1>1, <1>2, <2>2
  <2> QED
    BY <2>1, <2>2
<1>10. DataFed'
  <2> SUFFICES ASSUME NEW k \in Keys(plan), frames'[k] = "data", k[1] \notin reloaded',
                      NEW i \in Inputs(k[1])
               PROVE  frames'[Key(i)] = "data"
    BY <1>3, <1>4, <1>5, <1>6 DEF DataFed
  <2>1. frames[Key(i)] = "data"
    <3>1. CASE frames[k] = "data"
      BY <1>1, <3>1 DEF DataInv, DataFed
    <3>2. CASE frames[k] # "data"
      BY <1>1, <3>2
    <3> QED
      BY <3>1, <3>2
  <2> QED
    BY <1>6, <1>7, <1>8, <2>1
<1>11. WritesFed'
  <2> SUFFICES ASSUME NEW x \in Ids(plan), <<exec, x>> \in writes, NEW i \in Inputs(x)
               PROVE  frames'[Key(i)] = "data"
    BY <1>1, <1>3, <1>4, <1>5 DEF WritesFed
  <2> QED
    BY <1>7, <1>8 DEF DataInv, WritesFed
<1> QED
  BY <1>9, <1>10, <1>11 DEF DataInv

\* A turn marks the running execution, never the resumed one.
LEMMA TurnKeepsSinks ==
    ASSUME WalkTypes, NEW t, NEW m, NEW status, NEW value, Turn(t, m, status, value),
           ResumeKeepsCompletedSinks
    PROVE  ResumeKeepsCompletedSinks'
<1>1. /\ plan' = plan /\ exec' = exec /\ source' = source /\ writes' = writes
      /\ \A x : <<source, x>> \in marks' => <<source, x>> \in marks \/ source = exec
  BY DEF Turn
<1>2. source # exec
  BY DEF WalkTypes
<1> QED
  BY <1>1, <1>2 DEF ResumeKeepsCompletedSinks

\* A Probe that has its turn reports; a gate leaves no marker.
LEMMA TurnKeepsGate ==
    ASSUME WalkTypes, TodoInOrder, NEW t \in Threads(plan), NEW m \in t \cap Ids(plan),
           NEW status, NEW value, Turn(t, m, status, value), GateInv
    PROVE  GateInv'
<1>1. /\ plan' = plan /\ cancel' = cancel
      /\ plan.type[m] = "Regulator" => marks' = marks
      /\ marks' \in {marks, marks \cup {<<exec, m>>}}
      /\ (plan.type[m] = "Probe" /\ ~cancel /\ m \in Included[plan]) => status = "success"
  BY DEF Turn
<1>2. /\ Left' = Left \ {m}
      /\ \A x \in Ids(plan) : results'[x] = IF x = m THEN status ELSE results[x]
  BY TurnKeepsTypes
<1>3. \A w \in marks' : plan.type[w[2]] # "Regulator"
  <2>1. \A w \in marks : plan.type[w[2]] # "Regulator"
    BY DEF GateInv
  <2>2. <<exec, m>>[2] = m
    OBVIOUS
  <2> QED
    BY <1>1, <2>1, <2>2
<1>4. ASSUME ~cancel, NEW q \in Ids(plan), plan.type[q] = "Probe", q \in Included[plan],
             q \notin Left'
      PROVE  results'[q] = "success"
  BY <1>1, <1>2, <1>4 DEF GateInv
<1> QED
  BY <1>1, <1>3, <1>4 DEF GateInv

\* Whoever had its turn leaves frames behind, and frames that starved a module
\* are of modules that had theirs.
LEMMA TurnKeepsServed ==
    ASSUME WalkTypes, TodoInOrder, NEW t \in Threads(plan), NEW m \in t \cap Ids(plan),
           NEW status, NEW value, Turn(t, m, status, value), PortsServed, StarvedInv
    PROVE  StarvedInv'
<1>1. /\ plan \in Plans /\ plan' = plan /\ cancel' = cancel
      /\ value \in {"closed", "data"} /\ status # "missing"
      /\ (~cancel /\ m \in Included[plan]) => \A k \in Outputs(m) : frames'[k] = value
      /\ \A k \in Keys(plan) : frames'[k] = frames[k] \/ (k[1] = m /\ frames'[k] = value)
  BY DEF Turn, FramesOf, WalkTypes
<1>2. /\ m \in Left /\ Left' = Left \ {m}
      /\ \A x \in Ids(plan) : results'[x] = IF x = m THEN status ELSE results[x]
  BY TurnKeepsTypes
<1>3. \A x \in Ids(plan) : Inputs(x)' = Inputs(x)
  BY <1>1 DEF Inputs
<1>4. \A i : Key(i)' = Key(i)
  BY <1>1 DEF Key
<1>5. Served'
  <2> SUFFICES ASSUME ~cancel, NEW e \in Flow(plan), e.from \notin Left',
                      e.port # "spillway", e.from \in Included[plan]
               PROVE  frames'[<<e.from, e.port>>] # "absent"
    BY <1>1 DEF Served
  <2>1. <<e.from, e.port>> \in Keys(plan) /\ e.from \in Ids(plan)
    BY <1>1, PlanFacts DEF Keys
  <2>2. CASE e.from \notin Left
    <3>1. frames[<<e.from, e.port>>] # "absent"
      BY <2>2 DEF StarvedInv, Served
    <3> QED
      BY <1>1, <2>1, <3>1
  <2>3. CASE e.from = m
    <3>1. /\ plan.type[m] \notin {"Egress", "Probe"}
          /\ plan.type[m] # "Junction" => e.port = "main"
      BY <1>1, <2>3 DEF PortsServed
    <3>2. <<e.from, e.port>> \in Outputs(m)
      BY <2>3, <3>1 DEF Outputs
    <3> QED
      BY <1>1, <2>3, <3>2
  <2> QED
    BY <1>2, <2>2, <2>3
<1>6. MissingTold'
  <2> SUFFICES ASSUME NEW x \in Ids(plan), results'[x] = "missing", Inputs(x) # {}
               PROVE  \E i \in Inputs(x) :
                         /\ frames'[Key(i)] = "absent" /\ Key(i)[1] \notin Left'
                         /\ Key(i)[2] = "spillway" \/ Key(i)[1] \notin Included[plan]
    BY <1>1, <1>3, <1>4 DEF MissingTold
  <2>1. results[x] = "missing"
    BY <1>1, <1>2
  <2>2. PICK i \in Inputs(x) :
            /\ frames[Key(i)] = "absent" /\ Key(i)[1] \notin Left
            /\ Key(i)[2] = "spillway" \/ Key(i)[1] \notin Included[plan]
    BY <2>1 DEF StarvedInv, MissingTold
  <2>3. Key(i) \in Keys(plan)
    BY <1>1, InputsAreEdges
  <2>4. frames'[Key(i)] = "absent" /\ Key(i)[1] \notin Left'
    BY <1>1, <1>2, <2>2, <2>3
  <2> QED
    BY <2>2, <2>4
<1> QED
  BY <1>5, <1>6 DEF StarvedInv

-----------------------------------------------------------------------------
(* A halt, an exception and the write of a sink.                           *)

\* Who halts leaves the rest of its thread without a result.
LEMMA HaltKeepsTypes ==
    ASSUME WalkTypes, TodoInOrder, NEW t \in Threads(plan), NEW m \in t \cap Ids(plan),
           NEW status, NEW asks, Halt(t, m, status, asks)
    PROVE  /\ WalkTypes' /\ TodoInOrder'
           /\ m \in Left /\ Left' \subseteq Left /\ todo'[t] = <<>>
           /\ \A u \in Threads(plan) : todo[u] = <<>> => todo'[u] = <<>>
           /\ \A x \in Ids(plan) : results'[x] = IF x = m THEN status ELSE results[x]
<1>1. /\ plan' = plan /\ exec' = exec /\ source' = source /\ phase' = phase
      /\ raised' = raised /\ writes' = writes /\ marks' = marks /\ frames' = frames
      /\ writing' = writing /\ todo[t] # <<>> /\ m = Head(todo[t]) /\ cancel' = TRUE
      /\ todo' = [todo EXCEPT ![t] = <<>>] /\ results' = [results EXCEPT ![m] = status]
      /\ status \in Statuses
  BY DEF Halt, SignalFail, Statuses
<1>2. /\ todo' \in [Threads(plan) -> Seq(Ids(plan))] /\ TodoInOrder'
      /\ Left' \subseteq Left
  BY <1>1, ThreadStops
<1>3. m \in Left
  <2>1. todo[t] \in Seq(Ids(plan)) /\ \A i, j \in DOMAIN todo[t] : todo[t][i] = todo[t][j] => i = j
    BY DEF WalkTypes, TodoInOrder, EndOf
  <2>2. m \in Range(todo[t])
    BY <1>1, <2>1, HeadOnce
  <2> QED
    BY <2>2 DEF Left
<1>4. /\ results' \in [Ids(plan) -> Statuses]
      /\ \A x \in Ids(plan) : results'[x] = IF x = m THEN status ELSE results[x]
  BY <1>1 DEF WalkTypes
<1>5. /\ todo'[t] = <<>>
      /\ \A u \in Threads(plan) : todo[u] = <<>> => todo'[u] = <<>>
  BY <1>1 DEF WalkTypes
<1>6. agent' \in {"unset", "yes", "no"}
  BY DEF Halt, SignalFail, WalkTypes
<1>7. WalkTypes'
  BY <1>1, <1>2, <1>4, <1>6 DEF WalkTypes
<1> QED
  BY <1>2, <1>3, <1>4, <1>5, <1>7

\* It is what the status and the flag for the agent are accounted for by.
LEMMA HaltKeepsStatus ==
    ASSUME WalkTypes, TodoInOrder, NEW t \in Threads(plan), NEW m \in t \cap Ids(plan),
           NEW status, NEW asks, Halt(t, m, status, asks), StatusInv, phase = "running"
    PROVE  StatusInv'
<1>1. /\ plan' = plan /\ phase' = phase /\ raised' = raised /\ cancel' = TRUE
      /\ status \in {"error", "missing"}
      /\ asks => status = "error" /\ plan.policy[m] = "trigger_agent"
      /\ agent' = "yes" => agent = "yes" \/ asks
  BY DEF Halt, SignalFail
<1>2. /\ m \in Left /\ todo'[t] = <<>>
      /\ \A u \in Threads(plan) : todo[u] = <<>> => todo'[u] = <<>>
      /\ \A x \in Ids(plan) : results'[x] = IF x = m THEN status ELSE results[x]
  BY HaltKeepsTypes
<1>3. Ids(plan') = Ids(plan) /\ Threads(plan') = Threads(plan)
  BY <1>1
<1>4. QuietWalk'
  BY <1>1 DEF QuietWalk
<1>5. FailureKept'
  <2>1. StoppedAt({"error", "missing"}, FALSE)'
    BY <1>1, <1>2, <1>3 DEF StoppedAt
  <2> QED
    BY <2>1 DEF FailureKept
<1>6. AgentKept'
  <2>1. CASE agent = "yes" /\ raised = {}
    <3>1. PICK u \in Threads(plan) : \E x \in u \cap Ids(plan) :
              todo[u] = <<>> /\ results[x] = "error" /\ plan.policy[x] = "trigger_agent"
      BY <2>1 DEF StatusInv, AgentKept, StoppedAt
    <3>2. PICK x \in u \cap Ids(plan) :
              todo[u] = <<>> /\ results[x] = "error" /\ plan.policy[x] = "trigger_agent"
      BY <3>1
    <3>3. u # t
      BY <3>2 DEF Halt
    <3>4. x # m
      BY <3>2, <3>3, PlanFacts DEF WalkTypes
    <3>5. todo'[u] = <<>> /\ results'[x] = "error"
      BY <1>2, <3>2, <3>4
    <3> QED
      BY <1>1, <1>3, <3>2, <3>5 DEF AgentKept, StoppedAt
  <2>2. CASE asks
    BY <1>1, <1>2, <1>3, <2>2 DEF AgentKept, StoppedAt
  <2> QED
    BY <1>1, <2>1, <2>2 DEF AgentKept
<1>7. EndsAsItWent'
  BY <1>1 DEF EndsAsItWent
<1> QED
  BY <1>4, <1>5, <1>6, <1>7 DEF StatusInv

\* It leaves all frames alone, and its own hold no data.
LEMMA HaltKeepsData ==
    ASSUME WalkTypes, TodoInOrder, NEW t \in Threads(plan), NEW m \in t \cap Ids(plan),
           NEW status, NEW asks, Halt(t, m, status, asks), DataInv
    PROVE  DataInv'
<1>1. /\ plan' = plan /\ exec' = exec /\ raised' = raised /\ writes' = writes
      /\ frames' = frames /\ reloaded' = reloaded
  BY DEF Halt
<1>2. /\ m \in Left /\ Left' \subseteq Left
      /\ \A x \in Ids(plan) : results'[x] = IF x = m THEN status ELSE results[x]
  BY HaltKeepsTypes
<1>3. \A k \in Keys(plan) : k[1] \in Ids(plan)
  <2>1. \A e \in Flow(plan) : e.from \in Ids(plan)
    BY PlanFacts DEF WalkTypes
  <2> QED
    BY <2>1 DEF Keys
<1>4. DataProduced'
  BY <1>1, <1>2, <1>3 DEF DataInv, DataProduced, Succeeded
<1>5. DataFed'
  BY <1>1 DEF DataInv, DataFed, Inputs, Key
<1>6. WritesFed'
  BY <1>1 DEF DataInv, WritesFed, Inputs, Key
<1> QED
  BY <1>4, <1>5, <1>6 DEF DataInv

\* A module starves only on a frame whose module had its turn and filled it not.
LEMMA HaltKeepsServed ==
    ASSUME WalkTypes, TodoInOrder, NEW t \in Threads(plan), NEW m \in t \cap Ids(plan),
           NEW status, NEW asks, Halt(t, m, status, asks), StarvedInv
    PROVE  StarvedInv'
<1>1. /\ plan \in Plans /\ plan' = plan /\ frames' = frames /\ cancel' = TRUE
      /\ todo[t] # <<>> /\ m = Head(todo[t])
      /\ status = "missing" => ~cancel /\ Supply(m) = "absent"
  BY DEF Halt, SignalFail, WalkTypes
<1>2. /\ Left' \subseteq Left
      /\ \A x \in Ids(plan) : results'[x] = IF x = m THEN status ELSE results[x]
  BY HaltKeepsTypes
<1>3. \A x \in Ids(plan) : Inputs(x)' = Inputs(x)
  BY <1>1 DEF Inputs
<1>4. \A i : Key(i)' = Key(i)
  BY <1>1 DEF Key
<1>5. Served'
  BY <1>1 DEF Served
<1>6. MissingTold'
  <2> SUFFICES ASSUME NEW x \in Ids(plan), results'[x] = "missing", Inputs(x) # {}
               PROVE  \E i \in Inputs(x) :
                         /\ frames[Key(i)] = "absent" /\ Key(i)[1] \notin Left
                         /\ Key(i)[2] = "spillway" \/ Key(i)[1] \notin Included[plan]
    BY <1>1, <1>2, <1>3, <1>4 DEF MissingTold
  <2>1. CASE x # m
    <3>1. results[x] = "missing"
      BY <1>2, <2>1
    <3> QED
      BY <3>1 DEF StarvedInv, MissingTold
  <2>2. CASE x = m
    <3>1. ~cancel /\ Supply(m) = "absent"
      BY <1>1, <1>2, <2>2
    <3>2. PICK i \in Inputs(m) : frames[Key(i)] = "absent"
      BY <2>2, <3>1, SupplyFacts
    <3>3. /\ plan.edges[i] \in Sorted(plan) /\ plan.edges[i] \in Flow(plan)
          /\ plan.edges[i].to = m
          /\ Key(i)[1] = plan.edges[i].from /\ Key(i)[2] = plan.edges[i].port
          /\ Key(i) = <<plan.edges[i].from, plan.edges[i].port>>
      BY <1>1, InputsAreEdges DEF Key, Sorted
    <3>4. plan.edges[i].from \notin Left
      BY <1>1, <3>3, ProducersHadTheirTurn
    <3>5. plan.edges[i].port = "spillway" \/ plan.edges[i].from \notin Included[plan]
      BY <3>1, <3>2, <3>3, <3>4 DEF StarvedInv, Served
    <3> QED
      BY <2>2, <3>2, <3>3, <3>4, <3>5
  <2> QED
    BY <2>1, <2>2
<1> QED
  BY <1>5, <1>6 DEF StarvedInv

\* A thread that dies takes its results along; a serial walk dies with it.
LEMMA RaiseKeepsTypes ==
    ASSUME WalkTypes, TodoInOrder, NEW t \in Threads(plan), NEW m \in t \cap Ids(plan),
           Raises(t, m)
    PROVE  /\ WalkTypes' /\ TodoInOrder' /\ Left' \subseteq Left
           /\ \A x \in Ids(plan) : x \notin t => results'[x] = results[x]
           /\ \A x \in Ids(plan) : results'[x] = results[x] \/ results'[x] = "none"
           /\ ~plan.parallel => /\ cancel' = cancel /\ phase' = "raised" /\ Left' = Left
                                /\ results' = results
           /\ plan.parallel => cancel' = TRUE /\ phase' = phase
<1>1. /\ plan' = plan /\ exec' = exec /\ source' = source /\ agent' = agent
      /\ raised' = raised \cup {t} /\ writes' = writes /\ marks' = marks
      /\ frames' = frames /\ writing' = writing
  BY DEF Raises, storeVars
<1>2. CASE plan.parallel
  <2>1. /\ cancel' = TRUE /\ phase' = phase /\ todo' = [todo EXCEPT ![t] = <<>>]
        /\ results' = [x \in Ids(plan) |-> IF x \in t THEN "none" ELSE results[x]]
    BY <1>2 DEF Raises
  <2>2. /\ todo' \in [Threads(plan) -> Seq(Ids(plan))] /\ TodoInOrder' /\ Left' \subseteq Left
    BY <1>1, <2>1, ThreadStops
  <2>3. results' \in [Ids(plan) -> Statuses]
    BY <2>1 DEF WalkTypes, Statuses
  <2>4. WalkTypes'
    BY <1>1, <2>1, <2>2, <2>3 DEF WalkTypes
  <2> QED
    BY <1>2, <2>1, <2>2, <2>4
<1>3. CASE ~plan.parallel
  <2>1. cancel' = cancel /\ phase' = "raised" /\ todo' = todo /\ results' = results
    BY <1>3 DEF Raises
  <2>2. Left' = Left /\ TodoInOrder'
    BY <1>1, <2>1 DEF Left, TodoInOrder
  <2>3. WalkTypes'
    BY <1>1, <2>1 DEF WalkTypes
  <2> QED
    BY <1>3, <2>1, <2>2, <2>3
<1> QED
  BY <1>2, <1>3

\* The exception is what all invariants make an allowance for.
LEMMA RaiseKeepsInvariant ==
    ASSUME WalkTypes, TodoInOrder, NEW t \in Threads(plan), NEW m \in t \cap Ids(plan),
           Raises(t, m), StatusInv, DataInv, phase = "running"
    PROVE  /\ StatusInv' /\ DataInv' /\ (GateInv => GateInv')
           /\ ResumeKeepsCompletedSinks => ResumeKeepsCompletedSinks'
           /\ StarvedInv => StarvedInv'
<1>1. /\ plan' = plan /\ exec' = exec /\ source' = source /\ agent' = agent
      /\ raised' = raised \cup {t} /\ writes' = writes /\ marks' = marks
      /\ frames' = frames /\ reloaded' = reloaded
  BY DEF Raises, storeVars
<1>2. /\ Left' \subseteq Left
      /\ \A x \in Ids(plan) : x \notin t => results'[x] = results[x]
      /\ \A x \in Ids(plan) : results'[x] = results[x] \/ results'[x] = "none"
      /\ ~plan.parallel => /\ cancel' = cancel /\ phase' = "raised" /\ Left' = Left
                           /\ results' = results
      /\ plan.parallel => cancel' = TRUE /\ phase' = phase
  BY RaiseKeepsTypes
<1>3. \A k \in Keys(plan) : k[1] \in Ids(plan)
  <2>1. \A e \in Flow(plan) : e.from \in Ids(plan)
    BY PlanFacts DEF WalkTypes
  <2> QED
    BY <2>1 DEF Keys
<1>4. StatusInv'
  <2>1. QuietWalk'
    <3>1. CASE plan.parallel
      BY <1>2, <3>1 DEF QuietWalk
    <3>2. CASE ~plan.parallel
      BY <1>1, <1>2, <3>2 DEF StatusInv, QuietWalk
    <3> QED
      BY <3>1, <3>2
  <2>2. FailureKept' /\ AgentKept'
    BY <1>1 DEF FailureKept, AgentKept
  <2>3. EndsAsItWent'
    BY <1>2 DEF EndsAsItWent
  <2> QED
    BY <2>1, <2>2, <2>3 DEF StatusInv
<1>5. DataInv'
  <2>1. DataProduced'
    BY <1>1, <1>2, <1>3 DEF DataInv, DataProduced, Succeeded
  <2>2. DataFed'
    BY <1>1 DEF DataInv, DataFed, Inputs, Key
  <2>3. WritesFed'
    BY <1>1 DEF DataInv, WritesFed, Inputs, Key
  <2> QED
    BY <2>1, <2>2, <2>3 DEF DataInv
<1>6. ResumeKeepsCompletedSinks => ResumeKeepsCompletedSinks'
  BY <1>1 DEF ResumeKeepsCompletedSinks
<1>7. StarvedInv => StarvedInv'
  <2>1. Served => Served'
    <3>1. CASE plan.parallel
      BY <1>2, <3>1 DEF Served
    <3>2. CASE ~plan.parallel
      BY <1>1, <1>2, <3>2 DEF Served
    <3> QED
      BY <3>1, <3>2
  <2>2. MissingTold => MissingTold'
    BY <1>1, <1>2 DEF MissingTold, Inputs, Key
  <2> QED
    BY <2>1, <2>2 DEF StarvedInv
<1>8. GateInv => GateInv'
  <2>1. CASE plan.parallel
    BY <1>1, <1>2, <2>1 DEF GateInv
  <2>2. CASE ~plan.parallel
    BY <1>1, <1>2, <2>2 DEF GateInv
  <2> QED
    BY <2>1, <2>2
<1> QED
  BY <1>4, <1>5, <1>6, <1>7, <1>8

\* A sink is written with data on all its inputs, and never one that the resumed
\* execution has marked.
LEMMA WriteKeepsInvariant ==
    ASSUME WalkTypes, NEW t, NEW m \in Ids(plan), WriteSink(t, m), TodoInOrder, StatusInv,
           DataInv
    PROVE  /\ WalkTypes' /\ TodoInOrder' /\ StatusInv' /\ DataInv' /\ (GateInv => GateInv')
           /\ ResumeKeepsCompletedSinks => ResumeKeepsCompletedSinks'
           /\ StarvedInv => StarvedInv'
<1>1. /\ plan' = plan /\ exec' = exec /\ source' = source /\ agent' = agent
      /\ raised' = raised /\ writes' = writes \cup {<<exec, m>>} /\ marks' = marks
      /\ frames' = frames /\ reloaded' = reloaded /\ todo' = todo /\ results' = results
      /\ phase' = phase /\ cancel' = cancel /\ writing' = writing \cup {m}
      /\ plan.type[m] = "Egress" /\ Supply(m) = "data"
      /\ ~(source # 0 /\ <<source, m>> \in marks)
  BY DEF WriteSink, Works, Visits, HasCheckpoint
<1>2. Left' = Left
  BY <1>1 DEF Left
<1>3. WalkTypes'
  <2>1. exec \in Nat /\ exec >= 1
    BY DEF WalkTypes
  <2>2. writes' \subseteq (1..exec) \X Ids(plan)
    BY <1>1, <2>1 DEF WalkTypes
  <2>3. writing' \subseteq {x \in Ids(plan) : plan.type[x] = "Egress"}
    BY <1>1 DEF WalkTypes
  <2> QED
    BY <1>1, <2>2, <2>3 DEF WalkTypes
<1>4. TodoInOrder'
  BY <1>1 DEF TodoInOrder
<1>5. StatusInv'
  <2>1. QuietWalk' /\ EndsAsItWent'
    BY <1>1, <1>2 DEF StatusInv, QuietWalk, EndsAsItWent
  <2>2. FailureKept' /\ AgentKept'
    BY <1>1 DEF StatusInv, FailureKept, AgentKept, StoppedAt
  <2> QED
    BY <2>1, <2>2 DEF StatusInv
<1>6. DataInv'
  <2>1. DataProduced'
    BY <1>1, <1>2 DEF DataInv, DataProduced, Succeeded
  <2>2. DataFed'
    BY <1>1 DEF DataInv, DataFed, Inputs, Key
  <2>3. WritesFed'
    <3>1. \A i \in Inputs(m) : frames[Key(i)] = "data"
      BY <1>1, SupplyFacts
    <3> QED
      BY <1>1, <3>1 DEF DataInv, WritesFed, Inputs, Key
  <2> QED
    BY <2>1, <2>2, <2>3 DEF DataInv
<1>7. ResumeKeepsCompletedSinks => ResumeKeepsCompletedSinks'
  BY <1>1 DEF ResumeKeepsCompletedSinks
<1>8. StarvedInv => StarvedInv'
  BY <1>1, <1>2 DEF StarvedInv, Served, MissingTold, Inputs, Key
<1>9. GateInv => GateInv'
  BY <1>1, <1>2 DEF GateInv
<1> QED
  BY <1>3, <1>4, <1>5, <1>6, <1>7, <1>8, <1>9

-----------------------------------------------------------------------------
(* The whole walk.                                                         *)

\* The state a walk starts from.
Fresh ==
    /\ plan \in Plans /\ exec \in Nat \ {0} /\ source \in 0..(exec - 1) /\ phase = "running"
    /\ todo = ThreadOrders[plan] /\ writing = {}
    /\ frames = [k \in Keys(plan) |-> "absent"]
    /\ results = [m \in Ids(plan) |-> "none"]
    /\ cancel = FALSE /\ agent = "unset" /\ raised = {}
    /\ marks \subseteq (1..exec) \X Ids(plan) /\ writes \subseteq (1..exec) \X Ids(plan)
    /\ \A m \in Ids(plan) : <<exec, m>> \notin writes
    /\ \A w \in marks : plan.type[w[2]] # "Regulator"

\* All of it is still to be done, in order.
LEMMA FreshWalk == Fresh => WalkInv /\ StarvedInv
<1> SUFFICES ASSUME Fresh PROVE WalkInv /\ StarvedInv
  OBVIOUS
<1>1. /\ todo \in [Threads(plan) -> Seq(Ids(plan))]
      /\ \A m \in Ids(plan) : \E t \in Threads(plan) : m \in Range(todo[t])
      /\ \A t \in Threads(plan) :
            /\ Range(todo[t]) \subseteq t
            /\ \A i, j \in DOMAIN todo[t] : todo[t][i] = todo[t][j] => i = j
  <2>1. plan \in Plans /\ todo = ThreadOrders[plan]
    BY DEF Fresh
  <2> QED
    BY <2>1, OrderFacts, ThreadFacts
<1>2. \A m \in Ids(plan) : m \in Left
  BY <1>1 DEF Left
<1>3. WalkTypes
  BY <1>1 DEF Fresh, WalkTypes, Statuses
<1>4. TodoInOrder
  <2> SUFFICES ASSUME NEW t \in Threads(plan)
               PROVE  EndOf(ThreadOrders[plan][t], t, todo[t])
    BY DEF TodoInOrder
  <2>1. todo[t] = ThreadOrders[plan][t] /\ todo[t] \in Seq(Ids(plan))
    BY <1>1 DEF Fresh
  <2>2. \E done \in Nat : \A i \in DOMAIN todo[t] :
            done + i \in DOMAIN todo[t] /\ todo[t][i] = todo[t][done + i]
    <3>1. 0 \in Nat /\ \A i \in DOMAIN todo[t] : 0 + i = i
      BY <2>1
    <3> QED
      BY <3>1
  <2> QED
    BY <1>1, <2>1, <2>2 DEF EndOf
<1>5. StatusInv
  BY <1>2 DEF Fresh, StatusInv, QuietWalk, FailureKept, AgentKept, EndsAsItWent
<1>6. DataInv
  BY DEF Fresh, DataInv, DataProduced, DataFed, WritesFed
<1>7. ResumeKeepsCompletedSinks
  BY DEF Fresh, ResumeKeepsCompletedSinks
<1>8. Served
  <2>1. \A e \in Flow(plan) : e.from \in Ids(plan)
    BY PlanFacts DEF Fresh
  <2> QED
    BY <1>2, <2>1 DEF Served
<1>9. MissingTold
  BY DEF Fresh, MissingTold
<1>10. GateInv
  BY <1>2 DEF Fresh, GateInv
<1> QED
  BY <1>3, <1>4, <1>5, <1>6, <1>7, <1>8, <1>9, <1>10 DEF WalkInv, StarvedInv

\* A new execution starts afresh, whatever became of the one before.
LEMMA NextWalkIsFresh ==
    ASSUME WalkTypes, GateInv, HealAgain \/ RunAgain
    PROVE  Fresh'
<1>1. /\ plan' = plan /\ exec' = exec + 1 /\ marks' = marks /\ writes' = writes
      /\ phase' = "running" /\ todo' = ThreadOrders[plan] /\ writing' = {}
      /\ frames' = [k \in Keys(plan) |-> "absent"] /\ results' = [m \in Ids(plan) |-> "none"]
      /\ cancel' = FALSE /\ agent' = "unset" /\ raised' = {}
      /\ source' \in {0} \cup 1..exec
  BY DEF HealAgain, RunAgain, StartWalk, storeVars
<1>2. /\ exec \in Nat /\ exec >= 1
      /\ marks \subseteq (1..exec) \X Ids(plan) /\ writes \subseteq (1..exec) \X Ids(plan)
  BY DEF WalkTypes
<1>3. exec' \in Nat \ {0} /\ source' \in 0..(exec' - 1)
  BY <1>1, <1>2
<1>4. (1..exec) \X Ids(plan) \subseteq (1..(exec + 1)) \X Ids(plan)
  BY <1>2
<1>5. \A m \in Ids(plan) : <<exec + 1, m>> \notin writes
  <2>1. \A m \in Ids(plan) : <<exec + 1, m>> \notin (1..exec) \X Ids(plan)
    BY <1>2
  <2> QED
    BY <1>2, <2>1
<1>6. plan \in Plans /\ \A w \in marks : plan.type[w[2]] # "Regulator"
  BY DEF WalkTypes, GateInv
<1> QED
  BY <1>1, <1>2, <1>3, <1>4, <1>5, <1>6 DEF Fresh

\* The end of the walk, a kill, an override by hand and a step of the
\* environment leave the walk itself as it is.
LEMMA QuietSteps ==
    ASSUME WalkInv, Finish \/ Killed \/ Override \/ UNCHANGED execVars
    PROVE  WalkInv' /\ (StarvedInv => StarvedInv')
<1>1. /\ plan' = plan /\ exec' = exec /\ source' = source /\ todo' = todo
      /\ writing' = writing /\ frames' = frames /\ results' = results
      /\ reloaded' = reloaded /\ cancel' = cancel /\ agent' = agent /\ raised' = raised
      /\ marks' = marks /\ writes' = writes
  BY DEF Finish, Killed, Override, execVars, walkVars, storeVars
<1>2. Left' = Left
  BY <1>1 DEF Left
<1>3. /\ phase' \in {"running", "success", "error", "raised", "killed"}
      /\ phase' # "raised" => phase # "raised"
  BY DEF Finish, Killed, Override, execVars, WalkInv, WalkTypes
<1>4. WalkTypes'
  BY <1>1, <1>3 DEF WalkInv, WalkTypes
<1>5. TodoInOrder'
  BY <1>1 DEF WalkInv, TodoInOrder
<1>6. QuietWalk'
  BY <1>1, <1>2, <1>3 DEF WalkInv, StatusInv, QuietWalk
<1>7. FailureKept' /\ AgentKept'
  BY <1>1 DEF WalkInv, StatusInv, FailureKept, AgentKept, StoppedAt
<1>8. EndsAsItWent'
  <2>1. CASE Finish
    <3>1. \A t \in Threads(plan) : Range(todo[t]) = {}
      BY <2>1 DEF Finish, WalkInv, WalkTypes, Range
    <3>2. Left = {}
      BY <3>1 DEF Left
    <3>3. phase' = IF cancel THEN "error" ELSE "success"
      BY <2>1 DEF Finish
    <3> QED
      BY <1>1, <1>2, <3>2, <3>3 DEF EndsAsItWent
  <2>2. CASE Killed
    BY <2>2 DEF Killed, EndsAsItWent
  <2>3. CASE phase' = phase
    BY <1>1, <1>2, <2>3 DEF WalkInv, StatusInv, EndsAsItWent
  <2> QED
    BY <2>1, <2>2, <2>3 DEF Override, execVars
<1>9. DataInv'
  BY <1>1, <1>2 DEF WalkInv, DataInv, DataProduced, DataFed, WritesFed, Succeeded, Inputs, Key
<1>10. ResumeKeepsCompletedSinks'
  BY <1>1 DEF WalkInv, ResumeKeepsCompletedSinks
<1>11. StarvedInv => StarvedInv'
  BY <1>1, <1>2 DEF StarvedInv, Served, MissingTold, Inputs, Key
<1>12. GateInv'
  BY <1>1, <1>2 DEF WalkInv, GateInv
<1> QED
  BY <1>4, <1>5, <1>6, <1>7, <1>8, <1>9, <1>10, <1>11, <1>12 DEF WalkInv, StatusInv

\* A step of a thread keeps the invariant.
LEMMA ThreadSteps ==
    ASSUME WalkInv, NEW t \in Threads(plan), ThreadStep(t)
    PROVE  WalkInv' /\ ((PortsServed /\ StarvedInv) => StarvedInv')
<1>1. /\ WalkTypes /\ TodoInOrder /\ StatusInv /\ DataInv /\ GateInv
      /\ ResumeKeepsCompletedSinks
  BY DEF WalkInv
<1>2. PICK m \in t :
          \/ Skip(t, m) \/ Reload(t, m) \/ Blocked(t, m) \/ Starved(t, m)
          \/ Transforms(t, m) \/ FailsAlone(t, m) \/ Fails(t, m) \/ Raises(t, m)
          \/ ProbeTurn(t, m) \/ OpenGate(t, m) \/ CloseGate(t, m)
          \/ WriteSink(t, m) \/ MarkSink(t, m)
  BY DEF ThreadStep
<1>3. /\ m \in t \cap Ids(plan) /\ phase = "running"
      /\ \/ \E status, value : Turn(t, m, status, value)
         \/ \E status, asks : Halt(t, m, status, asks)
         \/ WriteSink(t, m)
         \/ Raises(t, m)
  BY <1>1, <1>2, StepShapes
<1>4. CASE \E status, value : Turn(t, m, status, value)
  <2>1. PICK status, value : Turn(t, m, status, value)
    BY <1>4
  <2>2. WalkTypes' /\ TodoInOrder'
    BY <1>1, <1>3, <2>1, TurnKeepsTypes
  <2>3. StatusInv'
    BY <1>1, <1>3, <2>1, TurnKeepsStatus
  <2>4. DataInv'
    BY <1>1, <1>3, <2>1, TurnKeepsData
  <2>5. ResumeKeepsCompletedSinks'
    BY <1>1, <1>3, <2>1, TurnKeepsSinks
  <2>6. (PortsServed /\ StarvedInv) => StarvedInv'
    BY <1>1, <1>3, <2>1, TurnKeepsServed
  <2>7. GateInv'
    BY <1>1, <1>3, <2>1, TurnKeepsGate
  <2> QED
    BY <2>2, <2>3, <2>4, <2>5, <2>6, <2>7 DEF WalkInv
<1>5. CASE \E status, asks : Halt(t, m, status, asks)
  <2>1. PICK status, asks : Halt(t, m, status, asks)
    BY <1>5
  <2>2. WalkTypes' /\ TodoInOrder'
    BY <1>1, <1>3, <2>1, HaltKeepsTypes
  <2>3. StatusInv'
    BY <1>1, <1>3, <2>1, HaltKeepsStatus
  <2>4. DataInv'
    BY <1>1, <1>3, <2>1, HaltKeepsData
  <2>5. ResumeKeepsCompletedSinks'
    BY <1>1, <2>1 DEF Halt, ResumeKeepsCompletedSinks
  <2>6. StarvedInv => StarvedInv'
    BY <1>1, <1>3, <2>1, HaltKeepsServed
  <2>7. GateInv'
    BY <1>1, <2>1 DEF Halt, SignalFail, GateInv
  <2> QED
    BY <2>2, <2>3, <2>4, <2>5, <2>6, <2>7 DEF WalkInv
<1>6. CASE WriteSink(t, m)
  BY <1>1, <1>3, <1>6, WriteKeepsInvariant DEF WalkInv
<1>7. CASE Raises(t, m)
  <2>1. WalkTypes' /\ TodoInOrder'
    BY <1>1, <1>3, <1>7, RaiseKeepsTypes
  <2>2. /\ StatusInv' /\ DataInv' /\ GateInv' /\ ResumeKeepsCompletedSinks'
        /\ StarvedInv => StarvedInv'
    BY <1>1, <1>3, <1>7, RaiseKeepsInvariant
  <2> QED
    BY <2>1, <2>2 DEF WalkInv
<1> QED
  BY <1>3, <1>4, <1>5, <1>6, <1>7

\* Every step keeps the invariant.
LEMMA EveryStep ==
    WalkInv /\ [ExecNext]_execVars =>
        WalkInv' /\ ((PortsServed /\ StarvedInv) => StarvedInv')
<1> SUFFICES ASSUME WalkInv, [ExecNext]_execVars
             PROVE  WalkInv' /\ ((PortsServed /\ StarvedInv) => StarvedInv')
  OBVIOUS
<1>1. CASE \E t \in DOMAIN todo : ThreadStep(t)
  <2>1. DOMAIN todo = Threads(plan)
    BY DEF WalkInv, WalkTypes
  <2>2. PICK t \in Threads(plan) : ThreadStep(t)
    BY <1>1, <2>1
  <2> QED
    BY <2>2, ThreadSteps
<1>2. CASE Finish \/ Killed \/ Override \/ UNCHANGED execVars
  BY <1>2, QuietSteps
<1>3. CASE HealAgain \/ RunAgain
  <2>1. Fresh'
    BY <1>3, NextWalkIsFresh DEF WalkInv
  <2>2. Fresh => WalkInv /\ StarvedInv
    BY FreshWalk
  <2> QED
    BY <2>1, FreshWalk, PTL
<1> QED
  BY <1>1, <1>2, <1>3 DEF ExecNext

\* The first walk starts afresh too.
LEMMA FirstWalk == ExecInit => WalkInv /\ StarvedInv
<1>1. ExecInit => Fresh
  BY DEF ExecInit, Fresh
<1> QED
  BY <1>1, FreshWalk

-----------------------------------------------------------------------------
(* What is proved.                                                         *)

\* In every reachable state the types hold, what is left is in the order of the
\* edges, the status is explained, data is made of data, and no completed sink
\* is written again.
THEOREM WalkInvariant == ExecSpec => []WalkInv
<1>1. ExecInit => WalkInv
  BY FirstWalk
<1>2. WalkInv /\ [ExecNext]_execVars => WalkInv'
  BY EveryStep
<1> QED
  BY <1>1, <1>2, PTL DEF ExecSpec

\* The status execute returns is accounted for by its module results, whatever
\* the threads fail at and in whatever order.
THEOREM StatusIsAccountedFor == ExecSpec => []StatusAccountedFor
<1>1. WalkInv => StatusAccountedFor
  <2> SUFFICES ASSUME WalkInv PROVE StatusAccountedFor
    OBVIOUS
  <2>1. QuietWalk /\ FailureKept /\ AgentKept /\ EndsAsItWent
    BY DEF WalkInv, StatusInv
  <2>2. phase = "error" =>
            (raised # {} \/ \E m \in Ids(plan) : results[m] \in {"error", "missing"})
    BY <2>1 DEF FailureKept, EndsAsItWent, StoppedAt
  <2>3. phase = "success" =>
            /\ raised = {}
            /\ \A m \in Ids(plan) : /\ results[m] \notin {"none", "missing"}
                                    /\ results[m] = "error" => plan.policy[m] = "alert_only"
    BY <2>1 DEF QuietWalk, EndsAsItWent
  <2>4. (agent = "yes" /\ raised = {}) =>
            \E m \in Ids(plan) : results[m] = "error" /\ plan.policy[m] = "trigger_agent"
    BY <2>1 DEF AgentKept, StoppedAt
  <2> QED
    BY <2>2, <2>3, <2>4 DEF StatusAccountedFor
<1> QED
  BY <1>1, WalkInvariant, PTL

\* A resume gives a sink data again only if the first write was never marked,
\* for any number of executions, kills and resumes.
THEOREM CompletedSinksAreKept == ExecSpec => []ResumeKeepsCompletedSinks
<1>1. WalkInv => ResumeKeepsCompletedSinks
  BY DEF WalkInv
<1> QED
  BY <1>1, WalkInvariant, PTL

\* Data above a sink is data all the way up, as far as the frames of this
\* execution reach.
LEMMA LineageIsWhole == WalkInv => OnlyWholeLineages
<1> SUFFICES ASSUME WalkInv, NEW m \in Ids(plan), <<exec, m>> \in writes
             PROVE  \A a \in Producers(m) : Succeeded(a)
  BY DEF OnlyWholeLineages, Succeeded
<1>1. plan \in Plans /\ DataProduced /\ DataFed /\ WritesFed
  BY DEF WalkInv, WalkTypes, DataInv
<1> DEFINE S == {a \in Ids(plan) : \E k \in Keys(plan) : k[1] = a /\ frames[k] = "data"}
           read == {i \in DOMAIN plan.edges : /\ plan.edges[i].to \notin reloaded
                                              /\ i \in Inputs(plan.edges[i].to)}
           from == {plan.edges[i].from : i \in Inputs(m)}
           steps == {<<plan.edges[i].to, plan.edges[i].from>> : i \in read}
<1>2. ASSUME NEW x \in Ids(plan), NEW i \in Inputs(x), frames[Key(i)] = "data"
      PROVE  plan.edges[i].from \in S
  <2>1. Key(i) \in Keys(plan) /\ Key(i)[1] = plan.edges[i].from /\ Key(i)[1] \in Ids(plan)
    BY <1>1, InputsAreEdges
  <2> QED
    BY <1>2, <2>1
<1>3. from \subseteq S
  BY <1>1, <1>2 DEF WritesFed
<1>4. \A s \in steps : s[1] \in S => s[2] \in S
  <2> SUFFICES ASSUME NEW i \in read, plan.edges[i].to \in S
               PROVE  plan.edges[i].from \in S
    OBVIOUS
  <2>1. PICK k \in Keys(plan) : k[1] = plan.edges[i].to /\ frames[k] = "data"
    OBVIOUS
  <2>2. /\ plan.edges[i].to \in Ids(plan) /\ i \in Inputs(plan.edges[i].to)
        /\ k[1] \notin reloaded
    BY <2>1
  <2>3. frames[Key(i)] = "data"
    BY <1>1, <2>1, <2>2 DEF DataFed
  <2> QED
    BY <1>2, <2>2, <2>3
<1>5. Reach(plan, from, steps) \subseteq S
  <2> HIDE DEF from, steps, S
  <2> QED
    BY <1>1, <1>3, <1>4, ReachWithin
<1>6. Producers(m) = Reach(plan, from, steps)
  BY DEF Producers
<1>7. \A a \in S : Succeeded(a)
  BY <1>1 DEF DataProduced
<1> QED
  BY <1>5, <1>6, <1>7

\* Whoever starved reads a spillway nobody fills, or from a module that was left
\* out, or from nothing.
LEMMA StarvedIsTold == StarvedInv => StarvedOnlyWithoutProducer
BY DEF StarvedInv, MissingTold, StarvedOnlyWithoutProducer

\* A sink is only ever given data that every module above it produced.
THEOREM LineagesAreWhole == ExecSpec => []OnlyWholeLineages
BY WalkInvariant, LineageIsWhole, PTL

\* If every data edge leaves a port that its module fills, the walk also starves
\* no module of what was on its way.
THEOREM SinksAreServed == PortsServed => (ExecSpec => []SinksGetWholeLineage)
<1> SUFFICES ASSUME PortsServed PROVE ExecSpec => []SinksGetWholeLineage
  OBVIOUS
<1>1. ExecInit => WalkInv /\ StarvedInv
  BY FirstWalk
<1>2. (WalkInv /\ StarvedInv) /\ [ExecNext]_execVars => (WalkInv /\ StarvedInv)'
  BY EveryStep
<1>3. WalkInv /\ StarvedInv => SinksGetWholeLineage
  BY LineageIsWhole, StarvedIsTold DEF SinksGetWholeLineage
<1> QED
  BY <1>1, <1>2, <1>3, PTL DEF ExecSpec

-----------------------------------------------------------------------------
(* Gates.                                                                  *)

\* When it is a gate's turn, the Probes that tap what is above it had theirs.
LEMMA ProbesHadTheirTurn ==
    ASSUME WalkTypes, TodoInOrder, NEW t \in Threads(plan), todo[t] # <<>>,
           NEW r \in Ids(plan), r = Head(todo[t]), plan.type[r] = "Regulator",
           NEW q \in Ids(plan), plan.attach[q] \in Upstream[plan][r]
    PROVE  q \notin Left /\ plan.type[q] = "Probe"
<1> DEFINE order == ThreadOrders[plan][t]
           tap == plan.attach[q]
<1>1. /\ plan \in Plans /\ order \in Seq(Ids(plan)) /\ Range(order) \subseteq t
      /\ \A i, j \in DOMAIN order : order[i] = order[j] => i = j
      /\ \A e \in Flow(plan) : /\ plan.type[e.from] # "Probe"
                               /\ e.from \in Ids(plan) /\ e.to \in Ids(plan)
      /\ \A e \in Sorted(plan) : \A j \in DOMAIN order : order[j] = e.to =>
             \E i \in 1..(j - 1) : order[i] = e.from
  <2>1. plan \in Plans
    BY DEF WalkTypes
  <2> QED
    BY <2>1, OrderFacts, ThreadFacts, ProducersBefore, PlanFacts
<1>2. PICK j \in DOMAIN order : /\ order[j] = r
                                /\ \A i \in 1..(j - 1) : order[i] \in t /\ order[i] \notin Left
  BY BeforeTheHead
<1>3. j \in Nat /\ \A i \in 1..(j - 1) : i \in DOMAIN order
  BY <1>1, <1>2
<1> DEFINE S == {a \in Ids(plan) : /\ plan.type[a] # "Probe"
                                   /\ \E i \in 1..(j - 1) : order[i] = a}
<1>4. tap \in S
  <2>1. ASSUME NEW e \in Flow(plan), e.to = r \/ e.to \in S
        PROVE  e.from \in S
    <3>1. e \in Sorted(plan)
      BY <2>1 DEF Sorted
    <3>2. PICK l \in DOMAIN order : l <= j /\ order[l] = e.to
      BY <1>2, <1>3, <2>1
    <3>3. PICK i \in 1..(l - 1) : order[i] = e.from
      BY <1>1, <3>1, <3>2
    <3>4. i \in 1..(j - 1)
      BY <1>1, <1>3, <3>2, <3>3
    <3> QED
      BY <1>1, <3>3, <3>4
  <2> DEFINE from == {e.from : e \in {d \in Flow(plan) : d.to = r}}
  <2>2. from \subseteq S
    BY <2>1
  <2>3. \A s \in Precedes(plan) : s[1] \in S => s[2] \in S
    BY <2>1 DEF Precedes
  <2>4. Reach(plan, from, Precedes(plan)) \subseteq S
    <3> HIDE DEF from, S
    <3> QED
      BY <1>1, <2>2, <2>3, ReachWithin
  <2>5. Upstream[plan][r] = Reach(plan, from, Precedes(plan))
    BY <1>1 DEF Upstream
  <2> QED
    BY <2>4, <2>5
<1>5. PICK i \in 1..(j - 1) : order[i] = tap /\ tap \in Ids(plan) /\ plan.type[tap] # "Probe"
  BY <1>4
<1>6. plan.type[q] = "Probe"
  BY <1>1, <1>5, PlanFacts
<1>7. PICK u \in Threads(plan) : q \in Range(ThreadOrders[plan][u])
  BY <1>1, OrderFacts
<1>8. PICK l \in DOMAIN ThreadOrders[plan][u] : ThreadOrders[plan][u][l] = q
  BY <1>7 DEF Range
<1>9. PICK h \in 1..(l - 1) :
          /\ ThreadOrders[plan][u][h] = tap
          /\ \A k \in (h + 1)..(l - 1) : plan.attach[ThreadOrders[plan][u][k]] = tap
  <2>1. plan.attach[ThreadOrders[plan][u][l]] = tap
    BY <1>8
  <2>2. tap \in Ids(plan) /\ plan.type[tap] # "Probe"
    BY <1>5
  <2>3. \E h \in 1..(l - 1) :
            /\ ThreadOrders[plan][u][h] = tap
            /\ \A x \in (h + 1)..(l - 1) : plan.attach[ThreadOrders[plan][u][x]] = tap
    <3> HIDE DEF tap
    <3>1. plan \in Plans /\ u \in Threads(plan) /\ l \in DOMAIN ThreadOrders[plan][u]
      BY <1>1, <1>7, <1>8
    <3> QED
      BY <2>1, <2>2, <3>1, ProbesBehind
  <2> QED
    BY <2>3
<1>10. ThreadOrders[plan][u] \in Seq(Ids(plan)) /\ Range(ThreadOrders[plan][u]) \subseteq u
  BY <1>1, ThreadFacts
<1>11. u = t
  <2>1. h \in DOMAIN ThreadOrders[plan][u]
    BY <1>8, <1>9, <1>10
  <2>2. tap \in u
    BY <1>9, <1>10, <2>1 DEF Range
  <2>3. tap \in t
    BY <1>2, <1>5
  <2> QED
    BY <1>1, <2>2, <2>3, PlanFacts
<1>12. h = i
  BY <1>1, <1>3, <1>5, <1>8, <1>9, <1>10, <1>11
<1>13. l # j
  BY <1>2, <1>6, <1>8, <1>11
<1>14. ~(j \in (h + 1)..(l - 1))
  <2> SUFFICES ASSUME j \in (h + 1)..(l - 1) PROVE FALSE
    OBVIOUS
  <2>1. plan.attach[r] = tap
    BY <1>2, <1>9, <1>11
  <2>2. plan.type[r] = "Probe"
    BY <1>1, <1>5, <2>1, PlanFacts
  <2> QED
    BY <2>2
<1>15. l \in 1..(j - 1)
  <2>1. l \in Nat /\ l >= 1 /\ i < j /\ i \in Nat
    BY <1>3, <1>5, <1>8, <1>10
  <2> QED
    BY <1>3, <1>12, <1>13, <1>14, <2>1
<1>16. q \notin Left
  BY <1>2, <1>8, <1>11, <1>15
<1> QED
  BY <1>6, <1>16

\* An open gate goes by the Probe wired to it.
LEMMA OpenGateHeard ==
    ASSUME OneProbePerGate, WalkTypes, NEW r \in Ids(plan), NEW q \in Ids(plan),
           GateOpen(r), Wires(q, r)
    PROVE  <<outer, q>> \notin signals
<1> DEFINE wired == {i \in DOMAIN plan.edges : /\ plan.edges[i].to = r
                                               /\ plan.edges[i].port = "signal"}
<1>1. plan \in Plans /\ plan.edges \in Seq(Range(plan.edges))
  BY ExecutorAssumption DEF WalkTypes
<1>2. PICK e \in Range(plan.edges) : e.from = q /\ e.to = r /\ e.port = "signal"
  BY DEF Wires
<1>3. wired # {}
  <2>1. PICK i \in DOMAIN plan.edges : plan.edges[i] = e
    BY <1>2 DEF Range
  <2> QED
    BY <1>2, <2>1
<1>4. wired \in SUBSET (1..Len(plan.edges)) /\ Len(plan.edges) \in Nat
  BY <1>1
<1>5. PICK i \in wired : \A j \in wired : i <= j
  <2> HIDE DEF wired
  <2> QED
    BY <1>3, <1>4, FirstPosition
<1>6. plan.edges[i] \in Range(plan.edges)
  BY <1>5 DEF Range
<1>7. plan.edges[i].from = q
  BY <1>1, <1>2, <1>5, <1>6 DEF OneProbePerGate
<1>8. <<outer, plan.edges[i].from>> \notin signals
  BY <1>5 DEF GateOpen
<1> QED
  BY <1>7, <1>8

\* If every gate goes by one Probe, a gate opens only after the Probe above it
\* has had its turn in this execution and left no failing signal.
THEOREM GatesHearTheirProbe == OneProbePerGate => (ExecSpec => GateSeesUpstreamProbe)
<1> SUFFICES ASSUME OneProbePerGate PROVE ExecSpec => GateSeesUpstreamProbe
  OBVIOUS
<1>1. WalkInv /\ [ExecNext]_execVars => [OpensOnVerdict]_execVars
  <2> SUFFICES ASSUME WalkInv, ExecNext, NEW r \in Ids(plan), NEW q \in Ids(plan),
                      plan.type[r] = "Regulator", exec = outer, exec' = exec,
                      Opened(r), Wires(q, r), plan.attach[q] \in Upstream[plan][r],
                      q \in Included[plan]
               PROVE  results[q] = "success" /\ <<exec, q>> \notin signals
    BY DEF OpensOnVerdict
  <2>1. /\ WalkTypes /\ TodoInOrder /\ GateInv
        /\ results[r] # "success" /\ results'[r] = "success"
    BY DEF WalkInv, Opened
  <2>2. CASE \E t \in DOMAIN todo : ThreadStep(t)
    <3>1. PICK t \in Threads(plan) : ThreadStep(t)
      BY <2>1, <2>2 DEF WalkTypes
    <3>2. PICK m \in t :
              \/ Skip(t, m) \/ Reload(t, m) \/ Blocked(t, m) \/ Starved(t, m)
              \/ Transforms(t, m) \/ FailsAlone(t, m) \/ Fails(t, m) \/ Raises(t, m)
              \/ ProbeTurn(t, m) \/ OpenGate(t, m) \/ CloseGate(t, m)
              \/ WriteSink(t, m) \/ MarkSink(t, m)
      BY <3>1 DEF ThreadStep
    <3>3. /\ m \in t \cap Ids(plan) /\ todo[t] # <<>> /\ m = Head(todo[t])
          /\ \/ \E status, value : Turn(t, m, status, value)
             \/ \E status, asks : Halt(t, m, status, asks)
             \/ WriteSink(t, m)
             \/ Raises(t, m)
      BY <2>1, <3>2, StepShapes
    <3>4. CASE \E status, value : Turn(t, m, status, value)
      <4>1. PICK status, value : Turn(t, m, status, value)
        BY <3>4
      <4>2. \A x \in Ids(plan) : results'[x] = IF x = m THEN status ELSE results[x]
        BY <2>1, <3>3, <4>1, TurnKeepsTypes
      <4>3. r = m /\ status = "success"
        BY <2>1, <4>2
      <4>4. ~cancel /\ (GateOpen(r) \/ HasCheckpoint(r))
        BY <4>1, <4>3 DEF Turn
      <4>5. ~HasCheckpoint(r)
        <5>1. HasCheckpoint(r) => <<source, r>> \in marks /\ <<source, r>>[2] = r
          BY DEF HasCheckpoint
        <5> QED
          BY <2>1, <5>1 DEF GateInv
      <4>6. q \notin Left /\ plan.type[q] = "Probe"
        BY <2>1, <3>3, <4>3, ProbesHadTheirTurn
      <4>7. results[q] = "success"
        BY <2>1, <4>4, <4>6 DEF GateInv
      <4> QED
        BY <2>1, <4>4, <4>5, <4>7, OpenGateHeard
    <3>5. CASE \E status, asks : Halt(t, m, status, asks)
      <4>1. PICK status, asks : Halt(t, m, status, asks)
        BY <3>5
      <4>2. \A x \in Ids(plan) : results'[x] = IF x = m THEN status ELSE results[x]
        BY <2>1, <3>3, <4>1, HaltKeepsTypes
      <4> QED
        BY <2>1, <4>1, <4>2 DEF Halt
    <3>6. CASE WriteSink(t, m)
      BY <2>1, <3>6 DEF WriteSink
    <3>7. CASE Raises(t, m)
      <4>1. \A x \in Ids(plan) : results'[x] = results[x] \/ results'[x] = "none"
        BY <2>1, <3>3, <3>7, RaiseKeepsTypes
      <4> QED
        BY <2>1, <4>1
    <3> QED
      BY <3>3, <3>4, <3>5, <3>6, <3>7
  <2>3. CASE Finish \/ Killed \/ Override
    BY <2>1, <2>3 DEF Finish, Killed, Override, walkVars
  <2>4. CASE HealAgain \/ RunAgain
    <3>1. exec' = exec + 1 /\ exec \in Nat
      BY <2>1, <2>4 DEF HealAgain, RunAgain, StartWalk, WalkTypes
    <3> QED
      BY <3>1
  <2> QED
    BY <2>2, <2>3, <2>4 DEF ExecNext
<1> QED
  BY <1>1, WalkInvariant, PTL DEF ExecSpec, GateSeesUpstreamProbe
=============================================================================
