--------------------------- MODULE FoldInduction ---------------------------
(***************************************************************************)
(* Induction along a FoldLeft.  The step and what is shown of the states   *)
(* are parameters of the module, and c is whatever both depend on: a       *)
(* module that folds takes an instance with its own step and predicate.    *)
(***************************************************************************)
EXTENDS Naturals, SequencesExt, WellFoundedInduction, TLAPS

CONSTANTS
    step(_, _, _),      \* step(c, st, x)
    Holds(_, _, _)      \* Holds(c, k, st): after k elements the state may be st

Folded(c, base, seq) == FoldLeft(LAMBDA st, x : step(c, st, x), base, seq)

\* What is passed on from each number to the next, up to n, reaches n.
LEMMA CountUp ==
    ASSUME NEW n \in Nat, NEW S, 0 \in S, \A k \in 0..(n - 1) : k \in S => k + 1 \in S
    PROVE  n \in S
<1> DEFINE T == {k \in 0..n : k \notin S}
           R == {p \in Nat \X Nat : p[1] < p[2]}
<1>1. SUFFICES ASSUME n \notin S PROVE FALSE
  OBVIOUS
<1>2. T \subseteq Nat /\ T # {}
  BY <1>1
<1>3. PICK x \in T : \A y \in T : ~ (<<y, x>> \in R)
  <2>1. IsWellFoundedOn(R, Nat)
    BY NatLessThanWellFounded DEF OpToRel
  <2> HIDE DEF T, R
  <2> QED
    BY <1>2, <2>1, WFMin
<1>4. x - 1 \in 0..(n - 1)
  BY <1>3
<1>5. x - 1 \notin T
  <2>1. <<x - 1, x>> \in R
    BY <1>4
  <2> QED
    BY <1>3, <2>1
<1> QED
  BY <1>3, <1>4, <1>5

\* A nonempty set of positions has a last one.
LEMMA LastOne ==
    ASSUME NEW n \in Nat, NEW s \in SUBSET (1..n), s # {}
    PROVE  Max(s) \in s /\ \A y \in s : Max(s) >= y
<1> DEFINE T == {n - x : x \in s}
           R == {p \in Nat \X Nat : p[1] < p[2]}
<1>1. T \subseteq Nat /\ T # {}
  <2>1. \A x \in s : x \in 1..n /\ n - x \in Nat
    OBVIOUS
  <2> QED
    BY <2>1
<1>2. PICK t \in T : \A y \in T : ~ (<<y, t>> \in R)
  <2>1. IsWellFoundedOn(R, Nat)
    BY NatLessThanWellFounded DEF OpToRel
  <2> HIDE DEF T, R
  <2> QED
    BY <1>1, <2>1, WFMin
<1>3. PICK x \in s : t = n - x
  BY <1>2
<1>4. \A y \in s : x >= y
  <2> SUFFICES ASSUME NEW y \in s, y > x PROVE FALSE
    OBVIOUS
  <2>1. n - y \in T /\ n - y < t
    BY <1>3
  <2>2. <<n - y, t>> \in R
    BY <1>1, <2>1
  <2> QED
    BY <1>2, <2>1, <2>2
<1> QED
  BY <1>4 DEF Max

\* The recursion a fold is defined by, on the sets of the first k positions.
Fold(c, base, seq, S, f) ==
    f = [s \in SUBSET S |->
            IF s = {} THEN base ELSE step(c, f[s \ {Max(s)}], seq[Max(s)])]

LEMMA FoldExists ==
    ASSUME NEW c, NEW base, NEW seq, NEW n \in Nat
    PROVE  \E f : Fold(c, base, seq, 1..n, f)
<1> DEFINE S == {k \in 0..n : \E f : Fold(c, base, seq, 1..k, f)}
<1>1. 0 \in S
  <2> DEFINE f == [s \in SUBSET (1..0) |-> base]
  <2>1. f = [s \in SUBSET (1..0) |->
                IF s = {} THEN base ELSE step(c, f[s \ {Max(s)}], seq[Max(s)])]
    OBVIOUS
  <2> QED
    BY <2>1 DEF Fold
<1>2. ASSUME NEW k \in 0..(n - 1), k \in S
      PROVE  k + 1 \in S
  <2>1. PICK f : Fold(c, base, seq, 1..k, f)
    BY <1>2
  <2> DEFINE g == [s \in SUBSET (1..(k + 1)) |->
                      IF s \in SUBSET (1..k) THEN f[s]
                      ELSE step(c, f[s \ {k + 1}], seq[k + 1])]
  <2>2. ASSUME NEW s \in SUBSET (1..(k + 1))
        PROVE  g[s] = IF s = {} THEN base ELSE step(c, g[s \ {Max(s)}], seq[Max(s)])
    <3>1. CASE s = {}
      BY <2>1, <3>1 DEF Fold
    <3>2. CASE s # {} /\ s \in SUBSET (1..k)
      <4>1. s \ {Max(s)} \in SUBSET (1..k)
        BY <3>2
      <4>2. g[s] = f[s] /\ g[s \ {Max(s)}] = f[s \ {Max(s)}]
        BY <3>2, <4>1
      <4>3. f[s] = step(c, f[s \ {Max(s)}], seq[Max(s)])
        BY <2>1, <3>2 DEF Fold
      <4> HIDE DEF g
      <4> QED
        BY <3>2, <4>2, <4>3
    <3>3. CASE s \notin SUBSET (1..k)
      <4>1. k + 1 \in s
        BY <3>3
      <4>2. Max(s) = k + 1
        <5>1. k + 1 \in Nat /\ s # {}
          BY <4>1
        <5>2. Max(s) \in s /\ Max(s) >= k + 1
          BY <4>1, <5>1, LastOne
        <5>3. Max(s) \in 1..(k + 1)
          BY <5>2
        <5> QED
          BY <5>2, <5>3
      <4>3. s \ {k + 1} \in SUBSET (1..k)
        OBVIOUS
      <4>4. g[s \ {k + 1}] = f[s \ {k + 1}]
        BY <4>3
      <4>5. g[s] = step(c, f[s \ {k + 1}], seq[k + 1])
        BY <3>3
      <4> HIDE DEF g
      <4> QED
        BY <4>1, <4>2, <4>4, <4>5
    <3> QED
      BY <3>1, <3>2, <3>3
  <2>3. Fold(c, base, seq, 1..(k + 1), g)
    BY <2>2 DEF Fold
  <2> QED
    BY <2>3
<1> HIDE DEF S
<1>3. n \in S
  BY <1>1, <1>2, CountUp
<1> QED
  BY <1>3 DEF S

\* The fold is what that recursion gives for all positions.
LEMMA FoldIs ==
    ASSUME NEW c, NEW base, NEW seq, NEW n \in Nat, DOMAIN seq = 1..n
    PROVE  \E f : /\ Fold(c, base, seq, 1..n, f)
                  /\ Folded(c, base, seq) = f[1..n]
<1> DEFINE F == CHOOSE f : Fold(c, base, seq, DOMAIN seq, f)
<1>1. Folded(c, base, seq) = F[DOMAIN seq]
  BY Zenon DEF Folded, FoldLeft, MapThenFoldSet, Fold
<1>2. \E f : Fold(c, base, seq, DOMAIN seq, f)
  BY FoldExists
<1>3. Fold(c, base, seq, DOMAIN seq, F)
  BY <1>2
<1> HIDE DEF F
<1> QED
  BY <1>1, <1>3

\* What holds of the base and is passed on by every step holds of the fold.
THEOREM FoldLeftInduction ==
    ASSUME NEW c, NEW base, NEW seq, NEW n \in Nat, DOMAIN seq = 1..n,
           Holds(c, 0, base),
           \A k \in 0..(n - 1) : \A st :
               Holds(c, k, st) => Holds(c, k + 1, step(c, st, seq[k + 1]))
    PROVE  Holds(c, n, Folded(c, base, seq))
<1>1. PICK f : /\ Fold(c, base, seq, 1..n, f)
               /\ Folded(c, base, seq) = f[1..n]
  BY FoldIs
<1> DEFINE S == {k \in 0..n : Holds(c, k, f[1..k])}
<1>2. 0 \in S
  <2>1. f[1..0] = base
    <3>1. 1..0 = {}
      OBVIOUS
    <3> QED
      BY <1>1, <3>1 DEF Fold
  <2> QED
    BY <2>1
<1>3. ASSUME NEW k \in 0..(n - 1), k \in S
      PROVE  k + 1 \in S
  <2>1. 1..(k + 1) \in SUBSET (1..n)
    OBVIOUS
  <2>2. Max(1..(k + 1)) = k + 1
    <3>1. k + 1 \in Nat /\ k + 1 \in 1..(k + 1)
      OBVIOUS
    <3>2. Max(1..(k + 1)) \in 1..(k + 1) /\ Max(1..(k + 1)) >= k + 1
      BY <3>1, LastOne
    <3> QED
      BY <3>1, <3>2
  <2>3. (1..(k + 1)) \ {k + 1} = 1..k
    OBVIOUS
  <2>4. f[1..(k + 1)] = step(c, f[1..k], seq[k + 1])
    <3>1. k + 1 \in 1..(k + 1)
      OBVIOUS
    <3> QED
      BY <1>1, <2>1, <2>2, <2>3, <3>1 DEF Fold
  <2>5. Holds(c, k, f[1..k])
    BY <1>3
  <2>6. Holds(c, k + 1, f[1..(k + 1)])
    BY <2>4, <2>5
  <2> QED
    BY <2>6
<1> HIDE DEF S
<1>4. n \in S
  BY <1>2, <1>3, CountUp
<1> QED
  BY <1>1, <1>4 DEF S

=============================================================================
