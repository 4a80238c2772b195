---------------------------- MODULE PipelineProofs ----------------------------
(***************************************************************************)
(* Two parts of a pipeline, for every size of it.                          *)
(*                                                                         *)
(* SessionViews: what the session's catalog guarantees to every number of  *)
(* threads, with any statements, attempts and executions.  One inductive   *)
(* invariant, ViewsInv, is about the frame a thread may find under a name  *)
(* it has registered and about who will drop a name that is registered.    *)
(*                                                                         *)
(* BlueprintCompile: the parser's verdict on every graph.  Kahn's rounds   *)
(* leave something over exactly if a link closes a cycle; both the rounds  *)
(* and the closure they are compared with are folds (FoldInduction).       *)
(***************************************************************************)
EXTENDS SessionViews, BlueprintCompile, FiniteSetTheorems, WellFoundedInduction, TLAPS

-----------------------------------------------------------------------------
(* SessionViews: the invariant.                                            *)

Places == {"module", "drop", "create", "query", "clean", "over"}
Frames == Nat \X ViewNames

\* The statements of a thread.
Mine(t) == {manifest[t][i] : i \in DOMAIN manifest[t]}

Active(t) == place[t] \in {"drop", "create", "query", "clean"}

ViewsTypeOK ==
    /\ manifest \in Manifests
    /\ exec \in Nat
    /\ views \in [AllNames -> Frames \cup {NoView}]
    /\ queue \in [Threads -> Seq(Statements)]
    /\ place \in [Threads -> Places]
    /\ step \in [Threads -> Nat]
    /\ answered \in [Threads -> BOOLEAN]

\* What a thread has in hand is a statement of its own, and a name of it.
InHand ==
    \A t \in Threads :
        /\ \A i \in DOMAIN queue[t] : queue[t][i] \in Mine(t)
        /\ Active(t) => queue[t] # <<>> /\ step[t] \in DOMAIN NamesOf(Statement(t))

Alone(t) == Threads = {t}

\* A name is gone, or stands for a frame of this execution, and of this
\* statement if nobody else uses the name.
Apart(t, n) ==
    views[n] # NoView =>
        /\ views[n][1] = exec
        /\ Alone(t) \/ n \notin SharedNames => views[n] = Own(Statement(t), n)

\* The names a thread has registered in this attempt.
ThreadApart(t) ==
    /\ place[t] \in {"drop", "create"} =>
          \A i \in DOMAIN NamesOf(Statement(t)) :
              i < step[t] => Apart(t, NamesOf(Statement(t))[i])
    /\ place[t] = "query" => \A n \in NamesIn(Statement(t)) : Apart(t, n)

RegisteredApart == \A t \in Threads : ThreadApart(t)

\* The thread will yet drop the name.
WillDrop(t, n) ==
    \/ place[t] \in {"drop", "create", "query"} /\ n \in NamesIn(Statement(t))
    \/ /\ place[t] = "clean"
       /\ \E i \in DOMAIN NamesOf(Statement(t)) : i >= step[t] /\ NamesOf(Statement(t))[i] = n

SomebodyDrops ==
    died = {} => \A n \in AllNames : views[n] # NoView => \E t \in Threads : WillDrop(t, n)

ViewsInv ==
    ViewsTypeOK /\ InHand /\ RegisteredApart /\ SomebodyDrops /\ ForeignOnlyUnderSharedName

-----------------------------------------------------------------------------

\* A statement has a name at least, and knows where its first upstream is.
LEMMA NamesTyped ==
    ASSUME NEW s \in Statements
    PROVE  /\ NamesOf(s) \in Seq(ViewNames) /\ Len(NamesOf(s)) >= 1
           /\ NamesIn(s) \subseteq ViewNames
           /\ s.inputs[1] \in ViewNames
<1>1. s.inputs \in Seq(ViewNames) /\ s.inputs # <<>>
  BY DEF Statements
<1>2. s.inputs[1] \in ViewNames
  BY <1>1
<1>3. NamesOf(s) \in Seq(ViewNames) /\ Len(NamesOf(s)) >= 1
  <2>1. Alias \in ViewNames /\ MergeSource \in ViewNames
    BY DEF ViewNames, SharedNames
  <2>2. <<Alias>> \in Seq(ViewNames) /\ <<MergeSource>> \in Seq(ViewNames) /\ Len(<<MergeSource>>) = 1
    <3>1. \A x \in ViewNames : <<x>> \in Seq(ViewNames) /\ Len(<<x>>) = 1
      OBVIOUS
    <3> QED BY <2>1, <3>1
  <2>3. s.inputs \o <<Alias>> \in Seq(ViewNames) /\ Len(s.inputs \o <<Alias>>) = Len(s.inputs) + 1
    BY <1>1, <2>2
  <2>4. Len(s.inputs) \in Nat /\ Len(s.inputs) >= 1
    BY <1>1
  <2> QED BY <1>1, <2>2, <2>3, <2>4 DEF NamesOf
<1> QED BY <1>2, <1>3 DEF NamesIn

\* Threads and their statements.
LEMMA ManifestFacts ==
    ASSUME ViewsTypeOK
    PROVE  /\ IsFiniteSet(Threads)
           /\ \A t \in Threads :
                /\ Mine(t) \subseteq Statements
                /\ \A s \in Mine(t) : /\ s.reads \subseteq NamesIn(s)
                                      /\ NamesIn(s) \subseteq AllNames
                /\ \A u \in Threads \ {t} : \A s \in Mine(t), r \in Mine(u) :
                       NamesIn(s) \cap NamesIn(r) \subseteq SharedNames
<1>1. /\ manifest \in Manifests /\ IsFiniteSet(Threads)
      /\ manifest \in [Threads -> Seq(Statements)]
  BY ViewsAssumption DEF ViewsTypeOK, Threads
<1>2. ASSUME NEW t \in Threads
      PROVE  /\ Mine(t) \subseteq Statements
             /\ \A s \in Mine(t) : /\ s.reads \subseteq NamesIn(s)
                                   /\ NamesIn(s) \subseteq AllNames
             /\ \A u \in Threads \ {t} : \A s \in Mine(t), r \in Mine(u) :
                    NamesIn(s) \cap NamesIn(r) \subseteq SharedNames
  <2>1. manifest[t] \in Seq(Statements)
    BY <1>1
  <2>2. Mine(t) \subseteq Statements
    BY <2>1 DEF Mine
  <2>3. \A s \in Mine(t) : s.reads \subseteq NamesIn(s)
    BY <1>1, ViewsAssumption DEF Mine, Threads
  <2>4. \A s \in Mine(t) : NamesIn(s) \subseteq AllNames
    BY DEF Mine, AllNames, NamesOfThread
  <2>5. \A u \in Threads \ {t} : \A s \in Mine(t), r \in Mine(u) :
            NamesIn(s) \cap NamesIn(r) \subseteq SharedNames
    BY <1>1, ViewsAssumption DEF Mine, Threads
  <2> QED BY <2>2, <2>3, <2>4, <2>5
<1> QED BY <1>1, <1>2

\* What a thread in the middle of a statement has in hand.
LEMMA HandFacts ==
    ASSUME ViewsTypeOK, InHand, NEW t \in Threads, Active(t)
    PROVE  /\ Statement(t) \in Statements /\ Statement(t) \in Mine(t)
           /\ NamesOf(Statement(t)) \in Seq(ViewNames)
           /\ step[t] \in 1..Len(NamesOf(Statement(t)))
           /\ NamesIn(Statement(t)) \subseteq AllNames
           /\ Name(t) \in NamesIn(Statement(t))
           /\ Statement(t).reads \subseteq NamesIn(Statement(t))
           /\ \A n \in NamesIn(Statement(t)) :
                 /\ Own(Statement(t), n) \in Frames
                 /\ Own(Statement(t), n) # NoView
                 /\ Own(Statement(t), n)[1] = exec
<1>1. queue[t] # <<>> /\ queue[t] \in Seq(Statements) /\ step[t] \in DOMAIN NamesOf(Statement(t))
  BY DEF InHand, ViewsTypeOK
<1>2. Statement(t) = queue[t][1] /\ 1 \in DOMAIN queue[t]
  BY <1>1 DEF Statement
<1>3. Statement(t) \in Mine(t)
  BY <1>2 DEF InHand
<1>4. Statement(t) \in Statements /\ NamesIn(Statement(t)) \subseteq AllNames
      /\ Statement(t).reads \subseteq NamesIn(Statement(t))
  BY <1>3, ManifestFacts
<1>5. /\ NamesOf(Statement(t)) \in Seq(ViewNames) /\ NamesIn(Statement(t)) \subseteq ViewNames
      /\ Statement(t).inputs[1] \in ViewNames
  BY <1>4, NamesTyped
<1>6. step[t] \in 1..Len(NamesOf(Statement(t)))
  BY <1>1, <1>5
<1>7. Name(t) \in NamesIn(Statement(t))
  BY <1>1 DEF Name, NamesIn
<1>8. \A n \in NamesIn(Statement(t)) :
         /\ Own(Statement(t), n) \in Frames
         /\ Own(Statement(t), n) # NoView
         /\ Own(Statement(t), n)[1] = exec
  BY <1>5, ViewsAssumption DEF Own, Frames, ViewsTypeOK
<1> QED BY <1>3, <1>4, <1>5, <1>6, <1>7, <1>8

\* What a step leaves as it is: the manifest, and with it threads and names.
LEMMA ManifestKept ==
    ASSUME [ViewsNext]_viewsVars
    PROVE  /\ manifest' = manifest /\ Threads' = Threads /\ AllNames' = AllNames
           /\ \A t \in Threads : Mine(t)' = Mine(t)
<1>1. manifest' = manifest
  BY DEF ViewsNext, viewsVars, threadVars, Leave, Begin, DropOld, CreateView, CreateFails,
         RunQuery, Clean, ExecuteAgain
<1> QED BY <1>1 DEF Threads, AllNames, NamesOfThread, Mine

\* Where a thread goes.
LEMMA GoTyped ==
    ASSUME ViewsTypeOK, NEW t \in Threads, NEW p \in Places, NEW n \in Nat, Go(t, p, n)
    PROVE  /\ place' \in [Threads -> Places] /\ step' \in [Threads -> Nat]
           /\ place'[t] = p /\ step'[t] = n
           /\ \A u \in Threads \ {t} : place'[u] = place[u] /\ step'[u] = step[u]
  BY DEF Go, ViewsTypeOK

\* Every step keeps the types.
LEMMA TypesKept ==
    ASSUME ViewsTypeOK, InHand, [ViewsNext]_viewsVars
    PROVE  ViewsTypeOK'
<1>0. manifest' = manifest /\ Threads' = Threads /\ AllNames' = AllNames
  BY ManifestKept
<1> USE <1>0
<1> USE DEF At, ViewsTypeOK, Places
<1>1. ASSUME NEW t \in Threads, Leave(t) PROVE ViewsTypeOK'
  BY <1>1, GoTyped DEF Leave
<1>2. ASSUME NEW t \in Threads, Begin(t) PROVE ViewsTypeOK'
  BY <1>2, GoTyped DEF Begin
<1>3. ASSUME NEW t \in Threads, DropOld(t) PROVE ViewsTypeOK'
  BY <1>3, GoTyped DEF DropOld
<1>4. ASSUME NEW t \in Threads, CreateView(t) PROVE ViewsTypeOK'
  <2>1. Active(t)
    BY <1>4 DEF CreateView, Active
  <2>2. Own(Statement(t), Name(t)) \in Frames
    BY <2>1, HandFacts
  <2>3. Go(t, "query", 1) \/ Go(t, "drop", step[t] + 1)
    BY <1>4 DEF CreateView
  <2>4. place' \in [Threads -> Places] /\ step' \in [Threads -> Nat]
    BY <2>3, GoTyped
  <2> QED BY <1>4, <2>2, <2>4 DEF CreateView
<1>5. ASSUME NEW t \in Threads, CreateFails(t) PROVE ViewsTypeOK'
  <2>1. Go(t, "drop", 1) \/ Go(t, "over", 1)
    BY <1>5 DEF CreateFails, Retry
  <2>2. place' \in [Threads -> Places] /\ step' \in [Threads -> Nat]
    BY <2>1, GoTyped
  <2> QED BY <1>5, <2>2 DEF CreateFails
<1>6. ASSUME NEW t \in Threads, RunQuery(t) PROVE ViewsTypeOK'
  BY <1>6, GoTyped DEF RunQuery
<1>7. ASSUME NEW t \in Threads, Clean(t) PROVE ViewsTypeOK'
  <2>1. queue[t] \in Seq(Statements) /\ queue[t] # <<>>
    BY <1>7 DEF Clean, InHand, Active
  <2>2. Tail(queue[t]) \in Seq(Statements)
    BY <2>1
  <2>3. \/ Go(t, "clean", step[t] + 1) \/ Go(t, "module", 1)
        \/ Go(t, "drop", 1) \/ Go(t, "over", 1)
    BY <1>7 DEF Clean, Retry
  <2>4. place' \in [Threads -> Places] /\ step' \in [Threads -> Nat]
    BY <2>3, GoTyped
  <2>5. queue' = queue \/ queue' = [queue EXCEPT ![t] = Tail(queue[t])]
    BY <1>7 DEF Clean
  <2> QED BY <1>7, <2>2, <2>4, <2>5 DEF Clean
<1>8. CASE ExecuteAgain
  <2>1. manifest \in [Threads -> Seq(Statements)]
    BY ViewsAssumption DEF Threads
  <2> QED BY <1>8, <2>1 DEF ExecuteAgain
<1>9. CASE UNCHANGED viewsVars
  BY <1>9 DEF viewsVars, threadVars
<1> QED
  BY <1>1, <1>2, <1>3, <1>4, <1>5, <1>6, <1>7, <1>8, <1>9 DEF ViewsNext

\* A thread that stays with its statement need only find a name of it.
LEMMA SameStatement ==
    ASSUME ViewsTypeOK, InHand, Threads' = Threads, \A u \in Threads : Mine(u)' = Mine(u),
           NEW t \in Threads, NEW p \in Places, NEW n \in Nat, Go(t, p, n), queue' = queue,
           queue[t] # <<>>, n \in DOMAIN NamesOf(Statement(t))
    PROVE  InHand'
<1>1. /\ place'[t] = p /\ step'[t] = n
      /\ \A u \in Threads \ {t} : place'[u] = place[u] /\ step'[u] = step[u]
  BY GoTyped
<1>2. \A u \in Threads : Statement(u)' = Statement(u)
  BY DEF Statement
<1> QED BY <1>1, <1>2 DEF InHand, Active

\* Every step leaves a thread with a statement of its own and a name of it.
LEMMA HandKept ==
    ASSUME ViewsTypeOK, InHand, [ViewsNext]_viewsVars
    PROVE  InHand'
<1>0. Threads' = Threads /\ \A t \in Threads : Mine(t)' = Mine(t)
  BY ManifestKept
<1> USE <1>0
<1> USE DEF Go, At, Retry, ViewsTypeOK, InHand, Active, Statement
<1>1. ASSUME NEW t \in Threads, Leave(t) PROVE InHand'
  BY <1>1 DEF Leave
<1>2. ASSUME NEW t \in Threads, Begin(t) PROVE InHand'
  <2>1. queue[t] \in Seq(Statements) /\ queue[t] # <<>>
    BY <1>2 DEF Begin
  <2>2. 1 \in DOMAIN NamesOf(Statement(t))
    <3>1. 1 \in DOMAIN queue[t] /\ Statement(t) = queue[t][1]
      BY <2>1
    <3>2. Statement(t) \in Statements
      BY <2>1, <3>1
    <3> QED BY <3>2, NamesTyped
  <2> QED BY <1>2, <2>1, <2>2 DEF Begin
<1>3. ASSUME NEW t \in Threads, DropOld(t) PROVE InHand'
  BY <1>3 DEF DropOld
<1>4. ASSUME NEW t \in Threads, CreateView(t) PROVE InHand'
  <2>1. step[t] \in 1..Len(NamesOf(Statement(t))) /\ NamesOf(Statement(t)) \in Seq(ViewNames)
    BY <1>4, HandFacts DEF CreateView
  <2>2. ~LastName(t) => step[t] + 1 \in DOMAIN NamesOf(Statement(t))
    BY <2>1 DEF LastName
  <2>3. 1 \in DOMAIN NamesOf(Statement(t))
    BY <2>1
  <2>4. \/ Go(t, "query", 1)
        \/ Go(t, "drop", step[t] + 1) /\ ~LastName(t)
    BY <1>4 DEF CreateView
  <2>5. queue' = queue /\ queue[t] # <<>>
    BY <1>4 DEF CreateView
  <2>6. "query" \in Places /\ "drop" \in Places /\ step[t] + 1 \in Nat
    BY DEF Places
  <2> HIDE DEF InHand, Go, Active, Statement, ViewsTypeOK
  <2> QED BY <2>2, <2>3, <2>4, <2>5, <2>6, SameStatement
<1>5. ASSUME NEW t \in Threads, CreateFails(t) PROVE InHand'
  <2>1. step[t] \in 1..Len(NamesOf(Statement(t))) /\ NamesOf(Statement(t)) \in Seq(ViewNames)
    BY <1>5, HandFacts DEF CreateFails
  <2>2. 1 \in DOMAIN NamesOf(Statement(t))
    BY <2>1
  <2>3. Go(t, "drop", 1) \/ Go(t, "over", 1)
    BY <1>5 DEF CreateFails
  <2>4. queue' = queue /\ queue[t] # <<>>
    BY <1>5 DEF CreateFails
  <2>5. "over" \in Places /\ "drop" \in Places
    BY DEF Places
  <2> HIDE DEF InHand, Go, Active, Statement, ViewsTypeOK
  <2> QED BY <2>2, <2>3, <2>4, <2>5, SameStatement
<1>6. ASSUME NEW t \in Threads, RunQuery(t) PROVE InHand'
  <2>1. step[t] \in 1..Len(NamesOf(Statement(t))) /\ NamesOf(Statement(t)) \in Seq(ViewNames)
    BY <1>6, HandFacts DEF RunQuery
  <2>2. 1 \in DOMAIN NamesOf(Statement(t))
    BY <2>1
  <2> QED BY <1>6, <2>2 DEF RunQuery
<1>7. ASSUME NEW t \in Threads, Clean(t) PROVE InHand'
  <2>1. step[t] \in 1..Len(NamesOf(Statement(t))) /\ NamesOf(Statement(t)) \in Seq(ViewNames)
    BY <1>7, HandFacts DEF Clean
  <2>2. ~LastName(t) => step[t] + 1 \in DOMAIN NamesOf(Statement(t))
    BY <2>1 DEF LastName
  <2>3. 1 \in DOMAIN NamesOf(Statement(t))
    BY <2>1
  <2>4. \A i \in DOMAIN Tail(queue[t]) : Tail(queue[t])[i] \in Mine(t)
    <3>1. queue[t] \in Seq(Statements) /\ queue[t] # <<>>
      BY <1>7 DEF Clean
    <3>2. \A i \in DOMAIN Tail(queue[t]) : i + 1 \in DOMAIN queue[t] /\ Tail(queue[t])[i] = queue[t][i + 1]
      BY <3>1
    <3> QED BY <3>2
  <2>5. \A u \in Threads : Mine(u)' = Mine(u)
    BY ManifestKept
  <2>6. CASE queue' = queue
    BY <1>7, <2>2, <2>3, <2>5, <2>6 DEF Clean
  <2>7. CASE queue' # queue
    <3>1. place'[t] = "module" /\ queue' = [queue EXCEPT ![t] = Tail(@)]
          /\ place' = [place EXCEPT ![t] = "module"] /\ step' = [step EXCEPT ![t] = 1]
      BY <1>7, <2>7 DEF Clean
    <3> QED BY <2>4, <2>5, <3>1
  <2> QED BY <2>6, <2>7
<1>8. CASE ExecuteAgain
  <2>1. \A t \in Threads : \A i \in DOMAIN manifest[t] : manifest[t][i] \in Mine(t)
    BY DEF Mine
  <2> QED BY <1>8, <2>1 DEF ExecuteAgain
<1>9. CASE UNCHANGED viewsVars
  BY <1>9 DEF viewsVars, threadVars
<1> QED
  BY <1>1, <1>2, <1>3, <1>4, <1>5, <1>6, <1>7, <1>8, <1>9 DEF ViewsNext

\* What one thread does to a name, dropping or registering it, leaves those of
\* the others apart: who else uses the name is not alone with it.
LEMMA OthersApart ==
    ASSUME ViewsTypeOK, InHand, NEW t \in Threads, NEW u \in Threads \ {t}, Active(t),
           Threads' = Threads, exec' = exec,
           queue'[u] = queue[u], place'[u] = place[u], step'[u] = step[u],
           NEW v \in {NoView, Own(Statement(t), Name(t))},
           views' = [views EXCEPT ![Name(t)] = v], ThreadApart(u)
    PROVE  ThreadApart(u)'
<1>1. Statement(u)' = Statement(u)
  BY DEF Statement
<1>2. \A n : Own(Statement(u), n)' = Own(Statement(u), n)
  BY <1>1 DEF Own
<1>3. ASSUME NEW n \in NamesIn(Statement(u)), Active(u), Apart(u, n) PROVE Apart(u, n)'
  <2>1. n \in AllNames /\ Name(t) \in AllNames /\ views \in [AllNames -> Frames \cup {NoView}]
    BY <1>3, HandFacts DEF ViewsTypeOK
  <2>2. CASE n # Name(t)
    BY <1>2, <1>3, <2>1, <2>2 DEF Apart, Alone
  <2>3. CASE n = Name(t)
    <3>1. n \in SharedNames
      BY <1>3, <2>3, HandFacts, ManifestFacts
    <3>2. ~Alone(u)'
      BY DEF Alone
    <3>3. views'[n] = v /\ (v # NoView => v[1] = exec)
      BY <2>1, <2>3, HandFacts
    <3> QED BY <3>1, <3>2, <3>3 DEF Apart
  <2> QED BY <2>2, <2>3
<1>4. \A i \in DOMAIN NamesOf(Statement(u)) : NamesOf(Statement(u))[i] \in NamesIn(Statement(u))
  BY DEF NamesIn
<1>5. CASE place[u] \in {"drop", "create"}
  <2> SUFFICES ASSUME NEW i \in DOMAIN NamesOf(Statement(u)), i < step[u]
               PROVE  Apart(u, NamesOf(Statement(u))[i])'
    BY <1>1, <1>5 DEF ThreadApart
  <2>1. Active(u) /\ Apart(u, NamesOf(Statement(u))[i])
    BY <1>5 DEF ThreadApart, Active
  <2>2. \A n \in NamesIn(Statement(u)) : Apart(u, n) => Apart(u, n)'
    BY <1>3, <2>1
  <2> DEFINE n == NamesOf(Statement(u))[i]
  <2>3. n \in NamesIn(Statement(u)) /\ n' = n
    BY <1>1, <1>4
  <2>4. Apart(u, n)
    BY <2>1
  <2> HIDE DEF n
  <2>5. views'[n] # NoView => /\ views'[n][1] = exec'
                              /\ Alone(u)' \/ n \notin SharedNames => views'[n] = Own(Statement(u), n)'
    BY <2>2, <2>3, <2>4 DEF Apart
  <2> QED BY <2>3, <2>5 DEF Apart, n
<1>6. CASE place[u] = "query"
  <2>1. Active(u) /\ \A n \in NamesIn(Statement(u)) : Apart(u, n)
    BY <1>6 DEF ThreadApart, Active
  <2>2. \A n \in NamesIn(Statement(u)) : Apart(u, n)'
    BY <1>3, <2>1
  <2>3. NamesIn(Statement(u))' = NamesIn(Statement(u))
    BY <1>1
  <2> QED BY <1>6, <2>2, <2>3 DEF ThreadApart
<1>7. CASE place[u] \notin {"drop", "create", "query"}
  BY <1>7 DEF ThreadApart
<1> QED BY <1>5, <1>6, <1>7

\* A thread that does nothing stays apart if the catalog is as it was.
LEMMA IdleApart ==
    ASSUME NEW u \in Threads, Threads' = Threads, exec' = exec, views' = views,
           queue'[u] = queue[u], place'[u] = place[u], step'[u] = step[u], ThreadApart(u)
    PROVE  ThreadApart(u)'
<1>1. Statement(u)' = Statement(u)
  BY DEF Statement
<1>2. NamesIn(Statement(u))' = NamesIn(Statement(u))
  BY <1>1
<1> QED BY <1>1, <1>2 DEF ThreadApart, Apart, Alone, Own

\* Every step leaves what a thread has registered apart.
LEMMA RegisteredKept ==
    ASSUME ViewsTypeOK, InHand, RegisteredApart, [ViewsNext]_viewsVars
    PROVE  RegisteredApart'
<1>0. Threads' = Threads
  BY ManifestKept
<1>a. \A t \in Threads : ThreadApart(t)
  BY DEF RegisteredApart
<1>1. ASSUME NEW t \in Threads, Leave(t) PROVE RegisteredApart'
  <2>g. \E p \in Places, n \in Nat : Go(t, p, n)
    BY <1>1 DEF Leave, Places
  <2>m. \A u \in Threads \ {t} : place'[u] = place[u] /\ step'[u] = step[u]
    BY <2>g, GoTyped
  <2>a. \A u \in Threads \ {t} : ThreadApart(u)'
    BY <1>1, <1>0, <1>a, <2>m, IdleApart DEF Leave
  <2>b. ThreadApart(t)'
    BY <1>1 DEF Leave, Go, ViewsTypeOK, ThreadApart
  <2> QED BY <1>0, <2>a, <2>b DEF RegisteredApart
<1>2. ASSUME NEW t \in Threads, Begin(t) PROVE RegisteredApart'
  <2>g. \E p \in Places, n \in Nat : Go(t, p, n)
    BY <1>2 DEF Begin, Places
  <2>m. \A u \in Threads \ {t} : place'[u] = place[u] /\ step'[u] = step[u]
    BY <2>g, GoTyped
  <2>a. \A u \in Threads \ {t} : ThreadApart(u)'
    BY <1>2, <1>0, <1>a, <2>m, IdleApart DEF Begin
  <2>b. ThreadApart(t)'
    <3>1. place'[t] = "drop" /\ step'[t] = 1 /\ queue' = queue
      BY <1>2 DEF Begin, Go, ViewsTypeOK
    <3>2. queue[t] \in Seq(Statements) /\ queue[t] # <<>>
      BY <1>2 DEF Begin, ViewsTypeOK
    <3>3. Statement(t) \in Statements /\ Statement(t)' = Statement(t)
      BY <3>1, <3>2 DEF Statement
    <3>4. NamesOf(Statement(t)) \in Seq(ViewNames)
      BY <3>3, NamesTyped
    <3>5. \A i \in DOMAIN NamesOf(Statement(t)) : ~(i < 1)
      BY <3>4
    <3> QED BY <3>1, <3>3, <3>5 DEF ThreadApart
  <2> QED BY <1>0, <2>a, <2>b DEF RegisteredApart
<1>3. ASSUME NEW t \in Threads, DropOld(t) PROVE RegisteredApart'
  <2>g. \E p \in Places, n \in Nat : Go(t, p, n)
    BY <1>3 DEF DropOld, Places, ViewsTypeOK
  <2>m. \A u \in Threads \ {t} : place'[u] = place[u] /\ step'[u] = step[u]
    BY <2>g, GoTyped
  <2>a. \A u \in Threads \ {t} : ThreadApart(u)'
    <3>1. Active(t)
      BY <1>3 DEF DropOld, At, Active
    <3>2. /\ exec' = exec
          /\ \A u \in Threads \ {t} : queue'[u] = queue[u]
          /\ views' = [views EXCEPT ![Name(t)] = NoView]
      BY <1>3 DEF DropOld, ViewsTypeOK
    <3> QED BY <1>0, <1>a, <2>m, <3>1, <3>2, OthersApart
  <2>b. ThreadApart(t)'
    <3>1. place'[t] = "create" /\ step'[t] = step[t] /\ Statement(t)' = Statement(t)
      BY <1>3 DEF DropOld, Go, ViewsTypeOK, Statement
    <3>2. \A n : Own(Statement(t), n)' = Own(Statement(t), n)
      BY <1>3, <3>1 DEF Own, DropOld
    <3>3. \A n \in AllNames : Apart(t, n) => Apart(t, n)'
      BY <1>3, <1>0, <3>2 DEF DropOld, Apart, Alone, ViewsTypeOK
    <3>4. NamesIn(Statement(t)) \subseteq AllNames
      BY <1>3, HandFacts DEF DropOld, At, Active
    <3>5. \A i \in DOMAIN NamesOf(Statement(t)) : NamesOf(Statement(t))[i] \in AllNames
      BY <3>4 DEF NamesIn
    <3>6. ASSUME NEW i \in DOMAIN NamesOf(Statement(t)), i < step[t]
          PROVE  Apart(t, NamesOf(Statement(t))[i])'
      <4>1. Apart(t, NamesOf(Statement(t))[i])
        BY <1>3, <1>a, <3>6 DEF ThreadApart, DropOld, At
      <4> DEFINE n == NamesOf(Statement(t))[i]
      <4>2. n \in AllNames /\ Apart(t, n) /\ n' = n
        BY <3>1, <3>5, <4>1
      <4> HIDE DEF n
      <4>3. views'[n] # NoView =>
                /\ views'[n][1] = exec'
                /\ Alone(t)' \/ n \notin SharedNames => views'[n] = Own(Statement(t), n)'
        BY <3>3, <4>2 DEF Apart
      <4> QED BY <4>2, <4>3 DEF Apart, n
    <3> QED BY <3>1, <3>6 DEF ThreadApart
  <2> QED BY <1>0, <2>a, <2>b DEF RegisteredApart
<1>4. ASSUME NEW t \in Threads, CreateView(t) PROVE RegisteredApart'
  <2>g. \E p \in Places, n \in Nat : Go(t, p, n)
    BY <1>4 DEF CreateView, Places, ViewsTypeOK
  <2>m. \A u \in Threads \ {t} : place'[u] = place[u] /\ step'[u] = step[u]
    BY <2>g, GoTyped
  <2>a. \A u \in Threads \ {t} : ThreadApart(u)'
    <3>1. Active(t)
      BY <1>4 DEF CreateView, At, Active
    <3>2. /\ exec' = exec
          /\ \A u \in Threads \ {t} : queue'[u] = queue[u]
          /\ views' = [views EXCEPT ![Name(t)] = Own(Statement(t), Name(t))]
      BY <1>4 DEF CreateView, ViewsTypeOK
    <3> QED BY <1>0, <1>a, <2>m, <3>1, <3>2, OthersApart
  <2>b. ThreadApart(t)'
    <3>1. Active(t)
      BY <1>4 DEF CreateView, At, Active
    <3>2. Statement(t)' = Statement(t) /\ NamesOf(Statement(t))' = NamesOf(Statement(t))
          /\ exec' = exec
      BY <1>4 DEF CreateView, Statement
    <3>3. \A n : Own(Statement(t), n)' = Own(Statement(t), n)
      BY <3>2 DEF Own
    <3>4. /\ NamesOf(Statement(t)) \in Seq(ViewNames)
          /\ step[t] \in 1..Len(NamesOf(Statement(t)))
          /\ NamesIn(Statement(t)) \subseteq AllNames
          /\ Name(t) \in NamesIn(Statement(t))
          /\ Own(Statement(t), Name(t))[1] = exec
      BY <3>1, HandFacts
    <3>5. ASSUME NEW i \in DOMAIN NamesOf(Statement(t)), i <= step[t],
                 NEW n \in {NamesOf(Statement(t))[i]}
          PROVE  /\ views'[n] # NoView => views'[n][1] = exec
                 /\ views'[n] # NoView /\ (Alone(t)' \/ n \notin SharedNames)
                        => views'[n] = Own(Statement(t), n)
      <4>1. n \in AllNames
        BY <3>4 DEF NamesIn
      <4>2. CASE n = Name(t)
        BY <1>4, <3>4, <4>1, <4>2 DEF CreateView, ViewsTypeOK
      <4>3. CASE n # Name(t)
        <5>1. i < step[t]
          BY <3>4, <3>5, <4>3 DEF Name
        <5>2. Apart(t, n)
          BY <1>4, <1>a, <5>1 DEF CreateView, At, ThreadApart
        <5>3. views'[n] = views[n]
          BY <1>4, <4>1, <4>3 DEF CreateView, ViewsTypeOK
        <5> QED BY <1>0, <5>2, <5>3 DEF Apart, Alone
      <4> QED BY <4>2, <4>3
    <3>6. CASE LastName(t)
      <4>1. place'[t] = "query"
        BY <1>4, <3>6 DEF CreateView, Go, ViewsTypeOK
      <4>2. \A n \in NamesIn(Statement(t)) : \E i \in DOMAIN NamesOf(Statement(t)) :
               i <= step[t] /\ n = NamesOf(Statement(t))[i]
        BY <3>4, <3>6 DEF NamesIn, LastName
      <4>3. ASSUME NEW n \in NamesIn(Statement(t)) PROVE Apart(t, n)'
        <5>1. PICK i \in DOMAIN NamesOf(Statement(t)) : i <= step[t] /\ n = NamesOf(Statement(t))[i]
          BY <4>2
        <5> QED BY <3>2, <3>3, <3>5, <5>1 DEF Apart
      <4>4. NamesIn(Statement(t))' = NamesIn(Statement(t))
        BY <3>2
      <4> QED BY <4>1, <4>3, <4>4 DEF ThreadApart
    <3>7. CASE ~LastName(t)
      <4>1. place'[t] = "drop" /\ step'[t] = step[t] + 1
        BY <1>4, <3>7 DEF CreateView, Go, ViewsTypeOK
      <4>2. ASSUME NEW i \in DOMAIN NamesOf(Statement(t)), i < step'[t]
            PROVE  Apart(t, NamesOf(Statement(t))[i])'
        <5>1. i <= step[t]
          BY <3>4, <4>1, <4>2
        <5> DEFINE n == NamesOf(Statement(t))[i]
        <5>2. n' = n
          BY <3>2
        <5>3. /\ views'[n] # NoView => views'[n][1] = exec
              /\ views'[n] # NoView /\ (Alone(t)' \/ n \notin SharedNames)
                     => views'[n] = Own(Statement(t), n)
          BY <3>5, <5>1
        <5> HIDE DEF n
        <5> QED BY <3>2, <3>3, <5>2, <5>3 DEF Apart, n
      <4> QED BY <3>2, <4>1, <4>2 DEF ThreadApart
    <3> QED BY <3>6, <3>7
  <2> QED BY <1>0, <2>a, <2>b DEF RegisteredApart
<1>5. ASSUME NEW t \in Threads, CreateFails(t) PROVE RegisteredApart'
  <2>g. \E p \in Places, n \in Nat : Go(t, p, n)
    BY <1>5 DEF CreateFails, Retry, Places
  <2>m. \A u \in Threads \ {t} : place'[u] = place[u] /\ step'[u] = step[u]
    BY <2>g, GoTyped
  <2>a. \A u \in Threads \ {t} : ThreadApart(u)'
    BY <1>5, <1>0, <1>a, <2>m, IdleApart DEF CreateFails
  <2>b. ThreadApart(t)'
    <3>1. /\ place'[t] = "over" \/ (place'[t] = "drop" /\ step'[t] = 1)
          /\ Statement(t)' = Statement(t)
      BY <1>5 DEF CreateFails, Retry, Go, ViewsTypeOK, Statement
    <3>2. NamesOf(Statement(t)) \in Seq(ViewNames)
      BY <1>5, HandFacts DEF CreateFails, At, Active
    <3>3. \A i \in DOMAIN NamesOf(Statement(t)) : ~(i < 1)
      BY <3>2
    <3> QED BY <3>1, <3>3 DEF ThreadApart
  <2> QED BY <1>0, <2>a, <2>b DEF RegisteredApart
<1>6. ASSUME NEW t \in Threads, RunQuery(t) PROVE RegisteredApart'
  <2>g. \E p \in Places, n \in Nat : Go(t, p, n)
    BY <1>6 DEF RunQuery, Places
  <2>m. \A u \in Threads \ {t} : place'[u] = place[u] /\ step'[u] = step[u]
    BY <2>g, GoTyped
  <2>a. \A u \in Threads \ {t} : ThreadApart(u)'
    BY <1>6, <1>0, <1>a, <2>m, IdleApart DEF RunQuery
  <2>b. ThreadApart(t)'
    BY <1>6 DEF RunQuery, Go, ViewsTypeOK, ThreadApart
  <2> QED BY <1>0, <2>a, <2>b DEF RegisteredApart
<1>7. ASSUME NEW t \in Threads, Clean(t) PROVE RegisteredApart'
  <2>g. \E p \in Places, n \in Nat : Go(t, p, n)
    BY <1>7 DEF Clean, Retry, Places, ViewsTypeOK
  <2>m. \A u \in Threads \ {t} : place'[u] = place[u] /\ step'[u] = step[u]
    BY <2>g, GoTyped
  <2>a. \A u \in Threads \ {t} : ThreadApart(u)'
    <3>1. Active(t)
      BY <1>7 DEF Clean, At, Active
    <3>2. /\ exec' = exec
          /\ \A u \in Threads \ {t} : queue'[u] = queue[u]
          /\ views' = [views EXCEPT ![Name(t)] = NoView]
      BY <1>7 DEF Clean, ViewsTypeOK
    <3> QED BY <1>0, <1>a, <2>m, <3>1, <3>2, OthersApart
  <2>b. ThreadApart(t)'
    <3>1. \/ place'[t] \in {"over", "clean", "module"}
          \/ place'[t] = "drop" /\ step'[t] = 1 /\ Statement(t)' = Statement(t)
      BY <1>7 DEF Clean, Retry, Go, ViewsTypeOK, Statement
    <3>2. NamesOf(Statement(t)) \in Seq(ViewNames)
      BY <1>7, HandFacts DEF Clean, At, Active
    <3>3. \A i \in DOMAIN NamesOf(Statement(t)) : ~(i < 1)
      BY <3>2
    <3> QED BY <3>1, <3>3 DEF ThreadApart
  <2> QED BY <1>0, <2>a, <2>b DEF RegisteredApart
<1>8. CASE ExecuteAgain
  BY <1>8, <1>0 DEF ExecuteAgain, RegisteredApart, ThreadApart
<1>9. CASE UNCHANGED viewsVars
  BY <1>9, <1>0, <1>a, IdleApart DEF viewsVars, threadVars, RegisteredApart
<1> QED
  BY <1>1, <1>2, <1>3, <1>4, <1>5, <1>6, <1>7, <1>8, <1>9 DEF ViewsNext

\* A thread keeps its promise as long as it stays where it is.
LEMMA PromiseKept ==
    ASSUME NEW u \in Threads, queue'[u] = queue[u], place'[u] = place[u], step'[u] = step[u],
           NEW n, WillDrop(u, n)
    PROVE  WillDrop(u, n)'
  BY DEF WillDrop, Statement, NamesIn

\* Every step leaves somebody who will drop what is registered, until a thread
\* dies of a taken name.
LEMMA DropsKept ==
    ASSUME ViewsTypeOK, InHand, SomebodyDrops, [ViewsNext]_viewsVars
    PROVE  SomebodyDrops'
<1>0. Threads' = Threads /\ AllNames' = AllNames
  BY ManifestKept
<1>1. ASSUME NEW t \in Threads, Leave(t) PROVE SomebodyDrops'
  <2>g. \E p \in Places, n \in Nat : Go(t, p, n)
    BY <1>1 DEF Leave, Places, ViewsTypeOK
  <2>m. \A u \in Threads \ {t} : place'[u] = place[u] /\ step'[u] = step[u]
    BY <2>g, GoTyped
  <2>1. died' = {} => died = {}
    BY <1>1 DEF Leave
  <2>2. \A n \in AllNames : views'[n] # NoView => views[n] # NoView
    BY <1>1 DEF Leave, ViewsTypeOK
  <2>3. ASSUME NEW n \in AllNames, died' = {}, views'[n] # NoView, WillDrop(t, n)
        PROVE  WillDrop(t, n)'
    BY <2>3, <1>1 DEF Leave, At, WillDrop
  <2>4. \A u \in Threads \ {t} : queue'[u] = queue[u]
    BY <1>1 DEF Leave, ViewsTypeOK
  <2>5. \A n \in AllNames, u \in Threads \ {t} : WillDrop(u, n) => WillDrop(u, n)'
    BY <2>4, <2>m, PromiseKept
  <2> QED BY <1>0, <2>1, <2>2, <2>3, <2>5 DEF SomebodyDrops
<1>2. ASSUME NEW t \in Threads, Begin(t) PROVE SomebodyDrops'
  <2>g. \E p \in Places, n \in Nat : Go(t, p, n)
    BY <1>2 DEF Begin, Places, ViewsTypeOK
  <2>m. \A u \in Threads \ {t} : place'[u] = place[u] /\ step'[u] = step[u]
    BY <2>g, GoTyped
  <2>1. died' = {} => died = {}
    BY <1>2 DEF Begin
  <2>2. \A n \in AllNames : views'[n] # NoView => views[n] # NoView
    BY <1>2 DEF Begin, ViewsTypeOK
  <2>3. ASSUME NEW n \in AllNames, died' = {}, views'[n] # NoView, WillDrop(t, n)
        PROVE  WillDrop(t, n)'
    BY <2>3, <1>2 DEF Begin, At, WillDrop
  <2>4. \A u \in Threads \ {t} : queue'[u] = queue[u]
    BY <1>2 DEF Begin, ViewsTypeOK
  <2>5. \A n \in AllNames, u \in Threads \ {t} : WillDrop(u, n) => WillDrop(u, n)'
    BY <2>4, <2>m, PromiseKept
  <2> QED BY <1>0, <2>1, <2>2, <2>3, <2>5 DEF SomebodyDrops
<1>3. ASSUME NEW t \in Threads, DropOld(t) PROVE SomebodyDrops'
  <2>g. \E p \in Places, n \in Nat : Go(t, p, n)
    BY <1>3 DEF DropOld, Places, ViewsTypeOK
  <2>m. \A u \in Threads \ {t} : place'[u] = place[u] /\ step'[u] = step[u]
    BY <2>g, GoTyped
  <2>1. died' = {} => died = {}
    BY <1>3 DEF DropOld
  <2>2. \A n \in AllNames : views'[n] # NoView => views[n] # NoView
    BY <1>3 DEF DropOld, ViewsTypeOK
  <2>3. ASSUME NEW n \in AllNames, died' = {}, views'[n] # NoView, WillDrop(t, n)
        PROVE  WillDrop(t, n)'
    <3>1. Statement(t)' = Statement(t) /\ NamesIn(Statement(t))' = NamesIn(Statement(t))
      BY <1>3 DEF DropOld, Statement, NamesIn
    <3>2. n \in NamesIn(Statement(t))
      BY <2>3, <1>3 DEF DropOld, At, WillDrop
    <3> QED BY <3>1, <3>2, <1>3 DEF DropOld, Go, WillDrop, ViewsTypeOK
  <2>4. \A u \in Threads \ {t} : queue'[u] = queue[u]
    BY <1>3 DEF DropOld, ViewsTypeOK
  <2>5. \A n \in AllNames, u \in Threads \ {t} : WillDrop(u, n) => WillDrop(u, n)'
    BY <2>4, <2>m, PromiseKept
  <2> QED BY <1>0, <2>1, <2>2, <2>3, <2>5 DEF SomebodyDrops
<1>4. ASSUME NEW t \in Threads, CreateView(t) PROVE SomebodyDrops'
  <2>g. \E p \in Places, n \in Nat : Go(t, p, n)
    BY <1>4 DEF CreateView, Places, ViewsTypeOK
  <2>m. \A u \in Threads \ {t} : place'[u] = place[u] /\ step'[u] = step[u]
    BY <2>g, GoTyped
  <2>1. died' = {} => died = {}
    BY <1>4 DEF CreateView
  <2>2. \A n \in AllNames : views'[n] # NoView => views[n] # NoView \/ n = Name(t)
    BY <1>4 DEF CreateView, ViewsTypeOK
  <2>3. ASSUME NEW n \in AllNames, died' = {}, views'[n] # NoView, WillDrop(t, n)
        PROVE  WillDrop(t, n)'
    <3>1. Statement(t)' = Statement(t) /\ NamesIn(Statement(t))' = NamesIn(Statement(t))
      BY <1>4 DEF CreateView, Statement, NamesIn
    <3>2. n \in NamesIn(Statement(t))
      BY <2>3, <1>4 DEF CreateView, At, WillDrop
    <3>3. place'[t] \in {"query", "drop"}
      BY <1>4 DEF CreateView, Go, ViewsTypeOK
    <3> QED BY <3>1, <3>2, <3>3 DEF WillDrop
  <2>4. \A u \in Threads \ {t} : queue'[u] = queue[u]
    BY <1>4 DEF CreateView, ViewsTypeOK
  <2>5. \A n \in AllNames, u \in Threads \ {t} : WillDrop(u, n) => WillDrop(u, n)'
    BY <2>4, <2>m, PromiseKept
  <2>6. WillDrop(t, Name(t))
    BY <1>4, HandFacts DEF CreateView, At, Active, WillDrop
  <2> QED BY <1>0, <2>1, <2>2, <2>3, <2>5, <2>6 DEF SomebodyDrops
<1>5. ASSUME NEW t \in Threads, CreateFails(t) PROVE SomebodyDrops'
  <2>g. \E p \in Places, n \in Nat : Go(t, p, n)
    BY <1>5 DEF CreateFails, Places, ViewsTypeOK, Retry
  <2>m. \A u \in Threads \ {t} : place'[u] = place[u] /\ step'[u] = step[u]
    BY <2>g, GoTyped
  <2>1. died' = {} => died = {}
    BY <1>5 DEF CreateFails, Retry
  <2>2. \A n \in AllNames : views'[n] # NoView => views[n] # NoView
    BY <1>5 DEF CreateFails, ViewsTypeOK
  <2>3. ASSUME NEW n \in AllNames, died' = {}, views'[n] # NoView, WillDrop(t, n)
        PROVE  WillDrop(t, n)'
    <3>1. Statement(t)' = Statement(t) /\ NamesIn(Statement(t))' = NamesIn(Statement(t))
      BY <1>5 DEF CreateFails, Statement, NamesIn
    <3>2. n \in NamesIn(Statement(t))
      BY <2>3, <1>5 DEF CreateFails, At, WillDrop
    <3>3. place'[t] = "drop"
      BY <2>3, <1>5 DEF CreateFails, Retry, Go, ViewsTypeOK
    <3> QED BY <3>1, <3>2, <3>3 DEF WillDrop
  <2>4. \A u \in Threads \ {t} : queue'[u] = queue[u]
    BY <1>5 DEF CreateFails, ViewsTypeOK
  <2>5. \A n \in AllNames, u \in Threads \ {t} : WillDrop(u, n) => WillDrop(u, n)'
    BY <2>4, <2>m, PromiseKept
  <2> QED BY <1>0, <2>1, <2>2, <2>3, <2>5 DEF SomebodyDrops
<1>6. ASSUME NEW t \in Threads, RunQuery(t) PROVE SomebodyDrops'
  <2>g. \E p \in Places, n \in Nat : Go(t, p, n)
    BY <1>6 DEF RunQuery, Places, ViewsTypeOK
  <2>m. \A u \in Threads \ {t} : place'[u] = place[u] /\ step'[u] = step[u]
    BY <2>g, GoTyped
  <2>1. died' = {} => died = {}
    BY <1>6 DEF RunQuery
  <2>2. \A n \in AllNames : views'[n] # NoView => views[n] # NoView
    BY <1>6 DEF RunQuery, ViewsTypeOK
  <2>3. ASSUME NEW n \in AllNames, died' = {}, views'[n] # NoView, WillDrop(t, n)
        PROVE  WillDrop(t, n)'
    <3>1. Statement(t)' = Statement(t) /\ NamesIn(Statement(t))' = NamesIn(Statement(t))
      BY <1>6 DEF RunQuery, Statement, NamesIn
    <3>2. n \in NamesIn(Statement(t))
      BY <2>3, <1>6 DEF RunQuery, At, WillDrop
    <3>3. place'[t] = "clean" /\ step'[t] = 1 /\ NamesOf(Statement(t))' = NamesOf(Statement(t))
      BY <1>6, <3>1 DEF RunQuery, Go, ViewsTypeOK, Statement
    <3>4. NamesOf(Statement(t)) \in Seq(ViewNames)
      BY <1>6, HandFacts DEF RunQuery, At, Active
    <3>5. \E i \in DOMAIN NamesOf(Statement(t)) : i >= 1 /\ NamesOf(Statement(t))[i] = n
      BY <3>2, <3>4 DEF NamesIn
    <3> QED BY <3>3, <3>5 DEF WillDrop
  <2>4. \A u \in Threads \ {t} : queue'[u] = queue[u]
    BY <1>6 DEF RunQuery, ViewsTypeOK
  <2>5. \A n \in AllNames, u \in Threads \ {t} : WillDrop(u, n) => WillDrop(u, n)'
    BY <2>4, <2>m, PromiseKept
  <2> QED BY <1>0, <2>1, <2>2, <2>3, <2>5 DEF SomebodyDrops
<1>7. ASSUME NEW t \in Threads, Clean(t) PROVE SomebodyDrops'
  <2>g. \E p \in Places, n \in Nat : Go(t, p, n)
    BY <1>7 DEF Clean, Places, ViewsTypeOK, Retry
  <2>m. \A u \in Threads \ {t} : place'[u] = place[u] /\ step'[u] = step[u]
    BY <2>g, GoTyped
  <2>1. died' = {} => died = {}
    BY <1>7 DEF Clean, Retry
  <2>2. \A n \in AllNames : views'[n] # NoView => views[n] # NoView /\ n # Name(t)
    BY <1>7, HandFacts DEF Clean, At, Active, ViewsTypeOK
  <2>3. ASSUME NEW n \in AllNames, died' = {}, views'[n] # NoView, WillDrop(t, n)
        PROVE  WillDrop(t, n)'
    <3>1. n # Name(t) /\ n \in NamesIn(Statement(t))
      BY <2>2, <2>3, <1>7 DEF Clean, At, WillDrop, NamesIn
    <3>2. /\ NamesOf(Statement(t)) \in Seq(ViewNames)
          /\ step[t] \in 1..Len(NamesOf(Statement(t)))
      BY <1>7, HandFacts DEF Clean, At, Active
    <3>3. PICK i \in DOMAIN NamesOf(Statement(t)) : i >= step[t] /\ NamesOf(Statement(t))[i] = n
      BY <2>3, <1>7 DEF Clean, At, WillDrop
    <3>4. i >= step[t] + 1 /\ ~LastName(t)
      BY <3>1, <3>2, <3>3 DEF Name, LastName
    <3>5. place'[t] = "clean" /\ step'[t] = step[t] + 1 /\ Statement(t)' = Statement(t)
      BY <1>7, <3>4 DEF Clean, Go, ViewsTypeOK, Statement
    <3> QED BY <3>3, <3>4, <3>5 DEF WillDrop
  <2>4. \A u \in Threads \ {t} : queue'[u] = queue[u]
    BY <1>7 DEF Clean, ViewsTypeOK
  <2>5. \A n \in AllNames, u \in Threads \ {t} : WillDrop(u, n) => WillDrop(u, n)'
    BY <2>4, <2>m, PromiseKept
  <2> QED BY <1>0, <2>1, <2>2, <2>3, <2>5 DEF SomebodyDrops
<1>8. CASE ExecuteAgain
  <2>1. \A n \in AllNames : ~\E t \in Threads : WillDrop(t, n)
    BY <1>8 DEF ExecuteAgain, At, WillDrop
  <2> QED BY <1>8, <1>0, <2>1 DEF ExecuteAgain, SomebodyDrops
<1>9. CASE UNCHANGED viewsVars
  <2>1. \A n \in AllNames, u \in Threads : WillDrop(u, n) => WillDrop(u, n)'
    BY <1>9, PromiseKept DEF viewsVars, threadVars
  <2> QED BY <1>9, <1>0, <2>1 DEF viewsVars, SomebodyDrops
<1> QED
  BY <1>1, <1>2, <1>3, <1>4, <1>5, <1>6, <1>7, <1>8, <1>9 DEF ViewsNext

\* Every query gets what the thread's own registrations left there.
LEMMA ReadsKept ==
    ASSUME ViewsInv, [ViewsNext]_viewsVars
    PROVE  ForeignOnlyUnderSharedName'
<1>1. ASSUME NEW t \in Threads, RunQuery(t) PROVE ForeignOnlyUnderSharedName'
  <2>1. /\ Statement(t).reads \subseteq NamesIn(Statement(t))
        /\ \A n \in NamesIn(Statement(t)) : Own(Statement(t), n)[1] = exec
    BY <1>1, HandFacts DEF RunQuery, At, Active, ViewsInv
  <2>2. \A n \in NamesIn(Statement(t)) : Apart(t, n)
    BY <1>1 DEF RunQuery, At, ViewsInv, RegisteredApart, ThreadApart
  <2>3. \A r \in reads' : \/ r \in reads
                          \/ \E n \in Statement(t).reads :
                                 /\ views[n] # NoView
                                 /\ r = [name |-> n, got |-> views[n], own |-> Own(Statement(t), n)]
    <3>1. PICK ok \in BOOLEAN :
             /\ ok => {n \in Statement(t).reads : views[n] # NoView} = Statement(t).reads
             /\ reads' = IF ok
                         THEN reads \cup {[name |-> n, got |-> views[n], own |-> Own(Statement(t), n)] :
                                              n \in Statement(t).reads}
                         ELSE reads
      BY <1>1 DEF RunQuery
    <3> QED BY <3>1
  <2>4. ~Alone(t) => Parallel
    <3>1. IsFiniteSet(Threads)
      BY ManifestFacts DEF ViewsInv
    <3>2. Cardinality(Threads) \in Nat /\ Cardinality(Threads) # 0
      BY <3>1, FS_CardinalityType, FS_EmptySet
    <3>3. ASSUME Cardinality(Threads) = 1 PROVE Alone(t)
      BY <3>1, <3>3, FS_Singleton DEF Alone
    <3> QED BY <3>2, <3>3 DEF Parallel
  <2>5. Parallel' = Parallel
    BY ManifestKept DEF Parallel
  <2>6. ASSUME NEW r \in reads'
        PROVE  r.got[1] = r.own[1] /\ (r.got # r.own => Parallel /\ r.name \in SharedNames)
    <3>1. CASE r \in reads
      BY <3>1 DEF ViewsInv, ForeignOnlyUnderSharedName
    <3>2. CASE r \notin reads
      <4>1. PICK n \in Statement(t).reads :
                 /\ views[n] # NoView
                 /\ r = [name |-> n, got |-> views[n], own |-> Own(Statement(t), n)]
        BY <2>3, <3>2
      <4>2. r.name = n /\ r.got = views[n] /\ r.own = Own(Statement(t), n)
        BY <4>1
      <4> QED BY <2>1, <2>2, <2>4, <4>1, <4>2 DEF Apart
    <3> QED BY <3>1, <3>2
  <2> QED BY <2>5, <2>6 DEF ForeignOnlyUnderSharedName
<1>2. ASSUME reads' = reads PROVE ForeignOnlyUnderSharedName'
  BY <1>2, ManifestKept DEF ViewsInv, ForeignOnlyUnderSharedName, Parallel
<1>3. reads' = reads \/ \E t \in Threads : RunQuery(t)
  BY DEF ViewsNext, Leave, Begin, DropOld, CreateView, CreateFails, Clean, ExecuteAgain,
         viewsVars
<1> QED BY <1>1, <1>2, <1>3

\* Every behaviour of the catalog keeps its invariant.
THEOREM ViewsInvariant == ViewsSpec => []ViewsInv
<1>1. ViewsInit => ViewsInv
  <2> SUFFICES ASSUME ViewsInit PROVE ViewsInv
    OBVIOUS
  <2>1. manifest \in [Threads -> Seq(Statements)]
    BY ViewsAssumption DEF ViewsInit, Threads
  <2>2. ViewsTypeOK
    BY <2>1 DEF ViewsInit, ViewsTypeOK, Places
  <2>3. InHand
    BY DEF ViewsInit, InHand, Active, Mine
  <2>4. RegisteredApart /\ SomebodyDrops /\ ForeignOnlyUnderSharedName
    BY DEF ViewsInit, RegisteredApart, ThreadApart, SomebodyDrops, ForeignOnlyUnderSharedName
  <2> QED BY <2>2, <2>3, <2>4 DEF ViewsInv
<1>2. ViewsInv /\ [ViewsNext]_viewsVars => ViewsInv'
  BY TypesKept, HandKept, RegisteredKept, DropsKept, ReadsKept DEF ViewsInv
<1> QED BY <1>1, <1>2, PTL DEF ViewsSpec

\* Whatever threads, attempts and executions share the session, no query reads
\* what is not its own, but for a shared name among parallel threads, and nothing
\* is left registered (channel.py, _run_sql; egress.py, _write_merge).
THEOREM ViewsApart == ViewsSpec => []ViewsStayApart
<1>1. ViewsInv => ViewsStayApart
  <2> SUFFICES ASSUME ViewsInv PROVE NothingLeftBehind
    BY DEF ViewsInv, ViewsStayApart
  <2>1. ASSUME \A t \in Threads : place[t] \in {"module", "over"}, NEW n
        PROVE  ~\E t \in Threads : WillDrop(t, n)
    BY <2>1 DEF WillDrop
  <2> QED BY <2>1 DEF ViewsInv, SomebodyDrops, NothingLeftBehind
<1> QED BY <1>1, ViewsInvariant, PTL


-----------------------------------------------------------------------------
(* BlueprintCompile: the parser's verdict on the graph.                    *)

\* Where the edges es lead.
NodesOf(es) == {e.to : e \in es}

\* One hop further along es.
Hop(es, near) == near \cup {e.to : e \in {d \in es : d.from \in near}}

\* c: the edges, where it starts, a set no edge leaves, a set no edge enters.
HopStep(c, near, turn) == near \cup {e.to : e \in {d \in c[1] : d.from \in near}}
HopHolds(c, k, near) ==
    /\ c[2] \in near /\ near \subseteq c[3]
    /\ near \cap c[4] # {} => c[2] \in c[4]
    /\ near \subseteq {c[2]} \cup NodesOf(c[1])
    /\ Hop(c[1], near) = near \/ Cardinality(near \ {c[2]}) >= k
HopFold == INSTANCE FoldInduction WITH step <- HopStep, Holds <- HopHolds

LEMMA HopsFold ==
    ASSUME NEW c, NEW a
    PROVE  ReachedFrom(c[1], a) =
               HopFold!Folded(c, {a}, [turn \in 1..Cardinality(NodesOf(c[1])) |-> turn])
  BY Zenon DEF ReachedFrom, NodesOf, HopStep, HopFold!Folded, HopFold!FoldLeft, FoldLeft,
     HopFold!MapThenFoldSet, MapThenFoldSet, HopFold!Max, Max

\* What is reached is closed under edges, and it is the least such set.
LEMMA Reached ==
    ASSUME NEW es, NEW a, IsFiniteSet(NodesOf(es)),
           NEW T, a \in T, \A e \in es : e.from \in T => e.to \in T,
           NEW S, \A e \in es : e.to \in S => e.from \in S
    PROVE  LET R == ReachedFrom(es, a)
           IN  /\ a \in R /\ R \subseteq T
               /\ R \cap S # {} => a \in S
               /\ \A e \in es : e.from \in R => e.to \in R
<1> DEFINE c == <<es, a, T, S>>
           N == NodesOf(es)
           turns == [turn \in 1..Cardinality(N) |-> turn]
<1>1. Cardinality(N) \in Nat
  BY FS_CardinalityType
<1>2. c[1] = es /\ c[2] = a /\ c[3] = T /\ c[4] = S
  OBVIOUS
<1> HIDE DEF c, N
<1>3. HopHolds(c, 0, {a})
  <2>1. {a} \ {a} = {}
    OBVIOUS
  <2>2. Cardinality({a} \ {a}) >= 0
    BY <2>1, FS_EmptySet
  <2> QED
    BY <1>2, <2>2 DEF HopHolds
<1>4. ASSUME NEW k \in 0..(Cardinality(N) - 1), NEW near, HopHolds(c, k, near)
      PROVE  HopHolds(c, k + 1, HopStep(c, near, turns[k + 1]))
  <2> DEFINE more == Hop(es, near)
  <2>1. HopStep(c, near, turns[k + 1]) = more
    BY <1>2 DEF HopStep, Hop
  <2>2. /\ a \in near /\ near \subseteq T
        /\ near \cap S # {} => a \in S
        /\ near \subseteq {a} \cup N
        /\ Hop(es, near) = near \/ Cardinality(near \ {a}) >= k
    BY <1>2, <1>4 DEF HopHolds, N
  <2>3. a \in more /\ more \subseteq T /\ near \subseteq more
    BY <2>2 DEF Hop
  <2>4. more \cap S # {} => a \in S
    BY <2>2 DEF Hop
  <2>5. more \subseteq {a} \cup N
    BY <2>2 DEF Hop, NodesOf, N
  <2>6. Hop(es, more) = more \/ Cardinality(more \ {a}) >= k + 1
    <3>1. CASE more = near
      BY <3>1
    <3>2. CASE more # near
      <4>1. Cardinality(near \ {a}) >= k
        BY <2>2, <3>2
      <4>2. more \ {a} \subseteq N /\ near \ {a} \in SUBSET (more \ {a}) /\ near \ {a} # more \ {a}
        BY <2>2, <2>3, <2>5, <3>2
      <4>3. IsFiniteSet(more \ {a})
        BY <4>2, FS_Subset DEF N
      <4>4. /\ Cardinality(near \ {a}) <= Cardinality(more \ {a})
            /\ Cardinality(near \ {a}) # Cardinality(more \ {a})
        BY <4>2, <4>3, FS_Subset
      <4>5. Cardinality(near \ {a}) \in Nat /\ Cardinality(more \ {a}) \in Nat /\ k \in Nat
        BY <4>2, <4>3, FS_Subset, FS_CardinalityType
      <4> QED
        BY <4>1, <4>4, <4>5
    <3> QED
      BY <3>1, <3>2
  <2> HIDE DEF more
  <2>7. HopHolds(c, k + 1, more)
    BY <1>2, <2>3, <2>4, <2>5, <2>6 DEF HopHolds, N
  <2> QED
    BY <2>1, <2>7
<1> DEFINE R == ReachedFrom(es, a)
<1>5. R = HopFold!Folded(c, {a}, turns)
  BY <1>2, HopsFold DEF N
<1>6. DOMAIN turns = 1..Cardinality(N)
  OBVIOUS
<1> HIDE DEF turns, R
<1>7. HopHolds(c, Cardinality(N), R)
  BY <1>1, <1>3, <1>4, <1>5, <1>6, HopFold!FoldLeftInduction
<1>8. /\ a \in R /\ R \subseteq T
      /\ R \cap S # {} => a \in S
      /\ R \subseteq {a} \cup N
      /\ Hop(es, R) = R \/ Cardinality(R \ {a}) >= Cardinality(N)
  BY <1>2, <1>7 DEF HopHolds, N
<1>9. \A e \in es : e.from \in R => e.to \in R
  <2>1. CASE Hop(es, R) = R
    BY <2>1 DEF Hop
  <2>2. CASE Cardinality(R \ {a}) >= Cardinality(N)
    <3>1. R \ {a} \in SUBSET N /\ IsFiniteSet(N)
      BY <1>8 DEF N
    <3>2. Cardinality(R \ {a}) \in Nat /\ Cardinality(R \ {a}) <= Cardinality(N)
      BY <3>1, FS_Subset, FS_CardinalityType
    <3>3. Cardinality(R \ {a}) = Cardinality(N)
      BY <1>1, <2>2, <3>2
    <3>4. N = R \ {a}
      BY <3>1, <3>3, FS_Subset
    <3> QED
      BY <3>4 DEF N, NodesOf
  <2> QED
    BY <1>8, <2>1, <2>2
<1> QED
  BY <1>8, <1>9 DEF R

LEMMA ReachedCloses ==
    ASSUME NEW es, NEW a, IsFiniteSet(NodesOf(es)),
           NEW S, \A e \in es : e.to \in S => e.from \in S
    PROVE  /\ a \in ReachedFrom(es, a)
           /\ \A e \in es : e.from \in ReachedFrom(es, a) => e.to \in ReachedFrom(es, a)
           /\ ReachedFrom(es, a) \cap S # {} => a \in S
<1>1. PICK T : T = {a} \cup NodesOf(es)
  OBVIOUS
<1>2. a \in T /\ \A e \in es : e.from \in T => e.to \in T
  BY <1>1 DEF NodesOf
<1> QED
  BY <1>2, Reached

\* The links of a blueprint as edges, and when one of them closes a cycle.
AsEdges(bp) == {[from |-> l[1], to |-> l[2]] : l \in Links(bp)}
ClosesCycle(bp, e) == e.from \in ReachedFrom(AsEdges(bp), e.to)

\* A round of Kahn's algorithm; what is released after k of them.
KahnStep(bp, done, turn) ==
    done \cup {id \in IdsOf(bp.modules) : \A l \in Links(bp) : l[2] = id => l[1] \in done}
KahnHolds(bp, k, done) ==
    /\ done \subseteq IdsOf(bp.modules)
    /\ \A l \in Links(bp) : l[2] \in done => l[1] \in done
    /\ \A e \in AsEdges(bp) : ClosesCycle(bp, e) => e.to \notin done
    /\ KahnStep(bp, done, 0) = done \/ Cardinality(done) >= k
KahnFold == INSTANCE FoldInduction WITH step <- KahnStep, Holds <- KahnHolds

LEMMA RoundsFold ==
    ASSUME NEW bp
    PROVE  DetectCycles(bp) = IdsOf(bp.modules) \ KahnFold!Folded(bp, {}, bp.modules)
  BY Zenon DEF DetectCycles, KahnStep, KahnFold!Folded, KahnFold!FoldLeft, FoldLeft,
     KahnFold!MapThenFoldSet, MapThenFoldSet, KahnFold!Max, Max

\* The links of a blueprint whose names all exist.
LEMMA LinkShape ==
    ASSUME NEW bp, bp.modules \in Seq(Range(bp.modules)),
           \A l \in Links(bp) : {l[1], l[2]} \subseteq IdsOf(bp.modules)
    PROVE  /\ IsFiniteSet(IdsOf(bp.modules))
           /\ \A e \in AsEdges(bp) : {e.from, e.to} \subseteq IdsOf(bp.modules)
           /\ IsFiniteSet(NodesOf(AsEdges(bp)))
           /\ \A e \in AsEdges(bp) : <<e.from, e.to>> \in Links(bp)
           /\ \A l \in Links(bp) : [from |-> l[1], to |-> l[2]] \in AsEdges(bp)
<1> DEFINE ids == IdsOf(bp.modules)
           n == Len(bp.modules)
           name == [i \in 1..n |-> bp.modules[i].id]
<1>1. n \in Nat /\ DOMAIN bp.modules = 1..n
  OBVIOUS
<1>2. name \in Surjection(1..n, ids)
  BY <1>1 DEF Surjection, IdsOf, Range
<1>3. IsFiniteSet(1..n)
  BY <1>1, FS_Interval
<1>4. IsFiniteSet(ids)
  BY <1>2, <1>3, FS_Surjection
<1>5. \A l \in Links(bp) : l = <<l[1], l[2]>>
  BY DEF Links
<1>6. \A e \in AsEdges(bp) : \E l \in Links(bp) : e.from = l[1] /\ e.to = l[2]
  BY DEF AsEdges
<1>7. \A e \in AsEdges(bp) : {e.from, e.to} \subseteq ids /\ <<e.from, e.to>> \in Links(bp)
  BY <1>5, <1>6
<1>8. NodesOf(AsEdges(bp)) \in SUBSET ids
  BY <1>7 DEF NodesOf
<1>9. IsFiniteSet(NodesOf(AsEdges(bp)))
  BY <1>4, <1>8, FS_Subset
<1> QED
  BY <1>4, <1>7, <1>9 DEF AsEdges

\* Nobody on a cycle is ever released, and a round that releases nobody is
\* the last that could.
LEMMA Released ==
    ASSUME NEW bp, bp.modules \in Seq(Range(bp.modules)),
           \A l \in Links(bp) : {l[1], l[2]} \subseteq IdsOf(bp.modules)
    PROVE  KahnHolds(bp, Len(bp.modules), KahnFold!Folded(bp, {}, bp.modules))
<1> DEFINE ids == IdsOf(bp.modules)
           es == AsEdges(bp)
<1>1. Len(bp.modules) \in Nat /\ DOMAIN bp.modules = 1..Len(bp.modules)
  OBVIOUS
<1>2. /\ IsFiniteSet(ids) /\ IsFiniteSet(NodesOf(es))
      /\ \A e \in es : <<e.from, e.to>> \in Links(bp)
      /\ \A e \in es : {e.from, e.to} \subseteq ids
  BY LinkShape
<1>3. KahnHolds(bp, 0, {})
  BY FS_EmptySet DEF KahnHolds
<1>4. ASSUME NEW k \in 0..(Len(bp.modules) - 1), NEW done, KahnHolds(bp, k, done)
      PROVE  KahnHolds(bp, k + 1, KahnStep(bp, done, bp.modules[k + 1]))
  <2> DEFINE more == KahnStep(bp, done, 0)
  <2>1. KahnStep(bp, done, bp.modules[k + 1]) = more
    BY DEF KahnStep
  <2>2. /\ done \subseteq ids
        /\ \A l \in Links(bp) : l[2] \in done => l[1] \in done
        /\ \A e \in es : ClosesCycle(bp, e) => e.to \notin done
        /\ more = done \/ Cardinality(done) >= k
    BY <1>4 DEF KahnHolds
  <2>3. more \subseteq ids /\ done \subseteq more
    BY <2>2 DEF KahnStep
  <2>4. \A l \in Links(bp) : l[2] \in more => l[1] \in done
    BY <2>2 DEF KahnStep
  <2>5. ASSUME NEW e \in es, ClosesCycle(bp, e), e.to \in more
        PROVE  FALSE
    <3>1. <<e.from, e.to>> \in Links(bp)
      BY <1>2
    <3>2. e.from \in done
      BY <2>4, <2>5, <3>1
    <3>3. PICK a : a = e.to
      OBVIOUS
    <3>4. \A d \in es : d.to \in done => d.from \in done
      BY <1>2, <2>2
    <3>5. ReachedFrom(es, a) \cap done # {} => a \in done
      <4> HIDE DEF es
      <4> QED
        BY <1>2, <3>4, ReachedCloses
    <3>6. e.from \in ReachedFrom(es, a)
      BY <2>5, <3>3 DEF ClosesCycle
    <3> QED
      BY <2>2, <2>5, <3>2, <3>3, <3>5, <3>6
  <2>6. KahnStep(bp, more, 0) = more \/ Cardinality(more) >= k + 1
    <3>1. CASE more = done
      BY <3>1
    <3>2. CASE more # done
      <4>1. Cardinality(done) >= k
        BY <2>2, <3>2
      <4>2. IsFiniteSet(more)
        BY <1>2, <2>3, FS_Subset
      <4>3. /\ Cardinality(done) <= Cardinality(more)
            /\ Cardinality(done) # Cardinality(more)
        BY <2>3, <3>2, <4>2, FS_Subset
      <4>4. Cardinality(done) \in Nat /\ Cardinality(more) \in Nat /\ k \in Nat
        BY <2>3, <4>2, FS_Subset, FS_CardinalityType
      <4> QED
        BY <4>1, <4>3, <4>4
    <3> QED
      BY <3>1, <3>2
  <2> HIDE DEF more
  <2>7. KahnHolds(bp, k + 1, more)
    BY <2>3, <2>4, <2>5, <2>6 DEF KahnHolds
  <2> QED
    BY <2>1, <2>7
<1> QED
  BY <1>1, <1>3, <1>4, KahnFold!FoldLeftInduction

\* Where everybody left waits for somebody left, there is a cycle.
LEMMA CycleAmong ==
    ASSUME NEW es, NEW left, IsFiniteSet(NodesOf(es)), IsFiniteSet(left), left # {},
           \A x \in left : \E e \in es : e.to = x /\ e.from \in left
    PROVE  \E e \in es : e.from \in ReachedFrom(es, e.to)
<1> SUFFICES ASSUME \A e \in es : e.from \notin ReachedFrom(es, e.to)
             PROVE  FALSE
  OBVIOUS
<1> DEFINE all == left \cup NodesOf(es)
           beyond(x) == all \ ReachedFrom(es, x)
           U == {beyond(x) : x \in left}
           R == StrictSubsetOrdering(all)
<1>1. IsFiniteSet(all)
  BY FS_Union
<1>2. IsWellFoundedOn(R, SUBSET all)
  <2>1. IsWellFoundedOn(R, FiniteSubsetsOf(all))
    BY FS_StrictSubsetOrderingWellFounded
  <2>2. FiniteSubsetsOf(all) = SUBSET all
    BY <1>1, FS_FiniteSubsetsOfFinite
  <2> QED
    BY <2>1, <2>2
<1>3. U \subseteq SUBSET all /\ U # {}
  OBVIOUS
<1>4. PICK u \in U : \A y \in U : ~ (<<y, u>> \in R)
  <2> HIDE DEF U, R, all
  <2> QED
    BY <1>2, <1>3, WFMin
<1>5. PICK x \in left : u = beyond(x)
  BY <1>4
<1>6. PICK e \in es : e.to = x /\ e.from \in left
  BY <1>5
<1>7. PICK p : p = e.from
  OBVIOUS
<1>8. \A a : /\ a \in ReachedFrom(es, a)
             /\ \A d \in es : d.from \in ReachedFrom(es, a) => d.to \in ReachedFrom(es, a)
  <2> SUFFICES ASSUME NEW a
               PROVE  /\ a \in ReachedFrom(es, a)
                      /\ \A d \in es : d.from \in ReachedFrom(es, a) => d.to \in ReachedFrom(es, a)
    OBVIOUS
  <2>1. PICK S : S = {}
    OBVIOUS
  <2>2. \A d \in es : d.to \in S => d.from \in S
    BY <2>1
  <2> QED
    BY <2>2, ReachedCloses
<1>9. x \in ReachedFrom(es, p)
  BY <1>6, <1>7, <1>8
<1>10. ReachedFrom(es, x) \subseteq ReachedFrom(es, p)
  <2> DEFINE T == ReachedFrom(es, p)
  <2>1. x \in T /\ \A d \in es : d.from \in T => d.to \in T
    BY <1>8, <1>9
  <2> HIDE DEF T
  <2>2. \A d \in es : d.to \in {} => d.from \in {}
    OBVIOUS
  <2>3. ReachedFrom(es, x) \subseteq T
    BY <2>1, <2>2, Reached
  <2> QED
    BY <2>3 DEF T
<1>11. p \in ReachedFrom(es, p) /\ p \notin ReachedFrom(es, x) /\ p \in left
  BY <1>6, <1>7, <1>8
<1>12. beyond(p) \subseteq beyond(x) /\ beyond(p) # beyond(x)
  BY <1>10, <1>11
<1>13. <<beyond(p), beyond(x)>> \in R
  BY <1>12 DEF StrictSubsetOrdering
<1> QED
  BY <1>4, <1>5, <1>11, <1>13

\* Kahn's algorithm releases everybody exactly if no link closes a cycle.
THEOREM KahnFindsCycles ==
    ASSUME NEW bp, bp.modules \in Seq(Range(bp.modules)),
           Cardinality(IdsOf(bp.modules)) = Len(bp.modules),
           \A l \in Links(bp) : {l[1], l[2]} \subseteq IdsOf(bp.modules)
    PROVE  DetectCycles(bp) = {} <=> \A e \in AsEdges(bp) : ~ClosesCycle(bp, e)
<1> DEFINE ids == IdsOf(bp.modules)
           es == AsEdges(bp)
           done == KahnFold!Folded(bp, {}, bp.modules)
<1>1. DetectCycles(bp) = ids \ done
  BY RoundsFold
<1>2. KahnHolds(bp, Len(bp.modules), done)
  BY Released
<1>3. /\ IsFiniteSet(ids) /\ IsFiniteSet(NodesOf(es))
      /\ \A e \in es : {e.from, e.to} \subseteq ids
      /\ \A l \in Links(bp) : [from |-> l[1], to |-> l[2]] \in es
  BY LinkShape
<1> HIDE DEF done
<1>4. /\ done \subseteq ids
      /\ \A e \in es : ClosesCycle(bp, e) => e.to \notin done
      /\ KahnStep(bp, done, 0) = done \/ Cardinality(done) >= Cardinality(ids)
  BY <1>2 DEF KahnHolds
<1>5. ASSUME ids \ done = {}, NEW e \in es PROVE ~ClosesCycle(bp, e)
  BY <1>3, <1>4, <1>5
<1>6. ASSUME ids \ done # {} PROVE \E e \in es : ClosesCycle(bp, e)
  <2>1. KahnStep(bp, done, 0) = done
    <3>1. CASE Cardinality(done) >= Cardinality(ids)
      <4>1. Cardinality(done) <= Cardinality(ids) /\ Cardinality(done) \in Nat
        BY <1>3, <1>4, FS_Subset, FS_CardinalityType
      <4>2. Cardinality(done) = Cardinality(ids)
        BY <1>3, <3>1, <4>1, FS_CardinalityType
      <4>3. done = ids
        BY <1>3, <1>4, <4>2, FS_Subset
      <4> QED
        BY <1>6, <4>3
    <3> QED
      BY <1>4, <3>1
  <2>2. ASSUME NEW x \in ids \ done PROVE \E e \in es : e.to = x /\ e.from \in ids \ done
    <3>1. PICK l \in Links(bp) : l[2] = x /\ l[1] \notin done
      BY <2>1, <2>2 DEF KahnStep
    <3>2. PICK e : e = [from |-> l[1], to |-> l[2]]
      OBVIOUS
    <3>3. e \in es /\ e.from = l[1] /\ e.to = l[2]
      BY <1>3, <3>2
    <3> QED
      BY <1>3, <3>1, <3>3
  <2> HIDE DEF es, ids
  <2>3. IsFiniteSet(ids \ done)
    BY <1>3, FS_Difference
  <2>4. \E e \in es : e.from \in ReachedFrom(es, e.to)
    BY <1>3, <1>6, <2>2, <2>3, CycleAmong
  <2> QED
    BY <2>4 DEF es, ClosesCycle
<1> QED
  BY <1>1, <1>5, <1>6

\* What CycleVerdict takes for sound.
Sound(bp) ==
    /\ \A i, j \in DOMAIN bp.modules : bp.modules[i].id = bp.modules[j].id => i = j
    /\ \A e \in AsEdges(bp) : {e.from, e.to} \subseteq IdsOf(bp.modules)
    /\ \A e \in AsEdges(bp) : ~ClosesCycle(bp, e)
    /\ \A m \in Range(bp.modules) :
          m.spillway = NoId \/ \E n \in Range(bp.modules) : n.id = m.spillway

LEMMA UniqueIds ==
    ASSUME NEW ms, ms \in Seq(Range(ms))
    PROVE  Cardinality(IdsOf(ms)) = Len(ms) <=>
               \A i, j \in DOMAIN ms : ms[i].id = ms[j].id => i = j
<1> DEFINE name == [i \in DOMAIN ms |-> ms[i].id]
<1>1. DOMAIN ms = 1..Len(ms) /\ Len(ms) \in Nat
  OBVIOUS
<1>2. name \in Surjection(DOMAIN ms, IdsOf(ms))
  BY DEF Surjection, IdsOf, Range
<1>3. IsFiniteSet(DOMAIN ms) /\ Cardinality(DOMAIN ms) = Len(ms)
  BY <1>1, FS_Interval
<1>4. Cardinality(IdsOf(ms)) = Len(ms) <=> name \in Injection(DOMAIN ms, IdsOf(ms))
  BY <1>2, <1>3, FS_Surjection
<1>5. name \in Injection(DOMAIN ms, IdsOf(ms)) <=>
          \A i, j \in DOMAIN ms : ms[i].id = ms[j].id => i = j
  <2>1. name \in [DOMAIN ms -> IdsOf(ms)]
    BY <1>2 DEF Surjection
  <2>2. \A i \in DOMAIN ms : name[i] = ms[i].id
    OBVIOUS
  <2> HIDE DEF name
  <2> QED
    BY <2>1, <2>2 DEF Injection, IsInjective
<1> QED
  BY <1>4, <1>5

LEMMA ParsesIfSound ==
    ASSUME NEW bp, bp.modules \in Seq(Range(bp.modules))
    PROVE  Parses(bp) <=> Sound(bp)
<1>1. Cardinality(IdsOf(bp.modules)) = Len(bp.modules) <=>
          \A i, j \in DOMAIN bp.modules : bp.modules[i].id = bp.modules[j].id => i = j
  <2>1. PICK ms : ms = bp.modules
    OBVIOUS
  <2> QED
    BY <2>1, UniqueIds
<1>2. (\A l \in Links(bp) : {l[1], l[2]} \subseteq IdsOf(bp.modules)) <=>
          (\A e \in AsEdges(bp) : {e.from, e.to} \subseteq IdsOf(bp.modules))
  <2>1. \A l \in Links(bp) : \E e \in AsEdges(bp) : e.from = l[1] /\ e.to = l[2]
    <3> SUFFICES ASSUME NEW l \in Links(bp)
                 PROVE  \E e \in AsEdges(bp) : e.from = l[1] /\ e.to = l[2]
      OBVIOUS
    <3>1. PICK e : e = [from |-> l[1], to |-> l[2]]
      OBVIOUS
    <3> QED
      BY <3>1 DEF AsEdges
  <2>2. \A e \in AsEdges(bp) : \E l \in Links(bp) : e.from = l[1] /\ e.to = l[2]
    BY DEF AsEdges
  <2> QED
    BY <2>1, <2>2
<1>3. \A m \in Range(bp.modules) :
          m.spillway \in IdsOf(bp.modules) \cup {NoId} <=>
              m.spillway = NoId \/ \E n \in Range(bp.modules) : n.id = m.spillway
  BY DEF IdsOf
<1> QED
  BY <1>1, <1>2, <1>3, KahnFindsCycles DEF Parses, Sound

\* A blueprint that got past the parser parses; one that failed says at which stage.
VerdictInv ==
    /\ root \in Roots
    /\ stage \in {"parse", "expand", "wire", "gates", "ready", "failed"}
    /\ stage # "failed" => cause = "none"
    /\ stage \notin {"parse", "failed"} => Parses(root)
    /\ stage = "failed" => (Parses(root) <=> cause # "ParseError")

\* The parser refuses a blueprint for its graph exactly when an id is used twice,
\* an edge, a depends_on or a spillway names nothing, or a link closes a cycle,
\* and no later stage takes that verdict back.
THEOREM CyclesAreFound == CompileSpec => []CycleVerdict
<1>1. CompileInit => VerdictInv
  BY DEF CompileInit, VerdictInv
<1>2. VerdictInv /\ [CompileNext]_compileVars => VerdictInv'
  <2> SUFFICES ASSUME VerdictInv, [CompileNext]_compileVars PROVE VerdictInv'
    OBVIOUS
  <2>1. CASE ParseError
    BY <2>1 DEF ParseError, Fail, VerdictInv
  <2>2. CASE Parse
    BY <2>2 DEF Parse, VerdictInv
  <2>3. ASSUME root' = root, cause' = cause, stage' = stage PROVE VerdictInv'
    BY <2>3 DEF VerdictInv
  <2>4. ASSUME root' = root, cause' = cause, stage \notin {"parse", "failed"},
               stage' \in {"wire", "gates", "ready"}
        PROVE  VerdictInv'
    BY <2>4 DEF VerdictInv
  <2>5. ASSUME NEW why, Fail(why), why # "ParseError", stage \notin {"parse", "failed"}
        PROVE  VerdictInv'
    BY <2>5 DEF Fail, VerdictInv
  <2>6. CASE KeepModule
    BY <2>3, <2>6 DEF KeepModule
  <2>7. CASE ExpandArcade
    BY <2>3, <2>7 DEF ExpandArcade
  <2>8. CASE NextPass
    BY <2>3, <2>8 DEF NextPass
  <2>9. CASE Expanded
    BY <2>4, <2>9 DEF Expanded, PassOver
  <2>10. CASE Wire
    BY <2>4, <2>10 DEF Wire
  <2>11. CASE CompileAway
    BY <2>4, <2>11 DEF CompileAway
  <2>12. CASE ArcadeFails
    <3>1. ExpandError(Head(pending)) # "ParseError"
      BY DEF ExpandError
    <3> QED
      BY <2>5, <2>12, <3>1 DEF ArcadeFails, AtArcade
  <2>13. CASE CollisionFails
    BY <2>5, <2>13 DEF CollisionFails, PassOver
  <2>14. CASE TooDeep
    BY <2>5, <2>14 DEF TooDeep, PassOver
  <2>15. CASE WireError
    BY <2>5, <2>15 DEF WireError
  <2>16. CASE UNCHANGED compileVars
    BY <2>3, <2>16 DEF compileVars
  <2> QED
    BY <2>1, <2>2, <2>6, <2>7, <2>8, <2>9, <2>10, <2>11, <2>12, <2>13, <2>14, <2>15, <2>16
       DEF CompileNext
<1>3. VerdictInv => CycleVerdict
  <2> SUFFICES ASSUME VerdictInv PROVE CycleVerdict
    OBVIOUS
  <2>1. stage # "parse" => (Parses(root) <=> cause # "ParseError")
    BY DEF VerdictInv
  <2>2. root.modules \in Seq(Range(root.modules))
    BY CompileAssumption DEF VerdictInv
  <2>3. Parses(root) <=> Sound(root)
    BY <2>2, ParsesIfSound
  <2>4. CycleVerdict <=> (stage # "parse" => (Sound(root) <=> cause # "ParseError"))
    BY DEF CycleVerdict, Sound, AsEdges, ClosesCycle
  <2> QED
    BY <2>1, <2>3, <2>4
<1> QED
  BY <1>1, <1>2, <1>3, PTL DEF CompileSpec
=============================================================================
