--------------------------- MODULE SurveyorProofs ---------------------------
(***************************************************************************)
(* What runs, their executions and benchmarks can rely on in the DuckDB    *)
(* files they share, for every number of them, every set of ids and every  *)
(* order of their steps.  RunRecords: errors can be healed later           *)
(* (RecordsInv, about who owns which id and which row), and the hourly cap *)
(* bounds the sessions (SpendInv, about which sessions may still count).   *)
(* RunSignals: the Regulator and the explain gate go by the last rows      *)
(* (SignalsInv, about when rows were written and what they say).           *)
(* Benchmark: what exit 0 means (GradingInv, about who graded what) and    *)
(* what the gate compares (StoreInv, about the order of rows).             *)
(***************************************************************************)
EXTENDS RunRecords, RunSignals, Benchmark, FiniteSetTheorems, WellFoundedInduction, TLAPS

-----------------------------------------------------------------------------
(* Records.                                                                *)

Places == {"none", "executing", "deciding", "session", "tried"} \cup Recording \cup Gone
Under(r) == at[r] \notin Gone \cup {"none"}

RecordsTypeOK ==
    /\ multi \in BOOLEAN
    /\ at \in [Runs -> Places]
    /\ outer \in [Runs -> GivenIds \cup {Nothing}]
    /\ id \in [Runs -> Ids \cup {Nothing}]
    /\ patchCount \in [Runs -> Nat]
    /\ failure \in [Runs -> Failures \cup {Nothing}]
    /\ records \in [Ids -> RecordRow \cup {Nothing}]
    /\ manifests \in [Ids -> ManifestText \cup {Nothing, Torn}]
    /\ traces \in [Ids -> Runs \cup {Nothing, Torn}]
    /\ contexts \in [Ids -> ContextRow \cup {Nothing}]
    /\ now \in Nat

\* Whose an id is: the one a run was given, or a uuid of its own for the patch
\* it has come to; two runs under way are never given the same.
IdsOwned ==
    /\ \A r \in Runs :
        at[r] # "none" => /\ outer[r] \in GivenIds
                          /\ id[r] \in {outer[r], <<r, patchCount[r], "iteration">>,
                                        <<r, patchCount[r], "trial">>}
                          /\ id[r] \in Ids
    /\ \A q, r \in Runs : Under(q) /\ Under(r) /\ outer[q] = outer[r] => q = r

\* Where in the loop a trial can be.
TrialsPlaced ==
    \A r \in Runs :
        /\ at[r] = "tried" => Trying(r)
        /\ at[r] \in {"deciding", "session"} => ~Trying(r)
        /\ at[r] = "session" => ~Patched(r)

\* What a run that records a failure has already written.
RowsOwnedBy(r) ==
    /\ at[r] \in Recording =>
          /\ failure[r] \in Failures
          /\ records[id[r]] # Nothing /\ records[id[r]].by = r
    /\ at[r] \in {"stack", "trace", "context"} => manifests[id[r]] = SurveyorManifest(r)
    /\ at[r] = "context" /\ failure[r].class # Nothing => traces[id[r]] = r
RowsOwned == \A r \in Runs : RowsOwnedBy(r)

\* A stored path leads to a whole text, unless a run is recording a failure under
\* its id or was killed while it did.
PathsLead ==
    \A i \in Ids :
        contexts[i] # Nothing /\ (\A r \in Runs : ~HalfRecorded(r, i)) =>
            /\ manifests[i] \notin {Nothing, Torn}
            /\ contexts[i].trace # <<>> => traces[i] \notin {Nothing, Torn}

RecordsInv ==
    RecordsTypeOK /\ IdsOwned /\ TrialsPlaced /\ RowsOwned /\ PathsLead /\ ErrorsAreHealable

-----------------------------------------------------------------------------

SessionRow == [run : Runs, n : Nat, failure : Failures \cup {Nothing}, at : Nat,
               missed : BOOLEAN]
OutcomeRow == [run : Runs, n : Nat, attempt : Nat, applied : BOOLEAN, at : Nat]

Filed(s) == \E o \in outcomes : o.run = s.run /\ o.n = s.n

\* The session a run is in the middle of: no row yet, but one may come.
Open(s) ==
    \/ at[s.run] = "session" /\ s.n = patchCount[s.run]
    \/ /\ at[s.run] \in {"executing", "tried"} \cup Recording
       /\ Trying(s.run) /\ s.n + 1 = patchCount[s.run]

\* Sessions that count against the cap, or may yet.
Counting == {s \in sessions : s.at + Window >= now /\ ~s.missed /\ (Filed(s) \/ Open(s))}

\* A session is known by its run and the patches it comes after, and rows of it
\* are never older than it.
HistoryOrdered ==
    /\ IsFiniteSet(sessions) /\ sessions \subseteq SessionRow
    /\ IsFiniteSet(outcomes) /\ outcomes \subseteq OutcomeRow
    /\ \A s, t \in sessions : s.run = t.run /\ s.n = t.n => s = t
    /\ \A s \in sessions :
        /\ s.at <= now
        /\ s.n < patchCount[s.run] \/ (s.n = patchCount[s.run] /\ at[s.run] \in {"session"} \cup Gone)
    /\ \A o \in outcomes :
        /\ o.n < patchCount[o.run] \/ (o.n = patchCount[o.run] /\ at[o.run] \in Gone)
        /\ \A s \in sessions : s.run = o.run /\ s.n = o.n => s.at <= o.at

SpendInv ==
    HistoryOrdered /\ Cardinality(Counting) <= Cap + Cardinality(Runs) - 1

-----------------------------------------------------------------------------

\* A uuid of a run is an id nobody was given, and says what it is of.
LEMMA Uuids ==
    ASSUME NEW r \in Runs, NEW n \in 1..MaxPatches, NEW kind \in {"iteration", "trial"}
    PROVE  /\ <<r, n, kind>> \in Ids \ GivenIds
           /\ IsTrial(<<r, n, kind>>) <=> kind = "trial"
  BY RecordsAssumption DEF Ids, IsTrial

\* No two runs under way execute under one id.
LEMMA OneIdEach ==
    ASSUME RecordsTypeOK, IdsOwned
    PROVE  \A q, r \in Runs : Under(q) /\ Under(r) /\ id[q] = id[r] => q = r
<1> SUFFICES ASSUME NEW q \in Runs, NEW r \in Runs, Under(q), Under(r), id[q] = id[r]
             PROVE  q = r
  OBVIOUS
<1>1. \A p \in {q, r} : /\ outer[p] \in GivenIds
                        /\ id[p] \in {outer[p], <<p, patchCount[p], "iteration">>,
                                      <<p, patchCount[p], "trial">>}
                        /\ id[p] \in Ids
  BY DEF IdsOwned, Under
<1>2. \A p \in {q, r} : id[p] \notin GivenIds => id[p][1] = p
  BY <1>1
<1>3. CASE id[q] \in GivenIds
  <2>1. \A p \in {q, r} : outer[p] = id[p]
    <3> SUFFICES ASSUME NEW p \in {q, r}, outer[p] # id[p] PROVE FALSE
      OBVIOUS
    <3>1. id[p] \in {<<p, patchCount[p], "iteration">>, <<p, patchCount[p], "trial">>}
      BY <1>1
    <3>2. id[p] \in GivenIds
      BY <1>3
    <3>3. patchCount[p] \in Nat
      BY DEF RecordsTypeOK
    <3> QED BY <3>1, <3>2, <3>3, RecordsAssumption
  <2> QED BY <2>1 DEF IdsOwned
<1>4. CASE id[q] \notin GivenIds
  BY <1>2, <1>4
<1> QED BY <1>3, <1>4

\* The patch after a session, or the one that a trial is of, is within max_patches.
LEMMA PatchesInRange ==
    ASSUME RecordsTypeOK, IdsOwned, TrialsPlaced, NEW r \in Runs
    PROVE  /\ at[r] = "session" => patchCount[r] + 1 \in 1..MaxPatches
           /\ at[r] # "none" /\ Trying(r) => /\ id[r] = <<r, patchCount[r], "trial">>
                                             /\ patchCount[r] \in 1..MaxPatches
<1>1. patchCount[r] \in Nat /\ multi \in BOOLEAN
  BY DEF RecordsTypeOK
<1>2. ASSUME at[r] = "session" PROVE patchCount[r] + 1 \in 1..MaxPatches
  BY <1>1, <1>2, RecordsAssumption DEF TrialsPlaced, Patched
<1>3. ASSUME at[r] # "none", Trying(r)
      PROVE  id[r] = <<r, patchCount[r], "trial">> /\ patchCount[r] \in 1..MaxPatches
  <2>1. id[r] \notin GivenIds /\ id[r][3] = "trial"
    BY <1>3 DEF Trying, IsTrial
  <2>2. id[r] = <<r, patchCount[r], "trial">> /\ id[r] \in Ids
    BY <1>3, <2>1 DEF IdsOwned
  <2>3. id[r] \in Runs \X (1..MaxPatches) \X {"trial"}
    BY <2>1, <2>2 DEF Ids
  <2> QED BY <2>2, <2>3
<1> QED BY <1>2, <1>3

\* A step of a run that files a text.
WritesFile(r) == OpensManifest(r) \/ FillsManifest(r) \/ OpensTrace(r) \/ FillsTrace(r)

\* Such a step goes on recording, writes nothing but the files of its execution,
\* and leaves whole those it is done with.
LEMMA FilesWritten ==
    ASSUME RecordsTypeOK, IdsOwned, RowsOwned, NEW r \in Runs, WritesFile(r)
    PROVE  /\ at[r] \in Recording /\ at'[r] \in Recording \ {"blobs"}
           /\ \A q \in Runs \ {r} : at'[q] = at[q]
           /\ UNCHANGED <<outer, id, patchCount, failure, records, contexts, multi, now>>
           /\ at' \in [Runs -> Places]
           /\ id[r] \in Ids
           /\ manifests' \in [Ids -> ManifestText \cup {Nothing, Torn}]
           /\ traces' \in [Ids -> Runs \cup {Nothing, Torn}]
           /\ \A i \in Ids \ {id[r]} : manifests'[i] = manifests[i] /\ traces'[i] = traces[i]
           /\ at'[r] \in {"stack", "trace", "context"} => manifests'[id[r]] = SurveyorManifest(r)
           /\ at'[r] = "context" /\ failure[r].class # Nothing => traces'[id[r]] = r
<1> USE DEF Moves, Fixed, Put, RecordsTypeOK, Places, Recording
<1>1. id[r] \in Ids
  BY DEF WritesFile, OpensManifest, FillsManifest, OpensTrace, FillsTrace, IdsOwned
<1>2. SurveyorManifest(r) \in ManifestText
  BY RecordsAssumption DEF SurveyorManifest, ManifestText
<1>3. CASE OpensManifest(r)
  BY <1>1, <1>3 DEF OpensManifest
<1>4. CASE FillsManifest(r)
  BY <1>1, <1>2, <1>4 DEF FillsManifest
<1>5. CASE OpensTrace(r)
  BY <1>1, <1>5 DEF OpensTrace, TraceFile, RowsOwned, RowsOwnedBy
<1>6. CASE FillsTrace(r)
  BY <1>1, <1>6 DEF FillsTrace, TraceFile, RowsOwned, RowsOwnedBy
<1> QED
  BY <1>3, <1>4, <1>5, <1>6 DEF WritesFile

\* Every step keeps the types.
LEMMA TypesKept ==
    ASSUME RecordsTypeOK, IdsOwned, TrialsPlaced, RowsOwned, [RecordsNext]_recordsVars
    PROVE  RecordsTypeOK'
<1> USE DEF Moves, Fixed, Put, Gone, Recording, RecordsTypeOK, Places, storeVars, loopVars
<1>1. CASE Tick
  BY <1>1 DEF Tick
<1>2. ASSUME NEW r \in Runs, NEW given \in GivenIds, Starts(r, given) PROVE RecordsTypeOK'
  <2>1. given \in Ids
    BY DEF Ids
  <2>2. [status |-> "running", parent |-> Nothing, by |-> r] \in RecordRow
    BY DEF RecordRow
  <2> QED BY <1>2, <2>1, <2>2 DEF Starts
<1>3. ASSUME NEW r \in Runs, NEW f \in Failures \cup {Nothing}, RecordsRow(r, f) PROVE RecordsTypeOK'
  <2>1. at[r] # "none" /\ id[r] \in Ids /\ Parent(r) \in GivenIds \cup {Nothing}
    BY <1>3 DEF RecordsRow, Moves, IdsOwned, Parent
  <2>2. \A st \in {"error", "patched", "success"} :
           [status |-> st, parent |-> Parent(r), by |-> r] \in RecordRow
    BY <2>1 DEF RecordRow
  <2> QED BY <1>3, <2>1, <2>2 DEF RecordsRow
<1>4. ASSUME NEW r \in Runs, WritesFile(r) PROVE RecordsTypeOK'
  <2> HIDE DEF Moves, Fixed, Put
  <2> QED BY <1>4, FilesWritten
<1>5. ASSUME NEW r \in Runs, RecordsContext(r) PROVE RecordsTypeOK'
  <2>1. id[r] \in Ids /\ failure[r] \in Failures
    BY <1>5 DEF RecordsContext, Moves, IdsOwned, RowsOwned, RowsOwnedBy
  <2>2. StackTrace(r) \in {<<>>} \cup ({"blobs"} \X Ids)
    BY <2>1 DEF StackTrace
  <2>3. [by |-> r, label |-> failure[r].label, trace |-> StackTrace(r)] \in ContextRow
    BY <2>1, <2>2 DEF ContextRow
  <2> QED BY <1>5, <2>1, <2>3 DEF RecordsContext
<1>6. ASSUME NEW r \in Runs, NEW missed \in BOOLEAN, Asks(r, missed) PROVE RecordsTypeOK'
  BY <1>6 DEF Asks
<1>7. ASSUME NEW r \in Runs, DoesNotAsk(r) PROVE RecordsTypeOK'
  BY <1>7 DEF DoesNotAsk
<1>8. ASSUME NEW r \in Runs, NEW attempts \in 0..MaxAttempts, SessionFails(r, attempts) PROVE RecordsTypeOK'
  BY <1>8 DEF SessionFails
<1>9. ASSUME NEW r \in Runs, NEW applied \in BOOLEAN, Settles(r, applied) PROVE RecordsTypeOK'
  BY <1>9 DEF Settles
<1>10. ASSUME NEW r \in Runs, DoesNotCompile(r) PROVE RecordsTypeOK'
  BY <1>10 DEF DoesNotCompile
<1>11. ASSUME NEW r \in Runs, Rejected(r) PROVE RecordsTypeOK'
  <2>1. patchCount[r] + 1 \in 1..MaxPatches
    BY <1>11, PatchesInRange DEF Rejected, Moves
  <2>2. <<r, patchCount[r] + 1, "iteration">> \in Ids
    BY <2>1, Uuids
  <2> QED BY <1>11, <2>1, <2>2 DEF Rejected, Iterates
<1>12. ASSUME NEW r \in Runs, Tries(r) PROVE RecordsTypeOK'
  <2>1. patchCount[r] + 1 \in 1..MaxPatches
    BY <1>12, PatchesInRange DEF Tries, Moves
  <2>2. <<r, patchCount[r] + 1, "trial">> \in Ids
    BY <2>1, Uuids
  <2> QED BY <1>12, <2>1, <2>2 DEF Tries
<1>13. ASSUME NEW r \in Runs, TrialEnds(r) PROVE RecordsTypeOK'
  <2>1. patchCount[r] \in 1..MaxPatches
    BY <1>13, PatchesInRange DEF TrialEnds, Moves, TrialsPlaced
  <2>2. <<r, patchCount[r], "iteration">> \in Ids
    BY <2>1, Uuids
  <2> QED BY <1>13, <2>1, <2>2 DEF TrialEnds, Iterates
<1>14. ASSUME NEW r \in Runs, Dies(r) PROVE RecordsTypeOK'
  BY <1>14 DEF Dies
<1>15. CASE UNCHANGED recordsVars
  BY <1>15 DEF recordsVars
<1> QED
  BY <1>1, <1>2, <1>3, <1>4, <1>5, <1>6, <1>7, <1>8, <1>9, <1>10, <1>11, <1>12, <1>13, <1>14, <1>15 DEF RecordsNext, WritesFile

\* Every step leaves each id with its owner.
LEMMA IdsKept ==
    ASSUME RecordsTypeOK, IdsOwned, TrialsPlaced, [RecordsNext]_recordsVars
    PROVE  IdsOwned'
<1> USE DEF Moves, Fixed, Put, Gone, Recording, IdsOwned, Under, storeVars, loopVars, RecordsTypeOK
<1>1. CASE Tick
  BY <1>1 DEF Tick
<1>2. ASSUME NEW r \in Runs, NEW given \in GivenIds, Starts(r, given) PROVE IdsOwned'
  <2>1. given \in Ids
    BY DEF Ids
  <2> QED BY <1>2, <2>1 DEF Starts
<1>3. ASSUME NEW r \in Runs, NEW f \in Failures \cup {Nothing}, RecordsRow(r, f) PROVE IdsOwned'
  BY <1>3 DEF RecordsRow
<1>4. ASSUME NEW r \in Runs, WritesFile(r) PROVE IdsOwned'
  BY <1>4 DEF WritesFile, OpensManifest, FillsManifest, OpensTrace, FillsTrace
<1>5. ASSUME NEW r \in Runs, RecordsContext(r) PROVE IdsOwned'
  BY <1>5 DEF RecordsContext
<1>6. ASSUME NEW r \in Runs, NEW missed \in BOOLEAN, Asks(r, missed) PROVE IdsOwned'
  BY <1>6 DEF Asks
<1>7. ASSUME NEW r \in Runs, DoesNotAsk(r) PROVE IdsOwned'
  BY <1>7 DEF DoesNotAsk
<1>8. ASSUME NEW r \in Runs, NEW attempts \in 0..MaxAttempts, SessionFails(r, attempts) PROVE IdsOwned'
  BY <1>8 DEF SessionFails
<1>9. ASSUME NEW r \in Runs, NEW applied \in BOOLEAN, Settles(r, applied) PROVE IdsOwned'
  BY <1>9 DEF Settles
<1>10. ASSUME NEW r \in Runs, DoesNotCompile(r) PROVE IdsOwned'
  BY <1>10 DEF DoesNotCompile
<1>11. ASSUME NEW r \in Runs, Rejected(r) PROVE IdsOwned'
  <2>1. <<r, patchCount[r] + 1, "iteration">> \in Ids
    BY <1>11, PatchesInRange, Uuids DEF Rejected, Moves
  <2> QED BY <1>11, <2>1 DEF Rejected, Iterates
<1>12. ASSUME NEW r \in Runs, Tries(r) PROVE IdsOwned'
  <2>1. <<r, patchCount[r] + 1, "trial">> \in Ids
    BY <1>12, PatchesInRange, Uuids DEF Tries, Moves
  <2> QED BY <1>12, <2>1 DEF Tries
<1>13. ASSUME NEW r \in Runs, TrialEnds(r) PROVE IdsOwned'
  <2>1. <<r, patchCount[r], "iteration">> \in Ids
    <3>1. at[r] # "none" /\ Trying(r)
      BY <1>13 DEF TrialEnds, Moves, TrialsPlaced
    <3>2. patchCount[r] \in 1..MaxPatches
      BY <3>1, PatchesInRange
    <3> QED BY <3>2, Uuids
  <2>2. CASE multi /\ failure[r] # Nothing
    <3>1. /\ at' = [at EXCEPT ![r] = "executing"] /\ Iterates(r, patchCount[r]) /\ Fixed
          /\ UNCHANGED patchCount
      BY <1>13, <2>2 DEF TrialEnds, Moves
    <3>2. id' = [id EXCEPT ![r] = <<r, patchCount[r], "iteration">>]
      BY <3>1 DEF Iterates
    <3>3. at' = [at EXCEPT ![r] = "executing"] /\ UNCHANGED patchCount /\ UNCHANGED multi
      BY <3>1
    <3>4. UNCHANGED <<outer, patchCount>> /\ at[r] # "none"
      BY <1>13, <3>3 DEF TrialEnds
    <3>5. ASSUME NEW q \in Runs, at'[q] # "none"
          PROVE  /\ outer'[q] \in GivenIds
                 /\ id'[q] \in {outer'[q], <<q, patchCount'[q], "iteration">>,
                                 <<q, patchCount'[q], "trial">>}
                 /\ id'[q] \in Ids
      <4>1. CASE q = r
        BY <2>1, <3>2, <3>4, <4>1
      <4>2. CASE q # r
        BY <3>2, <3>3, <3>4, <3>5, <4>2
      <4> QED
        BY <4>1, <4>2
    <3>6. ASSUME NEW p \in Runs, NEW q \in Runs, Under(p)', Under(q)', outer'[p] = outer'[q]
          PROVE  p = q
      BY <1>13, <3>3, <3>4, <3>6 DEF TrialEnds
    <3> QED
      BY <3>5, <3>6
  <2>3. CASE ~(multi /\ failure[r] # Nothing)
    BY <1>13, <2>3 DEF TrialEnds
  <2> QED BY <2>2, <2>3
<1>14. ASSUME NEW r \in Runs, Dies(r) PROVE IdsOwned'
  BY <1>14 DEF Dies
<1>15. CASE UNCHANGED recordsVars
  BY <1>15 DEF recordsVars
<1> QED
  BY <1>1, <1>2, <1>3, <1>4, <1>5, <1>6, <1>7, <1>8, <1>9, <1>10, <1>11, <1>12, <1>13, <1>14, <1>15 DEF RecordsNext, WritesFile

\* Every step leaves trials where they can be.
LEMMA TrialsKept ==
    ASSUME RecordsTypeOK, IdsOwned, TrialsPlaced, [RecordsNext]_recordsVars
    PROVE  TrialsPlaced'
<1> USE DEF Moves, Fixed, Put, Gone, Recording, Iterates, TrialsPlaced, Trying, Patched, storeVars, loopVars, RecordsTypeOK
<1>1. CASE Tick
  BY <1>1 DEF Tick
<1>2. ASSUME NEW r \in Runs, NEW given \in GivenIds, Starts(r, given) PROVE TrialsPlaced'
  BY <1>2 DEF Starts
<1>3. ASSUME NEW r \in Runs, NEW f \in Failures \cup {Nothing}, RecordsRow(r, f) PROVE TrialsPlaced'
  BY <1>3 DEF RecordsRow
<1>4. ASSUME NEW r \in Runs, WritesFile(r) PROVE TrialsPlaced'
  BY <1>4 DEF WritesFile, OpensManifest, FillsManifest, OpensTrace, FillsTrace
<1>5. ASSUME NEW r \in Runs, RecordsContext(r) PROVE TrialsPlaced'
  BY <1>5 DEF RecordsContext
<1>6. ASSUME NEW r \in Runs, NEW missed \in BOOLEAN, Asks(r, missed) PROVE TrialsPlaced'
  BY <1>6 DEF Asks
<1>7. ASSUME NEW r \in Runs, DoesNotAsk(r) PROVE TrialsPlaced'
  BY <1>7 DEF DoesNotAsk
<1>8. ASSUME NEW r \in Runs, NEW attempts \in 0..MaxAttempts, SessionFails(r, attempts) PROVE TrialsPlaced'
  BY <1>8 DEF SessionFails
<1>9. ASSUME NEW r \in Runs, NEW applied \in BOOLEAN, Settles(r, applied) PROVE TrialsPlaced'
  BY <1>9 DEF Settles
<1>10. ASSUME NEW r \in Runs, DoesNotCompile(r) PROVE TrialsPlaced'
  BY <1>10 DEF DoesNotCompile
<1>11. ASSUME NEW r \in Runs, Rejected(r) PROVE TrialsPlaced'
  BY <1>11 DEF Rejected
<1>12. ASSUME NEW r \in Runs, Tries(r) PROVE TrialsPlaced'
  BY <1>12 DEF Tries
<1>13. ASSUME NEW r \in Runs, TrialEnds(r) PROVE TrialsPlaced'
  BY <1>13 DEF TrialEnds
<1>14. ASSUME NEW r \in Runs, Dies(r) PROVE TrialsPlaced'
  BY <1>14 DEF Dies
<1>15. CASE UNCHANGED recordsVars
  BY <1>15 DEF recordsVars
<1> QED
  BY <1>1, <1>2, <1>3, <1>4, <1>5, <1>6, <1>7, <1>8, <1>9, <1>10, <1>11, <1>12, <1>13, <1>14, <1>15 DEF RecordsNext, WritesFile

\* A run that records a failure has its id for itself.
LEMMA RecordersApart ==
    ASSUME RecordsTypeOK, IdsOwned, NEW r \in Runs, Under(r)
    PROVE  \A q \in Runs \ {r} : at[q] \in Recording => id[q] \in Ids \ {id[r]}
<1> SUFFICES ASSUME NEW q \in Runs \ {r}, at[q] \in Recording
             PROVE  id[q] \in Ids \ {id[r]}
  OBVIOUS
<1>1. Under(q)
  BY DEF Under, Recording, Gone
<1>2. id[q] \in Ids
  BY <1>1 DEF Under, IdsOwned
<1> QED
  BY <1>1, <1>2, OneIdEach

\* Every step leaves a run the rows it goes by: another that writes
\* one of them would have its id.
LEMMA RowsKept ==
    ASSUME RecordsTypeOK, IdsOwned, TrialsPlaced, RowsOwned, [RecordsNext]_recordsVars
    PROVE  RowsOwned'
<1> USE DEF Moves, Fixed, Put, Gone, Recording, SurveyorManifest, Iterates, RowsOwned, RowsOwnedBy, storeVars, loopVars, RecordsTypeOK
<1>1. CASE Tick
  BY <1>1 DEF Tick
<1>2. ASSUME NEW r \in Runs, NEW given \in GivenIds, Starts(r, given) PROVE RowsOwned'
  <2>1. \A q \in Runs : at[q] \in Recording => q # r /\ id[q] # given
    <3> SUFFICES ASSUME NEW q \in Runs, at[q] \in Recording PROVE q # r /\ id[q] # given
      OBVIOUS
    <3>1. outer[q] # given /\ q # r
      BY <1>2 DEF Starts
    <3>2. id[q] = given => id[q] = outer[q]
      BY RecordsAssumption DEF IdsOwned
    <3> QED BY <3>1, <3>2
  <2>2. given \in Ids
    BY DEF Ids
  <2>3. /\ at'[r] = "executing" /\ \A q \in Runs \ {r} : at'[q] = at[q] /\ id'[q] = id[q]
        /\ \A i \in Ids \ {given} : records'[i] = records[i]
        /\ UNCHANGED <<failure, manifests, traces>>
    BY <1>2, <2>2 DEF Starts
  <2>4. \A q \in Runs : at[q] \in Recording => id[q] \in Ids
    BY DEF IdsOwned
  <2> HIDE DEF Moves, Fixed, Put, RecordsTypeOK
  <2>9. ASSUME NEW q \in Runs PROVE RowsOwnedBy(q)'
    <3>0. RowsOwnedBy(q)
      OBVIOUS
    <3> HIDE DEF RowsOwned
    <3>1. CASE q = r
      BY <2>1, <2>3, <2>4, <3>0, <3>1
    <3>2. CASE q # r /\ at[q] \in Recording
      BY <2>1, <2>3, <2>4, <3>0, <3>2
    <3>3. CASE q # r /\ at[q] \notin Recording
      BY <2>1, <2>3, <2>4, <3>3
    <3> QED BY <3>1, <3>2, <3>3
  <2> QED BY <2>9
<1>3. ASSUME NEW r \in Runs, NEW f \in Failures \cup {Nothing}, RecordsRow(r, f) PROVE RowsOwned'
  <2>1. \A q \in Runs \ {r} : at[q] \in Recording => id[q] # id[r]
    BY <1>3, RecordersApart DEF RecordsRow, Under
  <2>2. at[r] # "none" /\ id[r] \in Ids
    BY <1>3 DEF RecordsRow, IdsOwned
  <2>3. /\ records'[id[r]].by = r /\ records'[id[r]] # Nothing
        /\ \A q \in Runs \ {r} : records'[id[q]] = records[id[q]] \/ id[q] = id[r]
        /\ failure'[r] = f /\ \A q \in Runs \ {r} : failure'[q] = failure[q]
        /\ f # Nothing => at'[r] = "blobs"
        /\ f = Nothing => at'[r] \notin Recording
        /\ \A q \in Runs \ {r} : at'[q] = at[q]
        /\ UNCHANGED <<id, manifests, traces>>
    <3>1. Parent(r) \in GivenIds \cup {Nothing}
      BY <2>2 DEF Parent, IdsOwned
    <3>2. \A st \in {"error", "patched", "success"} :
             [status |-> st, parent |-> Parent(r), by |-> r] \in RecordRow
      BY <3>1 DEF RecordRow
    <3> QED BY <1>3, <2>2, <3>2, RecordsAssumption DEF RecordsRow
  <2> HIDE DEF Moves, Fixed, Put, RecordsTypeOK
  <2>9. ASSUME NEW q \in Runs PROVE RowsOwnedBy(q)'
    <3>0. RowsOwnedBy(q)
      OBVIOUS
    <3> HIDE DEF RowsOwned
    <3>1. CASE q = r
      BY <2>1, <2>3, <3>0, <3>1
    <3>2. CASE q # r /\ at[q] \in Recording
      BY <2>1, <2>3, <3>0, <3>2
    <3>3. CASE q # r /\ at[q] \notin Recording
      BY <2>1, <2>3, <3>3
    <3> QED BY <3>1, <3>2, <3>3
  <2> QED BY <2>9
<1>4. ASSUME NEW r \in Runs, WritesFile(r) PROVE RowsOwned'
  <2>0. Under(r)
    BY <1>4, FilesWritten DEF Under
  <2>1. \A q \in Runs \ {r} : at[q] \in Recording => id[q] \in Ids \ {id[r]}
    BY <2>0, RecordersApart
  <2>2. /\ at[r] \in Recording /\ at'[r] \in Recording \ {"blobs"}
        /\ \A q \in Runs \ {r} : at'[q] = at[q]
        /\ id' = id /\ failure' = failure /\ records' = records
        /\ \A i \in Ids \ {id[r]} : manifests'[i] = manifests[i] /\ traces'[i] = traces[i]
        /\ at'[r] \in {"stack", "trace", "context"} => manifests'[id[r]] = SurveyorManifest(r)
        /\ at'[r] = "context" /\ failure[r].class # Nothing => traces'[id[r]] = r
    BY <1>4, FilesWritten
  <2> HIDE DEF Moves, Fixed, Put, RecordsTypeOK
  <2>9. ASSUME NEW q \in Runs PROVE RowsOwnedBy(q)'
    <3>0. RowsOwnedBy(q)
      OBVIOUS
    <3> HIDE DEF RowsOwned
    <3>1. CASE q = r
      BY <2>1, <2>2, <3>0, <3>1
    <3>2. CASE q # r /\ at[q] \in Recording
      BY <2>1, <2>2, <3>0, <3>2
    <3>3. CASE q # r /\ at[q] \notin Recording
      BY <2>1, <2>2, <3>3
    <3> QED BY <3>1, <3>2, <3>3
  <2> QED BY <2>9
<1>5. ASSUME NEW r \in Runs, RecordsContext(r) PROVE RowsOwned'
  BY <1>5 DEF RecordsContext
<1>6. ASSUME NEW r \in Runs, NEW missed \in BOOLEAN, Asks(r, missed) PROVE RowsOwned'
  BY <1>6 DEF Asks
<1>7. ASSUME NEW r \in Runs, DoesNotAsk(r) PROVE RowsOwned'
  BY <1>7 DEF DoesNotAsk
<1>8. ASSUME NEW r \in Runs, NEW attempts \in 0..MaxAttempts, SessionFails(r, attempts) PROVE RowsOwned'
  BY <1>8 DEF SessionFails
<1>9. ASSUME NEW r \in Runs, NEW applied \in BOOLEAN, Settles(r, applied) PROVE RowsOwned'
  BY <1>9 DEF Settles
<1>10. ASSUME NEW r \in Runs, DoesNotCompile(r) PROVE RowsOwned'
  BY <1>10 DEF DoesNotCompile
<1>11. ASSUME NEW r \in Runs, Rejected(r) PROVE RowsOwned'
  BY <1>11 DEF Rejected
<1>12. ASSUME NEW r \in Runs, Tries(r) PROVE RowsOwned'
  BY <1>12 DEF Tries
<1>13. ASSUME NEW r \in Runs, TrialEnds(r) PROVE RowsOwned'
  <2>1. /\ at'[r] \in {"executing", "ended"} /\ UNCHANGED <<failure, records, manifests, traces>>
        /\ \A q \in Runs \ {r} : at'[q] = at[q] /\ id'[q] = id[q]
    BY <1>13 DEF TrialEnds
  <2> HIDE DEF Moves, Fixed, Put, RecordsTypeOK
  <2> QED BY <2>1
<1>14. ASSUME NEW r \in Runs, Dies(r) PROVE RowsOwned'
  BY <1>14 DEF Dies
<1>15. CASE UNCHANGED recordsVars
  BY <1>15 DEF recordsVars
<1> QED
  BY <1>1, <1>2, <1>3, <1>4, <1>5, <1>6, <1>7, <1>8, <1>9, <1>10, <1>11, <1>12, <1>13, <1>14, <1>15 DEF RecordsNext, WritesFile

\* Every step leaves stored paths leading to files.
LEMMA PathsKept ==
    ASSUME RecordsTypeOK, IdsOwned, RowsOwned, PathsLead, [RecordsNext]_recordsVars
    PROVE  PathsLead'
<1> USE DEF Moves, Fixed, Put, Gone, Recording, Iterates, PathsLead, HalfRecorded, storeVars, loopVars, RecordsTypeOK
<1>1. CASE Tick
  BY <1>1 DEF Tick
<1>2. ASSUME NEW r \in Runs, NEW given \in GivenIds, Starts(r, given) PROVE PathsLead'
  BY <1>2 DEF Starts
<1>3. ASSUME NEW r \in Runs, NEW f \in Failures \cup {Nothing}, RecordsRow(r, f) PROVE PathsLead'
  BY <1>3 DEF RecordsRow
<1>4. ASSUME NEW r \in Runs, WritesFile(r) PROVE PathsLead'
  <2>1. /\ at[r] \in Recording /\ at'[r] \in Recording
        /\ \A q \in Runs \ {r} : at'[q] = at[q]
        /\ id' = id /\ contexts' = contexts
        /\ \A i \in Ids \ {id[r]} : manifests'[i] = manifests[i] /\ traces'[i] = traces[i]
    BY <1>4, FilesWritten
  <2> HIDE DEF Moves, Fixed, Put
  <2> QED BY <2>1
<1>5. ASSUME NEW r \in Runs, RecordsContext(r) PROVE PathsLead'
  <2>1. /\ id[r] \in Ids /\ manifests[id[r]] = SurveyorManifest(r)
        /\ failure[r].class # Nothing => traces[id[r]] = r
    BY <1>5 DEF RecordsContext, IdsOwned, RowsOwned, RowsOwnedBy
  <2>2. SurveyorManifest(r) \notin {Nothing, Torn} /\ r \notin {Nothing, Torn}
    BY RecordsAssumption DEF SurveyorManifest, ManifestText
  <2>3. StackTrace(r) # <<>> => traces[id[r]] = r
    BY <2>1 DEF StackTrace
  <2>4. /\ at[r] = "context" /\ at'[r] \notin Recording /\ \A q \in Runs \ {r} : at'[q] = at[q]
        /\ UNCHANGED <<id, manifests, traces>>
        /\ contexts'[id[r]].trace = StackTrace(r)
        /\ \A i \in Ids \ {id[r]} : contexts'[i] = contexts[i]
    BY <1>5, <2>1 DEF RecordsContext
  <2> HIDE DEF Moves, Fixed, Put
  <2>5. ASSUME NEW i \in Ids, contexts'[i] # Nothing, \A q \in Runs : ~HalfRecorded(q, i)'
        PROVE  /\ manifests'[i] \notin {Nothing, Torn}
               /\ contexts'[i].trace # <<>> => traces'[i] \notin {Nothing, Torn}
    <3>1. CASE i = id[r]
      BY <2>1, <2>2, <2>3, <2>4, <3>1
    <3>2. CASE i # id[r]
      BY <2>4, <2>5, <3>2
    <3> QED BY <3>1, <3>2
  <2> QED BY <2>5
<1>6. ASSUME NEW r \in Runs, NEW missed \in BOOLEAN, Asks(r, missed) PROVE PathsLead'
  BY <1>6 DEF Asks
<1>7. ASSUME NEW r \in Runs, DoesNotAsk(r) PROVE PathsLead'
  BY <1>7 DEF DoesNotAsk
<1>8. ASSUME NEW r \in Runs, NEW attempts \in 0..MaxAttempts, SessionFails(r, attempts) PROVE PathsLead'
  BY <1>8 DEF SessionFails
<1>9. ASSUME NEW r \in Runs, NEW applied \in BOOLEAN, Settles(r, applied) PROVE PathsLead'
  BY <1>9 DEF Settles
<1>10. ASSUME NEW r \in Runs, DoesNotCompile(r) PROVE PathsLead'
  BY <1>10 DEF DoesNotCompile
<1>11. ASSUME NEW r \in Runs, Rejected(r) PROVE PathsLead'
  BY <1>11 DEF Rejected
<1>12. ASSUME NEW r \in Runs, Tries(r) PROVE PathsLead'
  BY <1>12 DEF Tries
<1>13. ASSUME NEW r \in Runs, TrialEnds(r) PROVE PathsLead'
  BY <1>13 DEF TrialEnds
<1>14. ASSUME NEW r \in Runs, Dies(r) PROVE PathsLead'
  BY <1>14 DEF Dies
<1>15. CASE UNCHANGED recordsVars
  BY <1>15 DEF recordsVars
<1> QED
  BY <1>1, <1>2, <1>3, <1>4, <1>5, <1>6, <1>7, <1>8, <1>9, <1>10, <1>11, <1>12, <1>13, <1>14, <1>15 DEF RecordsNext, WritesFile

\* An error that its run is done recording, is still recording, or was killed over.
RowTells(i) ==
    records[i] # Nothing /\ records[i].status = "error" =>
        LET r == records[i].by
        IN  \/ HalfRecorded(r, i)
            \/ /\ contexts[i] # Nothing /\ contexts[i].by = r
               /\ manifests[i] = SurveyorManifest(r)
               /\ contexts[i].trace = <<>> \/ traces[i] = r

\* The two halves of ErrorsAreHealable.
LEMMA HealableHalves ==
    ASSUME RecordsTypeOK
    PROVE  ErrorsAreHealable <=> PathsLead /\ \A i \in Ids : RowTells(i)
<1>1. \A i \in Ids : contexts[i] # Nothing => contexts[i].by \in Runs \ {Nothing, Torn}
  BY RecordsAssumption DEF RecordsTypeOK, ContextRow
<1>2. \A i \in Ids : \A r \in Runs : IsTrial(i) \/ Ran(r, i) = SurveyorManifest(r)
  BY DEF Ran, SurveyorManifest
<1>3. \A i \in Ids : records[i] # Nothing => records[i].by \in Runs
  BY RecordsAssumption DEF RecordsTypeOK, RecordRow
<1> QED BY <1>1, <1>2, <1>3 DEF ErrorsAreHealable, PathsLead, RowTells, HealReads

\* Every step leaves an error healable, or its run still recording it.
LEMMA HealableKept ==
    ASSUME RecordsTypeOK, IdsOwned, TrialsPlaced, RowsOwned, \A i \in Ids : RowTells(i),
           [RecordsNext]_recordsVars
    PROVE  \A i \in Ids : RowTells(i)'
<1> USE DEF Moves, Fixed, Put, Gone, Recording, Iterates, RowTells, HalfRecorded, SurveyorManifest, storeVars, loopVars, RecordsTypeOK
<1>1. CASE Tick
  <2>1. \A i \in Ids : records[i] # Nothing => records[i].by \in Runs
    BY RecordsAssumption DEF RecordRow
  <2> QED BY <1>1, <2>1 DEF Tick
<1>2. ASSUME NEW r \in Runs, NEW given \in GivenIds, Starts(r, given) PROVE \A i \in Ids : RowTells(i)'
  <2>1. given \in Ids
    BY DEF Ids
  <2>2. \A i \in Ids \ {given} : records'[i] = records[i]
    BY <1>2 DEF Starts
  <2>3. records'[given].status # "error"
    BY <1>2, <2>1 DEF Starts
  <2>4. \A q \in Runs \ {r} : id'[q] = id[q] /\ at'[q] = at[q]
    BY <1>2 DEF Starts
  <2>5. at[r] = "none" /\ UNCHANGED <<manifests, traces, contexts>>
    BY <1>2 DEF Starts
  <2>6. \A i \in Ids : records[i] # Nothing => records[i].by \in Runs
    BY RecordsAssumption DEF RecordRow
  <2>7. ASSUME NEW i \in Ids PROVE RowTells(i)'
    <3>1. CASE i = given
      BY <2>3, <3>1
    <3>2. CASE i # given
      <4>1. records'[i] = records[i] /\ RowTells(i)
        BY <2>2, <3>2
      <4>2. CASE records[i] # Nothing /\ records[i].by = r
        BY <2>5, <4>1, <4>2
      <4>3. CASE ~(records[i] # Nothing /\ records[i].by = r)
        BY <2>4, <2>5, <2>6, <4>1, <4>3
      <4> QED BY <4>2, <4>3
    <3> QED BY <3>1, <3>2
  <2> QED BY <2>7
<1>3. ASSUME NEW r \in Runs, NEW f \in Failures \cup {Nothing}, RecordsRow(r, f) PROVE \A i \in Ids : RowTells(i)'
  <2>1. id[r] \in Ids /\ at[r] = "executing"
    BY <1>3 DEF RecordsRow, IdsOwned
  <2>2. /\ \A i \in Ids \ {id[r]} : records'[i] = records[i]
        /\ \A q \in Runs \ {r} : at'[q] = at[q]
        /\ UNCHANGED <<id, manifests, traces, contexts>>
    BY <1>3 DEF RecordsRow
  <2>3. records'[id[r]].status = "error" => records'[id[r]].by = r /\ at'[r] = "blobs"
    BY <1>3, <2>1 DEF RecordsRow
  <2>4. \A i \in Ids : records[i] # Nothing => records[i].by \in Runs
    BY RecordsAssumption DEF RecordRow
  <2>5. ASSUME NEW i \in Ids PROVE RowTells(i)'
    <3>1. CASE i = id[r]
      BY <2>1, <2>2, <2>3, <3>1
    <3>2. CASE i # id[r]
      <4>1. records'[i] = records[i] /\ RowTells(i)
        BY <2>2, <3>2
      <4> QED BY <2>1, <2>2, <2>4, <4>1, <3>2
    <3> QED BY <3>1, <3>2
  <2> QED BY <2>5
<1>4. ASSUME NEW r \in Runs, WritesFile(r) PROVE \A i \in Ids : RowTells(i)'
  <2>1. id[r] \in Ids /\ records[id[r]].by = r /\ at[r] \in Recording
    BY <1>4, FilesWritten DEF RowsOwned, RowsOwnedBy
  <2>2. /\ \A i \in Ids \ {id[r]} : manifests'[i] = manifests[i] /\ traces'[i] = traces[i]
        /\ at'[r] \in Recording /\ \A q \in Runs \ {r} : at'[q] = at[q]
        /\ UNCHANGED <<id, records, contexts>>
    BY <1>4, FilesWritten
  <2> HIDE DEF Moves, Fixed, Put
  <2>3. \A i \in Ids : records[i] # Nothing => records[i].by \in Runs
    BY RecordsAssumption DEF RecordRow
  <2>4. ASSUME NEW i \in Ids PROVE RowTells(i)'
    <3>1. CASE i = id[r]
      BY <2>1, <2>2, <3>1
    <3>2. CASE i # id[r]
      <4>1. RowTells(i)
        OBVIOUS
      <4> QED BY <2>1, <2>2, <2>3, <4>1, <3>2
    <3> QED BY <3>1, <3>2
  <2> QED BY <2>4
<1>5. ASSUME NEW r \in Runs, RecordsContext(r) PROVE \A i \in Ids : RowTells(i)'
  <2>1. /\ id[r] \in Ids /\ records[id[r]].by = r /\ at[r] = "context"
        /\ manifests[id[r]] = SurveyorManifest(r)
        /\ failure[r].class # Nothing => traces[id[r]] = r
    BY <1>5 DEF RecordsContext, IdsOwned, RowsOwned, RowsOwnedBy
  <2>2. /\ \A i \in Ids \ {id[r]} : contexts'[i] = contexts[i]
        /\ \A q \in Runs \ {r} : at'[q] = at[q]
        /\ UNCHANGED <<id, records, manifests, traces>>
    BY <1>5 DEF RecordsContext
  <2>3. contexts'[id[r]] = [by |-> r, label |-> failure[r].label, trace |-> StackTrace(r)]
    BY <1>5, <2>1 DEF RecordsContext
  <2>4. contexts'[id[r]] # Nothing /\ contexts'[id[r]].by = r
        /\ contexts'[id[r]].trace = StackTrace(r)
    <3>1. failure[r] \in Failures
      BY <1>5 DEF RecordsContext, RowsOwned, RowsOwnedBy
    <3>2. StackTrace(r) \in {<<>>} \cup ({"blobs"} \X Ids)
      BY <2>1 DEF StackTrace
    <3>3. [by |-> r, label |-> failure[r].label, trace |-> StackTrace(r)] \in ContextRow
      BY <3>1, <3>2 DEF ContextRow
    <3> QED BY <2>3, <3>3, RecordsAssumption
  <2>5. StackTrace(r) = <<>> \/ traces[id[r]] = r
    BY <2>1 DEF StackTrace
  <2>6. \A i \in Ids : records[i] # Nothing => records[i].by \in Runs
    BY RecordsAssumption DEF RecordRow
  <2>7. ASSUME NEW i \in Ids PROVE RowTells(i)'
    <3>1. CASE i = id[r]
      BY <2>1, <2>2, <2>4, <2>5, <3>1
    <3>2. CASE i # id[r]
      <4>1. RowTells(i)
        OBVIOUS
      <4> QED BY <2>1, <2>2, <2>6, <4>1, <3>2
    <3> QED BY <3>1, <3>2
  <2> QED BY <2>7
<1>6. ASSUME NEW r \in Runs, NEW missed \in BOOLEAN, Asks(r, missed) PROVE \A i \in Ids : RowTells(i)'
  <2>1. \A i \in Ids : records[i] # Nothing => records[i].by \in Runs
    BY RecordsAssumption DEF RecordRow
  <2> QED BY <1>6, <2>1 DEF Asks
<1>7. ASSUME NEW r \in Runs, DoesNotAsk(r) PROVE \A i \in Ids : RowTells(i)'
  <2>1. \A i \in Ids : records[i] # Nothing => records[i].by \in Runs
    BY RecordsAssumption DEF RecordRow
  <2> QED BY <1>7, <2>1 DEF DoesNotAsk
<1>8. ASSUME NEW r \in Runs, NEW attempts \in 0..MaxAttempts, SessionFails(r, attempts) PROVE \A i \in Ids : RowTells(i)'
  <2>1. \A i \in Ids : records[i] # Nothing => records[i].by \in Runs
    BY RecordsAssumption DEF RecordRow
  <2> QED BY <1>8, <2>1 DEF SessionFails
<1>9. ASSUME NEW r \in Runs, NEW applied \in BOOLEAN, Settles(r, applied) PROVE \A i \in Ids : RowTells(i)'
  <2>1. \A i \in Ids : records[i] # Nothing => records[i].by \in Runs
    BY RecordsAssumption DEF RecordRow
  <2> QED BY <1>9, <2>1 DEF Settles
<1>10. ASSUME NEW r \in Runs, DoesNotCompile(r) PROVE \A i \in Ids : RowTells(i)'
  <2>1. \A i \in Ids : records[i] # Nothing => records[i].by \in Runs
    BY RecordsAssumption DEF RecordRow
  <2> QED BY <1>10, <2>1 DEF DoesNotCompile
<1>11. ASSUME NEW r \in Runs, Rejected(r) PROVE \A i \in Ids : RowTells(i)'
  <2>1. \A i \in Ids : records[i] # Nothing => records[i].by \in Runs
    BY RecordsAssumption DEF RecordRow
  <2> QED BY <1>11, <2>1 DEF Rejected
<1>12. ASSUME NEW r \in Runs, Tries(r) PROVE \A i \in Ids : RowTells(i)'
  <2>1. \A i \in Ids : records[i] # Nothing => records[i].by \in Runs
    BY RecordsAssumption DEF RecordRow
  <2> QED BY <1>12, <2>1 DEF Tries
<1>13. ASSUME NEW r \in Runs, TrialEnds(r) PROVE \A i \in Ids : RowTells(i)'
  <2>1. \A i \in Ids : records[i] # Nothing => records[i].by \in Runs
    BY RecordsAssumption DEF RecordRow
  <2> QED BY <1>13, <2>1 DEF TrialEnds
<1>14. ASSUME NEW r \in Runs, Dies(r) PROVE \A i \in Ids : RowTells(i)'
  <2>1. \A i \in Ids : records[i] # Nothing => records[i].by \in Runs
    BY RecordsAssumption DEF RecordRow
  <2> QED BY <1>14, <2>1 DEF Dies
<1>15. CASE UNCHANGED recordsVars
  BY <1>15 DEF recordsVars
<1> QED
  BY <1>1, <1>2, <1>3, <1>4, <1>5, <1>6, <1>7, <1>8, <1>9, <1>10, <1>11, <1>12, <1>13, <1>14, <1>15 DEF RecordsNext, WritesFile

\* Every behaviour of the store keeps its invariant.
THEOREM RecordsInvariant == RecordsSpec => []RecordsInv
<1>1. RecordsInit => RecordsInv
  <2> SUFFICES ASSUME RecordsInit PROVE RecordsInv
    OBVIOUS
  <2>1. RecordsTypeOK
    BY DEF RecordsInit, RecordsTypeOK, Places
  <2>2. IdsOwned /\ TrialsPlaced /\ RowsOwned /\ PathsLead
    BY DEF RecordsInit, IdsOwned, TrialsPlaced, RowsOwned, RowsOwnedBy, PathsLead, Under, Recording, Gone
  <2>3. \A i \in Ids : RowTells(i)
    BY DEF RecordsInit, RowTells
  <2> QED BY <2>1, <2>2, <2>3, HealableHalves DEF RecordsInv
<1>2. RecordsInv /\ [RecordsNext]_recordsVars => RecordsInv'
  <2> SUFFICES ASSUME RecordsInv, [RecordsNext]_recordsVars PROVE RecordsInv'
    OBVIOUS
  <2>1. \A i \in Ids : RowTells(i)
    BY HealableHalves DEF RecordsInv
  <2>2. RecordsTypeOK' /\ IdsOwned' /\ TrialsPlaced' /\ RowsOwned' /\ PathsLead'
    BY TypesKept, IdsKept, TrialsKept, RowsKept, PathsKept DEF RecordsInv
  <2>3. \A i \in Ids : RowTells(i)'
    BY <2>1, HealableKept DEF RecordsInv
  <2>4. /\ \A i \in Ids : contexts'[i] # Nothing => contexts'[i].by \in Runs \ {Nothing, Torn}
        /\ \A i \in Ids : records'[i] # Nothing => records'[i].by \in Runs
        /\ \A i \in Ids : \A r \in Runs : IsTrial(i) \/ Ran(r, i) = SurveyorManifest(r)
    BY <2>2, RecordsAssumption DEF RecordsTypeOK, ContextRow, RecordRow, Ran, SurveyorManifest
  <2>5. ErrorsAreHealable'
    BY <2>2, <2>3, <2>4 DEF ErrorsAreHealable, PathsLead, RowTells, HealReads, HalfRecorded,
                            SurveyorManifest, Ran
  <2> QED BY <2>2, <2>5 DEF RecordsInv
<1> QED BY <1>1, <1>2, PTL DEF RecordsSpec

\* Whatever ids runs share: of an execution whose row says error, Surveyor.record
\* stored the context, the trace and the manifest its run was started with, and
\* `aqueduct heal` reads them, unless the run is still recording the failure or was
\* killed while it did; and what stored paths lead to is whole but where a run is
\* recording under the id or was killed over it (surveyor.py, record; blob_store.py).
THEOREM ErrorsHealable == RecordsSpec => []ErrorsAreHealable
<1>1. RecordsInv => ErrorsAreHealable
  BY DEF RecordsInv
<1> QED BY <1>1, RecordsInvariant, PTL

-----------------------------------------------------------------------------
(* The cap.                                                                 *)

\* The rows a session leaves: finitely many, of that session, and of now.
LEMMA RowsAdded ==
    ASSUME NEW r \in Runs, NEW attempts \in Nat, NEW n \in Nat, NEW applied \in BOOLEAN,
           now \in Nat, IsFiniteSet(outcomes), outcomes \subseteq OutcomeRow,
           outcomes' = outcomes \cup
               {[run |-> r, n |-> n, attempt |-> a, applied |-> applied, at |-> now] :
                   a \in 1..attempts}
    PROVE  /\ IsFiniteSet(outcomes') /\ outcomes' \subseteq OutcomeRow
           /\ \A o \in outcomes' : o \in outcomes \/ (o.run = r /\ o.n = n /\ o.at = now)
           /\ outcomes \subseteq outcomes'
<1> DEFINE row(a) == [run |-> r, n |-> n, attempt |-> a, applied |-> applied, at |-> now]
           rows == {row(a) : a \in 1..attempts}
           f == [a \in 1..attempts |-> row(a)]
<1>1. IsFiniteSet(1..attempts)
  BY FS_Interval
<1>2. f \in Surjection(1..attempts, rows)
  BY DEF Surjection
<1>3. IsFiniteSet(rows)
  BY <1>1, <1>2, FS_Surjection
<1>4. \A a \in 1..attempts : row(a) \in OutcomeRow
  BY DEF OutcomeRow
<1>5. outcomes' = outcomes \cup rows
  OBVIOUS
<1>6. \A o \in rows : o \in OutcomeRow /\ o.run = r /\ o.n = n /\ o.at = now
  BY <1>4
<1> HIDE DEF rows
<1>7. IsFiniteSet(outcomes')
  BY <1>3, <1>5, FS_Union
<1> QED BY <1>5, <1>6, <1>7

\* What every step says of the rows it adds: they are of now, and of a session
\* that was open.
RowsAreOfOpenSession ==
    /\ IsFiniteSet(outcomes') /\ outcomes' \subseteq OutcomeRow
    /\ outcomes \subseteq outcomes'
    /\ \A o \in outcomes' \ outcomes :
        /\ o.at = now
        /\ \/ at[o.run] = "session" /\ o.n = patchCount[o.run]
           \/ at[o.run] = "tried" /\ Trying(o.run) /\ o.n + 1 = patchCount[o.run]
        /\ o.n < patchCount'[o.run] \/ (o.n = patchCount'[o.run] /\ at'[o.run] = "ended")

\* Every step adds rows of an open session only.
LEMMA RowsOfOpenSession ==
    ASSUME RecordsInv, HistoryOrdered, [RecordsNext]_recordsVars
    PROVE  RowsAreOfOpenSession
<1> USE DEF Moves, Fixed, Put, Gone, Recording, Iterates, RowsAreOfOpenSession, HistoryOrdered, storeVars, loopVars
<1>1. CASE Tick
  BY <1>1 DEF Tick
<1>2. ASSUME NEW r \in Runs, NEW given \in GivenIds, Starts(r, given) PROVE RowsAreOfOpenSession
  BY <1>2 DEF Starts
<1>3. ASSUME NEW r \in Runs, NEW f \in Failures \cup {Nothing}, RecordsRow(r, f) PROVE RowsAreOfOpenSession
  BY <1>3 DEF RecordsRow
<1>4. ASSUME NEW r \in Runs, WritesFile(r) PROVE RowsAreOfOpenSession
  BY <1>4 DEF WritesFile, OpensManifest, FillsManifest, OpensTrace, FillsTrace
<1>5. ASSUME NEW r \in Runs, RecordsContext(r) PROVE RowsAreOfOpenSession
  BY <1>5 DEF RecordsContext
<1>6. ASSUME NEW r \in Runs, NEW missed \in BOOLEAN, Asks(r, missed) PROVE RowsAreOfOpenSession
  BY <1>6 DEF Asks
<1>7. ASSUME NEW r \in Runs, DoesNotAsk(r) PROVE RowsAreOfOpenSession
  BY <1>7 DEF DoesNotAsk
<1>8. ASSUME NEW r \in Runs, NEW attempts \in 0..MaxAttempts, SessionFails(r, attempts) PROVE RowsAreOfOpenSession
  <2>1. patchCount[r] \in Nat /\ now \in Nat /\ attempts \in Nat /\ FALSE \in BOOLEAN
    BY RecordsAssumption DEF RecordsInv, RecordsTypeOK
  <2>2. outcomes' = outcomes \cup
            {[run |-> r, n |-> patchCount[r], attempt |-> a, applied |-> FALSE, at |-> now] :
                a \in 1..attempts}
    BY <1>8 DEF SessionFails, Records
  <2>3. /\ IsFiniteSet(outcomes') /\ outcomes' \subseteq OutcomeRow
        /\ \A o \in outcomes' : o \in outcomes \/ (o.run = r /\ o.n = patchCount[r] /\ o.at = now)
        /\ outcomes \subseteq outcomes'
    BY <2>1, <2>2, RowsAdded
  <2> QED BY <1>8, <2>1, <2>3 DEF SessionFails, RecordsInv, RecordsTypeOK
<1>9. ASSUME NEW r \in Runs, NEW applied \in BOOLEAN, Settles(r, applied) PROVE RowsAreOfOpenSession
  <2>a. CASE applied
    <3>1. patchCount[r] \in Nat /\ now \in Nat /\ 1 \in Nat /\ TRUE \in BOOLEAN
      BY RecordsAssumption DEF RecordsInv, RecordsTypeOK
    <3>2. outcomes' = outcomes \cup
              {[run |-> r, n |-> patchCount[r], attempt |-> a, applied |-> TRUE, at |-> now] :
                  a \in 1..1}
      BY <1>9, <2>a DEF Settles, Records
    <3>3. /\ IsFiniteSet(outcomes') /\ outcomes' \subseteq OutcomeRow
          /\ \A o \in outcomes' : o \in outcomes \/ (o.run = r /\ o.n = patchCount[r] /\ o.at = now)
          /\ outcomes \subseteq outcomes'
      BY <3>1, <3>2, RowsAdded
    <3> QED BY <1>9, <2>a, <3>1, <3>3 DEF Settles, RecordsInv, RecordsTypeOK
  <2>b. CASE ~applied
    <3>1. patchCount[r] \in Nat /\ now \in Nat /\ 1 \in Nat /\ FALSE \in BOOLEAN
      BY RecordsAssumption DEF RecordsInv, RecordsTypeOK
    <3>2. outcomes' = outcomes \cup
              {[run |-> r, n |-> patchCount[r], attempt |-> a, applied |-> FALSE, at |-> now] :
                  a \in 1..1}
      BY <1>9, <2>b DEF Settles, Records
    <3>3. /\ IsFiniteSet(outcomes') /\ outcomes' \subseteq OutcomeRow
          /\ \A o \in outcomes' : o \in outcomes \/ (o.run = r /\ o.n = patchCount[r] /\ o.at = now)
          /\ outcomes \subseteq outcomes'
      BY <3>1, <3>2, RowsAdded
    <3> QED BY <1>9, <2>b, <3>1, <3>3 DEF Settles, RecordsInv, RecordsTypeOK
  <2> QED BY <2>a, <2>b
<1>10. ASSUME NEW r \in Runs, DoesNotCompile(r) PROVE RowsAreOfOpenSession
  <2>a. CASE multi
    <3>1. patchCount[r] \in Nat /\ now \in Nat /\ 1 \in Nat /\ FALSE \in BOOLEAN
      BY RecordsAssumption DEF RecordsInv, RecordsTypeOK
    <3>2. outcomes' = outcomes \cup
              {[run |-> r, n |-> patchCount[r], attempt |-> a, applied |-> FALSE, at |-> now] :
                  a \in 1..1}
      BY <1>10, <2>a DEF DoesNotCompile, Records
    <3>3. /\ IsFiniteSet(outcomes') /\ outcomes' \subseteq OutcomeRow
          /\ \A o \in outcomes' : o \in outcomes \/ (o.run = r /\ o.n = patchCount[r] /\ o.at = now)
          /\ outcomes \subseteq outcomes'
      BY <3>1, <3>2, RowsAdded
    <3> QED BY <1>10, <2>a, <3>1, <3>3 DEF DoesNotCompile, RecordsInv, RecordsTypeOK
  <2>b. CASE ~multi
    BY <1>10, <2>b DEF DoesNotCompile
  <2> QED BY <2>a, <2>b
<1>11. ASSUME NEW r \in Runs, Rejected(r) PROVE RowsAreOfOpenSession
  <2>1. patchCount[r] \in Nat /\ now \in Nat /\ 1 \in Nat /\ FALSE \in BOOLEAN
    BY RecordsAssumption DEF RecordsInv, RecordsTypeOK
  <2>2. outcomes' = outcomes \cup
            {[run |-> r, n |-> patchCount[r], attempt |-> a, applied |-> FALSE, at |-> now] :
                a \in 1..1}
    BY <1>11 DEF Rejected, Records
  <2>3. /\ IsFiniteSet(outcomes') /\ outcomes' \subseteq OutcomeRow
        /\ \A o \in outcomes' : o \in outcomes \/ (o.run = r /\ o.n = patchCount[r] /\ o.at = now)
        /\ outcomes \subseteq outcomes'
    BY <2>1, <2>2, RowsAdded
  <2> QED BY <1>11, <2>1, <2>3 DEF Rejected, RecordsInv, RecordsTypeOK
<1>12. ASSUME NEW r \in Runs, Tries(r) PROVE RowsAreOfOpenSession
  BY <1>12 DEF Tries
<1>13. ASSUME NEW r \in Runs, TrialEnds(r) PROVE RowsAreOfOpenSession
  <2>1. patchCount[r] - 1 \in Nat /\ now \in Nat /\ Trying(r) /\ at[r] = "tried"
    BY <1>13, PatchesInRange DEF TrialEnds, RecordsInv, RecordsTypeOK, TrialsPlaced
  <2> DEFINE o == [run |-> r, n |-> patchCount[r] - 1, attempt |-> 1, applied |-> TRUE, at |-> now]
  <2>2. outcomes' = outcomes \cup {o}
    BY <1>13 DEF TrialEnds
  <2>3. o \in OutcomeRow
    BY <2>1 DEF OutcomeRow
  <2>4. IsFiniteSet(outcomes')
    BY <2>2, FS_AddElement
  <2>5. o.at = now /\ o.run = r /\ o.n + 1 = patchCount[r] /\ patchCount' = patchCount
    BY <1>13, <2>1 DEF TrialEnds, RecordsInv, RecordsTypeOK
  <2>6. o.n \in Nat /\ patchCount[r] \in Nat
    BY <2>1, <2>3, <2>5 DEF RecordsInv, RecordsTypeOK
  <2> HIDE DEF o
  <2> QED BY <2>1, <2>2, <2>3, <2>4, <2>5, <2>6
<1>14. ASSUME NEW r \in Runs, Dies(r) PROVE RowsAreOfOpenSession
  BY <1>14 DEF Dies
<1>15. CASE UNCHANGED recordsVars
  BY <1>15 DEF recordsVars
<1> QED
  BY <1>1, <1>2, <1>3, <1>4, <1>5, <1>6, <1>7, <1>8, <1>9, <1>10, <1>11, <1>12, <1>13, <1>14, <1>15 DEF RecordsNext, WritesFile

\* How a step moves a run, as far as the sessions are concerned.
Advances(q) ==
    /\ patchCount'[q] \in {patchCount[q], patchCount[q] + 1}
    /\ at[q] \in Gone => at'[q] = at[q] /\ patchCount'[q] = patchCount[q]
    /\ at[q] = "session" => at'[q] \in {"session"} \cup Gone \/ patchCount'[q] # patchCount[q]
    /\ at'[q] = "session" => at[q] \in {"session", "deciding"} /\ patchCount'[q] = patchCount[q]
    /\ at'[q] \in {"executing", "tried"} \cup Recording /\ Trying(q)' =>
          \/ /\ at[q] \in {"executing", "tried"} \cup Recording /\ Trying(q)
             /\ patchCount'[q] = patchCount[q]
          \/ at[q] = "session" /\ patchCount'[q] # patchCount[q]

\* Every step moves each run forward, and only Asks begins a session.
LEMMA RunsAdvance ==
    ASSUME RecordsInv, [RecordsNext]_recordsVars
    PROVE  /\ \A q \in Runs : Advances(q)
           /\ now' \in Nat /\ now <= now'
           /\ \/ sessions' = sessions
              \/ \E r \in Runs, missed \in BOOLEAN : Asks(r, missed)
<1> DEFINE Goal == /\ \A q \in Runs : Advances(q)
                   /\ now' \in Nat /\ now <= now'
                   /\ \/ sessions' = sessions
                      \/ \E r \in Runs, missed \in BOOLEAN : Asks(r, missed)
<1>0. RecordsTypeOK
  BY DEF RecordsInv
<1> USE <1>0 DEF Moves, Fixed, Put, Gone, Recording, Iterates, Advances, Trying, storeVars, loopVars, RecordsTypeOK
<1>1. CASE Tick
  BY <1>1 DEF Tick
<1>2. ASSUME NEW r \in Runs, NEW given \in GivenIds, Starts(r, given) PROVE Goal
  <2>1. ~IsTrial(given)
    BY DEF IsTrial
  <2> QED BY <1>2, <2>1 DEF Starts
<1>3. ASSUME NEW r \in Runs, NEW f \in Failures \cup {Nothing}, RecordsRow(r, f) PROVE Goal
  BY <1>3 DEF RecordsRow
<1>4. ASSUME NEW r \in Runs, WritesFile(r) PROVE Goal
  BY <1>4 DEF WritesFile, OpensManifest, FillsManifest, OpensTrace, FillsTrace
<1>5. ASSUME NEW r \in Runs, RecordsContext(r) PROVE Goal
  BY <1>5 DEF RecordsContext
<1>6. ASSUME NEW r \in Runs, NEW missed \in BOOLEAN, Asks(r, missed) PROVE Goal
  <2>1. \A q \in Runs : Advances(q)
    BY <1>6 DEF Asks
  <2>2. \E q \in Runs, m \in BOOLEAN : Asks(q, m)
    BY <1>6, Zenon
  <2>3. now' \in Nat /\ now <= now'
    BY <1>6 DEF Asks
  <2> QED BY <2>1, <2>2, <2>3
<1>7. ASSUME NEW r \in Runs, DoesNotAsk(r) PROVE Goal
  BY <1>7 DEF DoesNotAsk
<1>8. ASSUME NEW r \in Runs, NEW attempts \in 0..MaxAttempts, SessionFails(r, attempts) PROVE Goal
  BY <1>8 DEF SessionFails
<1>9. ASSUME NEW r \in Runs, NEW applied \in BOOLEAN, Settles(r, applied) PROVE Goal
  BY <1>9 DEF Settles
<1>10. ASSUME NEW r \in Runs, DoesNotCompile(r) PROVE Goal
  BY <1>10 DEF DoesNotCompile
<1>11. ASSUME NEW r \in Runs, Rejected(r) PROVE Goal
  <2>1. ~IsTrial(<<r, patchCount[r] + 1, "iteration">>)
    BY <1>11, PatchesInRange, Uuids DEF Rejected, RecordsInv
  <2> QED BY <1>11, <2>1 DEF Rejected
<1>12. ASSUME NEW r \in Runs, Tries(r) PROVE Goal
  BY <1>12 DEF Tries
<1>13. ASSUME NEW r \in Runs, TrialEnds(r) PROVE Goal
  <2>1. ~IsTrial(<<r, patchCount[r], "iteration">>)
    BY <1>13, PatchesInRange, Uuids DEF TrialEnds, RecordsInv, TrialsPlaced
  <2>2. CASE multi /\ failure[r] # Nothing
    BY <1>13, <2>1, <2>2 DEF TrialEnds
  <2>3. CASE ~(multi /\ failure[r] # Nothing)
    BY <1>13, <2>3 DEF TrialEnds
  <2> QED BY <2>2, <2>3
<1>14. ASSUME NEW r \in Runs, Dies(r) PROVE Goal
  BY <1>14 DEF Dies
<1>15. CASE UNCHANGED recordsVars
  BY <1>15 DEF recordsVars
<1> QED
  BY <1>1, <1>2, <1>3, <1>4, <1>5, <1>6, <1>7, <1>8, <1>9, <1>10, <1>11, <1>12, <1>13, <1>14, <1>15 DEF RecordsNext, WritesFile

\* Every step keeps the history in order.
LEMMA HistoryKept ==
    ASSUME RecordsInv, HistoryOrdered, [RecordsNext]_recordsVars
    PROVE  HistoryOrdered'
<1>1. RowsAreOfOpenSession
  BY RowsOfOpenSession
<1>2. /\ \A q \in Runs : Advances(q)
      /\ now' \in Nat /\ now <= now'
      /\ \/ sessions' = sessions
         \/ \E r \in Runs, missed \in BOOLEAN : Asks(r, missed)
  BY RunsAdvance
<1>3. now \in Nat /\ \A q \in Runs : patchCount[q] \in Nat
  BY DEF RecordsInv, RecordsTypeOK
<1>4. \A s \in sessions : s.run \in Runs /\ s.n \in Nat /\ s.at \in Nat
  BY DEF HistoryOrdered, SessionRow
<1>5. \A o \in outcomes' : o.run \in Runs /\ o.n \in Nat /\ o.at \in Nat
  BY <1>1 DEF RowsAreOfOpenSession, OutcomeRow
<1>6. \A s \in sessions :
         /\ s.at <= now'
         /\ \/ s.n < patchCount'[s.run]
            \/ s.n = patchCount'[s.run] /\ at'[s.run] \in {"session"} \cup Gone
  BY <1>2, <1>3, <1>4 DEF HistoryOrdered, Advances
<1>7. \A o \in outcomes' :
         \/ o.n < patchCount'[o.run]
         \/ o.n = patchCount'[o.run] /\ at'[o.run] \in Gone
  BY <1>1, <1>2, <1>3, <1>5 DEF HistoryOrdered, Advances, RowsAreOfOpenSession
<1>8. \A o \in outcomes' : \A s \in sessions : s.run = o.run /\ s.n = o.n => s.at <= o.at
  BY <1>1, <1>4 DEF HistoryOrdered, RowsAreOfOpenSession
<1>9. IsFiniteSet(outcomes') /\ outcomes' \subseteq OutcomeRow
  BY <1>1 DEF RowsAreOfOpenSession
<1>10. CASE sessions' = sessions
  BY <1>6, <1>7, <1>8, <1>9, <1>10 DEF HistoryOrdered
<1>11. CASE \E r \in Runs, missed \in BOOLEAN : Asks(r, missed)
  <2> PICK r \in Runs, missed \in BOOLEAN : Asks(r, missed)
    BY <1>11
  <2> DEFINE new == [run |-> r, n |-> patchCount[r], failure |-> failure[r],
                     at |-> now, missed |-> missed]
  <2>1. /\ sessions' = sessions \cup {new}
        /\ at[r] = "deciding" /\ at'[r] = "session"
        /\ UNCHANGED <<patchCount, outcomes, now>>
    BY DEF Asks, Moves, Fixed, loopVars, storeVars, RecordsInv, RecordsTypeOK
  <2>2. new \in SessionRow
    BY <1>3 DEF SessionRow, RecordsInv, RecordsTypeOK
  <2>3. new.run = r /\ new.n = patchCount[r] /\ new.at = now
    OBVIOUS
  <2> HIDE DEF new
  <2>4. IsFiniteSet(sessions') /\ sessions' \subseteq SessionRow
    BY <2>1, <2>2, FS_AddElement DEF HistoryOrdered
  <2>5. \A s \in sessions : s.run = r => s.n < patchCount[r]
    BY <2>1, <1>4 DEF HistoryOrdered, Gone
  <2>6. \A o \in outcomes : o.run = r => o.n < patchCount[r]
    BY <2>1 DEF HistoryOrdered, Gone
  <2>7. \A s, t \in sessions' : s.run = t.run /\ s.n = t.n => s = t
    BY <2>1, <2>3, <2>5, <1>3, <1>4 DEF HistoryOrdered
  <2>8. \A s \in sessions' :
           /\ s.at <= now'
           /\ s.n < patchCount'[s.run] \/ (s.n = patchCount'[s.run] /\ at'[s.run] \in {"session"} \cup Gone)
    BY <2>1, <2>3, <1>3, <1>6
  <2>9. \A o \in outcomes' : \A s \in sessions' : s.run = o.run /\ s.n = o.n => s.at <= o.at
    BY <2>1, <2>3, <2>6, <1>3, <1>5, <1>8
  <2> QED BY <1>7, <1>9, <2>4, <2>7, <2>8, <2>9 DEF HistoryOrdered
<1> QED BY <1>2, <1>10, <1>11

\* A session that counts after a step counted before, or the step began it on a
\* count that was below the cap.
LEMMA CountingKept ==
    ASSUME RecordsInv, HistoryOrdered, [RecordsNext]_recordsVars,
           NEW s \in sessions, s \in Counting'
    PROVE  s \in Counting
<1>1. RowsAreOfOpenSession
  BY RowsOfOpenSession
<1>2. Advances(s.run) /\ now' \in Nat /\ now <= now'
  BY RunsAdvance DEF HistoryOrdered, SessionRow
<1>3. now \in Nat /\ patchCount[s.run] \in Nat /\ s.n \in Nat /\ s.at \in Nat /\ Window \in Nat
  BY RecordsAssumption DEF RecordsInv, RecordsTypeOK, HistoryOrdered, SessionRow
<1>4. s.at + Window >= now /\ ~s.missed
  BY <1>2, <1>3 DEF Counting
<1>5. ASSUME Filed(s)' PROVE Filed(s) \/ Open(s)
  <2>1. PICK o \in outcomes' : o.run = s.run /\ o.n = s.n
    BY <1>5 DEF Filed
  <2>2. CASE o \in outcomes
    BY <2>1, <2>2 DEF Filed
  <2>3. CASE o \notin outcomes
    BY <1>1, <2>1, <2>3 DEF RowsAreOfOpenSession, Open
  <2> QED BY <2>2, <2>3
<1>6. ASSUME Open(s)' PROVE Open(s)
  <2>1. at[s.run] = "deciding" => s.n # patchCount[s.run]
    BY <1>3 DEF HistoryOrdered, Gone
  <2>2. at[s.run] = "session" /\ s.n + 1 = patchCount'[s.run] /\ patchCount'[s.run] # patchCount[s.run]
           => s.n = patchCount[s.run]
    BY <1>2, <1>3 DEF Advances
  <2> QED BY <1>2, <1>6, <2>1, <2>2 DEF Advances, Open
<1> QED BY <1>4, <1>5, <1>6 DEF Counting

\* Sessions that have rows of the last hour are no more than these rows.
LEMMA FiledAtMostRecent ==
    ASSUME RecordsInv, HistoryOrdered
    PROVE  LET filed == {s \in sessions : s.at + Window >= now /\ Filed(s)}
           IN  IsFiniteSet(filed) /\ Cardinality(filed) <= Recent
<1> DEFINE filed == {s \in sessions : s.at + Window >= now /\ Filed(s)}
           rows == {o \in outcomes : o.at + Window >= now}
           row == [s \in filed |-> CHOOSE o \in rows : o.run = s.run /\ o.n = s.n]
<1>1. \A s \in filed : \E o \in rows : o.run = s.run /\ o.n = s.n
  <2> SUFFICES ASSUME NEW s \in filed PROVE \E o \in rows : o.run = s.run /\ o.n = s.n
    OBVIOUS
  <2>1. PICK o \in outcomes : o.run = s.run /\ o.n = s.n
    BY DEF Filed
  <2>2. s.at <= o.at /\ s.at \in Nat /\ o.at \in Nat
    BY <2>1 DEF HistoryOrdered, SessionRow, OutcomeRow
  <2>3. now \in Nat /\ Window \in Nat
    BY RecordsAssumption DEF RecordsInv, RecordsTypeOK
  <2> QED BY <2>1, <2>2, <2>3
<1>2. \A s \in filed : row[s] \in rows /\ row[s].run = s.run /\ row[s].n = s.n
  <2> HIDE DEF filed, rows
  <2> QED BY <1>1
<1>3. \A s, t \in filed : row[s] = row[t] => s = t
  <2> SUFFICES ASSUME NEW s \in filed, NEW t \in filed, row[s] = row[t] PROVE s = t
    OBVIOUS
  <2>1. s.run = t.run /\ s.n = t.n
    <3> HIDE DEF row
    <3> QED BY <1>2
  <2> QED BY <2>1 DEF HistoryOrdered
<1>4. row \in Injection(filed, rows)
  <2> HIDE DEF filed, rows
  <2>1. row \in [filed -> rows]
    BY <1>2
  <2> QED BY <2>1, <1>3 DEF Injection, IsInjective
<1>5. IsFiniteSet(rows)
  BY FS_Subset DEF HistoryOrdered
<1>6. IsFiniteSet(filed) /\ Cardinality(filed) <= Cardinality(rows)
  <2> HIDE DEF filed, rows, row
  <2> QED BY <1>4, <1>5, FS_Injection
<1> QED BY <1>6 DEF Recent

\* While a run decides, at most one session is open for each other run.
LEMMA OneOpenEach ==
    ASSUME HistoryOrdered, \A q \in Runs : patchCount[q] \in Nat,
           NEW r \in Runs, at[r] = "deciding"
    PROVE  LET open == {s \in sessions : Open(s)}
           IN  IsFiniteSet(open) /\ Cardinality(open) <= Cardinality(Runs) - 1
<1> DEFINE open == {s \in sessions : Open(s)}
           owner == [s \in open |-> s.run]
<1>1. \A s \in open : s \in sessions /\ s.run \in Runs \ {r} /\ s.n \in Nat /\ Open(s)
  BY DEF HistoryOrdered, SessionRow, Open, Recording
<1>2. \A s, t \in open : s.run = t.run => s.n = t.n
  BY <1>1 DEF Open, Recording
<1>3. \A s, t \in open : s.run = t.run => s = t
  BY <1>1, <1>2 DEF HistoryOrdered
<1>4. owner \in Injection(open, Runs \ {r})
  <2> HIDE DEF open
  <2> QED BY <1>1, <1>3 DEF Injection, IsInjective
<1>5. IsFiniteSet(Runs \ {r}) /\ Cardinality(Runs \ {r}) = Cardinality(Runs) - 1
  BY RecordsAssumption, FS_RemoveElement
<1>6. IsFiniteSet(open) /\ Cardinality(open) <= Cardinality(Runs \ {r})
  <2> HIDE DEF open, owner
  <2> QED BY <1>4, <1>5, FS_Injection
<1> QED BY <1>5, <1>6

\* Every step keeps the count of the sessions that may count within the bound.
LEMMA CountKept ==
    ASSUME RecordsInv, SpendInv, [RecordsNext]_recordsVars
    PROVE  Cardinality(Counting') <= Cap + Cardinality(Runs) - 1
<1>1. IsFiniteSet(Counting) /\ Cardinality(Counting) \in Nat
  BY FS_Subset, FS_CardinalityType DEF SpendInv, HistoryOrdered, Counting
<1>2. Cap \in Nat /\ Cardinality(Runs) \in Nat
  BY RecordsAssumption, FS_CardinalityType
<1>3. \A s \in sessions : s \in Counting' => s \in Counting
  BY CountingKept DEF SpendInv
<1>4. CASE Counting' \subseteq Counting
  <2>1. IsFiniteSet(Counting') /\ Cardinality(Counting') <= Cardinality(Counting)
    BY <1>1, <1>4, FS_Subset
  <2>2. Cardinality(Counting') \in Nat
    BY <2>1, FS_CardinalityType
  <2> QED BY <1>1, <1>2, <2>1, <2>2 DEF SpendInv
<1>5. ASSUME ~(Counting' \subseteq Counting)
      PROVE  Cardinality(Counting') <= Cap + Cardinality(Runs) - 1
  <2>1. sessions' # sessions
    BY <1>3, <1>5 DEF Counting
  <2>2. \E r \in Runs, missed \in BOOLEAN : Asks(r, missed)
    BY <2>1, RunsAdvance
  <2> PICK r \in Runs, missed \in BOOLEAN : Asks(r, missed)
    BY <2>2
  <2> DEFINE new == [run |-> r, n |-> patchCount[r], failure |-> failure[r],
                     at |-> now, missed |-> missed]
             filed == {s \in sessions : s.at + Window >= now /\ Filed(s)}
             open == {s \in sessions : Open(s)}
  <2>3. sessions' = sessions \cup {new}
    BY DEF Asks
  <2>4. ~missed
    <3>1. \A s \in Counting' : s \in sessions' /\ ~s.missed
      BY DEF Counting
    <3> QED BY <1>3, <1>5, <2>3, <3>1
  <2>5. Recent < Cap /\ at[r] = "deciding"
    BY <2>4 DEF Asks, Moves
  <2>6. Counting' \subseteq (filed \cup open) \cup {new}
    <3>1. \A s \in sessions : s \in Counting' => s \in filed \/ s \in open
      BY <1>3 DEF Counting
    <3> QED BY <2>3, <3>1 DEF Counting
  <2>7. \A q \in Runs : patchCount[q] \in Nat
    BY DEF RecordsInv, RecordsTypeOK
  <2>8. IsFiniteSet(filed) /\ Cardinality(filed) <= Recent
    BY FiledAtMostRecent DEF SpendInv
  <2>9. IsFiniteSet(open) /\ Cardinality(open) <= Cardinality(Runs) - 1
    BY <2>5, <2>7, OneOpenEach DEF SpendInv
  <2>10. Recent \in Nat
    <3>1. IsFiniteSet({o \in outcomes : o.at + Window >= now})
      BY FS_Subset DEF SpendInv, HistoryOrdered
    <3> QED BY <3>1, FS_CardinalityType DEF Recent
  <2> HIDE DEF new, filed, open
  <2>11. IsFiniteSet(filed \cup open)
         /\ Cardinality(filed \cup open) <= Cardinality(filed) + Cardinality(open)
    <3>1. IsFiniteSet(filed \cap open)
      BY <2>8, FS_Subset
    <3>2. /\ Cardinality(filed) \in Nat /\ Cardinality(open) \in Nat
          /\ Cardinality(filed \cap open) \in Nat
      BY <2>8, <2>9, <3>1, FS_CardinalityType
    <3>3. /\ IsFiniteSet(filed \cup open)
          /\ Cardinality(filed \cup open)
                = Cardinality(filed) + Cardinality(open) - Cardinality(filed \cap open)
      BY <2>8, <2>9, FS_Union
    <3> QED BY <3>2, <3>3
  <2>12. IsFiniteSet((filed \cup open) \cup {new})
         /\ Cardinality((filed \cup open) \cup {new}) <= Cardinality(filed \cup open) + 1
    BY <2>11, FS_AddElement, FS_CardinalityType
  <2>13. Cardinality(Counting') <= Cardinality((filed \cup open) \cup {new})
    BY <2>6, <2>12, FS_Subset
  <2>14. /\ IsFiniteSet(Counting')
         /\ Cardinality(Counting') \in Nat
         /\ Cardinality(filed) \in Nat /\ Cardinality(open) \in Nat
         /\ Cardinality(filed \cup open) \in Nat
         /\ Cardinality((filed \cup open) \cup {new}) \in Nat
    BY <2>6, <2>8, <2>9, <2>11, <2>12, FS_Subset, FS_CardinalityType
  <2> QED BY <1>2, <2>5, <2>8, <2>9, <2>10, <2>11, <2>12, <2>13, <2>14
<1> QED BY <1>4, <1>5

\* Every behaviour of the store keeps the sessions within the bound.
THEOREM SpendInvariant == RecordsSpec => []SpendInv
<1>1. RecordsInit => SpendInv
  <2> SUFFICES ASSUME RecordsInit PROVE SpendInv
    OBVIOUS
  <2>1. HistoryOrdered
    BY FS_EmptySet DEF RecordsInit, HistoryOrdered
  <2>2. Counting = {}
    BY DEF RecordsInit, Counting
  <2>3. Cardinality(Runs) \in Nat /\ Cap \in Nat /\ Cap > 0
    BY RecordsAssumption, FS_CardinalityType
  <2> QED BY <2>1, <2>2, <2>3, FS_EmptySet DEF SpendInv
<1>2. RecordsInv /\ SpendInv /\ [RecordsNext]_recordsVars => SpendInv'
  <2> SUFFICES ASSUME RecordsInv, SpendInv, [RecordsNext]_recordsVars PROVE SpendInv'
    OBVIOUS
  <2>1. HistoryOrdered'
    BY HistoryKept DEF SpendInv
  <2> QED BY <2>1, CountKept DEF SpendInv
<1> QED BY <1>1, <1>2, RecordsInvariant, PTL DEF RecordsSpec

\* However runs and trials interleave and die, an hour holds at most the cap and
\* one session for each other run (cli.py, run; surveyor.py,
\* count_recent_heal_attempts).
THEOREM SpendIsCapped == RecordsSpec => []SpendCapped
<1>1. SpendInv => SpendCapped
  <2> SUFFICES ASSUME SpendInv PROVE SpendCapped
    OBVIOUS
  <2> DEFINE counted == {s \in sessions : /\ s.at + Window >= now /\ ~s.missed
                                          /\ \E o \in outcomes : o.run = s.run /\ o.n = s.n}
  <2>1. counted \subseteq Counting
    BY DEF Counting, Filed
  <2>2. IsFiniteSet(Counting)
    BY FS_Subset DEF SpendInv, HistoryOrdered, Counting
  <2> HIDE DEF counted
  <2>3. IsFiniteSet(counted) /\ Cardinality(counted) <= Cardinality(Counting)
    BY <2>1, <2>2, FS_Subset
  <2>4. Cardinality(counted) \in Nat /\ Cardinality(Counting) \in Nat
        /\ Cardinality(Runs) \in Nat /\ Cap \in Nat
    BY <2>2, <2>3, FS_CardinalityType, RecordsAssumption
  <2> USE DEF counted
  <2> QED BY <2>3, <2>4 DEF SpendInv, SpendCapped
<1> QED BY <1>1, SpendInvariant, PTL

-----------------------------------------------------------------------------
(* Signals and plans: the invariant.                                       *)

UnderWay == phase \in {"executing", "trying"}
Verdicts == {"none", "yes", "no"}
AllProbes == UNION {Probes(v) : v \in Versions}
Marks == [exchange : Nat, udf : Nat, broadcast : Nat]

SignalsTypeOK ==
    /\ disk \in Versions /\ manifest \in Versions /\ version \in Versions
    /\ run \in RunIds \cup {0} /\ exec \in RunIds \cup Nat /\ count \in Nat
    /\ phase \in {"idle", "executing", "trying", "failed", "judged"}
    /\ probed \subseteq Probes(version)
    /\ signals \subseteq [probe : AllProbes, run : RunIds \cup Nat, at : Nat, nth : Nat,
                          passed : Verdicts]
    /\ verdict \in [Probes(version) -> Verdicts]
    /\ snapshots \subseteq [run : RunIds \cup Nat, module : Modules, at : Nat, marks : Marks]
    /\ delivered \in [Modules -> Plan]
    /\ phase = "judged" => judged.version \in Versions

\* An execution under the run's own id is one of the blueprint the Surveyor knows.
OwnIdOwnBlueprint == exec = run => manifest = version

\* A row with the date of the last execution is of that execution, and of a Probe
\* that had its turn.
RowsDated ==
    \A row \in signals :
        /\ row.at <= count
        /\ row.at = count => row.run = exec /\ (UnderWay => row.probe \in probed)

\* What a Probe's rows of the execution say is what its threshold came to.
ToldByRows(p) ==
    LET told == WithVerdict({row \in signals : row.probe = p /\ row.at = count})
    IN  /\ verdict[p] = "none" => told = {}
        /\ verdict[p] # "none" =>
               /\ \E row \in told : \A other \in told \ {row} : other.nth < row.nth
               /\ \A row \in told : row.passed = verdict[p]

VerdictsTold ==
    UnderWay => \A p \in Probes(version) :
                    /\ p \notin probed => verdict[p] = "none"
                    /\ ToldByRows(p)

\* A gate is asked when all Probes had their turn, and its answer is of this execution.
AskedInTime == gate # Unasked => UnderWay /\ probed = Probes(version)

\* A module's newest snapshot is of the plan it was last delivered with, and none
\* is of an execution that is still under way.
SnapshotTells(m) ==
    \E row \in SnapshotsOf(m) :
        /\ row.marks = Markers(delivered[m])
        /\ \A other \in SnapshotsOf(m) \ {row} : other.at < row.at

SnapshotsDated == \A row \in snapshots : row.at <= count /\ (UnderWay => row.at < count)
NewestTells == \A m \in Modules : SnapshotsOf(m) # {} => SnapshotTells(m)

SignalsInv ==
    /\ SignalsTypeOK
    /\ OwnIdOwnBlueprint /\ RowsDated /\ VerdictsTold /\ AskedInTime /\ GateHearsVerdict
    /\ SnapshotsDated /\ NewestTells /\ PlanRegressionHeard

-----------------------------------------------------------------------------

\* What SignalsAssumption says of a version.
LEMMA VersionTypes ==
    ASSUME NEW v \in Versions
    PROVE  /\ v.signals \in [Probes(v) -> Seq(Signal)]
           /\ v.wired \in Seq(Probes(v))
           /\ v.plan \in [Modules -> Plan]
  BY SignalsAssumption DEF Probes

LEMMA LargestOf ==
    ASSUME NEW n \in Nat, NEW T \in SUBSET (1..n), T # {}
    PROVE  \E i \in T : \A j \in T : j <= i
<1> DEFINE bounds == {k \in 1..n : \A i \in T : i <= k}
<1>0. \A i \in T : i \in 1..n
  OBVIOUS
<1>1. bounds \subseteq Nat /\ n \in bounds
  <2>1. PICK i \in T : TRUE
    OBVIOUS
  <2>2. n \in 1..n /\ \A j \in T : j <= n
    BY <1>0, <2>1
  <2> QED
    BY <2>2
<1>2. PICK k \in bounds : \A l \in bounds : ~(<<l, k>> \in OpToRel(<, Nat))
  <2> HIDE DEF bounds
  <2> QED
    BY <1>1, NatLessThanWellFounded, WFMin, Zenon
<1>3. \A l \in bounds : ~(l < k)
  <2> HIDE DEF bounds
  <2> QED
    BY <1>1, <1>2 DEF OpToRel
<1>4. k \in T
  <2>1. SUFFICES ASSUME k \notin T PROVE FALSE
    OBVIOUS
  <2>2. k \in 1..n /\ \A i \in T : i <= k
    BY <1>2
  <2>3. \A i \in T : i <= k - 1
    BY <1>0, <2>1, <2>2
  <2>4. PICK i \in T : TRUE
    OBVIOUS
  <2>5. k - 1 \in 1..n
    BY <1>0, <2>2, <2>3, <2>4
  <2>6. k - 1 \in bounds
    BY <2>3, <2>5
  <2> QED
    BY <1>3, <2>2, <2>6
<1> QED
  BY <1>2, <1>4

\* The rows of a Probe's turn: when they were written, and what they say.
LEMMA CapturedRows ==
    ASSUME SignalsTypeOK, NEW p \in Probes(version), NEW block \in BOOLEAN,
           NEW broken \in BOOLEAN, NEW value \in {"true", "false", "null"}
    PROVE  LET rows == Captured(p, block, broken, value)
               told == WithVerdict(rows)
               asked == \E s \in Range(version.signals[p]) : s.type = "threshold" /\ s.given
           IN  /\ rows \subseteq [probe : {p}, run : {exec}, at : {count}, nth : Nat,
                                  passed : Verdicts]
               /\ broken \/ ~asked => told = {}
               /\ ~broken /\ asked =>
                      /\ \E row \in told : \A other \in told \ {row} : other.nth < row.nth
                      /\ \A row \in told : row.passed = IF value = "true" THEN "yes" ELSE "no"
<1> DEFINE cfgs == version.signals[p]
           rows == Captured(p, block, broken, value)
           told == WithVerdict(rows)
           heard == {j \in DOMAIN cfgs : ~Raised(cfgs[j], block, broken)}
           asked == \E s \in Range(cfgs) : s.type = "threshold" /\ s.given
           asking == {i \in heard : cfgs[i].type = "threshold"}
<1>1. cfgs \in Seq(Signal)
  BY VersionTypes DEF SignalsTypeOK
<1>2. rows = {SignalRow(p, i, value) : i \in heard}
  BY DEF Captured
<1>3. ASSUME NEW i \in heard
      PROVE  /\ SignalRow(p, i, value).probe = p /\ SignalRow(p, i, value).run = exec
             /\ SignalRow(p, i, value).at = count /\ SignalRow(p, i, value).nth = i
             /\ SignalRow(p, i, value).passed =
                    IF cfgs[i].type # "threshold" THEN "none"
                    ELSE IF value = "true" THEN "yes" ELSE "no"
             /\ SignalRow(p, i, value) \in [probe : {p}, run : {exec}, at : {count}, nth : Nat,
                                            passed : Verdicts]
  BY <1>1 DEF SignalRow, Passed, Verdicts
<1> HIDE DEF rows, heard, cfgs
<1>4. told = {SignalRow(p, i, value) : i \in asking}
  <2>1. \A i \in heard : SignalRow(p, i, value).passed # "none" <=> cfgs[i].type = "threshold"
    BY <1>3
  <2> QED
    BY <1>2, <2>1 DEF WithVerdict
<1>5. \A i \in asking : ~broken /\ cfgs[i].given /\ i \in DOMAIN cfgs
  BY DEF heard, Raised, Reads, Threshold
<1>6. ~broken => \A i \in DOMAIN cfgs : cfgs[i].type = "threshold" /\ cfgs[i].given => i \in asking
  BY DEF heard, Raised
<1>7. asked <=> \E i \in DOMAIN cfgs : cfgs[i].type = "threshold" /\ cfgs[i].given
  BY DEF Range
<1>8. broken \/ ~asked => told = {}
  BY <1>4, <1>5, <1>7
<1>9. ASSUME ~broken, asked
      PROVE  /\ \E row \in told : \A other \in told \ {row} : other.nth < row.nth
             /\ \A row \in told : row.passed = IF value = "true" THEN "yes" ELSE "no"
  <2>1. asking # {} /\ asking \in SUBSET (1..Len(cfgs)) /\ Len(cfgs) \in Nat
    BY <1>1, <1>5, <1>6, <1>7, <1>9
  <2>2. PICK i \in asking : \A j \in asking : j <= i
    BY <2>1, LargestOf
  <2>3. \A j \in asking : j \in heard /\ j \in Nat
    BY <2>1
  <2>4. \A j \in asking : SignalRow(p, j, value).nth = j
    BY <1>3, <2>3
  <2>5. \A j \in asking : SignalRow(p, j, value) # SignalRow(p, i, value) => j < i
    BY <2>2, <2>3
  <2>6. \A other \in told \ {SignalRow(p, i, value)} : other.nth < SignalRow(p, i, value).nth
    BY <1>4, <2>4, <2>5
  <2>7. \A row \in told : row.passed = IF value = "true" THEN "yes" ELSE "no"
    BY <1>3, <1>4
  <2> QED
    BY <1>4, <2>6, <2>7
<1>10. rows \subseteq [probe : {p}, run : {exec}, at : {count}, nth : Nat, passed : Verdicts]
  BY <1>2, <1>3
<1> QED
  BY <1>8, <1>9, <1>10 DEF rows, cfgs

\* An execution begins.
Begins ==
    /\ count' = count + 1 /\ version' \in Versions /\ manifest' \in Versions
    /\ run' \in RunIds \cup {0} /\ exec' \in RunIds \cup Nat
    /\ exec' = run' => manifest' = version'
    /\ phase' \in {"executing", "trying"} /\ probed' = {} /\ gate' = Unasked
    /\ verdict' = [p \in Probes(version') |-> "none"]
    /\ judged' \in {judged, NotJudged}
    /\ UNCHANGED <<disk, signals, closed, snapshots, delivered>>

\* Nothing is executed, and nobody judges a patch.
Rests ==
    /\ phase' \in {"idle", "failed", "judged"} /\ gate' = Unasked
    /\ phase' = "judged" => phase = "judged" /\ judged' = judged
    /\ probed' \subseteq Probes(version) /\ verdict' \in [Probes(version) -> Verdicts]
    /\ disk' \in Versions /\ judged' \in {judged, NotJudged}
    /\ UNCHANGED <<manifest, version, run, exec, count, signals, snapshots, delivered>>

\* Every step begins an execution, leaves none, or is one of four.
LEMMA SignalSteps ==
    ASSUME SignalsTypeOK, AskedInTime, SignalsNext
    PROVE  \/ \E p \in Probes(version) : ProbeTurn(p)
           \/ \E unread \in BOOLEAN : GateTurn(unread)
           \/ \E have, legible \in SUBSET Modules :
                  legible \subseteq have /\ ExecutionSucceeds(have, legible)
           \/ \E v \in Versions, touched, replayed \in SUBSET Modules : Judges(v, touched, replayed)
           \/ Begins
           \/ Rests
<1>1. phase \notin {"executing", "trying"} => gate = Unasked
  BY DEF AskedInTime, UnderWay
<1>2. [p \in Probes(version) |-> "none"] \in [Probes(version) -> Verdicts]
  BY DEF Verdicts
<1>3. RunIds \cap Nat = {} /\ count + 1 \in Nat /\ count + 1 # 0
  BY SignalsAssumption DEF SignalsTypeOK
<1>4. ASSUME NEW given \in RunIds, RunBegins(given) PROVE Begins
  BY <1>4 DEF RunBegins, Executes, Begins, SignalsTypeOK
<1>5. ASSUME NEW p \in Probes(version), Overrides(p) PROVE Rests
  BY <1>1, <1>5 DEF Overrides, Rests, SignalsTypeOK
<1>6. ASSUME BlueprintEdited PROVE Rests
  BY <1>1, <1>6 DEF BlueprintEdited, Rests, SignalsTypeOK
<1>7. ASSUME ExecutionFails PROVE Rests
  BY <1>2, <1>7 DEF ExecutionFails, Over, Rests, SignalsTypeOK
<1>8. ASSUME TrialBegins PROVE Begins
  <2>1. count + 1 # run
    BY <1>3 DEF SignalsTypeOK
  <2> QED
    BY <1>3, <1>8, <2>1 DEF TrialBegins, Executes, Begins, SignalsTypeOK
<1>9. ASSUME IterationBegins PROVE Begins
  <2>1. count + 1 # run
    BY <1>3 DEF SignalsTypeOK
  <2> QED
    BY <1>3, <1>9, <2>1 DEF IterationBegins, Executes, Begins, SignalsTypeOK
<1>10. ASSUME RunEnds PROVE Rests
  BY <1>1, <1>10 DEF RunEnds, Rests, SignalsTypeOK
<1> QED
  BY <1>4, <1>5, <1>6, <1>7, <1>8, <1>9, <1>10 DEF SignalsNext

LEMMA MarkersType == \A plan \in Plan : Markers(plan) \in Marks
  BY DEF Markers, Marks, Plan

\* What an execution that ends well leaves of the plans.
LEMMA PlansRecorded ==
    ASSUME SignalsTypeOK, NEW have \in SUBSET Modules, NEW legible \in SUBSET Modules,
           ExecutionSucceeds(have, legible)
    PROVE  \E plans \in [have -> Plan] :
               /\ snapshots' = Recorded(snapshots, plans)
               /\ delivered' = [m \in Modules |-> IF m \in have THEN plans[m] ELSE delivered[m]]
<1> DEFINE plans == [m \in have |-> IF m \in legible THEN version.plan[m] ELSE Unknown]
<1>1. version.plan \in [Modules -> Plan]
  BY VersionTypes DEF SignalsTypeOK
<1>2. Unknown \in Plan
  BY DEF Unknown, Plan
<1>3. plans \in [have -> Plan]
  BY <1>1, <1>2
<1> QED
  BY <1>3 DEF ExecutionSucceeds

\* Only the rows of the execution are new.
LEMMA RecordedRows ==
    ASSUME SignalsTypeOK, NEW have \in SUBSET Modules, NEW plans \in [have -> Plan]
    PROVE  /\ \A row \in Recorded(snapshots, plans) :
                  row \in snapshots \/ \E m \in have : row = SnapshotRow(m, plans[m])
           /\ \A m \in have : SnapshotRow(m, plans[m]) \in
                  [run : RunIds \cup Nat, module : Modules, at : Nat, marks : Marks]
<1>1. DOMAIN plans = have
  OBVIOUS
<1>2. \A m \in have : SnapshotRow(m, plans[m]) \in
          [run : RunIds \cup Nat, module : Modules, at : Nat, marks : Marks]
  BY MarkersType DEF SnapshotRow, SignalsTypeOK
<1> QED
  BY <1>1, <1>2 DEF Recorded, Untouched

LEMMA SignalsTypesKept ==
    ASSUME SignalsTypeOK, AskedInTime, SignalsNext
    PROVE  SignalsTypeOK'
<1>1. CASE \E p \in Probes(version) : ProbeTurn(p)
  <2>1. PICK p \in Probes(version) : ProbeTurn(p)
    BY <1>1
  <2>2. PICK broken \in BOOLEAN, value \in {"true", "false", "null"} :
            /\ signals' = signals \cup Captured(p, Blocking, broken, value)
            /\ verdict' = IF broken \/ ~\E s \in Range(version.signals[p]) :
                                          s.type = "threshold" /\ s.given
                          THEN verdict
                          ELSE [verdict EXCEPT ![p] = IF value = "true" THEN "yes" ELSE "no"]
    BY <2>1 DEF ProbeTurn
  <2>3. Captured(p, Blocking, broken, value)
            \subseteq [probe : {p}, run : {exec}, at : {count}, nth : Nat, passed : Verdicts]
    <3>1. Blocking \in BOOLEAN
      BY DEF Blocking
    <3> QED
      BY <3>1, CapturedRows
  <2>4. p \in AllProbes
    BY DEF AllProbes, SignalsTypeOK
  <2>5. signals' \subseteq [probe : AllProbes, run : RunIds \cup Nat, at : Nat, nth : Nat,
                            passed : Verdicts]
    BY <2>2, <2>3, <2>4 DEF SignalsTypeOK
  <2>6. verdict' \in [Probes(version) -> Verdicts]
    BY <2>2 DEF SignalsTypeOK, Verdicts
  <2>7. /\ probed' = probed \cup {p}
        /\ UNCHANGED <<disk, manifest, version, run, exec, count, phase, snapshots, delivered,
                       judged>>
    BY <2>1 DEF ProbeTurn
  <2> QED
    BY <2>5, <2>6, <2>7 DEF SignalsTypeOK
<1>2. CASE \E unread \in BOOLEAN : GateTurn(unread)
  BY <1>2 DEF GateTurn, SignalsTypeOK
<1>3. ASSUME NEW have \in SUBSET Modules, NEW legible \in SUBSET Modules,
             ExecutionSucceeds(have, legible)
      PROVE  SignalsTypeOK'
  <2>1. PICK plans \in [have -> Plan] :
            /\ snapshots' = Recorded(snapshots, plans)
            /\ delivered' = [m \in Modules |-> IF m \in have THEN plans[m] ELSE delivered[m]]
    BY <1>3, PlansRecorded
  <2>2. snapshots' \subseteq [run : RunIds \cup Nat, module : Modules, at : Nat, marks : Marks]
    BY <2>1, RecordedRows DEF SignalsTypeOK
  <2>3. delivered' \in [Modules -> Plan]
    BY <2>1 DEF SignalsTypeOK
  <2>4. /\ disk' \in Versions /\ phase' = "idle" /\ probed' = {}
        /\ verdict' = [p \in Probes(version) |-> "none"]
        /\ UNCHANGED <<manifest, version, run, exec, count, signals>>
    BY <1>3 DEF ExecutionSucceeds, Over, SignalsTypeOK
  <2> QED
    BY <2>2, <2>3, <2>4 DEF SignalsTypeOK, Verdicts
<1>4. CASE \E v \in Versions, touched, replayed \in SUBSET Modules : Judges(v, touched, replayed)
  <2>1. PICK v \in Versions, touched \in SUBSET Modules, replayed \in SUBSET Modules :
            Judges(v, touched, replayed)
    BY <1>4
  <2>2. judged'.version = v
    BY <2>1 DEF Judges, ExplainGate
  <2> QED
    BY <2>1, <2>2 DEF Judges, SignalsTypeOK
<1>5. CASE Begins
  BY <1>5 DEF Begins, SignalsTypeOK, Verdicts
<1>6. CASE Rests
  BY <1>6 DEF Rests, SignalsTypeOK
<1> QED
  BY <1>1, <1>2, <1>3, <1>4, <1>5, <1>6, SignalSteps

\* No step but the Regulator's own leaves it with an answer of this execution.
LEMMA AskedByItsTurn ==
    ASSUME SignalsTypeOK, AskedInTime, SignalsNext
    PROVE  gate' = Unasked \/ \E unread \in BOOLEAN : GateTurn(unread)
<1>1. ASSUME NEW p \in Probes(version), ProbeTurn(p) PROVE gate' = Unasked
  BY <1>1 DEF ProbeTurn, AskedInTime
<1>2. ASSUME NEW have \in SUBSET Modules, NEW legible \in SUBSET Modules,
             ExecutionSucceeds(have, legible)
      PROVE  gate' = Unasked
  BY <1>2 DEF ExecutionSucceeds, Over
<1>3. ASSUME NEW v \in Versions, NEW touched \in SUBSET Modules, NEW replayed \in SUBSET Modules,
             Judges(v, touched, replayed)
      PROVE  gate' = Unasked
  BY <1>3 DEF Judges, AskedInTime, UnderWay
<1>4. Begins \/ Rests => gate' = Unasked
  BY DEF Begins, Rests
<1> QED
  BY <1>1, <1>2, <1>3, <1>4, SignalSteps

LEMMA AskedInTimeKept ==
    ASSUME SignalsTypeOK, AskedInTime, SignalsNext
    PROVE  AskedInTime'
<1>1. ASSUME NEW unread \in BOOLEAN, GateTurn(unread) PROVE AskedInTime'
  BY <1>1 DEF GateTurn, AskedInTime, UnderWay, Probes
<1> QED
  BY <1>1, AskedByItsTurn DEF AskedInTime

LEMMA OwnIdKept ==
    ASSUME SignalsTypeOK, AskedInTime, OwnIdOwnBlueprint, SignalsNext
    PROVE  OwnIdOwnBlueprint'
<1>1. CASE UNCHANGED <<manifest, version, run, exec>>
  BY <1>1 DEF OwnIdOwnBlueprint
<1>2. CASE Begins
  BY <1>2 DEF Begins, OwnIdOwnBlueprint
<1> QED
  BY <1>1, <1>2, SignalSteps DEF ProbeTurn, GateTurn, ExecutionSucceeds, Judges, Rests

LEMMA RowsDatedKept ==
    ASSUME SignalsTypeOK, AskedInTime, RowsDated, SignalsNext
    PROVE  RowsDated'
<1>1. ASSUME NEW p \in Probes(version), ProbeTurn(p) PROVE RowsDated'
  <2>1. PICK broken \in BOOLEAN, value \in {"true", "false", "null"} :
            signals' = signals \cup Captured(p, Blocking, broken, value)
    BY <1>1 DEF ProbeTurn
  <2>2. \A row \in Captured(p, Blocking, broken, value) :
            row.probe = p /\ row.run = exec /\ row.at = count
    <3>1. Blocking \in BOOLEAN
      BY DEF Blocking
    <3>2. Captured(p, Blocking, broken, value)
              \subseteq [probe : {p}, run : {exec}, at : {count}, nth : Nat, passed : Verdicts]
      BY <3>1, CapturedRows
    <3> QED
      BY <3>2
  <2>3. probed' = probed \cup {p} /\ UNCHANGED <<exec, count, phase>> /\ count \in Nat
    BY <1>1 DEF ProbeTurn, SignalsTypeOK
  <2> QED
    BY <2>1, <2>2, <2>3 DEF RowsDated, UnderWay
<1>2. CASE Begins
  <2>1. \A row \in signals' : row.at <= count /\ row.at \in Nat
    BY <1>2 DEF Begins, RowsDated, SignalsTypeOK
  <2>2. count' = count + 1 /\ count \in Nat
    BY <1>2 DEF Begins, SignalsTypeOK
  <2>3. \A row \in signals' : row.at <= count' /\ row.at # count'
    BY <2>1, <2>2
  <2> QED
    BY <2>3 DEF RowsDated
<1>3. CASE UNCHANGED <<exec, count, signals>> /\ (UnderWay' => UnderWay /\ probed' = probed)
  BY <1>3 DEF RowsDated
<1>4. ASSUME NEW have \in SUBSET Modules, NEW legible \in SUBSET Modules,
             ExecutionSucceeds(have, legible)
      PROVE  RowsDated'
  BY <1>3, <1>4 DEF ExecutionSucceeds, UnderWay
<1>5. CASE (\E unread \in BOOLEAN : GateTurn(unread)) \/ Rests
  BY <1>3, <1>5 DEF GateTurn, Rests, UnderWay
<1>6. CASE \E v \in Versions, touched, replayed \in SUBSET Modules : Judges(v, touched, replayed)
  BY <1>3, <1>6 DEF Judges, UnderWay
<1> QED
  BY <1>1, <1>2, <1>4, <1>5, <1>6, SignalSteps

\* A Probe's turn writes the only rows of the execution that are its own.
LEMMA TurnTells ==
    ASSUME SignalsTypeOK, RowsDated, VerdictsTold, NEW p \in Probes(version), ProbeTurn(p)
    PROVE  VerdictsTold'
<1>1. PICK broken \in BOOLEAN, value \in {"true", "false", "null"} :
          /\ signals' = signals \cup Captured(p, Blocking, broken, value)
          /\ verdict' = IF broken \/ ~\E s \in Range(version.signals[p]) :
                                        s.type = "threshold" /\ s.given
                        THEN verdict
                        ELSE [verdict EXCEPT ![p] = IF value = "true" THEN "yes" ELSE "no"]
  BY DEF ProbeTurn
<1>2. /\ UnderWay /\ p \notin probed /\ probed' = probed \cup {p}
      /\ UNCHANGED <<version, exec, count, phase>>
  BY DEF ProbeTurn, UnderWay
<1> DEFINE rows == Captured(p, Blocking, broken, value)
           asked == \E s \in Range(version.signals[p]) : s.type = "threshold" /\ s.given
           told == WithVerdict(rows)
           ToldOf(q) == WithVerdict({row \in signals : row.probe = q /\ row.at = count})
<1>3. Blocking \in BOOLEAN
  BY DEF Blocking
<1>4. /\ \A row \in rows : row.probe = p /\ row.at = count
      /\ broken \/ ~asked => told = {}
      /\ ~broken /\ asked =>
             /\ \E row \in told : \A other \in told \ {row} : other.nth < row.nth
             /\ \A row \in told : row.passed = IF value = "true" THEN "yes" ELSE "no"
  <2>1. rows \subseteq [probe : {p}, run : {exec}, at : {count}, nth : Nat, passed : Verdicts]
    BY <1>3, CapturedRows
  <2> QED
    BY <1>3, <2>1, CapturedRows
<1> HIDE DEF rows, asked
<1>5. ToldOf(p) = {}
  BY <1>2 DEF RowsDated, WithVerdict
<1>6. ToldOf(p)' = told
  <2>1. \A row \in signals' : row.probe = p /\ row.at = count /\ row.passed # "none" <=> row \in told
    BY <1>1, <1>4, <1>5 DEF WithVerdict, rows
  <2>2. told \subseteq signals'
    BY <1>1 DEF WithVerdict, rows
  <2> QED
    BY <1>2, <2>1, <2>2 DEF WithVerdict
<1>7. ASSUME NEW q \in Probes(version) \ {p} PROVE ToldOf(q)' = ToldOf(q)
  BY <1>1, <1>2, <1>4 DEF WithVerdict, rows
<1>8. verdict[p] = "none" /\ verdict \in [Probes(version) -> Verdicts]
  BY <1>2 DEF VerdictsTold, SignalsTypeOK
<1>9. ToldByRows(p)'
  <2>1. CASE broken \/ ~asked
    <3>1. verdict'[p] = "none" /\ ToldOf(p)' = {}
      BY <1>1, <1>4, <1>6, <1>8, <2>1 DEF asked
    <3> QED
      BY <3>1 DEF ToldByRows
  <2>2. CASE ~broken /\ asked
    <3>1. verdict'[p] = (IF value = "true" THEN "yes" ELSE "no") /\ verdict'[p] # "none"
      BY <1>1, <1>8, <2>2 DEF asked
    <3> HIDE DEF told
    <3>2. /\ \E row \in ToldOf(p)' : \A other \in ToldOf(p)' \ {row} : other.nth < row.nth
          /\ \A row \in ToldOf(p)' : row.passed = verdict'[p]
      <4> HIDE DEF ToldOf
      <4> QED
        BY <1>4, <1>6, <2>2, <3>1 DEF told
    <3> QED
      BY <3>1, <3>2 DEF ToldByRows
  <2> QED
    BY <2>1, <2>2
<1>10. ASSUME NEW q \in Probes(version) \ {p}
       PROVE  ToldByRows(q)' /\ (q \notin probed' => verdict'[q] = "none")
  <2>1. verdict'[q] = verdict[q]
    BY <1>1, <1>8
  <2>2. ToldByRows(q) /\ (q \notin probed => verdict[q] = "none")
    BY <1>2 DEF VerdictsTold
  <2> QED
    BY <1>2, <1>7, <2>1, <2>2 DEF ToldByRows
<1> QED
  BY <1>2, <1>9, <1>10 DEF VerdictsTold, Probes

LEMMA VerdictsToldKept ==
    ASSUME SignalsTypeOK, AskedInTime, RowsDated, VerdictsTold, SignalsNext
    PROVE  VerdictsTold'
<1>1. CASE Begins
  <2>1. \A row \in signals : row.at # count + 1
    BY DEF RowsDated, SignalsTypeOK
  <2>2. signals' = signals /\ count' = count + 1 /\ verdict' = [p \in Probes(version') |-> "none"]
    BY <1>1 DEF Begins
  <2>3. ASSUME NEW p \in Probes(version') PROVE verdict'[p] = "none" /\ ToldByRows(p)'
    <3>1. verdict'[p] = "none"
      BY <2>2
    <3>2. WithVerdict({row \in signals' : row.probe = p /\ row.at = count'}) = {}
      BY <2>1, <2>2 DEF WithVerdict
    <3> QED
      BY <3>1, <3>2 DEF ToldByRows
  <2> QED
    BY <2>3 DEF VerdictsTold, Probes
<1>2. CASE \E unread \in BOOLEAN : GateTurn(unread)
  BY <1>2 DEF GateTurn, VerdictsTold, ToldByRows, UnderWay, Probes, WithVerdict
<1>3. ASSUME NEW have \in SUBSET Modules, NEW legible \in SUBSET Modules,
             ExecutionSucceeds(have, legible)
      PROVE  ~UnderWay'
  BY <1>3 DEF ExecutionSucceeds, UnderWay
<1>4. CASE \E v \in Versions, touched, replayed \in SUBSET Modules : Judges(v, touched, replayed)
  BY <1>4 DEF Judges, VerdictsTold, UnderWay
<1>5. CASE Rests
  BY <1>5 DEF Rests, VerdictsTold, UnderWay
<1> QED
  BY <1>1, <1>2, <1>3, <1>4, <1>5, SignalSteps, TurnTells DEF VerdictsTold

\* If the Probe came to a verdict in the execution that has the run's id, it is what
\* the Regulator finds.
LEMMA VerdictFound ==
    ASSUME SignalsTypeOK, RowsDated, VerdictsTold, UnderWay, exec = run,
           NEW p \in Probes(version), verdict[p] # "none"
    PROVE  RunVerdict(p) = verdict[p]
<1> DEFINE told == WithVerdict({row \in signals : row.probe = p /\ row.at = count})
           rows == WithVerdict({row \in signals : row.probe = p /\ row.run = run})
<1>1. /\ \E row \in told : \A other \in told \ {row} : other.nth < row.nth
      /\ \A row \in told : row.passed = verdict[p]
  BY DEF VerdictsTold, ToldByRows
<1>2. told \subseteq rows /\ \A row \in rows : row.at < count \/ row \in told
  BY DEF RowsDated, WithVerdict, SignalsTypeOK
<1>3. \A row \in rows : row.at \in Nat /\ row.nth \in Nat /\ row.at <= count
  BY DEF RowsDated, WithVerdict, SignalsTypeOK
<1>4. \A row \in told : row.at = count
  BY DEF WithVerdict
<1>5. count \in Nat
  BY DEF SignalsTypeOK
<1>6. RunVerdict(p) =
          IF rows = {} THEN "none"
          ELSE (CHOOSE row \in rows : \A other \in rows \ {row} : Follows(row, other)).passed
  BY DEF RunVerdict
<1> HIDE DEF told, rows
<1>7. \E row \in rows : \A other \in rows \ {row} : Follows(row, other)
  <2>1. PICK row \in told : \A other \in told \ {row} : other.nth < row.nth
    BY <1>1
  <2>2. ASSUME NEW other \in rows \ {row} PROVE Follows(row, other)
    BY <1>2, <1>3, <1>4, <1>5, <2>1 DEF Follows
  <2> QED
    BY <1>2, <2>1, <2>2
<1> DEFINE newest == CHOOSE row \in rows : \A other \in rows \ {row} : Follows(row, other)
<1>8. newest \in rows /\ \A other \in rows \ {newest} : Follows(newest, other)
  BY <1>7
<1> HIDE DEF newest
<1>9. newest \in told
  <2>1. PICK row \in told : TRUE
    BY <1>1
  <2>2. row = newest \/ Follows(newest, row)
    BY <1>2, <1>8
  <2> QED
    BY <1>2, <1>3, <1>4, <1>5, <1>8, <2>2 DEF Follows
<1> QED
  BY <1>1, <1>6, <1>8, <1>9 DEF newest

LEMMA GateTurnHears ==
    ASSUME SignalsTypeOK, OwnIdOwnBlueprint, RowsDated, VerdictsTold,
           NEW unread \in BOOLEAN, GateTurn(unread)
    PROVE  GateHearsVerdict'
<1> DEFINE p == version.wired[1]
<1>1. /\ UnderWay /\ version.wired # <<>>
      /\ gate' = [answer |-> IF unread THEN "unread" ELSE GateAnswer, closed |-> p \in closed]
      /\ UNCHANGED <<version, run, exec, signals, verdict>>
  BY DEF GateTurn, UnderWay
<1>2. SUFFICES ASSUME gate'.answer \in {"open", "closed"}, exec = run
               PROVE  \/ gate'.answer = "closed" <=> (p \in closed \/ verdict[p] = "no")
                      \/ verdict[p] = "none" /\ RunVerdict(p) = "no"
  <2>1. RunVerdict(p)' = RunVerdict(p)
    BY <1>1 DEF RunVerdict, WithVerdict, Follows
  <2>2. gate'.closed = (p \in closed)
    BY <1>1
  <2> QED
    BY <1>1, <2>1, <2>2 DEF GateHearsVerdict, Hears
<1>3. p \in Probes(version)
  BY <1>1, VersionTypes DEF SignalsTypeOK
<1>4. manifest = version /\ gate'.answer = GateAnswer
  BY <1>1, <1>2 DEF OwnIdOwnBlueprint
<1>5. gate'.answer = "closed" <=> (p \in closed \/ RunVerdict(p) = "no")
  BY <1>1, <1>4 DEF GateAnswer
<1>6. verdict[p] # "none" => RunVerdict(p) = verdict[p]
  BY <1>1, <1>2, <1>3, VerdictFound
<1> QED
  BY <1>5, <1>6

LEMMA GateHearsKept ==
    ASSUME SignalsInv, SignalsNext
    PROVE  GateHearsVerdict'
<1>1. gate' = Unasked => GateHearsVerdict'
  BY DEF Unasked, GateHearsVerdict
<1> QED
  BY <1>1, AskedByItsTurn, GateTurnHears DEF SignalsInv

\* The rows of the modules an execution delivered are its own, and the others stay.
LEMMA DeliveryTells ==
    ASSUME SignalsTypeOK, SnapshotsDated, NewestTells,
           NEW have \in SUBSET Modules, NEW legible \in SUBSET Modules,
           ExecutionSucceeds(have, legible)
    PROVE  SnapshotsDated' /\ NewestTells'
<1>1. PICK plans \in [have -> Plan] :
          /\ snapshots' = Recorded(snapshots, plans)
          /\ delivered' = [m \in Modules |-> IF m \in have THEN plans[m] ELSE delivered[m]]
  BY PlansRecorded
<1>2. UnderWay /\ ~UnderWay' /\ UNCHANGED <<exec, count>> /\ count \in Nat
  BY DEF ExecutionSucceeds, UnderWay, SignalsTypeOK
<1>3. /\ \A row \in snapshots' : row \in snapshots \/ \E m \in have : row = SnapshotRow(m, plans[m])
      /\ \A m \in have : /\ SnapshotRow(m, plans[m]).at = count
                         /\ SnapshotRow(m, plans[m]).module = m
                         /\ SnapshotRow(m, plans[m]).marks = Markers(plans[m])
  BY <1>1, RecordedRows DEF SnapshotRow
<1>4. \A row \in snapshots : row.at < count /\ row.at \in Nat
  BY <1>2 DEF SnapshotsDated, SignalsTypeOK
<1>5. SnapshotsDated'
  BY <1>2, <1>3, <1>4 DEF SnapshotsDated
<1>6. ASSUME NEW m \in have PROVE SnapshotTells(m)'
  <2> DEFINE mine == SnapshotRow(m, plans[m])
             grown == Untouched(snapshots, plans) \cup {SnapshotRow(k, plans[k]) : k \in DOMAIN plans}
             Newer(row) == {other \in grown : other.module = row.module /\ other.at > row.at}
  <2>1. snapshots' = {row \in grown : row.module \in DOMAIN plans => Cardinality(Newer(row)) < KeepLast}
    BY <1>1 DEF Recorded
  <2>2. \A other \in grown : other.at <= count /\ other.at \in Nat
    BY <1>2, <1>3, <1>4 DEF Untouched
  <2>3. mine.at = count /\ mine.module = m /\ mine.marks = Markers(plans[m])
    BY <1>3
  <2>4. Newer(mine) = {}
    <3> HIDE DEF grown, mine
    <3> QED
      BY <1>2, <2>2, <2>3
  <2>5. Cardinality(Newer(mine)) < KeepLast
    <3>1. Cardinality(Newer(mine)) = 0
      <4> HIDE DEF Newer
      <4> QED
        BY <2>4, FS_EmptySet
    <3> HIDE DEF Newer
    <3> QED
      BY <3>1, SignalsAssumption
  <2>6. mine \in snapshots'
    <3>1. mine \in grown
      OBVIOUS
    <3> HIDE DEF grown, mine
    <3> QED
      BY <2>1, <2>5, <3>1
  <2> HIDE DEF mine, grown, Newer
  <2>7. ASSUME NEW other \in snapshots', other.module = m, other # mine PROVE other.at < mine.at
    BY <1>3, <1>4, <2>3, <2>7 DEF mine
  <2>8. delivered'[m] = plans[m]
    BY <1>1
  <2> QED
    BY <2>3, <2>6, <2>7, <2>8 DEF SnapshotTells, SnapshotsOf
<1>7. ASSUME NEW m \in Modules \ have PROVE SnapshotsOf(m)' = SnapshotsOf(m)
  <2>1. \A row \in snapshots : row.module = m => row \in snapshots'
    BY <1>1, <1>7 DEF Recorded, Untouched
  <2>2. \A row \in snapshots' : row.module = m => row \in snapshots
    BY <1>3, <1>7
  <2> QED
    BY <2>1, <2>2 DEF SnapshotsOf
<1>8. ASSUME NEW m \in Modules \ have, SnapshotsOf(m)' # {} PROVE SnapshotTells(m)'
  <2>1. delivered'[m] = delivered[m]
    BY <1>1
  <2>2. SnapshotTells(m)
    BY <1>7, <1>8 DEF NewestTells
  <2> QED
    BY <1>7, <2>1, <2>2 DEF SnapshotTells
<1> QED
  BY <1>5, <1>6, <1>8 DEF NewestTells

LEMMA SnapshotsKept ==
    ASSUME SignalsTypeOK, AskedInTime, SnapshotsDated, NewestTells, SignalsNext
    PROVE  SnapshotsDated' /\ NewestTells'
<1>1. UNCHANGED <<snapshots, delivered>> => NewestTells'
  BY DEF NewestTells, SnapshotTells, SnapshotsOf
<1>2. CASE Begins
  <2>1. count' = count + 1 /\ count \in Nat /\ UNCHANGED <<snapshots, delivered>>
    BY <1>2 DEF Begins, SignalsTypeOK
  <2>2. \A row \in snapshots : row.at \in Nat /\ row.at <= count
    BY DEF SnapshotsDated, SignalsTypeOK
  <2> QED
    BY <1>1, <2>1, <2>2 DEF SnapshotsDated
<1>3. UNCHANGED <<snapshots, count>> /\ (UnderWay' => UnderWay) => SnapshotsDated'
  BY DEF SnapshotsDated
<1>4. CASE \E p \in Probes(version) : ProbeTurn(p)
  BY <1>1, <1>3, <1>4 DEF ProbeTurn, UnderWay
<1>5. CASE \E unread \in BOOLEAN : GateTurn(unread)
  BY <1>1, <1>3, <1>5 DEF GateTurn, UnderWay
<1>6. CASE \E v \in Versions, touched, replayed \in SUBSET Modules : Judges(v, touched, replayed)
  BY <1>1, <1>3, <1>6 DEF Judges, UnderWay
<1>7. CASE Rests
  BY <1>1, <1>3, <1>7 DEF Rests, UnderWay
<1> QED
  BY <1>2, <1>4, <1>5, <1>6, <1>7, SignalSteps, DeliveryTells

\* What the explain gate compares a plan with is what was delivered last.
LEMMA BaselineIsLast ==
    ASSUME SignalsTypeOK, NewestTells, NEW m \in Modules, SnapshotsOf(m) # {}
    PROVE  Latest(m).marks = Markers(delivered[m])
<1>1. PICK row \in SnapshotsOf(m) :
          row.marks = Markers(delivered[m]) /\ \A other \in SnapshotsOf(m) \ {row} : other.at < row.at
  BY DEF NewestTells, SnapshotTells
<1>2. \A other \in SnapshotsOf(m) : other.at \in Nat
  BY DEF SnapshotsOf, SignalsTypeOK
<1>3. \A other \in SnapshotsOf(m) : other.at <= row.at
  BY <1>1, <1>2
<1>4. Latest(m) \in SnapshotsOf(m) /\ \A other \in SnapshotsOf(m) : other.at <= Latest(m).at
  BY <1>3 DEF Latest
<1>5. Latest(m) = row
  BY <1>1, <1>2, <1>4
<1> QED
  BY <1>1, <1>5

LEMMA GateComparesWell ==
    ASSUME SignalsTypeOK, NewestTells,
           NEW v \in Versions, NEW touched \in SUBSET Modules, NEW replayed \in SUBSET Modules,
           Judges(v, touched, replayed)
    PROVE  PlanRegressionHeard'
<1> DEFINE after == [m \in replayed |-> v.plan[m]]
<1>1. judged' = ExplainGate(v, touched, after) /\ delivered' = delivered
  BY DEF Judges
<1>2. after \in [replayed -> Plan]
  BY VersionTypes
<1> HIDE DEF after
<1>3. judged'.after = after
  BY <1>1 DEF ExplainGate
<1>4. ASSUME judged'.status = "pass", NEW m \in judged'.compared
      PROVE  m \in replayed /\ SnapshotsOf(m) # {} /\ ~Worse(Latest(m).marks, Markers(after[m]))
  <2>1. judged'.compared \subseteq {k \in Modules : SnapshotsOf(k) # {}} \cap replayed
    BY <1>1, <1>2 DEF ExplainGate
  <2>2. \A k \in judged'.compared : ~Worse(Latest(k).marks, Markers(after[k]))
    BY <1>1, <1>4 DEF ExplainGate
  <2> QED
    BY <1>4, <2>1, <2>2
<1>5. ASSUME judged'.status = "pass", NEW m \in judged'.compared
      PROVE  /\ after[m].shuffles <= delivered[m].shuffles
             /\ after[m].udfs <= delivered[m].udfs
             /\ after[m].broadcasts >= delivered[m].broadcasts
  <2>1. m \in Modules /\ Latest(m).marks = Markers(delivered[m])
    BY <1>4, <1>5, BaselineIsLast
  <2>2. after[m] \in Plan /\ delivered[m] \in Plan
    BY <1>2, <1>4, <1>5, <2>1 DEF SignalsTypeOK
  <2>3. ~Worse(Markers(delivered[m]), Markers(after[m]))
    BY <1>4, <1>5, <2>1
  <2> QED
    BY <2>2, <2>3 DEF Worse, Markers, Plan
<1> QED
  BY <1>1, <1>3, <1>5 DEF PlanRegressionHeard

LEMMA RegressionHeardKept ==
    ASSUME SignalsTypeOK, AskedInTime, NewestTells, PlanRegressionHeard, SignalsNext
    PROVE  PlanRegressionHeard'
<1>1. judged' = NotJudged => PlanRegressionHeard'
  BY DEF NotJudged, PlanRegressionHeard
<1>2. UNCHANGED <<judged, delivered>> => PlanRegressionHeard'
  BY DEF PlanRegressionHeard
<1>3. ASSUME NEW have \in SUBSET Modules, NEW legible \in SUBSET Modules,
             ExecutionSucceeds(have, legible)
      PROVE  PlanRegressionHeard'
  BY <1>1, <1>3 DEF ExecutionSucceeds
<1>4. CASE \E p \in Probes(version) : ProbeTurn(p)
  BY <1>2, <1>4 DEF ProbeTurn
<1>5. CASE \E unread \in BOOLEAN : GateTurn(unread)
  BY <1>2, <1>5 DEF GateTurn
<1>6. CASE Begins \/ Rests
  BY <1>1, <1>2, <1>6 DEF Begins, Rests
<1> QED
  BY <1>3, <1>4, <1>5, <1>6, SignalSteps, GateComparesWell

\* Whatever the versions of the blueprint, the ids of runs, the signals that fail and
\* the plans that are kept: rows are of the execution that wrote them, and verdicts
\* and plans are those of the last rows.
THEOREM SignalsInvariant == SignalsSpec => []SignalsInv
<1>1. SignalsInit => SignalsInv
  <2> SUFFICES ASSUME SignalsInit PROVE SignalsInv
    OBVIOUS
  <2>1. SignalsTypeOK
    BY DEF SignalsInit, SignalsTypeOK, Verdicts, Unknown, Plan
  <2>2. OwnIdOwnBlueprint /\ RowsDated /\ VerdictsTold /\ AskedInTime /\ GateHearsVerdict
    BY DEF SignalsInit, OwnIdOwnBlueprint, RowsDated, VerdictsTold, UnderWay, AskedInTime,
           GateHearsVerdict, Unasked
  <2>3. SnapshotsDated /\ NewestTells /\ PlanRegressionHeard
    BY DEF SignalsInit, SnapshotsDated, NewestTells, SnapshotsOf, PlanRegressionHeard, NotJudged
  <2> QED
    BY <2>1, <2>2, <2>3 DEF SignalsInv
<1>2. SignalsInv /\ [SignalsNext]_sigVars => SignalsInv'
  <2> SUFFICES ASSUME SignalsInv, [SignalsNext]_sigVars PROVE SignalsInv'
    OBVIOUS
  <2>1. CASE SignalsNext
    BY <2>1, SignalsTypesKept, OwnIdKept, RowsDatedKept, VerdictsToldKept, AskedInTimeKept,
       GateHearsKept, SnapshotsKept, RegressionHeardKept DEF SignalsInv
  <2>2. CASE UNCHANGED sigVars
    <3>1. SignalsTypeOK' /\ OwnIdOwnBlueprint' /\ RowsDated' /\ AskedInTime' /\ SnapshotsDated'
      BY <2>2 DEF SignalsInv, sigVars, SignalsTypeOK, OwnIdOwnBlueprint, RowsDated, UnderWay,
                  AskedInTime, SnapshotsDated
    <3>2. VerdictsTold' /\ NewestTells' /\ PlanRegressionHeard'
      BY <2>2 DEF SignalsInv, sigVars, VerdictsTold, ToldByRows, WithVerdict, UnderWay, NewestTells,
                  SnapshotTells, SnapshotsOf, PlanRegressionHeard
    <3>3. GateHearsVerdict'
      BY <2>2 DEF SignalsInv, sigVars, GateHearsVerdict, Hears, RunVerdict, WithVerdict, Follows
    <3> QED
      BY <3>1, <3>2, <3>3 DEF SignalsInv
  <2> QED
    BY <2>1, <2>2
<1> QED
  BY <1>1, <1>2, PTL DEF SignalsSpec

\* In the execution that has the run's own id the Regulator goes by its Probe's
\* latest verdict, whichever other signals fail and whatever runs had the id before.
THEOREM GatesHearVerdicts == SignalsSpec => []GateHearsVerdict
<1>1. SignalsInv => GateHearsVerdict
  BY DEF SignalsInv
<1> QED
  BY <1>1, SignalsInvariant, PTL

\* No patch passes the explain gate that makes a compared plan worse than the one
\* last delivered, however many snapshots are kept.
THEOREM RegressionsAreHeard == SignalsSpec => []PlanRegressionHeard
<1>1. SignalsInv => PlanRegressionHeard
  BY DEF SignalsInv
<1> QED
  BY <1>1, SignalsInvariant, PTL

-----------------------------------------------------------------------------
(* Benchmark: grading and exit code.                                       *)

Graded(i) == {p \in Pairs \ todo[i] : suite[p[1]].loads}

\* What a passed row says of its answer.
Passes(s, a) == MeetsAssertions(s, a) /\ (s.effect = "effect" => a = "fix" \/ EffectUngraded(s))

\* What the result of a pair says, unless its worker died or it was replaced.
Judged(i, p) ==
    LET s == suite[p[1]] IN
    \/ s.builds /\ ~s.sane
    \/ \E other \in Pairs \ {p} : suite[other[1]].loads /\ Key(other) = Key(p)
    \/ /\ Key(p) \in DOMAIN results[i]
       /\ results[i][Key(p)].passed => s.builds /\ Passes(s, answers[i][p])

BenchTypeOK ==
    /\ \E bench \in Benches : suite = bench.suite /\ options = bench.options
    /\ stage \in [Invocations -> {"running", "collected", "inserting", "gating", "report", "done"}]
    /\ todo \in [Invocations -> SUBSET {p \in Pairs : suite[p[1]].loads}]
    /\ DOMAIN answers = Invocations /\ \A i \in Invocations : DOMAIN answers[i] = Pairs
    /\ DOMAIN results = Invocations /\ DOMAIN exit = Invocations

\* An invocation collects before it does anything else, and reports last.
StagesInOrder ==
    \A i \in Invocations :
        /\ stage[i] \in {"collected", "inserting", "gating", "report"} => todo[i] = {}
        /\ exit[i] # Absent => stage[i] = "done"
        /\ exit[i] = 0 => todo[i] = {} /\ \A k \in DOMAIN results[i] : results[i][k].passed

GradingInv ==
    /\ BenchTypeOK /\ StagesInOrder
    /\ \A i \in Invocations : \A p \in Graded(i) : Judged(i, p)

\* A row that passed was graded on an answer the author asked for.
LEMMA RowMeets ==
    ASSUME NEW s, NEW a, NEW diag, NEW v, Row(s, a, diag, v).passed
    PROVE  Passes(s, a)
<1>1. Absent # "yes"
  BY BenchmarkAssumption
<1>2. ~FailsValid(s, a) /\ ~FailsDefer(s, a) /\ ~FailsApplies(s, a) /\ ~FailsEffect(s, a)
  BY DEF Row
<1>3. s.defer = "yes" => a = "defer"
  BY <1>1, <1>2 DEF FailsDefer
<1>4. s.applies = "yes" => a # "none" /\ Applies(a)
  BY <1>1, <1>2 DEF FailsApplies
<1>5. s.valid = "yes" /\ s.defer # "yes" => a # "none" /\ a # "defer"
  BY <1>1, <1>2 DEF FailsValid
<1>6. s.effect = "effect" /\ s.applies = "yes" => a = "fix"
  BY <1>1, <1>2, <1>4 DEF FailsEffect, Tried
<1> QED
  BY <1>3, <1>4, <1>5, <1>6 DEF Passes, MeetsAssertions, EffectUngraded, Applies

\* A result is of the pair it was collected for, or of another with its key.
LEMMA CollectedIsJudged ==
    ASSUME GradingInv, NEW i \in Invocations, NEW p \in Pairs, NEW row, Collects(i, p, row),
           \A j \in Invocations : \A q \in Pairs : <<j, q>> # <<i, p>> => answers'[j][q] = answers[j][q],
           DOMAIN answers' = Invocations, \A j \in Invocations : DOMAIN answers'[j] = Pairs,
           row.passed => suite[p[1]].builds /\ Passes(suite[p[1]], answers'[i][p])
    PROVE  GradingInv'
<1>1. /\ UNCHANGED <<suite, stage, options, exit>>
      /\ stage[i] = "running" /\ p \in todo[i]
      /\ todo' = [todo EXCEPT ![i] = @ \ {p}]
      /\ results' = [results EXCEPT ![i] = [k \in DOMAIN @ \cup {Key(p)} |->
                                               IF k = Key(p) THEN row ELSE @[k]]]
  BY DEF Collects
<1>2. /\ DOMAIN results = Invocations /\ todo \in [Invocations -> SUBSET {q \in Pairs : suite[q[1]].loads}]
      /\ Invocations' = Invocations /\ \A q \in Pairs : Key(q)' = Key(q)
  BY <1>1 DEF GradingInv, BenchTypeOK, Invocations, Key
<1>3. BenchTypeOK'
  <2>1. todo' \in [Invocations -> SUBSET {q \in Pairs : suite[q[1]].loads}] /\ DOMAIN results' = Invocations
    BY <1>1, <1>2
  <2> QED
    BY <1>1, <1>2, <2>1 DEF GradingInv, BenchTypeOK
<1>4. StagesInOrder'
  <2> SUFFICES ASSUME NEW j \in Invocations
               PROVE  /\ stage[j] \in {"collected", "inserting", "gating", "report"} => todo'[j] = {}
                      /\ exit[j] # Absent => stage[j] = "done"
                      /\ exit[j] = 0 => /\ todo'[j] = {}
                                        /\ \A k \in DOMAIN results'[j] : results'[j][k].passed
    BY <1>1, <1>2 DEF StagesInOrder
  <2>1. /\ stage[j] \in {"collected", "inserting", "gating", "report"} => todo[j] = {}
        /\ exit[j] # Absent => stage[j] = "done"
        /\ exit[j] = 0 => todo[j] = {} /\ \A k \in DOMAIN results[j] : results[j][k].passed
    BY DEF GradingInv, StagesInOrder
  <2>2. CASE j = i
    <3>1. exit[j] # 0
      BY <1>1, <2>1, <2>2, BenchmarkAssumption
    <3> QED
      BY <1>1, <2>1, <2>2, <3>1
  <2>3. CASE j # i
    BY <1>1, <1>2, <2>1, <2>3
  <2> QED
    BY <2>2, <2>3
<1>5. ASSUME NEW j \in Invocations, NEW q \in Graded(j)' PROVE Judged(j, q)'
  <2>1. q \in Pairs /\ suite[q[1]].loads /\ q \notin todo'[j]
    BY <1>1, <1>5 DEF Graded, Pairs
  <2>2. CASE j = i /\ q = p
    <3>1. Key(p) \in DOMAIN results'[i] /\ results'[i][Key(p)] = row
      BY <1>1, <1>2
    <3>2. row.passed => suite[p[1]].builds /\ Passes(suite[p[1]], answers'[i][p])
      OBVIOUS
    <3> QED
      BY <1>1, <1>2, <2>2, <3>1, <3>2 DEF Judged
  <2>3. CASE <<j, q>> # <<i, p>>
    <3>1. q \in Graded(j) /\ answers'[j][q] = answers[j][q]
      BY <1>1, <1>2, <2>1, <2>3 DEF Graded
    <3>2. Judged(j, q)
      BY <3>1 DEF GradingInv
    <3>3. CASE j = i /\ Key(q) = Key(p)
      <4>1. suite[p[1]].loads /\ p \in Pairs \ {q}
        BY <1>1, <1>2, <2>3, <3>3
      <4> QED
        BY <1>1, <1>2, <2>1, <3>3, <4>1 DEF Judged, Pairs
    <3>4. CASE ~(j = i /\ Key(q) = Key(p))
      <4>1. Key(q) \in DOMAIN results[j] =>
                Key(q) \in DOMAIN results'[j] /\ results'[j][Key(q)] = results[j][Key(q)]
        BY <1>1, <1>2, <3>4
      <4>2. suite' = suite /\ Key(q)' = Key(q) /\ \A other \in Pairs : Key(other)' = Key(other)
        BY <1>1, <1>2, <2>1
      <4> QED
        BY <3>1, <3>2, <4>1, <4>2 DEF Judged, Pairs
    <3> QED
      BY <3>3, <3>4
  <2> QED
    BY <2>2, <2>3
<1> QED
  BY <1>2, <1>3, <1>4, <1>5 DEF GradingInv

\* Steps that collect nothing judge nothing anew.
LEMMA NothingCollected ==
    ASSUME GradingInv, UNCHANGED <<suite, options, todo, answers, results>>,
           stage' \in [Invocations -> {"running", "collected", "inserting", "gating", "report", "done"}],
           DOMAIN exit' = Invocations,
           \A i \in Invocations :
               /\ stage'[i] \in {"collected", "inserting", "gating", "report"} => todo[i] = {}
               /\ exit'[i] # Absent => stage'[i] = "done"
               /\ exit'[i] = 0 => todo[i] = {} /\ \A k \in DOMAIN results[i] : results[i][k].passed
    PROVE  GradingInv'
<1>1. Invocations' = Invocations
  BY DEF Invocations
<1>2. BenchTypeOK'
  BY <1>1 DEF GradingInv, BenchTypeOK, Pairs
<1>3. StagesInOrder'
  BY <1>1 DEF StagesInOrder
<1>4. ASSUME NEW i \in Invocations, NEW p \in Graded(i)' PROVE Judged(i, p)'
  <2>1. p \in Graded(i) /\ p \in Pairs
    BY <1>4 DEF Graded, Pairs
  <2>2. Judged(i, p)
    BY <2>1 DEF GradingInv
  <2>3. \A q \in Pairs : Key(q)' = Key(q)
    BY DEF Key
  <2> QED
    BY <2>1, <2>2, <2>3 DEF Judged, Pairs
<1> QED
  BY <1>1, <1>2, <1>3, <1>4 DEF GradingInv

LEMMA GradingKept ==
    ASSUME GradingInv, BenchmarkNext
    PROVE  GradingInv'
<1>1. PICK i \in Invocations :
          \/ \E p \in Pairs : \/ \E a \in Answers, diag \in {0, 1, Absent} : Finishes(i, p, a, diag)
                              \/ DoesNotBuild(i, p) \/ Vanishes(i, p)
          \/ Interrupted(i) \/ AllCollected(i)
          \/ Opens(i) \/ CannotOpen(i) \/ \E k \in unsaved[i] : Inserts(i, k)
          \/ Closes(i) \/ Killed(i) \/ Gates(i) \/ CannotGate(i) \/ Reports(i)
  BY DEF BenchmarkNext
<1> DEFINE Stages == {"running", "collected", "inserting", "gating", "report", "done"}
<1>2. /\ stage \in [Invocations -> Stages]
      /\ DOMAIN answers = Invocations /\ \A j \in Invocations : DOMAIN answers[j] = Pairs
      /\ DOMAIN exit = Invocations
      /\ \A j \in Invocations :
             /\ stage[j] \in {"collected", "inserting", "gating", "report"} => todo[j] = {}
             /\ exit[j] # Absent => stage[j] = "done"
             /\ exit[j] = 0 => todo[j] = {} /\ \A k \in DOMAIN results[j] : results[j][k].passed
  BY DEF GradingInv, BenchTypeOK, StagesInOrder
<1>3. ASSUME NEW p \in Pairs, NEW a \in Answers, NEW diag \in {0, 1, Absent}, Finishes(i, p, a, diag)
      PROVE  GradingInv'
  <2> DEFINE row == Row(suite[p[1]], a, diag, options[i].version)
  <2>1. /\ Collects(i, p, row) /\ suite[p[1]].builds
        /\ answers' = [answers EXCEPT ![i][p] = a]
    BY <1>3 DEF Finishes
  <2>2. /\ DOMAIN answers' = Invocations /\ \A j \in Invocations : DOMAIN answers'[j] = Pairs
        /\ answers'[i][p] = a
        /\ \A j \in Invocations : \A q \in Pairs : <<j, q>> # <<i, p>> => answers'[j][q] = answers[j][q]
    BY <1>2, <2>1
  <2>3. row.passed => Passes(suite[p[1]], answers'[i][p])
    BY <2>2, RowMeets
  <2> HIDE DEF row
  <2> QED
    BY <2>1, <2>2, <2>3, CollectedIsJudged
<1>4. ASSUME NEW p \in Pairs, DoesNotBuild(i, p) PROVE GradingInv'
  <2>1. Collects(i, p, Unbuilt(options[i].version)) /\ answers' = answers
    BY <1>4 DEF DoesNotBuild
  <2>2. ~Unbuilt(options[i].version).passed
    BY DEF Unbuilt
  <2> QED
    BY <1>2, <2>1, <2>2, CollectedIsJudged
<1>5. ASSUME NEW p \in Pairs, Vanishes(i, p) PROVE GradingInv'
  <2>1. /\ stage[i] = "running" /\ suite[p[1]].builds /\ ~suite[p[1]].sane
        /\ todo' = [todo EXCEPT ![i] = @ \ {p}]
        /\ UNCHANGED <<suite, stage, options, answers, results, exit>>
    BY <1>5 DEF Vanishes
  <2>2. todo \in [Invocations -> SUBSET {q \in Pairs : suite[q[1]].loads}] /\ Invocations' = Invocations
    BY <2>1 DEF GradingInv, BenchTypeOK, Invocations
  <2>3. todo' \in [Invocations -> SUBSET {q \in Pairs : suite[q[1]].loads}]
    BY <2>1, <2>2
  <2>4. BenchTypeOK'
    BY <2>1, <2>2, <2>3 DEF GradingInv, BenchTypeOK, Pairs
  <2>5. StagesInOrder'
    BY <1>2, <2>1, <2>2 DEF StagesInOrder
  <2>6. ASSUME NEW j \in Invocations, NEW q \in Graded(j)' PROVE Judged(j, q)'
    <3>1. q \in Graded(j) \/ (q = p /\ j = i)
      BY <2>1, <2>2, <2>6 DEF Graded, Pairs
    <3>2. Judged(j, q) \/ (q = p /\ j = i)
      BY <3>1 DEF GradingInv
    <3>3. \A k \in Pairs : Key(k)' = Key(k)
      BY <2>1 DEF Key
    <3>4. q \in Pairs
      BY <2>6 DEF Graded, Pairs
    <3> QED
      BY <2>1, <3>2, <3>3, <3>4 DEF Judged, Pairs
  <2> QED
    BY <2>2, <2>4, <2>5, <2>6 DEF GradingInv
<1>6. ASSUME UNCHANGED <<suite, options, todo, answers, results, exit>>,
             NEW to \in Stages, stage' = [stage EXCEPT ![i] = to], exit[i] = Absent,
             to \in {"collected", "inserting", "gating", "report"} => todo[i] = {}
      PROVE  GradingInv'
  <2>1. stage' \in [Invocations -> Stages] /\ stage'[i] = to
    BY <1>2, <1>6
  <2>2. Absent # 0
    BY BenchmarkAssumption
  <2>3. \A j \in Invocations \ {i} : stage'[j] = stage[j]
    BY <1>2, <1>6
  <2> QED
    BY <1>2, <1>6, <2>1, <2>2, <2>3, NothingCollected
<1>7. ASSUME UNCHANGED <<suite, options, todo, answers, results>>, NEW code \in Nat,
             stage' = [stage EXCEPT ![i] = "done"], exit' = [exit EXCEPT ![i] = code],
             code = 0 => todo[i] = {} /\ \A k \in DOMAIN results[i] : results[i][k].passed
      PROVE  GradingInv'
  <2>1. stage' \in [Invocations -> Stages] /\ stage'[i] = "done" /\ exit'[i] = code
        /\ DOMAIN exit' = Invocations
    BY <1>2, <1>7
  <2>2. \A j \in Invocations \ {i} : stage'[j] = stage[j] /\ exit'[j] = exit[j]
    BY <1>2, <1>7
  <2> QED
    BY <1>2, <1>7, <2>1, <2>2, NothingCollected
<1>8. stage[i] # "done" => exit[i] = Absent
  BY <1>2
<1>9. CASE Interrupted(i)
  <2> DEFINE code == 130
  <2>1. /\ stage' = [stage EXCEPT ![i] = "done"] /\ exit' = [exit EXCEPT ![i] = code]
        /\ UNCHANGED <<suite, options, todo, answers, results>>
    BY <1>9 DEF Interrupted, Goes, Exits
  <2>2. code \in Nat /\ code # 0
    OBVIOUS
  <2> HIDE DEF code
  <2> QED
    BY <1>7, <2>1, <2>2
<1>10. CASE AllCollected(i)
  <2> DEFINE to == IF options[i].persist THEN "collected" ELSE "report"
  <2>1. to \in Stages /\ stage' = [stage EXCEPT ![i] = to] /\ exit[i] = Absent /\ todo[i] = {}
    BY <1>8, <1>10 DEF AllCollected, Goes
  <2>2. UNCHANGED <<suite, options, todo, answers, results, exit>>
    BY <1>10 DEF AllCollected
  <2> HIDE DEF to
  <2> QED
    BY <1>6, <2>1, <2>2
<1>11. CASE Opens(i)
  BY <1>2, <1>6, <1>8, <1>11 DEF Opens, Goes
<1>12. AfterPersist(i) \in {"gating", "report"}
  BY DEF AfterPersist
<1>13. CASE CannotOpen(i)
  BY <1>2, <1>6, <1>8, <1>12, <1>13 DEF CannotOpen, Goes
<1>14. ASSUME NEW k \in unsaved[i], Inserts(i, k) PROVE GradingInv'
  <2>1. UNCHANGED <<suite, options, todo, answers, results, stage, exit>>
    BY <1>14 DEF Inserts
  <2> QED
    BY <1>2, <2>1, NothingCollected
<1>15. CASE Closes(i)
  BY <1>2, <1>6, <1>8, <1>12, <1>15 DEF Closes, Goes
<1>16. CASE Killed(i)
  <2> DEFINE code == 1
  <2>1. /\ stage' = [stage EXCEPT ![i] = "done"] /\ exit' = [exit EXCEPT ![i] = code]
        /\ UNCHANGED <<suite, options, todo, answers, results>>
    BY <1>16 DEF Killed, Goes, Exits
  <2>2. code \in Nat /\ code # 0
    OBVIOUS
  <2> HIDE DEF code
  <2> QED
    BY <1>7, <2>1, <2>2
<1>17. CASE Gates(i)
  BY <1>2, <1>6, <1>8, <1>17 DEF Gates, Goes
<1>18. CASE CannotGate(i)
  BY <1>2, <1>6, <1>8, <1>18 DEF CannotGate, Goes
<1>19. CASE Reports(i)
  <2> DEFINE failed == (\E k \in DOMAIN results[i] : ~results[i][k].passed) \/ regressed[i]
             code == IF failed THEN 1 ELSE 0
  <2>1. /\ stage' = [stage EXCEPT ![i] = "done"] /\ exit' = [exit EXCEPT ![i] = code]
        /\ stage[i] = "report" /\ UNCHANGED <<suite, options, todo, answers, results>>
    BY <1>19 DEF Reports, Goes, Exits
  <2>2. code = 0 => todo[i] = {} /\ \A k \in DOMAIN results[i] : results[i][k].passed
    BY <1>2, <2>1
  <2>3. code \in Nat
    OBVIOUS
  <2> HIDE DEF code
  <2> QED
    BY <1>7, <2>1, <2>2, <2>3
<1> QED
  BY <1>1, <1>3, <1>4, <1>5, <1>9, <1>10, <1>11, <1>13, <1>14, <1>15, <1>16, <1>17, <1>18, <1>19

\* Whatever the scenario files hold and the workers do, a result says of its pair
\* what the answer was, unless its worker died or another file took its place.
THEOREM GradingInvariant == BenchmarkSpec => []GradingInv
<1>1. BenchmarkInit => GradingInv
  <2> SUFFICES ASSUME BenchmarkInit PROVE GradingInv
    OBVIOUS
  <2>1. BenchTypeOK
    BY DEF BenchmarkInit, BenchTypeOK
  <2>2. StagesInOrder
    BY BenchmarkAssumption DEF BenchmarkInit, StagesInOrder
  <2>3. \A i \in Invocations : Graded(i) = {}
    BY DEF BenchmarkInit, Graded
  <2> QED
    BY <2>1, <2>2, <2>3 DEF GradingInv
<1>2. GradingInv /\ [BenchmarkNext]_benchVars => GradingInv'
  <2> SUFFICES ASSUME GradingInv, UNCHANGED benchVars PROVE GradingInv'
    BY GradingKept
  <2> QED
    BY NothingCollected DEF GradingInv, BenchTypeOK, StagesInOrder, benchVars
<1> QED
  BY <1>1, <1>2, PTL DEF BenchmarkSpec

\* A benchmark that exits 0 has seen every pair answered as its scenario asks, but for
\* files that do not load, workers that died, ids that are used twice, and an expected
\* effect in a scenario that does not assert patch_applies.
THEOREM ExitZeroIsEarned == BenchmarkSpec => []ExitZeroMeansFixed
<1>1. GradingInv => ExitZeroMeansFixed
  <2> SUFFICES ASSUME GradingInv, NEW i \in Invocations, exit[i] = 0, NEW p \in Pairs,
                      suite[p[1]].loads
               PROVE  \/ suite[p[1]].builds /\ ~suite[p[1]].sane
                      \/ \E other \in Pairs \ {p} : suite[other[1]].loads /\ Key(other) = Key(p)
                      \/ suite[p[1]].builds /\ Passes(suite[p[1]], answers[i][p])
    BY DEF ExitZeroMeansFixed, Passes, Meets
  <2>1. todo[i] = {} /\ \A k \in DOMAIN results[i] : results[i][k].passed
    BY DEF GradingInv, StagesInOrder
  <2>2. Judged(i, p)
    BY <2>1 DEF GradingInv, Graded
  <2> QED
    BY <2>1, <2>2 DEF Judged
<1> QED
  BY <1>1, GradingInvariant, PTL

-----------------------------------------------------------------------------
(* Benchmark: the store and the gate.                                      *)

Keys == {Key(p) : p \in Pairs}
Rows == [passed : BOOLEAN, valid : BOOLEAN, applies : BOOLEAN, diag : {0, 1, Absent}, version : Nat]
Entries == [key : Keys, by : Invocations, at : Nat, row : Rows]

StoreTypeOK ==
    /\ store \in Seq(Entries) /\ clock \in Nat
    /\ DOMAIN unsaved = Invocations /\ DOMAIN regressed = Invocations
    /\ \A i \in Invocations :
        /\ \A k \in DOMAIN results[i] :
               k \in Keys /\ results[i][k] \in Rows /\ results[i][k].version = options[i].version
        /\ unsaved[i] \subseteq DOMAIN results[i]

\* The store is open to the invocation that inserts, and the newest date is its own.
OneAtATime ==
    /\ \A i \in Invocations : stage[i] = "inserting" <=> opened = i
    /\ opened # Free => opened \in Invocations

\* A row is of an invocation that has begun to insert, and says what it collected.
EntriesOwned ==
    \A j \in DOMAIN store : LET e == store[j] IN
        /\ e.at <= clock /\ (e.at = clock /\ opened # Free => e.by = opened)
        /\ stage[e.by] \notin {"running", "collected"}
        /\ stage[e.by] = "inserting" => e.at = clock /\ e.key \notin unsaved[e.by]
        /\ e.key \in DOMAIN results[e.by] /\ e.row = results[e.by][e.key]

\* Dates follow the order of insertion, and each is that of one invocation, which
\* has one row for a key.
DatesInOrder ==
    \A j, l \in DOMAIN store :
        /\ j < l => store[j].at <= store[l].at
        /\ store[j].at = store[l].at <=> store[j].by = store[l].by
        /\ store[j].by = store[l].by /\ store[j].key = store[l].key => j = l

StoreInv == BenchTypeOK /\ StoreTypeOK /\ OneAtATime /\ EntriesOwned /\ DatesInOrder

\* Steps of an invocation that is not inserting and does not begin to.
LEMMA StoreUntouched ==
    ASSUME StoreInv, BenchTypeOK', UNCHANGED <<suite, options, clock, opened, store, unsaved>>,
           DOMAIN regressed' = Invocations,
           \A i \in Invocations :
               /\ stage'[i] = "inserting" <=> stage[i] = "inserting"
               /\ stage'[i] \in {"running", "collected"} => stage[i] \in {"running", "collected"}
               /\ results'[i] = results[i] \/ stage[i] = "running"
               /\ \A k \in DOMAIN results'[i] :
                      k \in Keys /\ results'[i][k] \in Rows /\ results'[i][k].version = options[i].version
               /\ DOMAIN results[i] \subseteq DOMAIN results'[i]
    PROVE  StoreInv'
<1>1. Invocations' = Invocations /\ Keys' = Keys
  BY DEF Invocations, Keys, Key, Pairs
<1>2. Entries' = Entries
  BY <1>1 DEF Entries, Rows
<1>3. StoreTypeOK'
  BY <1>1, <1>2 DEF StoreInv, StoreTypeOK, Rows
<1>4. OneAtATime'
  BY <1>1 DEF StoreInv, OneAtATime
<1>5. EntriesOwned'
  <2> SUFFICES ASSUME NEW j \in DOMAIN store
               PROVE  /\ stage'[store[j].by] \notin {"running", "collected"}
                      /\ stage'[store[j].by] = "inserting" => stage[store[j].by] = "inserting"
                      /\ results'[store[j].by] = results[store[j].by]
    BY DEF StoreInv, EntriesOwned
  <2>1. store[j].by \in Invocations /\ stage[store[j].by] \notin {"running", "collected"}
    <3>1. store[j] \in Entries
      BY DEF StoreInv, StoreTypeOK
    <3> QED
      BY <3>1 DEF StoreInv, EntriesOwned, Entries
  <2> QED
    BY <2>1
<1>6. DatesInOrder'
  BY DEF StoreInv, DatesInOrder
<1> QED
  BY <1>3, <1>4, <1>5, <1>6 DEF StoreInv

\* What an invocation may collect.
LEMMA CollectedRows ==
    ASSUME StoreInv, NEW i \in Invocations, NEW p \in Pairs, NEW row \in Rows,
           Collects(i, p, row), row.version = options[i].version, BenchTypeOK'
    PROVE  StoreInv'
<1>1. /\ UNCHANGED <<suite, stage, options, unsaved, regressed, opened, clock, store>>
      /\ stage[i] = "running"
      /\ results' = [results EXCEPT ![i] = [k \in DOMAIN @ \cup {Key(p)} |->
                                               IF k = Key(p) THEN row ELSE @[k]]]
      /\ DOMAIN results = Invocations
  BY DEF Collects, StoreInv, BenchTypeOK
<1>2. Key(p) \in Keys
  BY DEF Keys
<1>3. /\ DOMAIN results'[i] = DOMAIN results[i] \cup {Key(p)}
      /\ \A k \in DOMAIN results'[i] :
             results'[i][k] = IF k = Key(p) THEN row ELSE results[i][k]
      /\ \A j \in Invocations \ {i} : results'[j] = results[j]
  BY <1>1
<1>4. \A j \in Invocations : \A k \in DOMAIN results[j] :
          k \in Keys /\ results[j][k] \in Rows /\ results[j][k].version = options[j].version
  BY DEF StoreInv, StoreTypeOK
<1>5. ASSUME NEW j \in Invocations
      PROVE  /\ \A k \in DOMAIN results'[j] :
                    k \in Keys /\ results'[j][k] \in Rows /\ results'[j][k].version = options[j].version
             /\ DOMAIN results[j] \subseteq DOMAIN results'[j]
             /\ results'[j] = results[j] \/ stage[j] = "running"
  <2>1. CASE j = i
    BY <1>1, <1>2, <1>3, <1>4, <2>1
  <2>2. CASE j # i
    BY <1>3, <1>4, <2>2
  <2> QED
    BY <2>1, <2>2
<1>6. DOMAIN regressed' = Invocations
  BY <1>1 DEF StoreInv, StoreTypeOK
<1> QED
  BY <1>1, <1>5, <1>6, StoreUntouched

LEMMA RowTypes ==
    ASSUME BenchTypeOK, NEW i \in Invocations, NEW s, NEW a, NEW diag \in {0, 1, Absent}
    PROVE  /\ Row(s, a, diag, options[i].version) \in Rows
           /\ Row(s, a, diag, options[i].version).version = options[i].version
           /\ Unbuilt(options[i].version) \in Rows
           /\ Unbuilt(options[i].version).version = options[i].version
<1>1. options[i].version \in Nat
  BY BenchmarkAssumption DEF BenchTypeOK, Invocations
<1> QED
  BY <1>1 DEF Row, Unbuilt, Rows, Tried, Applies

\* An invocation opens the store, and its date is new.
LEMMA OpensKeepsStore ==
    ASSUME StoreInv, BenchTypeOK', NEW i \in Invocations, Opens(i)
    PROVE  StoreInv'
<1>1. /\ stage[i] = "collected" /\ stage' = [stage EXCEPT ![i] = "inserting"]
      /\ opened = Free /\ opened' = i /\ clock' = clock + 1
      /\ unsaved' = [unsaved EXCEPT ![i] = DOMAIN results[i]]
      /\ UNCHANGED <<suite, options, results, regressed, store>>
  BY DEF Opens, Goes
<1>2. Invocations' = Invocations /\ Keys' = Keys /\ Entries' = Entries
  BY <1>1 DEF Invocations, Keys, Key, Pairs, Entries, Rows
<1>3. /\ clock \in Nat /\ Free \notin Invocations
      /\ \A j \in Invocations \ {i} : stage'[j] = stage[j] /\ unsaved'[j] = unsaved[j]
      /\ stage'[i] = "inserting" /\ unsaved'[i] = DOMAIN results[i]
  BY <1>1, BenchmarkAssumption DEF StoreInv, StoreTypeOK, BenchTypeOK, Invocations
<1>4. StoreTypeOK'
  BY <1>1, <1>2, <1>3 DEF StoreInv, StoreTypeOK, Rows
<1>5. OneAtATime'
  BY <1>1, <1>2, <1>3 DEF StoreInv, OneAtATime
<1>6. EntriesOwned'
  <2>1. ASSUME NEW j \in DOMAIN store
        PROVE  /\ store[j].by \in Invocations \ {i} /\ store[j].at <= clock' /\ store[j].at # clock'
               /\ stage'[store[j].by] = stage[store[j].by] /\ stage[store[j].by] # "inserting"
    <3>1. store[j] \in Entries
      BY DEF StoreInv, StoreTypeOK
    <3>2. store[j].by \in Invocations /\ store[j].at \in Nat
      BY <3>1 DEF Entries
    <3>3. store[j].by # i /\ store[j].at <= clock
      BY <1>1 DEF StoreInv, EntriesOwned
    <3>4. stage[store[j].by] # "inserting"
      BY <1>1, <1>3, <3>2 DEF StoreInv, OneAtATime
    <3> QED
      BY <1>1, <1>3, <3>2, <3>3, <3>4
  <2>2. ASSUME NEW j \in DOMAIN store
        PROVE  /\ stage[store[j].by] \notin {"running", "collected"}
               /\ store[j].key \in DOMAIN results[store[j].by]
               /\ store[j].row = results[store[j].by][store[j].key]
    BY DEF StoreInv, EntriesOwned
  <2> SUFFICES ASSUME NEW j \in DOMAIN store
               PROVE  /\ store[j].at <= clock' /\ (store[j].at = clock' /\ opened' # Free => store[j].by = opened')
                      /\ stage'[store[j].by] \notin {"running", "collected"}
                      /\ stage'[store[j].by] = "inserting" =>
                             store[j].at = clock' /\ store[j].key \notin unsaved'[store[j].by]
                      /\ store[j].key \in DOMAIN results[store[j].by]
                      /\ store[j].row = results[store[j].by][store[j].key]
    BY <1>1 DEF EntriesOwned
  <2> QED
    BY <2>1, <2>2
<1>7. DatesInOrder'
  BY <1>1 DEF StoreInv, DatesInOrder
<1> QED
  BY <1>4, <1>5, <1>6, <1>7 DEF StoreInv

LEMMA InsertsKeepsStore ==
    ASSUME StoreInv, BenchTypeOK', NEW i \in Invocations, NEW k \in unsaved[i], Inserts(i, k)
    PROVE  StoreInv'
<1> DEFINE e == [key |-> k, by |-> i, at |-> clock, row |-> results[i][k]]
           n == Len(store)
<1>1. /\ stage[i] = "inserting" /\ store' = Append(store, e)
      /\ unsaved' = [unsaved EXCEPT ![i] = @ \ {k}]
      /\ UNCHANGED <<suite, stage, options, results, regressed, opened, clock>>
  BY DEF Inserts
<1>2. Invocations' = Invocations /\ Keys' = Keys /\ Entries' = Entries
  BY <1>1 DEF Invocations, Keys, Key, Pairs, Entries, Rows
<1>3. /\ clock \in Nat /\ store \in Seq(Entries) /\ opened = i /\ i # Free
      /\ k \in DOMAIN results[i] /\ k \in Keys /\ results[i][k] \in Rows
  BY <1>1, BenchmarkAssumption
  DEF StoreInv, StoreTypeOK, OneAtATime, BenchTypeOK, Invocations
<1>4. e \in Entries /\ e.key = k /\ e.by = i /\ e.at = clock /\ e.row = results[i][k]
  BY <1>3 DEF Entries
<1> HIDE DEF e
<1>5. /\ n \in Nat /\ DOMAIN store = 1..n /\ DOMAIN store' = 1..(n + 1)
      /\ store'[n + 1] = e /\ \A j \in 1..n : store'[j] = store[j] /\ store[j] \in Entries
      /\ store' \in Seq(Entries)
  BY <1>1, <1>3, <1>4
<1>6. /\ DOMAIN unsaved' = Invocations /\ unsaved'[i] = unsaved[i] \ {k}
      /\ \A j \in Invocations \ {i} : unsaved'[j] = unsaved[j]
  BY <1>1 DEF StoreInv, StoreTypeOK
<1>7. StoreTypeOK'
  BY <1>1, <1>2, <1>5, <1>6 DEF StoreInv, StoreTypeOK, Rows
<1>8. OneAtATime'
  BY <1>1, <1>2 DEF StoreInv, OneAtATime
<1>9. \A j \in 1..n :
          /\ store[j].by \in Invocations /\ store[j].at \in Nat
          /\ store[j].at <= clock /\ (store[j].at = clock <=> store[j].by = i)
          /\ store[j].by = i => store[j].key # k
  <2> SUFFICES ASSUME NEW j \in 1..n
               PROVE  /\ store[j].by \in Invocations /\ store[j].at \in Nat
                      /\ store[j].at <= clock /\ (store[j].at = clock <=> store[j].by = i)
                      /\ store[j].by = i => store[j].key # k
    OBVIOUS
  <2>1. store[j].by \in Invocations /\ store[j].at \in Nat
    BY <1>5 DEF Entries
  <2>2. /\ store[j].at <= clock /\ (store[j].at = clock /\ opened # Free => store[j].by = opened)
        /\ stage[store[j].by] = "inserting" => store[j].at = clock /\ store[j].key \notin unsaved[store[j].by]
    BY <1>5 DEF StoreInv, EntriesOwned
  <2> QED
    BY <1>1, <1>3, <2>1, <2>2
<1>10. EntriesOwned'
  <2> SUFFICES ASSUME NEW j \in 1..(n + 1)
               PROVE  /\ store'[j].at <= clock /\ (store'[j].at = clock => store'[j].by = i)
                      /\ stage[store'[j].by] \notin {"running", "collected"}
                      /\ stage[store'[j].by] = "inserting" =>
                             store'[j].at = clock /\ store'[j].key \notin unsaved'[store'[j].by]
                      /\ store'[j].key \in DOMAIN results[store'[j].by]
                      /\ store'[j].row = results[store'[j].by][store'[j].key]
    BY <1>1, <1>3, <1>5 DEF EntriesOwned
  <2>1. CASE j = n + 1
    BY <1>1, <1>3, <1>4, <1>5, <1>6, <2>1
  <2>2. CASE j \in 1..n
    <3>1. /\ stage[store[j].by] \notin {"running", "collected"}
          /\ stage[store[j].by] = "inserting" =>
                 store[j].at = clock /\ store[j].key \notin unsaved[store[j].by]
          /\ store[j].key \in DOMAIN results[store[j].by]
          /\ store[j].row = results[store[j].by][store[j].key]
      BY <1>5, <2>2 DEF StoreInv, EntriesOwned
    <3> QED
      BY <1>5, <1>6, <1>9, <2>2, <3>1
  <2> QED
    BY <1>5, <2>1, <2>2
<1>11. DatesInOrder'
  <2> SUFFICES ASSUME NEW j \in 1..(n + 1), NEW l \in 1..(n + 1)
               PROVE  /\ j < l => store'[j].at <= store'[l].at
                      /\ store'[j].at = store'[l].at <=> store'[j].by = store'[l].by
                      /\ store'[j].by = store'[l].by /\ store'[j].key = store'[l].key => j = l
    BY <1>5 DEF DatesInOrder
  <2>1. CASE j \in 1..n /\ l \in 1..n
    BY <1>5, <2>1 DEF StoreInv, DatesInOrder
  <2>2. CASE j = n + 1 /\ l \in 1..n
    BY <1>3, <1>4, <1>5, <1>9, <2>2
  <2>3. CASE l = n + 1 /\ j \in 1..n
    BY <1>3, <1>4, <1>5, <1>9, <2>3
  <2>4. CASE j = n + 1 /\ l = n + 1
    BY <1>3, <1>4, <1>5, <2>4
  <2> QED
    BY <1>5, <2>1, <2>2, <2>3, <2>4
<1> QED
  BY <1>7, <1>8, <1>10, <1>11 DEF StoreInv

\* An invocation closes the store, or is killed.
LEMMA LeavesStore ==
    ASSUME StoreInv, BenchTypeOK', NEW i \in Invocations, stage[i] = "inserting",
           NEW to \in {"gating", "report", "done"}, stage' = [stage EXCEPT ![i] = to],
           opened' = Free,
           UNCHANGED <<suite, options, results, unsaved, regressed, clock, store>>
    PROVE  StoreInv'
<1>1. Invocations' = Invocations /\ Keys' = Keys /\ Entries' = Entries
  BY DEF Invocations, Keys, Key, Pairs, Entries, Rows
<1>2. /\ Free \notin Invocations
      /\ stage'[i] = to /\ \A j \in Invocations \ {i} : stage'[j] = stage[j] /\ stage[j] # "inserting"
  BY BenchmarkAssumption DEF StoreInv, OneAtATime, BenchTypeOK, Invocations
<1>3. StoreTypeOK'
  BY <1>1 DEF StoreInv, StoreTypeOK, Rows
<1>4. OneAtATime'
  BY <1>1, <1>2 DEF OneAtATime
<1>5. \A j \in DOMAIN store : store[j].by \in Invocations
  <2>1. \A j \in DOMAIN store : store[j] \in Entries
    BY DEF StoreInv, StoreTypeOK
  <2> QED
    BY <2>1 DEF Entries
<1>6. EntriesOwned'
  BY <1>2, <1>5 DEF StoreInv, EntriesOwned
<1>7. DatesInOrder'
  BY DEF StoreInv, DatesInOrder
<1> QED
  BY <1>3, <1>4, <1>6, <1>7 DEF StoreInv

LEMMA StoreKept ==
    ASSUME StoreInv, BenchTypeOK', BenchmarkNext
    PROVE  StoreInv'
<1>1. PICK i \in Invocations :
          \/ \E p \in Pairs : \/ \E a \in Answers, diag \in {0, 1, Absent} : Finishes(i, p, a, diag)
                              \/ DoesNotBuild(i, p) \/ Vanishes(i, p)
          \/ Interrupted(i) \/ AllCollected(i)
          \/ Opens(i) \/ CannotOpen(i) \/ \E k \in unsaved[i] : Inserts(i, k)
          \/ Closes(i) \/ Killed(i) \/ Gates(i) \/ CannotGate(i) \/ Reports(i)
  BY DEF BenchmarkNext
<1>2. BenchTypeOK /\ stage \in [Invocations -> {"running", "collected", "inserting", "gating", "report", "done"}]
  BY DEF StoreInv, BenchTypeOK
<1>3. ASSUME NEW p \in Pairs, NEW a \in Answers, NEW diag \in {0, 1, Absent}, Finishes(i, p, a, diag)
      PROVE  StoreInv'
  <2>1. Collects(i, p, Row(suite[p[1]], a, diag, options[i].version))
    BY <1>3 DEF Finishes
  <2> QED
    BY <1>2, <2>1, RowTypes, CollectedRows
<1>4. ASSUME NEW p \in Pairs, DoesNotBuild(i, p) PROVE StoreInv'
  <2>1. Collects(i, p, Unbuilt(options[i].version))
    BY <1>4 DEF DoesNotBuild
  <2>2. Unbuilt(options[i].version) \in Rows /\ Unbuilt(options[i].version).version = options[i].version
    BY <1>2, RowTypes
  <2> QED
    BY <2>1, <2>2, CollectedRows
<1>5. ASSUME UNCHANGED <<suite, options, results, clock, opened, store, unsaved>>,
             DOMAIN regressed' = Invocations,
             stage[i] # "inserting", stage'[i] # "inserting",
             stage'[i] \in {"running", "collected"} => stage[i] \in {"running", "collected"},
             \A j \in Invocations \ {i} : stage'[j] = stage[j]
      PROVE  StoreInv'
  <2>1. \A j \in Invocations : \A k \in DOMAIN results[j] :
            k \in Keys /\ results[j][k] \in Rows /\ results[j][k].version = options[j].version
    BY DEF StoreInv, StoreTypeOK
  <2> QED
    BY <1>5, <2>1, StoreUntouched
<1>6. DOMAIN regressed = Invocations
  BY DEF StoreInv, StoreTypeOK
<1>7. ASSUME NEW p \in Pairs, Vanishes(i, p) PROVE StoreInv'
  <2>1. stage[i] = "running" /\ UNCHANGED <<suite, stage, options, results, clock, opened, store, unsaved, regressed>>
    BY <1>7 DEF Vanishes
  <2> QED
    BY <1>5, <1>6, <2>1
<1>8. CASE Interrupted(i)
  BY <1>2, <1>5, <1>6, <1>8 DEF Interrupted, Goes
<1>9. CASE AllCollected(i)
  BY <1>2, <1>5, <1>6, <1>9 DEF AllCollected, Goes
<1>10. ASSUME NEW k \in unsaved[i], Inserts(i, k) PROVE StoreInv'
  BY <1>10, InsertsKeepsStore
<1>11. AfterPersist(i) \in {"gating", "report"}
  BY DEF AfterPersist
<1>12. CASE CannotOpen(i)
  BY <1>2, <1>5, <1>6, <1>11, <1>12 DEF CannotOpen, Goes
<1>13. CASE Closes(i)
  BY <1>11, <1>13, LeavesStore DEF Closes, Goes
<1>14. CASE Killed(i)
  BY <1>14, LeavesStore DEF Killed, Goes
<1>15. CASE Gates(i)
  <2>1. /\ stage[i] = "gating" /\ stage' = [stage EXCEPT ![i] = "report"]
        /\ DOMAIN regressed' = DOMAIN regressed
        /\ UNCHANGED <<suite, options, results, clock, opened, store, unsaved>>
    BY <1>15 DEF Gates, Goes
  <2> QED
    BY <1>2, <1>5, <1>6, <2>1
<1>16. CASE CannotGate(i)
  BY <1>2, <1>5, <1>6, <1>16 DEF CannotGate, Goes
<1>17. CASE Reports(i)
  BY <1>2, <1>5, <1>6, <1>17 DEF Reports, Goes
<1> QED
  BY <1>1, <1>3, <1>4, <1>7, <1>8, <1>9, <1>10, <1>12, <1>13, <1>14, <1>15, <1>16, <1>17,
     OpensKeepsStore

\* However invocations share the store: rows are dated in the order of their
\* insertion, and the rows of an invocation have a date that no other has.
THEOREM StoreInvariant == BenchmarkSpec => []StoreInv
<1>1. BenchmarkInit => StoreInv
  <2> SUFFICES ASSUME BenchmarkInit PROVE StoreInv
    OBVIOUS
  <2>1. BenchTypeOK
    BY DEF BenchmarkInit, BenchTypeOK
  <2>2. Free \notin Invocations
    BY <2>1, BenchmarkAssumption DEF BenchTypeOK, Invocations
  <2>3. StoreTypeOK
    BY DEF BenchmarkInit, StoreTypeOK
  <2>4. OneAtATime
    BY <2>2 DEF BenchmarkInit, OneAtATime
  <2>5. EntriesOwned /\ DatesInOrder
    BY DEF BenchmarkInit, EntriesOwned, DatesInOrder
  <2> QED
    BY <2>1, <2>3, <2>4, <2>5 DEF StoreInv
<1>2. StoreInv /\ GradingInv' /\ [BenchmarkNext]_benchVars => StoreInv'
  <2> SUFFICES ASSUME StoreInv, GradingInv', [BenchmarkNext]_benchVars PROVE StoreInv'
    OBVIOUS
  <2>1. BenchTypeOK'
    BY DEF GradingInv
  <2>2. CASE UNCHANGED benchVars
    <3>1. DOMAIN regressed' = Invocations /\ \A i \in Invocations : \A k \in DOMAIN results[i] :
            k \in Keys /\ results[i][k] \in Rows /\ results[i][k].version = options[i].version
      BY <2>2 DEF StoreInv, StoreTypeOK, benchVars
    <3> QED
      BY <2>1, <2>2, <3>1, StoreUntouched DEF benchVars
  <2> QED
    BY <2>1, <2>2, StoreKept
<1> QED
  BY <1>1, <1>2, GradingInvariant, PTL DEF BenchmarkSpec

\* Of rows for one key the newest is the one that was inserted last.
LEMMA NewestIsLast ==
    ASSUME StoreInv, NEW k, NEW T \in SUBSET DOMAIN store, T # {}, \A j \in T : store[j].key = k
    PROVE  /\ Max(T) \in T /\ \A j \in T : j <= Max(T)
           /\ Newest({store[j] : j \in T}) = store[Max(T)]
<1>1. store \in Seq(Entries) /\ DOMAIN store = 1..Len(store) /\ Len(store) \in Nat
  BY DEF StoreInv, StoreTypeOK
<1>2. PICK l \in T : \A j \in T : j <= l
  BY <1>1, LargestOf
<1>3. Max(T) \in T /\ \A j \in T : Max(T) >= j
  BY <1>1, <1>2 DEF Max
<1> DEFINE m == Max(T)
           rows == {store[j] : j \in T}
<1> HIDE DEF m
<1>4. m \in T /\ \A j \in T : j <= m
  BY <1>1, <1>3 DEF m
<1>5. \A j \in T : store[j].at \in Nat
  <2>1. \A j \in T : store[j] \in Entries
    BY <1>1
  <2> QED
    BY <2>1 DEF Entries
<1>6. \A j \in T : store[j].at <= store[m].at
  BY <1>1, <1>4, <1>5 DEF StoreInv, DatesInOrder
<1>7. Newest(rows) \in rows /\ \A other \in rows : other.at <= Newest(rows).at
  BY <1>4, <1>6 DEF Newest
<1>8. PICK j \in T : Newest(rows) = store[j]
  BY <1>7
<1>9. store[j].at = store[m].at
  BY <1>4, <1>5, <1>6, <1>7, <1>8
<1>10. j = m
  BY <1>4, <1>9 DEF StoreInv, DatesInOrder
<1> QED
  BY <1>4, <1>8, <1>10 DEF m

\* The gate's verdict on a result whose row is the last of its key.
LEMMA GateMeasures ==
    ASSUME StoreInv, NEW i \in Invocations, NEW k \in DOMAIN results[i],
           Stored(i, k), LastStored({j \in DOMAIN store : store[j].key = k}).by = i
    PROVE  EntryRegressed(k) <=> /\ Measure(i, k) # Absent
                                 /\ Regressed(Measure(i, k).row, results[i][k])
<1> DEFINE all == {j \in DOMAIN store : store[j].key = k}
           l == Max(all)
           others == {j \in DOMAIN store : store[j].key = k /\ store[j].by # i}
           same == {j \in others : store[j].row.version = options[i].version}
           Entry(T) == {store[j] : j \in T}
<1>1. PICK j0 \in DOMAIN store : store[j0].key = k
  BY DEF Stored, Range
<1>2. /\ l \in all /\ \A j \in all : j <= l
      /\ Newest(Entry(all)) = store[l]
  BY <1>1, NewestIsLast
<1>3. store[l].by = i
  BY DEF LastStored
<1> HIDE DEF l
<1>4. {e \in Range(store) : e.key = k} = Entry(all) /\ Entry(all) # {}
  BY <1>1 DEF Range
<1>5. store[l].row = results[i][k] /\ store[l].row.version = options[i].version /\ store[l].key = k
  BY <1>2, <1>3 DEF StoreInv, EntriesOwned, StoreTypeOK
<1>6. \A j \in all : store[j].at \in Nat /\ j \in Nat
  <2>1. \A j \in all : store[j] \in Entries /\ j \in Nat
    BY DEF StoreInv, StoreTypeOK
  <2> QED
    BY <2>1 DEF Entries
<1>7. ASSUME NEW j \in all PROVE store[j].at < store[l].at <=> store[j].by # i
  <2>1. store[j].at = store[l].at <=> store[j].by = i
    BY <1>2, <1>3 DEF StoreInv, DatesInOrder
  <2>2. store[j].at <= store[l].at
    BY <1>2, <1>6 DEF StoreInv, DatesInOrder
  <2> QED
    BY <1>2, <1>6, <2>1, <2>2
<1> DEFINE earlier == {e \in Range(store) : e.key = store[l].key /\ e.at < store[l].at}
           sameVersion == {e \in earlier : e.row.version = store[l].row.version}
<1>8. earlier = Entry(others)
  BY <1>5, <1>7 DEF Range
<1>9. sameVersion = Entry(same)
  BY <1>5, <1>8
<1>10. Baseline(store[l]) = Measure(i, k)
  <2>1. Baseline(store[l]) = IF sameVersion # {} THEN Newest(sameVersion)
                             ELSE IF earlier # {} THEN Newest(earlier) ELSE Absent
    BY DEF Baseline
  <2>2. Measure(i, k) = IF same # {} THEN store[Max(same)]
                        ELSE IF others # {} THEN store[Max(others)] ELSE Absent
    BY DEF Measure, LastStored
  <2>3. same # {} => Newest(Entry(same)) = store[Max(same)]
    BY NewestIsLast
  <2>4. others # {} => Newest(Entry(others)) = store[Max(others)]
    BY NewestIsLast
  <2>5. (Entry(same) # {} <=> same # {}) /\ (Entry(others) # {} <=> others # {})
    OBVIOUS
  <2> HIDE DEF same, others, Entry, earlier, sameVersion
  <2> QED
    BY <1>8, <1>9, <2>1, <2>2, <2>3, <2>4, <2>5
<1>11. EntryRegressed(k) <=> /\ Baseline(store[l]) # Absent
                             /\ Regressed(Baseline(store[l]).row, store[l].row)
  <2> HIDE DEF all, Entry
  <2> QED
    BY <1>2, <1>4 DEF EntryRegressed
<1> QED
  BY <1>5, <1>10, <1>11

\* The gate of an invocation whose rows are the last ones fails it exactly if a result
\* is worse than what it has to be measured by, whatever was stored before by whom.
THEOREM RegressionsAreSeen == BenchmarkSpec => RegressionSeen
<1>1. ASSUME StoreInv, NEW i \in Invocations, Gates(i),
             \A k \in DOMAIN results[i] :
                 /\ Stored(i, k)
                 /\ LastStored({j \in DOMAIN store : store[j].key = k}).by = i
      PROVE  regressed'[i] <=> \E k \in DOMAIN results[i] :
                                   /\ Measure(i, k) # Absent
                                   /\ Regressed(Measure(i, k).row, results[i][k])
  <2>1. regressed'[i] = \E k \in DOMAIN results[i] : EntryRegressed(k)
    BY <1>1 DEF Gates, StoreInv, StoreTypeOK
  <2> QED
    BY <1>1, <2>1, GateMeasures
<1> DEFINE Sees(i) ==
        (/\ Gates(i)
         /\ \A k \in DOMAIN results[i] :
               /\ Stored(i, k)
               /\ LastStored({j \in DOMAIN store : store[j].key = k}).by = i)
        => (regressed'[i] <=>
               \E k \in DOMAIN results[i] :
                   /\ Measure(i, k) # Absent
                   /\ Regressed(Measure(i, k).row, results[i][k]))
<1>2. StoreInv => \A i \in Invocations : Sees(i)
  BY <1>1
<1>3. StoreInv /\ [BenchmarkNext]_benchVars => [\A i \in Invocations : Sees(i)]_benchVars
  BY <1>2
<1> QED
  BY <1>3, StoreInvariant, PTL DEF BenchmarkSpec, RegressionSeen

=============================================================================
