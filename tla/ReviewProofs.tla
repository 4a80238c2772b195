---------------------------- MODULE ReviewProofs ----------------------------
(***************************************************************************)
(* What holds on the way of a patch from the model to the blueprint, for   *)
(* any number of patches, blueprints, runs and reviewers: the folders and  *)
(* the git history of PatchLifecycle, the operations of PatchOps, the      *)
(* writers of PatchGates, and the Airflow task that waits for a reviewer   *)
(* in AirflowApproval.                                                     *)
(***************************************************************************)
EXTENDS PatchLifecycle, PatchGates, AirflowApproval, FiniteSetTheorems,
        SequenceTheorems, WellFoundedInduction, TLAPS

-----------------------------------------------------------------------------
(* PatchLifecycle: history.  The invariant that does not depend on the     *)
(* folders patches are applied from.                                       *)

\* What a commit holds of a blueprint is patches of that blueprint.
OwnContent ==
    \A b \in Blueprints : \A i \in DOMAIN history[b] :
        \A p \in history[b][i].content : Target[p] = b

\* A commit claims what was applied since the commit before it; as long as the
\* patch stays in applied/ its time only grows.
ClaimsInTime ==
    \A b \in Blueprints : \A i \in DOMAIN history[b] :
        i > 1 => \A p \in history[b][i].claims :
                     p \in folders.applied => appliedAt[p] >= history[b][i - 1].at

HistoryInv == LifecycleTypeOK /\ OwnContent /\ ClaimsInTime /\ RollbackRemovesPatch

\* What each command in progress has on its hands.
LEMMA CommandShape ==
    ASSUME op \in Commands
    PROVE  /\ op = Idle \/ op.cmd # "idle"
           /\ op.cmd \in {"apply_written", "apply_archived"} =>
                  op.patch \in Patches /\ op.from \in ApplyDirs
           /\ op.cmd \in {"auto_written", "reject_written"} => op.patch \in Patches
           /\ op.cmd = "discard" => op.blueprint \in Blueprints /\ op.todo \subseteq Patches
           /\ op.cmd = "rollback" => op.blueprint \in Blueprints /\ op.patch \in Patches
  BY DEF Commands, Idle

\* A nonempty set of positions has a last one.
LEMMA LastPosition ==
    ASSUME NEW n \in Nat, NEW T \in SUBSET (1..n), T # {}
    PROVE  \E x \in T : \A y \in T : y <= x
<1> DEFINE U == {x..n : x \in T}
           R == StrictSubsetOrdering(1..n)
<1>1. IsWellFoundedOn(R, SUBSET (1..n))
  <2>1. IsWellFoundedOn(R, FiniteSubsetsOf(1..n))
    BY FS_StrictSubsetOrderingWellFounded
  <2>2. IsFiniteSet(1..n)
    BY FS_Interval
  <2>3. FiniteSubsetsOf(1..n) = SUBSET (1..n)
    BY <2>2, FS_FiniteSubsetsOfFinite
  <2> QED
    BY <2>1, <2>3
<1>2. U \subseteq SUBSET (1..n) /\ U # {}
  <2>1. \A x \in T : x..n \subseteq 1..n
    OBVIOUS
  <2> QED
    BY <2>1
<1>3. PICK u \in U : \A y \in U : ~ (<<y, u>> \in R)
  <2> HIDE DEF R, U
  <2> QED
    BY <1>1, <1>2, WFMin
<1>4. PICK x \in T : u = x..n
  OBVIOUS
<1>5. ASSUME NEW y \in T, y > x PROVE FALSE
  <2>1. <<y..n, x..n>> \in R
    BY <1>5 DEF StrictSubsetOrdering
  <2> QED
    BY <1>3, <1>4, <2>1
<1> QED
  BY <1>5

\* The commit that is rolled back is one that claims the patch.
LEMMA CommitOfClaims ==
    ASSUME LifecycleTypeOK, NEW b \in Blueprints, NEW p,
           \E i \in DOMAIN history[b] : p \in history[b][i].claims
    PROVE  CommitOf(b, p) \in DOMAIN history[b] /\ p \in history[b][CommitOf(b, p)].claims
<1> DEFINE T == {i \in DOMAIN history[b] : p \in history[b][i].claims}
<1>1. history[b] \in Seq(Commits)
  BY DEF LifecycleTypeOK
<1>2. T \in SUBSET (1..Len(history[b])) /\ T # {} /\ Len(history[b]) \in Nat
  BY <1>1
<1>3. PICK x \in T : \A y \in T : y <= x
  <2> HIDE DEF T
  <2> QED
    BY <1>2, LastPosition
<1>4. /\ x \in DOMAIN history[b]
      /\ p \in history[b][x].claims
      /\ \A j \in DOMAIN history[b] : p \in history[b][j].claims => j <= x
  BY <1>3
<1> QED
  BY <1>4 DEF CommitOf

\* The parts of the type invariant.
DiskOK ==
    /\ disk \in [Blueprints -> SUBSET Patches]
    /\ \A b \in Blueprints : \A p \in disk[b] : Target[p] = b

HistoryOK ==
    /\ history \in [Blueprints -> Seq(Commits)]
    /\ \A b \in Blueprints : \A i \in DOMAIN history[b] :
           /\ history[b][i].at <= clock
           /\ i > 1 => history[b][i - 1].at <= history[b][i].at

FilesOK ==
    /\ folders \in [{"pending", "applied", "rejected"} -> SUBSET Patches]
    /\ appliedAt \in [Patches -> 0..clock] /\ clock \in 0..MaxTime
    /\ known \subseteq Patches /\ torn \subseteq Patches

LEMMA LifecycleTypeParts ==
    LifecycleTypeOK <=> DiskOK /\ HistoryOK /\ FilesOK /\ op \in Commands
  BY DEF LifecycleTypeOK, DiskOK, HistoryOK, FilesOK

\* A commit is added to one blueprint; the earlier ones stay as they are.
LEMMA CommitAdded ==
    ASSUME DiskOK, HistoryOK, clock \in Nat, NEW b \in Blueprints,
           NEW claims \in SUBSET Patches, CommitFile(b, claims)
    PROVE  /\ history' \in [Blueprints -> Seq(Commits)]
           /\ \A c \in Blueprints \ {b} : history'[c] = history[c]
           /\ DOMAIN history'[b] = 1..(Len(history[b]) + 1)
           /\ Len(history'[b]) = Len(history[b]) + 1 /\ history'[b] # <<>>
           /\ \A i \in DOMAIN history[b] : history'[b][i] = history[b][i]
           /\ history'[b][Len(history[b]) + 1]
                  = [content |-> disk[b], claims |-> claims, at |-> clock]
<1>1. [content |-> disk[b], claims |-> claims, at |-> clock] \in Commits
  BY DEF DiskOK, Commits
<1>2. history[b] \in Seq(Commits)
  BY DEF HistoryOK
<1>3. history' = [history EXCEPT
          ![b] = Append(@, [content |-> disk[b], claims |-> claims, at |-> clock])]
  BY DEF CommitFile
<1> DEFINE c == [content |-> disk[b], claims |-> claims, at |-> clock]
<1>4. /\ history' \in [Blueprints -> Seq(Commits)]
      /\ history'[b] = Append(history[b], c)
      /\ \A d \in Blueprints \ {b} : history'[d] = history[d]
  BY <1>1, <1>2, <1>3 DEF HistoryOK
<1>5. /\ DOMAIN Append(history[b], c) = 1..(Len(history[b]) + 1)
      /\ Len(Append(history[b], c)) = Len(history[b]) + 1 /\ Append(history[b], c) # <<>>
      /\ \A i \in DOMAIN history[b] : Append(history[b], c)[i] = history[b][i]
      /\ Append(history[b], c)[Len(history[b]) + 1] = c
  <2> HIDE DEF c
  <2> QED
    BY <1>1, <1>2 DEF c
<1> HIDE DEF c
<1> QED
  BY <1>4, <1>5 DEF c

\* The last commit of a blueprint that has one.
LEMMA LastCommitIs ==
    ASSUME HistoryOK, NEW b \in Blueprints, history[b] # <<>>
    PROVE  /\ Len(history[b]) \in DOMAIN history[b] /\ LastCommit(b) \in Commits
           /\ \A i \in DOMAIN history[b] : i <= Len(history[b])
<1>1. history[b] \in Seq(Commits)
  BY DEF HistoryOK
<1> QED
  BY <1>1 DEF LastCommit

\* Every step keeps the blueprints' content to patches of their own.
LEMMA DiskKept ==
    ASSUME LifecycleTypeOK, OwnContent, [LifecycleNext]_lifecycleVars
    PROVE  DiskOK'
<1> USE LifecycleTypeParts
<1> USE DEF DiskOK
<1>1. CASE Time
  BY <1>1 DEF Time
<1>2. CASE ApplyArchives
  BY <1>2 DEF ApplyArchives
<1>3. CASE ApplyArchiveFails
  BY <1>3 DEF ApplyArchiveFails
<1>4. CASE ApplyUnlinks
  BY <1>4 DEF ApplyUnlinks
<1>5. CASE AutoArchives
  BY <1>5 DEF AutoArchives
<1>6. CASE RejectUnlinks
  BY <1>6 DEF RejectUnlinks
<1>7. CASE DiscardMoves
  BY <1>7 DEF DiscardMoves
<1>8. CASE DiscardMovesNothing
  BY <1>8 DEF DiscardMovesNothing
<1>9. CASE RollbackCommits
  BY <1>9 DEF RollbackCommits
<1>10. CASE RollbackHasNothing
  BY <1>10 DEF RollbackHasNothing
<1>11. CASE CommandKilled
  BY <1>11 DEF CommandKilled
<1>12. ASSUME NEW p \in Patches, Stage(p)
      PROVE  DiskOK'
  BY <1>12 DEF Stage
<1>13. ASSUME NEW p \in Patches, AutoWrites(p)
      PROVE  DiskOK'
  BY <1>13, LifecycleAssumption DEF AutoWrites
<1>14. ASSUME NEW p \in Patches, RejectWrites(p)
      PROVE  DiskOK'
  BY <1>14 DEF RejectWrites
<1>15. ASSUME NEW p \in Patches, NEW dir \in ApplyDirs, ApplyWrites(p, dir)
      PROVE  DiskOK'
  BY <1>15, LifecycleAssumption DEF ApplyWrites
<1>16. ASSUME NEW b \in Blueprints, Commit(b)
      PROVE  DiskOK'
  BY <1>16 DEF Commit
<1>17. ASSUME NEW b \in Blueprints, HandCommit(b)
      PROVE  DiskOK'
  BY <1>17 DEF HandCommit
<1>18. ASSUME NEW b \in Blueprints, DiscardRestores(b)
      PROVE  DiskOK'
  <2>1. LastCommit(b).content \subseteq Patches
        /\ \A p \in LastCommit(b).content : Target[p] = b
    BY <1>18, LastCommitIs DEF DiscardRestores, OwnContent, LastCommit, Commits
  <2> QED
    BY <1>18, <2>1 DEF DiscardRestores
<1>19. ASSUME NEW b \in Blueprints, NEW p \in Patches, RollbackRestores(b, p)
      PROVE  DiskOK'
  <2> DEFINE k == CommitOf(b, p)
  <2>1. k \in DOMAIN history[b] /\ k > 1
    BY <1>19, CommitOfClaims DEF RollbackRestores
  <2>2. history[b] \in Seq(Commits)
    BY DEF HistoryOK
  <2> HIDE DEF k
  <2>3. k - 1 \in DOMAIN history[b] /\ history[b][k - 1] \in Commits
    BY <2>1, <2>2
  <2>4. history[b][k - 1].content \subseteq Patches
        /\ \A q \in history[b][k - 1].content : Target[q] = b
    BY <2>3 DEF OwnContent, Commits
  <2>5. disk' = [disk EXCEPT ![b] = history[b][k - 1].content]
    BY <1>19 DEF RollbackRestores, k
  <2> QED
    BY <2>4, <2>5
<1>20. CASE UNCHANGED lifecycleVars
  BY <1>20 DEF lifecycleVars
<1> QED
  BY <1>1, <1>2, <1>3, <1>4, <1>5, <1>6, <1>7, <1>8, <1>9, <1>10, <1>11,
     <1>12, <1>13, <1>14, <1>15, <1>16, <1>17, <1>18, <1>19, <1>20 DEF LifecycleNext

\* Every step keeps the history in order.
LEMMA HistoryKept ==
    ASSUME LifecycleTypeOK, [LifecycleNext]_lifecycleVars
    PROVE  HistoryOK'
<1> USE LifecycleTypeParts
<1>a. ASSUME NEW b \in Blueprints, NEW claims \in SUBSET Patches, CommitFile(b, claims),
             clock' = clock
      PROVE  HistoryOK'
  <2>1. history[b] \in Seq(Commits) /\ clock \in Nat
    BY DEF HistoryOK, FilesOK
  <2>2. /\ history' \in [Blueprints -> Seq(Commits)]
        /\ \A c \in Blueprints \ {b} : history'[c] = history[c]
        /\ DOMAIN history'[b] = 1..(Len(history[b]) + 1)
        /\ \A i \in DOMAIN history[b] : history'[b][i] = history[b][i]
        /\ history'[b][Len(history[b]) + 1].at = clock
    <3>1. DiskOK /\ HistoryOK
      BY LifecycleTypeParts
    <3>2. clock \in Nat /\ CommitFile(b, claims)
      BY <1>a, <2>1
    <3> HIDE DEF CommitFile
    <3>3. history'[b][Len(history[b]) + 1]
              = [content |-> disk[b], claims |-> claims, at |-> clock]
      BY <3>1, <3>2, CommitAdded
    <3> QED
      BY <3>1, <3>2, <3>3, CommitAdded
  <2>3. ASSUME NEW i \in DOMAIN history'[b]
        PROVE  /\ history'[b][i].at <= clock
               /\ i > 1 => history'[b][i - 1].at <= history'[b][i].at
    <3>1. i \in 1..Len(history[b]) \/ i = Len(history[b]) + 1
      BY <2>1, <2>2
    <3>2. DOMAIN history[b] = 1..Len(history[b]) /\ Len(history[b]) \in Nat
      BY <2>1
    <3>3. history[b][Len(history[b])].at <= clock \/ Len(history[b]) = 0
      BY <3>2 DEF HistoryOK
    <3>4. CASE i \in 1..Len(history[b])
      <4>1. i > 1 => i - 1 \in DOMAIN history[b]
        BY <3>2, <3>4
      <4> QED
        BY <2>2, <3>2, <3>4, <4>1 DEF HistoryOK
    <3>5. CASE i = Len(history[b]) + 1
      <4>1. history'[b][i].at = clock
        BY <2>2, <3>5
      <4>2. i > 1 => history'[b][i - 1] = history[b][Len(history[b])]
        BY <2>2, <3>2, <3>5
      <4>3. i > 1 => Len(history[b]) # 0
        BY <3>2, <3>5
      <4> QED
        BY <1>a, <2>1, <3>3, <4>1, <4>2, <4>3
    <3> QED
      BY <3>1, <3>4, <3>5
  <2> QED
    BY <1>a, <2>2, <2>3 DEF HistoryOK
<1>1. CASE Time
  <2>1. \A b \in Blueprints : \A i \in DOMAIN history[b] : history[b][i].at <= clock'
    <3> SUFFICES ASSUME NEW b \in Blueprints, NEW i \in DOMAIN history[b]
                 PROVE  history[b][i].at <= clock'
      OBVIOUS
    <3>1. history[b][i] \in Commits /\ clock \in Nat
      BY DEF HistoryOK, FilesOK
    <3> QED
      BY <1>1, <3>1 DEF HistoryOK, Time, Commits
  <2> QED
    BY <1>1, <2>1 DEF Time, HistoryOK
<1>2. CASE ApplyArchives
  BY <1>2 DEF ApplyArchives, HistoryOK
<1>3. CASE ApplyArchiveFails
  BY <1>3 DEF ApplyArchiveFails, HistoryOK
<1>4. CASE ApplyUnlinks
  BY <1>4 DEF ApplyUnlinks, HistoryOK
<1>5. CASE AutoArchives
  BY <1>5 DEF AutoArchives, HistoryOK
<1>6. CASE RejectUnlinks
  BY <1>6 DEF RejectUnlinks, HistoryOK
<1>7. CASE DiscardMoves
  BY <1>7 DEF DiscardMoves, HistoryOK
<1>8. CASE DiscardMovesNothing
  BY <1>8 DEF DiscardMovesNothing, HistoryOK
<1>9. CASE RollbackCommits
  BY <1>9, <1>a, CommandShape DEF RollbackCommits
<1>10. CASE RollbackHasNothing
  BY <1>10 DEF RollbackHasNothing, HistoryOK
<1>11. CASE CommandKilled
  BY <1>11 DEF CommandKilled, HistoryOK
<1>12. ASSUME NEW p \in Patches, Stage(p)
      PROVE  HistoryOK'
  BY <1>12 DEF Stage, HistoryOK
<1>13. ASSUME NEW p \in Patches, AutoWrites(p)
      PROVE  HistoryOK'
  BY <1>13 DEF AutoWrites, HistoryOK
<1>14. ASSUME NEW p \in Patches, RejectWrites(p)
      PROVE  HistoryOK'
  BY <1>14 DEF RejectWrites, HistoryOK
<1>15. ASSUME NEW p \in Patches, NEW dir \in ApplyDirs, ApplyWrites(p, dir)
      PROVE  HistoryOK'
  BY <1>15 DEF ApplyWrites, HistoryOK
<1>16. ASSUME NEW b \in Blueprints, Commit(b)
      PROVE  HistoryOK'
  <2>1. Uncommitted(b) \in SUBSET Patches
    BY DEF Uncommitted, FilesOK
  <2> QED
    BY <1>16, <2>1, <1>a DEF Commit
<1>17. ASSUME NEW b \in Blueprints, HandCommit(b)
      PROVE  HistoryOK'
  BY <1>17, <1>a DEF HandCommit
<1>18. ASSUME NEW b \in Blueprints, DiscardRestores(b)
      PROVE  HistoryOK'
  BY <1>18 DEF DiscardRestores, HistoryOK
<1>19. ASSUME NEW b \in Blueprints, NEW p \in Patches, RollbackRestores(b, p)
      PROVE  HistoryOK'
  BY <1>19 DEF RollbackRestores, HistoryOK
<1>20. CASE UNCHANGED lifecycleVars
  BY <1>20 DEF lifecycleVars, HistoryOK
<1> QED
  BY <1>1, <1>2, <1>3, <1>4, <1>5, <1>6, <1>7, <1>8, <1>9, <1>10, <1>11,
     <1>12, <1>13, <1>14, <1>15, <1>16, <1>17, <1>18, <1>19, <1>20 DEF LifecycleNext

\* Every step keeps the folders, the times and the sets of patches typed.
LEMMA FilesKept ==
    ASSUME LifecycleTypeOK, [LifecycleNext]_lifecycleVars
    PROVE  FilesOK'
<1>a. op \in Commands /\ FilesOK /\ DiskOK
  BY LifecycleTypeParts
<1>b. MaxTime \in Nat /\ ApplyDirs \subseteq {"pending", "applied", "rejected"}
  BY LifecycleAssumption
<1> USE <1>a, <1>b
<1> USE DEF FilesOK
<1>1. CASE Time
  BY <1>1 DEF Time
<1>2. CASE ApplyArchives
  BY <1>2, CommandShape DEF ApplyArchives, Put
<1>3. CASE ApplyArchiveFails
  BY <1>3, CommandShape DEF ApplyArchiveFails
<1>4. CASE ApplyUnlinks
  BY <1>4, CommandShape DEF ApplyUnlinks, Drop
<1>5. CASE AutoArchives
  BY <1>5, CommandShape DEF AutoArchives, Put
<1>6. CASE RejectUnlinks
  BY <1>6, CommandShape DEF RejectUnlinks, Drop
<1>7. CASE DiscardMoves
  <2>1. PICK p \in op.todo :
             /\ folders' = [folders EXCEPT !.applied = @ \ {p}, !.pending = @ \cup {p}]
             /\ appliedAt' = [appliedAt EXCEPT ![p] = 0]
    BY <1>7 DEF DiscardMoves
  <2>2. p \in Patches
    BY <1>7, <2>1, CommandShape DEF DiscardMoves
  <2>3. appliedAt' \in [Patches -> 0..clock]
    BY <2>1, <2>2
  <2>4. folders' \in [{"pending", "applied", "rejected"} -> SUBSET Patches]
    BY <2>1, <2>2
  <2> QED
    BY <1>7, <2>3, <2>4 DEF DiscardMoves
<1>8. CASE DiscardMovesNothing
  BY <1>8 DEF DiscardMovesNothing
<1>9. CASE RollbackCommits
  BY <1>9 DEF RollbackCommits
<1>10. CASE RollbackHasNothing
  BY <1>10 DEF RollbackHasNothing
<1>11. CASE CommandKilled
  <2>1. CASE op.cmd = "discard"
    BY <1>11, <2>1, CommandShape DEF CommandKilled
  <2>2. CASE op.cmd = "rollback"
    BY <1>11, <2>2, CommandShape DEF CommandKilled, DiskOK
  <2>3. CASE op.cmd \notin {"discard", "rollback"}
    <3>1. op.patch \in Patches
      BY <1>11, <2>3 DEF CommandKilled, Commands
    <3> QED
      BY <1>11, <2>3, <3>1 DEF CommandKilled
  <2> QED
    BY <2>1, <2>2, <2>3
<1>12. ASSUME NEW p \in Patches, Stage(p)
      PROVE  FilesOK'
  BY <1>12 DEF Stage, Put
<1>13. ASSUME NEW p \in Patches, AutoWrites(p)
      PROVE  FilesOK'
  BY <1>13 DEF AutoWrites
<1>14. ASSUME NEW p \in Patches, RejectWrites(p)
      PROVE  FilesOK'
  BY <1>14 DEF RejectWrites, Put
<1>15. ASSUME NEW p \in Patches, NEW dir \in ApplyDirs, ApplyWrites(p, dir)
      PROVE  FilesOK'
  BY <1>15 DEF ApplyWrites
<1>16. ASSUME NEW b \in Blueprints, Commit(b)
      PROVE  FilesOK'
  BY <1>16 DEF Commit
<1>17. ASSUME NEW b \in Blueprints, HandCommit(b)
      PROVE  FilesOK'
  BY <1>17 DEF HandCommit
<1>18. ASSUME NEW b \in Blueprints, DiscardRestores(b)
      PROVE  FilesOK'
  BY <1>18 DEF DiscardRestores
<1>19. ASSUME NEW b \in Blueprints, NEW p \in Patches, RollbackRestores(b, p)
      PROVE  FilesOK'
  BY <1>19 DEF RollbackRestores
<1>20. CASE UNCHANGED lifecycleVars
  BY <1>20 DEF lifecycleVars
<1> QED
  BY <1>1, <1>2, <1>3, <1>4, <1>5, <1>6, <1>7, <1>8, <1>9, <1>10, <1>11,
     <1>12, <1>13, <1>14, <1>15, <1>16, <1>17, <1>18, <1>19, <1>20 DEF LifecycleNext

\* Every step leaves a well-formed command in progress.
LEMMA CommandKept ==
    ASSUME LifecycleTypeOK, [LifecycleNext]_lifecycleVars
    PROVE  op' \in Commands
<1>a. op \in Commands /\ FilesOK
  BY LifecycleTypeParts
<1>b. Idle \in Commands
  BY DEF Commands
<1> USE <1>a, <1>b
<1>1. CASE Time
  BY <1>1 DEF Time
<1>2. CASE ApplyArchives
  BY <1>2 DEF ApplyArchives, Commands, Idle
<1>3. CASE ApplyArchiveFails
  BY <1>3 DEF ApplyArchiveFails
<1>4. CASE ApplyUnlinks
  BY <1>4 DEF ApplyUnlinks
<1>5. CASE AutoArchives
  BY <1>5 DEF AutoArchives
<1>6. CASE RejectUnlinks
  BY <1>6 DEF RejectUnlinks
<1>7. CASE DiscardMoves
  <2>1. PICK p \in op.todo :
             op' = IF op.todo = {p} THEN Idle ELSE [op EXCEPT !.todo = @ \ {p}]
    BY <1>7 DEF DiscardMoves
  <2>2. [op EXCEPT !.todo = @ \ {p}] \in Commands
    BY <1>7 DEF DiscardMoves, Commands, Idle
  <2> QED
    BY <2>1, <2>2
<1>8. CASE DiscardMovesNothing
  BY <1>8 DEF DiscardMovesNothing
<1>9. CASE RollbackCommits
  BY <1>9 DEF RollbackCommits
<1>10. CASE RollbackHasNothing
  BY <1>10 DEF RollbackHasNothing
<1>11. CASE CommandKilled
  BY <1>11 DEF CommandKilled
<1>12. ASSUME NEW p \in Patches, Stage(p)
      PROVE  op' \in Commands
  BY <1>12 DEF Stage
<1>13. ASSUME NEW p \in Patches, AutoWrites(p)
      PROVE  op' \in Commands
  BY <1>13 DEF AutoWrites, Commands
<1>14. ASSUME NEW p \in Patches, RejectWrites(p)
      PROVE  op' \in Commands
  BY <1>14 DEF RejectWrites, Commands
<1>15. ASSUME NEW p \in Patches, NEW dir \in ApplyDirs, ApplyWrites(p, dir)
      PROVE  op' \in Commands
  BY <1>15 DEF ApplyWrites, Commands
<1>16. ASSUME NEW b \in Blueprints, Commit(b)
      PROVE  op' \in Commands
  BY <1>16 DEF Commit
<1>17. ASSUME NEW b \in Blueprints, HandCommit(b)
      PROVE  op' \in Commands
  BY <1>17 DEF HandCommit
<1>18. ASSUME NEW b \in Blueprints, DiscardRestores(b)
      PROVE  op' \in Commands
  <2>1. Uncommitted(b) \in SUBSET Patches
    BY DEF Uncommitted, FilesOK
  <2> QED
    BY <1>18, <2>1 DEF DiscardRestores, Commands
<1>19. ASSUME NEW b \in Blueprints, NEW p \in Patches, RollbackRestores(b, p)
      PROVE  op' \in Commands
  BY <1>19 DEF RollbackRestores, Commands
<1>20. CASE UNCHANGED lifecycleVars
  BY <1>20 DEF lifecycleVars
<1> QED
  BY <1>1, <1>2, <1>3, <1>4, <1>5, <1>6, <1>7, <1>8, <1>9, <1>10, <1>11,
     <1>12, <1>13, <1>14, <1>15, <1>16, <1>17, <1>18, <1>19, <1>20 DEF LifecycleNext

\* Every commit holds what is in its blueprint, which is patches of its own.
LEMMA OwnContentKept ==
    ASSUME LifecycleTypeOK, OwnContent, [LifecycleNext]_lifecycleVars
    PROVE  OwnContent'
<1>a. DiskOK /\ HistoryOK /\ FilesOK /\ op \in Commands
  BY LifecycleTypeParts
<1>b. ASSUME NEW b \in Blueprints, NEW claims \in SUBSET Patches, CommitFile(b, claims)
      PROVE  OwnContent'
  <2>1. history[b] \in Seq(Commits) /\ clock \in Nat
    BY <1>a DEF HistoryOK, FilesOK
  <2>2. /\ \A c \in Blueprints \ {b} : history'[c] = history[c]
        /\ DOMAIN history'[b] = 1..(Len(history[b]) + 1)
        /\ \A i \in DOMAIN history[b] : history'[b][i] = history[b][i]
        /\ history'[b][Len(history[b]) + 1]
               = [content |-> disk[b], claims |-> claims, at |-> clock]
    <3>1. CommitFile(b, claims)
      BY <1>b
    <3> HIDE DEF CommitFile
    <3> QED
      BY <1>a, <2>1, <3>1, CommitAdded
  <2>3. \A i \in DOMAIN history'[b] : i \in DOMAIN history[b] \/ i = Len(history[b]) + 1
    BY <2>1, <2>2
  <2>4. \A p \in history'[b][Len(history[b]) + 1].content : Target[p] = b
    BY <1>a, <2>2 DEF DiskOK
  <2> QED
    BY <2>2, <2>3, <2>4 DEF OwnContent
<1>1. CASE Time
  BY <1>1 DEF Time, OwnContent
<1>2. CASE ApplyArchives
  BY <1>2 DEF ApplyArchives, OwnContent
<1>3. CASE ApplyArchiveFails
  BY <1>3 DEF ApplyArchiveFails, OwnContent
<1>4. CASE ApplyUnlinks
  BY <1>4 DEF ApplyUnlinks, OwnContent
<1>5. CASE AutoArchives
  BY <1>5 DEF AutoArchives, OwnContent
<1>6. CASE RejectUnlinks
  BY <1>6 DEF RejectUnlinks, OwnContent
<1>7. CASE DiscardMoves
  BY <1>7 DEF DiscardMoves, OwnContent
<1>8. CASE DiscardMovesNothing
  BY <1>8 DEF DiscardMovesNothing, OwnContent
<1>9. CASE RollbackCommits
  BY <1>9, <1>a, <1>b, CommandShape DEF RollbackCommits
<1>10. CASE RollbackHasNothing
  BY <1>10 DEF RollbackHasNothing, OwnContent
<1>11. CASE CommandKilled
  BY <1>11 DEF CommandKilled, OwnContent
<1>12. ASSUME NEW p \in Patches, Stage(p)
      PROVE  OwnContent'
  BY <1>12 DEF Stage, OwnContent
<1>13. ASSUME NEW p \in Patches, AutoWrites(p)
      PROVE  OwnContent'
  BY <1>13 DEF AutoWrites, OwnContent
<1>14. ASSUME NEW p \in Patches, RejectWrites(p)
      PROVE  OwnContent'
  BY <1>14 DEF RejectWrites, OwnContent
<1>15. ASSUME NEW p \in Patches, NEW dir \in ApplyDirs, ApplyWrites(p, dir)
      PROVE  OwnContent'
  BY <1>15 DEF ApplyWrites, OwnContent
<1>16. ASSUME NEW b \in Blueprints, Commit(b)
      PROVE  OwnContent'
  <2>1. Uncommitted(b) \in SUBSET Patches
    BY <1>a DEF Uncommitted, FilesOK
  <2> QED
    BY <1>16, <2>1, <1>b DEF Commit
<1>17. ASSUME NEW b \in Blueprints, HandCommit(b)
      PROVE  OwnContent'
  BY <1>17, <1>b DEF HandCommit
<1>18. ASSUME NEW b \in Blueprints, DiscardRestores(b)
      PROVE  OwnContent'
  BY <1>18 DEF DiscardRestores, OwnContent
<1>19. ASSUME NEW b \in Blueprints, NEW p \in Patches, RollbackRestores(b, p)
      PROVE  OwnContent'
  BY <1>19 DEF RollbackRestores, OwnContent
<1>20. CASE UNCHANGED lifecycleVars
  BY <1>20 DEF lifecycleVars, OwnContent
<1> QED
  BY <1>1, <1>2, <1>3, <1>4, <1>5, <1>6, <1>7, <1>8, <1>9, <1>10, <1>11,
     <1>12, <1>13, <1>14, <1>15, <1>16, <1>17, <1>18, <1>19, <1>20 DEF LifecycleNext

\* A commit claims what is at least as new as the commit before it, and a patch
\* that is applied again only gets newer.
LEMMA ClaimsKept ==
    ASSUME LifecycleTypeOK, ClaimsInTime, [LifecycleNext]_lifecycleVars
    PROVE  ClaimsInTime'
<1>a. DiskOK /\ HistoryOK /\ FilesOK /\ op \in Commands
  BY LifecycleTypeParts
<1>b. ASSUME NEW b \in Blueprints, NEW claims \in SUBSET Patches, CommitFile(b, claims),
             folders' = folders, appliedAt' = appliedAt,
             history[b] # <<>> => \A p \in claims : appliedAt[p] >= LastCommit(b).at
      PROVE  ClaimsInTime'
  <2>1. history[b] \in Seq(Commits) /\ clock \in Nat
    BY <1>a DEF HistoryOK, FilesOK
  <2>2. /\ \A c \in Blueprints \ {b} : history'[c] = history[c]
        /\ DOMAIN history'[b] = 1..(Len(history[b]) + 1)
        /\ \A i \in DOMAIN history[b] : history'[b][i] = history[b][i]
        /\ history'[b][Len(history[b]) + 1]
               = [content |-> disk[b], claims |-> claims, at |-> clock]
    <3>1. CommitFile(b, claims)
      BY <1>b
    <3> HIDE DEF CommitFile
    <3> QED
      BY <1>a, <2>1, <3>1, CommitAdded
  <2>3. ASSUME NEW i \in DOMAIN history'[b], i > 1, NEW p \in history'[b][i].claims,
               p \in folders.applied
        PROVE  appliedAt[p] >= history'[b][i - 1].at
    <3>1. DOMAIN history[b] = 1..Len(history[b]) /\ Len(history[b]) \in Nat
      BY <2>1
    <3>2. CASE i \in DOMAIN history[b]
      <4>1. i - 1 \in DOMAIN history[b]
        BY <2>3, <3>1, <3>2
      <4> QED
        BY <2>2, <2>3, <3>2, <4>1 DEF ClaimsInTime
    <3>3. CASE i = Len(history[b]) + 1
      <4>1. history'[b][i - 1] = LastCommit(b) /\ history[b] # <<>>
        BY <2>1, <2>2, <2>3, <3>1, <3>3 DEF LastCommit
      <4>2. p \in claims
        BY <2>2, <2>3, <3>3
      <4> QED
        BY <1>b, <4>1, <4>2
    <3> QED
      BY <2>2, <3>1, <3>2, <3>3
  <2>4. \A i \in DOMAIN history'[b] : i > 1 => \A p \in history'[b][i].claims :
            p \in folders.applied => appliedAt[p] >= history'[b][i - 1].at
    BY <2>3
  <2> QED
    BY <1>b, <2>2, <2>4 DEF ClaimsInTime
<1>c. ASSUME history' = history, folders'.applied \subseteq folders.applied,
             \A p \in folders'.applied : appliedAt'[p] = appliedAt[p]
      PROVE  ClaimsInTime'
  BY <1>c DEF ClaimsInTime
<1>d. ASSUME NEW q \in Patches, history' = history,
             folders'.applied = folders.applied \cup {q},
             appliedAt' = [appliedAt EXCEPT ![q] = clock]
      PROVE  ClaimsInTime'
  <2> SUFFICES ASSUME NEW b \in Blueprints, NEW i \in DOMAIN history[b], i > 1,
                      NEW p \in history[b][i].claims, p \in folders'.applied
               PROVE  appliedAt'[p] >= history[b][i - 1].at
    BY <1>d DEF ClaimsInTime
  <2>1. history[b] \in Seq(Commits) /\ clock \in Nat
    BY <1>a DEF HistoryOK, FilesOK
  <2>2. i - 1 \in DOMAIN history[b]
    BY <2>1
  <2>3. history[b][i - 1].at <= clock /\ history[b][i - 1].at \in Nat
    <3>1. history[b][i - 1] \in Commits
      BY <2>1, <2>2
    <3> QED
      BY <1>a, <2>2, <3>1 DEF HistoryOK, Commits
  <2>4. CASE p = q
    BY <1>a, <1>d, <2>1, <2>3, <2>4 DEF FilesOK
  <2>5. CASE p # q
    <3>1. p \in folders.applied /\ appliedAt'[p] = appliedAt[p]
      BY <1>a, <1>d, <2>5 DEF FilesOK
    <3> QED
      BY <3>1 DEF ClaimsInTime
  <2> QED
    BY <2>4, <2>5
<1>e. folders \in [{"pending", "applied", "rejected"} -> SUBSET Patches]
      /\ appliedAt \in [Patches -> 0..clock]
  BY <1>a DEF FilesOK
<1>1. CASE Time
  BY <1>1, <1>c DEF Time
<1>2. CASE ApplyArchives
  BY <1>2, <1>a, <1>d, <1>e, CommandShape DEF ApplyArchives, Put
<1>3. CASE ApplyArchiveFails
  BY <1>3, <1>c DEF ApplyArchiveFails
<1>4. CASE ApplyUnlinks
  <2>1. op.from \in {"pending", "applied", "rejected"}
    BY <1>4, <1>a, CommandShape, LifecycleAssumption DEF ApplyUnlinks
  <2> QED
    BY <1>4, <2>1, <1>c, <1>e DEF ApplyUnlinks, Drop
<1>5. CASE AutoArchives
  BY <1>5, <1>a, <1>d, <1>e, CommandShape DEF AutoArchives, Put
<1>6. CASE RejectUnlinks
  BY <1>6, <1>c, <1>e DEF RejectUnlinks, Drop
<1>7. CASE DiscardMoves
  <2>1. PICK p \in op.todo :
             /\ folders' = [folders EXCEPT !.applied = @ \ {p}, !.pending = @ \cup {p}]
             /\ appliedAt' = [appliedAt EXCEPT ![p] = 0]
    BY <1>7 DEF DiscardMoves
  <2>2. folders'.applied = folders.applied \ {p} /\ history' = history
    BY <1>7, <2>1, <1>e DEF DiscardMoves
  <2>3. \A q \in folders'.applied : appliedAt'[q] = appliedAt[q]
    BY <2>1, <2>2, <1>e
  <2> QED
    BY <2>2, <2>3, <1>c
<1>8. CASE DiscardMovesNothing
  BY <1>8, <1>c DEF DiscardMovesNothing
<1>9. CASE RollbackCommits
  BY <1>9, <1>a, <1>b, CommandShape DEF RollbackCommits
<1>10. CASE RollbackHasNothing
  BY <1>10, <1>c DEF RollbackHasNothing
<1>11. CASE CommandKilled
  BY <1>11, <1>c DEF CommandKilled
<1>12. ASSUME NEW p \in Patches, Stage(p)
      PROVE  ClaimsInTime'
  BY <1>12, <1>c, <1>e DEF Stage, Put
<1>13. ASSUME NEW p \in Patches, AutoWrites(p)
      PROVE  ClaimsInTime'
  BY <1>13, <1>c DEF AutoWrites
<1>14. ASSUME NEW p \in Patches, RejectWrites(p)
      PROVE  ClaimsInTime'
  BY <1>14, <1>c, <1>e DEF RejectWrites, Put
<1>15. ASSUME NEW p \in Patches, NEW dir \in ApplyDirs, ApplyWrites(p, dir)
      PROVE  ClaimsInTime'
  BY <1>15, <1>c DEF ApplyWrites
<1>16. ASSUME NEW b \in Blueprints, Commit(b)
      PROVE  ClaimsInTime'
  <2>1. Uncommitted(b) \in SUBSET Patches
    BY <1>a DEF Uncommitted, FilesOK
  <2>2. history[b] # <<>> =>
            \A p \in Uncommitted(b) : appliedAt[p] >= LastCommit(b).at
    BY DEF Uncommitted
  <2> QED
    BY <1>16, <2>1, <2>2, <1>b DEF Commit
<1>17. ASSUME NEW b \in Blueprints, HandCommit(b)
      PROVE  ClaimsInTime'
  BY <1>17, <1>b DEF HandCommit
<1>18. ASSUME NEW b \in Blueprints, DiscardRestores(b)
      PROVE  ClaimsInTime'
  BY <1>18, <1>c DEF DiscardRestores
<1>19. ASSUME NEW b \in Blueprints, NEW p \in Patches, RollbackRestores(b, p)
      PROVE  ClaimsInTime'
  BY <1>19, <1>c DEF RollbackRestores
<1>20. CASE UNCHANGED lifecycleVars
  BY <1>20, <1>c DEF lifecycleVars
<1> QED
  BY <1>1, <1>2, <1>3, <1>4, <1>5, <1>6, <1>7, <1>8, <1>9, <1>10, <1>11,
     <1>12, <1>13, <1>14, <1>15, <1>16, <1>17, <1>18, <1>19, <1>20 DEF LifecycleNext

\* The content before the commit that claims the patch: it is older than the
\* patch, so by hypothesis it does not hold it.
LEMMA RollbackKept ==
    ASSUME LifecycleTypeOK, ClaimsInTime, RollbackRemovesPatch, [LifecycleNext]_lifecycleVars
    PROVE  RollbackRemovesPatch'
<1>a. DiskOK /\ HistoryOK /\ FilesOK /\ op \in Commands
  BY LifecycleTypeParts
<1>b. ASSUME op'.cmd # "rollback"
      PROVE  RollbackRemovesPatch'
  BY <1>b DEF RollbackRemovesPatch
<1>c. Idle.cmd # "rollback"
  BY DEF Idle
<1>1. CASE Time
  BY <1>1 DEF Time, RollbackRemovesPatch
<1>2. CASE ApplyArchives
  <2>1. op'.cmd = "apply_archived"
    BY <1>2, <1>a DEF ApplyArchives, Commands, Idle
  <2> QED
    BY <2>1, <1>b
<1>3. CASE ApplyArchiveFails
  BY <1>3, <1>b, <1>c DEF ApplyArchiveFails
<1>4. CASE ApplyUnlinks
  BY <1>4, <1>b, <1>c DEF ApplyUnlinks
<1>5. CASE AutoArchives
  BY <1>5, <1>b, <1>c DEF AutoArchives
<1>6. CASE RejectUnlinks
  BY <1>6, <1>b, <1>c DEF RejectUnlinks
<1>7. CASE DiscardMoves
  <2>1. PICK p \in op.todo :
             op' = IF op.todo = {p} THEN Idle ELSE [op EXCEPT !.todo = @ \ {p}]
    BY <1>7 DEF DiscardMoves
  <2>2. [op EXCEPT !.todo = @ \ {p}].cmd = "discard"
    BY <1>7, <1>a DEF DiscardMoves, Commands, Idle
  <2> QED
    BY <2>1, <2>2, <1>b, <1>c
<1>8. CASE DiscardMovesNothing
  BY <1>8, <1>b, <1>c DEF DiscardMovesNothing
<1>9. CASE RollbackCommits
  BY <1>9, <1>b, <1>c DEF RollbackCommits
<1>10. CASE RollbackHasNothing
  BY <1>10, <1>b, <1>c DEF RollbackHasNothing
<1>11. CASE CommandKilled
  BY <1>11, <1>b, <1>c DEF CommandKilled
<1>12. ASSUME NEW p \in Patches, Stage(p)
      PROVE  RollbackRemovesPatch'
  BY <1>12, <1>b, <1>c DEF Stage
<1>13. ASSUME NEW p \in Patches, AutoWrites(p)
      PROVE  RollbackRemovesPatch'
  BY <1>13, <1>b, <1>c DEF AutoWrites
<1>14. ASSUME NEW p \in Patches, RejectWrites(p)
      PROVE  RollbackRemovesPatch'
  BY <1>14, <1>b, <1>c DEF RejectWrites
<1>15. ASSUME NEW p \in Patches, NEW dir \in ApplyDirs, ApplyWrites(p, dir)
      PROVE  RollbackRemovesPatch'
  BY <1>15, <1>b, <1>c DEF ApplyWrites
<1>16. ASSUME NEW b \in Blueprints, Commit(b)
      PROVE  RollbackRemovesPatch'
  BY <1>16, <1>b, <1>c DEF Commit
<1>17. ASSUME NEW b \in Blueprints, HandCommit(b)
      PROVE  RollbackRemovesPatch'
  BY <1>17, <1>b, <1>c DEF HandCommit
<1>18. ASSUME NEW b \in Blueprints, DiscardRestores(b)
      PROVE  RollbackRemovesPatch'
  BY <1>18, <1>b, <1>c DEF DiscardRestores
<1>19. ASSUME NEW b \in Blueprints, NEW p \in Patches, RollbackRestores(b, p)
      PROVE  RollbackRemovesPatch'
  <2> DEFINE k == CommitOf(b, p)
  <2>1. k \in DOMAIN history[b] /\ p \in history[b][k].claims /\ k > 1
    BY <1>19, CommitOfClaims DEF RollbackRestores
  <2>2. disk' = [disk EXCEPT ![b] = history[b][k - 1].content]
        /\ op' = [cmd |-> "rollback", blueprint |-> b, patch |-> p]
        /\ history' = history /\ folders' = folders /\ appliedAt' = appliedAt
    BY <1>19 DEF RollbackRestores
  <2>3. torn' = torn
    BY <1>19 DEF RollbackRestores
  <2> HIDE DEF k
  <2>4. history[b] \in Seq(Commits)
    BY <1>a DEF HistoryOK
  <2>5. k - 1 \in DOMAIN history[b]
    BY <2>1, <2>4
  <2>6. ASSUME p \in folders.applied,
               \A i \in DOMAIN history[b] :
                   p \in history[b][i].content => history[b][i].at > appliedAt[p]
        PROVE  p \notin history[b][k - 1].content
    <3>1. appliedAt[p] >= history[b][k - 1].at
      BY <2>1, <2>6 DEF ClaimsInTime
    <3>2. history[b][k - 1] \in Commits /\ p \in Patches
      BY <2>4, <2>5
    <3>3. appliedAt[p] \in Nat
      BY <1>a, <3>2 DEF FilesOK
    <3>4. history[b][k - 1].at \in Nat
      BY <3>2 DEF Commits
    <3> QED
      BY <2>5, <2>6, <3>1, <3>3, <3>4
  <2>7. disk'[b] = history[b][k - 1].content
    BY <1>a, <2>2 DEF DiskOK
  <2> QED
    BY <2>2, <2>3, <2>6, <2>7 DEF RollbackRemovesPatch
<1>20. CASE UNCHANGED lifecycleVars
  BY <1>20 DEF lifecycleVars, RollbackRemovesPatch
<1> QED
  BY <1>1, <1>2, <1>3, <1>4, <1>5, <1>6, <1>7, <1>8, <1>9, <1>10, <1>11,
     <1>12, <1>13, <1>14, <1>15, <1>16, <1>17, <1>18, <1>19, <1>20 DEF LifecycleNext

\* The history of every blueprint stays in order and of its own patches, and a
\* claim is never older than the commit before it.
THEOREM HistoryInvariant == LifecycleSpec => []HistoryInv
<1>1. LifecycleInit => HistoryInv
  <2> SUFFICES ASSUME LifecycleInit
               PROVE  HistoryInv
    OBVIOUS
  <2> DEFINE first == [content |-> {}, claims |-> {}, at |-> 0]
  <2>1. first \in Commits
    BY DEF Commits
  <2>2. /\ disk = [b \in Blueprints |-> {}]
        /\ folders = [pending |-> {}, applied |-> {}, rejected |-> {}]
        /\ appliedAt = [p \in Patches |-> 0] /\ clock = 0
        /\ op = Idle /\ known = {} /\ torn = {}
    BY DEF LifecycleInit
  <2>3. history \in [Blueprints -> {<<>>, <<first>>}]
    BY DEF LifecycleInit
  <2>4. \A b \in Blueprints : history[b] = <<>> \/ history[b] = <<first>>
    BY <2>3
  <2>5. first.at = 0 /\ first.content = {} /\ first.claims = {}
    OBVIOUS
  <2> HIDE DEF first
  <2>6. HistoryOK
    <3>1. \A b \in Blueprints : history[b] \in Seq(Commits)
      <4>1. <<>> \in Seq(Commits) /\ <<first>> \in Seq(Commits)
        BY <2>1
      <4> QED
        BY <2>4, <4>1
    <3>2. ASSUME NEW b \in Blueprints, NEW i \in DOMAIN history[b]
          PROVE  i = 1 /\ history[b][i] = first
      BY <2>4
    <3>3. history \in [Blueprints -> Seq(Commits)]
      BY <2>3, <3>1
    <3> QED
      BY <2>2, <2>5, <3>2, <3>3 DEF HistoryOK
  <2>7. OwnContent /\ ClaimsInTime
    <3>1. ASSUME NEW b \in Blueprints, NEW i \in DOMAIN history[b]
          PROVE  i = 1 /\ history[b][i] = first
      BY <2>4
    <3> QED
      BY <2>5, <3>1 DEF OwnContent, ClaimsInTime
  <2>8. DiskOK /\ FilesOK /\ op \in Commands
    BY <2>2, LifecycleAssumption DEF DiskOK, FilesOK, Commands
  <2>9. RollbackRemovesPatch
    BY <2>2 DEF RollbackRemovesPatch, Idle
  <2> QED
    BY <2>6, <2>7, <2>8, <2>9, LifecycleTypeParts DEF HistoryInv
<1>2. HistoryInv /\ [LifecycleNext]_lifecycleVars => HistoryInv'
  <2> SUFFICES ASSUME HistoryInv, [LifecycleNext]_lifecycleVars
               PROVE  HistoryInv'
    OBVIOUS
  <2>1. LifecycleTypeOK /\ OwnContent /\ ClaimsInTime /\ RollbackRemovesPatch
    BY DEF HistoryInv
  <2>2. DiskOK' /\ HistoryOK' /\ FilesOK' /\ op' \in Commands
    BY <2>1, DiskKept, HistoryKept, FilesKept, CommandKept
  <2>3. LifecycleTypeOK'
    BY <2>2 DEF LifecycleTypeOK, DiskOK, HistoryOK, FilesOK, Commands
  <2>4. OwnContent' /\ ClaimsInTime' /\ RollbackRemovesPatch'
    BY <2>1, OwnContentKept, ClaimsKept, RollbackKept
  <2> QED
    BY <2>3, <2>4 DEF HistoryInv
<1> QED
  BY <1>1, <1>2, PTL DEF LifecycleSpec

\* Rolling back a patch that was applied once takes it out of its blueprint,
\* whatever other patches, commits, discards and rollbacks came in between.
THEOREM RollbackTakesOut == LifecycleSpec => []RollbackRemovesPatch
<1>1. HistoryInv => RollbackRemovesPatch
  BY DEF HistoryInv
<1> QED
  BY <1>1, HistoryInvariant, PTL

-----------------------------------------------------------------------------
(* PatchLifecycle: folders.  apply removes the file it was given, also   *)
(* when that is the one in applied/ it has just written; what follows is   *)
(* about patches applied from pending/ or rejected/.                       *)

FiledAreKnown == \A d \in DOMAIN folders : folders[d] \subseteq known

\* Where the patch of the command in progress lies.
BusyWith ==
    /\ op.cmd = "apply_written" => op.patch \in folders[op.from]
    /\ op.cmd = "apply_archived" =>
           /\ op.patch \in folders.applied
           /\ op.patch \notin torn =>
                  \A d \in DOMAIN folders \ {"applied", op.from} : op.patch \notin folders[d]
    /\ op.cmd = "auto_written" => op.patch \notin known
    /\ op.cmd = "reject_written" =>
           /\ op.patch \in folders.rejected
           /\ op.patch \notin torn => op.patch \notin folders.applied
    /\ op.cmd = "discard" => op.todo \subseteq folders.applied

FoldersInv == FiledAreKnown /\ FiledInOneFolder /\ BusyWith

\* In the blueprint and not in its last commit, and not because a rollback is
\* under way.
Unwritten(p) ==
    /\ p \in disk[Target[p]]
    /\ history[Target[p]] # <<>> => p \notin LastCommit(Target[p]).content
    /\ ~(op.cmd = "rollback" /\ op.blueprint = Target[p])

LastWritten ==
    \A p \in folders.applied \ torn : Unwritten(p) => p \in Uncommitted(Target[p])

LEMMA ThreeFolders ==
    ASSUME FilesOK
    PROVE  /\ DOMAIN folders = {"pending", "applied", "rejected"}
           /\ \A d \in DOMAIN folders : folders[d] \subseteq Patches
  BY DEF FilesOK

\* The folders are those of one of the steps that put, move or drop a patch.
LEMMA FoldersKept ==
    ASSUME LifecycleTypeOK, FoldersInv, "applied" \notin ApplyDirs,
           [LifecycleNext]_lifecycleVars
    PROVE  FoldersInv'
<1>a. op \in Commands /\ FilesOK
  BY LifecycleTypeParts
<1>b. /\ folders \in [{"pending", "applied", "rejected"} -> SUBSET Patches]
      /\ DOMAIN folders = {"pending", "applied", "rejected"}
  BY <1>a DEF FilesOK
<1>c. ApplyDirs \subseteq {"pending", "rejected"}
  BY LifecycleAssumption
<1>d. Idle.cmd = "idle"
  BY DEF Idle
<1>e. ASSUME folders' = folders, known' = known, op' = Idle,
             \A p \in Patches : p \notin torn' =>
                 p \notin torn /\ ~(op.cmd \in {"apply_archived", "reject_written"}
                                    /\ op.patch = p)
      PROVE  FoldersInv'
  <2>1. FiledAreKnown' /\ BusyWith'
    BY <1>d, <1>e DEF FoldersInv, FiledAreKnown, BusyWith
  <2>2. FiledInOneFolder'
    BY <1>a, <1>b, <1>d, <1>e DEF FoldersInv, FiledInOneFolder
  <2> QED
    BY <2>1, <2>2 DEF FoldersInv
<1>1. CASE Time
  BY <1>1 DEF Time, FoldersInv, FiledAreKnown, FiledInOneFolder, BusyWith
<1>2. CASE ApplyArchives
  <2>1. /\ op.patch \in Patches /\ op.from \in {"pending", "rejected"}
        /\ op.cmd = "apply_written" /\ op.patch \in folders[op.from]
    BY <1>2, <1>a, <1>c, CommandShape DEF ApplyArchives, FoldersInv, BusyWith
  <2>2. /\ op' = [op EXCEPT !.cmd = "apply_archived"]
        /\ op'.cmd = "apply_archived" /\ op'.patch = op.patch /\ op'.from = op.from
    BY <1>2, <1>a DEF ApplyArchives, Commands, Idle
  <2>3. /\ folders' = [folders EXCEPT !.applied = @ \cup {op.patch}]
        /\ known' = known /\ torn' = torn
    BY <1>2 DEF ApplyArchives, Put
  <2>4. folders'.applied = folders.applied \cup {op.patch}
        /\ \A d \in {"pending", "rejected"} : folders'[d] = folders[d]
    BY <1>b, <2>3
  <2>k. FiledAreKnown'
    BY <1>b, <2>1, <2>3, <2>4 DEF FoldersInv, FiledAreKnown
  <2>o. FiledInOneFolder'
    BY <1>b, <2>1, <2>2, <2>3, <2>4 DEF FoldersInv, FiledInOneFolder
  <2>w. BusyWith'
    BY <1>b, <2>1, <2>2, <2>3, <2>4 DEF FoldersInv, FiledInOneFolder, BusyWith
  <2> QED
    BY <2>k, <2>o, <2>w DEF FoldersInv
<1>3. CASE ApplyArchiveFails
  <2>1. op.cmd \in {"apply_written", "apply_archived"} /\ op' = Idle
        /\ torn' = torn \cup {op.patch}
        /\ folders' = folders /\ known' = known
    BY <1>3 DEF ApplyArchiveFails
  <2> QED
    BY <1>e, <2>1
<1>4. CASE ApplyUnlinks
  <2>1. /\ op.patch \in Patches /\ op.from \in {"pending", "rejected"}
        /\ op.cmd = "apply_archived" /\ op.patch \in folders.applied
        /\ op.patch \notin torn =>
               \A d \in DOMAIN folders \ {"applied", op.from} : op.patch \notin folders[d]
    BY <1>4, <1>a, <1>c, CommandShape DEF ApplyUnlinks, FoldersInv, BusyWith
  <2>2. folders' = [folders EXCEPT ![op.from] = @ \ {op.patch}]
        /\ known' = known /\ torn' = torn /\ op' = Idle
    BY <1>4 DEF ApplyUnlinks, Drop
  <2> DEFINE f == op.from
  <2>3. f \in DOMAIN folders /\ folders' = [folders EXCEPT ![f] = @ \ {op.patch}]
    BY <1>b, <2>1, <2>2
  <2> HIDE DEF f
  <2>4. folders'[f] = folders[f] \ {op.patch}
        /\ \A d \in DOMAIN folders \ {f} : folders'[d] = folders[d]
        /\ DOMAIN folders' = DOMAIN folders
    BY <1>b, <2>3
  <2>k. FiledAreKnown'
    BY <1>b, <2>2, <2>3, <2>4 DEF FoldersInv, FiledAreKnown
  <2>o. FiledInOneFolder'
    <3>1. \A q \in known : \E d \in DOMAIN folders : q \in folders'[d]
      <4> SUFFICES ASSUME NEW q \in known
                   PROVE  \E d \in DOMAIN folders : q \in folders'[d]
        OBVIOUS
      <4>1. PICK d \in DOMAIN folders : q \in folders[d]
        BY DEF FoldersInv, FiledInOneFolder
      <4>2. CASE q = op.patch
        BY <4>2, <1>b, <2>1, <2>3, <2>4 DEF f
      <4>3. CASE q # op.patch
        BY <4>1, <4>3, <1>b, <2>1, <2>3, <2>4
      <4> QED
        BY <4>2, <4>3
    <3>2. ASSUME NEW q \in Patches \ torn, NEW d \in DOMAIN folders, NEW e \in DOMAIN folders,
                 d # e, q \in folders'[d], q \in folders'[e]
          PROVE  FALSE
      <4>1. q \in folders[d] /\ q \in folders[e]
        BY <3>2, <1>b, <2>1, <2>3, <2>4
      <4>2. q = op.patch
        BY <3>2, <4>1 DEF FoldersInv, FiledInOneFolder
      <4> QED
        BY <3>2, <4>1, <4>2, <1>b, <2>1, <2>3, <2>4 DEF f
    <3> QED
      BY <3>1, <3>2, <2>2, <2>4 DEF FiledInOneFolder
  <2>w. BusyWith'
    BY <1>d, <2>2 DEF BusyWith
  <2> QED
    BY <2>k, <2>o, <2>w DEF FoldersInv
<1>5. CASE AutoArchives
  <2>1. op.patch \in Patches /\ op.patch \notin known /\ op.cmd = "auto_written"
    BY <1>5, <1>a, CommandShape DEF AutoArchives, FoldersInv, BusyWith
  <2>2. folders' = [folders EXCEPT !.applied = @ \cup {op.patch}]
        /\ known' = known \cup {op.patch} /\ torn' = torn /\ op' = Idle
    BY <1>5 DEF AutoArchives, Put
  <2>3. folders'.applied = folders.applied \cup {op.patch}
        /\ \A d \in {"pending", "rejected"} : folders'[d] = folders[d]
        /\ DOMAIN folders' = DOMAIN folders
    BY <1>b, <2>2
  <2>k. FiledAreKnown'
    BY <1>b, <2>2, <2>3 DEF FoldersInv, FiledAreKnown
  <2>o. FiledInOneFolder'
    <3>1. \A d \in DOMAIN folders : op.patch \notin folders[d]
      BY <2>1 DEF FoldersInv, FiledAreKnown
    <3> QED
      BY <1>b, <1>d, <2>1, <2>2, <2>3, <3>1 DEF FoldersInv, FiledInOneFolder
  <2>w. BusyWith'
    BY <1>d, <2>2 DEF BusyWith
  <2> QED
    BY <2>k, <2>o, <2>w DEF FoldersInv
<1>6. CASE RejectUnlinks
  <2>1. /\ op.patch \in Patches /\ op.cmd = "reject_written" /\ op.patch \in folders.rejected
        /\ op.patch \notin torn => op.patch \notin folders.applied
    BY <1>6, <1>a, CommandShape DEF RejectUnlinks, FoldersInv, BusyWith
  <2>2. folders' = [folders EXCEPT !.pending = @ \ {op.patch}]
        /\ known' = known /\ torn' = torn /\ op' = Idle
    BY <1>6 DEF RejectUnlinks, Drop
  <2>3. folders'.pending = folders.pending \ {op.patch}
        /\ \A d \in {"rejected", "applied"} : folders'[d] = folders[d]
        /\ DOMAIN folders' = DOMAIN folders
    BY <1>b, <2>2
  <2>k. FiledAreKnown'
    BY <1>b, <2>2, <2>3 DEF FoldersInv, FiledAreKnown
  <2>o. FiledInOneFolder'
    <3>1. \A q \in known : \E d \in DOMAIN folders : q \in folders'[d]
      <4> SUFFICES ASSUME NEW q \in known
                   PROVE  \E d \in DOMAIN folders : q \in folders'[d]
        OBVIOUS
      <4>1. PICK d \in DOMAIN folders : q \in folders[d]
        BY DEF FoldersInv, FiledInOneFolder
      <4>2. CASE q = op.patch
        BY <4>2, <1>b, <2>1, <2>2, <2>3
      <4>3. CASE q # op.patch
        BY <4>1, <4>3, <1>b, <2>1, <2>2, <2>3
      <4> QED
        BY <4>2, <4>3
    <3>2. ASSUME NEW q \in Patches \ torn, NEW d \in DOMAIN folders, NEW e \in DOMAIN folders,
                 d # e, q \in folders'[d], q \in folders'[e]
          PROVE  FALSE
      <4>1. q \in folders[d] /\ q \in folders[e]
        BY <3>2, <1>b, <2>1, <2>2, <2>3
      <4>2. q = op.patch
        BY <3>2, <4>1 DEF FoldersInv, FiledInOneFolder
      <4> QED
        BY <3>2, <4>1, <4>2, <1>b, <2>1, <2>2, <2>3
    <3> QED
      BY <3>1, <3>2, <2>2, <2>3 DEF FiledInOneFolder
  <2>w. BusyWith'
    BY <1>d, <2>2 DEF BusyWith
  <2> QED
    BY <2>k, <2>o, <2>w DEF FoldersInv
<1>7. CASE DiscardMoves
  <2>1. PICK p \in op.todo :
             /\ folders' = [folders EXCEPT !.applied = @ \ {p}, !.pending = @ \cup {p}]
             /\ op' = IF op.todo = {p} THEN Idle ELSE [op EXCEPT !.todo = @ \ {p}]
    BY <1>7 DEF DiscardMoves
  <2>2. op.cmd = "discard" /\ p \in Patches /\ op.todo \subseteq folders.applied
        /\ known' = known /\ torn' = torn
    BY <1>7, <1>a, <2>1, CommandShape DEF DiscardMoves, FoldersInv, BusyWith
  <2>3. /\ folders'.applied = folders.applied \ {p}
        /\ folders'.pending = folders.pending \cup {p}
        /\ folders'.rejected = folders.rejected /\ DOMAIN folders' = DOMAIN folders
    BY <1>b, <2>1
  <2>4. LET left == [op EXCEPT !.todo = @ \ {p}]
        IN  left.cmd = "discard" /\ left.todo = op.todo \ {p}
    BY <1>7, <1>a DEF DiscardMoves, Commands, Idle
  <2>5. op' = Idle \/ (op'.cmd = "discard" /\ op'.todo = op.todo \ {p})
    BY <2>1, <2>4
  <2>k. FiledAreKnown'
    BY <1>b, <2>2, <2>3 DEF FoldersInv, FiledAreKnown
  <2>o. FiledInOneFolder'
    BY <1>b, <1>d, <2>2, <2>3, <2>5 DEF FoldersInv, FiledInOneFolder
  <2>w. BusyWith'
    BY <1>d, <2>2, <2>3, <2>5 DEF BusyWith
  <2> QED
    BY <2>k, <2>o, <2>w DEF FoldersInv
<1>8. CASE DiscardMovesNothing
  <2>1. op.cmd = "discard" /\ op' = Idle /\ folders' = folders
        /\ known' = known /\ torn' = torn
    BY <1>8 DEF DiscardMovesNothing
  <2> QED
    BY <1>e, <2>1
<1>9. CASE RollbackCommits
  <2>1. op.cmd = "rollback" /\ op' = Idle /\ folders' = folders
        /\ known' = known /\ torn' = torn
    BY <1>9 DEF RollbackCommits
  <2> QED
    BY <1>e, <2>1
<1>10. CASE RollbackHasNothing
  <2>1. op.cmd = "rollback" /\ op' = Idle /\ folders' = folders
        /\ known' = known /\ torn' = torn
    BY <1>10 DEF RollbackHasNothing
  <2> QED
    BY <1>e, <2>1
<1>11. CASE CommandKilled
  <2>1. op' = Idle /\ folders' = folders /\ known' = known /\ torn \subseteq torn'
    BY <1>11 DEF CommandKilled
  <2>2. op.cmd \in {"apply_archived", "reject_written"} => op.patch \in torn'
    BY <1>11 DEF CommandKilled
  <2> QED
    BY <1>e, <2>1, <2>2
<1>12. ASSUME NEW p \in Patches, Stage(p)
      PROVE  FoldersInv'
  BY <1>12, <1>b, <1>d DEF Stage, Put, FoldersInv, FiledAreKnown, FiledInOneFolder, BusyWith
<1>13. ASSUME NEW p \in Patches, AutoWrites(p)
      PROVE  FoldersInv'
  BY <1>13, <1>b, <1>d DEF AutoWrites, FoldersInv, FiledAreKnown, FiledInOneFolder, BusyWith
<1>14. ASSUME NEW p \in Patches, RejectWrites(p)
      PROVE  FoldersInv'
  <2>1. p \in folders.pending /\ op = Idle
        /\ folders' = [folders EXCEPT !.rejected = @ \cup {p}]
        /\ known' = known /\ torn' = torn /\ op' = [cmd |-> "reject_written", patch |-> p]
    BY <1>14 DEF RejectWrites, Put
  <2>2. folders'.rejected = folders.rejected \cup {p}
        /\ \A d \in {"pending", "applied"} : folders'[d] = folders[d]
        /\ DOMAIN folders' = DOMAIN folders
    BY <1>b, <2>1
  <2>k. FiledAreKnown'
    BY <1>b, <2>1, <2>2 DEF FoldersInv, FiledAreKnown
  <2>o. FiledInOneFolder'
    BY <1>b, <1>d, <2>1, <2>2 DEF FoldersInv, FiledInOneFolder
  <2>w. BusyWith'
    BY <1>b, <1>d, <2>1, <2>2 DEF FoldersInv, FiledInOneFolder, BusyWith
  <2> QED
    BY <2>k, <2>o, <2>w DEF FoldersInv
<1>15. ASSUME NEW p \in Patches, NEW dir \in ApplyDirs, ApplyWrites(p, dir)
      PROVE  FoldersInv'
  BY <1>15, <1>b, <1>c, <1>d DEF ApplyWrites, FoldersInv, FiledAreKnown, FiledInOneFolder, BusyWith
<1>16. ASSUME NEW b \in Blueprints, Commit(b)
      PROVE  FoldersInv'
  <2>k. FiledAreKnown'
    BY <1>16 DEF Commit, FoldersInv, FiledAreKnown
  <2>o. FiledInOneFolder'
    BY <1>16, <1>d DEF Commit, FoldersInv, FiledInOneFolder
  <2>w. BusyWith'
    BY <1>16, <1>d DEF Commit, BusyWith
  <2> QED
    BY <2>k, <2>o, <2>w DEF FoldersInv
<1>17. ASSUME NEW b \in Blueprints, HandCommit(b)
      PROVE  FoldersInv'
  <2>k. FiledAreKnown'
    BY <1>17 DEF HandCommit, FoldersInv, FiledAreKnown
  <2>o. FiledInOneFolder'
    BY <1>17, <1>d DEF HandCommit, FoldersInv, FiledInOneFolder
  <2>w. BusyWith'
    BY <1>17, <1>d DEF HandCommit, BusyWith
  <2> QED
    BY <2>k, <2>o, <2>w DEF FoldersInv
<1>18. ASSUME NEW b \in Blueprints, DiscardRestores(b)
      PROVE  FoldersInv'
  <2>1. Uncommitted(b) \subseteq folders.applied
    BY DEF Uncommitted
  <2>k. FiledAreKnown'
    BY <1>18 DEF DiscardRestores, FoldersInv, FiledAreKnown
  <2>o. FiledInOneFolder'
    BY <1>18, <1>d DEF DiscardRestores, FoldersInv, FiledInOneFolder
  <2>w. BusyWith'
    BY <1>18, <2>1 DEF DiscardRestores, BusyWith
  <2> QED
    BY <2>k, <2>o, <2>w DEF FoldersInv
<1>19. ASSUME NEW b \in Blueprints, NEW p \in Patches, RollbackRestores(b, p)
      PROVE  FoldersInv'
  <2>k. FiledAreKnown'
    BY <1>19 DEF RollbackRestores, FoldersInv, FiledAreKnown
  <2>o. FiledInOneFolder'
    BY <1>19, <1>d DEF RollbackRestores, FoldersInv, FiledInOneFolder
  <2>w. BusyWith'
    BY <1>19 DEF RollbackRestores, BusyWith
  <2> QED
    BY <2>k, <2>o, <2>w DEF FoldersInv
<1>20. CASE UNCHANGED lifecycleVars
  BY <1>20 DEF lifecycleVars, FoldersInv, FiledAreKnown, FiledInOneFolder, BusyWith
<1> QED
  BY <1>1, <1>2, <1>3, <1>4, <1>5, <1>6, <1>7, <1>8, <1>9, <1>10, <1>11,
     <1>12, <1>13, <1>14, <1>15, <1>16, <1>17, <1>18, <1>19, <1>20 DEF LifecycleNext

\* Whatever is written and not committed is in applied/ with a time at least that
\* of the last commit: what is applied is applied now, and a commit, a discard
\* or a finished rollback leaves nothing of its blueprint unwritten.
LEMMA LastWrittenKept ==
    ASSUME LifecycleTypeOK, FoldersInv, LastWritten, "applied" \notin ApplyDirs,
           [LifecycleNext]_lifecycleVars
    PROVE  LastWritten'
<1>a. op \in Commands /\ DiskOK /\ HistoryOK /\ FilesOK
  BY LifecycleTypeParts
<1>b. /\ folders \in [{"pending", "applied", "rejected"} -> SUBSET Patches]
      /\ appliedAt \in [Patches -> 0..clock] /\ clock \in Nat
  BY <1>a DEF FilesOK
<1>c. ApplyDirs \subseteq {"pending", "rejected"} /\ Target \in [Patches -> Blueprints]
  BY LifecycleAssumption
<1>d. Idle.cmd = "idle"
  BY DEF Idle
<1>e. ASSUME history' = history, disk' = disk, folders'.applied \subseteq folders.applied,
             \A p \in folders'.applied : appliedAt'[p] = appliedAt[p],
             torn \subseteq torn',
             \A p \in folders.applied \ torn' :
                 (/\ op.cmd = "rollback" /\ op.blueprint = Target[p]
                  /\ p \in disk[Target[p]]
                  /\ history[Target[p]] # <<>> => p \notin LastCommit(Target[p]).content)
                 => op' = op
      PROVE  LastWritten'
  <2> SUFFICES ASSUME NEW p \in folders'.applied, p \notin torn', Unwritten(p)'
               PROVE  p \in Uncommitted(Target[p])'
    BY DEF LastWritten
  <2>1. Unwritten(p)
    BY <1>e DEF Unwritten, LastCommit
  <2>2. p \in Uncommitted(Target[p])
    BY <1>e, <2>1 DEF LastWritten
  <2> QED
    BY <1>e, <2>2 DEF Uncommitted, LastCommit
<1>f. ASSUME NEW q \in Patches, q \notin folders.applied \ torn, op = Idle,
             disk' = [disk EXCEPT ![Target[q]] = @ \cup {q}],
             history' = history, folders' = folders, appliedAt' = appliedAt, torn' = torn
      PROVE  LastWritten'
  <2> SUFFICES ASSUME NEW p \in folders.applied, p \notin torn, Unwritten(p)'
               PROVE  p \in Uncommitted(Target[p])'
    BY <1>f DEF LastWritten
  <2>1. p # q /\ p \in Patches
    BY <1>b, <1>f
  <2>2. p \in disk'[Target[p]] => p \in disk[Target[p]]
    BY <1>a, <1>c, <1>f, <2>1 DEF DiskOK
  <2>3. Unwritten(p)
    BY <1>d, <1>f, <2>2 DEF Unwritten, LastCommit
  <2>4. p \in Uncommitted(Target[p])
    BY <2>3 DEF LastWritten
  <2> QED
    BY <1>f, <2>4 DEF Uncommitted, LastCommit
<1>g. ASSUME NEW q \in Patches, history' = history, disk' = disk, torn' = torn,
             folders'.applied = folders.applied \cup {q},
             appliedAt' = [appliedAt EXCEPT ![q] = clock], op.cmd # "rollback"
      PROVE  LastWritten'
  <2> SUFFICES ASSUME NEW p \in folders'.applied, p \notin torn, Unwritten(p)'
               PROVE  p \in Uncommitted(Target[p])'
    BY <1>g DEF LastWritten
  <2>1. CASE p = q
    <3>1. Target[p] \in Blueprints /\ appliedAt'[p] = clock
      BY <1>b, <1>c, <1>g, <2>1
    <3>2. history[Target[p]] # <<>> => LastCommit(Target[p]).at <= clock
      BY <1>a, <3>1, LastCommitIs DEF HistoryOK, LastCommit
    <3>3. history[Target[p]] # <<>> => LastCommit(Target[p]).at \in Nat
      BY <1>a, <3>1, LastCommitIs DEF Commits
    <3> QED
      BY <1>b, <1>g, <3>1, <3>2, <3>3 DEF Uncommitted, LastCommit
  <2>2. CASE p # q
    <3>1. p \in folders.applied /\ appliedAt'[p] = appliedAt[p]
      BY <1>b, <1>g, <2>2
    <3>2. Unwritten(p)
      BY <1>g DEF Unwritten, LastCommit
    <3>3. p \in Uncommitted(Target[p])
      BY <3>1, <3>2 DEF LastWritten
    <3> QED
      BY <1>g, <3>1, <3>3 DEF Uncommitted, LastCommit
  <2> QED
    BY <2>1, <2>2
<1>h. ASSUME NEW b \in Blueprints, NEW claims \in SUBSET Patches, CommitFile(b, claims),
             disk' = disk, folders' = folders, appliedAt' = appliedAt, torn' = torn,
             op.cmd = "rollback" => op.blueprint = b
      PROVE  LastWritten'
  <2> SUFFICES ASSUME NEW p \in folders.applied, p \notin torn, Unwritten(p)'
               PROVE  p \in Uncommitted(Target[p])'
    BY <1>h DEF LastWritten
  <2>1. /\ \A c \in Blueprints \ {b} : history'[c] = history[c]
        /\ Len(history'[b]) = Len(history[b]) + 1 /\ history'[b] # <<>>
        /\ history'[b][Len(history[b]) + 1]
               = [content |-> disk[b], claims |-> claims, at |-> clock]
    <3>1. CommitFile(b, claims)
      BY <1>h
    <3> HIDE DEF CommitFile
    <3> QED
      BY <1>a, <1>b, <3>1, CommitAdded
  <2>2. Target[p] # b
    <3>1. LastCommit(b)'.content = disk[b]
      BY <2>1 DEF LastCommit
    <3> QED
      BY <1>h, <2>1, <3>1 DEF Unwritten
  <2>3. Target[p] \in Blueprints /\ history'[Target[p]] = history[Target[p]]
    BY <1>b, <1>c, <2>1, <2>2
  <2>4. Unwritten(p)
    BY <1>h, <2>2, <2>3 DEF Unwritten, LastCommit
  <2>5. p \in Uncommitted(Target[p])
    BY <2>4 DEF LastWritten
  <2> QED
    BY <1>h, <2>3, <2>5 DEF Uncommitted, LastCommit
<1>1. CASE Time
  BY <1>1, <1>e DEF Time
<1>2. CASE ApplyArchives
  BY <1>2, <1>a, <1>b, <1>g, CommandShape DEF ApplyArchives, Put
<1>3. CASE ApplyArchiveFails
  BY <1>3, <1>e DEF ApplyArchiveFails
<1>4. CASE ApplyUnlinks
  <2>1. op.from # "applied" /\ op.cmd # "rollback"
    BY <1>4, <1>a, <1>c, CommandShape DEF ApplyUnlinks
  <2>2. folders'.applied = folders.applied
    BY <1>4, <1>b, <2>1 DEF ApplyUnlinks, Drop
  <2> QED
    BY <1>4, <1>e, <2>1, <2>2 DEF ApplyUnlinks
<1>5. CASE AutoArchives
  BY <1>5, <1>a, <1>b, <1>g, CommandShape DEF AutoArchives, Put
<1>6. CASE RejectUnlinks
  BY <1>6, <1>b, <1>e DEF RejectUnlinks, Drop
<1>7. CASE DiscardMoves
  <2>1. PICK p \in op.todo :
             /\ folders' = [folders EXCEPT !.applied = @ \ {p}, !.pending = @ \cup {p}]
             /\ appliedAt' = [appliedAt EXCEPT ![p] = 0]
    BY <1>7 DEF DiscardMoves
  <2>2. folders'.applied = folders.applied \ {p}
    BY <1>b, <2>1
  <2>3. \A q \in folders'.applied : appliedAt'[q] = appliedAt[q]
    BY <1>b, <2>1, <2>2
  <2>4. op.cmd # "rollback" /\ history' = history /\ disk' = disk /\ torn' = torn
    BY <1>7 DEF DiscardMoves
  <2> QED
    BY <1>e, <2>2, <2>3, <2>4
<1>8. CASE DiscardMovesNothing
  BY <1>8, <1>e DEF DiscardMovesNothing
<1>9. CASE RollbackCommits
  BY <1>9, <1>a, <1>h, CommandShape DEF RollbackCommits
<1>10. CASE RollbackHasNothing
  <2>1. /\ op.cmd = "rollback" /\ history[op.blueprint] # <<>>
        /\ disk[op.blueprint] = LastCommit(op.blueprint).content
        /\ disk' = disk /\ history' = history /\ folders' = folders
        /\ appliedAt' = appliedAt /\ torn' = torn
    BY <1>10 DEF RollbackHasNothing, Changed
  <2> QED
    BY <1>e, <2>1
<1>11. CASE CommandKilled
  <2>1. /\ disk' = disk /\ history' = history /\ folders' = folders
        /\ appliedAt' = appliedAt /\ torn \subseteq torn'
    BY <1>11 DEF CommandKilled
  <2>2. op.cmd = "rollback" => disk[op.blueprint] \subseteq torn'
    BY <1>11 DEF CommandKilled
  <2> QED
    BY <1>e, <2>1, <2>2
<1>12. ASSUME NEW p \in Patches, Stage(p)
      PROVE  LastWritten'
  BY <1>12, <1>b, <1>d, <1>e DEF Stage, Put
<1>13. ASSUME NEW p \in Patches, AutoWrites(p)
      PROVE  LastWritten'
  <2>1. p \notin folders.applied
    BY <1>13, <1>b DEF AutoWrites, FoldersInv, FiledAreKnown
  <2> QED
    BY <1>13, <1>f, <2>1 DEF AutoWrites
<1>14. ASSUME NEW p \in Patches, RejectWrites(p)
      PROVE  LastWritten'
  BY <1>14, <1>b, <1>d, <1>e DEF RejectWrites, Put
<1>15. ASSUME NEW p \in Patches, NEW dir \in ApplyDirs, ApplyWrites(p, dir)
      PROVE  LastWritten'
  <2>1. p \notin folders.applied \ torn
    <3>1. dir # "applied" /\ dir \in DOMAIN folders /\ p \in folders[dir] /\ op = Idle
      BY <1>15, <1>b, <1>c DEF ApplyWrites
    <3> QED
      BY <1>b, <1>d, <3>1 DEF FoldersInv, FiledInOneFolder
  <2> QED
    BY <1>15, <1>f, <2>1 DEF ApplyWrites
<1>16. ASSUME NEW b \in Blueprints, Commit(b)
      PROVE  LastWritten'
  <2>1. Uncommitted(b) \in SUBSET Patches
    BY <1>b DEF Uncommitted
  <2> QED
    BY <1>16, <1>d, <1>h, <2>1 DEF Commit
<1>17. ASSUME NEW b \in Blueprints, HandCommit(b)
      PROVE  LastWritten'
  BY <1>17, <1>d, <1>h DEF HandCommit
<1>18. ASSUME NEW b \in Blueprints, DiscardRestores(b)
      PROVE  LastWritten'
  <2>1. /\ disk' = [disk EXCEPT ![b] = LastCommit(b).content] /\ history[b] # <<>>
        /\ history' = history /\ folders' = folders /\ appliedAt' = appliedAt
        /\ torn' = torn /\ op = Idle
    BY <1>18 DEF DiscardRestores
  <2> SUFFICES ASSUME NEW p \in folders.applied, p \notin torn, Unwritten(p)'
               PROVE  p \in Uncommitted(Target[p])'
    BY <2>1 DEF LastWritten
  <2>2. disk'[b] = LastCommit(b).content
    BY <1>a, <2>1 DEF DiskOK
  <2>3. Target[p] # b
    BY <2>1, <2>2 DEF Unwritten, LastCommit
  <2>4. disk'[Target[p]] = disk[Target[p]]
    BY <1>a, <2>1, <2>3 DEF DiskOK
  <2>5. Unwritten(p)
    BY <1>d, <2>1, <2>4 DEF Unwritten, LastCommit
  <2>6. p \in Uncommitted(Target[p])
    BY <2>5 DEF LastWritten
  <2> QED
    BY <2>1, <2>6 DEF Uncommitted, LastCommit
<1>19. ASSUME NEW b \in Blueprints, NEW p \in Patches, RollbackRestores(b, p)
      PROVE  LastWritten'
  <2> DEFINE old == history[b][CommitOf(b, p) - 1].content
  <2>1. /\ disk' = [disk EXCEPT ![b] = old]
        /\ history' = history /\ folders' = folders /\ appliedAt' = appliedAt
        /\ torn' = torn /\ op = Idle
        /\ op' = [cmd |-> "rollback", blueprint |-> b, patch |-> p]
    BY <1>19 DEF RollbackRestores
  <2> HIDE DEF old
  <2> SUFFICES ASSUME NEW q \in folders.applied, q \notin torn, Unwritten(q)'
               PROVE  q \in Uncommitted(Target[q])'
    BY <2>1 DEF LastWritten
  <2>2. Target[q] # b
    BY <2>1 DEF Unwritten
  <2>3. disk'[Target[q]] = disk[Target[q]]
    BY <1>a, <2>1, <2>2 DEF DiskOK
  <2>4. Unwritten(q)
    BY <1>d, <2>1, <2>3 DEF Unwritten, LastCommit
  <2>5. q \in Uncommitted(Target[q])
    BY <2>4 DEF LastWritten
  <2> QED
    BY <2>1, <2>5 DEF Uncommitted, LastCommit
<1>20. CASE UNCHANGED lifecycleVars
  BY <1>20, <1>e DEF lifecycleVars
<1> QED
  BY <1>1, <1>2, <1>3, <1>4, <1>5, <1>6, <1>7, <1>8, <1>9, <1>10, <1>11,
     <1>12, <1>13, <1>14, <1>15, <1>16, <1>17, <1>18, <1>19, <1>20 DEF LifecycleNext

\* As long as no patch is applied from applied/, every patch that was ever filed
\* is in a folder, and in one only but for the patch a command is busy with or
\* was interrupted at; and timestamps tell what is written and not committed.
THEOREM FoldersInvariant ==
    ASSUME "applied" \notin ApplyDirs
    PROVE  LifecycleSpec => [](FoldersInv /\ LastWritten)
<1>1. LifecycleInit => FoldersInv /\ LastWritten
  <2> SUFFICES ASSUME LifecycleInit
               PROVE  FoldersInv /\ LastWritten
    OBVIOUS
  <2>1. /\ folders = [pending |-> {}, applied |-> {}, rejected |-> {}]
        /\ op = Idle /\ known = {}
    BY DEF LifecycleInit
  <2>2. \A d \in DOMAIN folders : folders[d] = {}
    BY <2>1
  <2> QED
    BY <2>1, <2>2 DEF FoldersInv, FiledAreKnown, FiledInOneFolder, BusyWith, LastWritten, Idle
<1>2. /\ HistoryInv /\ FoldersInv /\ LastWritten
      /\ [LifecycleNext]_lifecycleVars
      => FoldersInv' /\ LastWritten'
  BY FoldersKept, LastWrittenKept DEF HistoryInv
<1> QED
  BY <1>1, <1>2, HistoryInvariant, PTL DEF LifecycleSpec

\* No patch gets lost, and none is seen both waiting and decided.
THEOREM FoldersKeepPatches ==
    ASSUME "applied" \notin ApplyDirs
    PROVE  LifecycleSpec => []FiledInOneFolder
<1>1. FoldersInv /\ LastWritten => FiledInOneFolder
  BY DEF FoldersInv
<1> QED
  BY <1>1, FoldersInvariant, PTL

\* What a blueprint holds and its last commit does not is reported as long as
\* the patch is in applied/.
THEOREM UncommittedIsFound ==
    ASSUME "applied" \notin ApplyDirs
    PROVE  LifecycleSpec => []UncommittedIsReported
<1>1. FoldersInv /\ LastWritten => UncommittedIsReported
  BY DEF LastWritten, Unwritten, UncommittedIsReported, Idle
<1> QED
  BY <1>1, FoldersInvariant, PTL

-----------------------------------------------------------------------------
(* AirflowApproval: an answer goes back to a decision about the run.       *)

AirflowTypeOK ==
    /\ filed \in [1..MaxRuns -> SUBSET Folders] /\ decided \in [1..MaxRuns -> SUBSET Folders]
    /\ own \subseteq 1..MaxRuns /\ runs \in 0..MaxRuns
    /\ listing \in {"none", "seen", "applied"} /\ event \in {"none", "approved", "rejected"}

\* A patch lies in applied/ or rejected/ only because that was decided.
FiledAsDecided ==
    \A n \in 1..MaxRuns : \A folder \in {"applied", "rejected"} :
        folder \in filed[n] => folder \in decided[n]

\* What the poll has seen in applied/ was decided, although it may have moved on.
ListingHasCause == listing = "applied" => \E n \in own : "applied" \in decided[n]

AirflowInv == AirflowTypeOK /\ FiledAsDecided /\ ListingHasCause /\ AnswerHasCause

\* Decisions and ownership are never taken back, so a cause stays one.
LEMMA CausesStay ==
    ASSUME AirflowInv, own \subseteq own', \A n \in 1..MaxRuns : decided[n] \subseteq decided'[n],
           listing' \in {"none", listing}, event' \in {"none", event}
    PROVE  /\ listing' = "applied" => \E n \in own' : "applied" \in decided'[n]
           /\ event' # "none" =>
                  \E n \in own' :
                      (IF event' = "approved" THEN "applied" ELSE "rejected") \in decided'[n]
<1>1. own \subseteq 1..MaxRuns
  BY DEF AirflowInv, AirflowTypeOK
<1>2. listing' = "applied" => \E n \in own' : "applied" \in decided'[n]
  BY <1>1 DEF AirflowInv, ListingHasCause
<1>3. ASSUME event' # "none"
      PROVE  \E n \in own' :
                 (IF event' = "approved" THEN "applied" ELSE "rejected") \in decided'[n]
  <2>1. PICK n \in own :
             (IF event = "approved" THEN "applied" ELSE "rejected") \in decided[n]
    BY <1>3 DEF AirflowInv, AnswerHasCause
  <2> QED
    BY <1>1, <1>3, <2>1
<1> QED
  BY <1>2, <1>3

\* The run leaves a patch where its outcome says.
LEMMA PatchLeft ==
    ASSUME AirflowTypeOK, runs < MaxRuns, NEW folder \in Folders, Leaves(runs + 1, folder)
    PROVE  /\ runs + 1 \in 1..MaxRuns
           /\ filed' \in [1..MaxRuns -> SUBSET Folders] /\ filed'[runs + 1] = {folder}
           /\ \A n \in 1..MaxRuns \ {runs + 1} : filed'[n] = filed[n]
           /\ own \subseteq own' /\ own' \subseteq 1..MaxRuns
<1>1. runs + 1 \in 1..MaxRuns
  BY AirflowAssumption DEF AirflowTypeOK
<1> QED
  BY <1>1 DEF AirflowTypeOK, Leaves

\* Every step keeps the invariant.
LEMMA AirflowStep ==
    ASSUME AirflowInv, [AirflowNext]_airflowVars
    PROVE  AirflowInv'
<1>a. AirflowTypeOK /\ FiledAsDecided
  BY DEF AirflowInv
<1>b. ASSUME AirflowTypeOK', FiledAsDecided', own \subseteq own',
             \A n \in 1..MaxRuns : decided[n] \subseteq decided'[n],
             listing' \in {"none", listing}, event' \in {"none", event}
      PROVE  AirflowInv'
  BY <1>b, CausesStay DEF AirflowInv, ListingHasCause, AnswerHasCause
<1>c. ASSUME filed' = filed, own' = own, decided' = decided, runs' \in 0..MaxRuns,
             listing' \in {"none", listing}, event' \in {"none", event}
      PROVE  AirflowInv'
  <2>1. AirflowTypeOK' /\ FiledAsDecided'
    BY <1>a, <1>c DEF AirflowTypeOK, FiledAsDecided
  <2> QED
    BY <1>b, <1>c, <2>1
<1>1. CASE ExitsZero
  <2>1. runs < MaxRuns /\ runs' = runs + 1 /\ runs' \in 0..MaxRuns
    BY <1>a, <1>1, AirflowAssumption DEF ExitsZero, Running, AirflowTypeOK
  <2>2. CASE LeavesNothing /\ UNCHANGED decided
    BY <1>c, <1>1, <2>1, <2>2 DEF ExitsZero, LeavesNothing
  <2>3. CASE Leaves(runs + 1, "applied")
             /\ decided' = [decided EXCEPT ![runs + 1] = @ \cup {"applied"}]
    <3>1. "applied" \in Folders
      BY DEF Folders
    <3>2. /\ runs + 1 \in 1..MaxRuns
          /\ filed' \in [1..MaxRuns -> SUBSET Folders] /\ filed'[runs + 1] = {"applied"}
          /\ \A n \in 1..MaxRuns \ {runs + 1} : filed'[n] = filed[n]
          /\ own \subseteq own' /\ own' \subseteq 1..MaxRuns
      BY <1>a, <2>1, <2>3, <3>1, PatchLeft
    <3>3. /\ decided' \in [1..MaxRuns -> SUBSET Folders]
          /\ \A n \in 1..MaxRuns : decided[n] \subseteq decided'[n]
          /\ "applied" \in decided'[runs + 1]
      BY <1>a, <2>3, <3>1, <3>2 DEF AirflowTypeOK
    <3>4. AirflowTypeOK'
      BY <1>a, <1>1, <2>1, <3>2, <3>3 DEF AirflowTypeOK, ExitsZero
    <3>5. FiledAsDecided'
      BY <1>a, <3>2, <3>3 DEF FiledAsDecided
    <3> QED
      BY <1>b, <1>1, <3>2, <3>3, <3>4, <3>5 DEF ExitsZero
  <2> QED
    BY <1>1, <2>2, <2>3 DEF ExitsZero
<1>p. ASSUME Running, Leaves(runs + 1, "pending"), decided' = decided,
             listing' = listing, event' = event
      PROVE  AirflowInv'
  <2>1. runs < MaxRuns /\ runs' \in 0..MaxRuns
    BY <1>a, <1>p, AirflowAssumption DEF Running, AirflowTypeOK
  <2>2. "pending" \in Folders
    BY DEF Folders
  <2>3. /\ runs + 1 \in 1..MaxRuns
        /\ filed' \in [1..MaxRuns -> SUBSET Folders] /\ filed'[runs + 1] = {"pending"}
        /\ \A n \in 1..MaxRuns \ {runs + 1} : filed'[n] = filed[n]
        /\ own \subseteq own' /\ own' \subseteq 1..MaxRuns
    BY <1>a, <1>p, <2>1, <2>2, PatchLeft
  <2>4. AirflowTypeOK'
    BY <1>a, <1>p, <2>1, <2>3 DEF AirflowTypeOK
  <2>5. FiledAsDecided'
    BY <1>a, <1>p, <2>3 DEF FiledAsDecided
  <2> QED
    BY <1>b, <1>p, <2>3, <2>4, <2>5
<1>2. CASE ExitsWithError
  <2>1. CASE LeavesNothing
    <3>1. runs' \in 0..MaxRuns
      BY <1>a, <1>2, AirflowAssumption DEF ExitsWithError, Running, AirflowTypeOK
    <3> QED
      BY <1>c, <1>2, <2>1, <3>1 DEF ExitsWithError, LeavesNothing
  <2>2. CASE Leaves(runs + 1, "pending")
    BY <1>p, <1>2, <2>2 DEF ExitsWithError
  <2> QED
    BY <1>2, <2>1, <2>2 DEF ExitsWithError
<1>3. CASE ExitsPending
  BY <1>p, <1>3 DEF ExitsPending
<1>4. CASE PollBegins
  <2>1. /\ filed' = filed /\ own' = own /\ decided' = decided /\ runs' = runs
        /\ event = "none" /\ event' = "none"
        /\ listing' = IF \E n \in own : "applied" \in filed[n] THEN "applied" ELSE "seen"
    BY <1>4 DEF PollBegins, Polling
  <2>2. AirflowTypeOK' /\ FiledAsDecided'
    BY <1>a, <2>1 DEF AirflowTypeOK, FiledAsDecided
  <2>3. ListingHasCause'
    BY <1>a, <2>1 DEF ListingHasCause, FiledAsDecided, AirflowTypeOK
  <2>4. AnswerHasCause'
    BY <2>1 DEF AnswerHasCause
  <2> QED
    BY <2>2, <2>3, <2>4 DEF AirflowInv
<1>5. CASE PollEnds
  <2>1. /\ filed' = filed /\ own' = own /\ decided' = decided /\ runs' = runs
        /\ listing' = "none" /\ event' = Verdict
    BY <1>5 DEF PollEnds
  <2>2. Verdict \in {"none", "approved", "rejected"}
    BY DEF Verdict
  <2>3. AirflowTypeOK' /\ FiledAsDecided' /\ ListingHasCause'
    BY <1>a, <2>1, <2>2 DEF AirflowTypeOK, FiledAsDecided, ListingHasCause
  <2>4. Verdict = "approved" => \E n \in own : "applied" \in decided[n]
    BY DEF Verdict, AirflowInv, ListingHasCause
  <2>5. Verdict = "rejected" => \E n \in own : "rejected" \in decided[n]
    BY <1>a DEF Verdict, Listed, FiledAsDecided, AirflowTypeOK
  <2>6. AnswerHasCause'
    <3>1. event' # "none" =>
              \E n \in own' :
                  (IF event' = "approved" THEN "applied" ELSE "rejected") \in decided'[n]
      BY <2>1, <2>2, <2>4, <2>5
    <3> QED
      BY <3>1 DEF AnswerHasCause
  <2> QED
    BY <2>3, <2>6 DEF AirflowInv
<1>6. CASE TimesOut
  BY <1>a, <1>c, <1>6 DEF TimesOut, AirflowTypeOK
<1>7. CASE ResumeApproved
  BY <1>a, <1>c, <1>7 DEF ResumeApproved, AirflowTypeOK
<1>8. CASE ResumeRejected
  BY <1>a, <1>c, <1>8 DEF ResumeRejected, AirflowTypeOK
<1>9. ASSUME NEW n \in 1..MaxRuns, NEW folder \in Folders, Decides(n, folder)
      PROVE  AirflowInv'
  <2>1. /\ filed' = [filed EXCEPT ![n] = @ \cup {folder}]
        /\ decided' = [decided EXCEPT ![n] = @ \cup {folder}]
        /\ runs' = runs /\ own' = own /\ listing' = listing /\ event' = event
    BY <1>9 DEF Decides
  <2>2. AirflowTypeOK'
    BY <1>a, <2>1 DEF AirflowTypeOK
  <2>3. FiledAsDecided'
    BY <1>a, <2>1 DEF AirflowTypeOK, FiledAsDecided
  <2>4. \A m \in 1..MaxRuns : decided[m] \subseteq decided'[m]
    BY <1>a, <2>1 DEF AirflowTypeOK
  <2> QED
    BY <1>b, <2>1, <2>2, <2>3, <2>4
<1>d. ASSUME NEW n \in 1..MaxRuns, NEW left \in SUBSET Folders,
             filed' = [filed EXCEPT ![n] = left],
             left \cap {"applied", "rejected"} \subseteq filed[n],
             decided' = decided, runs' = runs, own' = own, listing' = listing, event' = event
      PROVE  AirflowInv'
  <2>1. AirflowTypeOK'
    BY <1>a, <1>d DEF AirflowTypeOK
  <2>2. FiledAsDecided'
    BY <1>a, <1>d DEF AirflowTypeOK, FiledAsDecided
  <2> QED
    BY <1>b, <1>d, <2>1, <2>2
<1>10. ASSUME NEW n \in 1..MaxRuns, Unlinks(n)
       PROVE  AirflowInv'
  <2>1. filed[n] \ {"pending"} \in SUBSET Folders
    BY <1>a DEF AirflowTypeOK
  <2> QED
    BY <1>d, <1>10, <2>1 DEF Unlinks
<1>11. ASSUME NEW n \in 1..MaxRuns, Discards(n)
       PROVE  AirflowInv'
  <2>1. (filed[n] \ {"applied"}) \cup {"pending"} \in SUBSET Folders
    BY <1>a DEF AirflowTypeOK, Folders
  <2> QED
    BY <1>d, <1>11, <2>1 DEF Discards
<1>12. CASE UNCHANGED airflowVars
  BY <1>a, <1>c, <1>12 DEF airflowVars, AirflowTypeOK
<1> QED
  BY <1>1, <1>2, <1>3, <1>4, <1>5, <1>6, <1>7, <1>8, <1>9, <1>10, <1>11, <1>12
     DEF AirflowNext, Operator, Trigger, Reviewer

\* The task is resumed as approved or rejected only when that was decided about
\* a patch of its own run, whatever reviewers do while a poll is under way.
THEOREM AnswersAreDecided == AirflowSpec => []AnswerHasCause
<1>1. AirflowInit => AirflowInv
  BY AirflowAssumption
     DEF AirflowInit, AirflowInv, AirflowTypeOK, FiledAsDecided, ListingHasCause,
         AnswerHasCause
<1>2. AirflowInv /\ [AirflowNext]_airflowVars => AirflowInv'
  BY AirflowStep
<1>3. AirflowInv => AnswerHasCause
  BY DEF AirflowInv
<1> QED
  BY <1>1, <1>2, <1>3, PTL DEF AirflowSpec

-----------------------------------------------------------------------------
(* PatchGates: what people save in the file.                               *)

Stages == {"start", "checked", "judged", "ran", "loaded", "backed_up", "dumped",
           "verified", "written", "refused", "failed", "killed"}

WritersOK ==
    /\ at \in [Writers -> Stages]
    /\ result = [w \in Writers |-> result[w]]
    /\ saved \in Nat /\ raced \subseteq 1..saved

\* Saves that nobody raced.
Quiet == (1..saved) \ raced

BackedUp(n) == n \in overwritten \/ \E b \in backups : n \in b.content.saves

\* A run that has its backup replaces nothing that is not, or was, in one ...
BackupsComplete ==
    \A r \in Runs : at[r] \in {"backed_up", "dumped"} => \A n \in Quiet : BackedUp(n)

\* ... and a reviewer that has verified installs what the file holds.
VerifiedComplete ==
    \A p \in Reviewers : at[p] = "verified" =>
        \A n \in Quiet : n \in result[p].after.saves \/ BackedUp(n)

EditsInv == WritersOK /\ BackupsComplete /\ VerifiedComplete /\ EditsSurvive

\* A patch changes nothing of what people typed.
LEMMA PatchKeepsSaves ==
    ASSUME NEW bp, NEW ops
    PROVE  ApplyPatch(bp, ops).bp.saves = bp.saves
  BY DEF ApplyPatch

LEMMA TwoKinds == Runs \cap Reviewers = {} /\ Writers = Runs \cup Reviewers
  BY GatesAssumption DEF Writers

\* A step of a writer that neither replaces the file nor enters a window keeps
\* the invariant, when the backups only grow and no verified result changes.
LEMMA QuietStep ==
    ASSUME EditsInv, NEW w \in Writers, NEW to \in Stages,
           at' = [at EXCEPT ![w] = to],
           to \notin {"backed_up", "verified"},
           to = "dumped" => at[w] = "backed_up",
           file' = file, saved' = saved, raced' = raced,
           backups' = backups, overwritten' = overwritten,
           result' = [v \in Writers |-> result'[v]],
           \A p \in Reviewers \ {w} : result'[p] = result[p]
    PROVE  EditsInv'
<1>1. WritersOK'
  BY DEF EditsInv, WritersOK
<1>2. Quiet' = Quiet /\ \A n \in Quiet : BackedUp(n) => BackedUp(n)'
  BY DEF Quiet, BackedUp
<1>3. /\ at'[w] = to
      /\ \A v \in Writers \ {w} : at'[v] = at[v]
  BY DEF EditsInv, WritersOK
<1>4. BackupsComplete'
  <2> SUFFICES ASSUME NEW r \in Runs, at'[r] \in {"backed_up", "dumped"}, NEW n \in Quiet
               PROVE  BackedUp(n)
    BY <1>2 DEF BackupsComplete
  <2>1. at[r] \in {"backed_up", "dumped"}
    BY <1>3, TwoKinds
  <2> QED
    BY <2>1 DEF EditsInv, BackupsComplete
<1>5. VerifiedComplete'
  <2> SUFFICES ASSUME NEW p \in Reviewers, at'[p] = "verified", NEW n \in Quiet
               PROVE  n \in result'[p].after.saves \/ BackedUp(n)
    BY <1>2 DEF VerifiedComplete
  <2>1. p # w /\ at[p] = "verified"
    BY <1>3, TwoKinds
  <2> QED
    BY <2>1 DEF EditsInv, VerifiedComplete
<1>6. EditsSurvive'
  BY <1>2 DEF EditsInv, EditsSurvive, Quiet, BackedUp
<1> QED
  BY <1>1, <1>4, <1>5, <1>6 DEF EditsInv

\* A file that is saved holds what it held and the new save; whoever is in a
\* window is told nothing, and the save is counted as raced.
LEMMA SaveStep ==
    ASSUME EditsInv, NEW content, Saves(content)
    PROVE  EditsInv'
<1>1. /\ saved' = saved + 1 /\ file'.saves = file.saves \cup {saved + 1}
      /\ raced' = IF \E w \in Writers : InWindow(w) THEN raced \cup {saved + 1} ELSE raced
      /\ backups' = backups /\ overwritten' = overwritten /\ at' = at /\ result' = result
  BY DEF Saves, backupVars
<1>2. saved \in Nat /\ raced \subseteq 1..saved
  BY DEF EditsInv, WritersOK
<1>3. WritersOK'
  BY <1>1, <1>2 DEF EditsInv, WritersOK
<1>4. Quiet' \subseteq Quiet \cup {saved + 1}
  BY <1>1, <1>2 DEF Quiet
<1>5. (\E w \in Writers : InWindow(w)) => Quiet' \subseteq Quiet
  BY <1>1, <1>2 DEF Quiet
<1>6. \A n : BackedUp(n)' <=> BackedUp(n)
  BY <1>1 DEF BackedUp
<1>7. BackupsComplete'
  <2> SUFFICES ASSUME NEW r \in Runs, at[r] \in {"backed_up", "dumped"}, NEW n \in Quiet'
               PROVE  BackedUp(n)
    BY <1>1, <1>6 DEF BackupsComplete
  <2>1. InWindow(r) /\ r \in Writers
    BY TwoKinds DEF InWindow
  <2> QED
    BY <1>5, <2>1 DEF EditsInv, BackupsComplete
<1>8. VerifiedComplete'
  <2> SUFFICES ASSUME NEW p \in Reviewers, at[p] = "verified", NEW n \in Quiet'
               PROVE  n \in result[p].after.saves \/ BackedUp(n)
    BY <1>1, <1>6 DEF VerifiedComplete
  <2>1. InWindow(p) /\ p \in Writers
    BY TwoKinds DEF InWindow
  <2> QED
    BY <1>5, <2>1 DEF EditsInv, VerifiedComplete
<1>9. EditsSurvive'
  <2> SUFFICES ASSUME NEW n \in Quiet'
               PROVE  n \in file'.saves \/ BackedUp(n)
    BY <1>6 DEF EditsSurvive, Quiet, BackedUp
  <2> QED
    BY <1>1, <1>4 DEF EditsInv, EditsSurvive, Quiet, BackedUp
<1> QED
  BY <1>3, <1>7, <1>8, <1>9 DEF EditsInv

\* With a backup of the same name written over, what it held is counted as such.
LEMMA CopiesKeep ==
    ASSUME NEW r, NEW content, Copies(r, content), NEW n, BackedUp(n) \/ n \in content.saves
    PROVE  BackedUp(n)'
<1>1. PICK now :
          LET same == {b \in backups : b.patch_id = PatchId[r] /\ b.second = now}
          IN  /\ backups' = (backups \ same)
                    \cup {[patch_id |-> PatchId[r], second |-> now, content |-> content]}
              /\ overwritten' = overwritten \cup UNION {b.content.saves : b \in same}
  BY DEF Copies
<1> DEFINE same == {b \in backups : b.patch_id = PatchId[r] /\ b.second = now}
           new == [patch_id |-> PatchId[r], second |-> now, content |-> content]
<1>2. /\ backups' = (backups \ same) \cup {new} /\ new.content = content
      /\ overwritten' = overwritten \cup UNION {b.content.saves : b \in same}
  BY <1>1
<1>3. same \subseteq backups
  OBVIOUS
<1> HIDE DEF same, new
<1> QED
  BY <1>2, <1>3 DEF BackedUp

\* Every step keeps what people saved in the file or in a backup.
LEMMA EditsStep ==
    ASSUME EditsInv, [GatesNext]_gatesVars
    PROVE  EditsInv'
<1>a. result = [v \in Writers |-> result[v]] /\ at \in [Writers -> Stages]
  BY DEF EditsInv, WritersOK
<1>b. Runs \subseteq Writers /\ Reviewers \subseteq Writers /\ Runs \cap Reviewers = {}
  BY TwoKinds
<1>c. ASSUME NEW r \in Writers, NEW from, NEW to \in {"checked", "refused", "judged", "ran", "failed"},
             Goes(r, from, to),
             UNCHANGED <<file, backupVars, result, saved, raced>>
      PROVE  EditsInv'
  BY <1>a, <1>c, QuietStep DEF Goes, Stages, backupVars
<1>1. ASSUME NEW r \in Runs, CallbackAccepts(r)
      PROVE  EditsInv'
  BY <1>b, <1>c, <1>1 DEF CallbackAccepts
<1>2. ASSUME NEW r \in Runs, CallbackRejects(r)
      PROVE  EditsInv'
  BY <1>b, <1>c, <1>2 DEF CallbackRejects
<1>3. ASSUME NEW r \in Runs, GatesPass(r)
      PROVE  EditsInv'
  BY <1>b, <1>c, <1>3 DEF GatesPass
<1>4. ASSUME NEW r \in Runs, GatesFail(r)
      PROVE  EditsInv'
  BY <1>b, <1>c, <1>4 DEF GatesFail
<1>5. ASSUME NEW r \in Runs, RunsPatched(r)
      PROVE  EditsInv'
  BY <1>b, <1>c, <1>5 DEF RunsPatched
<1>6. ASSUME NEW r \in Runs, RunFails(r)
      PROVE  EditsInv'
  BY <1>b, <1>c, <1>6 DEF RunFails
<1>7. ASSUME NEW r \in Runs, LoadFails(r)
      PROVE  EditsInv'
  BY <1>b, <1>c, <1>7 DEF LoadFails
<1>8. ASSUME NEW r \in Runs, ReplaceFails(r)
      PROVE  EditsInv'
  BY <1>b, <1>c, <1>8 DEF ReplaceFails
<1>9. ASSUME NEW p \in Reviewers, Refuses(p)
      PROVE  EditsInv'
  BY <1>b, <1>c, <1>9 DEF Refuses
<1>10. ASSUME NEW r \in Runs, Loads(r)
       PROVE  EditsInv'
  <2>1. /\ at' = [at EXCEPT ![r] = "loaded"] /\ file' = file /\ saved' = saved
        /\ raced' = raced /\ backups' = backups /\ overwritten' = overwritten
        /\ result' = [result EXCEPT ![r] = Outcome(r)]
    BY <1>10 DEF Loads, Goes, backupVars
  <2>2. /\ result' = [v \in Writers |-> result'[v]]
        /\ \A p \in Reviewers \ {r} : result'[p] = result[p]
    BY <1>a, <1>b, <2>1
  <2> QED
    BY <1>b, <2>1, <2>2, QuietStep DEF Stages
<1>11. ASSUME NEW r \in Runs, BacksUp(r)
       PROVE  EditsInv'
  <2>1. /\ at' = [at EXCEPT ![r] = "backed_up"] /\ file' = file /\ saved' = saved
        /\ raced' = raced /\ result' = result /\ Copies(r, file)
    BY <1>11 DEF BacksUp, Goes
  <2>2. \A n \in Quiet : BackedUp(n)'
    BY <2>1, CopiesKeep DEF EditsInv, EditsSurvive, Quiet, BackedUp
  <2>3. Quiet' = Quiet
    BY <2>1 DEF Quiet
  <2>4. WritersOK'
    BY <1>b, <2>1 DEF EditsInv, WritersOK, Stages
  <2>5. BackupsComplete' /\ VerifiedComplete' /\ EditsSurvive'
    BY <2>2, <2>3 DEF BackupsComplete, VerifiedComplete, EditsSurvive, Quiet, BackedUp
  <2> QED
    BY <2>4, <2>5 DEF EditsInv
<1>12. ASSUME NEW r \in Runs, Dumps(r)
       PROVE  EditsInv'
  <2>1. /\ at[r] = "backed_up" /\ at' = [at EXCEPT ![r] = "dumped"] /\ file' = file
        /\ saved' = saved /\ raced' = raced /\ backups' = backups
        /\ overwritten' = overwritten /\ result' = result
    BY <1>12 DEF Dumps, Goes, backupVars
  <2> QED
    BY <1>a, <1>b, <2>1, QuietStep DEF Stages
<1>13. ASSUME NEW r \in Runs, Replaces(r)
       PROVE  EditsInv'
  <2>1. /\ at[r] = "dumped" /\ at' = [at EXCEPT ![r] = "written"] /\ saved' = saved
        /\ raced' = raced /\ backups' = backups
        /\ overwritten' = overwritten /\ result' = result
    BY <1>13 DEF Replaces, Goes, backupVars
  <2>2. \A n \in Quiet : BackedUp(n)
    BY <2>1 DEF EditsInv, BackupsComplete
  <2>3. Quiet' = Quiet /\ \A n \in Quiet : BackedUp(n)'
    BY <2>1, <2>2 DEF Quiet, BackedUp
  <2>4. WritersOK'
    BY <1>b, <2>1 DEF EditsInv, WritersOK, Stages
  <2>5. BackupsComplete' /\ VerifiedComplete' /\ EditsSurvive'
    BY <2>3 DEF BackupsComplete, VerifiedComplete, EditsSurvive, Quiet, BackedUp
  <2> QED
    BY <2>4, <2>5 DEF EditsInv
<1>14. ASSUME NEW r \in Runs, Killed(r)
       PROVE  EditsInv'
  <2>1. /\ at' = [at EXCEPT ![r] = "killed"] /\ file' = file /\ saved' = saved
        /\ raced' = raced /\ backups' = backups
        /\ overwritten' = overwritten /\ result' = result
    BY <1>14 DEF Killed, backupVars
  <2> QED
    BY <1>a, <1>b, <2>1, QuietStep DEF Stages
<1>15. ASSUME NEW p \in Reviewers, Verifies(p)
       PROVE  EditsInv'
  <2>1. /\ at' = [at EXCEPT ![p] = "verified"] /\ file' = file /\ saved' = saved
        /\ raced' = raced /\ backups' = backups /\ overwritten' = overwritten
        /\ result' = [result EXCEPT ![p] = Outcome(p)]
    BY <1>15 DEF Verifies, Goes, backupVars
  <2>2. Outcome(p).after.saves = file.saves
    BY PatchKeepsSaves DEF Outcome, Applied
  <2> HIDE DEF Outcome
  <2>3. /\ at'[p] = "verified" /\ result'[p] = Outcome(p)
        /\ \A v \in Writers \ {p} : at'[v] = at[v] /\ result'[v] = result[v]
    BY <1>a, <1>b, <2>1
  <2>4. WritersOK'
    BY <1>b, <2>1 DEF EditsInv, WritersOK, Stages
  <2>5. Quiet' = Quiet /\ \A n : BackedUp(n)' <=> BackedUp(n)
    BY <2>1 DEF Quiet, BackedUp
  <2>6. EditsSurvive'
    BY <2>1 DEF EditsInv, EditsSurvive
  <2>7. BackupsComplete'
    BY <1>b, <2>3, <2>5 DEF EditsInv, BackupsComplete
  <2>8. VerifiedComplete'
    <3> SUFFICES ASSUME NEW q \in Reviewers, at'[q] = "verified", NEW n \in Quiet
                 PROVE  n \in result'[q].after.saves \/ BackedUp(n)
      BY <2>5 DEF VerifiedComplete
    <3>1. CASE q = p
      BY <2>2, <2>3, <3>1 DEF EditsInv, EditsSurvive, Quiet, BackedUp
    <3>2. CASE q # p
      BY <1>b, <2>3, <3>2 DEF EditsInv, VerifiedComplete
    <3> QED
      BY <3>1, <3>2
  <2> QED
    BY <2>4, <2>6, <2>7, <2>8 DEF EditsInv
<1>16. ASSUME NEW p \in Reviewers, Installs(p)
       PROVE  EditsInv'
  <2>1. /\ at[p] = "verified" /\ at' = [at EXCEPT ![p] = "written"]
        /\ file' = result[p].after /\ saved' = saved
        /\ raced' = raced /\ backups' = backups
        /\ overwritten' = overwritten /\ result' = result
    BY <1>16 DEF Installs, Goes, backupVars
  <2>2. WritersOK'
    BY <1>b, <2>1 DEF EditsInv, WritersOK, Stages
  <2>3. Quiet' = Quiet /\ \A n : BackedUp(n)' <=> BackedUp(n)
    BY <2>1 DEF Quiet, BackedUp
  <2>4. EditsSurvive'
    BY <2>1 DEF EditsInv, VerifiedComplete, EditsSurvive, Quiet, BackedUp
  <2>5. \A v \in Writers : at'[v] \in {"backed_up", "dumped", "verified"} => at'[v] = at[v]
    BY <1>a, <1>b, <2>1
  <2>6. BackupsComplete' /\ VerifiedComplete'
    BY <1>b, <2>1, <2>3, <2>5 DEF EditsInv, BackupsComplete, VerifiedComplete
  <2> QED
    BY <2>2, <2>4, <2>6 DEF EditsInv
<1>17. ASSUME HumanEdits
       PROVE  EditsInv'
  BY <1>17, SaveStep DEF HumanEdits
<1>18. ASSUME NEW id \in Removable, HumanRemoves(id)
       PROVE  EditsInv'
  <2>1. \E content : Saves(content)
    BY <1>18 DEF HumanRemoves
  <2> QED
    BY <2>1, SaveStep
<1>19. CASE UNCHANGED gatesVars
  BY <1>19 DEF gatesVars, backupVars, EditsInv, WritersOK, BackupsComplete, VerifiedComplete,
               EditsSurvive, Quiet, BackedUp
<1> QED
  BY <1>1, <1>2, <1>3, <1>4, <1>5, <1>6, <1>7, <1>8, <1>9, <1>10, <1>11, <1>12, <1>13,
     <1>14, <1>15, <1>16, <1>17, <1>18, <1>19 DEF GatesNext, Healing

\* What a human saved is never lost but in the windows the model names and with a
\* backup that is written over, for any number of runs, reviewers and saves.
THEOREM EditsAreKept == GatesSpec => []EditsSurvive
<1>1. GatesInit => EditsInv
  <2> SUFFICES ASSUME GatesInit
               PROVE  EditsInv
    OBVIOUS
  <2>1. /\ at = [w \in Writers |-> "start"] /\ saved = 0 /\ raced = {}
        /\ result = [w \in Writers |-> NoFile]
    BY DEF GatesInit
  <2>2. WritersOK
    BY <2>1 DEF WritersOK, Stages
  <2>3. Quiet = {}
    BY <2>1 DEF Quiet
  <2>4. EditsSurvive
    BY <2>1 DEF EditsSurvive
  <2> QED
    BY <2>2, <2>3, <2>4 DEF EditsInv, BackupsComplete, VerifiedComplete
<1>2. EditsInv /\ [GatesNext]_gatesVars => EditsInv'
  BY EditsStep
<1>3. EditsInv => EditsSurvive
  BY DEF EditsInv
<1> QED
  BY <1>1, <1>2, <1>3, PTL DEF GatesSpec

-----------------------------------------------------------------------------
(* PatchOps: what the operations of a patch leave as it is.  They are folds *)
(* over sequences, so that induction along a fold is FoldInduction: the     *)
(* step and what holds after k of them are operators of three arguments,   *)
(* the first for whatever else they depend on.                             *)

Adders == WritesModule \cup {"remove_module"}

\* What is left of a sequence are elements of it.
DropStep(c, kept, x) == IF x \in c[2] THEN kept ELSE Append(kept, x)
DropHolds(c, k, kept) == kept \in Seq(Range(c[1]) \ c[2])
DropFold == INSTANCE FoldInduction WITH step <- DropStep, Holds <- DropHolds

LEMMA DroppingFolds ==
    ASSUME NEW seq, NEW c
    PROVE  Dropping(seq, c[2]) = DropFold!Folded(c, <<>>, seq)
  BY Zenon DEF Dropping, DropStep, DropFold!Folded, DropFold!FoldLeft, FoldLeft,
     DropFold!MapThenFoldSet, MapThenFoldSet, DropFold!Max, Max

LEMMA DroppingKeeps ==
    ASSUME NEW seq, seq \in Seq(Range(seq)), NEW gone
    PROVE  Dropping(seq, gone) \in Seq(Range(seq) \ gone)
<1> DEFINE c == <<seq, gone>>
<1>1. Len(seq) \in Nat /\ DOMAIN seq = 1..Len(seq)
  OBVIOUS
<1>2. DropHolds(c, 0, <<>>)
  BY DEF DropHolds
<1>3. ASSUME NEW k \in 0..(Len(seq) - 1), NEW kept, DropHolds(c, k, kept)
      PROVE  DropHolds(c, k + 1, DropStep(c, kept, seq[k + 1]))
  <2>1. seq[k + 1] \in Range(seq)
    BY <1>1 DEF Range
  <2>2. kept \in Seq(Range(seq) \ gone)
    BY <1>3 DEF DropHolds
  <2> QED
    BY <2>1, <2>2 DEF DropHolds, DropStep
<1>4. Dropping(seq, gone) = DropFold!Folded(c, <<>>, seq)
  BY DroppingFolds, c[2] = gone
<1> HIDE DEF c
<1>5. DropHolds(c, Len(seq), DropFold!Folded(c, <<>>, seq))
  BY <1>1, <1>2, <1>3, DropFold!FoldLeftInduction
<1> QED
  BY <1>4, <1>5 DEF DropHolds, c

\* A nonempty set of positions has a first one.
LEMMA FirstOne ==
    ASSUME NEW n \in Nat, NEW s \in SUBSET (1..n), s # {}
    PROVE  Min(s) \in s /\ \A y \in s : Min(s) =< y
<1> DEFINE R == {p \in Nat \X Nat : p[1] < p[2]}
<1>1. s \subseteq Nat
  OBVIOUS
<1>2. PICK x \in s : \A y \in s : ~ (<<y, x>> \in R)
  <2>1. IsWellFoundedOn(R, Nat)
    BY NatLessThanWellFounded DEF OpToRel
  <2> HIDE DEF R
  <2> QED
    BY <1>1, <2>1, WFMin
<1>3. ASSUME NEW y \in s, y < x PROVE FALSE
  <2>1. <<y, x>> \in R
    BY <1>1, <1>3
  <2> QED
    BY <1>2, <2>1
<1>4. \A y \in s : x =< y
  BY <1>1, <1>3
<1> QED
  BY <1>4 DEF Min

PathsOf(bp) == {m.path : m \in Range(bp.modules)}
PathsOfPatch(ops) == {PathWritten(ops[i]) : i \in DOMAIN ops}
IsEdge(e) == e = [from |-> e.from, to |-> e.to, port |-> e.port]

\* The working copy's modules: their paths were there or are in the patch.
ModulesFit(bp, ops, ms) ==
    /\ ms \in Seq(Range(ms))
    /\ \A m \in Range(ms) : IsModule(m) /\ m.path \in PathsOf(bp) \cup PathsOfPatch(ops)

\* An edge that one of the first n operations has added; it still leads where it
\* did unless the patch changes itself.
AddedBy(ops, n, e) ==
    \E i \in DOMAIN ops : \E k \in DOMAIN ops[i].add :
        /\ i <= n /\ ops[i].op \in Adders /\ e.origin = <<i, k>>
        /\ ~ChangesItself(ops) => Joins(ops[i].add[k].from, ops[i].add[k].to, e)

EdgesFit(ops, n, es) ==
    /\ es \in Seq(Range(es))
    /\ \A e \in Range(es) :
          /\ e = [from |-> e.from, to |-> e.to, port |-> e.port, origin |-> e.origin]
          /\ e.origin = InFile \/ AddedBy(ops, n, e)

\* The PatchSpec meanwhile: other ends of edges it adds, and another value in a block
\* it gives, and only if it changes itself.
ChangedWithin(o, m) ==
    \/ m = o
    \/ /\ o.op \in Adders
       /\ \E add : /\ m = [o EXCEPT !.add = add]
                   /\ add \in Seq(Range(add)) /\ DOMAIN add = DOMAIN o.add
                   /\ \A e \in Range(add) : IsEdge(e)
    \/ GivesBlock(o) /\ \E value : m = [o EXCEPT !.value = value]

OpsFit(ops, now) ==
    /\ now \in Seq(Range(now)) /\ DOMAIN now = DOMAIN ops
    /\ \A i \in DOMAIN ops : ChangedWithin(ops[i], now[i])
    /\ IF ChangesItself(ops) THEN ChangesItself(now) ELSE now = ops

Worked(bp, ops, n, st) ==
    /\ IsBlueprint(bp) /\ IsPatch(ops)
    /\ st = [bp |-> st.bp, ops |-> st.ops, ok |-> st.ok] /\ st.ok \in BOOLEAN
    /\ st.bp = [modules |-> st.bp.modules, edges |-> st.bp.edges,
                context |-> st.bp.context, saves |-> st.bp.saves]
    /\ ModulesFit(bp, ops, st.bp.modules)
    /\ EdgesFit(ops, n, st.bp.edges)
    /\ OpsFit(ops, st.ops)

LEMMA WorkStarts ==
    ASSUME NEW bp, NEW ops, IsBlueprint(bp), IsPatch(ops)
    PROVE  Worked(bp, ops, 0, [bp |-> bp, ops |-> ops, ok |-> TRUE])
<1> DEFINE st == [bp |-> bp, ops |-> ops, ok |-> TRUE]
<1>1. st.bp = bp /\ st.ops = ops /\ st.ok = TRUE
  OBVIOUS
<1>2. ModulesFit(bp, ops, bp.modules)
  BY DEF ModulesFit, IsBlueprint, PathsOf
<1>3. EdgesFit(ops, 0, bp.edges)
  BY DEF EdgesFit, IsBlueprint
<1>4. OpsFit(ops, ops)
  BY DEF OpsFit, IsPatch, ChangedWithin
<1>5. st.bp = [modules |-> st.bp.modules, edges |-> st.bp.edges, context |-> st.bp.context,
               saves |-> st.bp.saves]
  BY DEF IsBlueprint
<1>6. st = [bp |-> st.bp, ops |-> st.ops, ok |-> st.ok]
  OBVIOUS
<1> HIDE DEF st
<1> QED
  BY <1>1, <1>2, <1>3, <1>4, <1>5, <1>6 DEF Worked

LEMMA WorkedMore ==
    ASSUME NEW bp, NEW ops, NEW n \in Nat, NEW st, Worked(bp, ops, n, st)
    PROVE  Worked(bp, ops, n + 1, st)
<1>1. \A e : AddedBy(ops, n, e) => AddedBy(ops, n + 1, e)
  <2> SUFFICES ASSUME NEW e, AddedBy(ops, n, e) PROVE AddedBy(ops, n + 1, e)
    OBVIOUS
  <2>1. DOMAIN ops \subseteq Nat
    BY DEF Worked, IsPatch
  <2>2. PICK i \in DOMAIN ops :
            \E k \in DOMAIN ops[i].add :
                /\ i <= n /\ ops[i].op \in Adders /\ e.origin = <<i, k>>
                /\ ~ChangesItself(ops) => Joins(ops[i].add[k].from, ops[i].add[k].to, e)
    BY DEF AddedBy
  <2>3. i <= n + 1
    BY <2>1, <2>2
  <2> QED
    BY <2>2, <2>3 DEF AddedBy
<1>2. EdgesFit(ops, n + 1, st.bp.edges)
  BY <1>1 DEF EdgesFit, Worked
<1> QED
  BY <1>2 DEF Worked

\* A working copy that is changed in one of its parts.
LEMMA OtherModules ==
    ASSUME NEW bp, NEW ops, NEW n, NEW st, Worked(bp, ops, n, st), NEW ms,
           ModulesFit(bp, ops, ms)
    PROVE  Worked(bp, ops, n, [st EXCEPT !.bp.modules = ms])
<1> DEFINE t == [st EXCEPT !.bp.modules = ms]
<1>1. t = [bp |-> [modules |-> ms, edges |-> st.bp.edges, context |-> st.bp.context,
                   saves |-> st.bp.saves], ops |-> st.ops, ok |-> st.ok]
  BY DEF Worked
<1> HIDE DEF t
<1>2. /\ t = [bp |-> t.bp, ops |-> t.ops, ok |-> t.ok]
      /\ t.bp = [modules |-> t.bp.modules, edges |-> t.bp.edges, context |-> t.bp.context,
                 saves |-> t.bp.saves]
      /\ t.bp.modules = ms /\ t.bp.edges = st.bp.edges /\ t.ops = st.ops /\ t.ok = st.ok
  BY <1>1
<1>3. Worked(bp, ops, n, t)
  BY <1>2 DEF Worked
<1> QED
  BY <1>3 DEF t

LEMMA OtherEdges ==
    ASSUME NEW bp, NEW ops, NEW n, NEW st, Worked(bp, ops, n, st), NEW es,
           EdgesFit(ops, n, es)
    PROVE  Worked(bp, ops, n, [st EXCEPT !.bp.edges = es])
<1> DEFINE t == [st EXCEPT !.bp.edges = es]
<1>1. t = [bp |-> [modules |-> st.bp.modules, edges |-> es, context |-> st.bp.context,
                   saves |-> st.bp.saves], ops |-> st.ops, ok |-> st.ok]
  BY DEF Worked
<1> HIDE DEF t
<1>2. /\ t = [bp |-> t.bp, ops |-> t.ops, ok |-> t.ok]
      /\ t.bp = [modules |-> t.bp.modules, edges |-> t.bp.edges, context |-> t.bp.context,
                 saves |-> t.bp.saves]
      /\ t.bp.modules = st.bp.modules /\ t.bp.edges = es /\ t.ops = st.ops /\ t.ok = st.ok
  BY <1>1
<1>3. Worked(bp, ops, n, t)
  BY <1>2 DEF Worked
<1> QED
  BY <1>3 DEF t

LEMMA OtherSpec ==
    ASSUME NEW bp, NEW ops, NEW n, NEW st, Worked(bp, ops, n, st), NEW now,
           OpsFit(ops, now)
    PROVE  Worked(bp, ops, n, [st EXCEPT !.ops = now])
<1> DEFINE t == [st EXCEPT !.ops = now]
<1>1. t = [bp |-> st.bp, ops |-> now, ok |-> st.ok]
  BY DEF Worked
<1> HIDE DEF t
<1>2. /\ t = [bp |-> t.bp, ops |-> t.ops, ok |-> t.ok]
      /\ t.bp = st.bp /\ t.ops = now /\ t.ok = st.ok
  BY <1>1
<1>3. Worked(bp, ops, n, t)
  BY <1>2 DEF Worked
<1> QED
  BY <1>3 DEF t

LEMMA OtherContext ==
    ASSUME NEW bp, NEW ops, NEW n, NEW st, Worked(bp, ops, n, st), NEW value
    PROVE  Worked(bp, ops, n, [st EXCEPT !.bp.context = value])
<1> DEFINE t == [st EXCEPT !.bp.context = value]
<1>1. t = [bp |-> [modules |-> st.bp.modules, edges |-> st.bp.edges, context |-> value,
                   saves |-> st.bp.saves], ops |-> st.ops, ok |-> st.ok]
  BY DEF Worked
<1> HIDE DEF t
<1>2. /\ t = [bp |-> t.bp, ops |-> t.ops, ok |-> t.ok]
      /\ t.bp = [modules |-> t.bp.modules, edges |-> t.bp.edges, context |-> t.bp.context,
                 saves |-> t.bp.saves]
      /\ t.bp.modules = st.bp.modules /\ t.bp.edges = st.bp.edges /\ t.ops = st.ops /\ t.ok = st.ok
  BY <1>1
<1>3. Worked(bp, ops, n, t)
  BY <1>2 DEF Worked
<1> QED
  BY <1>3 DEF t

LEMMA FailingWorks ==
    ASSUME NEW bp, NEW ops, NEW n, NEW st, Worked(bp, ops, n, st)
    PROVE  Worked(bp, ops, n, Failing(st))
<1>1. PICK no : no = FALSE
  OBVIOUS
<1> DEFINE t == [st EXCEPT !.ok = no]
<1>2. t = [bp |-> st.bp, ops |-> st.ops, ok |-> no]
  BY DEF Worked
<1>3. Failing(st) = t
  BY <1>1 DEF Failing
<1> HIDE DEF t
<1>4. /\ t = [bp |-> t.bp, ops |-> t.ops, ok |-> t.ok]
      /\ t.bp = st.bp /\ t.ops = st.ops /\ t.ok = no
  BY <1>2
<1>5. t.ok \in BOOLEAN
  BY <1>1, <1>4
<1>6. Worked(bp, ops, n, t)
  BY <1>4, <1>5 DEF Worked
<1> QED
  BY <1>3, <1>6

\* A sequence over S is one over what it holds.
LEMMA SeqOfItsOwn ==
    ASSUME NEW S, NEW s \in Seq(S)
    PROVE  s \in Seq(Range(s)) /\ Range(s) \subseteq S
  BY DEF Range

\* What an operation that is still to come says by now.
LEMMA SpecNow ==
    ASSUME NEW ops, NEW now, IsPatch(ops), OpsFit(ops, now), NEW i \in DOMAIN ops
    PROVE  /\ now[i].op = ops[i].op /\ PathWritten(now[i]) = PathWritten(ops[i])
           /\ ops[i].op \notin Adders \cup {"replace_context_value"} => now[i] = ops[i]
           /\ ops[i].op = "replace_context_value" =>
                 /\ {"op", "whole", "value"} \subseteq DOMAIN now[i]
                 /\ now[i].whole = ops[i].whole
           /\ ops[i].op \in WritesModule =>
                 {"op", "module", "add"} \subseteq DOMAIN now[i] /\ IsModule(now[i].module)
           /\ ops[i].op \in WritesModule \ {"add_probe"} =>
                 "remove" \in DOMAIN now[i] /\ now[i].remove \in Seq(Range(now[i].remove))
           /\ ops[i].op \in Adders =>
                 /\ {"op", "add"} \subseteq DOMAIN now[i]
                 /\ now[i].add \in Seq(Range(now[i].add))
                 /\ DOMAIN now[i].add = DOMAIN ops[i].add
                 /\ \A e \in Range(now[i].add) : IsEdge(e)
<1>1. CASE now[i] = ops[i]
  BY <1>1 DEF IsPatch, Adders, IsEdge
<1>3. ASSUME GivesBlock(ops[i]), NEW value, now[i] = [ops[i] EXCEPT !.value = value]
      PROVE  /\ now[i].op = ops[i].op /\ PathWritten(now[i]) = PathWritten(ops[i])
             /\ ops[i].op = "replace_context_value"
             /\ {"op", "whole", "value"} \subseteq DOMAIN now[i]
             /\ now[i].whole = ops[i].whole
  <2>1. ops[i].op = "replace_context_value" /\ {"op", "whole", "value"} \subseteq DOMAIN ops[i]
    BY <1>3 DEF GivesBlock, IsPatch
  <2>2. /\ now[i].op = ops[i].op /\ now[i].whole = ops[i].whole
        /\ DOMAIN now[i] = DOMAIN ops[i]
    BY <1>3, <2>1
  <2>3. PathWritten(now[i]) = PathWritten(ops[i])
    BY <2>1, <2>2 DEF PathWritten, WritesModule
  <2> QED
    BY <2>1, <2>2, <2>3
<1>2. CASE now[i] # ops[i] /\ ~(GivesBlock(ops[i]) /\ \E value : now[i] = [ops[i] EXCEPT !.value = value])
  <2>1. PICK add : /\ ops[i].op \in Adders /\ now[i] = [ops[i] EXCEPT !.add = add]
                   /\ add \in Seq(Range(add)) /\ DOMAIN add = DOMAIN ops[i].add
                   /\ \A e \in Range(add) : IsEdge(e)
    BY <1>2 DEF OpsFit, ChangedWithin
  <2>2. "op" \in DOMAIN ops[i] /\ "add" \in DOMAIN ops[i]
    BY <2>1 DEF IsPatch, Adders
  <2>3. now[i].op = ops[i].op /\ now[i].add = add /\ DOMAIN now[i] = DOMAIN ops[i]
    BY <2>1, <2>2
  <2>4. ops[i].op \in WritesModule =>
            "module" \in DOMAIN ops[i] /\ now[i].module = ops[i].module /\ IsModule(now[i].module)
    BY <2>1 DEF IsPatch
  <2>5. ops[i].op \in WritesModule \ {"add_probe"} =>
            "remove" \in DOMAIN ops[i] /\ now[i].remove = ops[i].remove
            /\ ops[i].remove \in Seq(Range(ops[i].remove))
    BY <2>1 DEF IsPatch
  <2>6. PathWritten(now[i]) = PathWritten(ops[i])
    BY <2>1, <2>3, <2>4 DEF PathWritten, Adders, WritesModule
  <2>7. ops[i].op # "replace_context_value"
    BY <2>1 DEF Adders, WritesModule
  <2> QED
    BY <2>1, <2>2, <2>3, <2>4, <2>5, <2>6, <2>7
<1>4. GivesBlock(ops[i]) => ops[i].op \notin Adders /\ ops[i].op \notin WritesModule
  BY DEF GivesBlock, Adders, WritesModule
<1> QED
  BY <1>1, <1>2, <1>3, <1>4

\* A module more, or another one in the place of one.
LEMMA AppendedModule ==
    ASSUME NEW bp, NEW ops, NEW n, NEW st, Worked(bp, ops, n, st), NEW m, IsModule(m),
           m.path \in PathsOf(bp) \cup PathsOfPatch(ops)
    PROVE  Worked(bp, ops, n, [st EXCEPT !.bp.modules = Append(st.bp.modules, m)])
<1> DEFINE ms == st.bp.modules
<1>1. ms \in Seq(Range(ms) \cup {m})
  BY DEF Worked, ModulesFit
<1>2. Append(ms, m) \in Seq(Range(ms) \cup {m})
  BY <1>1
<1>3. /\ Append(ms, m) \in Seq(Range(Append(ms, m)))
      /\ Range(Append(ms, m)) \subseteq Range(ms) \cup {m}
  <2> DEFINE S == Range(ms) \cup {m}
             s == Append(ms, m)
  <2>1. s \in Seq(S)
    BY <1>2
  <2> HIDE DEF s, S
  <2>2. s \in Seq(Range(s)) /\ Range(s) \subseteq S
    BY <2>1, SeqOfItsOwn
  <2> QED
    BY <2>2 DEF s, S
<1>4. \A x \in Range(ms) : IsModule(x) /\ x.path \in PathsOf(bp) \cup PathsOfPatch(ops)
  BY DEF Worked, ModulesFit
<1>5. ModulesFit(bp, ops, Append(ms, m))
  <2> HIDE DEF ms
  <2> QED
    BY <1>3, <1>4 DEF ModulesFit
<1> QED
  BY <1>5, OtherModules

LEMMA ChangedModule ==
    ASSUME NEW bp, NEW ops, NEW n, NEW st, Worked(bp, ops, n, st),
           NEW j \in DOMAIN st.bp.modules, NEW m, IsModule(m),
           m.path \in PathsOf(bp) \cup PathsOfPatch(ops)
    PROVE  Worked(bp, ops, n, [st EXCEPT !.bp.modules[j] = m])
<1> DEFINE ms == st.bp.modules
           changed == [ms EXCEPT ![j] = m]
<1>1. ms \in Seq(Range(ms) \cup {m})
  BY DEF Worked, ModulesFit
<1>2. changed \in Seq(Range(ms) \cup {m})
  BY <1>1
<1>3. /\ changed \in Seq(Range(changed))
      /\ Range(changed) \subseteq Range(ms) \cup {m}
  <2> DEFINE S == Range(ms) \cup {m}
  <2>1. changed \in Seq(S)
    BY <1>2
  <2> HIDE DEF changed, S
  <2>2. changed \in Seq(Range(changed)) /\ Range(changed) \subseteq S
    BY <2>1, SeqOfItsOwn
  <2> QED
    BY <2>2 DEF S
<1>4. \A x \in Range(ms) : IsModule(x) /\ x.path \in PathsOf(bp) \cup PathsOfPatch(ops)
  BY DEF Worked, ModulesFit
<1>5. ModulesFit(bp, ops, changed)
  <2> HIDE DEF changed, ms
  <2> QED
    BY <1>3, <1>4 DEF ModulesFit
<1>6. [st EXCEPT !.bp.modules[j] = m] = [st EXCEPT !.bp.modules = changed]
  OBVIOUS
<1> HIDE DEF changed
<1> QED
  BY <1>5, <1>6, OtherModules

LEMMA FoundModule ==
    ASSUME NEW bp, NEW ops, NEW n, NEW st, Worked(bp, ops, n, st), NEW id,
           ModuleAt(st.bp, id) # 0
    PROVE  /\ ModuleAt(st.bp, id) \in DOMAIN st.bp.modules
           /\ IsModule(st.bp.modules[ModuleAt(st.bp, id)])
           /\ st.bp.modules[ModuleAt(st.bp, id)].path \in PathsOf(bp) \cup PathsOfPatch(ops)
<1> DEFINE ms == st.bp.modules
           I == {i \in 1..Len(ms) : ms[i].id = id}
<1>1. ms \in Seq(Range(ms)) /\ Len(ms) \in Nat /\ DOMAIN ms = 1..Len(ms)
  BY DEF Worked, ModulesFit
<1>2. ModuleAt(st.bp, id) = IF I # {} THEN Min(I) ELSE 0
  BY DEF ModuleAt, SelectInSeq
<1>3. I # {} /\ ModuleAt(st.bp, id) = Min(I)
  BY <1>2
<1>4. I \in SUBSET (1..Len(ms))
  OBVIOUS
<1> HIDE DEF I
<1>5. Min(I) \in I
  BY <1>1, <1>3, <1>4, FirstOne
<1>6. ModuleAt(st.bp, id) \in DOMAIN ms
  BY <1>1, <1>3, <1>4, <1>5
<1>7. ms[ModuleAt(st.bp, id)] \in Range(ms)
  BY <1>6 DEF Range
<1> QED
  BY <1>6, <1>7 DEF Worked, ModulesFit

LEMMA FewerModules ==
    ASSUME NEW bp, NEW ops, NEW ms, ModulesFit(bp, ops, ms), NEW gone
    PROVE  ModulesFit(bp, ops, Dropping(ms, gone))
<1> DEFINE s == Dropping(ms, gone)
           S == Range(ms) \ gone
<1>1. s \in Seq(S)
  BY DroppingKeeps DEF ModulesFit
<1> HIDE DEF s, S
<1>2. s \in Seq(Range(s)) /\ Range(s) \subseteq S
  BY <1>1, SeqOfItsOwn
<1>3. ModulesFit(bp, ops, s)
  BY <1>2 DEF ModulesFit, S
<1> QED
  BY <1>3 DEF s

LEMMA FewerEdges ==
    ASSUME NEW ops, NEW n, NEW es, EdgesFit(ops, n, es), NEW gone
    PROVE  EdgesFit(ops, n, Dropping(es, gone))
<1> DEFINE s == Dropping(es, gone)
           S == Range(es) \ gone
<1>1. s \in Seq(S)
  BY DroppingKeeps DEF EdgesFit
<1> HIDE DEF s, S
<1>2. s \in Seq(Range(s)) /\ Range(s) \subseteq S
  BY <1>1, SeqOfItsOwn
<1>3. EdgesFit(ops, n, s)
  BY <1>2 DEF EdgesFit, S
<1> QED
  BY <1>3 DEF s

\* Removing edges one specification after the other.
RemStep(c, s, spec) ==
    LET kept == Dropping(s.bp.edges, {e \in Range(s.bp.edges) : Joins(spec.from, spec.to, e)})
    IN  IF kept = s.bp.edges THEN Failing(s) ELSE [s EXCEPT !.bp.edges = kept]
RemHolds(c, k, s) == Worked(c[1], c[2], c[3], s)
RemFold == INSTANCE FoldInduction WITH step <- RemStep, Holds <- RemHolds

LEMMA RemoveEdgesFolds ==
    ASSUME NEW st, NEW specs, NEW c
    PROVE  RemoveEdges(st, specs) = RemFold!Folded(c, st, specs)
  BY Zenon DEF RemoveEdges, RemStep, RemFold!Folded, RemFold!FoldLeft, FoldLeft,
     RemFold!MapThenFoldSet, MapThenFoldSet, RemFold!Max, Max

LEMMA RemoveEdgesKeeps ==
    ASSUME NEW bp, NEW ops, NEW n, NEW st, Worked(bp, ops, n, st),
           NEW specs, specs \in Seq(Range(specs))
    PROVE  Worked(bp, ops, n, RemoveEdges(st, specs))
<1> DEFINE c == <<bp, ops, n>>
<1>1. Len(specs) \in Nat /\ DOMAIN specs = 1..Len(specs)
  OBVIOUS
<1>2. \A k, s : RemHolds(c, k, s) <=> Worked(bp, ops, n, s)
  BY DEF RemHolds
<1> HIDE DEF c
<1>3. RemHolds(c, 0, st)
  BY <1>2
<1>4. ASSUME NEW k \in 0..(Len(specs) - 1), NEW s, RemHolds(c, k, s)
      PROVE  RemHolds(c, k + 1, RemStep(c, s, specs[k + 1]))
  <2> DEFINE spec == specs[k + 1]
             kept == Dropping(s.bp.edges, {e \in Range(s.bp.edges) : Joins(spec.from, spec.to, e)})
  <2>1. Worked(bp, ops, n, s)
    BY <1>2, <1>4
  <2>2. EdgesFit(ops, n, kept)
    BY <2>1, FewerEdges DEF Worked
  <2>3. RemStep(c, s, spec) = IF kept = s.bp.edges THEN Failing(s) ELSE [s EXCEPT !.bp.edges = kept]
    BY DEF RemStep
  <2> HIDE DEF kept
  <2>4. Worked(bp, ops, n, Failing(s))
    BY <2>1, FailingWorks
  <2>5. Worked(bp, ops, n, [s EXCEPT !.bp.edges = kept])
    BY <2>1, <2>2, OtherEdges
  <2>6. Worked(bp, ops, n, RemStep(c, s, spec))
    BY <2>3, <2>4, <2>5
  <2> QED
    BY <1>2, <2>6
<1>5. RemHolds(c, Len(specs), RemFold!Folded(c, st, specs))
  BY <1>1, <1>3, <1>4, RemFold!FoldLeftInduction
<1> QED
  BY <1>2, <1>5, RemoveEdgesFolds

\* The edges that the operation after the first n ones adds.
LEMMA AddEdgesKeeps ==
    ASSUME NEW bp, NEW ops, NEW n \in Nat, NEW st, Worked(bp, ops, n + 1, st),
           n + 1 \in DOMAIN ops, ops[n + 1].op \in Adders
    PROVE  Worked(bp, ops, n + 1, AddEdges(st, n + 1))
<1> DEFINE i == n + 1
           mine == st.ops[i].add
           added == [k \in DOMAIN mine |->
                        [from |-> mine[k].from, to |-> mine[k].to, port |-> mine[k].port,
                         origin |-> <<i, k>>]]
           es == st.bp.edges
           A == {added[k] : k \in DOMAIN mine}
<1>1. /\ mine \in Seq(Range(mine)) /\ DOMAIN mine = DOMAIN ops[i].add
      /\ \A e \in Range(mine) : IsEdge(e)
  BY SpecNow DEF Worked
<1>2. added \in Seq(A)
  <2>1. Len(mine) \in Nat /\ DOMAIN mine = 1..Len(mine)
    BY <1>1
  <2>2. added \in [1..Len(mine) -> A]
    BY <2>1
  <2> HIDE DEF added, A
  <2> QED
    BY <2>1, <2>2
<1>3. ASSUME NEW e \in A
      PROVE  /\ e = [from |-> e.from, to |-> e.to, port |-> e.port, origin |-> e.origin]
             /\ AddedBy(ops, i, e)
  <2>1. PICK k \in DOMAIN mine : e = added[k]
    BY <1>3
  <2>2. e = [from |-> mine[k].from, to |-> mine[k].to, port |-> mine[k].port, origin |-> <<i, k>>]
    BY <2>1
  <2> HIDE DEF added, A
  <2>3. ~ChangesItself(ops) => st.ops = ops
    BY DEF Worked, OpsFit
  <2>4. ~ChangesItself(ops) => Joins(ops[i].add[k].from, ops[i].add[k].to, e)
    BY <2>2, <2>3 DEF Joins
  <2>5. k \in DOMAIN ops[i].add /\ i <= i /\ e.origin = <<i, k>>
    BY <1>1, <2>2
  <2>6. AddedBy(ops, i, e)
    BY <2>4, <2>5 DEF AddedBy
  <2> QED
    BY <2>2, <2>6
<1>4. AddEdges(st, i) = [st EXCEPT !.bp.edges = es \o added]
  BY DEF AddEdges
<1>5. EdgesFit(ops, i, es)
  BY DEF Worked
<1> HIDE DEF added, A
<1>6. EdgesFit(ops, i, es \o added)
  <2> DEFINE S == Range(es) \cup A
             s == es \o added
  <2>1. es \in Seq(S) /\ added \in Seq(S)
    BY <1>2, <1>5 DEF EdgesFit
  <2>2. s \in Seq(S)
    BY <2>1
  <2> HIDE DEF s, S
  <2>3. s \in Seq(Range(s)) /\ Range(s) \subseteq S
    BY <2>2, SeqOfItsOwn
  <2>4. EdgesFit(ops, i, s)
    BY <1>3, <1>5, <2>3 DEF EdgesFit, S
  <2> QED
    BY <2>4 DEF s
<1>7. PICK more : more = es \o added
  OBVIOUS
<1>8. Worked(bp, ops, i, [st EXCEPT !.bp.edges = more])
  BY <1>6, <1>7, OtherEdges
<1> QED
  BY <1>4, <1>7, <1>8

-----------------------------------------------------------------------------
(* Each operation, as the one after the first n.                           *)

LEMMA PathRewritten ==
    ASSUME NEW x, IsModule(x), NEW path, NEW m, m = [x EXCEPT !.path = path]
    PROVE  IsModule(m) /\ m.path = path
<1>1. m = [id |-> x.id, type |-> x.type, attach |-> x.attach, path |-> path,
           complete |-> x.complete, select |-> x.select]
  BY DEF IsModule
<1> QED
  BY <1>1 DEF IsModule

LEMMA SettingKeeps ==
    ASSUME NEW bp, NEW ops, NEW n \in Nat, NEW st, Worked(bp, ops, n, st),
           n + 1 \in DOMAIN ops, ops[n + 1].op = "set_module_config_key"
    PROVE  Worked(bp, ops, n, SetModuleConfigKey(st, st.ops[n + 1]))
<1> DEFINE o == st.ops[n + 1]
           j == ModuleAt(st.bp, o.module_id)
           m == [st.bp.modules[j] EXCEPT !.path = o.value]
<1>1. SetModuleConfigKey(st, o) = IF j = 0 THEN Failing(st) ELSE [st EXCEPT !.bp.modules[j] = m]
  BY DEF SetModuleConfigKey, Configured
<1>2. PathWritten(o) = o.value /\ PathWritten(o) \in PathsOfPatch(ops)
  BY SpecNow DEF Worked, PathWritten, PathsOfPatch
<1>3. CASE j = 0
  BY <1>1, <1>3, FailingWorks
<1>4. CASE j # 0
  <2>1. j \in DOMAIN st.bp.modules /\ IsModule(st.bp.modules[j])
    BY <1>4, FoundModule
  <2>a. PICK old, path : old = st.bp.modules[j] /\ path = o.value
    OBVIOUS
  <2>b. m = [old EXCEPT !.path = path]
    BY <2>a
  <2> HIDE DEF m, j
  <2>2. IsModule(m) /\ m.path = o.value
    BY <2>1, <2>a, <2>b, PathRewritten
  <2>3. Worked(bp, ops, n, [st EXCEPT !.bp.modules[j] = m])
    BY <1>2, <2>1, <2>2, ChangedModule
  <2> QED
    BY <1>1, <1>4, <2>3
<1> QED
  BY <1>3, <1>4

LEMMA ReplacingKeeps ==
    ASSUME NEW bp, NEW ops, NEW n \in Nat, NEW st, Worked(bp, ops, n, st),
           n + 1 \in DOMAIN ops, ops[n + 1].op = "replace_module_config"
    PROVE  Worked(bp, ops, n, ReplaceModuleConfig(st, st.ops[n + 1]))
<1> DEFINE o == st.ops[n + 1]
           j == ModuleAt(st.bp, o.module_id)
           m == [st.bp.modules[j] EXCEPT !.path = o.config.path, !.complete = o.config.complete,
                                         !.select = o.config.select]
<1>1. ReplaceModuleConfig(st, o) = IF j = 0 THEN Failing(st) ELSE [st EXCEPT !.bp.modules[j] = m]
  BY DEF ReplaceModuleConfig, Configured
<1>2. PathWritten(o) = o.config.path /\ PathWritten(o) \in PathsOfPatch(ops)
  BY SpecNow DEF Worked, PathWritten, PathsOfPatch
<1>3. CASE j = 0
  BY <1>1, <1>3, FailingWorks
<1>4. CASE j # 0
  <2>1. j \in DOMAIN st.bp.modules /\ IsModule(st.bp.modules[j])
    BY <1>4, FoundModule
  <2>a. PICK old, config : old = st.bp.modules[j] /\ config = o.config
    OBVIOUS
  <2>b. m = [old EXCEPT !.path = config.path, !.complete = config.complete,
                        !.select = config.select]
    BY <2>a
  <2>c. PICK path, complete, select :
            path = config.path /\ complete = config.complete /\ select = config.select
    OBVIOUS
  <2> HIDE DEF m, j
  <2>2. IsModule(m) /\ m.path = o.config.path
    <3>1. m = [old EXCEPT !.path = path, !.complete = complete, !.select = select]
      BY <2>b, <2>c
    <3>2. IsModule(old)
      BY <2>1, <2>a
    <3> DEFINE a == [old EXCEPT !.path = path]
    <3>3. a = [id |-> old.id, type |-> old.type, attach |-> old.attach, path |-> path,
               complete |-> old.complete, select |-> old.select]
      BY <3>2 DEF IsModule
    <3>4. m = [[a EXCEPT !.complete = complete] EXCEPT !.select = select]
      BY <3>1
    <3> HIDE DEF a
    <3>5. [a EXCEPT !.complete = complete] =
              [id |-> old.id, type |-> old.type, attach |-> old.attach, path |-> path,
               complete |-> complete, select |-> old.select]
      BY <3>3
    <3>6. m = [id |-> old.id, type |-> old.type, attach |-> old.attach, path |-> path,
               complete |-> complete, select |-> select]
      BY <3>4, <3>5
    <3>7. IsModule(m) /\ m.path = path
      BY <3>6 DEF IsModule
    <3> QED
      BY <2>a, <2>c, <3>7
  <2>3. Worked(bp, ops, n, [st EXCEPT !.bp.modules[j] = m])
    BY <1>2, <2>1, <2>2, ChangedModule
  <2> QED
    BY <1>1, <1>4, <2>3
<1> QED
  BY <1>3, <1>4

LEMMA AnnotatingKeeps ==
    ASSUME NEW bp, NEW ops, NEW n \in Nat, NEW st, Worked(bp, ops, n, st), NEW o
    PROVE  Worked(bp, ops, n, Annotate(st, o))
<1> DEFINE j == ModuleAt(st.bp, o.module_id)
           m == st.bp.modules[j]
<1>1. Annotate(st, o) = IF o.module_id = None THEN st
                        ELSE IF j = 0 THEN Failing(st) ELSE [st EXCEPT !.bp.modules[j] = m]
  BY DEF Annotate, Configured
<1>2. CASE j = 0
  BY <1>1, <1>2, FailingWorks
<1>3. CASE j # 0
  <2>1. /\ j \in DOMAIN st.bp.modules /\ IsModule(m)
        /\ m.path \in PathsOf(bp) \cup PathsOfPatch(ops)
    BY <1>3, FoundModule
  <2> HIDE DEF m, j
  <2>2. Worked(bp, ops, n, [st EXCEPT !.bp.modules[j] = m])
    BY <2>1, ChangedModule
  <2> QED
    BY <1>1, <1>3, <2>2
<1> QED
  BY <1>2, <1>3

LEMMA AddingKeeps ==
    ASSUME NEW bp, NEW ops, NEW n \in Nat, NEW st, Worked(bp, ops, n, st),
           n + 1 \in DOMAIN ops, ops[n + 1].op \in WritesModule
    PROVE  Worked(bp, ops, n, AddModule(st, st.ops[n + 1]))
<1> DEFINE m == st.ops[n + 1].module
<1>1. IsModule(m)
  BY SpecNow DEF Worked
<1>2. m.path \in PathsOfPatch(ops)
  BY SpecNow DEF Worked, PathWritten, PathsOfPatch, WritesModule
<1>3. AddModule(st, st.ops[n + 1]) = [st EXCEPT !.bp.modules = Append(st.bp.modules, m)]
  BY DEF AddModule
<1> HIDE DEF m
<1> QED
  BY <1>1, <1>2, <1>3, AppendedModule

LEMMA InsertingKeeps ==
    ASSUME NEW bp, NEW ops, NEW n \in Nat, NEW st, Worked(bp, ops, n, st),
           n + 1 \in DOMAIN ops, ops[n + 1].op \in WritesModule \ {"add_probe"}
    PROVE  Worked(bp, ops, n + 1, InsertModule(st, n + 1))
<1> DEFINE o == st.ops[n + 1]
           t == RemoveEdges(AddModule(st, o), o.remove)
<1>1. o.remove \in Seq(Range(o.remove))
  BY SpecNow DEF Worked
<1>2. Worked(bp, ops, n, AddModule(st, o))
  BY AddingKeeps
<1>3. Worked(bp, ops, n, t)
  BY <1>1, <1>2, RemoveEdgesKeeps
<1>4. InsertModule(st, n + 1) =
          IF o.module.id \in IdsOf(st.bp) THEN Failing(st) ELSE AddEdges(t, n + 1)
  BY DEF InsertModule
<1> HIDE DEF t
<1>5. Worked(bp, ops, n + 1, AddEdges(t, n + 1))
  BY <1>3, WorkedMore, AddEdgesKeeps DEF Adders
<1>6. Worked(bp, ops, n + 1, Failing(st))
  BY FailingWorks, WorkedMore
<1> QED
  BY <1>4, <1>5, <1>6

LEMMA ProbingKeeps ==
    ASSUME NEW bp, NEW ops, NEW n \in Nat, NEW st, Worked(bp, ops, n, st),
           n + 1 \in DOMAIN ops, ops[n + 1].op = "add_probe"
    PROVE  Worked(bp, ops, n + 1, AddProbe(st, n + 1))
<1> DEFINE t == AddModule(st, st.ops[n + 1])
<1>1. Worked(bp, ops, n, t)
  BY AddingKeeps DEF WritesModule
<1>2. AddProbe(st, n + 1) = Failing(st) \/ AddProbe(st, n + 1) = AddEdges(t, n + 1)
  BY DEF AddProbe
<1> HIDE DEF t
<1>3. Worked(bp, ops, n + 1, AddEdges(t, n + 1))
  BY <1>1, WorkedMore, AddEdgesKeeps DEF Adders, WritesModule
<1>4. Worked(bp, ops, n + 1, Failing(st))
  BY FailingWorks, WorkedMore
<1> QED
  BY <1>2, <1>3, <1>4

LEMMA RemovingKeeps ==
    ASSUME NEW bp, NEW ops, NEW n \in Nat, NEW st, Worked(bp, ops, n, st),
           n + 1 \in DOMAIN ops, ops[n + 1].op = "remove_module"
    PROVE  Worked(bp, ops, n + 1, RemoveModule(st, n + 1))
<1> DEFINE id == st.ops[n + 1].module_id
           ms == Dropping(st.bp.modules, {m \in Range(st.bp.modules) : m.id = id})
           es == Dropping(st.bp.edges, {e \in Range(st.bp.edges) : id \in {e.from, e.to}})
           half == [st EXCEPT !.bp.modules = ms]
           t == [half EXCEPT !.bp.edges = es]
<1>1. RemoveModule(st, n + 1) =
          IF id \notin IdsOf(st.bp) THEN Failing(st)
          ELSE AddEdges([st EXCEPT !.bp.modules = ms, !.bp.edges = es], n + 1)
  BY DEF RemoveModule
<1>2. ModulesFit(bp, ops, ms) /\ EdgesFit(ops, n, es)
  BY FewerModules, FewerEdges DEF Worked
<1> HIDE DEF ms, es
<1>3. [st EXCEPT !.bp.modules = ms, !.bp.edges = es] = t
  OBVIOUS
<1>4. Worked(bp, ops, n, half)
  BY <1>2, OtherModules
<1> HIDE DEF half
<1>5. Worked(bp, ops, n, t)
  BY <1>2, <1>4, OtherEdges
<1> HIDE DEF t, id
<1>6. Worked(bp, ops, n + 1, AddEdges(t, n + 1))
  BY <1>5, WorkedMore, AddEdgesKeeps DEF Adders
<1>7. Worked(bp, ops, n + 1, Failing(st))
  BY FailingWorks, WorkedMore
<1> QED
  BY <1>1, <1>3, <1>6, <1>7

LEMMA RewiredEdge ==
    ASSUME NEW o, NEW e,
           e = [from |-> e.from, to |-> e.to, port |-> e.port, origin |-> e.origin]
    PROVE  Rewired(o, e) =
               [from |-> IF o.new_from_id = None THEN e.from ELSE o.new_from_id,
                to |-> IF o.new_to_id = None THEN e.to ELSE o.new_to_id,
                port |-> IF o.new_port = None THEN e.port ELSE o.new_port,
                origin |-> e.origin]
<1>1. PICK from : from = IF o.new_from_id = None THEN e.from ELSE o.new_from_id
  OBVIOUS
<1>2. PICK to : to = IF o.new_to_id = None THEN e.to ELSE o.new_to_id
  OBVIOUS
<1>3. PICK port : port = IF o.new_port = None THEN e.port ELSE o.new_port
  OBVIOUS
<1> DEFINE a == [e EXCEPT !.from = from]
           b == [a EXCEPT !.to = to]
<1>4. Rewired(o, e) = [b EXCEPT !.port = port]
  BY <1>1, <1>2, <1>3 DEF Rewired
<1>5. a = [from |-> from, to |-> e.to, port |-> e.port, origin |-> e.origin]
  OBVIOUS
<1> HIDE DEF a
<1>6. b = [from |-> from, to |-> to, port |-> e.port, origin |-> e.origin]
  BY <1>5
<1> HIDE DEF b
<1>7. Rewired(o, e) = [from |-> from, to |-> to, port |-> port, origin |-> e.origin]
  BY <1>4, <1>6
<1> QED
  BY <1>1, <1>2, <1>3, <1>7

LEMMA RewiredSpec ==
    ASSUME NEW o, NEW e, IsEdge(e)
    PROVE  Rewired(o, e) =
               [from |-> IF o.new_from_id = None THEN e.from ELSE o.new_from_id,
                to |-> IF o.new_to_id = None THEN e.to ELSE o.new_to_id,
                port |-> IF o.new_port = None THEN e.port ELSE o.new_port]
<1>1. PICK from : from = IF o.new_from_id = None THEN e.from ELSE o.new_from_id
  OBVIOUS
<1>2. PICK to : to = IF o.new_to_id = None THEN e.to ELSE o.new_to_id
  OBVIOUS
<1>3. PICK port : port = IF o.new_port = None THEN e.port ELSE o.new_port
  OBVIOUS
<1> DEFINE a == [e EXCEPT !.from = from]
           b == [a EXCEPT !.to = to]
<1>4. Rewired(o, e) = [b EXCEPT !.port = port]
  BY <1>1, <1>2, <1>3 DEF Rewired
<1>5. a = [from |-> from, to |-> e.to, port |-> e.port]
  BY DEF IsEdge
<1> HIDE DEF a
<1>6. b = [from |-> from, to |-> to, port |-> e.port]
  BY <1>5
<1> HIDE DEF b
<1>7. Rewired(o, e) = [from |-> from, to |-> to, port |-> port]
  BY <1>4, <1>6
<1> QED
  BY <1>1, <1>2, <1>3, <1>7

\* An edge that leads elsewhere, in the place of the one it was.
LEMMA ChangedEdge ==
    ASSUME NEW ops, NEW n, NEW es, EdgesFit(ops, n, es), NEW j \in DOMAIN es, NEW e,
           e = [from |-> e.from, to |-> e.to, port |-> e.port, origin |-> e.origin],
           e.origin = InFile \/ AddedBy(ops, n, e)
    PROVE  EdgesFit(ops, n, [es EXCEPT ![j] = e])
<1> DEFINE S == Range(es) \cup {e}
           s == [es EXCEPT ![j] = e]
<1>1. es \in Seq(S)
  BY DEF EdgesFit
<1>2. s \in Seq(S)
  BY <1>1
<1> HIDE DEF s, S
<1>3. s \in Seq(Range(s)) /\ Range(s) \subseteq S
  BY <1>2, SeqOfItsOwn
<1>4. EdgesFit(ops, n, s)
  BY <1>3 DEF EdgesFit, S
<1> QED
  BY <1>4 DEF s

\* Other ends of the edge <<i, k>> by a later operation that rewires it.
LEMMA SpecRewired ==
    ASSUME NEW ops, NEW now, IsPatch(ops), OpsFit(ops, now), ChangesItself(ops),
           NEW i \in DOMAIN ops, NEW j \in DOMAIN ops, i < j,
           ops[i].op \in Adders, ops[j].op = "replace_edge", NEW k \in DOMAIN ops[i].add
    PROVE  OpsFit(ops, [now EXCEPT ![i].add[k] = Rewired(ops[j], now[i].add[k])])
<1> DEFINE o == ops[j]
           mine == now[i].add
           e == Rewired(o, mine[k])
           add == [mine EXCEPT ![k] = e]
           next == [now EXCEPT ![i].add[k] = e]
<1>1. /\ mine \in Seq(Range(mine)) /\ DOMAIN mine = DOMAIN ops[i].add
      /\ \A x \in Range(mine) : IsEdge(x)
      /\ "op" \in DOMAIN now[i] /\ "add" \in DOMAIN now[i]
  BY SpecNow
<1>2. mine[k] \in Range(mine)
  BY <1>1 DEF Range
<1>3. e = [from |-> IF o.new_from_id = None THEN mine[k].from ELSE o.new_from_id,
           to |-> IF o.new_to_id = None THEN mine[k].to ELSE o.new_to_id,
           port |-> IF o.new_port = None THEN mine[k].port ELSE o.new_port]
  BY <1>1, <1>2, RewiredSpec
<1>4. IsEdge(e)
  BY <1>3 DEF IsEdge
<1>5. e.from = mine[k].from \/ e.from = o.new_from_id
  BY <1>3
<1>6. e.to = mine[k].to \/ e.to = o.new_to_id
  BY <1>3
<1>7. next = [now EXCEPT ![i] = [now[i] EXCEPT !.add = add]]
  OBVIOUS
<1> HIDE DEF e, mine
<1>8. add \in Seq(Range(add)) /\ (\A x \in Range(add) : IsEdge(x)) /\ DOMAIN add = DOMAIN mine
  <2> DEFINE S == Range(mine) \cup {e}
  <2>1. mine \in Seq(S) /\ e \in S /\ k \in DOMAIN mine
    BY <1>1
  <2> HIDE DEF S
  <2>2. add \in Seq(S) /\ DOMAIN add = DOMAIN mine
    BY <2>1
  <2> HIDE DEF add
  <2>3. add \in Seq(Range(add)) /\ Range(add) \subseteq S
    BY <2>2, SeqOfItsOwn
  <2> QED
    BY <1>1, <1>4, <2>2, <2>3 DEF S
<1>9. \A x \in DOMAIN mine : add[x] = IF x = k THEN e ELSE mine[x]
  BY <1>1
<1> HIDE DEF add, next, mine, o
<1>10. DOMAIN next = DOMAIN now /\ DOMAIN now = DOMAIN ops
  BY <1>7 DEF OpsFit
<1>11. next[i] = [now[i] EXCEPT !.add = add]
  BY <1>7, <1>10
<1>12. \A x \in DOMAIN ops \ {i} : next[x] = now[x]
  BY <1>7, <1>10
<1>13. next[i].add = add /\ next[i].op = now[i].op
  BY <1>1, <1>11
<1>14. ChangedWithin(ops[i], next[i])
  <2>1. CASE now[i] = ops[i]
    BY <1>1, <1>8, <1>11, <2>1 DEF ChangedWithin
  <2>2. CASE now[i] # ops[i]
    <3>1. PICK old : now[i] = [ops[i] EXCEPT !.add = old]
      BY <2>2 DEF OpsFit, ChangedWithin, GivesBlock, Adders, WritesModule
    <3>2. next[i] = [ops[i] EXCEPT !.add = add]
      BY <1>11, <3>1
    <3> QED
      BY <1>1, <1>8, <3>2 DEF ChangedWithin
  <2> QED
    BY <2>1, <2>2
<1>15. next \in Seq(Range(next))
  <2>1. now \in Seq(Range(now)) /\ DOMAIN now = 1..Len(now) /\ Len(now) \in Nat
    BY DEF OpsFit
  <2> DEFINE S == Range(now) \cup {[now[i] EXCEPT !.add = add]}
  <2>2. now \in Seq(S) /\ [now[i] EXCEPT !.add = add] \in S /\ i \in DOMAIN now
    BY <1>10, <2>1
  <2> HIDE DEF S
  <2>3. next \in Seq(S)
    BY <1>7, <2>2
  <2> QED
    BY <2>3, SeqOfItsOwn
<1>f. ASSUME FillsOwnBlock(now) PROVE FillsOwnBlock(next)
  <2>1. \A x \in DOMAIN now : now[x].op = "replace_context_value" => next[x] = now[x]
    BY <1>10, <1>12, SpecNow DEF Adders, WritesModule
  <2> QED
    BY <1>10, <1>f, <2>1 DEF FillsOwnBlock, GivesBlock
<1>16. ASSUME RewiresOwnEdge(now) PROVE RewiresOwnEdge(next)
  <2>2. PICK a \in DOMAIN now, b \in DOMAIN now :
            /\ a < b /\ now[b].op = "replace_edge" /\ now[a].op \in Adders
            /\ \E x \in DOMAIN now[a].add :
                  \/ now[a].add[x].from \in {now[b].from_id, now[b].new_from_id}
                  \/ now[a].add[x].to \in {now[b].to_id, now[b].new_to_id}
    BY <1>16 DEF RewiresOwnEdge, Adders
  <2>3. PICK x \in DOMAIN now[a].add :
            \/ now[a].add[x].from \in {now[b].from_id, now[b].new_from_id}
            \/ now[a].add[x].to \in {now[b].to_id, now[b].new_to_id}
    BY <2>2
  <2>4. b # i /\ next[b] = now[b] /\ next[a].op = now[a].op
    BY <1>10, <1>12, <1>13, <2>2, SpecNow DEF Adders, WritesModule
  <2>5. CASE ~(a = i /\ x = k)
    <3>1. x \in DOMAIN next[a].add /\ next[a].add[x] = now[a].add[x]
      BY <1>8, <1>9, <1>10, <1>12, <1>13, <2>3, <2>5 DEF mine
    <3> QED
      BY <1>10, <2>2, <2>3, <2>4, <3>1 DEF RewiresOwnEdge, Adders
  <2>6. CASE a = i /\ x = k
    <3>1. k \in DOMAIN next[i].add /\ next[i].add[k] = e
      BY <1>1, <1>8, <1>9, <1>13 DEF mine
    <3>2. next[j] = o /\ j \in DOMAIN next
      BY <1>10, <1>12, SpecNow DEF o, Adders, WritesModule
    <3>3. CASE e.from = o.new_from_id \/ e.to = o.new_to_id
      <4>1. next[i].op \in Adders /\ next[j].op = "replace_edge"
        BY <1>13, <3>2, SpecNow DEF o
      <4> QED
        BY <1>10, <3>1, <3>2, <3>3, <4>1 DEF RewiresOwnEdge, Adders
    <3>4. CASE e.from = mine[k].from /\ e.to = mine[k].to
      BY <1>10, <2>2, <2>3, <2>4, <2>6, <3>1, <3>4 DEF RewiresOwnEdge, Adders, mine
    <3> QED
      BY <1>5, <1>6, <3>3, <3>4 DEF o, mine
  <2> QED
    BY <2>5, <2>6
<1>17. \A x \in DOMAIN ops : ChangedWithin(ops[x], next[x])
  BY <1>12, <1>14 DEF OpsFit
<1>18. OpsFit(ops, next)
  BY <1>10, <1>15, <1>16, <1>17, <1>f DEF OpsFit, ChangesItself
<1> QED
  BY <1>18 DEF next, e, o, mine

LEMMA RewiringKeeps ==
    ASSUME NEW bp, NEW ops, NEW n \in Nat, NEW st, Worked(bp, ops, n, st),
           n + 1 \in DOMAIN ops, ops[n + 1].op = "replace_edge"
    PROVE  Worked(bp, ops, n + 1, ReplaceEdge(st, st.ops[n + 1]))
<1> DEFINE o == st.ops[n + 1]
           es == st.bp.edges
           I == {i \in 1..Len(es) : Joins(o.from_id, o.to_id, es[i])}
           j == IF I # {} THEN Min(I) ELSE 0
           e == Rewired(o, es[j])
           moved == [st EXCEPT !.bp.edges[j] = e]
           origin == es[j].origin
           rewritten == [moved EXCEPT !.ops[origin[1]].add[origin[2]] = Rewired(o, @)]
<1>1. ReplaceEdge(st, o) =
          IF j = 0 \/ {o.new_from_id, o.new_to_id, o.new_port} = {None} THEN Failing(st)
          ELSE IF origin = InFile THEN moved ELSE rewritten
  BY DEF ReplaceEdge, SelectInSeq
<1>2. o = ops[n + 1]
  BY SpecNow DEF Worked, Adders, WritesModule
<1>3. Worked(bp, ops, n + 1, st) /\ Worked(bp, ops, n + 1, Failing(st))
  BY WorkedMore, FailingWorks
<1>4. CASE j = 0
  BY <1>1, <1>3, <1>4
<1>5. CASE j # 0
  <2>1. es \in Seq(Range(es)) /\ Len(es) \in Nat /\ DOMAIN es = 1..Len(es)
    BY DEF Worked, EdgesFit
  <2>2. j \in DOMAIN es /\ Joins(o.from_id, o.to_id, es[j])
    <3>1. I # {} /\ I \in SUBSET (1..Len(es)) /\ j = Min(I)
      BY <1>5
    <3> HIDE DEF I, j
    <3>2. j \in I
      BY <2>1, <3>1, FirstOne
    <3> QED
      BY <2>1, <3>2 DEF I
  <2>3. es[j] \in Range(es)
    BY <2>2 DEF Range
  <2>4. /\ es[j] = [from |-> es[j].from, to |-> es[j].to, port |-> es[j].port, origin |-> origin]
        /\ origin = InFile \/ AddedBy(ops, n, es[j])
    BY <2>3 DEF Worked, EdgesFit
  <2>5. /\ e = [from |-> e.from, to |-> e.to, port |-> e.port, origin |-> e.origin]
        /\ e.origin = origin
    <3> HIDE DEF j, es
    <3>1. PICK x : x = es[j]
      OBVIOUS
    <3>2. Rewired(o, x) =
               [from |-> IF o.new_from_id = None THEN x.from ELSE o.new_from_id,
                to |-> IF o.new_to_id = None THEN x.to ELSE o.new_to_id,
                port |-> IF o.new_port = None THEN x.port ELSE o.new_port,
                origin |-> x.origin]
      BY <2>4, <3>1, RewiredEdge
    <3> QED
      BY <3>1, <3>2
  <2>6. ASSUME origin # InFile
        PROVE  /\ AddedBy(ops, n + 1, e)
               /\ OpsFit(ops, [st.ops EXCEPT ![origin[1]].add[origin[2]] = Rewired(o, @)])
    <3>1. PICK i \in DOMAIN ops :
              \E k \in DOMAIN ops[i].add :
                  /\ i <= n /\ ops[i].op \in Adders /\ origin = <<i, k>>
                  /\ ~ChangesItself(ops) => Joins(ops[i].add[k].from, ops[i].add[k].to, es[j])
      BY <2>4, <2>6 DEF AddedBy
    <3>2. PICK k \in DOMAIN ops[i].add :
              /\ i <= n /\ ops[i].op \in Adders /\ origin = <<i, k>>
              /\ ~ChangesItself(ops) => Joins(ops[i].add[k].from, ops[i].add[k].to, es[j])
      BY <3>1
    <3>3. i < n + 1 /\ i <= n + 1
      <4>1. i \in Nat
        BY DEF Worked, IsPatch
      <4>2. i <= n
        BY <3>2
      <4> QED
        BY <4>1, <4>2
    <3> HIDE DEF e, j, es, o, origin
    <3>4. ChangesItself(ops)
      <4> SUFFICES ASSUME ~ChangesItself(ops) PROVE FALSE
        OBVIOUS
      <4>1. ops[i].add[k].from = ops[n + 1].from_id
        BY <1>2, <2>2, <3>2 DEF Joins
      <4>2. ops[i].op \in WritesModule \cup {"remove_module"}
        BY <3>2 DEF Adders
      <4> QED
        BY <3>3, <4>1, <4>2 DEF ChangesItself, RewiresOwnEdge
    <3>5. AddedBy(ops, n + 1, e)
      BY <2>5, <3>2, <3>3, <3>4 DEF AddedBy
    <3>6. OpsFit(ops, [st.ops EXCEPT ![i].add[k] = Rewired(ops[n + 1], st.ops[i].add[k])])
      <4>1. PICK now : now = st.ops
        OBVIOUS
      <4>2. IsPatch(ops) /\ OpsFit(ops, now)
        BY <4>1 DEF Worked
      <4>3. OpsFit(ops, [now EXCEPT ![i].add[k] = Rewired(ops[n + 1], now[i].add[k])])
        BY <3>2, <3>3, <3>4, <4>2, SpecRewired
      <4> QED
        BY <4>1, <4>3
    <3>7. [st.ops EXCEPT ![i].add[k] = Rewired(ops[n + 1], st.ops[i].add[k])] =
              [st.ops EXCEPT ![origin[1]].add[origin[2]] = Rewired(o, @)]
      BY <1>2, <3>2
    <3> QED
      BY <3>5, <3>6, <3>7
  <2>7. EdgesFit(ops, n + 1, [es EXCEPT ![j] = e])
    <3>1. PICK x, y, z : x = es /\ y = j /\ z = e
      OBVIOUS
    <3>2. EdgesFit(ops, n + 1, x) /\ y \in DOMAIN x
      BY <1>3, <2>2, <3>1 DEF Worked
    <3>3. /\ z = [from |-> z.from, to |-> z.to, port |-> z.port, origin |-> z.origin]
          /\ z.origin = InFile \/ AddedBy(ops, n + 1, z)
      BY <2>5, <2>6, <3>1
    <3>4. EdgesFit(ops, n + 1, [x EXCEPT ![y] = z])
      BY <3>2, <3>3, ChangedEdge
    <3> QED
      BY <3>1, <3>4
  <2>8. moved = [st EXCEPT !.bp.edges = [es EXCEPT ![j] = e]]
    OBVIOUS
  <2>9. Worked(bp, ops, n + 1, moved)
    <3>1. PICK more : more = [es EXCEPT ![j] = e]
      OBVIOUS
    <3>2. Worked(bp, ops, n + 1, [st EXCEPT !.bp.edges = more])
      BY <1>3, <2>7, <3>1, OtherEdges
    <3> QED
      BY <2>8, <3>1, <3>2
  <2>10. ASSUME origin # InFile PROVE Worked(bp, ops, n + 1, rewritten)
    <3>1. PICK now : now = [st.ops EXCEPT ![origin[1]].add[origin[2]] = Rewired(o, @)]
      OBVIOUS
    <3>2. moved.ops = st.ops
      BY DEF Worked
    <3>3. rewritten = [moved EXCEPT !.ops = now]
      <4> HIDE DEF moved, origin, o
      <4> QED
        BY <3>1, <3>2
    <3> HIDE DEF moved, rewritten
    <3>4. OpsFit(ops, now)
      BY <2>6, <2>10, <3>1
    <3>5. Worked(bp, ops, n + 1, [moved EXCEPT !.ops = now])
      BY <2>9, <3>4, OtherSpec
    <3> QED
      BY <3>3, <3>5
  <2> HIDE DEF moved, rewritten, origin, j, o
  <2>11. Worked(bp, ops, n + 1, ReplaceEdge(st, o))
    BY <1>1, <1>3, <2>9, <2>10
  <2> QED
    BY <2>11 DEF o
<1> QED
  BY <1>4, <1>5

\* A nonempty set of positions has a last one.
LEMMA LastOne ==
    ASSUME NEW n \in Nat, NEW s \in SUBSET (1..n), s # {}
    PROVE  Max(s) \in s
<1> DEFINE R == {n + 1 - x : x \in s}
<1>1. R \in SUBSET (1..n) /\ R # {}
  <2>1. \A x \in s : n + 1 - x \in 1..n
    OBVIOUS
  <2> QED
    BY <2>1
<1>2. PICK y : y = Min(R)
  OBVIOUS
<1>3. y \in R /\ \A z \in R : y =< z
  <2> HIDE DEF R
  <2> QED
    BY <1>1, <1>2, FirstOne
<1>4. PICK x \in s : y = n + 1 - x
  BY <1>3
<1>5. \A z \in s : x >= z
  <2> SUFFICES ASSUME NEW z \in s PROVE x >= z
    OBVIOUS
  <2>1. n + 1 - z \in R
    OBVIOUS
  <2>2. y =< n + 1 - z
    BY <1>3, <2>1
  <2> QED
    BY <1>4, <2>2
<1> QED
  BY <1>5 DEF Max

\* Another value in the block that the i-th operation gives, by a later one.
LEMMA SpecFilled ==
    ASSUME NEW ops, NEW now, IsPatch(ops), OpsFit(ops, now), FillsOwnBlock(ops),
           NEW i \in DOMAIN ops, GivesBlock(ops[i]), NEW value
    PROVE  OpsFit(ops, [now EXCEPT ![i].value = value])
<1> DEFINE mine == [now[i] EXCEPT !.value = value]
           next == [now EXCEPT ![i].value = value]
<1>1. /\ ops[i].op = "replace_context_value" /\ ops[i].op \notin Adders
      /\ now[i].op = ops[i].op /\ now[i].whole = ops[i].whole
      /\ {"op", "whole", "value"} \subseteq DOMAIN now[i]
  <2>1. ops[i].op = "replace_context_value"
    BY DEF GivesBlock
  <2>2. ops[i].op \notin Adders
    BY <2>1 DEF Adders, WritesModule
  <2> QED
    BY <2>1, <2>2, SpecNow
<1>2. /\ now \in Seq(Range(now)) /\ DOMAIN now = DOMAIN ops
      /\ now[i] = ops[i] \/ \E v : now[i] = [ops[i] EXCEPT !.value = v]
  BY <1>1 DEF OpsFit, ChangedWithin
<1>3. mine.op = ops[i].op /\ mine.whole = ops[i].whole
  BY <1>1
<1>4. \E v : mine = [ops[i] EXCEPT !.value = v]
  <2>1. CASE now[i] = ops[i]
    BY <2>1
  <2>2. ASSUME NEW v, now[i] = [ops[i] EXCEPT !.value = v]
        PROVE  mine = [ops[i] EXCEPT !.value = value]
    BY <2>2
  <2> QED
    BY <1>2, <2>1, <2>2
<1>5. next = [now EXCEPT ![i] = mine]
  OBVIOUS
<1>6. DOMAIN next = DOMAIN now /\ next[i] = mine /\ \A x \in DOMAIN now \ {i} : next[x] = now[x]
  BY <1>2, <1>5
<1> HIDE DEF mine, next
<1>7. next \in Seq(Range(next))
  <2> DEFINE S == Range(now) \cup {mine}
  <2>1. now \in Seq(S) /\ mine \in S /\ i \in DOMAIN now
    BY <1>2
  <2> HIDE DEF S
  <2>2. next \in Seq(S)
    BY <1>5, <2>1
  <2> QED
    BY <2>2, SeqOfItsOwn
<1>8. \A x \in DOMAIN ops : ChangedWithin(ops[x], next[x])
  BY <1>2, <1>4, <1>6 DEF OpsFit, ChangedWithin
<1>9. FillsOwnBlock(next)
  <2>1. PICK a, b \in DOMAIN ops :
            /\ a < b /\ GivesBlock(ops[a])
            /\ ops[b].op = "replace_context_value" /\ ~ops[b].whole
    BY DEF FillsOwnBlock
  <2>2. \A x \in DOMAIN ops : next[x].op = ops[x].op
    BY <1>2, <1>3, <1>6, SpecNow
  <2>3. \A x \in DOMAIN ops :
            ops[x].op = "replace_context_value" => next[x].whole = ops[x].whole
    BY <1>2, <1>3, <1>6, SpecNow
  <2>4. GivesBlock(next[a]) /\ next[b].op = "replace_context_value" /\ ~next[b].whole
    BY <2>1, <2>2, <2>3 DEF GivesBlock
  <2> QED
    BY <1>2, <1>6, <2>1, <2>4 DEF FillsOwnBlock
<1>10. OpsFit(ops, next)
  BY <1>2, <1>6, <1>7, <1>8, <1>9 DEF OpsFit, ChangesItself
<1> QED
  BY <1>10 DEF next

LEMMA GivingKeeps ==
    ASSUME NEW bp, NEW ops, NEW n \in Nat, NEW st, Worked(bp, ops, n, st),
           n + 1 \in DOMAIN ops, ops[n + 1].op = "replace_context_value"
    PROVE  Worked(bp, ops, n, ReplaceContextValue(st, n + 1))
<1> DEFINE value == st.ops[n + 1].value
           written == [st EXCEPT !.bp.context = value]
           given == {j \in 1..((n + 1) - 1) : GivesBlock(st.ops[j])}
           filled == [written EXCEPT !.ops[Max(given)].value = value]
<1>1. ReplaceContextValue(st, n + 1) =
          IF st.bp.context = NoContext THEN Failing(st)
          ELSE IF st.ops[n + 1].whole \/ given = {} THEN written ELSE filled
  BY DEF ReplaceContextValue
<1>2. Worked(bp, ops, n, written)
  BY OtherContext
<1>3. ASSUME ~st.ops[n + 1].whole, given # {}
      PROVE  Worked(bp, ops, n, filled)
  <2>1. PICK j, now, v : j = Max(given) /\ now = st.ops /\ v = value
    OBVIOUS
  <2>2. IsPatch(ops) /\ OpsFit(ops, now) /\ n \in 0..Len(ops) /\ DOMAIN ops = 1..Len(ops)
    BY <2>1 DEF Worked, IsPatch
  <2>3. j \in 1..n /\ GivesBlock(now[j])
    <3>1. given \in SUBSET (1..n)
      OBVIOUS
    <3>2. PICK s : s = given
      OBVIOUS
    <3>3. Max(s) \in s
      BY <1>3, <3>1, <3>2, LastOne
    <3> QED
      BY <2>1, <3>2, <3>3
  <2>4. j \in DOMAIN ops /\ j < n + 1
    BY <2>2, <2>3
  <2>5. GivesBlock(ops[j])
    BY <2>2, <2>3, <2>4, SpecNow DEF GivesBlock
  <2>6. ~ops[n + 1].whole
    BY <1>3, <2>1, <2>2, SpecNow
  <2>7. FillsOwnBlock(ops)
    BY <2>4, <2>5, <2>6 DEF FillsOwnBlock
  <2>8. OpsFit(ops, [now EXCEPT ![j].value = v])
    BY <2>2, <2>4, <2>5, <2>7, SpecFilled
  <2>9. written.ops = now
    BY <2>1 DEF Worked
  <2>10. PICK next : next = [now EXCEPT ![j].value = v]
    OBVIOUS
  <2>11. filled = [written EXCEPT !.ops = next]
    <3> HIDE DEF written, value, given
    <3> QED
      BY <2>1, <2>9, <2>10
  <2> HIDE DEF written, filled
  <2>12. Worked(bp, ops, n, [written EXCEPT !.ops = next])
    BY <1>2, <2>8, <2>10, OtherSpec
  <2> QED
    BY <2>11, <2>12
<1>4. Worked(bp, ops, n, Failing(st))
  BY FailingWorks
<1> HIDE DEF written, filled, given
<1> QED
  BY <1>1, <1>2, <1>3, <1>4

LEMMA OperationKeeps ==
    ASSUME NEW bp, NEW ops, NEW n \in Nat, NEW st, Worked(bp, ops, n, st), n + 1 \in DOMAIN ops
    PROVE  Worked(bp, ops, n + 1, Operation(st, n + 1))
<1> DEFINE o == st.ops[n + 1]
<1>1. o.op = ops[n + 1].op
  BY SpecNow DEF Worked
<1>2. CASE ops[n + 1].op = "set_module_config_key"
  <2>1. Operation(st, n + 1) = SetModuleConfigKey(st, o)
    BY <1>1, <1>2 DEF Operation
  <2> QED
    BY <1>2, <2>1, SettingKeeps, WorkedMore
<1>3. CASE ops[n + 1].op = "replace_module_config"
  <2>1. Operation(st, n + 1) = ReplaceModuleConfig(st, o)
    BY <1>1, <1>3 DEF Operation
  <2> QED
    BY <1>3, <2>1, ReplacingKeeps, WorkedMore
<1>4. CASE ops[n + 1].op \in {"insert_module", "add_arcade_ref"}
  <2>1. Operation(st, n + 1) = InsertModule(st, n + 1)
    BY <1>1, <1>4 DEF Operation
  <2> QED
    BY <1>4, <2>1, InsertingKeeps DEF WritesModule
<1>5. CASE ops[n + 1].op = "add_probe"
  <2>1. Operation(st, n + 1) = AddProbe(st, n + 1)
    BY <1>1, <1>5 DEF Operation
  <2> QED
    BY <1>5, <2>1, ProbingKeeps
<1>6. CASE ops[n + 1].op = "remove_module"
  <2>1. Operation(st, n + 1) = RemoveModule(st, n + 1)
    BY <1>1, <1>6 DEF Operation
  <2> QED
    BY <1>6, <2>1, RemovingKeeps
<1>7. CASE ops[n + 1].op = "replace_context_value"
  <2>1. Operation(st, n + 1) = ReplaceContextValue(st, n + 1)
    BY <1>1, <1>7 DEF Operation
  <2> QED
    BY <1>7, <2>1, GivingKeeps, WorkedMore
<1>8. CASE ops[n + 1].op = "replace_edge"
  <2>1. Operation(st, n + 1) = ReplaceEdge(st, o)
    BY <1>1, <1>8 DEF Operation
  <2> QED
    BY <1>8, <2>1, RewiringKeeps
<1>9. CASE ops[n + 1].op \notin {"set_module_config_key", "replace_module_config", "insert_module",
                                 "add_arcade_ref", "add_probe", "remove_module",
                                 "replace_context_value", "replace_edge"}
  <2>1. Operation(st, n + 1) = Annotate(st, o)
    BY <1>1, <1>9 DEF Operation
  <2>2. Worked(bp, ops, n, Annotate(st, o))
    BY AnnotatingKeeps
  <2> QED
    BY <2>1, <2>2, WorkedMore
<1> QED
  BY <1>2, <1>3, <1>4, <1>5, <1>6, <1>7, <1>8, <1>9

\* All operations of a patch, one after the other.
OpsStep(c, st, i) == IF st.ok THEN Operation(st, i) ELSE st
OpsHold(c, k, st) == Worked(c[1], c[2], k, st)
OpsFold == INSTANCE FoldInduction WITH step <- OpsStep, Holds <- OpsHold

LEMMA OperationsFold ==
    ASSUME NEW bp, NEW ops, NEW c
    PROVE  OperationsInOrder(bp, ops) =
               OpsFold!Folded(c, [bp |-> bp, ops |-> ops, ok |-> TRUE], [i \in DOMAIN ops |-> i])
  BY Zenon DEF OperationsInOrder, OpsStep, OpsFold!Folded, OpsFold!FoldLeft, FoldLeft,
     OpsFold!MapThenFoldSet, MapThenFoldSet, OpsFold!Max, Max

LEMMA OperationsKeep ==
    ASSUME NEW bp, NEW ops, IsBlueprint(bp), IsPatch(ops)
    PROVE  Worked(bp, ops, Len(ops), OperationsInOrder(bp, ops))
<1> DEFINE c == <<bp, ops>>
           seq == [i \in DOMAIN ops |-> i]
<1>1. Len(ops) \in Nat /\ DOMAIN ops = 1..Len(ops)
  BY DEF IsPatch
<1>2. DOMAIN seq = 1..Len(ops) /\ \A i \in DOMAIN ops : seq[i] = i
  BY <1>1
<1>3. \A k, st : OpsHold(c, k, st) <=> Worked(bp, ops, k, st)
  BY DEF OpsHold
<1> HIDE DEF c, seq
<1>4. PICK base : base = [bp |-> bp, ops |-> ops, ok |-> TRUE]
  OBVIOUS
<1>5. OpsHold(c, 0, base)
  BY <1>3, <1>4, WorkStarts
<1>6. ASSUME NEW k \in 0..(Len(ops) - 1), NEW st, OpsHold(c, k, st)
      PROVE  OpsHold(c, k + 1, OpsStep(c, st, seq[k + 1]))
  <2>1. k \in Nat /\ k + 1 \in DOMAIN ops /\ seq[k + 1] = k + 1
    BY <1>1, <1>2
  <2>2. Worked(bp, ops, k, st)
    BY <1>3, <1>6
  <2>3. Worked(bp, ops, k + 1, Operation(st, k + 1)) /\ Worked(bp, ops, k + 1, st)
    BY <2>1, <2>2, OperationKeeps, WorkedMore
  <2> QED
    BY <1>3, <2>1, <2>3 DEF OpsStep
<1>7. OpsHold(c, Len(ops), OpsFold!Folded(c, base, seq))
  BY <1>1, <1>2, <1>5, <1>6, OpsFold!FoldLeftInduction
<1>8. OperationsInOrder(bp, ops) = OpsFold!Folded(c, base, seq)
  BY <1>4, OperationsFold DEF seq
<1> QED
  BY <1>3, <1>7, <1>8

\* What a patch as a whole leaves: a blueprint, the same PatchSpec unless it changes
\* itself, and no path that was not in either.
LEMMA ApplyingKeeps ==
    ASSUME NEW bp, NEW ops, IsBlueprint(bp), IsPatch(ops)
    PROVE  /\ IsBlueprint(ApplyPatch(bp, ops).bp)
           /\ PathsOf(ApplyPatch(bp, ops).bp) \subseteq PathsOf(bp) \cup PathsOfPatch(ops)
           /\ OpsFit(ops, ApplyPatch(bp, ops).ops)
<1>1. PICK done : done = OperationsInOrder(bp, ops)
  OBVIOUS
<1>2. Worked(bp, ops, Len(ops), done)
  BY <1>1, OperationsKeep
<1> DEFINE es == done.bp.edges
           rest == [k \in DOMAIN es |-> [es[k] EXCEPT !.origin = InFile]]
           kept == [modules |-> done.bp.modules, edges |-> rest, context |-> done.bp.context,
                    saves |-> bp.saves]
<1>3. /\ ApplyPatch(bp, ops).bp = kept /\ ApplyPatch(bp, ops).ops = done.ops
  BY <1>1 DEF ApplyPatch
<1>4. rest \in Seq(Range(rest))
      /\ \A e \in Range(rest) :
            e = [from |-> e.from, to |-> e.to, port |-> e.port, origin |-> InFile]
  <2>1. es \in Seq(Range(es)) /\ DOMAIN es = 1..Len(es) /\ Len(es) \in Nat
    BY <1>2 DEF Worked, EdgesFit
  <2>2. ASSUME NEW k \in DOMAIN es
        PROVE  rest[k] = [from |-> es[k].from, to |-> es[k].to, port |-> es[k].port,
                          origin |-> InFile]
    <3>1. es[k] \in Range(es)
      BY DEF Range
    <3>2. PICK e : e = es[k]
      OBVIOUS
    <3>3. e = [from |-> e.from, to |-> e.to, port |-> e.port, origin |-> e.origin]
      BY <1>2, <3>1, <3>2 DEF Worked, EdgesFit
    <3>4. [e EXCEPT !.origin = InFile] =
              [from |-> e.from, to |-> e.to, port |-> e.port, origin |-> InFile]
      BY <3>3
    <3> QED
      BY <3>2, <3>4
  <2>3. DOMAIN rest = 1..Len(es)
    BY <2>1
  <2>4. \A e \in Range(rest) :
            e = [from |-> e.from, to |-> e.to, port |-> e.port, origin |-> InFile]
    <3> HIDE DEF rest, es
    <3>1. DOMAIN rest = DOMAIN es
      BY <2>1, <2>3
    <3>2. ASSUME NEW k \in DOMAIN es
          PROVE  rest[k] = [from |-> rest[k].from, to |-> rest[k].to,
                            port |-> rest[k].port, origin |-> InFile]
      <4>1. PICK x, e : x = rest[k] /\ e = es[k]
        OBVIOUS
      <4>2. x = [from |-> e.from, to |-> e.to, port |-> e.port, origin |-> InFile]
        BY <2>2, <4>1
      <4>3. x = [from |-> x.from, to |-> x.to, port |-> x.port, origin |-> InFile]
        BY <4>2
      <4> QED
        BY <4>1, <4>3
    <3> QED
      BY <3>1, <3>2 DEF Range
  <2> HIDE DEF rest
  <2>5. \A k \in 1..Len(es) : rest[k] \in Range(rest)
    BY <2>3 DEF Range
  <2>6. rest = [k \in 1..Len(es) |-> rest[k]]
    BY <2>3 DEF rest
  <2>7. rest \in Seq(Range(rest))
    BY <2>1, <2>5, <2>6
  <2> QED
    BY <2>4, <2>7
<1>5. done.bp.modules \in Seq(Range(done.bp.modules))
      /\ \A m \in Range(done.bp.modules) :
            IsModule(m) /\ m.path \in PathsOf(bp) \cup PathsOfPatch(ops)
  BY <1>2 DEF Worked, ModulesFit
<1> HIDE DEF rest
<1>6. /\ kept = [modules |-> kept.modules, edges |-> kept.edges, context |-> kept.context,
                 saves |-> kept.saves]
      /\ kept.modules = done.bp.modules /\ kept.edges = rest
  OBVIOUS
<1> HIDE DEF kept
<1>7. IsBlueprint(kept)
  BY <1>4, <1>5, <1>6 DEF IsBlueprint
<1>8. PathsOf(kept) \subseteq PathsOf(bp) \cup PathsOfPatch(ops)
  BY <1>5, <1>6 DEF PathsOf
<1>9. OpsFit(ops, done.ops)
  BY <1>2 DEF Worked
<1> QED
  BY <1>3, <1>7, <1>8, <1>9

\* A PatchSpec that an application has left behind is one that passes the schema
\* and the guardrails where it did before.
LEMMA SpecStaysPatch ==
    ASSUME NEW ops, NEW now, IsPatch(ops), OpsFit(ops, now)
    PROVE  IsPatch(now) /\ (Guarded(ops) => Guarded(now)) /\ PathsOfPatch(now) = PathsOfPatch(ops)
<1>1. now \in Seq(Range(now)) /\ DOMAIN now = DOMAIN ops
  BY DEF OpsFit
<1>2. ASSUME NEW i \in DOMAIN now
      PROVE  /\ now[i].op \in WritesModule =>
                    {"op", "module", "add"} \subseteq DOMAIN now[i] /\ IsModule(now[i].module)
             /\ now[i].op \in WritesModule \ {"add_probe"} =>
                    "remove" \in DOMAIN now[i] /\ now[i].remove \in Seq(Range(now[i].remove))
             /\ now[i].op = "remove_module" => {"op", "add"} \subseteq DOMAIN now[i]
             /\ now[i].op = "replace_context_value" =>
                    {"op", "whole", "value"} \subseteq DOMAIN now[i]
             /\ now[i].op \in WritesModule \cup {"remove_module"} =>
                    /\ now[i].add \in Seq(Range(now[i].add))
                    /\ \A e \in Range(now[i].add) :
                          e = [from |-> e.from, to |-> e.to, port |-> e.port]
  BY <1>1, SpecNow DEF Adders, IsEdge
<1>3. IsPatch(now)
  BY <1>1, <1>2 DEF IsPatch
<1>4. \A i \in DOMAIN ops : now[i].op = ops[i].op /\ PathWritten(now[i]) = PathWritten(ops[i])
  BY SpecNow
<1>5. Guarded(ops) => Guarded(now)
  BY <1>1, <1>4 DEF Guarded
<1>6. PathsOfPatch(now) = PathsOfPatch(ops)
  BY <1>1, <1>4 DEF PathsOfPatch
<1> QED
  BY <1>3, <1>5, <1>6

-----------------------------------------------------------------------------
(* PatchGates: what a run writes is what was judged, and whose it is.      *)

PerWriter ==
    /\ at = [w \in Writers |-> at[w]] /\ patch = [w \in Writers |-> patch[w]]
    /\ judged = [w \in Writers |-> judged[w]] /\ ran = [w \in Writers |-> ran[w]]
    /\ result = [w \in Writers |-> result[w]] /\ put = [w \in Writers |-> put[w]]

\* What is remembered as before and after a patch.
IsOutcome(o, ops) == o.after = ApplyPatch(o.before, ops).bp

\* What a run has seen of its patch is what the patch would do there again.
Remembers(r) ==
    ~ChangesItself(patch[r]) =>
        /\ at[r] \in {"judged", "ran"} => IsOutcome(judged[r], patch[r])
        /\ at[r] \in {"ran", "loaded"} =>
              IsOutcome(ran[r], patch[r]) /\ ApplyPatch(ran[r].before, patch[r]).ok
        /\ at[r] = "loaded" => IsOutcome(result[r], patch[r])

\* Who could have had its content put in place: it was dumped.
PutWasDumped ==
    \A q \in Runs : at[q] = "written" =>
        put[q] \in Runs /\ at[put[q]] \in {"dumped", "failed", "killed", "written"}

\* No content is put in place twice, and what waits under the temporary name was
\* not put in place yet.
PutOnce ==
    /\ \A q, r \in Runs : (q # r /\ at[q] = "written" /\ at[r] = "written") => put[q] # put[r]
    /\ tmp # NoFile =>
          /\ tmp \in Runs /\ at[tmp] \in {"dumped", "killed"}
          /\ \A q \in Runs : at[q] = "written" => put[q] # tmp

WritingInv == PerWriter /\ (\A r \in Runs : Remembers(r)) /\ PutWasDumped /\ PutOnce

\* A step that is not about r leaves r's memory alone.
LEMMA NotHis ==
    ASSUME NEW r, Remembers(r), at'[r] = at[r], patch'[r] = patch[r], judged'[r] = judged[r],
           ran'[r] = ran[r], result'[r] = result[r]
    PROVE  Remembers(r)'
  BY DEF Remembers, IsOutcome

\* Where no result is replaced or dumped: who has what in place stays.
LEMMA PlacesStay ==
    ASSUME WritingInv, NEW w \in Writers, NEW to, at' = [at EXCEPT ![w] = to], to # "written",
           at[w] # "written", tmp' = tmp, put' = put,
           at[w] \in {"dumped", "failed", "killed"} => to \in {"failed", "killed"},
           at[w] \in {"dumped", "killed"} => to = "killed" \/ tmp # w \/ tmp = NoFile
    PROVE  PutWasDumped' /\ PutOnce'
<1>1. at = [v \in Writers |-> at[v]] /\ Runs \subseteq Writers
  BY DEF WritingInv, PerWriter, Writers
<1>2. \A q \in Runs : at'[q] = IF q = w THEN to ELSE at[q]
  BY <1>1
<1>3. PutWasDumped'
  BY <1>2 DEF WritingInv, PutWasDumped
<1>4. PutOnce'
  BY <1>2 DEF WritingInv, PutOnce
<1> QED
  BY <1>3, <1>4

\* Under SpecsKept a patch that does not change itself is the same afterwards.
LEMMA SpecStays ==
    ASSUME SpecsKept, PerWriter, NEW w \in Writers, KeepsSpec(w)
    PROVE  /\ patch' = [v \in Writers |-> patch'[v]]
           /\ \A v \in Writers \ {w} : patch'[v] = patch[v]
           /\ ~ChangesItself(patch'[w]) => patch'[w] = patch[w]
<1>1. patch'[w] = Applied(w).ops /\ \A v \in Writers \ {w} : patch'[v] = patch[v]
  BY DEF PerWriter, KeepsSpec
<1>2. patch' = [v \in Writers |-> patch'[v]]
  BY DEF PerWriter, KeepsSpec
<1>3. ~ChangesItself(patch'[w]) => patch'[w] = patch[w]
  BY <1>1 DEF SpecsKept
<1> QED
  BY <1>1, <1>2, <1>3

\* A step of one writer that replaces nothing and dumps nothing.
LEMMA WriterStep ==
    ASSUME WritingInv, NEW w \in Writers, NEW to, at' = [at EXCEPT ![w] = to], to # "written",
           at[w] # "written", tmp' = tmp, put' = put,
           at[w] \in {"dumped", "failed", "killed"} => to \in {"failed", "killed"},
           at[w] \in {"dumped", "killed"} => to = "killed" \/ tmp # w \/ tmp = NoFile,
           patch' = [v \in Writers |-> patch'[v]], judged' = [v \in Writers |-> judged'[v]],
           ran' = [v \in Writers |-> ran'[v]], result' = [v \in Writers |-> result'[v]],
           \A v \in Writers \ {w} : /\ patch'[v] = patch[v] /\ judged'[v] = judged[v]
                                    /\ ran'[v] = ran[v] /\ result'[v] = result[v],
           Remembers(w)'
    PROVE  WritingInv'
<1>1. PerWriter /\ Runs \subseteq Writers
  BY DEF WritingInv, Writers
<1>2. PerWriter'
  BY <1>1 DEF PerWriter
<1>3. ASSUME NEW q \in Runs PROVE Remembers(q)'
  <2>1. CASE q = w
    BY <2>1
  <2>2. CASE q # w
    <3>1. at'[q] = at[q] /\ q \in Writers \ {w}
      BY <1>1, <2>2 DEF PerWriter
    <3> QED
      BY <3>1, NotHis DEF WritingInv
  <2> QED
    BY <2>1, <2>2
<1>4. PutWasDumped' /\ PutOnce'
  BY PlacesStay
<1> QED
  BY <1>2, <1>3, <1>4 DEF WritingInv

\* The steps that apply the patch: what they remember of it is an outcome of the
\* patch as it was, which is what it is afterwards.
LEMMA KeepingStep ==
    ASSUME WritingInv, SpecsKept, NEW w \in Writers, NEW to,
           at' = [at EXCEPT ![w] = to], KeepsSpec(w), tmp' = tmp, put' = put,
           at[w] \in {"start", "checked", "judged", "ran"}, to # "written",
           judged' = [v \in Writers |-> judged'[v]], ran' = [v \in Writers |-> ran'[v]],
           result' = [v \in Writers |-> result'[v]],
           \A v \in Writers \ {w} : /\ judged'[v] = judged[v] /\ ran'[v] = ran[v]
                                    /\ result'[v] = result[v],
           ~ChangesItself(patch[w]) =>
               /\ to \in {"judged", "ran"} => IsOutcome(judged'[w], patch[w])
               /\ to \in {"ran", "loaded"} =>
                     IsOutcome(ran'[w], patch[w]) /\ ApplyPatch(ran'[w].before, patch[w]).ok
               /\ to = "loaded" => IsOutcome(result'[w], patch[w])
    PROVE  WritingInv'
<1>1. PerWriter
  BY DEF WritingInv
<1>2. /\ patch' = [v \in Writers |-> patch'[v]]
      /\ \A v \in Writers \ {w} : patch'[v] = patch[v]
      /\ ~ChangesItself(patch'[w]) => patch'[w] = patch[w]
  BY <1>1, SpecStays
<1>3. at'[w] = to
  BY <1>1 DEF PerWriter
<1>4. Remembers(w)'
  BY <1>2, <1>3 DEF Remembers, IsOutcome
<1> QED
  BY <1>2, <1>4, WriterStep

\* The steps that only leave: the patch and the result stay, and there is nothing
\* left to remember.
LEMMA LeavingStep ==
    ASSUME WritingInv, NEW w \in Writers, NEW to, at' = [at EXCEPT ![w] = to],
           to \notin {"judged", "ran", "loaded", "written"}, at[w] # "written",
           tmp' = tmp, put' = put, patch' = patch, result' = result,
           Forgets(w) \/ (judged' = judged /\ ran' = ran),
           at[w] \in {"dumped", "failed", "killed"} => to \in {"failed", "killed"},
           at[w] \in {"dumped", "killed"} => to = "killed" \/ tmp # w \/ tmp = NoFile
    PROVE  WritingInv'
<1>1. PerWriter
  BY DEF WritingInv
<1>2. at'[w] = to
  BY <1>1 DEF PerWriter
<1>3. Remembers(w)'
  BY <1>2 DEF Remembers
<1>4. /\ judged' = [v \in Writers |-> judged'[v]] /\ ran' = [v \in Writers |-> ran'[v]]
      /\ \A v \in Writers \ {w} : judged'[v] = judged[v] /\ ran'[v] = ran[v]
  BY <1>1 DEF PerWriter, Forgets
<1>5. patch' = [v \in Writers |-> patch'[v]] /\ result' = [v \in Writers |-> result'[v]]
  BY <1>1 DEF PerWriter
<1> QED
  BY <1>3, <1>4, <1>5, WriterStep

LEMMA DumpsKeeps == ASSUME WritingInv, NEW r \in Runs, Dumps(r) PROVE WritingInv'
<1>1. PerWriter /\ Runs \subseteq Writers
  BY DEF WritingInv, Writers
<1>2. /\ at[r] = "backed_up" /\ at' = [at EXCEPT ![r] = "dumped"] /\ tmp' = r /\ put' = put
      /\ patch' = patch /\ judged' = judged /\ ran' = ran /\ result' = result
  BY DEF Dumps, Goes
<1>3. \A q \in Runs : at'[q] = IF q = r THEN "dumped" ELSE at[q]
  BY <1>1, <1>2 DEF PerWriter
<1>4. PerWriter'
  BY <1>1, <1>2 DEF PerWriter
<1>5. \A q \in Runs : Remembers(q)'
  BY <1>2, <1>3 DEF WritingInv, Remembers, IsOutcome
<1>6. PutWasDumped'
  BY <1>2, <1>3 DEF WritingInv, PutWasDumped
<1>7. PutOnce'
  BY <1>2, <1>3 DEF WritingInv, PutOnce, PutWasDumped
<1> QED
  BY <1>4, <1>5, <1>6, <1>7 DEF WritingInv

\* The run whose result is put in place had dumped it, and nobody else puts it there.
LEMMA ReplacesKeeps == ASSUME WritingInv, NEW r \in Runs, Replaces(r) PROVE WritingInv'
<1>1. PerWriter /\ Runs \subseteq Writers
  BY DEF WritingInv, Writers
<1>2. /\ at[r] = "dumped" /\ at' = [at EXCEPT ![r] = "written"] /\ tmp # NoFile /\ tmp' = NoFile
      /\ put' = [put EXCEPT ![r] = tmp]
      /\ patch' = patch /\ judged' = judged /\ ran' = ran /\ result' = result
  BY DEF Replaces, Goes
<1>3. \A q \in Runs : /\ at'[q] = IF q = r THEN "written" ELSE at[q]
                      /\ put'[q] = IF q = r THEN tmp ELSE put[q]
  BY <1>1, <1>2 DEF PerWriter
<1>4. PerWriter'
  BY <1>1, <1>2 DEF PerWriter
<1>5. \A q \in Runs : Remembers(q)'
  BY <1>2, <1>3 DEF WritingInv, Remembers, IsOutcome
<1>6. tmp \in Runs /\ at[tmp] \in {"dumped", "killed"}
  BY <1>2 DEF WritingInv, PutOnce
<1>7. PutWasDumped'
  BY <1>2, <1>3, <1>6 DEF WritingInv, PutWasDumped
<1>8. PutOnce'
  BY <1>2, <1>3, <1>6 DEF WritingInv, PutOnce
<1> QED
  BY <1>4, <1>5, <1>7, <1>8 DEF WritingInv

\* An outcome seen now.
LEMMA OutcomeNow == \A w : IsOutcome(Outcome(w), patch[w]) /\ Outcome(w).before = file
  BY DEF IsOutcome, Outcome, Applied

LEMMA WritingStarts == GatesInit => WritingInv
<1> SUFFICES ASSUME GatesInit PROVE WritingInv
  OBVIOUS
<1>1. /\ at = [w \in Writers |-> "start"] /\ tmp = NoFile
      /\ judged = [w \in Writers |-> NoFile] /\ ran = [w \in Writers |-> NoFile]
      /\ result = [w \in Writers |-> NoFile] /\ put = [w \in Writers |-> NoFile]
  BY DEF GatesInit
<1>2. patch = [w \in Writers |-> patch[w]]
  BY GatesAssumption DEF GatesInit
<1>3. \A r \in Runs : at[r] = "start"
  BY <1>1 DEF Writers
<1>4. PerWriter
  BY <1>1, <1>2 DEF PerWriter
<1> QED
  BY <1>1, <1>3, <1>4 DEF WritingInv, Remembers, PutWasDumped, PutOnce

LEMMA WritingStep ==
    ASSUME WritingInv, SpecsKept, [GatesNext]_gatesVars
    PROVE  WritingInv'
<1>a. PerWriter /\ Runs \subseteq Writers /\ Reviewers \subseteq Writers /\ Runs \cap Reviewers = {}
  BY GatesAssumption DEF WritingInv, Writers
<1>1. ASSUME NEW r \in Runs, CallbackAccepts(r) PROVE WritingInv'
  <2>1. /\ at[r] = "start" /\ at' = [at EXCEPT ![r] = "checked"] /\ KeepsSpec(r)
        /\ tmp' = tmp /\ put' = put
    BY <1>1 DEF CallbackAccepts, Goes
  <2>2. /\ judged' = [v \in Writers |-> judged'[v]] /\ ran' = [v \in Writers |-> ran'[v]]
        /\ result' = [v \in Writers |-> result'[v]]
        /\ \A v \in Writers \ {r} : /\ judged'[v] = judged[v] /\ ran'[v] = ran[v]
                                      /\ result'[v] = result[v]
    BY <1>a, <1>1 DEF CallbackAccepts, PerWriter
  <2> QED
    BY <1>a, <2>1, <2>2, KeepingStep
<1>2. ASSUME NEW r \in Runs, CallbackRejects(r) PROVE WritingInv'
  <2>1. /\ at[r] = "start" /\ at' = [at EXCEPT ![r] = "refused"] /\ KeepsSpec(r)
        /\ tmp' = tmp /\ put' = put
    BY <1>2 DEF CallbackRejects, Goes
  <2>2. /\ judged' = [v \in Writers |-> judged'[v]] /\ ran' = [v \in Writers |-> ran'[v]]
        /\ result' = [v \in Writers |-> result'[v]]
        /\ \A v \in Writers \ {r} : /\ judged'[v] = judged[v] /\ ran'[v] = ran[v]
                                      /\ result'[v] = result[v]
    BY <1>a, <1>2 DEF CallbackRejects, Forgets, PerWriter
  <2> QED
    BY <1>a, <2>1, <2>2, KeepingStep
<1>3. ASSUME NEW r \in Runs, GatesPass(r) PROVE WritingInv'
  <2>1. /\ at[r] = "checked" /\ at' = [at EXCEPT ![r] = "judged"] /\ KeepsSpec(r)
        /\ tmp' = tmp /\ put' = put
    BY <1>3 DEF GatesPass, Goes
  <2>2. /\ judged' = [v \in Writers |-> judged'[v]] /\ ran' = [v \in Writers |-> ran'[v]]
        /\ result' = [v \in Writers |-> result'[v]]
        /\ \A v \in Writers \ {r} : /\ judged'[v] = judged[v] /\ ran'[v] = ran[v]
                                      /\ result'[v] = result[v]
    BY <1>a, <1>3 DEF GatesPass, PerWriter
  <2>3. IsOutcome(judged'[r], patch[r])
    BY <1>a, <1>3, OutcomeNow DEF GatesPass, PerWriter
  <2> QED
    BY <1>a, <2>1, <2>2, <2>3, KeepingStep
<1>4. ASSUME NEW r \in Runs, GatesFail(r) PROVE WritingInv'
  <2>1. /\ at[r] = "checked" /\ at' = [at EXCEPT ![r] = "refused"] /\ KeepsSpec(r)
        /\ tmp' = tmp /\ put' = put
    BY <1>4 DEF GatesFail, Goes
  <2>2. /\ judged' = [v \in Writers |-> judged'[v]] /\ ran' = [v \in Writers |-> ran'[v]]
        /\ result' = [v \in Writers |-> result'[v]]
        /\ \A v \in Writers \ {r} : /\ judged'[v] = judged[v] /\ ran'[v] = ran[v]
                                      /\ result'[v] = result[v]
    BY <1>a, <1>4 DEF GatesFail, Forgets, PerWriter
  <2> QED
    BY <1>a, <2>1, <2>2, KeepingStep
<1>5. ASSUME NEW r \in Runs, RunsPatched(r) PROVE WritingInv'
  <2>1. /\ at[r] = "judged" /\ at' = [at EXCEPT ![r] = "ran"] /\ KeepsSpec(r)
        /\ tmp' = tmp /\ put' = put
    BY <1>5 DEF RunsPatched, Goes
  <2>2. /\ judged' = [v \in Writers |-> judged'[v]] /\ ran' = [v \in Writers |-> ran'[v]]
        /\ result' = [v \in Writers |-> result'[v]]
        /\ \A v \in Writers \ {r} : /\ judged'[v] = judged[v] /\ ran'[v] = ran[v]
                                      /\ result'[v] = result[v]
    BY <1>a, <1>5 DEF RunsPatched, PerWriter
  <2>3. IsOutcome(ran'[r], patch[r]) /\ ApplyPatch(ran'[r].before, patch[r]).ok
    BY <1>a, <1>5, OutcomeNow DEF RunsPatched, Applied, PerWriter
  <2>4. ~ChangesItself(patch[r]) => IsOutcome(judged'[r], patch[r])
    BY <1>5, <2>1 DEF RunsPatched, WritingInv, Remembers
  <2> QED
    BY <1>a, <2>1, <2>2, <2>3, <2>4, KeepingStep
<1>6. ASSUME NEW r \in Runs, RunFails(r) PROVE WritingInv'
  <2>1. /\ at[r] = "judged" /\ at' = [at EXCEPT ![r] = "refused"] /\ KeepsSpec(r)
        /\ tmp' = tmp /\ put' = put
    BY <1>6 DEF RunFails, Goes
  <2>2. /\ judged' = [v \in Writers |-> judged'[v]] /\ ran' = [v \in Writers |-> ran'[v]]
        /\ result' = [v \in Writers |-> result'[v]]
        /\ \A v \in Writers \ {r} : /\ judged'[v] = judged[v] /\ ran'[v] = ran[v]
                                      /\ result'[v] = result[v]
    BY <1>a, <1>6 DEF RunFails, Forgets, PerWriter
  <2> QED
    BY <1>a, <2>1, <2>2, KeepingStep
<1>7. ASSUME NEW r \in Runs, Loads(r) PROVE WritingInv'
  <2>1. /\ at[r] = "ran" /\ at' = [at EXCEPT ![r] = "loaded"] /\ KeepsSpec(r)
        /\ tmp' = tmp /\ put' = put
    BY <1>7 DEF Loads, Goes
  <2>2. /\ judged' = [v \in Writers |-> judged'[v]] /\ ran' = [v \in Writers |-> ran'[v]]
        /\ result' = [v \in Writers |-> result'[v]]
        /\ \A v \in Writers \ {r} : /\ judged'[v] = judged[v] /\ ran'[v] = ran[v]
                                      /\ result'[v] = result[v]
    BY <1>a, <1>7 DEF Loads, PerWriter
  <2>3. IsOutcome(result'[r], patch[r])
    BY <1>a, <1>7, OutcomeNow DEF Loads, PerWriter
  <2>4. ~ChangesItself(patch[r]) =>
            IsOutcome(ran'[r], patch[r]) /\ ApplyPatch(ran'[r].before, patch[r]).ok
    BY <1>7, <2>1 DEF Loads, WritingInv, Remembers
  <2> QED
    BY <1>a, <2>1, <2>2, <2>3, <2>4, KeepingStep
<1>8. ASSUME NEW r \in Runs, LoadFails(r) PROVE WritingInv'
  <2>1. /\ at[r] = "ran" /\ at' = [at EXCEPT ![r] = "failed"] /\ KeepsSpec(r)
        /\ tmp' = tmp /\ put' = put
    BY <1>8 DEF LoadFails, Goes
  <2>2. /\ judged' = [v \in Writers |-> judged'[v]] /\ ran' = [v \in Writers |-> ran'[v]]
        /\ result' = [v \in Writers |-> result'[v]]
        /\ \A v \in Writers \ {r} : /\ judged'[v] = judged[v] /\ ran'[v] = ran[v]
                                      /\ result'[v] = result[v]
    BY <1>a, <1>8 DEF LoadFails, Forgets, PerWriter
  <2> QED
    BY <1>a, <2>1, <2>2, KeepingStep
<1>9. ASSUME NEW r \in Runs, BacksUp(r) PROVE WritingInv'
  <2>1. /\ at[r] = "loaded" /\ at' = [at EXCEPT ![r] = "backed_up"]
        /\ tmp' = tmp /\ put' = put /\ patch' = patch /\ result' = result
        /\ Forgets(r) \/ (judged' = judged /\ ran' = ran)
    BY <1>9 DEF BacksUp, Goes
  <2> QED
    BY <1>a, <2>1, LeavingStep
<1>10. ASSUME NEW r \in Runs, ReplaceFails(r) PROVE WritingInv'
  <2>1. /\ at[r] = "dumped" /\ at' = [at EXCEPT ![r] = "failed"] /\ tmp = NoFile
        /\ tmp' = tmp /\ put' = put /\ patch' = patch /\ result' = result
        /\ Forgets(r) \/ (judged' = judged /\ ran' = ran)
    BY <1>10 DEF ReplaceFails, Goes
  <2> QED
    BY <1>a, <2>1, LeavingStep
<1>11. ASSUME NEW r \in Runs, Killed(r) PROVE WritingInv'
  <2>1. /\ at[r] \notin {"failed", "written"} /\ at' = [at EXCEPT ![r] = "killed"]
        /\ tmp' = tmp /\ put' = put /\ patch' = patch /\ result' = result
        /\ Forgets(r) \/ (judged' = judged /\ ran' = ran)
    BY <1>11 DEF Killed
  <2> QED
    BY <1>a, <2>1, LeavingStep
<1>12. ASSUME NEW p \in Reviewers, Verifies(p) PROVE WritingInv'
  <2>1. /\ at[p] = "start" /\ at' = [at EXCEPT ![p] = "verified"] /\ KeepsSpec(p)
        /\ tmp' = tmp /\ put' = put /\ judged' = judged /\ ran' = ran
        /\ result' = [result EXCEPT ![p] = Outcome(p)]
    BY <1>12 DEF Verifies, Goes
  <2>2. /\ judged' = [v \in Writers |-> judged'[v]] /\ ran' = [v \in Writers |-> ran'[v]]
        /\ result' = [v \in Writers |-> result'[v]]
        /\ \A v \in Writers \ {p} : /\ judged'[v] = judged[v] /\ ran'[v] = ran[v]
                                      /\ result'[v] = result[v]
    BY <1>a, <2>1 DEF PerWriter
  <2> QED
    BY <1>a, <2>1, <2>2, KeepingStep
<1>13. ASSUME NEW p \in Reviewers, Refuses(p) PROVE WritingInv'
  <2>1. /\ at[p] = "start" /\ at' = [at EXCEPT ![p] = "refused"]
        /\ tmp' = tmp /\ put' = put /\ patch' = patch /\ result' = result
        /\ judged' = judged /\ ran' = ran
    BY <1>13 DEF Refuses, Goes
  <2> QED
    BY <1>a, <2>1, LeavingStep
<1>14. ASSUME NEW p \in Reviewers, Installs(p) PROVE WritingInv'
  <2>1. /\ at' = [at EXCEPT ![p] = "written"] /\ put' = [put EXCEPT ![p] = p]
        /\ tmp' = tmp /\ patch' = patch /\ judged' = judged /\ ran' = ran /\ result' = result
    BY <1>14 DEF Installs, Goes
  <2>2. PerWriter' /\ \A q \in Runs : at'[q] = at[q] /\ put'[q] = put[q]
    BY <1>a, <2>1 DEF PerWriter
  <2>3. \A q \in Runs : Remembers(q)'
    BY <2>1, <2>2 DEF WritingInv, Remembers, IsOutcome
  <2>4. PutWasDumped' /\ PutOnce'
    BY <2>1, <2>2 DEF WritingInv, PutWasDumped, PutOnce
  <2> QED
    BY <2>2, <2>3, <2>4 DEF WritingInv
<1>15. ASSUME NEW content, Saves(content) PROVE WritingInv'
  BY <1>15 DEF Saves, WritingInv, PerWriter, Remembers, IsOutcome, PutWasDumped, PutOnce
<1>16. ASSUME NEW id \in Removable, HumanRemoves(id) PROVE WritingInv'
  BY <1>15, <1>16 DEF HumanRemoves
<1>17. ASSUME UNCHANGED gatesVars PROVE WritingInv'
  BY <1>17 DEF gatesVars, WritingInv, PerWriter, Remembers, IsOutcome, PutWasDumped, PutOnce
<1> QED
  BY <1>1, <1>2, <1>3, <1>4, <1>5, <1>6, <1>7, <1>8, <1>9, <1>10, <1>11, <1>12, <1>13,
     <1>14, <1>15, <1>16, <1>17, DumpsKeeps, ReplacesKeeps
  DEF GatesNext, Healing, HumanEdits

-----------------------------------------------------------------------------
(* PatchGates: what is in the file, and on its way there.                  *)

\* Paths that were there at first or that the guardrails let pass.
Legal == Allowed \cup {NoPath} \cup PathsOf(Original)

Fit(bp) == IsBlueprint(bp) /\ PathsOf(bp) \subseteq Legal

\* Nobody wrote back to other content than he ran, and no run's patch changes
\* by being applied.
Steady == stale = {} /\ \A r \in Runs : ~ChangesItself(patch[r])

\* Content that somebody means to write.
InFlight == {"loaded", "backed_up", "dumped", "verified"}

SpecsFit ==
    \A w \in Writers :
        /\ IsPatch(patch[w])
        /\ at[w] \in {"checked", "judged", "ran"} => Guarded(patch[w])

ContentsFit ==
    /\ Fit(file)
    /\ \A w \in Writers : at[w] \in InFlight => Fit(result[w].after)
    /\ tmp # NoFile => Fit(result[tmp].after)

ContentsParse ==
    Steady =>
        /\ Parses(file)
        /\ \A w \in Writers :
              /\ at[w] = "ran" => Parses(ran[w].after)
              /\ at[w] \in InFlight => Parses(result[w].after)
        /\ tmp # NoFile => Parses(result[tmp].after)

ContentsInv == WritingInv /\ SpecsFit /\ ContentsFit /\ ContentsParse

LEMMA SpecsKeptNow == ASSUME SpecsFit, ContentsFit PROVE SpecsKept
<1> SUFFICES ASSUME NEW w \in Writers
             PROVE  IF ChangesItself(patch[w]) THEN ChangesItself(Applied(w).ops)
                    ELSE Applied(w).ops = patch[w]
  BY DEF SpecsKept
<1>1. PICK bp, ops : bp = file /\ ops = patch[w]
  OBVIOUS
<1>2. IsBlueprint(bp) /\ IsPatch(ops)
  BY <1>1 DEF SpecsFit, ContentsFit, Fit
<1>3. OpsFit(ops, ApplyPatch(bp, ops).ops)
  BY <1>2, ApplyingKeeps
<1> QED
  BY <1>1, <1>3 DEF OpsFit, Applied

\* What applying leaves of everybody's PatchSpec.
LEMMA SpecsAfter ==
    ASSUME ContentsInv, NEW w \in Writers, KeepsSpec(w)
    PROVE  \A v \in Writers : /\ IsPatch(patch'[v])
                              /\ Guarded(patch[v]) => Guarded(patch'[v])
                              /\ ChangesItself(patch'[v]) <=> ChangesItself(patch[v])
<1>1. PICK bp, ops, now : bp = file /\ ops = patch[w] /\ now = Applied(w).ops
  OBVIOUS
<1>2. IsBlueprint(bp) /\ IsPatch(ops) /\ now = ApplyPatch(bp, ops).ops
  BY <1>1 DEF ContentsInv, SpecsFit, ContentsFit, Fit, Applied
<1>3. OpsFit(ops, now)
  BY <1>2, ApplyingKeeps
<1>4. IsPatch(now) /\ (Guarded(ops) => Guarded(now))
  BY <1>2, <1>3, SpecStaysPatch
<1>5. ChangesItself(now) <=> ChangesItself(ops)
  BY <1>3 DEF OpsFit
<1>6. patch'[w] = now /\ \A v \in Writers \ {w} : patch'[v] = patch[v]
  BY <1>1 DEF KeepsSpec, ContentsInv, WritingInv, PerWriter
<1> QED
  BY <1>1, <1>4, <1>5, <1>6 DEF ContentsInv, SpecsFit

\* A patch that passed the guardrails leads to legal content.
LEMMA OutcomeFits ==
    ASSUME ContentsInv, NEW w \in Writers, Guarded(patch[w])
    PROVE  Fit(Applied(w).bp) /\ Outcome(w).after = Applied(w).bp
<1>1. PICK bp, ops : bp = file /\ ops = patch[w]
  OBVIOUS
<1>2. IsBlueprint(bp) /\ IsPatch(ops) /\ PathsOf(bp) \subseteq Legal /\ Guarded(ops)
  BY <1>1 DEF ContentsInv, SpecsFit, ContentsFit, Fit
<1>3. /\ IsBlueprint(ApplyPatch(bp, ops).bp)
      /\ PathsOf(ApplyPatch(bp, ops).bp) \subseteq PathsOf(bp) \cup PathsOfPatch(ops)
  BY <1>2, ApplyingKeeps
<1>4. PathsOfPatch(ops) \subseteq Legal
  BY <1>2 DEF Guarded, PathsOfPatch, Legal
<1>5. Fit(ApplyPatch(bp, ops).bp)
  BY <1>2, <1>3, <1>4 DEF Fit
<1> QED
  BY <1>1, <1>5 DEF Applied, Outcome

\* A step of one writer that does not touch the disk.
LEMMA OffDisk ==
    ASSUME ContentsInv, NEW w \in Writers, NEW to, at' = [at EXCEPT ![w] = to],
           file' = file, tmp' = tmp, stale' = {} => stale = {},
           \A v \in Writers : /\ IsPatch(patch'[v])
                              /\ Guarded(patch[v]) => Guarded(patch'[v])
                              /\ ChangesItself(patch'[v]) <=> ChangesItself(patch[v]),
           \A v \in Writers \ {w} : result'[v] = result[v] /\ ran'[v] = ran[v],
           to \in {"checked", "judged", "ran"} => Guarded(patch[w]),
           to \in InFlight \/ result'[w] # result[w] => Fit(result'[w].after),
           Steady' => /\ to = "ran" => Parses(ran'[w].after)
                      /\ to \in InFlight \/ result'[w] # result[w] => Parses(result'[w].after)
    PROVE  SpecsFit' /\ ContentsFit' /\ ContentsParse'
<1>1. at'[w] = to /\ \A v \in Writers \ {w} : at'[v] = at[v]
  BY DEF ContentsInv, WritingInv, PerWriter
<1>2. tmp # NoFile => tmp \in Writers
  BY TwoKinds DEF ContentsInv, WritingInv, PutOnce
<1>3. SpecsFit'
  BY <1>1 DEF ContentsInv, SpecsFit
<1>4. ContentsFit'
  <2>1. \A v \in Writers : at'[v] \in InFlight => Fit(result'[v].after)
    BY <1>1 DEF ContentsInv, ContentsFit
  <2>2. tmp # NoFile => Fit(result'[tmp].after)
    BY <1>2 DEF ContentsInv, ContentsFit
  <2>3. Fit(file)
    BY DEF ContentsInv, ContentsFit
  <2> QED
    BY <2>1, <2>2, <2>3 DEF ContentsFit
<1>5. ContentsParse'
  <2> SUFFICES ASSUME Steady'
               PROVE  /\ Parses(file)
                      /\ \A v \in Writers :
                            /\ at'[v] = "ran" => Parses(ran'[v].after)
                            /\ at'[v] \in InFlight => Parses(result'[v].after)
                      /\ tmp # NoFile => Parses(result'[tmp].after)
    BY DEF ContentsParse
  <2>1. Steady
    BY TwoKinds DEF Steady
  <2>2. \A v \in Writers : /\ at'[v] = "ran" => Parses(ran'[v].after)
                           /\ at'[v] \in InFlight => Parses(result'[v].after)
    BY <1>1, <2>1 DEF ContentsInv, ContentsParse
  <2>3. tmp # NoFile => Parses(result'[tmp].after)
    BY <1>2, <2>1 DEF ContentsInv, ContentsParse
  <2> QED
    BY <2>1, <2>2, <2>3 DEF ContentsInv, ContentsParse
<1> QED
  BY <1>3, <1>4, <1>5

\* The step that takes away what was seen.
LEMMA OnlyLeaves ==
    ASSUME ContentsInv, NEW w \in Writers, NEW to, at' = [at EXCEPT ![w] = to],
           to \notin {"checked", "judged", "ran"},
           to \in InFlight => at[w] \in InFlight,
           file' = file, tmp' = tmp, stale' = stale, result' = result,
           patch' = patch \/ KeepsSpec(w),
           Forgets(w) \/ ran' = ran
    PROVE  SpecsFit' /\ ContentsFit' /\ ContentsParse'
<1>1. \A v \in Writers : /\ IsPatch(patch'[v])
                         /\ Guarded(patch[v]) => Guarded(patch'[v])
                         /\ ChangesItself(patch'[v]) <=> ChangesItself(patch[v])
  BY SpecsAfter DEF ContentsInv, SpecsFit
<1>2. \A v \in Writers \ {w} : result'[v] = result[v] /\ ran'[v] = ran[v]
  BY DEF Forgets, ContentsInv, WritingInv, PerWriter
<1>3. to \in InFlight => Fit(result'[w].after)
  BY DEF ContentsInv, ContentsFit
<1>4. Steady' => Steady
  BY <1>1, TwoKinds DEF Steady
<1>5. Steady' => (to \in InFlight => Parses(result'[w].after))
  BY <1>4 DEF ContentsInv, ContentsParse
<1> QED
  BY <1>1, <1>2, <1>3, <1>5, OffDisk

\* New content of the file, of which something is known.
LEMMA FileChanges ==
    ASSUME ContentsInv, Fit(file'), Steady => Parses(file'),
           patch' = patch, ran' = ran, result' = result, stale' = stale,
           tmp' = tmp \/ tmp' = NoFile,
           \A v \in Writers : at'[v] = at[v] \/ at'[v] = "written"
    PROVE  SpecsFit' /\ ContentsFit' /\ ContentsParse'
<1>1. SpecsFit'
  BY DEF ContentsInv, SpecsFit
<1>2. ContentsFit'
  BY DEF ContentsInv, ContentsFit, InFlight
<1>3. ContentsParse'
  BY DEF ContentsInv, ContentsParse, Steady, InFlight
<1> QED
  BY <1>1, <1>2, <1>3

\* What a person saves parses as what was typed.
LEMMA SavedContent ==
    ASSUME ContentsInv, NEW content, Saves(content),
           content.modules \in Seq(Range(content.modules)),
           content.edges \in Seq(Range(content.edges)),
           \A m \in Range(content.modules) : IsModule(m) /\ m.path \in Legal,
           \A e \in Range(content.edges) :
               e = [from |-> e.from, to |-> e.to, port |-> e.port, origin |-> InFile],
           Steady => Parses(content)
    PROVE  SpecsFit' /\ ContentsFit' /\ ContentsParse'
<1>1. PICK now : now = file'
  OBVIOUS
<1>2. now = [modules |-> content.modules, edges |-> content.edges,
             context |-> content.context, saves |-> file.saves \cup {saved + 1}]
  BY <1>1 DEF Saves
<1>3. /\ now = [modules |-> now.modules, edges |-> now.edges, context |-> now.context,
                saves |-> now.saves]
      /\ now.modules = content.modules /\ now.edges = content.edges
      /\ now.context = content.context
  BY <1>2
<1>4. Fit(now)
  BY <1>3 DEF Fit, IsBlueprint, PathsOf
<1>5. Parses(content) => Parses(now)
  BY <1>3 DEF Parses, IdsOf
<1> QED
  BY <1>1, <1>4, <1>5, FileChanges DEF Saves

\* Taking a module out by hand is what remove_module does.
LEMMA RemovedByHand ==
    ASSUME ContentsInv, NEW id \in Removable, HumanRemoves(id)
    PROVE  SpecsFit' /\ ContentsFit' /\ ContentsParse'
<1> DEFINE ops == <<[op |-> "remove_module", module_id |-> id, add |-> <<>>]>>
           shorter == RemoveModule([bp |-> file, ok |-> TRUE, ops |-> ops], 1)
<1>1. Compiles(shorter.bp) /\ Saves(shorter.bp)
  BY DEF HumanRemoves
<1>2. PICK bp : bp = file
  OBVIOUS
<1>3. IsBlueprint(bp) /\ PathsOf(bp) \subseteq Legal
  BY <1>2 DEF ContentsInv, ContentsFit, Fit
<1>4. /\ DOMAIN ops = {1} /\ ops[1].op = "remove_module" /\ ops[1].add = <<>>
      /\ {"op", "add"} \subseteq DOMAIN ops[1]
      /\ ops \in Seq(Range(ops))
  <2>1. ops \in Seq({[op |-> "remove_module", module_id |-> id, add |-> <<>>]})
    OBVIOUS
  <2>2. ops \in Seq(Range(ops))
    BY <2>1, SeqOfItsOwn
  <2> QED
    BY <2>2
<1> HIDE DEF ops
<1>5. IsPatch(ops)
  <2>1. ops[1].add \in Seq(Range(ops[1].add)) /\ Range(ops[1].add) = {}
    BY <1>4 DEF Range
  <2> QED
    BY <1>4, <2>1 DEF IsPatch, WritesModule
<1>6. Worked(bp, ops, 0, [bp |-> bp, ops |-> ops, ok |-> TRUE])
  BY <1>3, <1>5, WorkStarts
<1>7. PICK st, after : /\ st = [bp |-> bp, ops |-> ops, ok |-> TRUE]
                       /\ after = RemoveModule(st, 1)
  OBVIOUS
<1>8. Worked(bp, ops, 0 + 1, RemoveModule(st, 0 + 1))
  BY <1>4, <1>6, <1>7, RemovingKeeps
<1>9. Worked(bp, ops, 1, after) /\ shorter = after
  BY <1>2, <1>7, <1>8
<1> HIDE DEF shorter
<1>10. PathsOfPatch(ops) \subseteq Legal
  BY <1>4 DEF PathsOfPatch, PathWritten, WritesModule, Legal
<1>11. \A e : ~AddedBy(ops, 1, e)
  BY <1>4 DEF AddedBy
<1>12. /\ after.bp.modules \in Seq(Range(after.bp.modules))
       /\ \A m \in Range(after.bp.modules) : IsModule(m) /\ m.path \in Legal
  BY <1>3, <1>9, <1>10 DEF Worked, ModulesFit
<1>13. /\ after.bp.edges \in Seq(Range(after.bp.edges))
       /\ \A e \in Range(after.bp.edges) :
             e = [from |-> e.from, to |-> e.to, port |-> e.port, origin |-> InFile]
  BY <1>9, <1>11 DEF Worked, EdgesFit
<1>14. PICK content : content = after.bp
  OBVIOUS
<1>15. Saves(content) /\ Parses(content)
  BY <1>1, <1>9, <1>14 DEF Compiles
<1> QED
  BY <1>12, <1>13, <1>14, <1>15, SavedContent

LEMMA ContentsStep ==
    ASSUME ContentsInv, [GatesNext]_gatesVars
    PROVE  SpecsFit' /\ ContentsFit' /\ ContentsParse'
<1> DEFINE Kept == SpecsFit' /\ ContentsFit' /\ ContentsParse'
<1>a. PerWriter /\ Runs \subseteq Writers /\ Reviewers \subseteq Writers
  BY TwoKinds DEF ContentsInv, WritingInv
<1>b. ASSUME NEW w \in Writers, KeepsSpec(w)
      PROVE  \A v \in Writers : /\ IsPatch(patch'[v])
                                /\ Guarded(patch[v]) => Guarded(patch'[v])
                                /\ ChangesItself(patch'[v]) <=> ChangesItself(patch[v])
  BY <1>b, SpecsAfter
<1>c. ASSUME NEW w \in Writers, at[w] \in {"checked", "judged", "ran"} PROVE Guarded(patch[w])
  BY <1>c DEF ContentsInv, SpecsFit
<1>1. ASSUME NEW r \in Runs, CallbackAccepts(r) PROVE Kept
  <2>1. /\ at' = [at EXCEPT ![r] = "checked"] /\ KeepsSpec(r) /\ Guarded(patch[r])
        /\ UNCHANGED <<file, tmp, ran, result, stale>>
    BY <1>1 DEF CallbackAccepts, Goes
  <2> QED
    BY <1>a, <1>b, <2>1, OffDisk DEF InFlight
<1>2. ASSUME NEW r \in Runs, CallbackRejects(r) \/ GatesFail(r) \/ RunFails(r) PROVE Kept
  <2>1. /\ at' = [at EXCEPT ![r] = "refused"] /\ KeepsSpec(r) /\ Forgets(r)
        /\ UNCHANGED <<file, tmp, result, stale>>
    BY <1>2 DEF CallbackRejects, GatesFail, RunFails, Goes
  <2> QED
    BY <1>a, <2>1, OnlyLeaves DEF InFlight
<1>3. ASSUME NEW r \in Runs, GatesPass(r) PROVE Kept
  <2>1. /\ at' = [at EXCEPT ![r] = "judged"] /\ KeepsSpec(r) /\ at[r] = "checked"
        /\ UNCHANGED <<file, tmp, ran, result, stale>>
    BY <1>3 DEF GatesPass, Goes
  <2> QED
    BY <1>a, <1>b, <1>c, <2>1, OffDisk DEF InFlight
<1>4. ASSUME NEW r \in Runs, RunsPatched(r) PROVE Kept
  <2>1. /\ at' = [at EXCEPT ![r] = "ran"] /\ KeepsSpec(r) /\ at[r] = "judged"
        /\ ran' = [ran EXCEPT ![r] = Outcome(r)] /\ Parses(Applied(r).bp)
        /\ UNCHANGED <<file, tmp, result, stale>>
    BY <1>4 DEF RunsPatched, Goes, Compiles
  <2>2. Outcome(r).after = Applied(r).bp
    BY DEF Outcome
  <2>3. ran'[r] = Outcome(r) /\ \A v \in Writers \ {r} : ran'[v] = ran[v]
    BY <1>a, <2>1 DEF PerWriter
  <2> QED
    BY <1>a, <1>b, <1>c, <2>1, <2>2, <2>3, OffDisk DEF InFlight
<1>5. ASSUME NEW r \in Runs, Loads(r) PROVE Kept
  <2>1. /\ at' = [at EXCEPT ![r] = "loaded"] /\ KeepsSpec(r) /\ at[r] = "ran"
        /\ result' = [result EXCEPT ![r] = Outcome(r)]
        /\ stale' = IF file = ran[r].before THEN stale ELSE stale \cup {r}
        /\ UNCHANGED <<file, tmp, ran>>
    BY <1>5 DEF Loads, Goes
  <2>2. result'[r] = Outcome(r) /\ \A v \in Writers \ {r} : result'[v] = result[v]
    BY <1>a, <2>1 DEF PerWriter
  <2>3. Fit(Outcome(r).after)
    BY <1>a, <1>c, <2>1, OutcomeFits
  <2>4. ASSUME Steady' PROVE Parses(Outcome(r).after)
    <3>1. Steady /\ file = ran[r].before
      BY <1>a, <1>b, <2>1, <2>4 DEF Steady
    <3>2. IsOutcome(ran[r], patch[r])
      BY <2>1, <3>1 DEF Steady, ContentsInv, WritingInv, Remembers
    <3>3. Outcome(r).after = ran[r].after
      BY <3>1, <3>2 DEF IsOutcome, Outcome, Applied
    <3> QED
      BY <1>a, <2>1, <3>1, <3>3 DEF ContentsInv, ContentsParse
  <2>5. stale' = {} => stale = {}
    BY <2>1
  <2> QED
    BY <1>a, <1>b, <2>1, <2>2, <2>3, <2>4, <2>5, OffDisk
<1>6. ASSUME NEW r \in Runs, LoadFails(r) PROVE Kept
  <2>1. /\ at' = [at EXCEPT ![r] = "failed"] /\ KeepsSpec(r) /\ Forgets(r)
        /\ UNCHANGED <<file, tmp, result, stale>>
    BY <1>6 DEF LoadFails, Goes
  <2> QED
    BY <1>a, <2>1, OnlyLeaves DEF InFlight
<1>7. ASSUME NEW r \in Runs, BacksUp(r) PROVE Kept
  <2>1. /\ at' = [at EXCEPT ![r] = "backed_up"] /\ at[r] = "loaded" /\ Forgets(r)
        /\ UNCHANGED <<file, tmp, patch, result, stale>>
    BY <1>7 DEF BacksUp, Goes
  <2> QED
    BY <1>a, <2>1, OnlyLeaves DEF InFlight
<1>8. ASSUME NEW r \in Runs, Dumps(r) PROVE Kept
  <2>1. /\ at' = [at EXCEPT ![r] = "dumped"] /\ at[r] = "backed_up" /\ tmp' = r
        /\ UNCHANGED <<file, patch, ran, result, stale>>
    BY <1>8 DEF Dumps, Goes
  <2>2. \A v \in Writers : at'[v] = IF v = r THEN "dumped" ELSE at[v]
    BY <1>a, <2>1 DEF PerWriter
  <2>3. SpecsFit'
    BY <2>1, <2>2 DEF ContentsInv, SpecsFit
  <2>4. ContentsFit'
    BY <1>a, <2>1, <2>2 DEF ContentsInv, ContentsFit, InFlight
  <2>5. ContentsParse'
    BY <1>a, <2>1, <2>2 DEF ContentsInv, ContentsParse, Steady, InFlight
  <2> QED
    BY <2>3, <2>4, <2>5
<1>9. ASSUME NEW r \in Runs, Replaces(r) PROVE Kept
  <2>1. /\ at' = [at EXCEPT ![r] = "written"] /\ tmp # NoFile /\ tmp' = NoFile
        /\ file' = result[tmp].after
        /\ UNCHANGED <<patch, ran, result, stale>>
    BY <1>9 DEF Replaces, Goes
  <2>2. \A v \in Writers : at'[v] = at[v] \/ at'[v] = "written"
    BY <1>a, <2>1 DEF PerWriter
  <2>3. Fit(file') /\ (Steady => Parses(file'))
    BY <2>1 DEF ContentsInv, ContentsFit, ContentsParse
  <2> QED
    BY <2>1, <2>2, <2>3, FileChanges
<1>10. ASSUME NEW r \in Runs, ReplaceFails(r) PROVE Kept
  <2>1. /\ at' = [at EXCEPT ![r] = "failed"]
        /\ UNCHANGED <<file, tmp, patch, ran, result, stale>>
    BY <1>10 DEF ReplaceFails, Goes
  <2> QED
    BY <1>a, <2>1, OnlyLeaves DEF InFlight
<1>11. ASSUME NEW r \in Runs, Killed(r) PROVE Kept
  <2>1. /\ at' = [at EXCEPT ![r] = "killed"] /\ Forgets(r)
        /\ UNCHANGED <<file, tmp, patch, result, stale>>
    BY <1>11 DEF Killed
  <2> QED
    BY <1>a, <2>1, OnlyLeaves DEF InFlight
<1>12. ASSUME NEW p \in Reviewers, Verifies(p) PROVE Kept
  <2>1. /\ at' = [at EXCEPT ![p] = "verified"] /\ KeepsSpec(p) /\ Guarded(patch[p])
        /\ Parses(Applied(p).bp) /\ result' = [result EXCEPT ![p] = Outcome(p)]
        /\ UNCHANGED <<file, tmp, ran, stale>>
    BY <1>12 DEF Verifies, Goes
  <2>2. result'[p] = Outcome(p) /\ \A v \in Writers \ {p} : result'[v] = result[v]
    BY <1>a, <2>1 DEF PerWriter
  <2>3. Fit(Outcome(p).after) /\ Outcome(p).after = Applied(p).bp
    BY <1>a, <2>1, OutcomeFits
  <2> QED
    BY <1>a, <1>b, <2>1, <2>2, <2>3, OffDisk
<1>13. ASSUME NEW p \in Reviewers, Refuses(p) PROVE Kept
  <2>1. /\ at' = [at EXCEPT ![p] = "refused"]
        /\ UNCHANGED <<file, tmp, patch, ran, result, stale>>
    BY <1>13 DEF Refuses, Goes
  <2> QED
    BY <1>a, <2>1, OnlyLeaves DEF InFlight
<1>14. ASSUME NEW p \in Reviewers, Installs(p) PROVE Kept
  <2>1. /\ at[p] = "verified" /\ at' = [at EXCEPT ![p] = "written"] /\ file' = result[p].after
        /\ UNCHANGED <<tmp, patch, ran, result, stale>>
    BY <1>14 DEF Installs, Goes
  <2>2. \A v \in Writers : at'[v] = at[v] \/ at'[v] = "written"
    BY <1>a, <2>1 DEF PerWriter
  <2>3. Fit(file') /\ (Steady => Parses(file'))
    BY <1>a, <2>1 DEF ContentsInv, ContentsFit, ContentsParse, InFlight
  <2> QED
    BY <2>1, <2>2, <2>3, FileChanges
<1>15. ASSUME HumanEdits PROVE Kept
  <2>1. PICK content : content = file
    OBVIOUS
  <2>2. Saves(content) /\ (Steady => Parses(content)) /\ Fit(content)
    BY <1>15, <2>1 DEF HumanEdits, ContentsInv, ContentsFit, ContentsParse
  <2>3. /\ content.modules \in Seq(Range(content.modules))
        /\ content.edges \in Seq(Range(content.edges))
        /\ \A m \in Range(content.modules) : IsModule(m) /\ m.path \in Legal
        /\ \A e \in Range(content.edges) :
               e = [from |-> e.from, to |-> e.to, port |-> e.port, origin |-> InFile]
    BY <2>2 DEF Fit, IsBlueprint, PathsOf
  <2> QED
    BY <2>2, <2>3, SavedContent
<1>16. ASSUME UNCHANGED gatesVars PROVE Kept
  BY <1>16 DEF gatesVars, ContentsInv, SpecsFit, ContentsFit, ContentsParse, Steady
<1> HIDE DEF Kept
<1>17. Kept
  BY <1>1, <1>2, <1>3, <1>4, <1>5, <1>6, <1>7, <1>8, <1>9, <1>10, <1>11, <1>12, <1>13,
     <1>14, <1>15, <1>16, RemovedByHand
  DEF GatesNext, Healing, Kept
<1> QED
  BY <1>17 DEF Kept

LEMMA ContentsStart == GatesInit => ContentsInv
<1> SUFFICES ASSUME GatesInit PROVE ContentsInv
  OBVIOUS
<1>1. /\ file = Original /\ tmp = NoFile /\ patch \in Assignments
      /\ at = [w \in Writers |-> "start"]
  BY DEF GatesInit
<1>2. \A w \in Writers : at[w] = "start" /\ IsPatch(patch[w])
  BY <1>1, GatesAssumption
<1>3. Fit(file) /\ Parses(file)
  BY <1>1, GatesAssumption DEF Fit, Legal, Compiles
<1>4. SpecsFit /\ ContentsFit /\ ContentsParse
  BY <1>1, <1>2, <1>3 DEF SpecsFit, ContentsFit, ContentsParse, InFlight
<1> QED
  BY <1>4, WritingStarts DEF ContentsInv

THEOREM ContentsInvariant == GatesSpec => []ContentsInv
<1>1. GatesInit => ContentsInv
  BY ContentsStart
<1>2. ContentsInv /\ [GatesNext]_gatesVars => ContentsInv'
  <2> SUFFICES ASSUME ContentsInv, [GatesNext]_gatesVars PROVE ContentsInv'
    OBVIOUS
  <2>1. SpecsKept
    BY SpecsKeptNow DEF ContentsInv
  <2>2. WritingInv'
    BY <2>1, WritingStep DEF ContentsInv
  <2>3. SpecsFit' /\ ContentsFit' /\ ContentsParse'
    BY ContentsStep
  <2> QED
    BY <2>2, <2>3 DEF ContentsInv
<1> QED
  BY <1>1, <1>2, PTL DEF GatesSpec

\* To apply a patch - to any blueprint, whatever its operations, however often -
\* leaves its PatchSpec as it was, unless it rewires an edge it adds or writes below
\* a block of the context it gives.
THEOREM SpecsAreKept == GatesSpec => []SpecsKept
<1>1. ContentsInv => SpecsKept
  BY SpecsKeptNow DEF ContentsInv
<1> QED
  BY <1>1, ContentsInvariant, PTL

\* Whatever patches runs and reviewers write, in whatever order and over whatever
\* people save meanwhile: no module's path in the file that was neither there at first
\* nor is allowed.
THEOREM PathsStayLegal == GatesSpec => [](PathsOf(file) \subseteq Legal)
<1>1. ContentsInv => PathsOf(file) \subseteq Legal
  BY DEF ContentsInv, ContentsFit, Fit
<1> QED
  BY <1>1, ContentsInvariant, PTL

\* And the file parses, if no run wrote back to other content than it had run the
\* patch on, and as long as no run's patch changes itself (SpecsKept): what such a
\* patch does the next time need not be what was compiled.
THEOREM FileIsSound ==
    GatesSpec => []((\A r \in Runs : ~ChangesItself(patch[r])) => FileStaysSound)
<1>1. ContentsInv => \A m \in Range(file.modules) : m.path \in Legal
  BY DEF ContentsInv, ContentsFit, Fit, PathsOf
<1>2. Legal = Allowed \cup {NoPath} \cup {n.path : n \in Range(Original.modules)}
  BY DEF Legal, PathsOf
<1>3. ContentsInv => ((\A r \in Runs : ~ChangesItself(patch[r])) => FileStaysSound)
  BY <1>1, <1>2 DEF ContentsInv, ContentsParse, Steady, FileStaysSound
<1> QED
  BY <1>3, ContentsInvariant, PTL

\* From the invariant: a run that reports as written has put in place what its
\* gates judged and what it ran, or the content of another run, which then reports no
\* success of its own content.  Proved where no run's patch writes below a block of
\* the context it gives.
THEOREM RunsWriteWhatWasJudged ==
    GatesSpec => []((\A r \in Runs : ~FillsOwnBlock(patch[r])) => WrittenAsJudged)
<1>1. WritingInv /\ (\A r \in Runs : ~FillsOwnBlock(patch[r])) => WrittenAsJudged
  <2> SUFFICES ASSUME WritingInv, \A r \in Runs : ~FillsOwnBlock(patch[r])
               PROVE  WrittenAsJudged
    OBVIOUS
  <2>1. \A q, r \in Runs : (q # r /\ at[q] = "written" /\ at[r] = "written") => put[q] # put[r]
    BY DEF WritingInv, PutOnce
  <2>2. ASSUME NEW r \in Runs, PutForAnother(r)
        PROVE  at[put[r]] \in {"dumped", "failed", "killed"} \/ PutForAnother(put[r])
    BY <2>1, <2>2 DEF WritingInv, PutWasDumped, PutForAnother
  <2>3. ASSUME NEW r \in Runs, ~RewiresOwnEdge(patch[r])
        PROVE  /\ (at[r] = "ran" /\ judged[r].before = ran[r].before) =>
                      judged[r].after = ran[r].after
               /\ (at[r] = "ran" /\ file = ran[r].before) => Applied(r).ok
               /\ (at[r] = "loaded" /\ result[r].before = ran[r].before) =>
                      result[r].after = ran[r].after
    BY <2>3 DEF WritingInv, Remembers, IsOutcome, Applied, ChangesItself
  <2> QED
    BY <2>1, <2>2, <2>3 DEF WrittenAsJudged
<1> QED
  BY <1>1, ContentsInvariant, PTL DEF ContentsInv

=============================================================================
