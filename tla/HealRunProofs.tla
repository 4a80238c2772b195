---------------------------- MODULE HealRunProofs ----------------------------
(***************************************************************************)
(* What the self-healing loop guarantees for every set of configurations   *)
(* and any number of runs: nothing touches real data without trust, the    *)
(* blueprint, its backups and the archive agree, and the exit code and     *)
(* healing_outcomes say what happened.                                     *)
(*                                                                         *)
(* All three rest on the same invariant.  Its core is that patch_id is     *)
(* fresh: what the files and the tables know of a patch, they know from    *)
(* this iteration.  The other parts say what each phase of the loop may    *)
(* count on about the patch in hand.                                       *)
(***************************************************************************)
EXTENDS HealRun, TLAPS

\* Phases with a patch in hand, and those of _write_patch_to_blueprint.
Writing == {"backup", "replace", "archive"}
Chosen  == {"gated", "unfixed"} \cup Writing
InHand  == {"answered"} \cup Chosen

\* The modes that let the loop write.
Delegated == {"auto", "aggressive"}

Passed(p, where) == [patch |-> p, where |-> where, status |-> "pass"] \in trials

-----------------------------------------------------------------------------
(* The parts of the invariant.                                             *)

\* Made by an earlier run, or by an earlier iteration of this one.
Past(p) == p.run < run \/ (p.run = run /\ p.n <= patchCount)

\* No patch on record comes from the future; while the loop runs, none but the
\* one in hand can have the number of the next patch.
Numbered(p) ==
    /\ p.run <= run
    /\ phase \notin {"answered", "report", "idle"} => Past(p)
    /\ phase = "answered" => Past(p) \/ p = patch

PatchesNumbered ==
    /\ \A p \in disk : Numbered(p)
    /\ \A t \in trials : Numbered(t.patch)
    /\ \A i \in DOMAIN outcomes :
           outcomes[i].patch # NoPatch => Numbered(outcomes[i].patch)

\* The patch in hand is the one of this iteration, and there was room for it.
PatchIsCurrent ==
    /\ phase \in InHand =>
           /\ patch \in Patches /\ patch.run = run
           /\ patch.n = IF phase = "answered" THEN patchCount + 1 ELSE patchCount
    /\ phase \in {"session", "answered"} => patchCount < conf.maxPatches

\* The loop goes on towards the blueprint only as far as it was trusted to.
TrustIsEarned ==
    /\ mode \in {conf.mode, "human"}
    /\ phase \in InHand /\ mode \in Delegated => patch.trust = "sure"
    /\ phase \in Chosen => mode \in Delegated /\ patch.allowed

\* What was tried before the patch runs on real data, and what it showed.
GateRemembered ==
    /\ phase \in {"answered", "gated"} =>
           \A t \in trials : t.patch = patch =>
               /\ t.where = "sandbox"
               /\ t.status = "fail" => phase = "gated" /\ gate = "fail"
    /\ phase \in {"gated"} \cup Writing /\ gate = "pass" => Passed(patch, "sandbox")

\* The write starts from a proven patch, and does its steps in order.
WriteIsProven ==
    /\ phase \in Writing => SandboxSuffices \/ Passed(patch, "real")
    /\ phase \in Writing /\ result = "success" => Passed(patch, "real")
    /\ phase \in {"replace", "archive"} => patch \in backups
    /\ phase = "archive" => patch \in disk

\* No row says yet that the patch in hand was turned down.
NotTurnedDown ==
    phase \in InHand =>
        \A i \in DOMAIN outcomes : outcomes[i].patch = patch => outcomes[i].applied

\* A run writes at most once, and what it wrote before a success has worked.
WritesOnce ==
    /\ phase \notin {"archive", "report", "idle"} => \A p \in disk : p.run # run
    /\ phase = "archive" => \A p \in disk : p.run = run => p = patch
    /\ result = "success" => \A p \in disk : p.run = run => Passed(p, "real")

\* The last result is a success as soon as a patch of this run worked.
ResultTells ==
    /\ \A t \in trials :
           t.where = "real" /\ t.status = "pass" /\ t.patch.run = run => result = "success"
    /\ phase \notin Writing \cup {"report", "idle"} => result # "success"

\* A run that staged a patch for review is at its end, and wrote nothing.
StagedTells ==
    staged =>
        /\ phase \in {"report", "idle"}
        /\ \E p \in pending : p.run = run
        /\ \A p \in disk : p.run # run

LoopInv ==
    /\ HealRunTypeOK
    /\ PatchesNumbered /\ PatchIsCurrent /\ TrustIsEarned /\ GateRemembered
    /\ WriteIsProven /\ NotTurnedDown /\ WritesOnce /\ ResultTells /\ StagedTells

-----------------------------------------------------------------------------
(* The initial state and the type invariant.                              *)

\* The loop starts with the invariant.
LEMMA InitHasLoopInv == RunInit => LoopInv
<1> SUFFICES ASSUME RunInit PROVE LoopInv
  OBVIOUS
<1> USE DEF RunInit
<1>1. HealRunTypeOK
  <2>1. conf \in RunConfig /\ run \in 1..MaxRuns
    BY HealRunAssumption
  <2>2. conf.mode \in Modes /\ conf.maxPatches \in Nat
    BY <2>1 DEF RunConfig
  <2>3. budget \in Budgets
    BY <2>1 DEF RunConfig, Budgets
  <2>4. outcomes \in Seq(Outcomes) /\ answer \in Answers
    BY DEF Answers
  <2>5. healable \in BOOLEAN /\ explainWarns \in BOOLEAN /\ staged \in BOOLEAN
    OBVIOUS
  <2>6. patchCount \in 0..conf.maxPatches
    BY <2>2
  <2> QED
    BY <2>1, <2>2, <2>3, <2>4, <2>5, <2>6 DEF HealRunTypeOK
<1>2. /\ PatchesNumbered /\ PatchIsCurrent /\ TrustIsEarned /\ GateRemembered
      /\ WriteIsProven /\ NotTurnedDown /\ WritesOnce /\ ResultTells /\ StagedTells
  BY DEF PatchesNumbered, PatchIsCurrent, TrustIsEarned, GateRemembered, WriteIsProven,
         NotTurnedDown, WritesOnce, ResultTells, StagedTells, InHand, Chosen, Writing
<1> QED
  BY <1>1, <1>2 DEF LoopInv

\* A row added to healing_outcomes leaves the earlier ones as they are.
LEMMA RowAdded ==
    ASSUME outcomes \in Seq(Outcomes), NEW row \in Outcomes,
           outcomes' = Append(outcomes, row)
    PROVE  /\ outcomes' \in Seq(Outcomes)
           /\ \A i \in DOMAIN outcomes' :
                  (i \in DOMAIN outcomes /\ outcomes'[i] = outcomes[i]) \/ outcomes'[i] = row
  OBVIOUS

\* So do the rows of a session that gave up, which name no patch.
LEMMA RowsAdded ==
    ASSUME HealRunTypeOK, SessionGaveUp
    PROVE  /\ outcomes' \in Seq(Outcomes)
           /\ \A i \in DOMAIN outcomes' :
                  \/ i \in DOMAIN outcomes /\ outcomes'[i] = outcomes[i]
                  \/ outcomes'[i] = [patch |-> NoPatch, applied |-> FALSE, success |-> FALSE]
<1> DEFINE row  == [patch |-> NoPatch, applied |-> FALSE, success |-> FALSE]
           rows == [i \in 1..tries |-> row]
<1>1. row \in Outcomes
  BY DEF Outcomes
<1>2. rows \in Seq(Outcomes) /\ Len(rows) = tries /\ \A i \in 1..tries : rows[i] = row
  <2>1. tries \in Nat
    BY DEF HealRunTypeOK
  <2> QED BY <1>1, <2>1
<1>3. outcomes' = outcomes \o rows /\ outcomes \in Seq(Outcomes)
  BY DEF SessionGaveUp, HealRunTypeOK
<1> HIDE DEF row, rows
<1>4. outcomes' \in Seq(Outcomes) /\ \A i \in DOMAIN outcomes' :
         (i \in DOMAIN outcomes /\ outcomes'[i] = outcomes[i]) \/ outcomes'[i] = row
  BY <1>2, <1>3
<1> QED
  BY <1>4 DEF row

\* Every kind of step of the loop keeps to the types.
LEMMA TypesKept ==
    ASSUME HealRunTypeOK, PatchIsCurrent, [RunNext]_healRunVars
    PROVE  HealRunTypeOK'
<1> USE DEF HealRunTypeOK, PatchIsCurrent, loopVars, fileVars, sessionVars,
            Modes, InHand, Chosen, Writing
<1>1. CASE ManifestFails
  <2>1. conf.mode \in Modes
    BY DEF RunConfig
  <2> QED
    BY <1>1, <2>1 DEF ManifestFails
<1>2. CASE StartSession
  BY <1>2 DEF StartSession, Answers, MayHeal
<1>3. CASE SessionStep
  <2>1. budget' = budget /\ tries' \in Nat /\ answer' \in Answers
    BY <1>3 DEF SessionStep, SessionNext, FailedTry, LastTry
  <2> QED
    BY <1>3, <2>1 DEF SessionStep
<1>4. CASE SessionGaveUp
  <2>1. outcomes' \in Seq(Outcomes)
    BY <1>4, RowsAdded
  <2>2. /\ phase' = "report"
        /\ UNCHANGED <<conf, run, result, exit, trials, loopVars, fileVars, sessionVars>>
    BY <1>4 DEF SessionGaveUp
  <2> QED
    BY <2>1, <2>2
<1>5. CASE SessionAnswered
  <2>1. PICK trust \in {"sure", "unsure", "recovered"}, allowed \in BOOLEAN,
             status \in {"pass", "skip"} :
             LET p == [ run |-> run, n |-> patchCount + 1, kind |-> answer.patch,
                        trust |-> trust, allowed |-> allowed ]
             IN  /\ patch' = p
                 /\ mode' = TrustedMode(trust)
                 /\ trials' = IF GatedInSession /\ answer = Solved
                              THEN trials \cup {[patch |-> p, where |-> "sandbox",
                                                 status |-> status]}
                              ELSE trials
    BY <1>5 DEF SessionAnswered
  <2>2. answer.patch \in {"fix", "defer"}
    BY <1>5 DEF SessionAnswered, Solved, Deferred
  <2>3. patch' \in Patches
    BY <2>1, <2>2 DEF Patches
  <2>4. trials' \subseteq Trials
    BY <2>1, <2>3 DEF Trials
  <2>5. mode' \in Modes
    BY <2>1 DEF TrustedMode
  <2> QED
    BY <1>5, <2>3, <2>4, <2>5 DEF SessionAnswered
<1>6. CASE BlockedByGuardrail
  <2>1. [patch |-> patch, applied |-> FALSE, success |-> FALSE] \in Outcomes
    BY <1>6 DEF BlockedByGuardrail, Outcomes
  <2> QED
    BY <1>6, <2>1, RowAdded DEF BlockedByGuardrail, RecordOutcome
<1>7. CASE StageForReview
  <2>1. [patch |-> patch, applied |-> FALSE, success |-> FALSE] \in Outcomes
    BY <1>7 DEF StageForReview, Outcomes
  <2>2. patchCount' \in 0..conf.maxPatches
    BY <1>7 DEF StageForReview, RunConfig
  <2> QED
    BY <1>7, <2>1, <2>2, RowAdded DEF StageForReview, RecordOutcome
<1>8. CASE SkipGates
  <2>1. patchCount' \in 0..conf.maxPatches
    BY <1>8 DEF SkipGates, RunConfig
  <2> QED
    BY <1>8, <2>1 DEF SkipGates
<1>9. CASE RunGates
  <2>1. trials' \subseteq Trials
    BY <1>9 DEF RunGates, Trials
  <2>2. patchCount' \in 0..conf.maxPatches
    BY <1>9 DEF RunGates, RunConfig
  <2> QED
    BY <1>9, <2>1, <2>2 DEF RunGates
<1>10. CASE ExplainBlocks
  <2>1. [patch |-> patch, applied |-> FALSE, success |-> FALSE] \in Outcomes
    BY <1>10 DEF ExplainBlocks, Outcomes
  <2> QED
    BY <1>10, <2>1, RowAdded DEF ExplainBlocks, RecordOutcome
<1>11. CASE SandboxRejects
  <2>1. [patch |-> patch, applied |-> FALSE, success |-> FALSE] \in Outcomes
    BY <1>11 DEF SandboxRejects, Outcomes
  <2> QED
    BY <1>11, <2>1, RowAdded DEF SandboxRejects, RecordOutcome, StageFailedPatch
<1>12. CASE PatchInvalid
  <2>1. [patch |-> patch, applied |-> FALSE, success |-> FALSE] \in Outcomes
    BY <1>12 DEF PatchInvalid, Outcomes
  <2> QED
    BY <1>12, <2>1, RowAdded DEF PatchInvalid, RecordOutcome
<1>13. CASE TryOnRealData
  <2>1. PICK works \in BOOLEAN :
             /\ trials' = trials \cup {[patch |-> patch, where |-> "real",
                                        status |-> IF works THEN "pass" ELSE "fail"]}
             /\ RecordOutcome(TRUE, works)
             /\ result' = IF works THEN "success" ELSE "error"
             /\ phase' = IF works THEN "backup" ELSE "unfixed"
    BY <1>13 DEF TryOnRealData
  <2>2. [patch |-> patch, applied |-> TRUE, success |-> works] \in Outcomes
    BY <1>13 DEF TryOnRealData, Outcomes
  <2>3. outcomes' \in Seq(Outcomes)
    BY <2>1, <2>2, RowAdded DEF RecordOutcome
  <2>4. trials' \subseteq Trials
    BY <1>13, <2>1 DEF TryOnRealData, Trials
  <2> QED
    BY <1>13, <2>1, <2>3, <2>4 DEF TryOnRealData
<1>14. CASE PatchDidNotHelp
  BY <1>14 DEF PatchDidNotHelp, StageFailedPatch
<1>15. CASE BackUp
  BY <1>15 DEF BackUp
<1>16. CASE ReplaceBlueprint
  BY <1>16 DEF ReplaceBlueprint
<1>17. CASE Archive
  <2>1. [patch |-> patch, applied |-> TRUE, success |-> TRUE] \in Outcomes
    BY <1>17 DEF Archive, Outcomes
  <2> QED
    BY <1>17, <2>1, RowAdded DEF Archive, RecordOutcome, WriteEnds
<1>18. CASE WriteFails
  <2>1. [patch |-> patch, applied |-> TRUE, success |-> TRUE] \in Outcomes
    BY <1>18 DEF WriteFails, Outcomes
  <2> QED
    BY <1>18, <2>1, RowAdded DEF WriteFails, RecordOutcome, WriteEnds, CutShort
<1>19. CASE NextRun
  <2>1. conf.mode \in Modes /\ conf.maxPatches \in Nat
    BY DEF RunConfig
  <2>2. run' \in 1..MaxRuns
    BY <1>19, HealRunAssumption DEF NextRun
  <2>3. phase' \in {"idle", "execute"} /\ exit' \in {"none", "1"}
    BY <1>19 DEF NextRun
  <2>4. healable' \in BOOLEAN /\ explainWarns' \in BOOLEAN /\ staged' \in BOOLEAN
    BY <1>19 DEF NextRun
  <2>5. patchCount' \in 0..conf'.maxPatches /\ mode' \in Modes
    BY <1>19, <2>1 DEF NextRun
  <2> QED
    BY <1>19, <2>2, <2>3, <2>4, <2>5 DEF NextRun, Answers
<1>20. CASE ManifestSucceeds \/ StopHealing \/ AcceptOnSandbox \/ Report \/
            Killed
  BY <1>20 DEF ManifestSucceeds, StopHealing, AcceptOnSandbox, Report, Killed, CutShort
<1>21. CASE UNCHANGED healRunVars
  BY <1>21 DEF healRunVars
<1> QED
  BY <1>1, <1>2, <1>3, <1>4, <1>5, <1>6, <1>7, <1>8, <1>9, <1>10, <1>11,
     <1>12, <1>13, <1>14, <1>15, <1>16, <1>17, <1>18, <1>19, <1>20, <1>21 DEF RunNext, RunStep

-----------------------------------------------------------------------------
(* Every step keeps every part of the invariant.                           *)

\* The patch a session comes back with is a fresh one: no file, no trial and
\* no row names it, but the sandbox trial of that session.
LEMMA AnswerIsFresh ==
    ASSUME HealRunTypeOK, PatchesNumbered, PatchIsCurrent, SessionAnswered
    PROVE  /\ patch' \in Patches /\ patch'.run = run /\ patch'.n = patchCount + 1
           /\ mode' = TrustedMode(patch'.trust)
           /\ patch' \notin disk
           /\ \A t \in trials : t.patch # patch'
           /\ \A i \in DOMAIN outcomes : outcomes[i].patch # patch'
           /\ \A t \in trials' : t \in trials
                  \/ (t.patch = patch' /\ t.where = "sandbox" /\ t.status # "fail")
           /\ trials \subseteq trials'
<1>1. PICK trust \in {"sure", "unsure", "recovered"}, allowed \in BOOLEAN,
           status \in {"pass", "skip"} :
           LET p == [ run |-> run, n |-> patchCount + 1, kind |-> answer.patch,
                      trust |-> trust, allowed |-> allowed ]
           IN  /\ patch' = p
               /\ mode' = TrustedMode(trust)
               /\ trials' = IF GatedInSession /\ answer = Solved
                            THEN trials \cup {[patch |-> p, where |-> "sandbox",
                                               status |-> status]}
                            ELSE trials
  BY DEF SessionAnswered
<1>2. answer.patch \in {"fix", "defer"}
  BY DEF SessionAnswered, Solved, Deferred
<1>3. /\ patch' \in Patches /\ patch'.run = run /\ patch'.n = patchCount + 1
      /\ mode' = TrustedMode(patch'.trust)
  BY <1>1, <1>2 DEF Patches, HealRunTypeOK
<1>4. \A p \in Patches : Numbered(p) => p # patch'
  BY <1>3 DEF Numbered, Past, SessionAnswered, HealRunTypeOK
<1>5. patch' \notin disk /\ \A t \in trials : t.patch # patch'
  BY <1>4 DEF PatchesNumbered, HealRunTypeOK, Trials
<1>6. \A i \in DOMAIN outcomes : outcomes[i].patch # patch'
  <2> SUFFICES ASSUME NEW i \in DOMAIN outcomes PROVE outcomes[i].patch # patch'
    OBVIOUS
  <2>1. outcomes[i].patch \in Patches \cup {NoPatch}
    <3>1. outcomes[i] \in Outcomes
      BY DEF HealRunTypeOK
    <3> QED
      BY <3>1 DEF Outcomes
  <2> QED
    BY <1>3, <1>4, <2>1, HealRunAssumption DEF PatchesNumbered
<1>7. /\ \A t \in trials' : t \in trials
            \/ (t.patch = patch' /\ t.where = "sandbox" /\ t.status # "fail")
      /\ trials \subseteq trials'
  BY <1>1
<1> QED
  BY <1>3, <1>5, <1>6, <1>7

\* The iteration of the patch in hand.
LEMMA CurrentKept ==
    ASSUME HealRunTypeOK, PatchesNumbered, PatchIsCurrent, [RunNext]_healRunVars
    PROVE  PatchIsCurrent'
<1> USE DEF HealRunTypeOK, PatchIsCurrent, InHand, Chosen, Writing,
            loopVars, fileVars, sessionVars
<1>1. CASE ManifestSucceeds \/ ManifestFails \/ StopHealing
  BY <1>1 DEF ManifestSucceeds, ManifestFails, StopHealing
<1>2. CASE StartSession
  BY <1>2 DEF StartSession, MayHeal
<1>3. CASE SessionStep \/ SessionGaveUp
  BY <1>3 DEF SessionStep, SessionGaveUp
<1>4. CASE SessionAnswered
  BY <1>4, AnswerIsFresh DEF SessionAnswered
<1>5. CASE BlockedByGuardrail \/ StageForReview \/ SkipGates \/ RunGates \/
         ExplainBlocks
  BY <1>5 DEF BlockedByGuardrail, StageForReview, SkipGates, RunGates,
             ExplainBlocks
<1>6. CASE SandboxRejects \/ AcceptOnSandbox \/ PatchInvalid \/
         TryOnRealData \/ PatchDidNotHelp
  BY <1>6 DEF SandboxRejects, AcceptOnSandbox, PatchInvalid, TryOnRealData,
             PatchDidNotHelp
<1>7. CASE BackUp \/ ReplaceBlueprint \/ Archive \/ WriteFails \/ Report
  BY <1>7 DEF BackUp, ReplaceBlueprint, Archive, WriteEnds, WriteFails,
             Report
<1>8. CASE Killed \/ NextRun
  BY <1>8 DEF Killed, NextRun
<1>9. CASE UNCHANGED healRunVars
  BY <1>9 DEF healRunVars
<1> QED
  BY <1>1, <1>2, <1>3, <1>4, <1>5, <1>6, <1>7, <1>8, <1>9 DEF RunNext, RunStep

\* The trust in the patch in hand.
LEMMA TrustKept ==
    ASSUME HealRunTypeOK, PatchesNumbered, PatchIsCurrent, TrustIsEarned,
           [RunNext]_healRunVars
    PROVE  TrustIsEarned'
<1> USE DEF HealRunTypeOK, TrustIsEarned, Delegated, InHand, Chosen,
            Writing, loopVars, fileVars, sessionVars
<1>1. CASE ManifestSucceeds \/ ManifestFails \/ StopHealing \/ StartSession \/
         SessionStep
  BY <1>1 DEF ManifestSucceeds, ManifestFails, StopHealing, StartSession,
             SessionStep
<1>2. CASE SessionGaveUp
  BY <1>2 DEF SessionGaveUp
<1>3. CASE SessionAnswered
  <2>1. patch'.trust \in {"sure", "unsure", "recovered"}
    BY <1>3, AnswerIsFresh DEF Patches
  <2>2. mode' = TrustedMode(patch'.trust)
    BY <1>3, AnswerIsFresh
  <2> QED
    BY <1>3, <2>1, <2>2 DEF SessionAnswered, TrustedMode
<1>4. CASE BlockedByGuardrail \/ StageForReview \/ SkipGates \/ RunGates \/
         ExplainBlocks
  BY <1>4 DEF BlockedByGuardrail, StageForReview, SkipGates, RunGates,
             ExplainBlocks
<1>5. CASE SandboxRejects \/ AcceptOnSandbox \/ PatchInvalid \/
         TryOnRealData \/ PatchDidNotHelp
  BY <1>5 DEF SandboxRejects, AcceptOnSandbox, PatchInvalid, TryOnRealData,
             PatchDidNotHelp
<1>6. CASE BackUp \/ ReplaceBlueprint \/ Archive \/ WriteFails \/ Report
  BY <1>6 DEF BackUp, ReplaceBlueprint, Archive, WriteEnds, WriteFails,
             Report
<1>7. CASE Killed \/ NextRun
  BY <1>7 DEF Killed, NextRun
<1>8. CASE UNCHANGED healRunVars
  BY <1>8 DEF healRunVars
<1> QED
  BY <1>1, <1>2, <1>3, <1>4, <1>5, <1>6, <1>7, <1>8 DEF RunNext, RunStep

\* The patches on record, which are patches.
LEMMA PatchesOnRecord ==
    ASSUME HealRunTypeOK
    PROVE  /\ \A p \in disk : p \in Patches
           /\ \A t \in trials : t.patch \in Patches
           /\ \A i \in DOMAIN outcomes : outcomes[i].patch \in Patches \cup {NoPatch}
<1>1. \A i \in DOMAIN outcomes : outcomes[i] \in Outcomes
  BY DEF HealRunTypeOK
<1> QED
  BY <1>1 DEF HealRunTypeOK, Trials, Outcomes

\* The numbers of the patches on record.
LEMMA NumbersKept ==
    ASSUME HealRunTypeOK, PatchesNumbered, PatchIsCurrent, [RunNext]_healRunVars
    PROVE  PatchesNumbered'
<1> USE DEF HealRunTypeOK, PatchesNumbered, PatchIsCurrent, Numbered, Past,
            InHand, Chosen, Writing, loopVars, fileVars, sessionVars
<1>1. CASE ManifestSucceeds \/ ManifestFails \/ StopHealing \/ StartSession \/
         SessionStep
  BY <1>1 DEF ManifestSucceeds, ManifestFails, StopHealing, StartSession,
             SessionStep
<1>2. CASE SessionGaveUp
  <2>1. \A i \in DOMAIN outcomes' :
           \/ i \in DOMAIN outcomes /\ outcomes'[i] = outcomes[i]
           \/ outcomes'[i].patch = NoPatch
    BY <1>2, RowsAdded
  <2> QED
    BY <1>2, <2>1 DEF SessionGaveUp
<1>3. CASE SessionAnswered
  BY <1>3, AnswerIsFresh DEF SessionAnswered
<1>4. CASE BlockedByGuardrail
  <2>1. \A i \in DOMAIN outcomes' :
           \/ i \in DOMAIN outcomes /\ outcomes'[i] = outcomes[i]
           \/ outcomes'[i].patch = patch
    <3>1. [patch |-> patch, applied |-> FALSE, success |-> FALSE] \in Outcomes
      BY <1>4 DEF BlockedByGuardrail, Outcomes
    <3> QED
      BY <1>4, <3>1, RowAdded DEF BlockedByGuardrail, RecordOutcome
  <2> QED
    BY <1>4, <2>1 DEF BlockedByGuardrail
<1>5. CASE StageForReview
  <2>1. \A i \in DOMAIN outcomes' :
           \/ i \in DOMAIN outcomes /\ outcomes'[i] = outcomes[i]
           \/ outcomes'[i].patch = patch
    <3>1. [patch |-> patch, applied |-> FALSE, success |-> FALSE] \in Outcomes
      BY <1>5 DEF StageForReview, Outcomes
    <3> QED
      BY <1>5, <3>1, RowAdded DEF StageForReview, RecordOutcome
  <2> QED
    BY <1>5, <2>1 DEF StageForReview
<1>6. CASE SkipGates
  <2>1. \A p \in Patches : Numbered(p) => Numbered(p)'
    BY <1>6 DEF SkipGates, Patches
  <2> HIDE DEF Numbered
  <2> QED
    BY <1>6, <2>1, PatchesOnRecord DEF SkipGates
<1>7. CASE RunGates
  <2>1. \A t \in trials' : t \in trials \/ t.patch = patch
    BY <1>7 DEF RunGates
  <2>2. \A p \in Patches : Numbered(p) => Numbered(p)'
    BY <1>7 DEF RunGates, Patches
  <2>3. Numbered(patch)'
    BY <1>7 DEF RunGates, Patches
  <2> HIDE DEF Numbered
  <2> QED
    BY <1>7, <2>1, <2>2, <2>3, PatchesOnRecord DEF RunGates
<1>8. CASE ExplainBlocks
  <2>1. \A i \in DOMAIN outcomes' :
           \/ i \in DOMAIN outcomes /\ outcomes'[i] = outcomes[i]
           \/ outcomes'[i].patch = patch
    <3>1. [patch |-> patch, applied |-> FALSE, success |-> FALSE] \in Outcomes
      BY <1>8 DEF ExplainBlocks, Outcomes
    <3> QED
      BY <1>8, <3>1, RowAdded DEF ExplainBlocks, RecordOutcome
  <2> QED
    BY <1>8, <2>1 DEF ExplainBlocks
<1>9. CASE SandboxRejects
  <2>1. \A i \in DOMAIN outcomes' :
           \/ i \in DOMAIN outcomes /\ outcomes'[i] = outcomes[i]
           \/ outcomes'[i].patch = patch
    <3>1. [patch |-> patch, applied |-> FALSE, success |-> FALSE] \in Outcomes
      BY <1>9 DEF SandboxRejects, Outcomes
    <3> QED
      BY <1>9, <3>1, RowAdded DEF SandboxRejects, RecordOutcome
  <2> QED
    BY <1>9, <2>1 DEF SandboxRejects
<1>10. CASE AcceptOnSandbox
  BY <1>10 DEF AcceptOnSandbox
<1>11. CASE PatchInvalid
  <2>1. \A i \in DOMAIN outcomes' :
           \/ i \in DOMAIN outcomes /\ outcomes'[i] = outcomes[i]
           \/ outcomes'[i].patch = patch
    <3>1. [patch |-> patch, applied |-> FALSE, success |-> FALSE] \in Outcomes
      BY <1>11 DEF PatchInvalid, Outcomes
    <3> QED
      BY <1>11, <3>1, RowAdded DEF PatchInvalid, RecordOutcome
  <2> QED
    BY <1>11, <2>1 DEF PatchInvalid
<1>12. CASE TryOnRealData
  <2>1. PICK works \in BOOLEAN :
             /\ trials' = trials \cup {[patch |-> patch, where |-> "real",
                                        status |-> IF works THEN "pass" ELSE "fail"]}
             /\ RecordOutcome(TRUE, works)
    BY <1>12 DEF TryOnRealData
  <2>2. \A i \in DOMAIN outcomes' :
           \/ i \in DOMAIN outcomes /\ outcomes'[i] = outcomes[i]
           \/ outcomes'[i].patch = patch
    <3>1. [patch |-> patch, applied |-> TRUE, success |-> works] \in Outcomes
      BY <1>12 DEF TryOnRealData, Outcomes
    <3> QED
      BY <2>1, <3>1, RowAdded DEF RecordOutcome
  <2>3. \A t \in trials' : t \in trials \/ t.patch = patch
    BY <2>1
  <2> QED
    BY <1>12, <2>2, <2>3 DEF TryOnRealData
<1>13. CASE PatchDidNotHelp \/ BackUp
  BY <1>13 DEF PatchDidNotHelp, BackUp
<1>14. CASE ReplaceBlueprint
  BY <1>14 DEF ReplaceBlueprint
<1>15. CASE Archive
  <2>1. \A i \in DOMAIN outcomes' :
           \/ i \in DOMAIN outcomes /\ outcomes'[i] = outcomes[i]
           \/ outcomes'[i].patch = patch
    <3>1. [patch |-> patch, applied |-> TRUE, success |-> TRUE] \in Outcomes
      BY <1>15 DEF Archive, Outcomes
    <3> QED
      BY <1>15, <3>1, RowAdded DEF Archive, RecordOutcome, WriteEnds
  <2> QED
    BY <1>15, <2>1 DEF Archive, WriteEnds
<1>16. CASE WriteFails
  <2>1. \A i \in DOMAIN outcomes' :
           \/ i \in DOMAIN outcomes /\ outcomes'[i] = outcomes[i]
           \/ outcomes'[i].patch = patch
    <3>1. [patch |-> patch, applied |-> TRUE, success |-> TRUE] \in Outcomes
      BY <1>16 DEF WriteFails, Outcomes
    <3> QED
      BY <1>16, <3>1, RowAdded DEF WriteFails, RecordOutcome, WriteEnds
  <2> QED
    BY <1>16, <2>1 DEF WriteFails, WriteEnds
<1>17. CASE Report \/ Killed
  BY <1>17 DEF Report, Killed
<1>18. CASE NextRun
  <2>1. \A p \in Patches : Numbered(p) => Numbered(p)'
    BY <1>18 DEF NextRun, Patches
  <2> HIDE DEF Numbered
  <2> QED
    BY <1>18, <2>1, PatchesOnRecord DEF NextRun
<1>19. CASE UNCHANGED healRunVars
  BY <1>19 DEF healRunVars
<1> QED
  BY <1>1, <1>2, <1>3, <1>4, <1>5, <1>6, <1>7, <1>8, <1>9, <1>10, <1>11,
     <1>12, <1>13, <1>14, <1>15, <1>16, <1>17, <1>18, <1>19 DEF RunNext, RunStep

\* What the gate remembers.
LEMMA GateKept ==
    ASSUME HealRunTypeOK, PatchesNumbered, PatchIsCurrent, GateRemembered,
           [RunNext]_healRunVars
    PROVE  GateRemembered'
<1> USE DEF HealRunTypeOK, GateRemembered, Passed, InHand, Chosen, Writing,
            loopVars, fileVars, sessionVars
<1>1. CASE ManifestSucceeds \/ ManifestFails \/ StopHealing \/ StartSession \/
         SessionStep
  BY <1>1 DEF ManifestSucceeds, ManifestFails, StopHealing, StartSession,
             SessionStep
<1>2. CASE SessionGaveUp
  BY <1>2 DEF SessionGaveUp
<1>3. CASE SessionAnswered
  <2>1. \A t \in trials' : t.patch = patch' => t.where = "sandbox" /\ t.status # "fail"
    BY <1>3, AnswerIsFresh
  <2> QED
    BY <1>3, <2>1 DEF SessionAnswered
<1>4. CASE BlockedByGuardrail \/ StageForReview \/ SkipGates
  BY <1>4 DEF BlockedByGuardrail, StageForReview, SkipGates
<1>5. CASE RunGates
  <2>1. \A t \in trials' : t \in trials
           \/ (t.patch = patch /\ t.where = "sandbox" /\ t.status = gate')
    BY <1>5 DEF RunGates
  <2>2. gate' = "pass" => Passed(patch, "sandbox")'
    BY <1>5 DEF RunGates
  <2> QED
    BY <1>5, <2>1, <2>2 DEF RunGates
<1>6. CASE ExplainBlocks \/ SandboxRejects \/ AcceptOnSandbox \/ PatchInvalid
  BY <1>6 DEF ExplainBlocks, SandboxRejects, AcceptOnSandbox, PatchInvalid
<1>7. CASE TryOnRealData
  <2>1. trials \subseteq trials' /\ phase' \in {"backup", "unfixed"}
    BY <1>7 DEF TryOnRealData
  <2> QED
    BY <1>7, <2>1 DEF TryOnRealData
<1>8. CASE PatchDidNotHelp \/ BackUp \/ ReplaceBlueprint \/ Archive \/
         WriteFails
  BY <1>8 DEF PatchDidNotHelp, BackUp, ReplaceBlueprint, Archive, WriteEnds,
             WriteFails
<1>9. CASE Report \/ Killed \/ NextRun
  BY <1>9 DEF Report, Killed, NextRun
<1>10. CASE UNCHANGED healRunVars
  BY <1>10 DEF healRunVars
<1> QED
  BY <1>1, <1>2, <1>3, <1>4, <1>5, <1>6, <1>7, <1>8, <1>9, <1>10 DEF RunNext, RunStep

\* A patch gets to real data through trust, the guardrails and the gates.
LEMMA TrustNeeded ==
    ASSUME HealRunTypeOK, PatchesNumbered, PatchIsCurrent, TrustIsEarned, GateRemembered,
           RealDataNeedsTrust, [RunNext]_healRunVars
    PROVE  RealDataNeedsTrust'
<1> USE DEF HealRunTypeOK, RealDataNeedsTrust, InHand, Chosen, Writing,
            loopVars, fileVars, sessionVars
<1>1. CASE ManifestSucceeds \/ ManifestFails \/ StopHealing \/ StartSession \/
         SessionStep
  BY <1>1 DEF ManifestSucceeds, ManifestFails, StopHealing, StartSession,
             SessionStep
<1>2. CASE SessionGaveUp
  BY <1>2 DEF SessionGaveUp
<1>3. CASE SessionAnswered
  BY <1>3, AnswerIsFresh DEF SessionAnswered
<1>4. CASE BlockedByGuardrail \/ StageForReview \/ SkipGates
  BY <1>4 DEF BlockedByGuardrail, StageForReview, SkipGates
<1>5. CASE RunGates
  <2>1. \A t \in trials' : t \in trials \/ (t.patch = patch /\ t.where = "sandbox")
    BY <1>5 DEF RunGates
  <2>2. \A t \in trials : t.where = "real" => t.patch # patch
    BY <1>5 DEF RunGates, GateRemembered
  <2> QED
    BY <1>5, <2>1, <2>2 DEF RunGates
<1>6. CASE ExplainBlocks \/ SandboxRejects \/ AcceptOnSandbox \/ PatchInvalid
  BY <1>6 DEF ExplainBlocks, SandboxRejects, AcceptOnSandbox, PatchInvalid
<1>7. CASE TryOnRealData
  <2>1. \A t \in trials' : t \in trials \/ (t.patch = patch /\ t.where = "real")
    BY <1>7 DEF TryOnRealData
  <2>2. conf.mode \in Delegated /\ patch.trust = "sure" /\ patch.allowed
    BY <1>7 DEF TryOnRealData, TrustIsEarned, Delegated
  <2>3. \A t \in trials : t.patch = patch => t.status # "fail"
    BY <1>7 DEF TryOnRealData, GateRemembered
  <2> QED
    BY <1>7, <2>1, <2>2, <2>3 DEF TryOnRealData, Delegated
<1>8. CASE PatchDidNotHelp \/ BackUp \/ ReplaceBlueprint \/ Archive \/
         WriteFails
  BY <1>8 DEF PatchDidNotHelp, BackUp, ReplaceBlueprint, Archive, WriteEnds,
             WriteFails
<1>9. CASE Report \/ Killed \/ NextRun
  BY <1>9 DEF Report, Killed, NextRun
<1>10. CASE UNCHANGED healRunVars
  BY <1>10 DEF healRunVars
<1> QED
  BY <1>1, <1>2, <1>3, <1>4, <1>5, <1>6, <1>7, <1>8, <1>9, <1>10 DEF RunNext, RunStep

\* What a trial on real data leaves behind.
LEMMA TrialRecorded ==
    ASSUME HealRunTypeOK, PatchIsCurrent, TryOnRealData
    PROVE  \E works \in BOOLEAN :
             /\ trials' = trials \cup {[patch |-> patch, where |-> "real",
                                        status |-> IF works THEN "pass" ELSE "fail"]}
             /\ \A i \in DOMAIN outcomes' :
                  \/ i \in DOMAIN outcomes /\ outcomes'[i] = outcomes[i]
                  \/ outcomes'[i] = [patch |-> patch, applied |-> TRUE, success |-> works]
             /\ result' = IF works THEN "success" ELSE "error"
             /\ phase' = IF works THEN "backup" ELSE "unfixed"
<1>1. PICK works \in BOOLEAN :
           /\ trials' = trials \cup {[patch |-> patch, where |-> "real",
                                      status |-> IF works THEN "pass" ELSE "fail"]}
           /\ RecordOutcome(TRUE, works)
           /\ result' = IF works THEN "success" ELSE "error"
           /\ phase' = IF works THEN "backup" ELSE "unfixed"
  BY DEF TryOnRealData
<1>2. [patch |-> patch, applied |-> TRUE, success |-> works] \in Outcomes
  BY DEF TryOnRealData, Outcomes, PatchIsCurrent, InHand, Chosen
<1>3. \A i \in DOMAIN outcomes' :
         \/ i \in DOMAIN outcomes /\ outcomes'[i] = outcomes[i]
         \/ outcomes'[i] = [patch |-> patch, applied |-> TRUE, success |-> works]
  BY <1>1, <1>2, RowAdded DEF RecordOutcome, HealRunTypeOK
<1> QED
  BY <1>1, <1>3

\* Nothing goes into the blueprint unproven, and every write has its backup.
LEMMA WriteKept ==
    ASSUME HealRunTypeOK, PatchIsCurrent, WriteIsProven, ResultTells, GateRemembered,
           [RunNext]_healRunVars
    PROVE  WriteIsProven'
<1> USE DEF HealRunTypeOK, WriteIsProven, Passed, SandboxSuffices, InHand,
            Chosen, Writing, loopVars, fileVars, sessionVars
<1>1. CASE ManifestSucceeds \/ ManifestFails \/ StopHealing \/ StartSession \/
         SessionStep
  BY <1>1 DEF ManifestSucceeds, ManifestFails, StopHealing, StartSession,
             SessionStep
<1>2. CASE SessionGaveUp
  BY <1>2 DEF SessionGaveUp
<1>3. CASE SessionAnswered
  BY <1>3 DEF SessionAnswered
<1>4. CASE BlockedByGuardrail \/ StageForReview \/ SkipGates \/ RunGates \/
         ExplainBlocks
  BY <1>4 DEF BlockedByGuardrail, StageForReview, SkipGates, RunGates,
             ExplainBlocks
<1>5. CASE SandboxRejects
  BY <1>5 DEF SandboxRejects
<1>6. CASE AcceptOnSandbox
  BY <1>6 DEF AcceptOnSandbox, ResultTells
<1>7. CASE PatchInvalid
  BY <1>7 DEF PatchInvalid
<1>8. CASE TryOnRealData
  <2>1. PICK works \in BOOLEAN :
             /\ trials' = trials \cup {[patch |-> patch, where |-> "real",
                                        status |-> IF works THEN "pass" ELSE "fail"]}
             /\ \A i \in DOMAIN outcomes' :
                  \/ i \in DOMAIN outcomes /\ outcomes'[i] = outcomes[i]
                  \/ outcomes'[i] = [patch |-> patch, applied |-> TRUE, success |-> works]
             /\ result' = IF works THEN "success" ELSE "error"
             /\ phase' = IF works THEN "backup" ELSE "unfixed"
    BY <1>8, TrialRecorded
  <2>2. CASE works
    BY <1>8, <2>1, <2>2 DEF TryOnRealData
  <2>3. CASE ~works
    BY <1>8, <2>1, <2>3 DEF TryOnRealData
  <2> QED
    BY <2>2, <2>3
<1>9. CASE PatchDidNotHelp \/ BackUp \/ ReplaceBlueprint \/ Archive \/
         WriteFails
  BY <1>9 DEF PatchDidNotHelp, BackUp, ReplaceBlueprint, Archive, WriteEnds,
             WriteFails
<1>10. CASE Report \/ Killed \/ NextRun
  BY <1>10 DEF Report, Killed, NextRun
<1>11. CASE UNCHANGED healRunVars
  BY <1>11 DEF healRunVars
<1> QED
  BY <1>1, <1>2, <1>3, <1>4, <1>5, <1>6, <1>7, <1>8, <1>9, <1>10, <1>11 DEF RunNext, RunStep

\* A patch that may still be written has not been turned down.
LEMMA NotTurnedDownKept ==
    ASSUME HealRunTypeOK, PatchesNumbered, PatchIsCurrent, NotTurnedDown,
           [RunNext]_healRunVars
    PROVE  NotTurnedDown'
<1> USE DEF HealRunTypeOK, NotTurnedDown, InHand, Chosen, Writing, loopVars,
            fileVars, sessionVars
<1>1. CASE ManifestSucceeds \/ ManifestFails \/ StopHealing \/ StartSession \/
         SessionStep
  BY <1>1 DEF ManifestSucceeds, ManifestFails, StopHealing, StartSession,
             SessionStep
<1>2. CASE SessionGaveUp
  BY <1>2 DEF SessionGaveUp
<1>3. CASE SessionAnswered
  BY <1>3, AnswerIsFresh DEF SessionAnswered
<1>4. CASE BlockedByGuardrail \/ StageForReview \/ SkipGates \/ RunGates \/
         ExplainBlocks
  BY <1>4 DEF BlockedByGuardrail, StageForReview, SkipGates, RunGates,
             ExplainBlocks
<1>5. CASE SandboxRejects \/ AcceptOnSandbox \/ PatchInvalid
  BY <1>5 DEF SandboxRejects, AcceptOnSandbox, PatchInvalid
<1>6. CASE TryOnRealData
  <2>1. PICK works \in BOOLEAN :
             /\ trials' = trials \cup {[patch |-> patch, where |-> "real",
                                        status |-> IF works THEN "pass" ELSE "fail"]}
             /\ \A i \in DOMAIN outcomes' :
                  \/ i \in DOMAIN outcomes /\ outcomes'[i] = outcomes[i]
                  \/ outcomes'[i] = [patch |-> patch, applied |-> TRUE, success |-> works]
             /\ result' = IF works THEN "success" ELSE "error"
             /\ phase' = IF works THEN "backup" ELSE "unfixed"
    BY <1>6, TrialRecorded
  <2> QED
    BY <1>6, <2>1 DEF TryOnRealData
<1>7. CASE PatchDidNotHelp \/ BackUp \/ ReplaceBlueprint \/ Archive \/
         WriteFails
  BY <1>7 DEF PatchDidNotHelp, BackUp, ReplaceBlueprint, Archive, WriteEnds,
             WriteFails
<1>8. CASE Report \/ Killed \/ NextRun
  BY <1>8 DEF Report, Killed, NextRun
<1>9. CASE UNCHANGED healRunVars
  BY <1>9 DEF healRunVars
<1> QED
  BY <1>1, <1>2, <1>3, <1>4, <1>5, <1>6, <1>7, <1>8, <1>9 DEF RunNext, RunStep

\* A run writes one patch, as its last deed.
LEMMA WritesOnceKept ==
    ASSUME HealRunTypeOK, PatchesNumbered, PatchIsCurrent, WriteIsProven, WritesOnce,
           ResultTells, [RunNext]_healRunVars
    PROVE  WritesOnce'
<1> USE DEF HealRunTypeOK, WritesOnce, Passed, InHand, Chosen, Writing,
            loopVars, fileVars, sessionVars
<1>1. CASE ManifestSucceeds
  BY <1>1 DEF ManifestSucceeds
<1>2. CASE ManifestFails \/ StopHealing \/ StartSession \/ SessionStep \/
         SessionGaveUp
  BY <1>2 DEF ManifestFails, StopHealing, StartSession, SessionStep,
             SessionGaveUp
<1>3. CASE SessionAnswered
  <2>1. trials \subseteq trials'
    BY <1>3, AnswerIsFresh
  <2> QED
    BY <1>3, <2>1 DEF SessionAnswered
<1>4. CASE BlockedByGuardrail \/ StageForReview \/ SkipGates \/ RunGates \/
         ExplainBlocks
  BY <1>4 DEF BlockedByGuardrail, StageForReview, SkipGates, RunGates,
             ExplainBlocks
<1>5. CASE SandboxRejects \/ AcceptOnSandbox \/ PatchInvalid
  BY <1>5 DEF SandboxRejects, AcceptOnSandbox, PatchInvalid
<1>6. CASE TryOnRealData
  <2>1. trials \subseteq trials' /\ phase' \in {"backup", "unfixed"}
    BY <1>6 DEF TryOnRealData
  <2> QED
    BY <1>6, <2>1 DEF TryOnRealData
<1>7. CASE PatchDidNotHelp \/ BackUp
  BY <1>7 DEF PatchDidNotHelp, BackUp
<1>8. CASE ReplaceBlueprint
  BY <1>8 DEF ReplaceBlueprint, WriteIsProven
<1>9. CASE Archive \/ WriteFails \/ Report \/ Killed
  BY <1>9 DEF Archive, WriteEnds, WriteFails, Report, Killed
<1>10. CASE NextRun
  <2>1. \A p \in disk : p.run # run'
    BY <1>10, PatchesOnRecord DEF NextRun, PatchesNumbered, Numbered, Patches
  <2> QED
    BY <1>10, <2>1 DEF NextRun
<1>11. CASE UNCHANGED healRunVars
  BY <1>11 DEF healRunVars
<1> QED
  BY <1>1, <1>2, <1>3, <1>4, <1>5, <1>6, <1>7, <1>8, <1>9, <1>10, <1>11 DEF RunNext, RunStep

\* The last result tells whether a patch of this run has worked.
LEMMA ResultKept ==
    ASSUME HealRunTypeOK, PatchesNumbered, PatchIsCurrent, ResultTells,
           [RunNext]_healRunVars
    PROVE  ResultTells'
<1> USE DEF HealRunTypeOK, ResultTells, InHand, Chosen, Writing, loopVars,
            fileVars, sessionVars
<1>1. CASE ManifestSucceeds \/ ManifestFails \/ StopHealing \/ StartSession \/
         SessionStep
  BY <1>1 DEF ManifestSucceeds, ManifestFails, StopHealing, StartSession,
             SessionStep
<1>2. CASE SessionGaveUp
  BY <1>2 DEF SessionGaveUp
<1>3. CASE SessionAnswered
  BY <1>3, AnswerIsFresh DEF SessionAnswered
<1>4. CASE BlockedByGuardrail \/ StageForReview \/ SkipGates
  BY <1>4 DEF BlockedByGuardrail, StageForReview, SkipGates
<1>5. CASE RunGates
  <2>1. \A t \in trials' : t \in trials \/ t.where = "sandbox"
    BY <1>5 DEF RunGates
  <2> QED
    BY <1>5, <2>1 DEF RunGates
<1>6. CASE ExplainBlocks \/ SandboxRejects \/ AcceptOnSandbox \/ PatchInvalid
  BY <1>6 DEF ExplainBlocks, SandboxRejects, AcceptOnSandbox, PatchInvalid
<1>7. CASE TryOnRealData
  <2>1. PICK works \in BOOLEAN :
             /\ trials' = trials \cup {[patch |-> patch, where |-> "real",
                                        status |-> IF works THEN "pass" ELSE "fail"]}
             /\ \A i \in DOMAIN outcomes' :
                  \/ i \in DOMAIN outcomes /\ outcomes'[i] = outcomes[i]
                  \/ outcomes'[i] = [patch |-> patch, applied |-> TRUE, success |-> works]
             /\ result' = IF works THEN "success" ELSE "error"
             /\ phase' = IF works THEN "backup" ELSE "unfixed"
    BY <1>7, TrialRecorded
  <2>2. CASE works
    BY <1>7, <2>1, <2>2 DEF TryOnRealData
  <2>3. CASE ~works
    BY <1>7, <2>1, <2>3 DEF TryOnRealData
  <2> QED
    BY <2>2, <2>3
<1>8. CASE PatchDidNotHelp \/ BackUp \/ ReplaceBlueprint \/ Archive \/
         WriteFails
  BY <1>8 DEF PatchDidNotHelp, BackUp, ReplaceBlueprint, Archive, WriteEnds,
             WriteFails
<1>9. CASE Report \/ Killed
  BY <1>9 DEF Report, Killed
<1>10. CASE NextRun
  <2>1. \A t \in trials : t.patch.run # run'
    BY <1>10, PatchesOnRecord DEF NextRun, PatchesNumbered, Numbered, Patches
  <2> QED
    BY <1>10, <2>1 DEF NextRun
<1>11. CASE UNCHANGED healRunVars
  BY <1>11 DEF healRunVars
<1> QED
  BY <1>1, <1>2, <1>3, <1>4, <1>5, <1>6, <1>7, <1>8, <1>9, <1>10, <1>11 DEF RunNext, RunStep

\* A run that reports a staged patch has one in pending/ and wrote nothing.
LEMMA StagedKept ==
    ASSUME HealRunTypeOK, PatchIsCurrent, WritesOnce, StagedTells, [RunNext]_healRunVars
    PROVE  StagedTells'
<1> USE DEF HealRunTypeOK, StagedTells, InHand, Chosen, Writing, loopVars,
            fileVars, sessionVars
<1>1. CASE ManifestSucceeds \/ ManifestFails \/ StopHealing \/ StartSession \/
         SessionStep
  BY <1>1 DEF ManifestSucceeds, ManifestFails, StopHealing, StartSession,
             SessionStep
<1>2. CASE SessionGaveUp \/ SessionAnswered \/ BlockedByGuardrail
  BY <1>2 DEF SessionGaveUp, SessionAnswered, BlockedByGuardrail
<1>3. CASE StageForReview
  <2>1. patch \in pending' /\ patch.run = run
    BY <1>3 DEF StageForReview, PatchIsCurrent
  <2>2. \A p \in disk : p.run # run
    BY <1>3 DEF StageForReview, WritesOnce
  <2> QED
    BY <1>3, <2>1, <2>2 DEF StageForReview
<1>4. CASE SkipGates \/ RunGates \/ ExplainBlocks \/ SandboxRejects \/
         AcceptOnSandbox
  BY <1>4 DEF SkipGates, RunGates, ExplainBlocks, SandboxRejects,
             AcceptOnSandbox
<1>5. CASE PatchInvalid \/ TryOnRealData \/ PatchDidNotHelp \/ BackUp \/
         ReplaceBlueprint
  BY <1>5 DEF PatchInvalid, TryOnRealData, PatchDidNotHelp, StageFailedPatch,
             BackUp, ReplaceBlueprint
<1>6. CASE Archive \/ WriteFails \/ Report \/ Killed \/ NextRun
  BY <1>6 DEF Archive, WriteEnds, WriteFails, Report, Killed, NextRun
<1>7. CASE UNCHANGED healRunVars
  BY <1>7 DEF healRunVars
<1> QED
  BY <1>1, <1>2, <1>3, <1>4, <1>5, <1>6, <1>7 DEF RunNext, RunStep

\* A patch in the blueprint stays proven, and archive, blueprint and backups agree.
LEMMA BlueprintKept ==
    ASSUME HealRunTypeOK, PatchIsCurrent, WriteIsProven, GateRemembered,
           BlueprintAccountedFor, [RunNext]_healRunVars
    PROVE  BlueprintAccountedFor'
<1> USE DEF HealRunTypeOK, BlueprintAccountedFor, BlueprintOnlyProven,
            ArchiveFollowsBlueprint, loopVars, fileVars, sessionVars
<1>1. CASE ManifestSucceeds \/ ManifestFails \/ StopHealing \/ StartSession \/
         SessionStep
  BY <1>1 DEF ManifestSucceeds, ManifestFails, StopHealing, StartSession,
             SessionStep
<1>2. CASE SessionGaveUp
  BY <1>2 DEF SessionGaveUp
<1>3. CASE SessionAnswered
  <2>1. trials \subseteq trials' /\ conf' = conf /\ disk' = disk
    BY <1>3 DEF SessionAnswered
  <2> QED
    BY <1>3, <2>1 DEF SessionAnswered
<1>4. CASE BlockedByGuardrail \/ StageForReview \/ SkipGates
  BY <1>4 DEF BlockedByGuardrail, StageForReview, SkipGates
<1>5. CASE RunGates
  <2>1. trials \subseteq trials' /\ conf' = conf /\ disk' = disk
    BY <1>5 DEF RunGates
  <2> QED
    BY <1>5, <2>1 DEF RunGates
<1>6. CASE ExplainBlocks \/ SandboxRejects \/ AcceptOnSandbox \/ PatchInvalid
  BY <1>6 DEF ExplainBlocks, SandboxRejects, AcceptOnSandbox, PatchInvalid
<1>7. CASE TryOnRealData
  <2>1. trials \subseteq trials' /\ conf' = conf /\ disk' = disk
    BY <1>7 DEF TryOnRealData
  <2> QED
    BY <1>7, <2>1 DEF TryOnRealData
<1>8. CASE PatchDidNotHelp \/ BackUp
  BY <1>8 DEF PatchDidNotHelp, BackUp
<1>9. CASE ReplaceBlueprint
  <2>1. \E t \in trials : /\ t.patch = patch /\ t.status = "pass"
                          /\ t.where = "real" \/ conf.sandboxOnly
    <3>1. SandboxSuffices \/ Passed(patch, "real")
      BY <1>9 DEF ReplaceBlueprint, WriteIsProven, Writing
    <3>2. SandboxSuffices => conf.sandboxOnly /\ Passed(patch, "sandbox")
      BY <1>9 DEF ReplaceBlueprint, SandboxSuffices, GateRemembered, Writing
    <3> QED
      BY <3>1, <3>2 DEF Passed
  <2>2. patch \in backups
    BY <1>9 DEF ReplaceBlueprint, WriteIsProven
  <2>3. disk' = disk \cup {patch} /\ UNCHANGED <<conf, trials, backups, applied>>
    BY <1>9 DEF ReplaceBlueprint
  <2>4. BlueprintOnlyProven'
    BY <2>1, <2>3
  <2>5. ArchiveFollowsBlueprint'
    BY <2>2, <2>3
  <2> QED
    BY <2>4, <2>5
<1>10. CASE Archive
  BY <1>10 DEF Archive, WriteIsProven
<1>11. CASE WriteFails \/ Report \/ Killed \/ NextRun
  BY <1>11 DEF WriteFails, WriteEnds, Report, Killed, NextRun
<1>12. CASE UNCHANGED healRunVars
  BY <1>12 DEF healRunVars
<1> QED
  BY <1>1, <1>2, <1>3, <1>4, <1>5, <1>6, <1>7, <1>8, <1>9, <1>10, <1>11,
     <1>12 DEF RunNext, RunStep

\* A row of healing_outcomes that can be believed.
RowTruthful(o) ==
    /\ o.success => Passed(o.patch, "real") \/ (conf.sandboxOnly /\ Passed(o.patch, "sandbox"))
    /\ ~o.applied => o.patch \notin disk
    /\ ~o.applied => \A t \in trials : t.patch = o.patch => t.where = "sandbox"

LEMMA OutcomesByRow ==
    OutcomesTruthful <=> \A i \in DOMAIN outcomes : RowTruthful(outcomes[i])
  BY DEF OutcomesTruthful, RowTruthful, Passed

\* Rows stay true, and so is every row that is added.
LEMMA OutcomesKept ==
    ASSUME HealRunTypeOK, PatchesNumbered, PatchIsCurrent, WriteIsProven, WritesOnce,
           GateRemembered, NotTurnedDown, OutcomesTruthful, [RunNext]_healRunVars
    PROVE  OutcomesTruthful'
<1>a. \A i \in DOMAIN outcomes : RowTruthful(outcomes[i])
  BY OutcomesByRow
<1>b. OutcomesTruthful' <=> \A i \in DOMAIN outcomes' : RowTruthful(outcomes[i])'
  BY DEF OutcomesTruthful, RowTruthful, Passed
<1> DEFINE turnedDown == [patch |-> patch, applied |-> FALSE, success |-> FALSE]
           written    == [patch |-> patch, applied |-> TRUE, success |-> TRUE]
<1> USE DEF HealRunTypeOK, RowTruthful, Passed, loopVars, fileVars,
            sessionVars
<1>1. CASE ManifestSucceeds \/ ManifestFails \/ StopHealing \/ StartSession \/
         SessionStep
  BY <1>1, <1>a, <1>b DEF ManifestSucceeds, ManifestFails, StopHealing, StartSession,
             SessionStep
<1>2. CASE SessionGaveUp
  <2>1. \A i \in DOMAIN outcomes' :
           \/ i \in DOMAIN outcomes /\ outcomes'[i] = outcomes[i]
           \/ outcomes'[i] = [patch |-> NoPatch, applied |-> FALSE, success |-> FALSE]
    BY <1>2, RowsAdded
  <2>2. NoPatch \notin disk /\ \A t \in trials : t.patch # NoPatch
    BY PatchesOnRecord, HealRunAssumption
  <2>3. UNCHANGED <<conf, disk, trials>>
    BY <1>2 DEF SessionGaveUp
  <2> QED
    BY <1>a, <1>b, <2>1, <2>2, <2>3
<1>3. CASE SessionAnswered
  <2>1. /\ trials \subseteq trials' /\ \A t \in trials' : t \in trials \/ t.where = "sandbox"
        /\ UNCHANGED <<conf, disk, outcomes>>
    BY <1>3 DEF SessionAnswered
  <2> QED
    BY <1>a, <1>b, <2>1
<1>4. CASE BlockedByGuardrail
  <2>1. turnedDown \in Outcomes
    BY <1>4 DEF BlockedByGuardrail, Outcomes, PatchIsCurrent, InHand, Chosen
  <2>2. \A i \in DOMAIN outcomes' :
           (i \in DOMAIN outcomes /\ outcomes'[i] = outcomes[i]) \/ outcomes'[i] = turnedDown
    BY <1>4, <2>1, RowAdded DEF BlockedByGuardrail, RecordOutcome
  <2>3. patch \notin disk /\ \A t \in trials : t.patch = patch => t.where = "sandbox"
    BY <1>4 DEF BlockedByGuardrail, GateRemembered, WritesOnce, PatchIsCurrent, InHand, Chosen
  <2>4. UNCHANGED <<conf, disk, trials>>
    BY <1>4 DEF BlockedByGuardrail
  <2> QED
    BY <1>a, <1>b, <2>2, <2>3, <2>4
<1>5. CASE StageForReview
  <2>1. turnedDown \in Outcomes
    BY <1>5 DEF StageForReview, Outcomes, PatchIsCurrent, InHand, Chosen
  <2>2. \A i \in DOMAIN outcomes' :
           (i \in DOMAIN outcomes /\ outcomes'[i] = outcomes[i]) \/ outcomes'[i] = turnedDown
    BY <1>5, <2>1, RowAdded DEF StageForReview, RecordOutcome
  <2>3. patch \notin disk /\ \A t \in trials : t.patch = patch => t.where = "sandbox"
    BY <1>5 DEF StageForReview, GateRemembered, WritesOnce, PatchIsCurrent, InHand, Chosen
  <2>4. UNCHANGED <<conf, disk, trials>>
    BY <1>5 DEF StageForReview
  <2> QED
    BY <1>a, <1>b, <2>2, <2>3, <2>4
<1>6. CASE SkipGates
  BY <1>6, <1>a, <1>b DEF SkipGates
<1>7. CASE RunGates
  <2>1. /\ trials \subseteq trials' /\ \A t \in trials' : t \in trials \/ t.where = "sandbox"
        /\ UNCHANGED <<conf, disk, outcomes>>
    BY <1>7 DEF RunGates
  <2> QED
    BY <1>a, <1>b, <2>1
<1>8. CASE ExplainBlocks
  <2>1. turnedDown \in Outcomes
    BY <1>8 DEF ExplainBlocks, Outcomes, PatchIsCurrent, InHand, Chosen
  <2>2. \A i \in DOMAIN outcomes' :
           (i \in DOMAIN outcomes /\ outcomes'[i] = outcomes[i]) \/ outcomes'[i] = turnedDown
    BY <1>8, <2>1, RowAdded DEF ExplainBlocks, RecordOutcome
  <2>3. patch \notin disk /\ \A t \in trials : t.patch = patch => t.where = "sandbox"
    BY <1>8 DEF ExplainBlocks, GateRemembered, WritesOnce, PatchIsCurrent, InHand, Chosen
  <2>4. UNCHANGED <<conf, disk, trials>>
    BY <1>8 DEF ExplainBlocks
  <2> QED
    BY <1>a, <1>b, <2>2, <2>3, <2>4
<1>9. CASE SandboxRejects
  <2>1. turnedDown \in Outcomes
    BY <1>9 DEF SandboxRejects, Outcomes, PatchIsCurrent, InHand, Chosen
  <2>2. \A i \in DOMAIN outcomes' :
           (i \in DOMAIN outcomes /\ outcomes'[i] = outcomes[i]) \/ outcomes'[i] = turnedDown
    BY <1>9, <2>1, RowAdded DEF SandboxRejects, RecordOutcome
  <2>3. patch \notin disk /\ \A t \in trials : t.patch = patch => t.where = "sandbox"
    BY <1>9 DEF SandboxRejects, GateRemembered, WritesOnce, PatchIsCurrent, InHand, Chosen
  <2>4. UNCHANGED <<conf, disk, trials>>
    BY <1>9 DEF SandboxRejects
  <2> QED
    BY <1>a, <1>b, <2>2, <2>3, <2>4
<1>10. CASE AcceptOnSandbox
  BY <1>10, <1>a, <1>b DEF AcceptOnSandbox
<1>11. CASE PatchInvalid
  <2>1. turnedDown \in Outcomes
    BY <1>11 DEF PatchInvalid, Outcomes, PatchIsCurrent, InHand, Chosen
  <2>2. \A i \in DOMAIN outcomes' :
           (i \in DOMAIN outcomes /\ outcomes'[i] = outcomes[i]) \/ outcomes'[i] = turnedDown
    BY <1>11, <2>1, RowAdded DEF PatchInvalid, RecordOutcome
  <2>3. patch \notin disk /\ \A t \in trials : t.patch = patch => t.where = "sandbox"
    BY <1>11 DEF PatchInvalid, GateRemembered, WritesOnce, PatchIsCurrent, InHand, Chosen
  <2>4. UNCHANGED <<conf, disk, trials>>
    BY <1>11 DEF PatchInvalid
  <2> QED
    BY <1>a, <1>b, <2>2, <2>3, <2>4
<1>12. CASE TryOnRealData
  <2>1. PICK works \in BOOLEAN :
             /\ trials' = trials \cup {[patch |-> patch, where |-> "real",
                                        status |-> IF works THEN "pass" ELSE "fail"]}
             /\ \A i \in DOMAIN outcomes' :
                  \/ i \in DOMAIN outcomes /\ outcomes'[i] = outcomes[i]
                  \/ outcomes'[i] = [patch |-> patch, applied |-> TRUE, success |-> works]
    BY <1>12, TrialRecorded
  <2>2. UNCHANGED <<conf, disk>> /\ phase \in InHand
    BY <1>12 DEF TryOnRealData, InHand, Chosen
  <2>3. \A i \in DOMAIN outcomes : RowTruthful(outcomes[i])' \/ outcomes'[i] # outcomes[i]
    BY <1>a, <2>1, <2>2 DEF NotTurnedDown
  <2>4. ASSUME NEW i \in DOMAIN outcomes',
               outcomes'[i] = [patch |-> patch, applied |-> TRUE, success |-> works]
        PROVE  RowTruthful(outcomes[i])'
    <3>1. CASE works
      BY <2>1, <2>4, <3>1
    <3>2. CASE ~works
      BY <2>1, <2>4, <3>2
    <3> QED
      BY <3>1, <3>2
  <2> QED
    BY <1>b, <2>1, <2>3, <2>4
<1>13. CASE PatchDidNotHelp \/ BackUp
  BY <1>13, <1>a, <1>b DEF PatchDidNotHelp, BackUp
<1>14. CASE ReplaceBlueprint
  <2>1. disk' = disk \cup {patch} /\ UNCHANGED <<conf, trials, outcomes>> /\ phase \in InHand
    BY <1>14 DEF ReplaceBlueprint, InHand, Chosen, Writing
  <2> QED
    BY <1>a, <1>b, <2>1 DEF NotTurnedDown
<1>15. CASE Archive
  <2>1. written \in Outcomes
    BY <1>15 DEF Archive, Outcomes, PatchIsCurrent, InHand, Chosen, Writing
  <2>2. \A i \in DOMAIN outcomes' :
           \/ i \in DOMAIN outcomes /\ outcomes'[i] = outcomes[i]
           \/ SandboxSuffices /\ outcomes'[i] = written
    BY <1>15, <2>1, RowAdded DEF Archive, WriteEnds, RecordOutcome
  <2>3. SandboxSuffices => conf.sandboxOnly /\ Passed(patch, "sandbox")
    BY <1>15 DEF Archive, SandboxSuffices, GateRemembered, Writing
  <2>4. UNCHANGED <<conf, disk, trials>>
    BY <1>15 DEF Archive
  <2> QED
    BY <1>a, <1>b, <2>2, <2>3, <2>4
<1>16. CASE WriteFails
  <2>1. written \in Outcomes
    BY <1>16 DEF WriteFails, Outcomes, PatchIsCurrent, InHand, Chosen, Writing
  <2>2. \A i \in DOMAIN outcomes' :
           \/ i \in DOMAIN outcomes /\ outcomes'[i] = outcomes[i]
           \/ SandboxSuffices /\ outcomes'[i] = written
    BY <1>16, <2>1, RowAdded DEF WriteFails, WriteEnds, RecordOutcome
  <2>3. SandboxSuffices => conf.sandboxOnly /\ Passed(patch, "sandbox")
    BY <1>16 DEF WriteFails, SandboxSuffices, GateRemembered, Writing
  <2>4. UNCHANGED <<conf, disk, trials>>
    BY <1>16 DEF WriteFails
  <2> QED
    BY <1>a, <1>b, <2>2, <2>3, <2>4
<1>17. CASE Report \/ Killed \/ NextRun
  BY <1>17, <1>a, <1>b DEF Report, Killed, NextRun
<1>18. CASE UNCHANGED healRunVars
  BY <1>18, <1>a, <1>b DEF healRunVars
<1> QED
  BY <1>1, <1>2, <1>3, <1>4, <1>5, <1>6, <1>7, <1>8, <1>9, <1>10, <1>11,
     <1>12, <1>13, <1>14, <1>15, <1>16, <1>17, <1>18 DEF RunNext, RunStep

\* What RowsFollowWrites says of a row.
RowFollowsWrite(o) ==
    o.applied /\ o.success =>
        o.patch \in disk \cup cut \/ (o.patch = patch /\ phase \in {"backup", "replace"})

LEMMA RowsByRow ==
    RowsFollowWrites <=> \A i \in DOMAIN outcomes : RowFollowsWrite(outcomes[i])
  BY DEF RowsFollowWrites, RowFollowsWrite

\* Outside the write-back, an "applied, successful" row rests on the files alone.
LEMMA RowsRest ==
    ASSUME RowsFollowWrites, phase \notin {"backup", "replace"}
    PROVE  \A i \in DOMAIN outcomes : outcomes[i].applied /\ outcomes[i].success =>
               outcomes[i].patch \in disk \cup cut
  BY DEF RowsFollowWrites

\* An "applied, successful" row keeps its patch in the blueprint, in the
\* write-back, or among those whose write-back was cut short.
LEMMA RowsKept ==
    ASSUME HealRunTypeOK, PatchIsCurrent, WriteIsProven, RowsFollowWrites,
           [RunNext]_healRunVars
    PROVE  RowsFollowWrites'
<1>a. \A i \in DOMAIN outcomes : RowFollowsWrite(outcomes[i])
  BY RowsByRow
<1>b. RowsFollowWrites' <=> \A i \in DOMAIN outcomes' : RowFollowsWrite(outcomes[i])'
  BY DEF RowsFollowWrites, RowFollowsWrite
<1> DEFINE turnedDown == [patch |-> patch, applied |-> FALSE, success |-> FALSE]
           written    == [patch |-> patch, applied |-> TRUE, success |-> TRUE]
<1> USE DEF HealRunTypeOK, RowFollowsWrite, loopVars, fileVars, sessionVars
<1>1. CASE ManifestSucceeds \/ ManifestFails \/ StopHealing \/ StartSession \/
         SessionStep
  BY <1>1, <1>a, <1>b DEF ManifestSucceeds, ManifestFails, StopHealing, StartSession,
             SessionStep
<1>2. CASE SessionGaveUp
  <2>1. \A i \in DOMAIN outcomes' :
           \/ i \in DOMAIN outcomes /\ outcomes'[i] = outcomes[i]
           \/ outcomes'[i] = [patch |-> NoPatch, applied |-> FALSE, success |-> FALSE]
    BY <1>2, RowsAdded
  <2>2. UNCHANGED <<disk, cut>> /\ phase \notin {"backup", "replace"}
    BY <1>2 DEF SessionGaveUp
  <2> QED
    BY <1>b, <2>1, <2>2, RowsRest
<1>3. CASE SessionAnswered \/ SkipGates \/ RunGates
  <2>1. UNCHANGED <<disk, cut, outcomes>> /\ phase \notin {"backup", "replace"}
    BY <1>3 DEF SessionAnswered, SkipGates, RunGates
  <2> QED
    BY <1>b, <2>1, RowsRest
<1>4. CASE BlockedByGuardrail \/ StageForReview \/ ExplainBlocks \/ SandboxRejects
  <2>1. turnedDown \in Outcomes
    BY <1>4 DEF BlockedByGuardrail, StageForReview, ExplainBlocks, SandboxRejects,
                Outcomes, PatchIsCurrent, InHand, Chosen
  <2>2. RecordOutcome(FALSE, FALSE)
    BY <1>4 DEF BlockedByGuardrail, StageForReview, ExplainBlocks, SandboxRejects
  <2>3. \A i \in DOMAIN outcomes' :
           (i \in DOMAIN outcomes /\ outcomes'[i] = outcomes[i]) \/ outcomes'[i] = turnedDown
    BY <2>1, <2>2, RowAdded DEF RecordOutcome
  <2>4. UNCHANGED <<disk, cut>> /\ phase \notin {"backup", "replace"}
    BY <1>4 DEF BlockedByGuardrail, StageForReview, ExplainBlocks, SandboxRejects
  <2> QED
    BY <1>b, <2>3, <2>4, RowsRest
<1>5. CASE AcceptOnSandbox \/ PatchDidNotHelp
  <2>1. UNCHANGED <<disk, cut, outcomes>> /\ phase \notin {"backup", "replace"}
    BY <1>5 DEF AcceptOnSandbox, PatchDidNotHelp
  <2> QED
    BY <1>b, <2>1, RowsRest
<1>6. CASE PatchInvalid
  <2>1. turnedDown \in Outcomes
    BY <1>6 DEF PatchInvalid, Outcomes, PatchIsCurrent, InHand, Chosen
  <2>2. \A i \in DOMAIN outcomes' :
           (i \in DOMAIN outcomes /\ outcomes'[i] = outcomes[i]) \/ outcomes'[i] = turnedDown
    BY <1>6, <2>1, RowAdded DEF PatchInvalid, RecordOutcome
  <2>3. UNCHANGED <<disk, cut>> /\ phase \notin {"backup", "replace"}
    BY <1>6 DEF PatchInvalid
  <2> QED
    BY <1>b, <2>2, <2>3, RowsRest
<1>7. CASE TryOnRealData
  <2>1. PICK works \in BOOLEAN :
             /\ \A i \in DOMAIN outcomes' :
                  \/ i \in DOMAIN outcomes /\ outcomes'[i] = outcomes[i]
                  \/ outcomes'[i] = [patch |-> patch, applied |-> TRUE, success |-> works]
             /\ phase' = IF works THEN "backup" ELSE "unfixed"
    BY <1>7, TrialRecorded
  <2>2. UNCHANGED <<disk, cut, patch>> /\ phase \notin {"backup", "replace"}
    BY <1>7 DEF TryOnRealData
  <2>3. ASSUME NEW i \in DOMAIN outcomes, i \in DOMAIN outcomes', outcomes'[i] = outcomes[i]
        PROVE  RowFollowsWrite(outcomes[i])'
    BY <2>2, <2>3, RowsRest
  <2>4. ASSUME NEW i \in DOMAIN outcomes',
               outcomes'[i] = [patch |-> patch, applied |-> TRUE, success |-> works]
        PROVE  RowFollowsWrite(outcomes[i])'
    BY <2>1, <2>2, <2>4
  <2> QED
    BY <1>b, <2>1, <2>3, <2>4
<1>8. CASE BackUp
  BY <1>8, <1>a, <1>b DEF BackUp
<1>9. CASE ReplaceBlueprint
  BY <1>9, <1>a, <1>b DEF ReplaceBlueprint
<1>10. CASE Archive
  <2>1. written \in Outcomes
    BY <1>10 DEF Archive, Outcomes, PatchIsCurrent, InHand, Chosen, Writing
  <2>2. \A i \in DOMAIN outcomes' :
           (i \in DOMAIN outcomes /\ outcomes'[i] = outcomes[i]) \/ outcomes'[i] = written
    BY <1>10, <2>1, RowAdded DEF Archive, WriteEnds, RecordOutcome
  <2>3. UNCHANGED <<disk, cut>> /\ phase \notin {"backup", "replace"} /\ patch \in disk
    BY <1>10 DEF Archive, WriteIsProven
  <2> QED
    BY <1>b, <2>2, <2>3, RowsRest
<1>11. CASE WriteFails
  <2>1. written \in Outcomes
    BY <1>11 DEF WriteFails, Outcomes, PatchIsCurrent, InHand, Chosen, Writing
  <2>2. \A i \in DOMAIN outcomes' :
           (i \in DOMAIN outcomes /\ outcomes'[i] = outcomes[i]) \/ outcomes'[i] = written
    BY <1>11, <2>1, RowAdded DEF WriteFails, WriteEnds, RecordOutcome
  <2>3. UNCHANGED disk /\ cut \subseteq cut' /\ patch \in disk \cup cut'
    BY <1>11 DEF WriteFails, CutShort, WriteIsProven
  <2> QED
    BY <1>a, <1>b, <2>2, <2>3
<1>12. CASE Killed
  <2>1. UNCHANGED <<disk, outcomes>> /\ cut \subseteq cut'
        /\ (phase \in {"backup", "replace"} => patch \in cut')
    BY <1>12 DEF Killed, CutShort
  <2> QED
    BY <1>a, <1>b, <2>1
<1>13. CASE Report \/ NextRun
  <2>1. UNCHANGED <<disk, cut, outcomes>> /\ phase \notin {"backup", "replace"}
    BY <1>13 DEF Report, NextRun
  <2> QED
    BY <1>b, <2>1, RowsRest
<1>14. CASE UNCHANGED healRunVars
  BY <1>14, <1>a, <1>b DEF healRunVars
<1> QED
  BY <1>1, <1>2, <1>3, <1>4, <1>5, <1>6, <1>7, <1>8, <1>9, <1>10, <1>11,
     <1>12, <1>13, <1>14 DEF RunNext, RunStep

\* What the last result, the staged flag and the exit code say of a run.
LEMMA ExitKept ==
    ASSUME HealRunTypeOK, PatchesNumbered, WritesOnce, ResultTells, StagedTells,
           ExitCodeTells, [RunNext]_healRunVars
    PROVE  ExitCodeTells'
<1>a. phase' # "idle" => ExitCodeTells'
  BY DEF ExitCodeTells
<1> USE DEF HealRunTypeOK, loopVars, fileVars, sessionVars
<1>1. CASE ManifestSucceeds \/ ManifestFails \/ StopHealing \/ StartSession \/
         SessionStep
  BY <1>1, <1>a DEF ManifestSucceeds, ManifestFails, StopHealing, StartSession,
             SessionStep
<1>2. CASE SessionGaveUp \/ SessionAnswered \/ BlockedByGuardrail \/
         StageForReview \/ SkipGates
  BY <1>2, <1>a DEF SessionGaveUp, SessionAnswered, BlockedByGuardrail,
             StageForReview, SkipGates
<1>3. CASE RunGates \/ ExplainBlocks \/ SandboxRejects \/ AcceptOnSandbox \/
         PatchInvalid
  BY <1>3, <1>a DEF RunGates, ExplainBlocks, SandboxRejects, AcceptOnSandbox,
             PatchInvalid
<1>4. CASE TryOnRealData
  <2>1. phase' # "idle"
    BY <1>4 DEF TryOnRealData
  <2> QED
    BY <2>1, <1>a
<1>5. CASE PatchDidNotHelp \/ BackUp \/ ReplaceBlueprint \/ Archive \/
         WriteFails
  BY <1>5, <1>a DEF PatchDidNotHelp, BackUp, ReplaceBlueprint, Archive, WriteEnds,
             WriteFails
<1>6. CASE Report
  <2>1. /\ exit' = IF result = "success" THEN "0" ELSE IF staged THEN "3" ELSE "2"
        /\ UNCHANGED <<run, disk, trials, pending>>
    BY <1>6 DEF Report
  <2>2. exit' = "0" => \A p \in disk : p.run = run => Passed(p, "real")
    BY <2>1 DEF WritesOnce
  <2>3. exit' = "3" => (\E p \in pending : p.run = run) /\ \A p \in disk : p.run # run
    BY <2>1 DEF StagedTells
  <2>4. exit' \in {"2", "3"} =>
           \A t \in trials : t.where = "real" /\ t.status = "pass" => t.patch.run # run
    BY <2>1 DEF ResultTells
  <2> DEFINE worked == {t.patch : t \in {u \in trials : u.where = "real" /\ u.status = "pass"}}
  <2>5. exit' = "0" => {p \in disk : p.run = run} \subseteq worked
    <3> SUFFICES ASSUME exit' = "0", NEW p \in disk, p.run = run PROVE p \in worked
      OBVIOUS
    <3> DEFINE t == [patch |-> p, where |-> "real", status |-> "pass"]
    <3>1. t \in trials /\ t.patch = p /\ t.where = "real" /\ t.status = "pass"
      BY <2>2 DEF Passed
    <3> QED
      BY <3>1
  <2>6. exit' \in {"2", "3"} => {p \in worked : p.run = run} = {}
    BY <2>4
  <2>7. exit' = "3" => {p \in pending : p.run = run} # {} /\ {p \in disk : p.run = run} = {}
    BY <2>3
  <2> QED
    BY <2>1, <2>5, <2>6, <2>7 DEF ExitCodeTells
<1>7. CASE Killed
  <2>1. exit' = "killed"
    BY <1>7 DEF Killed
  <2> QED
    BY <2>1 DEF ExitCodeTells
<1>8. CASE NextRun
  <2>1. phase' = "idle" => exit' = "1"
    BY <1>8 DEF NextRun
  <2> QED
    BY <2>1 DEF ExitCodeTells
<1>9. CASE UNCHANGED healRunVars
  BY <1>9 DEF healRunVars, ExitCodeTells
<1> QED
  BY <1>1, <1>2, <1>3, <1>4, <1>5, <1>6, <1>7, <1>8, <1>9 DEF RunNext, RunStep

-----------------------------------------------------------------------------
(* The theorems.                                                           *)

\* What every step keeps.
RunInv == LoopInv /\ RealDataNeedsTrust /\ BlueprintAccountedFor /\ ReportsHonest

\* In every run of every sequence of runs, under every configuration, the
\* loop's invariant and the promises it carries hold.
THEOREM HealRunInvariant == HealRunSpec => []RunInv
<1>1. RunInit => RunInv
  <2> SUFFICES ASSUME RunInit PROVE RunInv
    OBVIOUS
  <2>1. LoopInv
    BY InitHasLoopInv
  <2>2. /\ RealDataNeedsTrust /\ BlueprintAccountedFor
        /\ ExitCodeTells /\ OutcomesTruthful /\ RowsFollowWrites
    BY DEF RunInit, RealDataNeedsTrust, BlueprintAccountedFor, BlueprintOnlyProven,
           ArchiveFollowsBlueprint, ExitCodeTells, OutcomesTruthful, RowsFollowWrites
  <2> QED
    BY <2>1, <2>2 DEF RunInv, ReportsHonest
<1>2. RunInv /\ [RunNext]_healRunVars => RunInv'
  <2> SUFFICES ASSUME RunInv, [RunNext]_healRunVars PROVE RunInv'
    OBVIOUS
  <2>1. HealRunTypeOK' /\ PatchesNumbered' /\ PatchIsCurrent' /\ TrustIsEarned'
    BY TypesKept, NumbersKept, CurrentKept, TrustKept DEF RunInv, LoopInv
  <2>2. GateRemembered' /\ WriteIsProven' /\ NotTurnedDown' /\ WritesOnce'
    BY GateKept, WriteKept, NotTurnedDownKept, WritesOnceKept DEF RunInv, LoopInv
  <2>3. ResultTells' /\ StagedTells'
    BY ResultKept, StagedKept DEF RunInv, LoopInv
  <2>4. RealDataNeedsTrust' /\ BlueprintAccountedFor'
    BY TrustNeeded, BlueprintKept DEF RunInv, LoopInv
  <2>5. OutcomesTruthful' /\ ExitCodeTells' /\ RowsFollowWrites'
    BY OutcomesKept, ExitKept, RowsKept DEF RunInv, LoopInv, ReportsHonest
  <2> QED
    BY <2>1, <2>2, <2>3, <2>4, <2>5 DEF RunInv, LoopInv, ReportsHonest
<1> QED
  BY <1>1, <1>2, PTL DEF HealRunSpec

\* The state of the loop, its files and its table keep to their types.
THEOREM HealRunTypes == HealRunSpec => []HealRunTypeOK
<1>1. RunInv => HealRunTypeOK
  BY DEF RunInv, LoopInv
<1> QED
  BY <1>1, HealRunInvariant, PTL

\* A patch runs on real data only under auto or aggressive, from a confident
\* answer that needed no recovery, inside the guardrails, and never after the
\* sandbox rejected it.
THEOREM RealDataIsTrusted == HealRunSpec => []RealDataNeedsTrust
<1>1. RunInv => RealDataNeedsTrust
  BY DEF RunInv
<1> QED
  BY <1>1, HealRunInvariant, PTL

\* Wherever a run is killed: the blueprint holds only proven patches, every one
\* with its backup, and the archive holds only what is in the blueprint.
THEOREM BlueprintIsAccountedFor == HealRunSpec => []BlueprintAccountedFor
<1>1. RunInv => BlueprintAccountedFor
  BY DEF RunInv
<1> QED
  BY <1>1, HealRunInvariant, PTL

\* The exit code of a run and the rows of healing_outcomes tell which patches
\* worked and which were turned down; a row "applied, successful" names a patch
\* of the blueprint unless a kill or a swallowed exception cut its write-back
\* short.
THEOREM ReportsAreHonest == HealRunSpec => []ReportsHonest
<1>1. RunInv => ReportsHonest
  BY DEF RunInv
<1> QED
  BY <1>1, HealRunInvariant, PTL

=============================================================================
