------------------------------ MODULE HealRun ------------------------------
(***************************************************************************)
(* The self-healing loop of `aqueduct run` (cli.py): execute the manifest, *)
(* on a failure ask for a patch (a HealSession), send the patch through    *)
(* trust checks, guardrails and gates, then stage it for a human, or try   *)
(* it on real data and write it into the blueprint.                        *)
(*                                                                         *)
(* The blueprint file, the patches/ directories and the healing_outcomes   *)
(* table outlive a run.  A run may be killed between any two steps, and    *)
(* the next one starts from what it left.                                  *)
(***************************************************************************)
EXTENDS HealSession, Sequences, FiniteSets

CONSTANTS
    RunConfigs,     \* the configurations to run under (RunConfig)
    NoCap,          \* max_heal_attempts_per_hour left out
    NoPatch,        \* no patch in hand, or an outcome row that names none
    MaxRuns         \* runs of the blueprint, all within the cap's 60 minutes

Modes == {"disabled", "human", "ci", "auto", "aggressive"}

\* What the loop reads of the agent block and of aqueduct.yml.  "cascade" says
\* whether tiers are configured, and then whether they set deep_loop.
RunConfig ==
    [ mode : Modes, maxPatches : Nat \ {0}, limit : Nat \ {0}, allowDefer : BOOLEAN,
      deepLoop : BOOLEAN, cascade : {"none", "tiers_silent", "tiers_deep"},
      sandboxOnly : BOOLEAN, onFailure : {"stage", "discard", "abort"},
      blockOnPending : BOOLEAN,
      blockOnExplain : BOOLEAN, cap : Nat \cup {NoCap} ]

\* A PatchSpec: the run and the iteration it comes from (patch_id), and what
\* the loop reads of it.
Patches == [ run : Nat, n : Nat, kind : {"fix", "defer"},
             trust : {"sure", "unsure", "recovered"}, allowed : BOOLEAN ]

ASSUME HealRunAssumption ==
    /\ RunConfigs \subseteq RunConfig
    /\ MaxRuns \in Nat \ {0}
    /\ NoCap \notin Nat
    /\ NoPatch \notin Patches

VARIABLES
    conf,           \* the configuration, fixed
    run,            \* how many runs were started
    phase,          \* where the current run is; "idle" between runs
    healable,       \* agent usable and the error not excluded by a guardrail
    mode,           \* effective_mode of this iteration
    patchCount,     \* patch_count
    patch,          \* the patch in hand, or NoPatch
    gate,           \* sandbox gate status of the patch in hand
    explainWarns,   \* did the explain gate warn about it
    result,         \* status of the last execution on real data
    staged,         \* patch_staged_for_review
    exit,           \* exit code of the last run
    disk,           \* patches in the blueprint file
    backups,        \* patches whose backup copy of the blueprint was taken
    applied,        \* patches/applied/
    pending,        \* patches/pending/
    outcomes,       \* healing_outcomes
    trials,         \* history: what every patch was tried on
    cut             \* history: patches whose write-back ended before the replacement

loopVars == <<healable, mode, patchCount, patch, gate, explainWarns, staged>>
fileVars == <<disk, backups, applied, pending, cut>>
healRunVars == <<conf, run, phase, result, exit, outcomes, trials,
                 loopVars, fileVars, sessionVars>>

Outcomes == [patch : Patches \cup {NoPatch}, applied : BOOLEAN, success : BOOLEAN]
Trials == [ patch : Patches, where : {"sandbox", "real"},
            status : {"pass", "skip", "fail"} ]

-----------------------------------------------------------------------------

RunInit ==
    /\ conf \in RunConfigs
    /\ run = 1 /\ phase = "execute"
    /\ healable = TRUE /\ mode = conf.mode /\ patchCount = 0 /\ patch = NoPatch
    /\ gate = "none" /\ explainWarns = FALSE
    /\ result = "none" /\ staged = FALSE /\ exit = "none"
    /\ disk = {} /\ backups = {} /\ applied = {} /\ pending = {}
    /\ outcomes = <<>> /\ trials = {} /\ cut = {}
    /\ budget = [limit |-> conf.limit, mayDefer |-> conf.allowDefer]
    /\ tries = 0 /\ answer = Unanswered

\* surveyor.record_healing_outcome for the patch in hand.
RecordOutcome(isApplied, success) ==
    outcomes' = Append(outcomes, [patch |-> patch, applied |-> isApplied, success |-> success])

\* _stage_failed_patch
StageFailedPatch ==
    pending' = IF conf.onFailure = "stage" THEN pending \cup {patch} ELSE pending

\* surveyor.count_recent_heal_attempts against the cap.
CapReached == conf.cap # NoCap /\ Len(outcomes) >= conf.cap

\* Every check between a failed execution and the call to the agent.
MayHeal == mode # "disabled" /\ healable /\ patchCount < conf.maxPatches /\ ~CapReached

\* Do the gates run inside the session?  The callback is built when the
\* manifest has deep_loop, but a tier uses it only if the tier sets deep_loop.
GatedInSession == conf.deepLoop /\ conf.cascade # "tiers_silent"

\* Mutant: a recovered answer keeps the configured mode.
TrustedModeKeepsRecovered(trust) == IF trust = "unsure" THEN "human" ELSE mode

\* effective_mode after the confidence and the recovery check.
TrustedMode(trust) ==
    IF trust = "unsure" \/ (trust = "recovered" /\ mode \in {"auto", "aggressive"})
    THEN "human" ELSE mode

-----------------------------------------------------------------------------
(* One iteration: execute, decide whether to heal, run the session.        *)

ManifestSucceeds ==
    /\ phase = "execute"
    /\ result' = "success"
    /\ phase' = "report"
    /\ UNCHANGED <<conf, run, exit, outcomes, trials, loopVars, fileVars, sessionVars>>

\* trigger_agent on the failed module turns disabled into human.
ManifestFails ==
    /\ phase = "execute"
    /\ result' = "error"
    /\ phase' = "failed"
    /\ healable' \in BOOLEAN
    /\ \E triggerAgent \in BOOLEAN :
           mode' = IF triggerAgent /\ conf.mode = "disabled" THEN "human" ELSE conf.mode
    /\ UNCHANGED <<conf, run, exit, outcomes, trials, patchCount, patch, gate,
                   explainWarns, staged, fileVars, sessionVars>>

\* Mutant: only a disabled mode or an excluded error stops the loop.
StopHealingUncapped ==
    /\ phase = "failed" /\ (mode = "disabled" \/ ~healable)
    /\ phase' = "report"
    /\ UNCHANGED <<conf, run, result, exit, outcomes, trials, loopVars,
                   fileVars, sessionVars>>

StopHealing ==
    /\ phase = "failed" /\ ~MayHeal
    /\ phase' = "report"
    /\ UNCHANGED <<conf, run, result, exit, outcomes, trials, loopVars,
                   fileVars, sessionVars>>

StartSession ==
    /\ phase = "failed" /\ MayHeal
    /\ phase' = "session"
    /\ tries' = 0 /\ answer' = Unanswered
    /\ UNCHANGED <<budget, conf, run, result, exit, outcomes, trials, loopVars,
                   fileVars>>

SessionStep ==
    /\ phase = "session" /\ answer = Unanswered
    /\ SessionNext
    /\ UNCHANGED <<conf, run, phase, result, exit, outcomes, trials, loopVars,
                   fileVars>>

\* patch is None: one outcome row for each attempt.
SessionGaveUp ==
    /\ phase = "session" /\ answer \in GaveUp
    /\ phase' = "report"
    /\ outcomes' = outcomes \o
           [i \in 1..tries |-> [patch |-> NoPatch, applied |-> FALSE, success |-> FALSE]]
    /\ UNCHANGED <<conf, run, result, exit, trials, loopVars, fileVars,
                   sessionVars>>

\* A patch: its provenance, its confidence and the guardrails are the model's
\* and the blueprint's to choose.  A fix of a gated session has been through
\* the sandbox; a deferral ends the session before the gates.
SessionAnswered ==
    /\ phase = "session" /\ answer \in {Solved, Deferred}
    /\ phase' = "answered"
    /\ \E trust \in {"sure", "unsure", "recovered"}, allowed \in BOOLEAN,
          status \in {"pass", "skip"} :
           LET p == [ run |-> run, n |-> patchCount + 1, kind |-> answer.patch,
                      trust |-> trust, allowed |-> allowed ]
           IN  /\ patch' = p
               /\ mode' = TrustedMode(trust)
               /\ trials' = IF GatedInSession /\ answer = Solved
                            THEN trials \cup {[patch |-> p, where |-> "sandbox",
                                               status |-> status]}
                            ELSE trials
    /\ UNCHANGED <<conf, run, result, exit, outcomes, healable, patchCount,
                   gate, explainWarns, staged, fileVars, sessionVars>>

-----------------------------------------------------------------------------
(* What happens to the patch.                                              *)

\* A guardrail that needs the provenance map: staged, but not reported as
\* staged (patch_staged_for_review stays False).
BlockedByGuardrail ==
    /\ phase = "answered" /\ ~patch.allowed
    /\ pending' = pending \cup {patch}
    /\ RecordOutcome(FALSE, FALSE)
    /\ phase' = "report"
    /\ UNCHANGED <<conf, run, result, exit, trials, loopVars, disk, backups,
                   applied, cut, sessionVars>>

\* Modes human and ci.
StageForReview ==
    /\ phase = "answered" /\ patch.allowed /\ mode \in {"human", "ci"}
    /\ patchCount' = patchCount + 1
    /\ pending' = pending \cup {patch}
    /\ staged' = TRUE
    /\ RecordOutcome(FALSE, FALSE)
    /\ phase' = "report"
    /\ UNCHANGED <<conf, run, result, exit, trials, healable, mode, patch, gate,
                   explainWarns, disk, backups, applied, cut, sessionVars>>

\* Mode auto trusts deep_loop to have run the gates.
SkipGates ==
    /\ phase = "answered" /\ patch.allowed /\ mode = "auto" /\ conf.deepLoop
    /\ patchCount' = patchCount + 1
    /\ gate' = "none" /\ explainWarns' = FALSE
    /\ phase' = "gated"
    /\ UNCHANGED <<conf, run, result, exit, outcomes, trials, healable, mode,
                   patch, staged, fileVars, sessionVars>>

\* _run_patch_gates_inline: the sandbox replay and the explain gate, or neither
\* if the patch does not apply to the blueprint on disk.
RunGates ==
    /\ phase = "answered" /\ patch.allowed
    /\ mode = "aggressive" \/ (mode = "auto" /\ ~conf.deepLoop)
    /\ patchCount' = patchCount + 1
    /\ gate' \in {"none", "pass", "skip", "fail"}
    /\ explainWarns' \in IF gate' = "none" THEN {FALSE} ELSE BOOLEAN
    /\ trials' = trials \cup {[patch |-> patch, where |-> "sandbox", status |-> s] :
                                 s \in {gate'} \ {"none"}}
    /\ phase' = "gated"
    /\ UNCHANGED <<conf, run, result, exit, outcomes, healable, mode, patch,
                   staged, fileVars, sessionVars>>

ExplainBlocks ==
    /\ phase = "gated" /\ mode = "aggressive" /\ conf.blockOnExplain /\ explainWarns
    /\ RecordOutcome(FALSE, FALSE)
    /\ phase' = "execute"
    /\ UNCHANGED <<conf, run, result, exit, trials, loopVars, fileVars,
                   sessionVars>>

ExplainAccepts == mode = "aggressive" /\ conf.blockOnExplain => ~explainWarns

\* auto gives up, aggressive drops the patch and starts the next iteration.
SandboxRejects ==
    /\ phase = "gated" /\ ExplainAccepts /\ gate = "fail"
    /\ RecordOutcome(FALSE, FALSE)
    /\ \/ mode = "auto" /\ StageFailedPatch /\ phase' = "report"
       \/ mode = "aggressive" /\ phase' = "execute" /\ UNCHANGED pending
    /\ UNCHANGED <<conf, run, result, exit, trials, loopVars, disk, backups,
                   applied, cut, sessionVars>>

\* Mutant: a skipped replay counts as a passed one.
SandboxSufficesSkipped == conf.sandboxOnly /\ gate # "fail"

\* patch_validation = sandbox: a passed replay is enough to be written.
SandboxSuffices == conf.sandboxOnly /\ gate = "pass"

AcceptOnSandbox ==
    /\ phase = "gated" /\ ExplainAccepts /\ SandboxSuffices
    /\ phase' = "backup"
    /\ UNCHANGED <<conf, run, result, exit, outcomes, trials, loopVars,
                   fileVars, sessionVars>>

\* _apply_patch_in_memory returns None.  auto leaves no outcome row.
PatchInvalid ==
    /\ phase = "gated" /\ ExplainAccepts /\ gate # "fail" /\ ~SandboxSuffices
    /\ phase' = "report"
    /\ \/ mode = "auto" /\ UNCHANGED outcomes
       \/ mode = "aggressive" /\ RecordOutcome(FALSE, FALSE)
    /\ UNCHANGED <<conf, run, result, exit, trials, loopVars, fileVars,
                   sessionVars>>

\* Mutant: a patch that ran without success is recorded as not applied.
TryOnRealDataUnapplied ==
    /\ phase = "gated" /\ ExplainAccepts /\ gate # "fail" /\ ~SandboxSuffices
    /\ \E works \in BOOLEAN :
           /\ trials' = trials \cup {[patch |-> patch, where |-> "real",
                                     status |-> IF works THEN "pass" ELSE "fail"]}
           /\ RecordOutcome(works, works)
           /\ result' = IF works THEN "success" ELSE "error"
           /\ phase' = IF works THEN "backup" ELSE "unfixed"
    /\ UNCHANGED <<conf, run, exit, loopVars, fileVars, sessionVars>>

\* The patched manifest runs on real data, and its outcome is recorded before
\* anything is written or staged.
TryOnRealData ==
    /\ phase = "gated" /\ ExplainAccepts /\ gate # "fail" /\ ~SandboxSuffices
    /\ \E works \in BOOLEAN :
           /\ trials' = trials \cup {[patch |-> patch, where |-> "real",
                                     status |-> IF works THEN "pass" ELSE "fail"]}
           /\ RecordOutcome(TRUE, works)
           /\ result' = IF works THEN "success" ELSE "error"
           /\ phase' = IF works THEN "backup" ELSE "unfixed"
    /\ UNCHANGED <<conf, run, exit, loopVars, fileVars, sessionVars>>

\* The patch did not help: on_heal_failure, then the next iteration or the end.
PatchDidNotHelp ==
    /\ phase = "unfixed"
    /\ StageFailedPatch
    /\ phase' = IF mode = "auto" \/ conf.onFailure = "abort" THEN "report" ELSE "execute"
    /\ UNCHANGED <<conf, run, result, exit, outcomes, trials, loopVars, disk,
                   backups, applied, cut, sessionVars>>

-----------------------------------------------------------------------------
(* _write_patch_to_blueprint: backup, replace, archive.  An exception      *)
(* anywhere ends it silently, and the loop goes on as if it were written.  *)

\* A patch that was accepted on the sandbox alone is recorded after the write.
WriteEnds ==
    /\ phase' = "report"
    /\ IF SandboxSuffices THEN RecordOutcome(TRUE, TRUE) ELSE UNCHANGED outcomes

\* The write-back ends here, and the blueprint may not have been replaced.
CutShort == cut' = IF phase \in {"backup", "replace"} THEN cut \cup {patch} ELSE cut

BackUp ==
    /\ phase = "backup"
    /\ backups' = backups \cup {patch}
    /\ phase' = "replace"
    /\ UNCHANGED <<conf, run, result, exit, outcomes, trials, loopVars, disk,
                   applied, pending, cut, sessionVars>>

ReplaceBlueprint ==
    /\ phase = "replace"
    /\ disk' = disk \cup {patch}
    /\ phase' = "archive"
    /\ UNCHANGED <<conf, run, result, exit, outcomes, trials, loopVars, backups,
                   applied, pending, cut, sessionVars>>

Archive ==
    /\ phase = "archive"
    /\ applied' = applied \cup {patch}
    /\ WriteEnds
    /\ UNCHANGED <<conf, run, result, exit, trials, loopVars, disk, backups,
                   pending, cut, sessionVars>>

WriteFails ==
    /\ phase \in {"backup", "replace", "archive"}
    /\ WriteEnds
    /\ CutShort
    /\ UNCHANGED <<conf, run, result, exit, trials, loopVars, disk, backups,
                   applied, pending, sessionVars>>

-----------------------------------------------------------------------------
(* The end of a run.                                                       *)

\* Mutant: any patch in pending/ counts as staged by this run.
ReportAnyPending ==
    /\ phase = "report"
    /\ exit' = IF result = "success" THEN "0" ELSE IF pending # {} THEN "3" ELSE "2"
    /\ phase' = "idle"
    /\ UNCHANGED <<conf, run, result, outcomes, trials, loopVars, fileVars,
                   sessionVars>>

\* After the loop: exit 0, 3 (HEAL_PENDING) or 2.
Report ==
    /\ phase = "report"
    /\ exit' = IF result = "success" THEN "0" ELSE IF staged THEN "3" ELSE "2"
    /\ phase' = "idle"
    /\ UNCHANGED <<conf, run, result, outcomes, trials, loopVars, fileVars,
                   sessionVars>>

\* The process is killed: only the files and the tables survive.
Killed ==
    /\ phase # "idle"
    /\ exit' = "killed"
    /\ phase' = "idle"
    /\ CutShort
    /\ UNCHANGED <<conf, run, result, outcomes, trials, loopVars, disk, backups,
                   applied, pending, sessionVars>>

\* The next run is refused (exit 1) under on_pending_patches=block.
NextRun ==
    /\ phase = "idle" /\ run < MaxRuns
    /\ run' = run + 1
    /\ IF conf.blockOnPending /\ pending # {}
       THEN phase' = "idle" /\ exit' = "1"
       ELSE phase' = "execute" /\ exit' = "none"
    /\ healable' = TRUE /\ mode' = conf.mode /\ patchCount' = 0 /\ patch' = NoPatch
    /\ gate' = "none" /\ explainWarns' = FALSE /\ staged' = FALSE
    /\ result' = "none"
    /\ tries' = 0 /\ answer' = Unanswered
    /\ UNCHANGED <<budget, conf, outcomes, trials, fileVars>>

RunStep ==
    \/ ManifestSucceeds \/ ManifestFails \/ StopHealing
    \/ StartSession \/ SessionStep \/ SessionGaveUp \/ SessionAnswered
    \/ BlockedByGuardrail \/ StageForReview
    \/ SkipGates \/ RunGates \/ ExplainBlocks \/ SandboxRejects
    \/ AcceptOnSandbox \/ PatchInvalid \/ TryOnRealData \/ PatchDidNotHelp
    \/ BackUp \/ ReplaceBlueprint \/ Archive \/ WriteFails
    \/ Report

RunNext == RunStep \/ Killed \/ NextRun

\* The loop is sequential code and every call it makes returns (the session:
\* HealAttempts, Terminates; the executor: assumed), so a run goes on as long
\* as it can.  Nothing says that a run is killed, or that another one follows.
HealRunSpec == RunInit /\ [][RunNext]_healRunVars /\ WF_healRunVars(RunStep)

-----------------------------------------------------------------------------

HealRunTypeOK ==
    /\ conf \in RunConfig /\ run \in 1..MaxRuns
    /\ phase \in { "idle", "execute", "failed", "session", "answered", "gated", "unfixed",
                   "backup", "replace", "archive", "report" }
    /\ healable \in BOOLEAN /\ mode \in Modes
    /\ patchCount \in 0..conf.maxPatches
    /\ patch \in Patches \cup {NoPatch}
    /\ gate \in {"none", "pass", "skip", "fail"} /\ explainWarns \in BOOLEAN
    /\ result \in {"none", "success", "error"} /\ staged \in BOOLEAN
    /\ exit \in {"none", "0", "1", "2", "3", "killed"}
    /\ disk \subseteq Patches /\ backups \subseteq Patches
    /\ applied \subseteq Patches /\ pending \subseteq Patches
    /\ outcomes \in Seq(Outcomes)
    /\ trials \subseteq Trials /\ cut \subseteq Patches
    /\ budget \in Budgets /\ tries \in Nat /\ answer \in Answers

\* Nobody's data is touched by a patch the operator did not delegate: a patch
\* runs on real data only under auto or aggressive, from a confident answer
\* that needed no recovery, inside the guardrails, and never after the
\* sandbox rejected it - whatever happened in the iterations and runs before.
RealDataNeedsTrust ==
    \A t \in trials : t.where = "real" =>
        /\ conf.mode \in {"auto", "aggressive"}
        /\ t.patch.trust = "sure" /\ t.patch.allowed
        /\ \A s \in trials : s.patch = t.patch /\ s.where = "sandbox" => s.status # "fail"

\* What a run writes into the blueprint has been proven: on real data, or, if
\* patch_validation says that is enough, by a sandbox replay that really ran.
BlueprintOnlyProven ==
    \A p \in disk : \E t \in trials :
        /\ t.patch = p /\ t.status = "pass"
        /\ t.where = "real" \/ conf.sandboxOnly

\* Wherever a run is killed: an archived patch is in the blueprint, and a
\* blueprint that was changed has a backup.
ArchiveFollowsBlueprint == applied \subseteq disk /\ disk \subseteq backups

\* Archive, blueprint and backups agree, and hold nothing that was not proven.
BlueprintAccountedFor == BlueprintOnlyProven /\ ArchiveFollowsBlueprint

\* The exit code means what the orchestrator takes it for.  0: what this run
\* wrote into the blueprint has worked on real data.  3: a patch of this run
\* waits in pending/, none worked on real data and none was written.  2: no
\* patch of this run worked on real data.
ExitCodeTells ==
    phase = "idle" =>
        LET mine(S) == {p \in S : p.run = run}
            worked  == {t.patch : t \in {u \in trials : u.where = "real" /\ u.status = "pass"}}
        IN  /\ exit = "0" => mine(disk) \subseteq worked
            /\ exit = "3" => mine(pending) # {} /\ mine(disk) = {} /\ mine(worked) = {}
            /\ exit = "2" => mine(worked) = {}

\* healing_outcomes can be believed: a row that says the run succeeded names a
\* patch that passed, and a row that says a patch was not applied names one
\* that is not in the blueprint and never ran on real data.
OutcomesTruthful ==
    \A i \in DOMAIN outcomes :
        LET o == outcomes[i]
            passed(where) == [patch |-> o.patch, where |-> where, status |-> "pass"] \in trials
        IN  /\ o.success => passed("real") \/ (conf.sandboxOnly /\ passed("sandbox"))
            /\ ~o.applied => o.patch \notin disk
            /\ ~o.applied => \A t \in trials : t.patch = o.patch => t.where = "sandbox"

\* A row "applied, successful" names a patch that is in the blueprint, or is
\* being written, unless a kill or a swallowed exception cut its write-back
\* short (AppliedMeansWritten is about those).
RowsFollowWrites ==
    \A i \in DOMAIN outcomes : outcomes[i].applied /\ outcomes[i].success =>
        \/ outcomes[i].patch \in disk \cup cut
        \/ outcomes[i].patch = patch /\ phase \in {"backup", "replace"}

\* Exit code and rows tell which patches worked, which were turned down, and -
\* but for a write-back that was cut short - which are in the blueprint.
ReportsHonest == ExitCodeTells /\ OutcomesTruthful /\ RowsFollowWrites

\* "patch_applied: whether the patch was written to Blueprint": when a run has
\* come to its end by itself, a row of it that says "applied, successful" names
\* a patch in the blueprint.  _write_patch_to_blueprint swallows every
\* exception and the row is written all the same.
AppliedMeansWritten ==
    phase = "idle" /\ exit # "killed" =>
        \A i \in DOMAIN outcomes :
            /\ outcomes[i].applied /\ outcomes[i].success
            /\ outcomes[i].patch.run = run
            => outcomes[i].patch \in disk

\* A run comes to an end, killed or not.
RunEnds == phase # "idle" ~> phase = "idle"

=============================================================================
