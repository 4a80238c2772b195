--------------------------- MODULE PatchLifecycle ---------------------------
(***************************************************************************)
(* What happens to a patch after the agent made it: the patches/ folders   *)
(* pending, applied and rejected, the blueprint files, and their history   *)
(* in git, under the commands stage, apply, reject, commit, discard and    *)
(* rollback (patch/apply.py, cli.py) and the write-back of a trusted run.  *)
(*                                                                         *)
(* All blueprints of a project share one patches/ folder.  Commands run    *)
(* one after the other; each is broken where it touches the disk more than *)
(* once, and the process may be killed there.                              *)
(*                                                                         *)
(* Abstractions.  A patch is a model value with a blueprint of its own;    *)
(* the content of a blueprint is the set of patches it holds.  Time is in  *)
(* whole seconds, which is what git keeps of a commit; applied_at has a    *)
(* fraction, so within one second a patch always looks newer than the      *)
(* commit.  Blueprints lie in the root of the repository.                  *)
(***************************************************************************)
EXTENDS Naturals, Sequences, FiniteSets, Folds, Functions

CONSTANTS
    Blueprints,
    Patches,
    Target,         \* the blueprint each patch is for
    ApplyDirs,      \* folders operators apply patches from
    MaxTime,        \* bound: seconds
    MaxCommits      \* bound: commits of all blueprints together

ASSUME LifecycleAssumption ==
    /\ Target \in [Patches -> Blueprints]
    /\ ApplyDirs \subseteq {"pending", "applied", "rejected"}
    /\ MaxTime \in Nat /\ MaxCommits \in Nat \ {0}

VARIABLES
    disk,       \* patches in each blueprint file
    history,    \* commits touching each blueprint, oldest first
    folders,    \* the patches in patches/pending, applied and rejected
    appliedAt,  \* applied_at of each patch in applied; of no other is it read
    clock,
    op,         \* the command in progress, or Idle
    known,      \* history: patches that have been in a folder
    torn        \* history: patches a killed or failed command was busy with

lifecycleVars == <<disk, history, folders, appliedAt, clock, op, known, torn>>

Commits == [content : SUBSET Patches, claims : SUBSET Patches, at : Nat]

Idle == [cmd |-> "idle"]

Commands ==
    {Idle}
    \cup [cmd : {"apply_written", "apply_archived"}, patch : Patches, from : ApplyDirs]
    \cup [cmd : {"auto_written", "reject_written"}, patch : Patches]
    \cup [cmd : {"discard"}, blueprint : Blueprints, todo : SUBSET Patches]
    \cup [cmd : {"rollback"}, blueprint : Blueprints, patch : Patches]

-----------------------------------------------------------------------------

LastCommit(b) == history[b][Len(history[b])]

\* A blueprint is not under version control yet, or was committed once.
LifecycleInit ==
    /\ disk = [b \in Blueprints |-> {}]
    /\ history \in [Blueprints -> {<<>>, <<[content |-> {}, claims |-> {}, at |-> 0]>>}]
    /\ folders = [pending |-> {}, applied |-> {}, rejected |-> {}]
    /\ appliedAt = [p \in Patches |-> 0]
    /\ clock = 0
    /\ op = Idle
    /\ known = {} /\ torn = {}

\* Mutant: applied_at is cut to whole seconds before it is compared.
UncommittedStrict(b) ==
    IF history[b] = <<>> THEN folders.applied
    ELSE {p \in folders.applied : appliedAt[p] > LastCommit(b).at}

\* _uncommitted_applied_patches: newer than the blueprint's last commit,
\* whichever blueprint they are for.
Uncommitted(b) ==
    IF history[b] = <<>> THEN folders.applied
    ELSE {p \in folders.applied : appliedAt[p] >= LastCommit(b).at}

Put(dir, p) == [folders EXCEPT ![dir] = @ \cup {p}]
Drop(dir, p) == [folders EXCEPT ![dir] = @ \ {p}]

Time == clock < MaxTime /\ clock' = clock + 1
        /\ UNCHANGED <<disk, history, folders, appliedAt, op, known, torn>>

\* stage_patch_for_human
Stage(p) ==
    /\ op = Idle /\ p \notin known
    /\ \A b \in Blueprints : p \notin disk[b]
    /\ folders' = Put("pending", p)
    /\ known' = known \cup {p}
    /\ UNCHANGED <<disk, history, appliedAt, clock, op, torn>>

-----------------------------------------------------------------------------
(* apply: replace the blueprint, write the archive, remove the source.     *)

\* Mutant: the source is removed first and archived last.
ApplyWritesTakesFile(p, dir) ==
    /\ op = Idle /\ p \in folders[dir]
    /\ disk' = [disk EXCEPT ![Target[p]] = @ \cup {p}]
    /\ folders' = Drop(dir, p)
    /\ op' = [cmd |-> "apply_written", patch |-> p, from |-> dir]
    /\ UNCHANGED <<history, appliedAt, clock, known, torn>>

\* Everything up to os.replace; a patch that does not load, is not allowed, or
\* does not leave a valid blueprint changes nothing.
ApplyWrites(p, dir) ==
    /\ op = Idle /\ p \in folders[dir]
    /\ disk' = [disk EXCEPT ![Target[p]] = @ \cup {p}]
    /\ op' = [cmd |-> "apply_written", patch |-> p, from |-> dir]
    /\ UNCHANGED <<history, folders, appliedAt, clock, known, torn>>

ApplyArchives ==
    /\ op.cmd = "apply_written"
    /\ folders' = Put("applied", op.patch)
    /\ appliedAt' = [appliedAt EXCEPT ![op.patch] = clock]
    /\ op' = [op EXCEPT !.cmd = "apply_archived"]
    /\ UNCHANGED <<disk, history, clock, known, torn>>

\* Bound: one interruption, as long as it left traces.
MayTear == torn = {}

\* An exception while archiving is printed as a warning; apply succeeds.
ApplyArchiveFails ==
    /\ op.cmd \in {"apply_written", "apply_archived"} /\ MayTear
    /\ op' = Idle
    /\ torn' = torn \cup {op.patch}
    /\ UNCHANGED <<disk, history, folders, appliedAt, clock, known>>

\* The source is removed whatever folder it is in.
ApplyUnlinks ==
    /\ op.cmd = "apply_archived"
    /\ folders' = Drop(op.from, op.patch)
    /\ op' = Idle
    /\ UNCHANGED <<disk, history, appliedAt, clock, known, torn>>

\* _write_patch_to_blueprint of an auto or aggressive run: the patch was never
\* in a folder until archive_patch.
AutoWrites(p) ==
    /\ op = Idle /\ p \notin known
    /\ disk' = [disk EXCEPT ![Target[p]] = @ \cup {p}]
    /\ op' = [cmd |-> "auto_written", patch |-> p]
    /\ UNCHANGED <<history, folders, appliedAt, clock, known, torn>>

AutoArchives ==
    /\ op.cmd = "auto_written"
    /\ folders' = Put("applied", op.patch)
    /\ appliedAt' = [appliedAt EXCEPT ![op.patch] = clock]
    /\ known' = known \cup {op.patch}
    /\ op' = Idle
    /\ UNCHANGED <<disk, history, clock, torn>>

\* reject: write the annotated copy, then remove the pending file.
RejectWrites(p) ==
    /\ op = Idle /\ p \in folders.pending
    /\ folders' = Put("rejected", p)
    /\ op' = [cmd |-> "reject_written", patch |-> p]
    /\ UNCHANGED <<disk, history, appliedAt, clock, known, torn>>

RejectUnlinks ==
    /\ op.cmd = "reject_written"
    /\ folders' = Drop("pending", op.patch)
    /\ op' = Idle
    /\ UNCHANGED <<disk, history, appliedAt, clock, known, torn>>

-----------------------------------------------------------------------------
(* The commands that go through git.                                       *)

\* git commit refuses to record an unchanged file.
Changed(b) == IF history[b] = <<>> THEN TRUE ELSE disk[b] # LastCommit(b).content

CommitsMade == FoldFunction(LAMBDA commits, n : n + Len(commits), 0, history)

CommitFile(b, claims) ==
    /\ CommitsMade < MaxCommits
    /\ Changed(b)
    /\ history' = [history EXCEPT
           ![b] = Append(@, [content |-> disk[b], claims |-> claims, at |-> clock])]

Commit(b) ==
    /\ op = Idle
    /\ Uncommitted(b) # {}
    /\ CommitFile(b, Uncommitted(b))
    /\ UNCHANGED <<disk, folders, appliedAt, clock, op, known, torn>>

\* The operator commits with git itself.
HandCommit(b) ==
    /\ op = Idle
    /\ CommitFile(b, {})
    /\ UNCHANGED <<disk, folders, appliedAt, clock, op, known, torn>>

\* The list is made before the file is restored, and moved after.
DiscardRestores(b) ==
    /\ op = Idle /\ history[b] # <<>>
    /\ disk' = [disk EXCEPT ![b] = LastCommit(b).content]
    /\ op' = [cmd |-> "discard", blueprint |-> b, todo |-> Uncommitted(b)]
    /\ UNCHANGED <<history, folders, appliedAt, clock, known, torn>>

DiscardMoves ==
    /\ op.cmd = "discard" /\ op.todo # {}
    /\ \E p \in op.todo :
           /\ folders' = [folders EXCEPT !.applied = @ \ {p}, !.pending = @ \cup {p}]
           /\ appliedAt' = [appliedAt EXCEPT ![p] = 0]
           /\ op' = IF op.todo = {p} THEN Idle ELSE [op EXCEPT !.todo = @ \ {p}]
    /\ UNCHANGED <<disk, history, clock, known, torn>>

DiscardMovesNothing ==
    /\ op.cmd = "discard" /\ op.todo = {}
    /\ op' = Idle
    /\ UNCHANGED <<disk, history, folders, appliedAt, clock, known, torn>>

\* The newest commit of this blueprint whose message names the patch.
CommitOf(b, p) ==
    CHOOSE i \in DOMAIN history[b] :
        /\ p \in history[b][i].claims
        /\ \A j \in DOMAIN history[b] : p \in history[b][j].claims => j <= i

\* Mutant: the content of the patch's own commit is restored.
RollbackRestoresCommit(b, p) ==
    /\ op = Idle
    /\ \E i \in DOMAIN history[b] : p \in history[b][i].claims
    /\ CommitOf(b, p) > 1
    /\ disk' = [disk EXCEPT ![b] = history[b][CommitOf(b, p)].content]
    /\ op' = [cmd |-> "rollback", blueprint |-> b, patch |-> p]
    /\ UNCHANGED <<history, folders, appliedAt, clock, known, torn>>

\* git checkout <parent> -- <blueprint>; the first commit has no parent that
\* knows the file.
RollbackRestores(b, p) ==
    /\ op = Idle
    /\ \E i \in DOMAIN history[b] : p \in history[b][i].claims
    /\ CommitOf(b, p) > 1
    /\ disk' = [disk EXCEPT ![b] = history[b][CommitOf(b, p) - 1].content]
    /\ op' = [cmd |-> "rollback", blueprint |-> b, patch |-> p]
    /\ UNCHANGED <<history, folders, appliedAt, clock, known, torn>>

\* The revert commit names the patch in its subject only, which neither a later
\* rollback nor anything else searches.
RollbackCommits ==
    /\ op.cmd = "rollback"
    /\ CommitFile(op.blueprint, {})
    /\ op' = Idle
    /\ UNCHANGED <<disk, folders, appliedAt, clock, known, torn>>

RollbackHasNothing ==
    /\ op.cmd = "rollback" /\ ~Changed(op.blueprint)
    /\ op' = Idle
    /\ UNCHANGED <<disk, history, folders, appliedAt, clock, known, torn>>

CommandKilled ==
    /\ op # Idle /\ MayTear
    /\ op' = Idle
    /\ torn' = torn \cup
           (IF op.cmd = "discard" THEN op.todo
            ELSE IF op.cmd = "rollback" THEN disk[op.blueprint] ELSE {op.patch})
    /\ UNCHANGED <<disk, history, folders, appliedAt, clock, known>>

LifecycleNext ==
    \/ Time \/ ApplyArchives \/ ApplyArchiveFails \/ ApplyUnlinks \/ AutoArchives
    \/ RejectUnlinks \/ DiscardMoves \/ DiscardMovesNothing
    \/ RollbackCommits \/ RollbackHasNothing \/ CommandKilled
    \/ \E p \in Patches :
        \/ Stage(p) \/ AutoWrites(p) \/ RejectWrites(p)
        \/ \E dir \in ApplyDirs : ApplyWrites(p, dir)
    \/ \E b \in Blueprints :
        \/ Commit(b) \/ HandCommit(b) \/ DiscardRestores(b)
        \/ \E p \in Patches : RollbackRestores(b, p)

LifecycleSpec == LifecycleInit /\ [][LifecycleNext]_lifecycleVars

-----------------------------------------------------------------------------
(* Properties.                                                             *)

\* Types; no blueprint ever holds another one's patch, and time in the history
\* does not run backwards.
LifecycleTypeOK ==
    /\ disk \in [Blueprints -> SUBSET Patches]
    /\ \A b \in Blueprints : \A p \in disk[b] : Target[p] = b
    /\ history \in [Blueprints -> Seq(Commits)]
    /\ \A b \in Blueprints : \A i \in DOMAIN history[b] :
           /\ history[b][i].at <= clock
           /\ i > 1 => history[b][i - 1].at <= history[b][i].at
    /\ folders \in [{"pending", "applied", "rejected"} -> SUBSET Patches]
    /\ appliedAt \in [Patches -> 0..clock] /\ clock \in 0..MaxTime
    /\ op \in Commands
    /\ known \subseteq Patches /\ torn \subseteq Patches

\* A patch that was ever filed can be found in some folder, whatever was done
\* to it and wherever a command was killed: proposals and the audit trail do
\* not get lost.  And it is in one folder only - a reviewer or a poller never
\* sees it both waiting and decided - except while a command is at it or after
\* one that was cut short.
FiledInOneFolder ==
    /\ known \subseteq UNION {folders[d] : d \in DOMAIN folders}
    /\ \A p \in Patches \ torn : \A d, e \in DOMAIN folders :
           (d # e /\ p \in folders[d] /\ p \in folders[e]) =>
               op.cmd \in {"apply_archived", "reject_written"} /\ op.patch = p

\* What is in a blueprint and not in its last commit is found by the run's
\* warning, by commit and by discard, as long as applied/ has it: timestamps
\* are enough to tell, although rollbacks and commits by hand intervene.
UncommittedIsReported ==
    op = Idle =>
        \A p \in folders.applied \ torn :
            LET b == Target[p]
            IN  (/\ p \in disk[b]
                 /\ history[b] # <<>> => p \notin LastCommit(b).content)
                => p \in Uncommitted(b)

\* A patch applied once, in an earlier second than any commit that holds it, is
\* out of its blueprint after its rollback, however commits, discards and other
\* rollbacks were mixed.
RollbackRemovesPatch ==
    (/\ op.cmd = "rollback" /\ Target[op.patch] = op.blueprint
     /\ op.patch \in folders.applied \ torn
     /\ \A i \in DOMAIN history[op.blueprint] :
            op.patch \in history[op.blueprint][i].content =>
                history[op.blueprint][i].at > appliedAt[op.patch])
    => op.patch \notin disk[op.blueprint]

=============================================================================
