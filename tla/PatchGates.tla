----------------------------- MODULE PatchGates -----------------------------
(***************************************************************************)
(* The way of a patch into the blueprint file, with everybody who uses the *)
(* file: runs that heal (the apply callback, the gates, the patched run,   *)
(* _write_patch_to_blueprint in cli.py), reviewers (patch preview and      *)
(* patch apply, patch/apply.py), and people with an editor.                *)
(*                                                                         *)
(* A run reads the file and applies its patch anew at each stage, always   *)
(* the same PatchSpec object.  Nothing locks the file; two runs of one     *)
(* blueprint write through one temporary name.                             *)
(*                                                                         *)
(* The patched run and the replay are seen through their outcome.  A       *)
(* stage is one step; writing back is broken where it touches the disk.    *)
(***************************************************************************)
EXTENDS PatchOps

CONSTANTS
    Runs,           \* runs that heal, each with a patch
    Reviewers,      \* patch apply, each with a patch
    Original,       \* the blueprint
    Assignments,    \* which patch each of them has: its operations
    PatchId,        \* patch_id of each run's patch, as the model named it
    Removable,      \* bound: modules a human may take out
    NoFile,         \* no content
    MaxSaves        \* bound: times a human saves the file

Writers == Runs \cup Reviewers

ASSUME GatesAssumption ==
    /\ Runs \cap Reviewers = {} /\ MaxSaves \in Nat
    /\ Compiles(Original) /\ Original.saves = {}
    /\ IsBlueprint(Original)
    /\ \A assigned \in Assignments :
          /\ assigned = [w \in Writers |-> assigned[w]]
          /\ \A w \in Writers : IsPatch(assigned[w])

VARIABLES
    file,       \* content of the blueprint file
    tmp,        \* the run whose result is in <blueprint>.llm_patch.tmp.yml
    backups,    \* files in patches/backups, each with the content of one run's backup
    second,     \* of the last backup; only those with a backup are counted
    overwritten,\* history: saves in backups that were written over
    at,         \* stage of each writer
    patch,      \* its PatchSpec
    judged,     \* until it is written back: what the gates saw, before and after
    ran,        \* the same of what was run
    result,     \* what it means to write, and where that started from
    put,        \* the writer whose result its os.replace put in place
    stale,      \* history: runs that wrote back to other content than they had run
    saved,      \* saves so far
    raced       \* history: saves between somebody's backup (or load) and replace

backupVars == <<backups, second, overwritten>>
gatesVars ==
    <<file, tmp, backups, second, overwritten, at, patch, judged, ran, result, put, stale, saved, raced>>

GatesInit ==
    /\ file = Original /\ tmp = NoFile /\ backups = {} /\ second = 0 /\ overwritten = {}
    /\ at = [w \in Writers |-> "start"]
    /\ patch \in Assignments
    /\ judged = [w \in Writers |-> NoFile] /\ ran = judged /\ result = judged /\ put = judged
    /\ stale = {} /\ saved = 0 /\ raced = {}

Goes(w, from, to) == at[w] = from /\ at' = [at EXCEPT ![w] = to]
Applied(w) == ApplyPatch(file, patch[w])
KeepsSpec(w) == patch' = [patch EXCEPT ![w] = Applied(w).ops]
Outcome(w) == [before |-> file, after |-> Applied(w).bp]

Forgets(w) ==
    judged' = [judged EXCEPT ![w] = NoFile] /\ ran' = [ran EXCEPT ![w] = NoFile]

-----------------------------------------------------------------------------
(* A run that heals.                                                        *)

\* _apply_cb: a rejection is told to the model; here the run is over.
CallbackAccepts(r) ==
    /\ Goes(r, "start", "checked")
    /\ Applied(r).ok /\ ~Drifts(Applied(r).bp) /\ Guarded(patch[r])
    /\ KeepsSpec(r)
    /\ UNCHANGED <<file, tmp, backupVars, judged, ran, result, put, stale, saved, raced>>

CallbackRejects(r) ==
    /\ Goes(r, "start", "refused")
    /\ ~Applied(r).ok \/ Drifts(Applied(r).bp) \/ ~Guarded(patch[r])
    /\ KeepsSpec(r)
    /\ Forgets(r)
    /\ UNCHANGED <<file, tmp, backupVars, result, put, stale, saved, raced>>

\* _run_patch_gates_inline: passed, or skipped because Spark does not start
\* (compiled all the same).
GatesPass(r) ==
    /\ Goes(r, "checked", "judged")
    /\ Applied(r).ok /\ Compiles(Applied(r).bp)
    /\ KeepsSpec(r)
    /\ judged' = [judged EXCEPT ![r] = Outcome(r)]
    /\ UNCHANGED <<file, tmp, backupVars, ran, result, put, stale, saved, raced>>

\* The patch no longer applies, does not compile, or the replay failed.
GatesFail(r) ==
    /\ Goes(r, "checked", "refused")
    /\ KeepsSpec(r)
    /\ Forgets(r)
    /\ UNCHANGED <<file, tmp, backupVars, result, put, stale, saved, raced>>

\* _apply_patch_in_memory; then the patched blueprint is run.
RunsPatched(r) ==
    /\ Goes(r, "judged", "ran")
    /\ Applied(r).ok /\ Compiles(Applied(r).bp)
    /\ KeepsSpec(r)
    /\ ran' = [ran EXCEPT ![r] = Outcome(r)]
    /\ UNCHANGED <<file, tmp, backupVars, judged, result, put, stale, saved, raced>>

RunFails(r) ==
    /\ Goes(r, "judged", "refused")
    /\ KeepsSpec(r)
    /\ Forgets(r)
    /\ UNCHANGED <<file, tmp, backupVars, result, put, stale, saved, raced>>

\* Mutant: the patch is applied to what was run.
LoadsWhatRan(r) ==
    /\ Goes(r, "ran", "loaded")
    /\ ApplyPatch(ran[r].after, patch[r]).ok
    /\ KeepsSpec(r)
    /\ result' = [result EXCEPT ![r] = [before |-> file,
                                       after |-> ApplyPatch(ran[r].after, patch[r]).bp]]
    /\ stale' = IF file = ran[r].before THEN stale ELSE stale \cup {r}
    /\ UNCHANGED <<file, tmp, backupVars, judged, ran, put, saved, raced>>

\* _write_patch_to_blueprint loads and applies; nothing is checked again.
Loads(r) ==
    /\ Goes(r, "ran", "loaded")
    /\ Applied(r).ok
    /\ KeepsSpec(r)
    /\ result' = [result EXCEPT ![r] = Outcome(r)]
    /\ stale' = IF file = ran[r].before THEN stale ELSE stale \cup {r}
    /\ UNCHANGED <<file, tmp, backupVars, judged, ran, put, saved, raced>>

LoadFails(r) ==
    /\ Goes(r, "ran", "failed")
    /\ ~Applied(r).ok
    /\ KeepsSpec(r)
    /\ Forgets(r)
    /\ UNCHANGED <<file, tmp, backupVars, result, put, stale, saved, raced>>

\* A backup is named by patch_id, second and blueprint: one of the same name is
\* written over.
Copies(r, content) ==
    \E now \in IF backups = {} THEN {1} ELSE {second, second + 1} :
        LET same == {b \in backups : b.patch_id = PatchId[r] /\ b.second = now}
        IN  /\ second' = now
            /\ backups' = (backups \ same)
                  \cup {[patch_id |-> PatchId[r], second |-> now, content |-> content]}
            /\ overwritten' = overwritten \cup UNION {b.content.saves : b \in same}

\* Mutant: the backup is written from what was loaded.
BacksUpLoaded(r) ==
    /\ Goes(r, "loaded", "backed_up")
    /\ Copies(r, result[r].before)
    /\ Forgets(r)
    /\ UNCHANGED <<file, tmp, patch, result, put, stale, saved, raced>>

\* shutil.copy2 of the file as it is by now.
BacksUp(r) ==
    /\ Goes(r, "loaded", "backed_up")
    /\ Copies(r, file)
    /\ Forgets(r)
    /\ UNCHANGED <<file, tmp, patch, result, put, stale, saved, raced>>

Dumps(r) ==
    /\ Goes(r, "backed_up", "dumped")
    /\ tmp' = r
    /\ UNCHANGED <<file, backupVars, patch, judged, ran, result, put, stale, saved, raced>>

\* os.replace, after which the patch is archived as applied; the file is parsed
\* last, when it has been replaced already.
Replaces(r) ==
    /\ Goes(r, "dumped", "written")
    /\ tmp # NoFile
    /\ file' = result[tmp].after /\ tmp' = NoFile
    /\ put' = [put EXCEPT ![r] = tmp]
    /\ UNCHANGED <<backupVars, patch, judged, ran, result, stale, saved, raced>>

\* The other run has taken the temporary file away.
ReplaceFails(r) ==
    /\ Goes(r, "dumped", "failed")
    /\ tmp = NoFile
    /\ UNCHANGED <<file, tmp, backupVars, patch, judged, ran, result, put, stale, saved, raced>>

\* A kill: stopped before any of its steps.
Killed(r) ==
    /\ at[r] \notin {"start", "refused", "failed", "written", "killed"}
    /\ at' = [at EXCEPT ![r] = "killed"]
    /\ Forgets(r)
    /\ UNCHANGED <<file, tmp, backupVars, patch, result, put, stale, saved, raced>>

-----------------------------------------------------------------------------
(* A reviewer: apply_patch_file verifies before it writes and keeps no      *)
(* backup.  patch preview changes nothing.                                  *)

\* Mutant: the patched blueprint is not parsed before it is written.
VerifiesNothing(p) ==
    /\ Goes(p, "start", "verified")
    /\ Guarded(patch[p]) /\ Applied(p).ok
    /\ KeepsSpec(p)
    /\ result' = [result EXCEPT ![p] = Outcome(p)]
    /\ UNCHANGED <<file, tmp, backupVars, judged, ran, put, stale, saved, raced>>

Verifies(p) ==
    /\ Goes(p, "start", "verified")
    /\ Guarded(patch[p]) /\ Applied(p).ok /\ Parses(Applied(p).bp)
    /\ KeepsSpec(p)
    /\ result' = [result EXCEPT ![p] = Outcome(p)]
    /\ UNCHANGED <<file, tmp, backupVars, judged, ran, put, stale, saved, raced>>

Refuses(p) ==
    /\ Goes(p, "start", "refused")
    /\ ~(Guarded(patch[p]) /\ Applied(p).ok /\ Parses(Applied(p).bp))
    /\ UNCHANGED <<file, tmp, backupVars, patch, judged, ran, result, put, stale, saved, raced>>

Installs(p) ==
    /\ Goes(p, "verified", "written")
    /\ file' = result[p].after
    /\ put' = [put EXCEPT ![p] = p]
    /\ UNCHANGED <<tmp, backupVars, patch, judged, ran, result, stale, saved, raced>>

-----------------------------------------------------------------------------
(* People.                                                                  *)

InWindow(w) == at[w] \in {"backed_up", "dumped", "verified"}

Saves(content) ==
    /\ saved < MaxSaves
    /\ saved' = saved + 1
    /\ file' = [modules |-> content.modules, edges |-> content.edges,
                context |-> content.context, saves |-> file.saves \cup {saved + 1}]
    /\ raced' = IF \E w \in Writers : InWindow(w) THEN raced \cup {saved + 1} ELSE raced
    /\ UNCHANGED <<tmp, backupVars, at, patch, judged, ran, result, put, stale>>

HumanEdits == Saves(file)

\* A module is taken out, cleanly.
HumanRemoves(id) ==
    LET shorter == RemoveModule([bp |-> file, ok |-> TRUE,
                                 ops |-> <<[op |-> "remove_module", module_id |-> id, add |-> <<>>]>>], 1)
    IN  shorter.ok /\ Compiles(shorter.bp) /\ Saves(shorter.bp)

Healing(r) ==
    \/ CallbackAccepts(r) \/ CallbackRejects(r) \/ GatesPass(r) \/ GatesFail(r)
    \/ RunsPatched(r) \/ RunFails(r) \/ Loads(r) \/ LoadFails(r) \/ BacksUp(r) \/ Dumps(r)
    \/ Replaces(r) \/ ReplaceFails(r) \/ Killed(r)

GatesNext ==
    \/ \E r \in Runs : Healing(r)
    \/ \E p \in Reviewers : Verifies(p) \/ Refuses(p) \/ Installs(p)
    \/ HumanEdits
    \/ \E id \in Removable : HumanRemoves(id)

GatesSpec == GatesInit /\ [][GatesNext]_gatesVars

-----------------------------------------------------------------------------
(* Properties.                                                              *)

\* Types: a writer has what its stage needs, and edges at rest have no origin.
GatesTypeOK ==
    /\ \A e \in Range(file.edges) : e.origin = InFile
    /\ saved \in 0..MaxSaves /\ raced \subseteq 1..saved /\ file.saves \subseteq 1..saved
    /\ \A w \in Writers :
          /\ at[w] \in {"start", "checked", "judged", "ran", "loaded", "backed_up", "dumped",
                        "verified", "written", "refused", "failed", "killed"}
          /\ at[w] \in {"dumped", "verified", "written"} => result[w] # NoFile

\* What a human saved is in the file or in a backup, however runs, reviewers and
\* kills interleave, with two exceptions: it was saved while a writer was between
\* its backup and its replace (a reviewer makes no backup: between load and
\* replace), or the backup it was in has been written over, by a run whose patch
\* has the same patch_id and that made its backup in the same second.
EditsSurvive ==
    \A n \in (1..saved) \ raced :
        \/ n \in file.saves
        \/ \E b \in backups : n \in b.content.saves
        \/ n \in overwritten

\* replace_edge on an edge an earlier operation of the patch adds, by either name.
RewiresOwnEdge(ops) ==
    \E i, j \in DOMAIN ops :
        /\ i < j /\ ops[j].op = "replace_edge" /\ ops[i].op \in WritesModule \cup {"remove_module"}
        /\ \E k \in DOMAIN ops[i].add :
              \/ ops[i].add[k].from \in {ops[j].from_id, ops[j].new_from_id}
              \/ ops[i].add[k].to \in {ops[j].to_id, ops[j].new_to_id}

\* replace_context_value on a key within a block that an earlier one has given.
FillsOwnBlock(ops) ==
    \E i, j \in DOMAIN ops :
        /\ i < j /\ GivesBlock(ops[i])
        /\ ops[j].op = "replace_context_value" /\ ~ops[j].whole

ChangesItself(ops) == RewiresOwnEdge(ops) \/ FillsOwnBlock(ops)

\* To apply a patch leaves its PatchSpec as it was, although the operations work on
\* its own objects: edges they add and context values they write are those of the
\* spec.  Only a patch that rewires an edge it adds, or writes below a block it
\* gives, is changed by that, and remains such a patch.
SpecsKept ==
    \A w \in Writers :
        IF ChangesItself(patch[w]) THEN ChangesItself(Applied(w).ops)
        ELSE Applied(w).ops = patch[w]

\* What os.replace put in place for r was dumped by another run.
PutForAnother(r) == at[r] = "written" /\ put[r] # r

\* A run that reports its patch as written has put there what it had run
\* successfully, and that is what its gates had judged: although the patch is
\* applied anew each time - and applies again - if nobody changed the file.  Two
\* exceptions: a patch that rewires an edge it adds itself, and a run that finds
\* another run's content under the common temporary name.  That run does not
\* report its content as written as well, unless it put yet another's in place.
WrittenAsJudged ==
    /\ \A r \in Runs :
          /\ PutForAnother(r) =>
                at[put[r]] \in {"dumped", "failed", "killed"} \/ PutForAnother(put[r])
          /\ ~RewiresOwnEdge(patch[r]) =>
                /\ (at[r] = "ran" /\ judged[r].before = ran[r].before) =>
                      judged[r].after = ran[r].after
                /\ (at[r] = "ran" /\ file = ran[r].before) => Applied(r).ok
                /\ (at[r] = "loaded" /\ result[r].before = ran[r].before) =>
                      result[r].after = ran[r].after
    /\ \A q, r \in Runs : (q # r /\ at[q] = "written" /\ at[r] = "written") => put[q] # put[r]

\* The file on disk can be parsed, unless a run wrote it back to other content
\* than it had run the patch on.  And whatever came from a patch, the paths of
\* modules match allowed_paths or were there before (values of the context are
\* not guarded).
FileStaysSound ==
    /\ stale = {} => Parses(file)
    /\ \A m \in Range(file.modules) :
          m.path \in Allowed \cup {NoPath} \cup {n.path : n \in Range(Original.modules)}

\* Reads of a SQL Channel whose columns are all known, of a column it has not.
BrokenReads(bp) ==
    LET rows == LineageRows(bp)
    IN  {[channel |-> r.channel, col |-> r.col, table |-> r.table] :
            r \in {s \in rows : /\ s.col # "*" /\ Outputs(rows, s.table) # {}
                                /\ "*" \notin Outputs(rows, s.table)
                                /\ s.col \notin Outputs(rows, s.table)}}

\* If a patch breaks a read, the lineage gate warns about it, as long as the
\* patch leaves the reading module and the edges into it alone (reads that the
\* patch itself writes or reroutes are never looked at).
LineageGateHears ==
    \A r \in Runs : judged[r] # NoFile =>
        LET before == judged[r].before
            after == judged[r].after
            warned == {[channel |-> w.channel, col |-> w.col, table |-> w.table] :
                          w \in LineageWarnings(before, after, patch[r])}
        IN  \A read \in BrokenReads(after) \ BrokenReads(before) :
                \/ read \in warned
                \/ read.channel \in Touched(patch[r])
                \/ MainUpstream(before, read.channel) # MainUpstream(after, read.channel)

=============================================================================
