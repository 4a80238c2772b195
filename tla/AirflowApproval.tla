--------------------------- MODULE AirflowApproval ---------------------------
(***************************************************************************)
(* Waiting for a reviewer under Airflow (integrations/airflow): the        *)
(* AqueductOperator runs the blueprint, defers when the run exits with     *)
(* HEAL_PENDING, an AqueductPatchTrigger polls the patches/ folders in     *)
(* another process, and its event resumes the operator.  Reviewers move    *)
(* patches meanwhile (PatchLifecycle has their commands in full).          *)
(*                                                                         *)
(* One task instance with one run_id.  A run is seen through its exit code *)
(* and the patch it leaves; which patch, and with which run id in its      *)
(* _aq_meta, is the business of HealRun.                                   *)
(***************************************************************************)
EXTENDS Naturals, FiniteSets

CONSTANTS
    MaxRuns,    \* bound: invocations of aqueduct run
    Retries     \* the task's Airflow retries

ASSUME AirflowAssumption == MaxRuns \in Nat \ {0} /\ Retries \in Nat

VARIABLES
    timed,      \* is patch_timeout set
    task,       \* state of the task instance
    failures,   \* Airflow tries that have failed
    runs,       \* invocations so far; a patch is named by the one it comes from
    filed,      \* the folders each patch is in
    own,        \* patches whose _aq_meta has the task's run_id
    awaited,    \* the patch of the run that exited with HEAL_PENDING last
    listing,    \* what the poll in progress has seen of applied/
    event,      \* the TriggerEvent on its way to the operator
    decided     \* history: what was ever decided about each patch

airflowVars == <<timed, task, failures, runs, filed, own, awaited, listing, event, decided>>

Folders == {"pending", "applied", "rejected"}
Staged == {n \in 1..MaxRuns : filed[n] # {}}

-----------------------------------------------------------------------------

AirflowInit ==
    /\ timed \in BOOLEAN
    /\ task = "running" /\ failures = 0 /\ runs = 0
    /\ filed = [n \in 1..MaxRuns |-> {}] /\ own = {}
    /\ awaited = 0
    /\ listing = "none" /\ event = "none"
    /\ decided = [n \in 1..MaxRuns |-> {}]

\* The run leaves a patch behind: under the task's run_id, or under the id of a
\* later iteration of its heal loop.
Leaves(n, folder) ==
    /\ filed' = [filed EXCEPT ![n] = {folder}]
    /\ own' \in {own, own \cup {n}}

LeavesNothing == UNCHANGED <<filed, own>>

\* AirflowException: Airflow's retry policy runs the task again, same run_id.
TaskFails ==
    /\ failures' = failures + 1
    /\ task' = IF failures < Retries THEN "running" ELSE "failed"

Running == task = "running" /\ event = "none" /\ runs < MaxRuns /\ runs' = runs + 1

ExitsZero ==
    /\ Running
    /\ task' = "success"
    /\ \/ LeavesNothing /\ UNCHANGED decided
       \/ /\ Leaves(runs + 1, "applied")
          /\ decided' = [decided EXCEPT ![runs + 1] = @ \cup {"applied"}]
    /\ UNCHANGED <<timed, failures, awaited, listing, event>>

\* A failed run may have staged the patch that did not help.
ExitsWithError ==
    /\ Running
    /\ TaskFails
    /\ LeavesNothing \/ Leaves(runs + 1, "pending")
    /\ UNCHANGED <<timed, awaited, listing, event, decided>>

\* HEAL_PENDING: self.defer(AqueductPatchTrigger(...)).
ExitsPending ==
    /\ Running
    /\ Leaves(runs + 1, "pending")
    /\ task' = "deferred"
    /\ awaited' = runs + 1
    /\ UNCHANGED <<timed, failures, listing, event, decided>>

-----------------------------------------------------------------------------
(* The trigger.  _check_once lists one folder after the other, pending      *)
(* first; a patch may move in between.                                      *)

Polling == task = "deferred" /\ event = "none"

PollBegins ==
    /\ Polling /\ listing = "none"
    /\ listing' = IF \E n \in own : "applied" \in filed[n] THEN "applied" ELSE "seen"
    /\ UNCHANGED <<timed, task, failures, runs, filed, own, awaited, event, decided>>

Listed(folder) == \E n \in own : folder \in filed[n]

\* Mutant: the first entry of the run decides, pending ones too.
VerdictOfFirstEntry ==
    IF Listed("pending") THEN "none"
    ELSE IF listing = "applied" THEN "approved"
    ELSE IF Listed("rejected") THEN "rejected" ELSE "none"

\* Mutant: every patch that is listed and not rejected counts as approved.
VerdictNotRejected ==
    IF listing = "applied" THEN "approved"
    ELSE IF Listed("rejected") THEN "rejected"
    ELSE IF Listed("pending") THEN "approved" ELSE "none"

\* The first entry of this run that is applied or rejected; applied/ is listed
\* before rejected/.
Verdict ==
    IF listing = "applied" THEN "approved"
    ELSE IF Listed("rejected") THEN "rejected" ELSE "none"

PollEnds ==
    /\ Polling /\ listing # "none"
    /\ listing' = "none"
    /\ event' = Verdict
    /\ UNCHANGED <<timed, task, failures, runs, filed, own, awaited, decided>>

\* patch_timeout, which Airflow enforces whatever the trigger is doing.
TimesOut ==
    /\ task = "deferred" /\ timed
    /\ TaskFails
    /\ listing' = "none" /\ event' = "none"
    /\ UNCHANGED <<timed, runs, filed, own, awaited, decided>>

ResumeApproved ==
    /\ task = "deferred" /\ event = "approved"
    /\ task' = "running" /\ event' = "none"
    /\ UNCHANGED <<timed, failures, runs, filed, own, awaited, listing, decided>>

ResumeRejected ==
    /\ task = "deferred" /\ event = "rejected"
    /\ TaskFails
    /\ event' = "none"
    /\ UNCHANGED <<timed, runs, filed, own, awaited, listing, decided>>

-----------------------------------------------------------------------------
(* Reviewers, on any node.  apply and reject write the new file before they *)
(* remove the pending one; a reviewer killed there leaves both.             *)

Decides(n, folder) ==
    /\ "pending" \in filed[n] /\ folder \in {"applied", "rejected"}
    /\ filed' = [filed EXCEPT ![n] = @ \cup {folder}]
    /\ decided' = [decided EXCEPT ![n] = @ \cup {folder}]
    /\ UNCHANGED <<timed, task, failures, runs, own, awaited, listing, event>>

Unlinks(n) ==
    /\ "pending" \in filed[n] /\ filed[n] # {"pending"}
    /\ filed' = [filed EXCEPT ![n] = @ \ {"pending"}]
    /\ UNCHANGED <<timed, task, failures, runs, own, awaited, listing, event, decided>>

Discards(n) ==
    /\ "applied" \in filed[n]
    /\ filed' = [filed EXCEPT ![n] = (@ \ {"applied"}) \cup {"pending"}]
    /\ UNCHANGED <<timed, task, failures, runs, own, awaited, listing, event, decided>>

Reviewer ==
    \E n \in 1..MaxRuns :
        Unlinks(n) \/ Discards(n) \/ \E folder \in Folders : Decides(n, folder)

Trigger == PollBegins \/ PollEnds
Operator == ExitsZero \/ ExitsWithError \/ ExitsPending \/ ResumeApproved \/ ResumeRejected

AirflowNext == Operator \/ Trigger \/ TimesOut \/ Reviewer

\* The triggerer keeps polling and Airflow resumes and times out tasks; nothing
\* makes a reviewer act.
AirflowSpec ==
    /\ AirflowInit /\ [][AirflowNext]_airflowVars
    /\ WF_airflowVars(Operator) /\ WF_airflowVars(Trigger) /\ WF_airflowVars(TimesOut)

-----------------------------------------------------------------------------
(* Properties.                                                             *)

\* No reviewer, no answer: the task is resumed as approved or rejected only when
\* somebody decided so about a patch of this very run, although a poll lists the
\* folders while patches move between them; with a single patch it is the one
\* the task waits for.
AnswerHasCause ==
    event # "none" =>
        \E n \in own :
            /\ (IF event = "approved" THEN "applied" ELSE "rejected") \in decided[n]
            /\ own = {awaited} => n = awaited

Decided(n) == n \in own /\ filed[n] # {} /\ "pending" \notin filed[n]

\* A decision is heard: no task goes on waiting for a patch of its run that has
\* been decided, however many undecided patches lie around.
DecisionIsHeard ==
    \A n \in 1..MaxRuns :
        []<>~(task = "deferred" /\ awaited = n /\ Decided(n))

=============================================================================
