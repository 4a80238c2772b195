---------------------------- MODULE HealSession ----------------------------
(***************************************************************************)
(* What one call of generate_agent_patch (agent/loop.py) promises to the   *)
(* code that calls it - cli.run, the heal command, the scenario runner and *)
(* the cascade - without saying how: it makes at most budget.limit         *)
(* attempts at a patch and then answers once, with a patch and the reason  *)
(* "solved", with a patch that hands the failure to a human and the reason *)
(* "deferred" (only when the caller allowed it), or with no patch and the  *)
(* reason the loop gave up.                                                *)
(*                                                                         *)
(* HealAttempts implements this specification; HealCascade is built on it. *)
(***************************************************************************)
EXTENDS Naturals

VARIABLES
    budget,     \* what the caller asked for: its attempt limit, may it defer
    tries,      \* attempts completed so far
    answer      \* the AgentPatchResult, or Unanswered while the loop runs

sessionVars == <<budget, tries, answer>>

\* StopReason of agent/budget.py, the ones that come with no patch.
GaveUpReasons ==
    { "exhausted_attempts", "budget_seconds_exceeded", "budget_tokens_exceeded",
      "stuck_signature", "progress_stalled", "api_error" }

Unanswered == [patch |-> "none", reason |-> "running"]
Solved     == [patch |-> "fix", reason |-> "solved"]
Deferred   == [patch |-> "defer", reason |-> "deferred"]
GaveUp     == [patch : {"none"}, reason : GaveUpReasons]

Budgets == [limit : Nat \ {0}, mayDefer : BOOLEAN]
Answers == {Unanswered, Solved, Deferred} \cup GaveUp

-----------------------------------------------------------------------------

SessionInit ==
    /\ budget \in Budgets
    /\ tries = 0
    /\ answer = Unanswered

\* One more attempt that failed; another one may still be made.
FailedTry ==
    /\ answer = Unanswered
    /\ tries + 1 < budget.limit
    /\ tries' = tries + 1
    /\ UNCHANGED <<budget, answer>>

\* The attempt that ends the session.
LastTry(verdict) ==
    /\ answer = Unanswered
    /\ tries < budget.limit
    /\ verdict \in {Solved} \cup GaveUp \cup (IF budget.mayDefer THEN {Deferred} ELSE {})
    /\ verdict.reason = "exhausted_attempts" => tries + 1 = budget.limit
    /\ tries' = tries + 1
    /\ answer' = verdict
    /\ UNCHANGED budget

SessionNext == FailedTry \/ \E verdict \in Answers : LastTry(verdict)

SessionSpec == SessionInit /\ [][SessionNext]_sessionVars

=============================================================================
