---------------------------- MODULE HealCascade ----------------------------
(***************************************************************************)
(* generate_cascade_patch (agent/cascade.py): one heal session per model   *)
(* tier, cheapest first, built on the session contract HealSession.  A     *)
(* session's steps are HealSession's; this module adds what the cascade    *)
(* does when a session has answered.                                       *)
(***************************************************************************)
EXTENDS HealSession, Sequences, FiniteSets

CONSTANTS
    MaxTiers,       \* longest agent.cascade list
    TierLimits,     \* max_reprompts a tier can end up with
    None            \* a tier field the blueprint leaves out

ASSUME CascadeAssumption ==
    /\ MaxTiers \in Nat \ {0}
    /\ TierLimits \subseteq Nat \ {0}

VARIABLES
    tiers,      \* the configured tiers, fixed during the call
    tier,       \* idx: the tier whose session runs or has just answered
    rows,       \* model_cascade_position (1-based) of every attempt row, in order
    result      \* what the caller got, or Unanswered

cascadeVars == <<tiers, tier, rows, result, sessionVars>>

\* CascadeTierConfig, as far as the cascade reads it.
TierConfig == [max_reprompts : TierLimits, allow_defer : {None, "yes", "no"}]

\* _ESCALATION_REASONS
EscalationReasons == {"stuck_signature", "exhausted_attempts", "deferred"}

\* The budget and the permission to defer a tier's session is started with.
TierBudget(t) == [limit |-> t.max_reprompts, mayDefer |-> t.allow_defer = "yes"]

CascadeInit ==
    /\ tiers \in UNION {[1..n -> TierConfig] : n \in 1..MaxTiers}
    /\ tier = 1
    /\ rows = <<>>
    /\ result = Unanswered
    /\ budget = TierBudget(tiers[1])
    /\ tries = 0
    /\ answer = Unanswered

\* The tier's session makes an attempt; on_attempt logs it with the tier.
TierAttempt ==
    /\ SessionNext
    /\ rows' = Append(rows, tier)
    /\ UNCHANGED <<tiers, tier, result>>

\* A tier that comes back with a patch ends the cascade, before its reason is
\* looked at: a deferral is a patch.
ReturnPatch ==
    /\ answer # Unanswered
    /\ result = Unanswered
    /\ answer.patch # "none"
    /\ result' = answer
    /\ UNCHANGED <<tiers, tier, rows, sessionVars>>

\* Mutant: the next tier runs on this tier's budget, and nobody asks whether
\* there is a next tier.
EscalateSameBudget ==
    /\ answer # Unanswered
    /\ result = Unanswered
    /\ answer.patch = "none"
    /\ answer.reason \in EscalationReasons
    /\ tier <= Len(tiers)
    /\ tier' = tier + 1
    /\ tries' = 0
    /\ answer' = Unanswered
    /\ UNCHANGED <<tiers, rows, result, budget>>

\* The tier gave up in a way a stronger model may do better at.
Escalate ==
    /\ answer # Unanswered
    /\ result = Unanswered
    /\ answer.patch = "none"
    /\ answer.reason \in EscalationReasons
    /\ tier < Len(tiers)
    /\ tier' = tier + 1
    /\ budget' = TierBudget(tiers[tier + 1])
    /\ tries' = 0
    /\ answer' = Unanswered
    /\ UNCHANGED <<tiers, rows, result>>

\* A hard failure (api_error, a spent time or token budget, no progress), or
\* no tier left: the last result is returned as it is.
ReturnFailure ==
    /\ answer # Unanswered
    /\ result = Unanswered
    /\ answer.patch = "none"
    /\ answer.reason \notin EscalationReasons \/ tier = Len(tiers)
    /\ result' = answer
    /\ UNCHANGED <<tiers, tier, rows, sessionVars>>

CascadeNext == TierAttempt \/ ReturnPatch \/ Escalate \/ ReturnFailure

CascadeSpec == CascadeInit /\ [][CascadeNext]_cascadeVars

-----------------------------------------------------------------------------

CascadeTypeOK ==
    /\ tiers \in Seq(TierConfig) /\ Len(tiers) \in 1..MaxTiers
    /\ tier \in 1..Len(tiers)
    /\ rows \in Seq(1..MaxTiers)
    /\ result \in Answers
    /\ budget \in Budgets /\ tries \in Nat /\ answer \in Answers

\* Every tier stays within its own max_reprompts, however the tiers before it
\* ended, and all the rows of one tier precede those of the next.
TierBudgetsHold ==
    /\ \A t \in 1..Len(tiers) :
           Cardinality({i \in DOMAIN rows : rows[i] = t}) <= tiers[t].max_reprompts
    /\ \A i, j \in DOMAIN rows : i < j => rows[i] <= rows[j]

\* What is returned is the answer of the last tier asked, and a tier that was
\* stuck or out of attempts has it returned only if it is the last of the list.
LastAnswerReturned ==
    result # Unanswered =>
        /\ result = answer
        /\ result.reason \in {"stuck_signature", "exhausted_attempts"} => tier = Len(tiers)

=============================================================================
