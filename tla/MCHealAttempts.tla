--------------------------- MODULE MCHealAttempts ---------------------------
(***************************************************************************)
(* HealAttempts with two budgets: one whose tokens and seconds run out     *)
(* first and whose stall window is tighter than its overall axis, and one  *)
(* with the defaults of BudgetConfig for the signature axes, where only    *)
(* repetition and the attempt count stop the loop.                         *)
(***************************************************************************)
EXTENDS HealAttempts

Tight ==
    [max_reprompts |-> 4, max_seconds |-> 2, max_tokens_total |-> 8,
     same_error_consecutive |-> 2, same_signature_overall |-> 4,
     progress_stalled_window |-> 3]

Defaults ==
    [max_reprompts |-> 5, max_seconds |-> 1, max_tokens_total |-> NoTokenCap,
     same_error_consecutive |-> 2, same_signature_overall |-> 3,
     progress_stalled_window |-> 3]

MCBudgetConfigs == {Tight, Defaults}
MCCallTokens == {1, 3}
=============================================================================
