---------------------------- MODULE HealAttempts ----------------------------
(***************************************************************************)
(* The attempt loop of generate_agent_patch (agent/loop.py) together with  *)
(* the BudgetTracker that drives it (agent/budget.py): call the model,     *)
(* parse the answer, run the gates the caller supplied, and either stop or *)
(* feed the rejection back and try again.                                  *)
(*                                                                         *)
(* Abstractions.  An error signature is a member of Signatures: signatures *)
(* only ever get compared by their hash.  Wall-clock time is the number of *)
(* seconds spent, saturating at MaxSeconds (the code compares it with      *)
(* nothing larger); any phase may take any time.  The text of prompts and  *)
(* answers is left out, and so is the sampling temperature that            *)
(* escalateNext selects.                                                   *)
(***************************************************************************)
EXTENDS Naturals, Sequences, FiniteSets

CONSTANTS
    Signatures,         \* error signatures a failed attempt can leave
    NoSignature,        \* signature None
    BudgetConfigs,      \* the budgets callers configure
    NoTokenCap,         \* max_tokens_total = None
    CallTimeout,        \* agent.timeout, seconds
    CallTokens          \* tokens one answered call can cost

\* What BudgetConfig.__post_init__ lets through.
BudgetConfig ==
    { b \in [max_reprompts : Nat \ {0}, max_seconds : Nat \ {0},
             max_tokens_total : (Nat \ {0}) \cup {NoTokenCap},
             same_error_consecutive : Nat, same_signature_overall : Nat,
             progress_stalled_window : Nat] :
        /\ b.same_error_consecutive >= 2
        /\ b.same_signature_overall >= b.same_error_consecutive
        /\ b.progress_stalled_window >= 2 }

ASSUME AttemptAssumption ==
    /\ BudgetConfigs \subseteq BudgetConfig
    /\ NoTokenCap \notin Nat
    /\ NoSignature \notin Signatures
    /\ CallTimeout \in Nat \ {0}
    /\ CallTokens \subseteq Nat

VARIABLES
    opts,           \* the call's parameters, fixed for its duration
    stage,          \* where the loop body stands
    attempt,        \* _current_attempt
    records,        \* tracker.attempts, oldest first
    tokens,         \* tokens_in_total + tokens_out_total
    elapsed,        \* time.monotonic() - started_at
    escalateNext,   \* escalate_next
    escalatedOnce,  \* tracker.escalated_once
    patch,          \* patch_spec: none, a fix, or one holding defer_to_human
    cleared,        \* history: the gates the patch in hand has passed
    stop            \* _stop_reason, or "running" for None

vars == <<opts, stage, attempt, records, tokens, elapsed, escalateNext,
          escalatedOnce, patch, cleared, stop>>

Stages == {"begin", "call", "validate", "apply", "done"}
Patches == {"none", "fix", "defer"}
Gates == {"schema", "defer_rejected", "validate", "apply", "provider", "budget", "none"}
StopReasons ==
    { "solved", "exhausted_attempts", "budget_seconds_exceeded",
      "budget_tokens_exceeded", "stuck_signature", "progress_stalled",
      "api_error", "deferred" }

AttemptRecord ==
    [sig : Signatures \cup {NoSignature}, gate : Gates, escalated : BOOLEAN]

\* budget, allow_defer, deep_loop with a validate_callback, an apply_callback.
CallOptions ==
    [budget : BudgetConfigs, mayDefer : BOOLEAN, validates : BOOLEAN, applies : BOOLEAN]

-----------------------------------------------------------------------------
(* The budget axes, as BudgetTracker computes them from its attempts.       *)

\* signatures(): the signatures of the attempts that have one.
SignaturesOf(recs) ==
    LET signed == SelectSeq(recs, LAMBDA r : r.sig # NoSignature)
    IN  [i \in DOMAIN signed |-> signed[i].sig]

\* The last n signatures exist and are all the same.
TailRepeats(sigs, n) ==
    /\ Len(sigs) >= n
    /\ \A i \in (Len(sigs) - n + 1)..Len(sigs) : sigs[i] = sigs[Len(sigs)]

SameErrorConsecutive(recs) ==
    TailRepeats(SignaturesOf(recs), opts.budget.same_error_consecutive)

ProgressStalled(recs) ==
    TailRepeats(SignaturesOf(recs), opts.budget.progress_stalled_window)

SameSignatureOverall(recs) ==
    LET sigs == SignaturesOf(recs)
    IN  \E i \in DOMAIN sigs :
            Cardinality({j \in DOMAIN sigs : sigs[j] = sigs[i]})
                >= opts.budget.same_signature_overall

TokensCapped == opts.budget.max_tokens_total # NoTokenCap

OverTokens(used) == TokensCapped /\ used >= opts.budget.max_tokens_total

MaxSeconds == opts.budget.max_seconds

\* Mutant: the escalated attempt is not remembered, being stuck never aborts.
CheckStopNeverStuck(recs, used, now) ==
    IF recs[Len(recs)].sig = NoSignature THEN "solved"
    ELSE IF attempt >= opts.budget.max_reprompts THEN "exhausted_attempts"
    ELSE IF now >= MaxSeconds             THEN "budget_seconds_exceeded"
    ELSE IF OverTokens(used)              THEN "budget_tokens_exceeded"
    ELSE IF SameSignatureOverall(recs)    THEN "stuck_signature"
    ELSE IF ProgressStalled(recs)         THEN "progress_stalled"
    ELSE "running"

\* Mutant: stuck in a row aborts at once, no escalated attempt first.
CheckStopImpatient(recs, used, now) ==
    IF recs[Len(recs)].sig = NoSignature THEN "solved"
    ELSE IF attempt >= opts.budget.max_reprompts THEN "exhausted_attempts"
    ELSE IF now >= MaxSeconds             THEN "budget_seconds_exceeded"
    ELSE IF OverTokens(used)              THEN "budget_tokens_exceeded"
    ELSE IF SameErrorConsecutive(recs)    THEN "stuck_signature"
    ELSE "running"

\* check_stop: the first axis that trips, in the order the code asks them.
CheckStop(recs, used, now) ==
    IF recs[Len(recs)].sig = NoSignature THEN "solved"
    ELSE IF attempt >= opts.budget.max_reprompts THEN "exhausted_attempts"
    ELSE IF now >= MaxSeconds             THEN "budget_seconds_exceeded"
    ELSE IF OverTokens(used)              THEN "budget_tokens_exceeded"
    ELSE IF SameSignatureOverall(recs)    THEN "stuck_signature"
    ELSE IF ProgressStalled(recs)         THEN "progress_stalled"
    ELSE IF SameErrorConsecutive(recs) /\ escalatedOnce THEN "stuck_signature"
    ELSE "running"

ShouldEscalate(recs) == ~escalatedOnce /\ SameErrorConsecutive(recs)

\* min(cfg.timeout, tracker.remaining_seconds()) comes from the budget.
BudgetIsTighter == MaxSeconds - elapsed < CallTimeout


-----------------------------------------------------------------------------
(* The steps of the loop body.                                              *)

Init ==
    /\ opts \in CallOptions
    /\ stage = "begin"
    /\ attempt = 0
    /\ records = <<>>
    /\ tokens = 0
    /\ elapsed = 0
    /\ escalateNext = FALSE
    /\ escalatedOnce = FALSE
    /\ patch = "none"
    /\ cleared = {}
    /\ stop = "running"

TimePasses == elapsed' \in elapsed..MaxSeconds

\* tracker.record: exactly one row per attempt, stamped with this attempt's
\* escalation flag; the tokens of the call are charged here (and counted where an axis reads them).
Record(sig, gate, cost) ==
    /\ records' = Append(records, [sig |-> sig, gate |-> gate, escalated |-> escalateNext])
    /\ tokens' = IF TokensCapped THEN tokens + cost ELSE tokens

\* A stop that no later attempt can revoke.
Finish(reason) ==
    /\ stop' = reason
    /\ stage' = "done"
    /\ UNCHANGED <<opts, attempt, escalateNext, escalatedOnce>>

\* Mutant: an attempt that finds no time left leaves no row.
BeginAttemptUnrecorded ==
    /\ stage = "begin"
    /\ attempt' = attempt + 1
    /\ TimePasses
    /\ IF elapsed' >= MaxSeconds
       THEN /\ stop' = "budget_seconds_exceeded"
            /\ stage' = "done"
       ELSE /\ stage' = "call"
            /\ UNCHANGED stop
    /\ UNCHANGED <<opts, records, tokens, escalateNext, escalatedOnce, patch, cleared>>

\* Top of the while loop: the attempt is counted before its deadline is known.
BeginAttempt ==
    /\ stage = "begin"
    /\ attempt' = attempt + 1
    /\ TimePasses
    /\ IF elapsed' >= MaxSeconds
       THEN \* deadline <= 0: a row that has no signature, although it failed
            /\ records' = Append(records, [sig |-> NoSignature, gate |-> "budget",
                                           escalated |-> escalateNext])
            /\ stop' = "budget_seconds_exceeded"
            /\ stage' = "done"
       ELSE /\ stage' = "call"
            /\ UNCHANGED <<records, stop>>
    /\ UNCHANGED <<opts, tokens, escalateNext, escalatedOnce, patch, cleared>>

\* httpx.TimeoutException while the budget was the tighter deadline.
CallHitsBudget(sig) ==
    /\ stage = "call"
    /\ BudgetIsTighter
    /\ TimePasses
    /\ Record(sig, "budget", 0)
    /\ Finish("budget_seconds_exceeded")
    /\ UNCHANGED <<patch, cleared>>

\* Any other exception out of _call_agent.
CallFails(sig) ==
    /\ stage = "call"
    /\ TimePasses
    /\ Record(sig, "provider", 0)
    /\ Finish("api_error")
    /\ UNCHANGED <<patch, cleared>>

\* Mutant: the rejected patch stays in hand.
RejectKeepsPatch(sig, gate) ==
    /\ TimePasses
    /\ \E cost \in CallTokens : Record(sig, gate, cost)
    /\ UNCHANGED <<patch, cleared>>
    /\ LET reason == CheckStop(records', tokens', elapsed')
       IN  IF reason # "running"
           THEN Finish(reason)
           ELSE /\ stage' = "begin"
                /\ escalateNext' = ShouldEscalate(records')
                /\ escalatedOnce' = (escalatedOnce \/ ShouldEscalate(records'))
                /\ UNCHANGED <<opts, attempt, stop>>

\* What every rejection shares: record, ask check_stop, escalate at most once,
\* drop the patch and go round again.
Reject(sig, gate) ==
    /\ TimePasses
    /\ \E cost \in CallTokens : Record(sig, gate, cost)
    /\ patch' = "none"
    /\ cleared' = {}
    /\ LET reason == CheckStop(records', tokens', elapsed')
       IN  IF reason # "running"
           THEN Finish(reason)
           ELSE /\ stage' = "begin"
                /\ escalateNext' = ShouldEscalate(records')
                /\ escalatedOnce' = (escalatedOnce \/ ShouldEscalate(records'))
                /\ UNCHANGED <<opts, attempt, stop>>

\* The answer is not a PatchSpec.
ReplyUnparsable(sig) ==
    /\ stage = "call"
    /\ Reject(sig, "schema")

\* The model defers although the caller did not offer it that way out.
DeferRejected(sig) ==
    /\ stage = "call"
    /\ ~opts.mayDefer
    /\ Reject(sig, "defer_rejected")

\* Mutant: any deferral is taken, offered or not.
DeferAlwaysAccepted ==
    /\ stage = "call"
    /\ patch' = "defer"
    /\ cleared' = {"schema"}
    /\ TimePasses
    /\ \E cost \in CallTokens : Record(NoSignature, "none", cost)
    /\ Finish("deferred")

\* An allowed deferral ends the loop before any gate: it changes nothing.
DeferAccepted ==
    /\ stage = "call"
    /\ opts.mayDefer
    /\ patch' = "defer"
    /\ cleared' = {"schema"}
    /\ TimePasses
    /\ \E cost \in CallTokens : Record(NoSignature, "none", cost)
    /\ Finish("deferred")

\* A PatchSpec that makes changes goes to the gates the caller supplied.
ReplyPatch ==
    /\ stage = "call"
    /\ patch' = "fix"
    /\ cleared' = {"schema"}
    /\ stage' = IF opts.validates THEN "validate" ELSE "apply"
    /\ TimePasses
    /\ UNCHANGED <<opts, attempt, records, tokens, escalateNext, escalatedOnce, stop>>

\* Mutant: a failed validation asks the model again inside the same attempt.
ValidateRejectsUncounted(sig) ==
    /\ stage = "validate"
    /\ stage' = "call"
    /\ patch' = "none"
    /\ cleared' = {}
    /\ TimePasses
    /\ UNCHANGED <<opts, attempt, records, tokens, escalateNext, escalatedOnce, stop>>

\* deep_loop: validate_callback answers no, or raises.
ValidateRejects(sig) ==
    /\ stage = "validate"
    /\ Reject(sig, "validate")

ValidatePasses ==
    /\ stage = "validate"
    /\ stage' = "apply"
    /\ cleared' = cleared \cup {"validate"}
    /\ TimePasses
    /\ UNCHANGED <<opts, attempt, records, tokens, escalateNext, escalatedOnce, patch, stop>>

\* apply_callback answers no, or raises.
ApplyRejects(sig) ==
    /\ stage = "apply"
    /\ opts.applies
    /\ Reject(sig, "apply")

\* The patch is accepted, by apply_callback or for want of one; check_stop
\* finds the last signature None and says "solved" whatever the budget says.
Accept ==
    /\ stage = "apply"
    /\ cleared' = IF opts.applies THEN cleared \cup {"apply"} ELSE cleared
    /\ TimePasses
    /\ \E cost \in CallTokens : Record(NoSignature, "none", cost)
    /\ Finish(CheckStop(records', tokens', elapsed'))
    /\ UNCHANGED patch

Next ==
    \/ BeginAttempt
    \/ DeferAccepted
    \/ ReplyPatch
    \/ ValidatePasses
    \/ Accept
    \/ \E sig \in Signatures :
        \/ CallHitsBudget(sig)
        \/ CallFails(sig)
        \/ ReplyUnparsable(sig)
        \/ DeferRejected(sig)
        \/ ValidateRejects(sig)
        \/ ApplyRejects(sig)

\* The loop is one thread of straight-line code; the model call has a deadline
\* and the callbacks return, so as long as it can take a step it takes one.
Spec == Init /\ [][Next]_vars /\ WF_vars(Next)

-----------------------------------------------------------------------------

TypeOK ==
    /\ opts \in CallOptions
    /\ stage \in Stages
    /\ attempt \in 0..opts.budget.max_reprompts
    /\ records \in Seq(AttemptRecord)
    /\ tokens \in Nat
    /\ elapsed \in 0..MaxSeconds
    /\ escalateNext \in BOOLEAN
    /\ escalatedOnce \in BOOLEAN
    /\ patch \in Patches
    /\ cleared \subseteq {"schema", "validate", "apply"}
    /\ stop \in StopReasons \cup {"running"}

\* Every attempt that was counted leaves exactly one row in heal_attempts,
\* whichever of the nine exits of the loop body it took.
EveryAttemptRecordedOnce ==
    Len(records) = IF stage \in {"begin", "done"} THEN attempt ELSE attempt - 1

\* The result is coherent: a patch comes back exactly with the reason that
\* announces it.  A patch rejected in an earlier attempt must not survive
\* into the result of a later one that failed at the provider.
ResultCoherent ==
    stage = "done" =>
        /\ stop # "running"
        /\ patch = "fix" <=> stop = "solved"
        /\ patch = "defer" <=> stop = "deferred"

\* The gates a fix must have passed before the caller may see it.
RequiredGates ==
    {"schema"} \cup (IF opts.validates THEN {"validate"} ELSE {})
               \cup (IF opts.applies THEN {"apply"} ELSE {})

\* A fix that is returned passed, itself and not a predecessor, every gate
\* the caller asked for.
ReturnedFixIsCleared ==
    stage = "done" /\ patch = "fix" => RequiredGates \subseteq cleared

\* What a caller gets is what it is said to be: reason and patch agree, and a
\* fix went through every gate, after any mix of rejected attempts, deferrals
\* and provider errors.
ResultSound == ResultCoherent /\ ReturnedFixIsCleared

\* One escalation per heal, never two (BudgetTracker.escalated_once).
AtMostOneEscalation ==
    \A i, j \in DOMAIN records :
        records[i].escalated /\ records[j].escalated => i = j

\* Being stuck on the same error in a row aborts only after the escalated
\* attempt was really made: the loop may not skip the one bold attempt it
\* owes, unless one signature is back same_signature_overall times.
StuckNeedsEscalatedAttempt ==
    stage = "done" /\ stop = "stuck_signature" =>
        \/ SameSignatureOverall(records)
        \/ \E i \in DOMAIN records : records[i].escalated

\* The escalated attempt is made once: not twice, and not skipped.
EscalatesOnce == AtMostOneEscalation /\ StuckNeedsEscalatedAttempt

\* The same signature came back in a row: what is left is the one attempt at a
\* raised temperature, and it has not been made.
EscalationLeft ==
    SameErrorConsecutive(records) =>
        escalateNext /\ \A i \in DOMAIN records : ~records[i].escalated

\* No model call starts once any of the six axes has run out: attempts, seconds,
\* tokens, a signature too often overall, no progress; and after the same
\* signature in a row only the one escalated attempt still starts.
NoCallPastBudget ==
    [][stage = "begin" /\ stage' = "call" =>
        /\ attempt' <= opts.budget.max_reprompts
        /\ elapsed' < MaxSeconds
        /\ records # <<>> => /\ ~OverTokens(tokens)
                             /\ ~SameSignatureOverall(records)
                             /\ ~ProgressStalled(records)
                             /\ EscalationLeft]_vars

\* Whatever the model answers, a loop that was begun ends.
Terminates == attempt # 0 ~> stage = "done"

\* The loop implements the contract its callers rely on.
Session == INSTANCE HealSession WITH
    budget <- [limit |-> opts.budget.max_reprompts, mayDefer |-> opts.mayDefer],
    tries  <- Len(records),
    answer <- IF stage = "done" THEN [patch |-> patch, reason |-> stop]
                                ELSE [patch |-> "none", reason |-> "running"]

KeepsSessionContract == Session!SessionSpec

=============================================================================
