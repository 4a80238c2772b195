------------------------- MODULE HealSessionProofs -------------------------
(***************************************************************************)
(* The two that keep the promise of HealSession, each for every value of   *)
(* its constants: the attempt loop (HealAttempts), where AttemptInv says   *)
(* what each point of its body may rely on, and the cascade of sessions    *)
(* (HealCascade), where CascadeInv ties the rows of a tier to the attempts *)
(* of its session and what is returned to the tier that answered.          *)
(***************************************************************************)
EXTENDS HealAttempts, HealCascade, FiniteSetTheorems, SequenceTheorems, TLAPS

Limit == opts.budget.max_reprompts

\* A session is over exactly when it has a reason, and another attempt starts
\* only while the attempt axis allows one.
LoopOpen ==
    /\ (stage = "done") <=> (stop # "running")
    /\ stage = "begin" => attempt < Limit
    /\ stage # "begin" => attempt >= 1
    /\ (stage = "done" /\ stop = "exhausted_attempts") => attempt = Limit

\* What is in hand at each point of the loop body.
PatchInHand ==
    /\ stage \in {"begin", "call"} => patch = "none"
    /\ stage = "validate" => patch = "fix" /\ opts.validates /\ "schema" \in cleared
    /\ stage = "apply" => /\ patch = "fix"
                          /\ "schema" \in cleared
                          /\ opts.validates => "validate" \in cleared
    /\ (stage = "done" /\ patch = "defer") => opts.mayDefer

\* The one escalation: owed to the next record, or already in the records.
EscalationLedger ==
    stage # "done" =>
        /\ (escalateNext \/ (\E i \in DOMAIN records : records[i].escalated)) => escalatedOnce
        /\ escalatedOnce => (escalateNext \/ (\E i \in DOMAIN records : records[i].escalated))
        /\ escalateNext => (\A i \in DOMAIN records : ~records[i].escalated)

AttemptInv ==
    /\ TypeOK
    /\ EveryAttemptRecordedOnce
    /\ LoopOpen
    /\ PatchInHand
    /\ ResultCoherent
    /\ ReturnedFixIsCleared
    /\ EscalationLedger
    /\ AtMostOneEscalation
    /\ StuckNeedsEscalatedAttempt

-----------------------------------------------------------------------------

\* A caller's options carry a budget BudgetConfig.__post_init__ accepted.
LEMMA OptionTypes ==
    ASSUME opts \in CallOptions
    PROVE  /\ opts.budget.max_reprompts \in Nat \ {0}
           /\ opts.budget.max_seconds \in Nat \ {0}
           /\ opts.mayDefer \in BOOLEAN
           /\ opts.validates \in BOOLEAN
           /\ opts.applies \in BOOLEAN
<1>1. opts.budget \in BudgetConfig
  BY AttemptAssumption DEF CallOptions
<1>2. QED
  BY <1>1 DEF CallOptions, BudgetConfig

\* What check_stop can answer, axis by axis.
LEMMA CheckStopFacts ==
    ASSUME NEW recs, NEW used, NEW now,
           attempt \in Nat, opts.budget.max_reprompts \in Nat
    PROVE  LET reason == CheckStop(recs, used, now)
           IN  /\ reason \in (StopReasons \cup {"running"}) \ {"api_error", "deferred"}
               /\ (reason = "solved") <=> (recs[Len(recs)].sig = NoSignature)
               /\ reason = "running" => /\ attempt < opts.budget.max_reprompts
                                        /\ ~OverTokens(used)
                                        /\ ~SameSignatureOverall(recs)
                                        /\ ~ProgressStalled(recs)
                                        /\ ~(SameErrorConsecutive(recs) /\ escalatedOnce)
               /\ reason = "exhausted_attempts" => attempt >= opts.budget.max_reprompts
               /\ reason = "stuck_signature" => SameSignatureOverall(recs) \/ escalatedOnce
  BY DEF CheckStop, StopReasons

\* Appending a record: the sequence grows by it and keeps what it held.
LEMMA AppendRecord ==
    ASSUME NEW recs \in Seq(AttemptRecord), NEW r \in AttemptRecord
    PROVE  /\ Append(recs, r) \in Seq(AttemptRecord)
           /\ Len(Append(recs, r)) = Len(recs) + 1
           /\ Append(recs, r)[Len(recs) + 1] = r
           /\ DOMAIN Append(recs, r) = DOMAIN recs \cup {Len(recs) + 1}
           /\ Len(recs) + 1 \notin DOMAIN recs
           /\ \A i \in DOMAIN recs : Append(recs, r)[i] = recs[i]
  OBVIOUS

\* The escalated rows after a record is appended to a ledger that balances.
LEMMA LedgerAppend ==
    ASSUME NEW recs \in Seq(AttemptRecord), NEW r \in AttemptRecord,
           \A i, j \in DOMAIN recs : recs[i].escalated /\ recs[j].escalated => i = j,
           r.escalated => \A i \in DOMAIN recs : ~recs[i].escalated
    PROVE  /\ \A i, j \in DOMAIN Append(recs, r) :
                  Append(recs, r)[i].escalated /\ Append(recs, r)[j].escalated => i = j
           /\ (\E i \in DOMAIN Append(recs, r) : Append(recs, r)[i].escalated)
                  <=> (r.escalated \/ \E i \in DOMAIN recs : recs[i].escalated)
  BY AppendRecord

\* What every step that appends a record does to the ledger and to the types.
LEMMA RecordStep ==
    ASSUME AttemptInv, NEW sig \in Signatures \cup {NoSignature}, NEW gate \in Gates,
           NEW cost \in Nat, stage # "done",
           Record(sig, gate, cost), opts' = opts
    PROVE  /\ records' \in Seq(AttemptRecord)
           /\ tokens' \in Nat
           /\ Len(records') = Len(records) + 1
           /\ records'[Len(records')].sig = sig
           /\ AtMostOneEscalation'
           /\ escalatedOnce <=> \E i \in DOMAIN records' : records'[i].escalated
<1> DEFINE r == [sig |-> sig, gate |-> gate, escalated |-> escalateNext]
<1>1. r \in AttemptRecord /\ records' = Append(records, r) /\ records \in Seq(AttemptRecord)
  BY DEF Record, AttemptInv, TypeOK, AttemptRecord
<1>2. tokens' \in Nat
  BY DEF Record, AttemptInv, TypeOK
<1>3. /\ records' \in Seq(AttemptRecord)
      /\ Len(records') = Len(records) + 1
      /\ records'[Len(records) + 1] = r
  BY <1>1, AppendRecord
<1>4. /\ escalateNext => \A i \in DOMAIN records : ~records[i].escalated
      /\ escalatedOnce <=> (escalateNext \/ \E i \in DOMAIN records : records[i].escalated)
      /\ \A i, j \in DOMAIN records : records[i].escalated /\ records[j].escalated => i = j
  BY DEF AttemptInv, EscalationLedger, AtMostOneEscalation
<1>5. r.escalated = escalateNext
  OBVIOUS
<1>6. /\ \A i, j \in DOMAIN records' : records'[i].escalated /\ records'[j].escalated => i = j
      /\ (\E i \in DOMAIN records' : records'[i].escalated)
             <=> (escalateNext \/ \E i \in DOMAIN records : records[i].escalated)
  <2> HIDE DEF r
  <2> QED BY <1>1, <1>4, <1>5, LedgerAppend
<1>7. QED
  BY <1>2, <1>3, <1>4, <1>6 DEF AtMostOneEscalation

\* A rejection re-establishes the invariant, whether it ends the loop or goes
\* round again.
LEMMA RejectStep ==
    ASSUME AttemptInv, NEW sig \in Signatures, NEW gate \in Gates,
           stage \in {"call", "validate", "apply"}, Reject(sig, gate)
    PROVE  AttemptInv'
<1> DEFINE reason == CheckStop(records', tokens', elapsed')
<1>1. PICK cost \in CallTokens : Record(sig, gate, cost)
  BY DEF Reject
<1>2. cost \in Nat
  BY AttemptAssumption
<1>3. opts' = opts /\ attempt' = attempt /\ patch' = "none" /\ cleared' = {}
  BY DEF Reject, Finish
<1>4. /\ records' \in Seq(AttemptRecord)
      /\ tokens' \in Nat
      /\ Len(records') = Len(records) + 1
      /\ records'[Len(records')].sig = sig
      /\ AtMostOneEscalation'
      /\ escalatedOnce <=> \E i \in DOMAIN records' : records'[i].escalated
  BY <1>1, <1>2, <1>3, RecordStep
<1>5. attempt \in Nat /\ Limit \in Nat \ {0} /\ attempt <= Limit /\ attempt >= 1
  BY OptionTypes DEF AttemptInv, TypeOK, LoopOpen, Limit
<1>6. /\ reason \in (StopReasons \cup {"running"}) \ {"api_error", "deferred"}
      /\ reason # "solved"
      /\ reason = "running" => attempt < Limit
      /\ reason = "exhausted_attempts" => attempt >= Limit
      /\ reason = "stuck_signature" => SameSignatureOverall(records') \/ escalatedOnce
  BY <1>4, <1>5, CheckStopFacts, AttemptAssumption DEF Limit
<1>7. CASE reason # "running"
  <2>1. /\ stop' = reason /\ stage' = "done"
        /\ UNCHANGED <<escalateNext, escalatedOnce>>
    BY <1>7 DEF Reject, Finish
  <2> HIDE DEF reason
  <2>2. TypeOK'
    BY <1>3, <1>4, <1>5, <1>6, <2>1 DEF Reject, TimePasses, AttemptInv, TypeOK, Stages, Patches, MaxSeconds
  <2>3. EveryAttemptRecordedOnce'
    BY <1>3, <1>4, <1>5, <2>1 DEF AttemptInv, EveryAttemptRecordedOnce
  <2>4. LoopOpen' /\ PatchInHand' /\ ResultCoherent' /\ ReturnedFixIsCleared'
    BY <1>3, <1>5, <1>6, <1>7, <2>1
    DEF LoopOpen, Limit, PatchInHand, ResultCoherent, ReturnedFixIsCleared
  <2>5. EscalationLedger' /\ StuckNeedsEscalatedAttempt'
    BY <1>3, <1>4, <1>6, <2>1
    DEF EscalationLedger, StuckNeedsEscalatedAttempt, SameSignatureOverall
  <2>6. QED
    BY <1>4, <2>2, <2>3, <2>4, <2>5 DEF AttemptInv
<1>8. CASE reason = "running"
  <2>1. /\ stage' = "begin"
        /\ escalateNext' = ShouldEscalate(records')
        /\ escalatedOnce' = (escalatedOnce \/ ShouldEscalate(records'))
        /\ stop' = stop
    BY <1>8 DEF Reject
  <2>2. /\ ShouldEscalate(records') \in BOOLEAN
        /\ ShouldEscalate(records') => ~escalatedOnce
    BY DEF ShouldEscalate, SameErrorConsecutive, TailRepeats
  <2> HIDE DEF reason
  <2>3. TypeOK'
    BY <1>3, <1>4, <1>5, <2>1, <2>2 DEF Reject, TimePasses, AttemptInv, TypeOK, Stages, Patches, MaxSeconds
  <2>4. EveryAttemptRecordedOnce'
    BY <1>3, <1>4, <1>5, <2>1 DEF AttemptInv, EveryAttemptRecordedOnce
  <2>5. LoopOpen' /\ PatchInHand' /\ ResultCoherent' /\ ReturnedFixIsCleared'
    BY <1>3, <1>5, <1>6, <1>8, <2>1
    DEF AttemptInv, LoopOpen, Limit, PatchInHand, ResultCoherent, ReturnedFixIsCleared
  <2>6. EscalationLedger' /\ StuckNeedsEscalatedAttempt'
    BY <1>4, <2>1, <2>2 DEF EscalationLedger, StuckNeedsEscalatedAttempt
  <2>7. QED
    BY <1>4, <2>3, <2>4, <2>5, <2>6 DEF AttemptInv
<1>9. QED
  BY <1>7, <1>8

\* The steps that record and end the loop without asking check_stop's axes.
LEMMA FinishStep ==
    ASSUME AttemptInv, NEW sig \in Signatures \cup {NoSignature}, NEW gate \in Gates,
           NEW cost \in Nat, NEW reason \in StopReasons,
           stage \in {"call", "validate", "apply"},
           Record(sig, gate, cost), Finish(reason), TimePasses,
           reason \notin {"exhausted_attempts", "stuck_signature"},
           patch' \in Patches, cleared' \subseteq {"schema", "validate", "apply"},
           (patch' = "fix") <=> (reason = "solved"),
           (patch' = "defer") <=> (reason = "deferred"),
           patch' = "fix" => RequiredGates \subseteq cleared',
           patch' = "defer" => opts.mayDefer
    PROVE  AttemptInv'
<1>1. /\ stop' = reason /\ stage' = "done"
      /\ UNCHANGED <<opts, attempt, escalateNext, escalatedOnce>>
  BY DEF Finish
<1>2. /\ records' \in Seq(AttemptRecord)
      /\ tokens' \in Nat
      /\ Len(records') = Len(records) + 1
      /\ AtMostOneEscalation'
  BY <1>1, RecordStep
<1>3. attempt \in Nat /\ attempt >= 1 /\ reason # "running"
  BY OptionTypes DEF AttemptInv, TypeOK, LoopOpen, StopReasons
<1>4. TypeOK'
  BY <1>1, <1>2, <1>3 DEF TimePasses, AttemptInv, TypeOK, Stages, MaxSeconds
<1>5. EveryAttemptRecordedOnce'
  BY <1>1, <1>2, <1>3 DEF AttemptInv, EveryAttemptRecordedOnce
<1>6. LoopOpen' /\ PatchInHand' /\ ResultCoherent'
  BY <1>1, <1>3 DEF LoopOpen, Limit, PatchInHand, ResultCoherent
<1>7. ReturnedFixIsCleared'
  BY <1>1 DEF ReturnedFixIsCleared, RequiredGates
<1>8. EscalationLedger' /\ StuckNeedsEscalatedAttempt'
  BY <1>1 DEF EscalationLedger, StuckNeedsEscalatedAttempt
<1>9. QED
  BY <1>2, <1>4, <1>5, <1>6, <1>7, <1>8 DEF AttemptInv

\* The top of the loop body, with time left and without.
LEMMA BeginStep ==
    ASSUME AttemptInv, BeginAttempt
    PROVE  AttemptInv'
<1> DEFINE r == [sig |-> NoSignature, gate |-> "budget", escalated |-> escalateNext]
<1>1. /\ stage = "begin" /\ attempt' = attempt + 1 /\ patch = "none"
      /\ UNCHANGED <<opts, tokens, escalateNext, escalatedOnce, patch, cleared>>
      /\ elapsed' \in elapsed..MaxSeconds
  BY DEF BeginAttempt, AttemptInv, PatchInHand, TimePasses
<1>2. /\ attempt \in Nat /\ attempt < Limit /\ Limit \in Nat
      /\ Len(records) = attempt /\ records \in Seq(AttemptRecord) /\ stop = "running"
  BY <1>1, OptionTypes
  DEF AttemptInv, TypeOK, LoopOpen, Limit, EveryAttemptRecordedOnce
<1>3. CASE elapsed' >= MaxSeconds
  <2>1. records' = Append(records, r) /\ stop' = "budget_seconds_exceeded" /\ stage' = "done"
    BY <1>3 DEF BeginAttempt
  <2>2. /\ r \in AttemptRecord
        /\ r.escalated => \A i \in DOMAIN records : ~records[i].escalated
        /\ \A i, j \in DOMAIN records : records[i].escalated /\ records[j].escalated => i = j
    BY <1>1 DEF AttemptInv, TypeOK, AttemptRecord, Gates, EscalationLedger, AtMostOneEscalation
  <2> HIDE DEF r
  <2>3. /\ records' \in Seq(AttemptRecord)
        /\ Len(records') = Len(records) + 1
        /\ AtMostOneEscalation'
    BY <1>2, <2>1, <2>2, AppendRecord, LedgerAppend DEF AtMostOneEscalation
  <2>4. TypeOK'
    BY <1>1, <1>2, <2>1, <2>3
    DEF AttemptInv, TypeOK, Stages, StopReasons, MaxSeconds, Limit
  <2>5. EveryAttemptRecordedOnce' /\ LoopOpen' /\ PatchInHand' /\ ResultCoherent'
    BY <1>1, <1>2, <2>1, <2>3
    DEF EveryAttemptRecordedOnce, LoopOpen, PatchInHand, ResultCoherent, Limit
  <2>6. ReturnedFixIsCleared' /\ EscalationLedger' /\ StuckNeedsEscalatedAttempt'
    BY <1>1, <2>1 DEF ReturnedFixIsCleared, EscalationLedger, StuckNeedsEscalatedAttempt
  <2>7. QED
    BY <2>3, <2>4, <2>5, <2>6 DEF AttemptInv
<1>4. CASE ~(elapsed' >= MaxSeconds)
  <2>1. stage' = "call" /\ UNCHANGED <<records, stop>>
    BY <1>4 DEF BeginAttempt
  <2>2. TypeOK'
    BY <1>1, <1>2, <2>1 DEF AttemptInv, TypeOK, Stages, MaxSeconds, Limit
  <2>3. EveryAttemptRecordedOnce' /\ LoopOpen' /\ PatchInHand' /\ ResultCoherent'
    BY <1>1, <1>2, <2>1
    DEF EveryAttemptRecordedOnce, LoopOpen, PatchInHand, ResultCoherent, Limit
  <2>4. ReturnedFixIsCleared' /\ StuckNeedsEscalatedAttempt' /\ AtMostOneEscalation'
    BY <1>1, <2>1
    DEF AttemptInv, ReturnedFixIsCleared, StuckNeedsEscalatedAttempt, AtMostOneEscalation
  <2>5. EscalationLedger'
    BY <1>1, <2>1 DEF AttemptInv, EscalationLedger
  <2>6. QED
    BY <2>2, <2>3, <2>4, <2>5 DEF AttemptInv
<1>5. QED
  BY <1>3, <1>4

\* A patch arrives, or passes validation: nothing is recorded yet.
LEMMA GateStep ==
    ASSUME AttemptInv, ReplyPatch \/ ValidatePasses
    PROVE  AttemptInv'
<1>1. /\ stage \in {"call", "validate"} /\ stage' \in {"validate", "apply"}
      /\ patch' = "fix" /\ cleared' \subseteq {"schema", "validate", "apply"}
      /\ UNCHANGED <<opts, attempt, records, tokens, escalateNext, escalatedOnce, stop>>
      /\ elapsed' \in elapsed..MaxSeconds
      /\ "schema" \in cleared'
      /\ stage' = "validate" => opts.validates
      /\ (stage' = "apply" /\ opts.validates) => "validate" \in cleared'
  BY DEF AttemptInv, TypeOK, PatchInHand, ReplyPatch, ValidatePasses, TimePasses
<1>2. attempt \in Nat
  BY OptionTypes DEF AttemptInv, TypeOK
<1>3. TypeOK'
  BY <1>1 DEF AttemptInv, TypeOK, Stages, Patches, MaxSeconds
<1>4. EveryAttemptRecordedOnce' /\ LoopOpen' /\ PatchInHand' /\ ResultCoherent'
  BY <1>1, <1>2
  DEF AttemptInv, EveryAttemptRecordedOnce, LoopOpen, PatchInHand, ResultCoherent, Limit
<1>5. /\ ReturnedFixIsCleared' /\ EscalationLedger'
      /\ StuckNeedsEscalatedAttempt' /\ AtMostOneEscalation'
  BY <1>1
  DEF AttemptInv, ReturnedFixIsCleared, EscalationLedger, StuckNeedsEscalatedAttempt,
      AtMostOneEscalation
<1>6. QED
  BY <1>3, <1>4, <1>5 DEF AttemptInv

\* A call starts with the invariant.
LEMMA InitInv == Init => AttemptInv
<1> SUFFICES ASSUME Init PROVE AttemptInv
  OBVIOUS
<1>1. opts.budget.max_reprompts \in Nat \ {0} /\ opts.budget.max_seconds \in Nat \ {0}
  BY OptionTypes DEF Init
<1>2. TypeOK
  <2>1. 0 \in 0..opts.budget.max_reprompts /\ 0 \in 0..MaxSeconds
    BY <1>1 DEF MaxSeconds
  <2>2. <<>> \in Seq(AttemptRecord)
    OBVIOUS
  <2>3. QED
    BY <2>1, <2>2 DEF Init, TypeOK, Stages, Patches
<1>3. EveryAttemptRecordedOnce /\ LoopOpen /\ PatchInHand /\ ResultCoherent
  BY <1>1 DEF Init, EveryAttemptRecordedOnce, LoopOpen, Limit, PatchInHand, ResultCoherent
<1>4. /\ ReturnedFixIsCleared /\ EscalationLedger
      /\ StuckNeedsEscalatedAttempt /\ AtMostOneEscalation
  BY DEF Init, ReturnedFixIsCleared, EscalationLedger, StuckNeedsEscalatedAttempt,
         AtMostOneEscalation
<1>5. QED
  BY <1>2, <1>3, <1>4 DEF AttemptInv

\* Every step of the loop body keeps it: one case per action.
LEMMA NextInv == AttemptInv /\ [Next]_vars => AttemptInv'
<1> SUFFICES ASSUME AttemptInv, [Next]_vars PROVE AttemptInv'
  OBVIOUS
<1>1. CASE BeginAttempt
  BY <1>1, BeginStep
<1>2. CASE ReplyPatch \/ ValidatePasses
  BY <1>2, GateStep
<1>3. CASE DeferAccepted
  <2>1. PICK cost \in CallTokens : Record(NoSignature, "none", cost)
    BY <1>3 DEF DeferAccepted
  <2>2. cost \in Nat
    BY AttemptAssumption
  <2>3. QED
    BY <1>3, <2>1, <2>2, FinishStep DEF DeferAccepted, Gates, StopReasons, Patches
<1>4. CASE Accept
  <2>1. PICK cost \in CallTokens : Record(NoSignature, "none", cost)
    BY <1>4 DEF Accept
  <2>2. cost \in Nat
    BY AttemptAssumption
  <2>3. opts' = opts /\ stage = "apply" /\ patch' = patch /\ TimePasses
    BY <1>4 DEF Accept, Finish
  <2>4. records'[Len(records')].sig = NoSignature
    BY <2>1, <2>2, <2>3, RecordStep DEF Gates
  <2>5. CheckStop(records', tokens', elapsed') = "solved"
    BY <2>4 DEF CheckStop
  <2>6. Finish("solved")
    BY <1>4, <2>5 DEF Accept
  <2>7. /\ patch = "fix" /\ cleared' \subseteq {"schema", "validate", "apply"}
        /\ RequiredGates \subseteq cleared'
    BY <1>4, <2>3 DEF Accept, AttemptInv, TypeOK, PatchInHand, RequiredGates
  <2>8. QED
    BY <2>1, <2>2, <2>3, <2>6, <2>7, FinishStep DEF Gates, StopReasons, Patches
<1>5. CASE \E sig \in Signatures : CallHitsBudget(sig) \/ CallFails(sig)
  <2>1. PICK sig \in Signatures : CallHitsBudget(sig) \/ CallFails(sig)
    BY <1>5
  <2>2. patch = "none" /\ cleared \subseteq {"schema", "validate", "apply"}
    BY <2>1 DEF CallHitsBudget, CallFails, AttemptInv, TypeOK, PatchInHand
  <2>3. CASE CallHitsBudget(sig)
    BY <2>2, <2>3, FinishStep DEF CallHitsBudget, Gates, StopReasons, Patches
  <2>4. CASE CallFails(sig)
    BY <2>2, <2>4, FinishStep DEF CallFails, Gates, StopReasons, Patches
  <2>5. QED
    BY <2>1, <2>3, <2>4
<1>6. CASE \E sig \in Signatures : \/ ReplyUnparsable(sig) \/ DeferRejected(sig)
                                   \/ ValidateRejects(sig) \/ ApplyRejects(sig)
  BY <1>6, RejectStep
  DEF ReplyUnparsable, DeferRejected, ValidateRejects, ApplyRejects, Gates
<1>7. CASE UNCHANGED vars
  BY <1>7
  DEF vars, AttemptInv, TypeOK, EveryAttemptRecordedOnce, LoopOpen, Limit, PatchInHand,
      ResultCoherent, ReturnedFixIsCleared, RequiredGates, EscalationLedger,
      AtMostOneEscalation, StuckNeedsEscalatedAttempt, SameSignatureOverall, MaxSeconds
<1>8. QED
  BY <1>1, <1>2, <1>3, <1>4, <1>5, <1>6, <1>7 DEF Next

\* The inductive invariant of the attempt loop.
THEOREM AttemptInvariant == Spec => []AttemptInv
  BY InitInv, NextInv, PTL DEF Spec

\* Type correctness of the attempt loop, for every budget and signature set.
THEOREM TypeCorrect == Spec => []TypeOK
<1>1. AttemptInv => TypeOK
  BY DEF AttemptInv
<1>2. QED
  BY <1>1, AttemptInvariant, PTL

\* heal_attempts holds exactly one row per attempt the loop counted.
THEOREM RecordedOnce == Spec => []EveryAttemptRecordedOnce
<1>1. AttemptInv => EveryAttemptRecordedOnce
  BY DEF AttemptInv
<1>2. QED
  BY <1>1, AttemptInvariant, PTL

\* A patch comes back exactly with the reason that announces it, and no fix
\* leaves the loop without passing every gate its caller asked for.
THEOREM SoundResult == Spec => []ResultSound
<1>1. AttemptInv => ResultSound
  BY DEF AttemptInv, ResultSound
<1>2. QED
  BY <1>1, AttemptInvariant, PTL

\* One escalated attempt per heal, never two; and aborting as stuck is
\* preceded by it, or by a signature that came back as often as the overall
\* axis allows.
THEOREM EscalationOwed == Spec => []EscalatesOnce
<1>1. AttemptInv => EscalatesOnce
  BY DEF AttemptInv, EscalatesOnce
<1>2. QED
  BY <1>1, AttemptInvariant, PTL

-----------------------------------------------------------------------------
(* The budget is checked before every call, not only after it.              *)

BudgetLeft ==
    stage = "begin" /\ records # <<>> =>
        /\ ~OverTokens(tokens)
        /\ ~SameSignatureOverall(records)
        /\ ~ProgressStalled(records)
        /\ EscalationLeft

\* Which steps lead back to the top of the loop, and what they checked.
LEMMA BackToBegin ==
    ASSUME AttemptInv, Next, stage' = "begin"
    PROVE  /\ opts' = opts
           /\ attempt' < Limit /\ attempt' = attempt
           /\ Len(records') = Len(records) + 1
           /\ stage # "done" /\ stage # "begin"
           /\ ~OverTokens(tokens')
           /\ ~SameSignatureOverall(records')
           /\ ~ProgressStalled(records')
           /\ SameErrorConsecutive(records') => escalateNext'
<1>1. PICK sig \in Signatures, gate \in Gates :
          Reject(sig, gate) /\ stage \in {"call", "validate", "apply"}
  BY DEF Next, BeginAttempt, DeferAccepted, ReplyPatch, ValidatePasses, Accept, Finish,
         CallHitsBudget, CallFails, ReplyUnparsable, DeferRejected, ValidateRejects,
         ApplyRejects, Gates
<1>2. CheckStop(records', tokens', elapsed') = "running"
      /\ opts' = opts /\ attempt' = attempt
  BY <1>1 DEF Reject, Finish
<1>3. attempt \in Nat /\ opts.budget.max_reprompts \in Nat
  BY OptionTypes DEF AttemptInv, TypeOK
<1>4. PICK cost \in CallTokens : Record(sig, gate, cost)
  BY <1>1 DEF Reject
<1>5. Len(records') = Len(records) + 1
  BY <1>1, <1>2, <1>4, RecordStep, AttemptAssumption
<1>6. SameErrorConsecutive(records') => escalateNext'
  <2>1. ~(SameErrorConsecutive(records') /\ escalatedOnce)
    BY <1>2, <1>3, CheckStopFacts
  <2>2. escalateNext' = ShouldEscalate(records')
    BY <1>1, <1>2 DEF Reject
  <2>3. QED
    BY <2>1, <2>2 DEF ShouldEscalate
<1>7. QED
  BY <1>1, <1>2, <1>3, <1>5, <1>6, CheckStopFacts DEF Limit

\* No model call starts on a budget that has run out, on any of the six axes.
THEOREM CallsStayInBudget == Spec => NoCallPastBudget
<1>1. Init => BudgetLeft
  BY DEF Init, BudgetLeft
<1>2. AttemptInv /\ BudgetLeft /\ [Next]_vars => BudgetLeft'
  <2> SUFFICES ASSUME AttemptInv, BudgetLeft, [Next]_vars PROVE BudgetLeft'
    OBVIOUS
  <2>1. CASE UNCHANGED vars
    BY <2>1 DEF vars, BudgetLeft, EscalationLeft, OverTokens, TokensCapped, SameSignatureOverall,
                ProgressStalled, SameErrorConsecutive
  <2>2. CASE Next /\ stage' = "begin"
    <3>1. SameErrorConsecutive(records)' = SameErrorConsecutive(records')
      BY <2>2, BackToBegin DEF SameErrorConsecutive
    <3>2. AttemptInv'
      BY <2>2, NextInv
    <3>3. EscalationLeft'
      BY <2>2, <3>1, <3>2, BackToBegin DEF EscalationLeft, AttemptInv, EscalationLedger
    <3>4. QED
      BY <2>2, <3>3, BackToBegin
      DEF BudgetLeft, OverTokens, TokensCapped, SameSignatureOverall, ProgressStalled
  <2>3. CASE stage' # "begin"
    BY <2>3 DEF BudgetLeft
  <2>4. QED
    BY <2>1, <2>2, <2>3
<1>3. AttemptInv /\ BudgetLeft /\ [Next]_vars =>
        [stage = "begin" /\ stage' = "call" =>
            /\ attempt' <= opts.budget.max_reprompts
            /\ elapsed' < MaxSeconds
            /\ records # <<>> => /\ ~OverTokens(tokens)
                                 /\ ~SameSignatureOverall(records)
                                 /\ ~ProgressStalled(records)
                                 /\ EscalationLeft]_vars
  <2> SUFFICES ASSUME AttemptInv, BudgetLeft, Next, stage = "begin", stage' = "call"
               PROVE  /\ attempt' <= opts.budget.max_reprompts
                      /\ elapsed' < MaxSeconds
                      /\ records # <<>> => /\ ~OverTokens(tokens)
                                           /\ ~SameSignatureOverall(records)
                                           /\ ~ProgressStalled(records)
                                           /\ EscalationLeft
    OBVIOUS
  <2>1. BeginAttempt
    BY DEF Next, DeferAccepted, ReplyPatch, ValidatePasses, Accept, CallHitsBudget, CallFails,
           ReplyUnparsable, DeferRejected, ValidateRejects, ApplyRejects
  <2>2. /\ attempt \in Nat /\ opts.budget.max_reprompts \in Nat
        /\ attempt < opts.budget.max_reprompts
        /\ elapsed \in Nat /\ MaxSeconds \in Nat
    BY OptionTypes DEF AttemptInv, TypeOK, LoopOpen, Limit, MaxSeconds
  <2>3. attempt' = attempt + 1 /\ elapsed' \in elapsed..MaxSeconds /\ ~(elapsed' >= MaxSeconds)
    BY <2>1 DEF BeginAttempt, TimePasses
  <2>4. QED
    BY <2>2, <2>3 DEF BudgetLeft
<1>4. QED
  BY <1>1, <1>2, <1>3, AttemptInvariant, PTL DEF Spec, NoCallPastBudget

-----------------------------------------------------------------------------
(* The loop implements HealSession.                                         *)

Answered(p, reason) == [patch |-> p, reason |-> reason]

\* A step that ends the loop is the session's last try.
LEMMA LastTryStep ==
    ASSUME AttemptInv, AttemptInv', stage # "done", stage' = "done", opts' = opts,
           Len(records') = Len(records) + 1
    PROVE  Session!SessionNext
<1> DEFINE verdict == Answered(patch', stop')
<1>1. /\ stop' \in StopReasons /\ patch' \in Patches
      /\ (patch' = "fix") <=> (stop' = "solved")
      /\ (patch' = "defer") <=> (stop' = "deferred")
      /\ patch' = "defer" => opts.mayDefer
      /\ stop' = "exhausted_attempts" => attempt' = Limit
  BY DEF AttemptInv, TypeOK, ResultCoherent, LoopOpen, PatchInHand, Limit
<1>2. /\ attempt' \in 0..Limit /\ Limit \in Nat /\ Len(records') = attempt'
      /\ Len(records) \in Nat
  BY OptionTypes DEF AttemptInv, TypeOK, EveryAttemptRecordedOnce, Limit
<1>3. verdict \in Session!Answers
  BY <1>1 DEF Answered, Session!Answers, Session!Solved, Session!Deferred, Session!GaveUp,
              Session!GaveUpReasons, StopReasons, Patches
<1>4. verdict \in {Session!Solved} \cup Session!GaveUp
                  \cup (IF opts.mayDefer THEN {Session!Deferred} ELSE {})
  BY <1>1 DEF Answered, Session!Solved, Session!Deferred, Session!GaveUp,
              Session!GaveUpReasons, StopReasons, Patches
<1>5. Session!LastTry(verdict)
  BY <1>1, <1>2, <1>4 DEF Session!LastTry, Session!Unanswered, Answered, Limit
<1>6. QED
  BY <1>3, <1>5 DEF Session!SessionNext

\* Every step appends at most one record, keeps the options and leaves a
\* finished loop alone.
LEMMA StepShape ==
    ASSUME AttemptInv, Next
    PROVE  /\ opts' = opts
           /\ stage # "done"
           /\ stage' \in {"begin", "done"} => Len(records') = Len(records) + 1
           /\ stage' \notin {"begin", "done"} => records' = records
<1>1. records \in Seq(AttemptRecord)
  BY DEF AttemptInv, TypeOK
<1>2. CASE BeginAttempt \/ ReplyPatch \/ ValidatePasses
  <2>1. CASE BeginAttempt
    <3>1. CASE elapsed' >= MaxSeconds
      <4>1. PICK r : records' = Append(records, r)
        BY <2>1, <3>1 DEF BeginAttempt
      <4>2. Len(records') = Len(records) + 1
        BY <1>1, <4>1
      <4>3. QED
        BY <2>1, <3>1, <4>2 DEF BeginAttempt
    <3>2. CASE ~(elapsed' >= MaxSeconds)
      BY <2>1, <3>2 DEF BeginAttempt
    <3>3. QED
      BY <3>1, <3>2
  <2>2. CASE ReplyPatch \/ ValidatePasses
    BY <2>2 DEF ReplyPatch, ValidatePasses
  <2>3. QED
    BY <1>2, <2>1, <2>2
<1>3. CASE DeferAccepted \/ Accept \/ (\E sig \in Signatures : CallHitsBudget(sig) \/ CallFails(sig))
  <2>1. PICK sig, gate, cost : Record(sig, gate, cost)
    BY <1>3 DEF DeferAccepted, Accept, CallHitsBudget, CallFails
  <2>2. Len(records') = Len(records) + 1
    BY <1>1, <2>1 DEF Record
  <2>3. stage' = "done" /\ opts' = opts /\ stage # "done"
    BY <1>3 DEF DeferAccepted, Accept, CallHitsBudget, CallFails, Finish
  <2>4. QED
    BY <2>2, <2>3
<1>4. CASE \E sig \in Signatures : \/ ReplyUnparsable(sig) \/ DeferRejected(sig)
                                   \/ ValidateRejects(sig) \/ ApplyRejects(sig)
  <2>1. PICK sig \in Signatures, gate \in Gates :
            Reject(sig, gate) /\ stage \in {"call", "validate", "apply"}
    BY <1>4 DEF ReplyUnparsable, DeferRejected, ValidateRejects, ApplyRejects, Gates
  <2>2. PICK cost \in CallTokens : Record(sig, gate, cost)
    BY <2>1 DEF Reject
  <2>3. Len(records') = Len(records) + 1
    BY <1>1, <2>2 DEF Record
  <2>4. QED
    BY <2>1, <2>3 DEF Reject, Finish
<1>5. QED
  BY <1>2, <1>3, <1>4 DEF Next

\* The attempt loop implements the contract its callers rely on: at most
\* budget.limit tries and one coherent answer.
THEOREM ImplementsSession == Spec => KeepsSessionContract
<1>1. Init => Session!SessionInit
  <2> SUFFICES ASSUME Init PROVE Session!SessionInit
    OBVIOUS
  <2>1. opts.budget.max_reprompts \in Nat \ {0} /\ opts.mayDefer \in BOOLEAN
    BY OptionTypes DEF Init
  <2>2. QED
    BY <2>1 DEF Init, Session!SessionInit, Session!Budgets, Session!Unanswered
<1>2. AttemptInv /\ AttemptInv' /\ [Next]_vars => [Session!SessionNext]_(Session!sessionVars)
  <2> SUFFICES ASSUME AttemptInv, AttemptInv', [Next]_vars
               PROVE  [Session!SessionNext]_(Session!sessionVars)
    OBVIOUS
  <2>1. CASE UNCHANGED vars
    BY <2>1 DEF vars, Session!sessionVars
  <2>2. CASE Next /\ stage' = "done"
    BY <2>2, StepShape, LastTryStep
  <2>3. CASE Next /\ stage' = "begin"
    <3>1. attempt' < Limit /\ opts' = opts /\ Len(records') = Len(records) + 1 /\ stage # "done"
      BY <2>3, BackToBegin
    <3>2. Len(records') = attempt' /\ Len(records) \in Nat
      BY <2>3 DEF AttemptInv, EveryAttemptRecordedOnce, TypeOK
    <3>3. Session!FailedTry
      BY <2>3, <3>1, <3>2 DEF Session!FailedTry, Session!Unanswered, Limit
    <3>4. QED
      BY <3>3 DEF Session!SessionNext
  <2>4. CASE Next /\ stage' \notin {"begin", "done"}
    BY <2>4, StepShape DEF Session!sessionVars
  <2>5. QED
    BY <2>1, <2>2, <2>3, <2>4
<1>3. QED
  BY <1>1, <1>2, AttemptInvariant, PTL
  DEF Spec, KeepsSessionContract, Session!SessionSpec


-----------------------------------------------------------------------------
(* The cascade.                                                            *)

RowsOf(rs, t) == {i \in DOMAIN rs : rs[i] = t}

\* The session that runs is this tier's, and the rows are an account of it.
RowsOfSession ==
    /\ budget = TierBudget(tiers[tier])
    /\ tries <= budget.limit
    /\ Cardinality(RowsOf(rows, tier)) = tries
    /\ \A i \in DOMAIN rows : rows[i] <= tier

CascadeInv ==
    /\ CascadeTypeOK
    /\ RowsOfSession
    /\ TierBudgetsHold
    /\ LastAnswerReturned

-----------------------------------------------------------------------------

\* A tier's configuration gives its session a budget.
LEMMA TierBudgetType ==
    ASSUME NEW ts \in Seq(TierConfig), NEW t \in 1..Len(ts)
    PROVE  /\ TierBudget(ts[t]) \in Budgets
           /\ TierBudget(ts[t]).limit = ts[t].max_reprompts
           /\ ts[t].max_reprompts \in Nat \ {0}
<1>1. ts[t] \in TierConfig
  OBVIOUS
<1>2. ts[t].max_reprompts \in Nat \ {0}
  BY <1>1, CascadeAssumption DEF TierConfig
<1>3. QED
  BY <1>2 DEF TierBudget, Budgets

\* A row more: it counts for its own tier and for no other.
LEMMA RowAppended ==
    ASSUME NEW rs \in Seq(Nat), NEW t \in Nat
    PROVE  /\ Cardinality(RowsOf(rs, t)) \in Nat
           /\ Cardinality(RowsOf(Append(rs, t), t)) = Cardinality(RowsOf(rs, t)) + 1
           /\ \A u \in Nat \ {t} : RowsOf(Append(rs, t), u) = RowsOf(rs, u)
<1>1. /\ DOMAIN rs = 1..Len(rs) /\ Len(rs) \in Nat
      /\ DOMAIN Append(rs, t) = 1..(Len(rs) + 1)
      /\ Append(rs, t)[Len(rs) + 1] = t
      /\ \A i \in 1..Len(rs) : Append(rs, t)[i] = rs[i]
  OBVIOUS
<1>2. IsFiniteSet(RowsOf(rs, t))
  <2>1. IsFiniteSet(1..Len(rs))
    BY <1>1, FS_Interval
  <2>2. RowsOf(rs, t) \in SUBSET (1..Len(rs))
    BY <1>1 DEF RowsOf
  <2>3. QED
    BY <2>1, <2>2, FS_Subset
<1>3. RowsOf(Append(rs, t), t) = RowsOf(rs, t) \cup {Len(rs) + 1}
  BY <1>1 DEF RowsOf
<1>4. Len(rs) + 1 \notin RowsOf(rs, t)
  BY <1>1 DEF RowsOf
<1>5. Cardinality(RowsOf(rs, t)) \in Nat
  BY <1>2, FS_CardinalityType
<1>6. \A u \in Nat \ {t} : RowsOf(Append(rs, t), u) = RowsOf(rs, u)
  BY <1>1 DEF RowsOf
<1>7. Cardinality(RowsOf(rs, t) \cup {Len(rs) + 1}) = Cardinality(RowsOf(rs, t)) + 1
  BY <1>2, <1>4, FS_AddElement
<1>8. QED
  BY <1>3, <1>5, <1>6, <1>7

\* No row names a tier beyond all of them.
LEMMA NoRowsBeyond ==
    ASSUME NEW rs \in Seq(Nat), NEW t \in Nat, \A i \in DOMAIN rs : rs[i] < t
    PROVE  Cardinality(RowsOf(rs, t)) = 0
<1>1. RowsOf(rs, t) = {}
  <2>1. SUFFICES ASSUME NEW i \in DOMAIN rs, rs[i] = t PROVE FALSE
    BY DEF RowsOf
  <2>2. QED
    BY <2>1
<1>2. QED
  BY <1>1, FS_EmptySet

LEMMA RowsAreNats == CascadeTypeOK => rows \in Seq(Nat)
<1> SUFFICES ASSUME CascadeTypeOK PROVE rows \in Seq(Nat)
  OBVIOUS
<1>1. rows \in Seq(1..MaxTiers)
  BY DEF CascadeTypeOK
<1>2. 1..MaxTiers \subseteq Nat
  BY CascadeAssumption
<1>3. QED
  BY <1>1, <1>2, SeqMonotonic

-----------------------------------------------------------------------------

LEMMA CascadeStarts == CascadeInit => CascadeInv
<1> SUFFICES ASSUME CascadeInit PROVE CascadeInv
  OBVIOUS
<1>1. PICK n \in 1..MaxTiers : tiers \in [1..n -> TierConfig]
  BY DEF CascadeInit
<1>2. /\ tiers \in Seq(TierConfig) /\ Len(tiers) = n /\ n \in Nat
  BY <1>1, CascadeAssumption
<1>3. 1 \in 1..Len(tiers) /\ Len(tiers) \in 1..MaxTiers
  BY <1>1, <1>2, CascadeAssumption
<1>4. /\ budget \in Budgets /\ budget.limit \in Nat
  BY <1>2, <1>3, TierBudgetType DEF CascadeInit
<1>5. CascadeTypeOK
  BY <1>2, <1>3, <1>4, CascadeAssumption DEF CascadeInit, CascadeTypeOK, Answers
<1>6. DOMAIN rows = {} /\ rows \in Seq(Nat)
  BY DEF CascadeInit
<1>7. \A t \in Nat : Cardinality(RowsOf(rows, t)) = 0
  BY <1>6, NoRowsBeyond
<1>8. RowsOfSession
  BY <1>3, <1>4, <1>6, <1>7 DEF CascadeInit, RowsOfSession
<1>9. TierBudgetsHold
  <2>1. \A t \in 1..Len(tiers) : Cardinality({i \in DOMAIN rows : rows[i] = t}) = 0
    BY <1>2, <1>7 DEF RowsOf
  <2>2. \A t \in 1..Len(tiers) : tiers[t].max_reprompts \in Nat
    BY <1>2, TierBudgetType
  <2>3. QED
    BY <1>6, <2>1, <2>2 DEF TierBudgetsHold
<1>11. LastAnswerReturned
  BY DEF CascadeInit, LastAnswerReturned
<1>12. QED
  BY <1>5, <1>8, <1>9, <1>11 DEF CascadeInv

\* What one attempt of a session changes.
LEMMA AttemptFacts ==
    ASSUME CascadeTypeOK, RowsOfSession, TierAttempt
    PROVE  /\ tries' = tries + 1 /\ tries < budget.limit
           /\ budget' = budget /\ answer = Unanswered /\ answer' \in Answers
           /\ rows' = Append(rows, tier)
           /\ UNCHANGED <<tiers, tier, result>>
<1>1. budget.limit \in Nat /\ tries \in Nat
  BY DEF CascadeTypeOK, Budgets
<1>2. CASE FailedTry
  BY <1>1, <1>2 DEF TierAttempt, FailedTry, Answers
<1>3. CASE \E verdict \in Answers : LastTry(verdict)
  BY <1>1, <1>3 DEF TierAttempt, LastTry
<1>4. QED
  BY <1>2, <1>3 DEF TierAttempt, SessionNext

LEMMA AttemptStep ==
    ASSUME CascadeInv, TierAttempt
    PROVE  CascadeInv'
<1> USE DEF CascadeInv
<1>1. /\ tries' = tries + 1 /\ tries < budget.limit
      /\ budget' = budget /\ answer = Unanswered /\ answer' \in Answers
      /\ rows' = Append(rows, tier)
      /\ UNCHANGED <<tiers, tier, result>>
  BY AttemptFacts
<1>2. /\ tier \in 1..Len(tiers) /\ Len(tiers) \in 1..MaxTiers /\ tries \in Nat
      /\ tier \in 1..MaxTiers /\ MaxTiers \in Nat /\ rows \in Seq(1..MaxTiers)
  BY CascadeAssumption DEF CascadeTypeOK
<1>3. CascadeTypeOK'
  <2>1. rows' \in Seq(1..MaxTiers)
    BY <1>1, <1>2
  <2>2. QED
    BY <1>1, <1>2, <2>1 DEF CascadeTypeOK
<1>4. rows \in Seq(Nat) /\ tier \in Nat
  BY <1>2, RowsAreNats
<1>5. /\ Cardinality(RowsOf(rows', tier)) = Cardinality(RowsOf(rows, tier)) + 1
      /\ \A u \in Nat \ {tier} : RowsOf(rows', u) = RowsOf(rows, u)
  BY <1>1, <1>4, RowAppended
<1>6. /\ DOMAIN rows = 1..Len(rows) /\ Len(rows) \in Nat
      /\ DOMAIN rows' = 1..(Len(rows) + 1) /\ rows'[Len(rows) + 1] = tier
      /\ \A i \in 1..Len(rows) : rows'[i] = rows[i]
  BY <1>1, <1>4
<1>7. budget.limit \in Nat /\ budget.limit = tiers[tier].max_reprompts
  BY <1>2, TierBudgetType DEF CascadeTypeOK, RowsOfSession
<1>8. \A i \in DOMAIN rows' : rows'[i] <= tier
  BY <1>2, <1>4, <1>6 DEF RowsOfSession
<1>9. RowsOfSession'
  <2>1. budget' = TierBudget(tiers'[tier']) /\ tries' <= budget'.limit
    BY <1>1, <1>2, <1>7 DEF RowsOfSession
  <2>2. Cardinality(RowsOf(rows', tier')) = tries'
    BY <1>1, <1>5 DEF RowsOfSession
  <2>3. QED
    BY <1>1, <1>8, <2>1, <2>2 DEF RowsOfSession
<1>10. TierBudgetsHold'
  <2>1. ASSUME NEW t \in 1..Len(tiers)
        PROVE  Cardinality(RowsOf(rows', t)) <= tiers[t].max_reprompts
    <3>1. CASE t = tier
      BY <1>1, <1>2, <1>5, <1>7, <3>1 DEF RowsOfSession
    <3>2. CASE t # tier
      BY <1>2, <1>5, <3>2 DEF TierBudgetsHold, RowsOf
    <3>3. QED
      BY <3>1, <3>2
  <2>2. ASSUME NEW i \in DOMAIN rows', NEW j \in DOMAIN rows', i < j
        PROVE  rows'[i] <= rows'[j]
    <3>1. CASE j = Len(rows) + 1
      BY <1>6, <1>8, <3>1
    <3>2. CASE j # Len(rows) + 1
      <4>1. i \in 1..Len(rows) /\ j \in 1..Len(rows)
        BY <1>6, <2>2, <3>2
      <4>2. QED
        BY <1>6, <2>2, <4>1 DEF TierBudgetsHold
    <3>3. QED
      BY <3>1, <3>2
  <2>3. QED
    BY <1>1, <2>1, <2>2 DEF TierBudgetsHold, RowsOf
<1>12. LastAnswerReturned'
  BY <1>1 DEF LastAnswerReturned
<1>13. QED
  BY <1>3, <1>9, <1>10, <1>12

\* An answer goes to the caller: nothing else moves.
LEMMA ReturnStep ==
    ASSUME CascadeInv, ReturnPatch \/ ReturnFailure
    PROVE  CascadeInv'
<1> USE DEF CascadeInv
<1>1. /\ UNCHANGED <<tiers, tier, rows, budget, tries, answer>>
      /\ result' = answer /\ answer \in Answers
  BY DEF ReturnPatch, ReturnFailure, sessionVars, CascadeTypeOK
<1>2. CascadeTypeOK' /\ RowsOfSession' /\ TierBudgetsHold'
  BY <1>1 DEF CascadeTypeOK, RowsOfSession, TierBudgetsHold
<1>3. answer.reason \in {"stuck_signature", "exhausted_attempts"} => tier = Len(tiers)
  <2>1. CASE ReturnPatch
    <3>1. answer \in {Solved, Deferred}
      BY <1>1, <2>1 DEF ReturnPatch, Answers, GaveUp
    <3>2. QED
      BY <3>1 DEF Solved, Deferred
  <2>2. CASE ReturnFailure
    BY <2>2 DEF ReturnFailure, EscalationReasons
  <2>3. QED
    BY <2>1, <2>2
<1>4. LastAnswerReturned'
  BY <1>1, <1>3 DEF LastAnswerReturned
<1>5. QED
  BY <1>2, <1>4

LEMMA EscalateStep ==
    ASSUME CascadeInv, Escalate
    PROVE  CascadeInv'
<1> USE DEF CascadeInv
<1>1. /\ answer # Unanswered /\ result = Unanswered /\ answer.patch = "none"
      /\ answer.reason \in EscalationReasons /\ tier < Len(tiers) /\ tier' = tier + 1
      /\ budget' = TierBudget(tiers[tier + 1]) /\ tries' = 0 /\ answer' = Unanswered
      /\ UNCHANGED <<tiers, rows, result>>
  BY DEF Escalate
<1>2. /\ tiers \in Seq(TierConfig) /\ tier \in 1..Len(tiers) /\ Len(tiers) \in Nat
      /\ tier + 1 \in 1..Len(tiers) /\ tier + 1 \in Nat /\ rows \in Seq(Nat)
  BY <1>1, RowsAreNats DEF CascadeTypeOK
<1>4. budget' \in Budgets /\ budget'.limit \in Nat
  BY <1>1, <1>2, TierBudgetType
<1>5. CascadeTypeOK'
  BY <1>1, <1>2, <1>4 DEF CascadeTypeOK, Answers
<1>6. \A i \in DOMAIN rows : rows[i] \in Nat /\ rows[i] < tier + 1
  BY <1>2 DEF RowsOfSession
<1>7. Cardinality(RowsOf(rows, tier + 1)) = 0
  BY <1>2, <1>6, NoRowsBeyond
<1>8. RowsOfSession'
  BY <1>1, <1>2, <1>4, <1>6, <1>7 DEF RowsOfSession
<1>9. TierBudgetsHold'
  BY <1>1 DEF TierBudgetsHold
<1>11. LastAnswerReturned'
  BY <1>1 DEF LastAnswerReturned
<1>12. QED
  BY <1>5, <1>8, <1>9, <1>11

\* The invariant behind the two theorems below.
THEOREM CascadeInvariant == CascadeSpec => []CascadeInv
<1>1. CascadeInit => CascadeInv
  BY CascadeStarts
<1>2. CascadeInv /\ [CascadeNext]_cascadeVars => CascadeInv'
  <2> SUFFICES ASSUME CascadeInv, [CascadeNext]_cascadeVars PROVE CascadeInv'
    OBVIOUS
  <2>1. CASE TierAttempt
    BY <2>1, AttemptStep
  <2>2. CASE ReturnPatch \/ ReturnFailure
    BY <2>2, ReturnStep
  <2>3. CASE Escalate
    BY <2>3, EscalateStep
  <2>4. CASE UNCHANGED cascadeVars
    BY <2>4 DEF cascadeVars, sessionVars, CascadeInv, CascadeTypeOK, RowsOfSession,
                TierBudgetsHold, LastAnswerReturned
  <2>5. QED
    BY <2>1, <2>2, <2>3, <2>4 DEF CascadeNext
<1>3. QED
  BY <1>1, <1>2, PTL DEF CascadeSpec

\* No tier of any cascade makes more attempts than it was given, and the tiers'
\* attempts do not mix (agent/cascade.py hands each tier a budget of its own).
THEOREM TierBudgets == CascadeSpec => []TierBudgetsHold
<1>1. CascadeInv => TierBudgetsHold
  BY DEF CascadeInv
<1>2. QED
  BY <1>1, CascadeInvariant, PTL

\* The caller gets the answer of the last tier asked, and from a tier that was
\* stuck or out of attempts only if it is the last of the list.
THEOREM LastAnswer == CascadeSpec => []LastAnswerReturned
<1>1. CascadeInv => LastAnswerReturned
  BY DEF CascadeInv
<1>2. QED
  BY <1>1, CascadeInvariant, PTL
=============================================================================
