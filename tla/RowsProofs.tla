------------------------------ MODULE RowsProofs ------------------------------
(***************************************************************************)
(* What becomes of rows, for however many there are.                       *)
(*                                                                         *)
(* Watermarks, with one sink below an incremental Channel: the watermark   *)
(* never covers a row the sink has not got, and a row is there twice only  *)
(* if something went wrong in between.                                     *)
(*                                                                         *)
(* RowRouting, with any rules, Channels and Junctions: a row gets through  *)
(* an Assert only past its rules, and is in exactly one sink but for the   *)
(* reasons that are named.                                                 *)
(***************************************************************************)
EXTENDS Watermarks, RowRouting, FiniteSetTheorems, SequenceTheorems, WellFoundedInduction, TLAPS

-----------------------------------------------------------------------------
(* Watermarks: the invariant.                                               *)

Frames == [from : 1..(LastRow + 1), to : 0..LastRow]

WmTypeOK ==
    /\ arrived \in 0..LastRow
    /\ copies \in [Range(Sinks) -> [Rows -> Nat]]
    /\ sidecar \in 0..LastRow /\ depot \in 0..LastRow /\ new \in 0..LastRow
    /\ at \in Places
    /\ batch \in Frames
    /\ todo \in {<<>>, Sinks}
    /\ at \in {"mark", "compute", "sidecar", "depot"} => todo = Sinks
    /\ owing \in SUBSET Range(Sinks)
    /\ saved \in [channel : BOOLEAN, frame : Frames, done : SUBSET Range(Sinks)]
    /\ runs \in Nat /\ incidents \in Nat

Sink == Head(Sinks)

\* The sink holds every row below this one.
Complete(below) == \A r \in Rows : r < below => copies[Sink][r] > 0

\* What a sink holds is a prefix of the rows, and every watermark and every frame
\* starts within it.
WrittenIsPrefix ==
    /\ \A r \in Written(Sink) : Complete(r)
    /\ Complete(sidecar + 1) /\ Complete(depot + 1)
    /\ at \in {"sidecar", "depot"} => Complete(new + 1)
    /\ (at = "write" /\ todo = Sinks) => Complete(batch.from)
    /\ saved.channel => Complete(saved.frame.from)

\* The duplicates of a row above (or not above) the watermark that the incidents
\* so far pay for, at each place of a run.
Paid(r) ==
    LET above == r > Watermark
        n == copies[Sink][r]
        fresh == Sink \in owing
    IN  /\ n <= 1 + incidents
        /\ at \in {"idle", "read"} => (above => n <= incidents)
        /\ at = "write" => (above => n <= incidents)
        /\ (at = "write" /\ todo = Sinks /\ ~fresh) =>
               n <= incidents /\ (above => n + 1 <= incidents)
        /\ at = "mark" /\ ~fresh => (above => n <= incidents)
        /\ at \in {"sidecar", "depot"} => (r > new => n = 0)

Accounts ==
    /\ \A r \in Rows : Paid(r)
    /\ at \in {"sidecar", "depot"} => new # 0
    /\ at = "depot" => sidecar = new
    /\ (at = "write" /\ todo = Sinks /\ Sink \in owing) => batch.from = Watermark + 1

WmInv == WmTypeOK /\ WrittenIsPrefix /\ Accounts

-----------------------------------------------------------------------------

LEMMA OneSink ==
    ASSUME Len(Sinks) = 1
    PROVE  Range(Sinks) = {Sink} /\ Tail(Sinks) = <<>> /\ Sinks # <<>>
<1>1. Sinks \in Seq(Range(Sinks))
  BY WatermarkAssumption
<1>2. Sinks # <<>>
  BY EmptySeq
<1>3. /\ Tail(Sinks) \in Seq(Range(Sinks)) /\ Len(Tail(Sinks)) = 0
      /\ Sink = Sinks[1] /\ DOMAIN Sinks = 1..1
  BY <1>1, <1>2 DEF Sink
<1>4. Tail(Sinks) = <<>>
  BY <1>3, EmptySeq
<1>5. QED
  BY <1>2, <1>3, <1>4 DEF Range

\* MAX of the column is a row the sink holds, and no row it holds is above it.
LEMMA ComputedIsLargest ==
    ASSUME NEW s, Written(s) # {}
    PROVE  Computed(s) \in Written(s) /\ \A q \in Written(s) : q <= Computed(s)
<1> DEFINE missing == {LastRow - r : r \in Written(s)}
<1>1. LastRow \in Nat /\ Written(s) \subseteq 1..LastRow
  BY WatermarkAssumption DEF Written, Rows
<1>2. missing \subseteq Nat /\ missing # {}
  BY <1>1
<1>3. PICK m \in missing : \A k \in missing : ~(<<k, m>> \in OpToRel(<, Nat))
  <2> HIDE DEF missing
  <2>1. QED
    BY <1>2, NatLessThanWellFounded, WFMin
<1>4. \A k \in missing : ~(k < m)
  BY <1>2, <1>3 DEF OpToRel
<1>5. PICK r \in Written(s) : m = LastRow - r
  OBVIOUS
<1>6. \A q \in Written(s) : q <= r
  BY <1>1, <1>4, <1>5
<1>7. QED
  BY <1>5, <1>6 DEF Computed

\* The constants of one sink, as the steps below use them.
LEMMA SinkFacts ==
    ASSUME Len(Sinks) = 1
    PROVE  /\ Range(Sinks) = {Sink} /\ Head(Sinks) = Sink
           /\ Tail(Sinks) = <<>> /\ Sinks # <<>>
           /\ LastRow \in Nat /\ Rows = 1..LastRow
  BY OneSink, WatermarkAssumption DEF Sink, Rows

\* However a run ends, nothing of it stays in memory.
LEMMA RunEndsType ==
    ASSUME Len(Sinks) = 1, WmTypeOK, RunEnds, incidents' \in Nat,
           UNCHANGED <<arrived, copies, sidecar, depot, saved, runs>>
    PROVE  WmTypeOK'
<1>1. NoFrame \in Frames /\ 0 \in 0..LastRow
  BY SinkFacts DEF NoFrame, Frames
<1>2. at' = "idle" /\ todo' = <<>> /\ owing' = {} /\ batch' = NoFrame /\ new' = 0
  BY DEF RunEnds
<1>3. QED
  BY <1>1, <1>2, SinkFacts DEF WmTypeOK, Places

-----------------------------------------------------------------------------

LEMMA WmStarts == Len(Sinks) = 1 /\ WmInit => WmInv
<1> SUFFICES ASSUME Len(Sinks) = 1, WmInit PROVE WmInv
  OBVIOUS
<1>1. WmTypeOK
  BY SinkFacts DEF WmInit, WmTypeOK, Frames, Places, NoFrame, NothingSaved
<1>2. WrittenIsPrefix
  BY SinkFacts DEF WmInit, WrittenIsPrefix, Complete, Written, NothingSaved
<1>3. Accounts
  BY SinkFacts DEF WmInit, Accounts, Paid, Watermark
<1>4. QED
  BY <1>1, <1>2, <1>3 DEF WmInv

\* Reading starts above the watermark, and so does the frame that is kept.
LEMMA ReadChannelStep ==
    ASSUME Len(Sinks) = 1, WmInv, ReadChannel
    PROVE  WmInv'
<1>1. /\ at = "read" /\ at' = "write" /\ todo' = Sinks /\ owing' = {Sink}
      /\ batch' = [from |-> Watermark + 1, to |-> arrived]
      /\ saved' = [channel |-> TRUE, frame |-> batch', done |-> {}]
      /\ UNCHANGED <<arrived, copies, sidecar, depot, new, runs, incidents>>
  BY SinkFacts DEF ReadChannel
<1>2. Watermark \in 0..LastRow /\ Watermark' = Watermark
  BY <1>1 DEF Watermark, WmInv, WmTypeOK
<1>3. batch' \in Frames
  BY <1>1, <1>2, SinkFacts DEF WmInv, WmTypeOK, Frames
<1>4. WmTypeOK'
  BY <1>1, <1>3, SinkFacts DEF WmInv, WmTypeOK, Places
<1>5. WrittenIsPrefix'
  <2>1. Complete(Watermark + 1)
    BY DEF WmInv, WrittenIsPrefix, Watermark
  <2>2. batch'.from = Watermark + 1 /\ saved'.frame.from = Watermark + 1
    BY <1>1
  <2>3. QED
    BY <1>1, <2>1, <2>2 DEF WmInv, WrittenIsPrefix, Written, Complete
<1>6. Accounts'
  BY <1>1, <1>2, SinkFacts DEF WmInv, Accounts, Paid
<1>7. QED
  BY <1>4, <1>5, <1>6 DEF WmInv

\* A resume is an incident, and it will not move the watermark: it has to pay for
\* the rows above the watermark as well.
LEMMA ResumeStep ==
    ASSUME Len(Sinks) = 1, WmInv, Resume
    PROVE  WmInv'
<1>1. /\ at = "idle" /\ incidents' = incidents + 1 /\ runs' = runs + 1
      /\ UNCHANGED <<arrived, copies, sidecar, depot, new, saved>>
      /\ \/ /\ saved.channel /\ at' = "write" /\ batch' = saved.frame
            /\ owing' = {} /\ todo' = Sinks
         \/ at' = "read" /\ UNCHANGED <<batch, owing, todo>>
  BY DEF Resume, Incident
<1>2. WmTypeOK'
  BY <1>1, SinkFacts DEF WmInv, WmTypeOK, Frames, Places
<1>3. WrittenIsPrefix'
  BY <1>1, SinkFacts DEF WmInv, WmTypeOK, WrittenIsPrefix, Written, Complete
<1>4. Accounts'
  <2>1. Watermark' = Watermark /\ copies' = copies /\ incidents \in Nat
    BY <1>1 DEF Watermark, WmInv, WmTypeOK
  <2>2. ASSUME NEW r \in Rows PROVE Paid(r)'
    <3>1. copies[Sink][r] \in Nat
      BY SinkFacts DEF WmInv, WmTypeOK
    <3>2. copies[Sink][r] <= 1 + incidents /\ (r > Watermark => copies[Sink][r] <= incidents)
      BY <1>1 DEF WmInv, Accounts, Paid
    <3>3. QED
      BY <1>1, <2>1, <3>1, <3>2 DEF Paid
  <2>3. QED
    BY <1>1, <2>2 DEF Accounts
<1>5. QED
  BY <1>2, <1>3, <1>4 DEF WmInv

\* The frame starts within the prefix the sink holds and has no gaps: what the
\* sink holds stays a prefix.  A fresh run's frame lies above the watermark.
LEMMA WriteEgressStep ==
    ASSUME Len(Sinks) = 1, WmInv, WriteEgress
    PROVE  WmInv'
<1>1. /\ at = "write" /\ at' = "mark" /\ todo = Sinks /\ Head(todo) = Sink
      /\ UNCHANGED <<arrived, sidecar, depot, batch, todo, owing, new, saved, runs, incidents>>
  BY SinkFacts DEF WriteEgress, AtSink, WmInv, WmTypeOK
<1>2. /\ copies \in [{Sink} -> [Rows -> Nat]] /\ batch \in Frames
      /\ incidents \in Nat /\ Rows = 1..LastRow /\ LastRow \in Nat
  BY SinkFacts DEF WmInv, WmTypeOK
<1> DEFINE more(r) == IF r \in batch.from..batch.to THEN copies[Sink][r] + 1 ELSE copies[Sink][r]
<1>3. copies' = [copies EXCEPT ![Sink] = [r \in Rows |-> more(r)]]
  BY <1>1 DEF WriteEgress
<1>4. /\ copies' \in [{Sink} -> [Rows -> Nat]]
      /\ \A r \in Rows : copies[Sink][r] \in Nat /\ copies'[Sink][r] = more(r)
  <2>1. \A r \in Rows : copies[Sink][r] \in Nat
    BY <1>2
  <2>2. [r \in Rows |-> more(r)] \in [Rows -> Nat]
    BY <2>1
  <2> HIDE DEF more
  <2>3. QED
    BY <1>2, <1>3, <2>1, <2>2
<1>5. WmTypeOK'
  BY <1>1, <1>4, SinkFacts DEF WmInv, WmTypeOK, Places
<1>6. WrittenIsPrefix'
  <2>1. \A r \in Rows : copies[Sink][r] > 0 => copies'[Sink][r] > 0
    BY <1>4
  <2>2. \A n : Complete(n) => Complete(n)'
    BY <2>1 DEF Complete
  <2>3. ASSUME NEW r \in Written(Sink)' PROVE Complete(r)'
    <3>1. CASE r \in Written(Sink)
      BY <2>2, <3>1 DEF WmInv, WrittenIsPrefix
    <3>2. CASE r \notin Written(Sink)
      <4>1. r \in Rows /\ r \in batch.from..batch.to
        BY <1>4, <2>3, <3>2 DEF Written
      <4>2. Complete(batch.from)
        BY <1>1 DEF WmInv, WrittenIsPrefix
      <4>3. ASSUME NEW q \in Rows, q < r PROVE copies'[Sink][q] > 0
        <5>1. CASE q < batch.from
          BY <2>1, <4>2, <4>3, <5>1 DEF Complete
        <5>2. CASE ~(q < batch.from)
          <6>1. q \in batch.from..batch.to
            BY <1>2, <4>1, <4>3, <5>2 DEF Frames
          <6>2. QED
            BY <1>4, <6>1
        <5>3. QED
          BY <5>1, <5>2
      <4>4. QED
        BY <4>3 DEF Complete
    <3>3. QED
      BY <3>1, <3>2
  <2>4. QED
    BY <1>1, <2>2, <2>3 DEF WmInv, WrittenIsPrefix
<1>7. Accounts'
  <2>1. Watermark' = Watermark /\ Watermark \in Nat
    BY <1>1, <1>2 DEF Watermark, WmInv, WmTypeOK
  <2>2. ASSUME NEW r \in Rows PROVE Paid(r)'
    <3>1. Paid(r) /\ (Sink \in owing => batch.from = Watermark + 1)
      BY <1>1 DEF WmInv, Accounts
    <3>2. /\ copies[Sink][r] \in Nat /\ copies'[Sink][r] = more(r)
          /\ r \in Nat /\ incidents \in Nat /\ batch.from \in Nat /\ batch.to \in Nat
      BY <1>2, <1>4 DEF Frames
    <3>3. /\ copies'[Sink][r] \in Nat /\ copies'[Sink][r] <= copies[Sink][r] + 1
          /\ copies'[Sink][r] # copies[Sink][r] => r >= batch.from
      BY <3>2
    <3>4. copies'[Sink][r] <= 1 + incidents
      BY <1>1, <2>1, <3>1, <3>2, <3>3 DEF Paid
    <3>5. (Sink \notin owing /\ r > Watermark) => copies'[Sink][r] <= incidents
      BY <1>1, <2>1, <3>1, <3>2, <3>3 DEF Paid
    <3>6. QED
      BY <1>1, <2>1, <3>4, <3>5 DEF Paid
  <2>3. QED
    BY <1>1, <2>2 DEF Accounts
<1>8. QED
  BY <1>5, <1>6, <1>7 DEF WmInv

LEMMA WriteFailsStep ==
    ASSUME Len(Sinks) = 1, WmInv, WriteFails
    PROVE  WmInv'
<1>1. /\ at = "write" /\ todo = Sinks /\ todo' = <<>>
      /\ UNCHANGED <<arrived, copies, sidecar, depot, saved, runs, incidents>>
      /\ \/ at' = "idle" /\ owing' = {} /\ batch' = NoFrame /\ new' = 0
         \/ UNCHANGED <<at, batch, owing, new>>
  BY SinkFacts DEF WriteFails, AtSink, RunEnds, WmInv, WmTypeOK
<1>2. WmTypeOK'
  <2>1. CASE at' = "idle" /\ owing' = {} /\ batch' = NoFrame /\ new' = 0
    BY <1>1, <2>1, RunEndsType DEF WmInv, WmTypeOK, RunEnds
  <2>2. CASE UNCHANGED <<at, batch, owing, new>>
    BY <1>1, <2>2, SinkFacts DEF WmInv, WmTypeOK, Places
  <2>3. QED
    BY <1>1, <2>1, <2>2
<1>3. WrittenIsPrefix'
  BY <1>1, SinkFacts DEF WmInv, WrittenIsPrefix, Written, Complete
<1>4. Accounts'
  BY <1>1, SinkFacts DEF WmInv, Accounts, Paid, Watermark
<1>5. QED
  BY <1>2, <1>3, <1>4 DEF WmInv

\* MAX is a row the sink holds, so everything below it is there; above it there is
\* nothing.  If it cannot be computed, that is an incident.
LEMMA ComputeWatermarkStep ==
    ASSUME Len(Sinks) = 1, WmInv, ComputeWatermark
    PROVE  WmInv'
<1>1. /\ at = "compute" /\ todo = Sinks /\ Head(todo) = Sink /\ owing' = owing \ {Sink}
      /\ UNCHANGED <<arrived, copies, sidecar, depot, batch, saved, runs>>
  BY SinkFacts DEF ComputeWatermark, WmInv, WmTypeOK
<1>2. /\ \A r \in Rows : copies[Sink][r] \in Nat /\ copies[Sink][r] <= 1 + incidents
      /\ incidents \in Nat /\ Rows = 1..LastRow /\ LastRow \in Nat
  BY SinkFacts DEF WmInv, WmTypeOK, Accounts, Paid
<1>3. CASE /\ Written(Sink) # {} /\ new' = Computed(Sink) /\ at' = "sidecar"
           /\ UNCHANGED <<todo, incidents>>
  <2>1. new' \in Written(Sink) /\ \A q \in Written(Sink) : q <= new'
    BY <1>3, ComputedIsLargest
  <2>2. new' \in 1..LastRow /\ copies[Sink][new'] > 0
    BY <1>2, <2>1 DEF Written
  <2>3. WmTypeOK'
    BY <1>1, <1>2, <1>3, <2>2, SinkFacts DEF WmInv, WmTypeOK, Places
  <2>4. Complete(new' + 1)
    <3>1. Complete(new')
      BY <2>1 DEF WmInv, WrittenIsPrefix
    <3>2. \A r \in Rows : r < new' + 1 => r < new' \/ r = new'
      BY <1>2, <2>2
    <3>3. QED
      BY <2>2, <3>1, <3>2 DEF Complete
  <2>5. WrittenIsPrefix'
    BY <1>1, <1>3, <2>4 DEF WmInv, WrittenIsPrefix, Written, Complete
  <2>6. \A r \in Rows : r > new' => copies[Sink][r] = 0
    BY <1>2, <2>1, <2>2 DEF Written
  <2>7. Accounts'
    BY <1>1, <1>2, <1>3, <2>2, <2>6 DEF Accounts, Paid
  <2>8. QED
    BY <2>3, <2>5, <2>7 DEF WmInv
<1>4. CASE /\ todo' = <<>> /\ at' = "write" /\ UNCHANGED new
           /\ \/ Written(Sink) = {} /\ UNCHANGED incidents
              \/ incidents' = incidents + 1
  <2>1. WmTypeOK'
    BY <1>1, <1>2, <1>4, SinkFacts DEF WmInv, WmTypeOK, Places
  <2>2. WrittenIsPrefix'
    BY <1>1, <1>4, SinkFacts DEF WmInv, WrittenIsPrefix, Written, Complete
  <2>3. \A r \in Rows : copies[Sink][r] <= incidents'
    BY <1>2, <1>4 DEF Written
  <2>4. incidents' \in Nat
    BY <1>2, <1>4
  <2>5. Accounts'
    BY <1>1, <1>2, <1>4, <2>3, <2>4, SinkFacts DEF Accounts, Paid
  <2>6. QED
    BY <2>1, <2>2, <2>5 DEF WmInv
<1>5. QED
  BY <1>1, <1>3, <1>4, SinkFacts DEF ComputeWatermark, NextSink, Incident

\* Dying is an incident, wherever it happens.
LEMMA KilledStep ==
    ASSUME Len(Sinks) = 1, WmInv, Killed
    PROVE  WmInv'
<1>1. /\ at' = "idle" /\ todo' = <<>> /\ owing' = {} /\ batch' = NoFrame /\ new' = 0
      /\ incidents' = incidents + 1
      /\ UNCHANGED <<arrived, copies, sidecar, depot, saved, runs>>
  BY DEF Killed, RunEnds, Incident
<1>2. WmTypeOK'
  BY <1>1, RunEndsType DEF WmInv, WmTypeOK, RunEnds
<1>3. WrittenIsPrefix'
  BY <1>1, SinkFacts DEF WmInv, WrittenIsPrefix, Written, Complete
<1>4. Accounts'
  <2>1. \A r \in Rows : copies[Sink][r] \in Nat /\ copies[Sink][r] <= 1 + incidents
    BY SinkFacts DEF WmInv, WmTypeOK, Accounts, Paid
  <2>2. incidents \in Nat
    BY DEF WmInv, WmTypeOK
  <2>3. QED
    BY <1>1, <2>1, <2>2 DEF Accounts, Paid
<1>5. QED
  BY <1>2, <1>3, <1>4 DEF WmInv

-----------------------------------------------------------------------------

\* The invariant behind the two theorems below.
THEOREM WatermarkInvariant ==
    ASSUME Len(Sinks) = 1
    PROVE  WmSpec => []WmInv
<1>1. WmInit => WmInv
  BY WmStarts
<1>2. WmInv /\ [WmNext]_wmVars => WmInv'
  <2> SUFFICES ASSUME WmInv, [WmNext]_wmVars PROVE WmInv'
    OBVIOUS
  <2>1. CASE RowArrives
    <3>1. WmTypeOK'
      BY <2>1, SinkFacts DEF WmInv, WmTypeOK, Frames, Places, RowArrives
    <3>2. WrittenIsPrefix'
      BY <2>1, SinkFacts DEF WmInv, WmTypeOK, WrittenIsPrefix, Written, Complete, RowArrives
    <3>3. Accounts'
      BY <2>1, SinkFacts DEF WmInv, WmTypeOK, Accounts, Paid, Watermark, RowArrives
    <3>4. QED
      BY <3>1, <3>2, <3>3 DEF WmInv
  <2>2. CASE StartRun
    <3>1. WmTypeOK'
      <4>1. NoFrame \in Frames
        BY SinkFacts DEF NoFrame, Frames
      <4>2. NothingSaved \in [channel : BOOLEAN, frame : Frames, done : SUBSET Range(Sinks)]
        BY <4>1 DEF NothingSaved
      <4>3. QED
        BY <2>2, <4>2, SinkFacts DEF WmInv, WmTypeOK, Places, StartRun
    <3>2. WrittenIsPrefix'
      BY <2>2, SinkFacts DEF WmInv, WmTypeOK, WrittenIsPrefix, Written, Complete, StartRun, NothingSaved
    <3>3. Accounts'
      BY <2>2, SinkFacts DEF WmInv, WmTypeOK, Accounts, Paid, Watermark, StartRun, NothingSaved
    <3>4. QED
      BY <3>1, <3>2, <3>3 DEF WmInv
  <2>3. CASE ChannelFails
    <3>1. WmTypeOK'
      <4>1. RunEnds /\ UNCHANGED <<arrived, copies, sidecar, depot, saved, runs>> /\ incidents' = incidents
        BY <2>3 DEF ChannelFails
      <4>2. WmTypeOK /\ incidents' \in Nat
        BY <4>1 DEF WmInv, WmTypeOK
      <4>3. QED
        BY <4>1, <4>2, RunEndsType
    <3>2. WrittenIsPrefix'
      BY <2>3, SinkFacts DEF WmInv, WmTypeOK, WrittenIsPrefix, Written, Complete, ChannelFails, RunEnds, NoFrame
    <3>3. Accounts'
      BY <2>3, SinkFacts DEF WmInv, WmTypeOK, Accounts, Paid, Watermark, ChannelFails, RunEnds, NoFrame
    <3>4. QED
      BY <3>1, <3>2, <3>3 DEF WmInv
  <2>4. CASE SkipMarked
    <3>1. WmTypeOK'
      BY <2>4, SinkFacts DEF WmInv, WmTypeOK, Frames, Places, SkipMarked, AtSink, NextSink
    <3>2. WrittenIsPrefix'
      BY <2>4, SinkFacts DEF WmInv, WmTypeOK, WrittenIsPrefix, Written, Complete, SkipMarked, AtSink, NextSink
    <3>3. Accounts'
      BY <2>4, SinkFacts DEF WmInv, WmTypeOK, Accounts, Paid, Watermark, SkipMarked, AtSink, NextSink
    <3>4. QED
      BY <3>1, <3>2, <3>3 DEF WmInv
  <2>5. CASE MarkDone
    <3>1. WmTypeOK'
      BY <2>5, SinkFacts DEF WmInv, WmTypeOK, Frames, Places, MarkDone, NextSink
    <3>2. WrittenIsPrefix'
      BY <2>5, SinkFacts DEF WmInv, WmTypeOK, WrittenIsPrefix, Written, Complete, MarkDone, NextSink
    <3>3. Accounts'
      BY <2>5, SinkFacts DEF WmInv, WmTypeOK, Accounts, Paid, Watermark, MarkDone, NextSink
    <3>4. QED
      BY <3>1, <3>2, <3>3 DEF WmInv
  <2>6. CASE WriteSidecar
    <3>1. WmTypeOK'
      BY <2>6, SinkFacts DEF WmInv, WmTypeOK, Frames, Places, WriteSidecar
    <3>2. WrittenIsPrefix'
      BY <2>6, SinkFacts DEF WmInv, WmTypeOK, WrittenIsPrefix, Written, Complete, WriteSidecar
    <3>3. Accounts'
      BY <2>6, SinkFacts DEF WmInv, WmTypeOK, Accounts, Paid, Watermark, WriteSidecar
    <3>4. QED
      BY <3>1, <3>2, <3>3 DEF WmInv
  <2>7. CASE PutDepot
    <3>1. WmTypeOK'
      BY <2>7, SinkFacts DEF WmInv, WmTypeOK, Frames, Places, PutDepot, NextSink
    <3>2. WrittenIsPrefix'
      BY <2>7, SinkFacts DEF WmInv, WmTypeOK, WrittenIsPrefix, Written, Complete, PutDepot, NextSink
    <3>3. Accounts'
      <4>1. /\ at = "depot" /\ at' = "write" /\ todo' = <<>> /\ depot' = new
            /\ UNCHANGED <<copies, sidecar, owing, batch, new, incidents>>
        BY <2>7, SinkFacts DEF PutDepot, NextSink, WmInv, WmTypeOK
      <4>2. sidecar = new /\ new # 0 /\ Watermark' = new
        BY <4>1 DEF WmInv, Accounts, Watermark
      <4>3. incidents \in Nat /\ \A r \in Rows : Paid(r)
        BY DEF WmInv, WmTypeOK, Accounts
      <4>4. ASSUME NEW r \in Rows PROVE Paid(r)'
        <5>1. copies[Sink][r] <= 1 + incidents /\ (r > new => copies[Sink][r] = 0)
          BY <4>1, <4>3 DEF Paid
        <5>2. r > Watermark' => copies'[Sink][r] <= incidents'
          BY <4>1, <4>2, <4>3, <5>1
        <5>3. todo' # Sinks /\ copies'[Sink][r] <= 1 + incidents'
          BY <4>1, <5>1, SinkFacts
        <5>4. QED
          BY <4>1, <5>2, <5>3 DEF Paid
      <4>5. QED
        BY <4>1, <4>4, SinkFacts DEF Accounts
    <3>4. QED
      BY <3>1, <3>2, <3>3 DEF WmInv
  <2>8. CASE Finish
    <3>1. WmTypeOK'
      <4>1. RunEnds /\ UNCHANGED <<arrived, copies, sidecar, depot, saved, runs>> /\ incidents' = incidents
        BY <2>8 DEF Finish
      <4>2. WmTypeOK /\ incidents' \in Nat
        BY <4>1 DEF WmInv, WmTypeOK
      <4>3. QED
        BY <4>1, <4>2, RunEndsType
    <3>2. WrittenIsPrefix'
      BY <2>8, SinkFacts DEF WmInv, WmTypeOK, WrittenIsPrefix, Written, Complete, Finish, RunEnds, NoFrame
    <3>3. Accounts'
      BY <2>8, SinkFacts DEF WmInv, WmTypeOK, Accounts, Paid, Watermark, Finish, RunEnds, NoFrame
    <3>4. QED
      BY <3>1, <3>2, <3>3 DEF WmInv
  <2>9. CASE SidecarLost
    <3>1. WmTypeOK'
      BY <2>9, SinkFacts DEF WmInv, WmTypeOK, Frames, Places, SidecarLost, Incident
    <3>2. WrittenIsPrefix'
      BY <2>9, SinkFacts DEF WmInv, WmTypeOK, WrittenIsPrefix, Written, Complete, SidecarLost, Incident
    <3>3. Accounts'
      BY <2>9, SinkFacts DEF WmInv, WmTypeOK, Accounts, Paid, Watermark, SidecarLost, Incident
    <3>4. QED
      BY <3>1, <3>2, <3>3 DEF WmInv
  <2>10. CASE UNCHANGED wmVars
    <3>1. WmTypeOK'
      BY <2>10, SinkFacts DEF WmInv, WmTypeOK, Frames, Places, wmVars
    <3>2. WrittenIsPrefix'
      BY <2>10, SinkFacts DEF WmInv, WmTypeOK, WrittenIsPrefix, Written, Complete, wmVars
    <3>3. Accounts'
      BY <2>10, SinkFacts DEF WmInv, WmTypeOK, Accounts, Paid, Watermark, wmVars
    <3>4. QED
      BY <3>1, <3>2, <3>3 DEF WmInv
  <2>11. CASE ReadChannel
    BY <2>11, ReadChannelStep
  <2>12. CASE Resume
    BY <2>12, ResumeStep
  <2>13. CASE WriteEgress
    BY <2>13, WriteEgressStep
  <2>14. CASE WriteFails
    BY <2>14, WriteFailsStep
  <2>15. CASE ComputeWatermark
    BY <2>15, ComputeWatermarkStep
  <2>16. CASE Killed
    BY <2>16, KilledStep
  <2>17. QED
    BY <2>1, <2>2, <2>3, <2>4, <2>5, <2>6, <2>7, <2>8, <2>9, <2>10, <2>11, <2>12, <2>13, <2>14, <2>15, <2>16 DEF WmNext
<1>3. QED
  BY <1>1, <1>2, PTL DEF WmSpec

\* With one sink the watermark covers only rows the sink has, and every second copy
\* of a row has an incident of its own behind it, whatever number of rows, runs,
\* kills, resumes and lost sidecars (executor.py:1369-1407).
THEOREM OneSinkInStep ==
    ASSUME Len(Sinks) = 1
    PROVE  WmSpec => []WatermarkInStep
<1>1. WmInv => NothingSkipped
  <2> SUFFICES ASSUME WmInv, at = "idle", NEW r \in Rows, r <= Watermark
               PROVE  copies[Sink][r] > 0
    BY SinkFacts DEF NothingSkipped
  <2>1. Complete(Watermark + 1) /\ Watermark \in Nat
    BY SinkFacts DEF WmInv, WmTypeOK, WrittenIsPrefix, Watermark
  <2>2. QED
    BY <2>1, SinkFacts DEF Complete
<1>2. WmInv => DuplicatesPaidFor
  BY SinkFacts DEF WmInv, Accounts, Paid, DuplicatesPaidFor
<1>3. WmInv => WatermarkInStep
  BY <1>1, <1>2 DEF WatermarkInStep
<1>4. QED
  BY <1>3, WatermarkInvariant, PTL

-----------------------------------------------------------------------------
(* RowRouting: the invariant.  It speaks of rules where the model has       *)
(* frames: which rows a rule lets pass, and which it takes out.             *)

Conditions == {"true", "false", "null"}
Filter == [cond : router.conditions \cup {Fresh}, value : Conditions]

RoutingTypeOK ==
    /\ router \in Routers /\ Compiles(router)
    /\ input \in SUBSET Tuples
    /\ truth \in [router.conditions \ {Fresh} -> [Tuples -> Conditions]]
    /\ freshUntil \in [Tuples -> Nat]
    /\ now \in Nat
    /\ phase \in {"schema", "batch", "sample", "rows", "rate", "split", "ports", "failed"}
    /\ router.type = "Assert" => phase # "split" /\ ruleAt \in 1..(Len(router.rules) + 1)
    /\ router.type # "Assert" => phase \in {"split", "ports", "failed"}
    /\ passing \in SUBSET Filter /\ parts \in Seq(SUBSET Filter)

\* A row and a frame, when the row is fresh and when it is not.
Met(f, r, fresh) ==
    (IF f.cond = Fresh THEN IF fresh THEN "true" ELSE "false" ELSE truth[f.cond][r]) = f.value
Keeps(frame, r, fresh) == \A f \in frame : Met(f, r, fresh)
CopiesAt(union, r, fresh) ==
    Cardinality({i \in DOMAIN union : r \in input /\ Keeps(union[i], r, fresh)})

FreshBy(r, t) == freshUntil[r] >= t

\* A freshness rule that filters rows.
Ageing(i) == Rule(i).type = "freshness" /\ Action(Rule(i)) = "quarantine"
AgeMatters == \E i \in RulesOf({"freshness"}) : Action(Rule(i)) = "quarantine"

\* A rule that always takes out the rows which fail it.
Parting(i) == Ageing(i) \/ (Rule(i).type = "sql_row" /\ PlainQuarantine(Rule(i)))

Passed(i, r, fresh) ==
    /\ Rule(i).type = "sql_row" => truth[Rule(i).cond][r] = "true"
    /\ Ageing(i) => fresh

\* The row comes to rule k, and fails rule i when it comes to it.
Passes(k, r, fresh) == \A i \in 1..(k - 1) : Passed(i, r, fresh)
Fails(i, r, fresh) ==
    /\ Passes(i, r, fresh)
    /\ IF Ageing(i) THEN ~fresh ELSE truth[Rule(i).cond][r] = "false"

\* Why a row that came to rule i went no further.
Dropped(i, r, fresh) ==
    \/ Rule(i).type = "sql_row" /\ truth[Rule(i).cond][r] = "null"
    \/ /\ Rule(i).type = "sql_row" /\ truth[Rule(i).cond][r] = "false"
       /\ ~PlainQuarantine(Rule(i)) /\ i \in fired
    \/ Parting(i) /\ Fails(i, r, fresh)

Named(r) == \E i \in RulesOf({"custom"}) : truth[Rule(i).cond][r] = "false"

\* Every row has passed all rules so far or has been dropped by one of them; a
\* row that is not fresh counts as it would have if it had never been.
Covered(t) ==
    \A r \in input, fresh \in BOOLEAN : (fresh => FreshBy(r, t)) =>
        Passes(ruleAt, r, fresh) \/ \E i \in 1..(ruleAt - 1) : Dropped(i, r, fresh)

\* No row came to a rule that aborts and failed it.
AbortsHeld(t) ==
    \A i \in 1..(ruleAt - 1) : (Rule(i).type = "sql_row" /\ Raises(i)) =>
        \A r \in input : truth[Rule(i).cond][r] = "false" =>
            \E j \in 1..(i - 1) :
                \/ Rule(j).type = "sql_row" /\ truth[Rule(j).cond][r] # "true"
                \/ Ageing(j) /\ ~FreshBy(r, t)

PassingTells ==
    \A r \in input, fresh \in BOOLEAN : Keeps(passing, r, fresh) <=> Passes(ruleAt, r, fresh)

\* A row is in one part at most, and then not among those that pass, unless a custom
\* rule named it.
PartsApart ==
    \A j \in DOMAIN parts, r \in input, fresh \in BOOLEAN : Keeps(parts[j], r, fresh) =>
        \/ Named(r)
        \/ /\ ~Passes(ruleAt, r, fresh)
           /\ \A l \in DOMAIN parts : Keeps(parts[l], r, fresh) => l = j

PartsComplete ==
    \A i \in 1..(ruleAt - 1) : Parting(i) =>
        \E j \in DOMAIN parts : \A r \in input, fresh \in BOOLEAN :
            Keeps(parts[j], r, fresh) <=> Fails(i, r, fresh)

PartsAgeless ==
    ~AgeMatters => \A j \in DOMAIN parts, r \in input :
                       Keeps(parts[j], r, TRUE) <=> Keeps(parts[j], r, FALSE)

RulesTell ==
    PassingTells /\ PartsApart /\ PartsComplete /\ PartsAgeless

\* The walk over the rules came to its end.
Through == phase = "ports" \/ DOMAIN sinks # {}

WalkedRules ==
    (router.type = "Assert" /\ (phase # "failed" \/ Through)) =>
        RulesTell /\ Covered(now) /\ AbortsHeld(now)

RowsEnough ==
    (router.type = "Assert" /\ (phase \notin {"schema", "batch", "failed"} \/ Through)) =>
        \A i \in RulesOf({"min_rows"}) : Raises(i) => Cardinality(input) >= Rule(i).limit

RateHeld ==
    (router.type = "Assert" /\ Through /\ ~AgeMatters) =>
        \A i \in RulesOf({"spillway_rate"}) :
            Raises(i) => ~Exceeds(Quarantined, Cardinality(input), Rule(i).limit)

\* What the ports hold once there is something in them.
ChannelFrames ==
    LET bad(value) == {Is(c, value) : c \in router.conditions}
    IN  IF ~router.wired THEN [main |-> <<{}>>]
        ELSE IF router.conditions = {} THEN [main |-> <<{}>>, spillway |-> <<>>]
        ELSE [main |-> <<bad("false")>>, spillway |-> <<bad("true")>>]
JunctionFrames == [b \in DOMAIN router.branches |-> <<Branch(b)>>]

FramesTell ==
    /\ (router.type = "Assert" /\ (phase = "rate" \/ Through)) => ruleAt = Len(router.rules) + 1
    /\ Through =>
        /\ router.type = "Assert" =>
              \/ frames = [main |-> <<passing>>] /\ (parts = <<>> \/ ~router.wired)
              \/ frames = [main |-> <<passing>>, spillway |-> parts] /\ router.wired
        /\ router.type = "Channel" => frames = ChannelFrames
        /\ router.type = "Junction" => frames = JunctionFrames

\* A sink got what was in its frame when it ran, and the rules held then.
SinksTell ==
    /\ DOMAIN sinks # {} => phase \in {"ports", "failed"}
    /\ \A s \in DOMAIN sinks :
        /\ s \in Outlets /\ sinks[s].at \in Nat /\ sinks[s].at <= now
        /\ ~Funnelled =>
              /\ s \in DOMAIN frames
              /\ \A r \in Tuples :
                     sinks[s].copies[r] = CopiesAt(frames[s], r, FreshBy(r, sinks[s].at))
        /\ Funnelled => \A r \in Tuples : sinks[s].copies[r] = Merged(r)
        /\ router.type = "Assert" => Covered(sinks[s].at) /\ AbortsHeld(sinks[s].at)

RoutingInv ==
    RoutingTypeOK /\ WalkedRules /\ RowsEnough /\ RateHeld /\ FramesTell /\ SinksTell
-----------------------------------------------------------------------------
(* Frames and rows.                                                         *)

\* What the model says of frames, in the words of the invariant.
LEMMA RowsOfFrame ==
    /\ \A frame : RowsOf(frame) = {r \in input : Keeps(frame, r, FreshBy(r, now))}
    /\ \A union, r : Copies(union, r) = CopiesAt(union, r, FreshBy(r, now))
<1>1. \A f, r : Value(f.cond, r) = f.value <=> Met(f, r, FreshBy(r, now))
  BY DEF Value, Met, FreshBy
<1>2. \A frame : RowsOf(frame) = {r \in input : Keeps(frame, r, FreshBy(r, now))}
  BY <1>1 DEF RowsOf, Keeps
<1>3. \A union, r : {i \in DOMAIN union : r \in RowsOf(union[i])}
                    = {i \in DOMAIN union : r \in input /\ Keeps(union[i], r, FreshBy(r, now))}
  BY <1>2
<1> QED
  BY <1>2, <1>3 DEF Copies, CopiesAt

\* A row is in a union as often as there are frames that keep it.
LEMMA CountedCopies ==
    ASSUME NEW S, NEW union \in Seq(S), NEW r, NEW fresh
    PROVE  /\ CopiesAt(union, r, fresh) \in Nat
           /\ CopiesAt(union, r, fresh) > 0 =>
                  r \in input /\ \E i \in DOMAIN union : Keeps(union[i], r, fresh)
           /\ \A i \in DOMAIN union :
                  r \in input /\ Keeps(union[i], r, fresh) => CopiesAt(union, r, fresh) > 0
           /\ CopiesAt(union, r, fresh) > 1 =>
                  \E i, j \in DOMAIN union :
                      i # j /\ Keeps(union[i], r, fresh) /\ Keeps(union[j], r, fresh)
<1> DEFINE T == {i \in DOMAIN union : r \in input /\ Keeps(union[i], r, fresh)}
<1>1. IsFiniteSet(T) /\ T \subseteq 1..Len(union) /\ DOMAIN union = 1..Len(union)
  <2>1. IsFiniteSet(1..Len(union)) /\ DOMAIN union = 1..Len(union)
    BY FS_Interval
  <2>2. T \subseteq 1..Len(union)
    BY <2>1
  <2> QED
    BY <2>1, <2>2, FS_Subset
<1>2. Cardinality(T) \in Nat /\ CopiesAt(union, r, fresh) = Cardinality(T)
  BY <1>1, FS_CardinalityType DEF CopiesAt
<1>3. Cardinality(T) = 0 <=> T = {}
  BY <1>1, FS_EmptySet
<1>4. Cardinality(T) > 1 => \E i, j \in T : i # j
  <2> SUFFICES ASSUME \A i, j \in T : i = j, T # {}
               PROVE  Cardinality(T) = 1
    BY <1>2, <1>3
  <2>1. PICK i \in T : TRUE
    OBVIOUS
  <2>2. T = {i}
    BY <2>1
  <2> HIDE DEF T
  <2> QED
    BY <2>2, FS_Singleton
<1>5. T # {} => Cardinality(T) > 0
  BY <1>2, <1>3
<1> HIDE DEF T
<1>6. \A i : i \in T <=> i \in DOMAIN union /\ r \in input /\ Keeps(union[i], r, fresh)
  BY DEF T
<1> QED
  BY <1>2, <1>3, <1>4, <1>5, <1>6

\* A router as RoutingAssumption has it.
LEMMA RouterTypes ==
    ASSUME RoutingTypeOK
    PROVE  /\ IsFiniteSet(Tuples) /\ IsFiniteSet(input) /\ input \subseteq Tuples
           /\ router.type \in {"Assert", "Channel", "Junction"}
           /\ router.type = "Assert" =>
                  /\ router.wired \in BOOLEAN
                  /\ Len(router.rules) \in Nat /\ DOMAIN router.rules = 1..Len(router.rules)
                  /\ \A i \in DOMAIN router.rules : RuleOK(router.rules[i], router.conditions)
           /\ router.type = "Channel" =>
                  /\ router.wired \in BOOLEAN
                  /\ Fresh \notin router.conditions /\ \A c, d \in router.conditions : c = d
           /\ router.type = "Junction" =>
                  /\ Len(router.branches) \in Nat /\ Len(router.branches) >= 1
                  /\ DOMAIN router.branches = 1..Len(router.branches)
                  /\ router.conditions = Range(router.branches) \ {"_else_"}
                  /\ Fresh \notin router.conditions
<1>1. input \subseteq Tuples /\ IsFiniteSet(Tuples) /\ router \in Routers
  BY RoutingAssumption DEF RoutingTypeOK
<1>2. IsFiniteSet(input)
  BY <1>1, FS_Subset
<1>3. \/ /\ router.type = "Assert" /\ router.wired \in BOOLEAN
         /\ router.rules \in Seq(Range(router.rules))
         /\ \A i \in DOMAIN router.rules : RuleOK(router.rules[i], router.conditions)
      \/ /\ router.type = "Channel" /\ router.wired \in BOOLEAN
         /\ Fresh \notin router.conditions /\ \A c, d \in router.conditions : c = d
      \/ /\ router.type = "Junction" /\ router.branches \in Seq(Range(router.branches))
         /\ router.branches # <<>>
         /\ router.conditions = Range(router.branches) \ {"_else_"} /\ Fresh \notin router.conditions
  BY <1>1, RoutingAssumption
<1>4. CASE router.type = "Assert"
  BY <1>1, <1>2, <1>3, <1>4
<1>5. CASE router.type = "Channel"
  BY <1>1, <1>2, <1>3, <1>5
<1>6. CASE router.type = "Junction"
  BY <1>1, <1>2, <1>3, <1>6
<1> QED
  BY <1>3, <1>4, <1>5, <1>6

\* A rule that filters, and the conditions it goes by.
LEMMA RuleTypes ==
    ASSUME RoutingTypeOK, router.type = "Assert", NEW i \in DOMAIN router.rules
    PROVE  /\ Rule(i).type \in {"sql_row", "custom"} =>
                  /\ Rule(i).cond \in router.conditions \ {Fresh}
                  /\ \A r \in Tuples : truth[Rule(i).cond][r] \in Conditions
           /\ Rule(i).type \in {"min_rows", "spillway_rate"} => Rule(i).limit \in Nat
           /\ Rule(i).onFail \in OnFail
           /\ Action(Rule(i)) \in OnFail
           /\ Raises(i) => ~PlainQuarantine(Rule(i))
           /\ Ageing(i) => router.wired
           /\ i \in 1..Len(router.rules)
<1>1. RuleOK(Rule(i), router.conditions) /\ i \in 1..Len(router.rules)
  BY RouterTypes DEF Rule
<1>2. /\ Rule(i).type \in {"sql_row", "custom"} => Rule(i).cond \in router.conditions \ {Fresh}
      /\ Rule(i).type \in {"min_rows", "spillway_rate"} => Rule(i).limit \in Nat
      /\ Rule(i).onFail \in OnFail
  BY <1>1 DEF RuleOK
<1>3. \A c \in router.conditions \ {Fresh}, r \in Tuples : truth[c][r] \in Conditions
  BY DEF RoutingTypeOK
<1>4. Action(Rule(i)) \in OnFail
  BY <1>2 DEF Action, OnFail
<1>5. Raises(i) => ~PlainQuarantine(Rule(i))
  BY DEF Raises, PlainQuarantine
<1>6. Ageing(i) => router.wired
  BY DEF Ageing, Action, RoutingTypeOK, Compiles, Rule, RowRules
<1> QED
  BY <1>1, <1>2, <1>3, <1>4, <1>5, <1>6

\* Nothing the invariant says of rules depends on more than the data.
LEMMA SameData ==
    ASSUME UNCHANGED dataVars
    PROVE  /\ \A i : Rule(i)' = Rule(i) /\ Raises(i)' = Raises(i) /\ Ageing(i)' = Ageing(i)
                     /\ Parting(i)' = Parting(i)
           /\ AgeMatters' = AgeMatters
           /\ \A types : RulesOf(types)' = RulesOf(types)
           /\ \A frame, r, fresh : Keeps(frame, r, fresh)' = Keeps(frame, r, fresh)
           /\ \A i, r, fresh : Passed(i, r, fresh)' = Passed(i, r, fresh)
           /\ \A k, r, fresh : Passes(k, r, fresh)' = Passes(k, r, fresh)
           /\ \A i, r, fresh : Fails(i, r, fresh)' = Fails(i, r, fresh)
           /\ \A r : Named(r)' = Named(r)
           /\ \A r, t : FreshBy(r, t)' = FreshBy(r, t)
           /\ \A union, r, fresh : CopiesAt(union, r, fresh)' = CopiesAt(union, r, fresh)
<1> USE DEF dataVars
<1>1. \A i : Rule(i)' = Rule(i)
  BY DEF Rule
<1>2. \A i : Raises(i)' = Raises(i) /\ Ageing(i)' = Ageing(i)
  BY <1>1 DEF Raises, Ageing
<1>3. \A i : Parting(i)' = Parting(i)
  BY <1>1, <1>2 DEF Parting
<1>4. \A types : RulesOf(types)' = RulesOf(types)
  BY <1>1 DEF RulesOf
<1>5. AgeMatters' = AgeMatters
  BY <1>1, <1>4 DEF AgeMatters
<1>6. \A frame, r, fresh : Keeps(frame, r, fresh)' = Keeps(frame, r, fresh)
  BY DEF Keeps, Met
<1>7. \A i, r, fresh : Passed(i, r, fresh)' = Passed(i, r, fresh)
  BY <1>1, <1>2 DEF Passed
<1>8. \A k, r, fresh : Passes(k, r, fresh)' = Passes(k, r, fresh)
  BY <1>7 DEF Passes
<1>9. \A i, r, fresh : Fails(i, r, fresh)' = Fails(i, r, fresh)
  BY <1>1, <1>2, <1>8 DEF Fails
<1>10. \A r : Named(r)' = Named(r)
  BY <1>1, <1>4 DEF Named
<1>11. \A r, t : FreshBy(r, t)' = FreshBy(r, t)
  BY DEF FreshBy
<1>12. \A union, r, fresh : CopiesAt(union, r, fresh)' = CopiesAt(union, r, fresh)
  BY <1>6 DEF CopiesAt
<1> QED
  BY <1>1, <1>2, <1>3, <1>4, <1>5, <1>6, <1>7, <1>8, <1>9, <1>10, <1>11, <1>12

-----------------------------------------------------------------------------
(* One rule of an Assert.                                                   *)

\* The walk comes to the rule at ruleAt, which leaves these rows to pass and takes
\* these out.
RuleTurn(extra, quarantined) ==
    /\ phase = "rows" /\ phase' = "rows" /\ ruleAt <= Len(router.rules)
    /\ Route(passing \cup extra, quarantined)
    /\ fired \subseteq fired'
    /\ UNCHANGED <<dataVars, now, frames, sinks>>

\* What a part holds are the rows that come to the rule and fail it: they do not
\* pass it, or the rule is a custom one that names them.
PartOf(q) ==
    /\ q \in SUBSET Filter
    /\ \A r \in input, fresh \in BOOLEAN :
        /\ Keeps(q, r, fresh) <=> Fails(ruleAt, r, fresh)
        /\ Keeps(q, r, fresh) => ~Passed(ruleAt, r, fresh) \/ Named(r)

LEMMA StepOfPasses ==
    ASSUME NEW k \in Nat, k >= 1, NEW r, NEW fresh
    PROVE  /\ Passes(k + 1, r, fresh) <=> Passes(k, r, fresh) /\ Passed(k, r, fresh)
           /\ 1..k = (1..(k - 1)) \cup {k}
<1>1. 1..k = (1..(k - 1)) \cup {k} /\ (k + 1) - 1 = k
  OBVIOUS
<1> QED
  BY <1>1 DEF Passes

\* Rows that fail a rule are of no age but by a freshness rule that filters.
LEMMA AgelessRules ==
    ASSUME RoutingTypeOK, router.type = "Assert", ~AgeMatters,
           NEW i \in DOMAIN router.rules, NEW r
    PROVE  Fails(i, r, TRUE) <=> Fails(i, r, FALSE)
<1>1. \A j \in DOMAIN router.rules : ~Ageing(j)
  BY DEF AgeMatters, Ageing, RulesOf
<1>2. /\ DOMAIN router.rules = 1..Len(router.rules) /\ i \in 1..Len(router.rules)
      /\ Len(router.rules) \in Nat
  BY RouterTypes
<1>3. \A j \in 1..(i - 1) : ~Ageing(j)
  BY <1>1, <1>2
<1> QED
  BY <1>1, <1>3 DEF Fails, Passes, Passed

\* What the turn of a rule has to show for the invariant to go on.
LEMMA TurnKeepsRules ==
    ASSUME RoutingTypeOK, router.type = "Assert", RulesTell, Covered(now), AbortsHeld(now),
           NEW extra, extra \in SUBSET Filter, NEW quarantined, RuleTurn(extra, quarantined),
           \A r \in input, fresh \in BOOLEAN : Keeps(extra, r, fresh) <=> Passed(ruleAt, r, fresh),
           \/ quarantined = <<>> /\ ~Parting(ruleAt)
           \/ \E q : quarantined = <<q>> /\ PartOf(q),
           (Rule(ruleAt).type = "sql_row" /\ ~Parting(ruleAt)) =>
               \A r \in input : (/\ truth[Rule(ruleAt).cond][r] = "false"
                                 /\ Passes(ruleAt, r, FreshBy(r, now))) => ruleAt \in fired',
           (Rule(ruleAt).type = "sql_row" /\ Raises(ruleAt)) =>
               \A r \in input : truth[Rule(ruleAt).cond][r] = "false" =>
                   ~Passes(ruleAt, r, FreshBy(r, now))
    PROVE  RoutingTypeOK' /\ (RulesTell /\ Covered(now) /\ AbortsHeld(now))'
<1>1. PICK k : k = ruleAt
  OBVIOUS
<1>2. /\ k \in DOMAIN router.rules /\ k \in Nat /\ k >= 1 /\ k <= Len(router.rules)
      /\ Len(router.rules) \in Nat /\ ruleAt' = k + 1 /\ (k + 1) - 1 = k
      /\ DOMAIN router.rules = 1..Len(router.rules)
      /\ 1..k = (1..(k - 1)) \cup {k} /\ 1..k \subseteq DOMAIN router.rules
  BY <1>1, RouterTypes DEF RuleTurn, Route, RoutingTypeOK
<1>3. /\ UNCHANGED dataVars /\ now' = now /\ input' = input /\ truth' = truth /\ router' = router
      /\ parts' = parts \o quarantined /\ passing' = passing \cup extra
      /\ fired \subseteq fired'
  BY DEF RuleTurn, Route, dataVars
<1>4. /\ \A r, fresh : Passes(k + 1, r, fresh) <=> Passes(k, r, fresh) /\ Passed(k, r, fresh)
      /\ \A r, fresh : Passes(ruleAt, r, fresh)' = Passes(k + 1, r, fresh)
  <2>1. \A r, fresh : Passes(k + 1, r, fresh) <=> Passes(k, r, fresh) /\ Passed(k, r, fresh)
    BY <1>2, StepOfPasses
  <2>2. \A i, r, fresh : Passed(i, r, fresh)' = Passed(i, r, fresh)
    BY <1>3, SameData
  <2> QED
    BY <1>2, <2>1, <2>2 DEF Passes
<1>5. /\ \A r \in input, fresh \in BOOLEAN : Keeps(extra, r, fresh) <=> Passed(k, r, fresh)
      /\ \/ quarantined = <<>> /\ ~Parting(k)
         \/ \E q : /\ quarantined = <<q>> /\ q \in SUBSET Filter
                   /\ \A r \in input, fresh \in BOOLEAN :
                        /\ Keeps(q, r, fresh) <=> Fails(k, r, fresh)
                        /\ Keeps(q, r, fresh) => ~Passed(k, r, fresh) \/ Named(r)
      /\ (Rule(k).type = "sql_row" /\ ~Parting(k)) =>
             \A r \in input : (truth[Rule(k).cond][r] = "false" /\ Passes(k, r, FreshBy(r, now)))
                                  => k \in fired'
      /\ (Rule(k).type = "sql_row" /\ Raises(k)) =>
             \A r \in input : truth[Rule(k).cond][r] = "false" => ~Passes(k, r, FreshBy(r, now))
  BY <1>1 DEF PartOf
\* The parts: the old ones, and the new one if there is one.
<1>6. /\ parts \in Seq(SUBSET Filter) /\ DOMAIN parts = 1..Len(parts) /\ Len(parts) \in Nat
      /\ parts' \in Seq(SUBSET Filter)
      /\ \A j \in DOMAIN parts : j \in DOMAIN parts' /\ parts'[j] = parts[j]
      /\ \A j \in DOMAIN parts' : j \in DOMAIN parts \/ (quarantined = <<parts'[j]>> /\ j = Len(parts) + 1)
      /\ \A q : quarantined = <<q>> =>
             Len(parts) + 1 \in DOMAIN parts' /\ parts'[Len(parts) + 1] = q
  <2>1. parts \in Seq(SUBSET Filter) /\ DOMAIN parts = 1..Len(parts) /\ Len(parts) \in Nat
    BY DEF RoutingTypeOK
  <2>2. CASE quarantined = <<>>
    <3>1. parts' = parts
      BY <1>3, <2>1, <2>2
    <3> QED
      BY <2>1, <2>2, <3>1
  <2>3. CASE \E q : quarantined = <<q>> /\ q \in SUBSET Filter
    <3>1. PICK q : quarantined = <<q>> /\ q \in SUBSET Filter
      BY <2>3
    <3>2. /\ parts' = parts \o <<q>> /\ parts' \in Seq(SUBSET Filter)
          /\ DOMAIN parts' = 1..(Len(parts) + 1)
          /\ \A j \in 1..Len(parts) : parts'[j] = parts[j]
          /\ parts'[Len(parts) + 1] = q
      BY <1>3, <2>1, <3>1
    <3> QED
      BY <2>1, <3>1, <3>2
  <2> QED
    BY <1>5, <2>2, <2>3
<1>7. \A x : <<x>> # <<>>
  OBVIOUS
<1>8. RoutingTypeOK'
  <2>1. Filter' = Filter /\ Compiles(router)' = Compiles(router)
    BY <1>3 DEF Filter, Conditions, dataVars, Compiles
  <2>2. /\ passing' \in SUBSET Filter /\ parts' \in Seq(SUBSET Filter)
        /\ phase' = "rows" /\ ruleAt' \in 1..(Len(router.rules) + 1)
    <3>1. passing \in SUBSET Filter /\ extra \in SUBSET Filter
      BY DEF RoutingTypeOK
    <3>2. passing' \in SUBSET Filter
      BY <1>3, <3>1
    <3>3. phase' = "rows"
      BY DEF RuleTurn
    <3>4. ruleAt' \in 1..(Len(router.rules) + 1)
      BY <1>2
    <3> QED
      BY <1>6, <3>2, <3>3, <3>4
  <2> QED
    BY <1>3, <2>1, <2>2 DEF RoutingTypeOK, dataVars
<1>9. PassingTells'
  <2>1. \A r \in input, fresh \in BOOLEAN : Keeps(passing, r, fresh) <=> Passes(k, r, fresh)
    BY <1>1 DEF RulesTell, PassingTells
  <2>2. \A r, fresh : Keeps(passing', r, fresh) <=> Keeps(passing, r, fresh) /\ Keeps(extra, r, fresh)
    BY <1>3 DEF Keeps
  <2>3. \A r, fresh : Keeps(passing, r, fresh)' <=> Keeps(passing', r, fresh)
    BY <1>3 DEF Keeps, Met
  <2>4. \A r \in input, fresh \in BOOLEAN :
            Keeps(passing, r, fresh)' <=> Passes(ruleAt, r, fresh)'
    BY <1>4, <1>5, <2>1, <2>2, <2>3
  <2> QED
    BY <1>3, <2>4 DEF PassingTells
<1>10. \A j, r, fresh : Keeps(parts[j], r, fresh)' <=> Keeps(parts'[j], r, fresh)
  BY <1>3 DEF Keeps, Met
<1>11. PartsApart'
  <2> SUFFICES ASSUME NEW j \in DOMAIN parts', NEW r \in input, NEW fresh \in BOOLEAN,
                      Keeps(parts[j], r, fresh)', ~Named(r)'
               PROVE  /\ ~Passes(ruleAt, r, fresh)'
                      /\ \A l \in DOMAIN parts' : Keeps(parts[l], r, fresh)' => l = j
    BY <1>3 DEF PartsApart
  <2>1. Keeps(parts'[j], r, fresh) /\ ~Named(r)
    BY <1>3, <1>10, SameData
  <2> SUFFICES /\ ~Passes(k + 1, r, fresh)
               /\ \A l \in DOMAIN parts' : Keeps(parts'[l], r, fresh) => l = j
    BY <1>4, <1>10
  <2>2. \A i \in DOMAIN parts : Keeps(parts[i], r, fresh) =>
            /\ ~Passes(k, r, fresh)
            /\ \A l \in DOMAIN parts : Keeps(parts[l], r, fresh) => l = i
    BY <1>1, <2>1 DEF RulesTell, PartsApart
  <2>3. ASSUME NEW l \in DOMAIN parts', l \notin DOMAIN parts, Keeps(parts'[l], r, fresh)
        PROVE  l = Len(parts) + 1 /\ Passes(k, r, fresh) /\ ~Passed(k, r, fresh)
    <3>1. quarantined = <<parts'[l]>> /\ l = Len(parts) + 1 /\ quarantined # <<>>
      BY <1>6, <1>7, <2>3
    <3>2. Keeps(parts'[l], r, fresh) => Fails(k, r, fresh) /\ ~Passed(k, r, fresh)
      BY <1>5, <2>1, <3>1
    <3> QED
      BY <2>3, <3>1, <3>2 DEF Fails
  <2>4. CASE j \in DOMAIN parts
    BY <1>4, <1>6, <2>2, <2>3, <2>4, <2>1
  <2>5. CASE j \notin DOMAIN parts
    BY <1>4, <1>6, <2>2, <2>3, <2>5, <2>1
  <2> QED
    BY <2>4, <2>5
<1>12. PartsComplete'
  <2>1. /\ \A i : Parting(i)' = Parting(i)
        /\ \A i, r, fresh : Fails(i, r, fresh)' = Fails(i, r, fresh)
    BY <1>3, SameData
  <2> SUFFICES ASSUME NEW i \in 1..k, Parting(i)'
               PROVE  \E j \in DOMAIN parts' : \A r \in input, fresh \in BOOLEAN :
                          Keeps(parts[j], r, fresh)' <=> Fails(i, r, fresh)'
    BY <1>2, <1>3 DEF PartsComplete
  <2>2. Parting(i)
    BY <2>1
  <2> SUFFICES \E j \in DOMAIN parts' : \A r \in input, fresh \in BOOLEAN :
                   Keeps(parts'[j], r, fresh) <=> Fails(i, r, fresh)
    BY <1>10, <2>1
  <2>3. CASE i = k
    <3>1. PICK q : /\ quarantined = <<q>>
                   /\ \A r \in input, fresh \in BOOLEAN : Keeps(q, r, fresh) <=> Fails(k, r, fresh)
      BY <1>5, <2>3, <2>2
    <3> QED
      BY <1>6, <2>3, <3>1
  <2>4. CASE i \in 1..(k - 1)
    <3>1. PICK j \in DOMAIN parts : \A r \in input, fresh \in BOOLEAN :
              Keeps(parts[j], r, fresh) <=> Fails(i, r, fresh)
      BY <1>1, <2>4, <2>2 DEF RulesTell, PartsComplete
    <3> QED
      BY <1>6, <3>1
  <2> QED
    BY <1>2, <2>3, <2>4
<1>13. PartsAgeless'
  <2>1. AgeMatters' = AgeMatters
    BY <1>3, SameData
  <2> SUFFICES ASSUME ~AgeMatters, NEW j \in DOMAIN parts', NEW r \in input
               PROVE  Keeps(parts'[j], r, TRUE) <=> Keeps(parts'[j], r, FALSE)
    BY <1>3, <1>10, <2>1 DEF PartsAgeless
  <2>2. CASE j \in DOMAIN parts
    BY <1>6, <2>2 DEF RulesTell, PartsAgeless
  <2>3. CASE j \notin DOMAIN parts
    <3>1. quarantined = <<parts'[j]>> /\ quarantined # <<>>
      BY <1>6, <1>7, <2>3
    <3>2. \A fresh \in BOOLEAN : Keeps(parts'[j], r, fresh) <=> Fails(k, r, fresh)
      BY <1>5, <3>1
    <3>3. Fails(k, r, TRUE) <=> Fails(k, r, FALSE)
      BY <1>2, AgelessRules
    <3> QED
      BY <3>2, <3>3
  <2> QED
    BY <2>2, <2>3
<1>14. Covered(now)'
  <2>1. \A i, r, fresh : Dropped(i, r, fresh) => Dropped(i, r, fresh)'
    <3>1. /\ \A i : Rule(i)' = Rule(i) /\ Parting(i)' = Parting(i)
          /\ \A i, r, fresh : Fails(i, r, fresh)' = Fails(i, r, fresh)
      BY <1>3, SameData
    <3> QED
      BY <1>3, <3>1 DEF Dropped
  <2>2. \A r : FreshBy(r, now)' = FreshBy(r, now)
    BY <1>3 DEF FreshBy, dataVars
  <2> SUFFICES ASSUME NEW r \in input, NEW fresh \in BOOLEAN, fresh => FreshBy(r, now)
               PROVE  Passes(k + 1, r, fresh) \/ \E i \in 1..k : Dropped(i, r, fresh)'
    BY <1>2, <1>3, <1>4, <2>2 DEF Covered
  <2>3. CASE ~Passes(k, r, fresh)
    <3>1. PICK i \in 1..(k - 1) : Dropped(i, r, fresh)
      BY <1>1, <2>3 DEF Covered
    <3> QED
      BY <1>2, <2>1, <3>1
  <2>4. CASE Passes(k, r, fresh) /\ Passed(k, r, fresh)
    BY <1>4, <2>4
  <2>5. CASE Passes(k, r, fresh) /\ ~Passed(k, r, fresh)
    <3>1. CASE Ageing(k)
      <4>1. Fails(k, r, fresh) /\ Parting(k)
        BY <2>5, <3>1 DEF Passed, Fails, Parting, Ageing
      <4> QED
        BY <1>2, <2>1, <4>1 DEF Dropped
    <3>2. CASE ~Ageing(k)
      <4>1. /\ Rule(k).type = "sql_row"
            /\ truth[Rule(k).cond][r] \in {"false", "null"}
        <5>1. Rule(k).type = "sql_row" /\ truth[Rule(k).cond][r] # "true"
          BY <2>5, <3>2 DEF Passed
        <5>2. r \in Tuples
          BY RouterTypes
        <5> QED
          BY <1>2, <5>1, <5>2, RuleTypes DEF Conditions
      <4>2. CASE truth[Rule(k).cond][r] = "null"
        BY <1>2, <2>1, <4>1, <4>2 DEF Dropped
      <4>3. CASE truth[Rule(k).cond][r] = "false" /\ Parting(k)
        <5>1. Fails(k, r, fresh)
          BY <2>5, <3>2, <4>3 DEF Fails
        <5> QED
          BY <1>2, <2>1, <4>3, <5>1 DEF Dropped
      <4>4. CASE truth[Rule(k).cond][r] = "false" /\ ~Parting(k)
        <5>1. Passes(k, r, FALSE) => Passes(k, r, TRUE)
          BY DEF Passes, Passed
        <5>2. Passes(k, r, FreshBy(r, now))
          <6>1. FreshBy(r, now) = TRUE \/ FreshBy(r, now) = FALSE
            BY DEF FreshBy
          <6> QED
            BY <2>5, <5>1, <6>1
        <5>3. k \in fired' /\ ~PlainQuarantine(Rule(k))
          BY <1>5, <4>1, <4>4, <5>2 DEF Parting
        <5>4. Rule(k)' = Rule(k)
          BY <1>3, SameData
        <5>5. Dropped(k, r, fresh)'
          BY <1>3, <4>1, <4>4, <5>3, <5>4 DEF Dropped
        <5> QED
          BY <1>2, <5>5
      <4> QED
        BY <4>1, <4>2, <4>3, <4>4
    <3> QED
      BY <3>1, <3>2
  <2> QED
    BY <2>3, <2>4, <2>5
<1>15. AbortsHeld(now)'
  <2>1. /\ \A i : Rule(i)' = Rule(i) /\ Raises(i)' = Raises(i) /\ Ageing(i)' = Ageing(i)
        /\ \A r : FreshBy(r, now)' = FreshBy(r, now)
    <3>1. \A i : Rule(i)' = Rule(i) /\ Raises(i)' = Raises(i) /\ Ageing(i)' = Ageing(i)
      BY <1>3, SameData
    <3> QED
      BY <1>3, <3>1 DEF FreshBy, dataVars
  <2>a. 1..(ruleAt' - 1) = 1..k /\ input' = input /\ truth' = truth
    BY <1>2, <1>3
  <2> SUFFICES ASSUME NEW i \in 1..k, Rule(i)'.type = "sql_row", Raises(i)',
                      NEW r \in input, truth[Rule(i)'.cond][r] = "false"
               PROVE  \E j \in 1..(i - 1) :
                          \/ Rule(j)'.type = "sql_row" /\ truth[Rule(j)'.cond][r] # "true"
                          \/ Ageing(j)' /\ ~FreshBy(r, now)'
    BY <2>a DEF AbortsHeld
  <2>2. Rule(i).type = "sql_row" /\ Raises(i) /\ truth[Rule(i).cond][r] = "false"
    BY <2>1
  <2> SUFFICES \E j \in 1..(i - 1) :
                   \/ Rule(j).type = "sql_row" /\ truth[Rule(j).cond][r] # "true"
                   \/ Ageing(j) /\ ~FreshBy(r, now)
    BY <2>1
  <2>3. CASE i = k
    <3>1. ~Passes(k, r, FreshBy(r, now))
      BY <1>5, <2>3, <2>2
    <3> QED
      BY <2>3, <3>1 DEF Passes, Passed
  <2>4. CASE i \in 1..(k - 1)
    BY <1>1, <2>4, <2>2 DEF AbortsHeld
  <2> QED
    BY <1>2, <2>3, <2>4
<1> QED
  BY <1>8, <1>9, <1>11, <1>12, <1>13, <1>14, <1>15 DEF RulesTell

\* While the rules are gone through no sink has run, and what is promised of the
\* ports is promised of nothing yet.
LEMMA AfterTurn ==
    ASSUME RoutingInv, router.type = "Assert", phase = "rows", phase' = "rows",
           UNCHANGED dataVars, UNCHANGED sinks,
           RoutingTypeOK', (RulesTell /\ Covered(now) /\ AbortsHeld(now))'
    PROVE  RoutingInv'
<1>1. /\ DOMAIN sinks = {} /\ ~Through' /\ router' = router /\ input' = input
  BY DEF RoutingInv, SinksTell, Through, dataVars
<1>2. \A i \in RulesOf({"min_rows"}) : Raises(i) => Cardinality(input) >= Rule(i).limit
  BY DEF RoutingInv, RowsEnough
<1>3. RowsEnough'
  <2>1. \A i : Rule(i)' = Rule(i) /\ Raises(i)' = Raises(i)
    BY SameData
  <2>2. RulesOf({"min_rows"})' = RulesOf({"min_rows"})
    BY SameData
  <2> QED
    BY <1>1, <1>2, <2>1, <2>2 DEF RowsEnough
<1> QED
  BY <1>1, <1>3 DEF RoutingInv, WalkedRules, RateHeld, FramesTell, SinksTell

\* A rule that raises ends the walk before any sink.
LEMMA AfterFailure ==
    ASSUME RoutingInv, phase # "ports", DOMAIN sinks = {}, phase' = "failed",
           UNCHANGED sinks, RoutingTypeOK'
    PROVE  RoutingInv'
<1>1. ~Through' /\ DOMAIN sinks' = {}
  BY DEF Through
<1> QED
  BY <1>1 DEF RoutingInv, WalkedRules, RowsEnough, RateHeld, FramesTell, SinksTell

LEMMA HandledAlone ==
    ASSUME Handle({ruleAt}, "rows")
    PROVE  \/ Raises(ruleAt) /\ phase' = "failed"
           \/ ~Raises(ruleAt) /\ phase' = "rows" /\ fired' = fired \cup {ruleAt}
<1>1. CASE Raises(ruleAt)
  <2>1. {i \in {ruleAt} : Raises(i)} = {ruleAt}
    BY <1>1
  <2> QED
    BY <1>1, <2>1 DEF Handle
<1>2. CASE ~Raises(ruleAt)
  <2>1. {i \in {ruleAt} : Raises(i)} = {}
    BY <1>2
  <2> QED
    BY <1>2, <2>1 DEF Handle
<1> QED
  BY <1>1, <1>2

\* Rows that come to the rule and for which its condition has the value.
LEMMA PassingAnd ==
    ASSUME RoutingTypeOK, PassingTells, NEW c, NEW value, NEW r \in input, NEW fresh \in BOOLEAN
    PROVE  Keeps(passing \cup {Is(c, value)}, r, fresh) <=>
               /\ Passes(ruleAt, r, fresh)
               /\ IF c = Fresh THEN (IF fresh THEN "true" ELSE "false") = value
                  ELSE truth[c][r] = value
<1>1. Keeps(passing \cup {Is(c, value)}, r, fresh) <=>
          Keeps(passing, r, fresh) /\ Met(Is(c, value), r, fresh)
  BY DEF Keeps
<1>2. Keeps(passing, r, fresh) <=> Passes(ruleAt, r, fresh)
  BY DEF PassingTells
<1> QED
  BY <1>1, <1>2 DEF Met, Is

\* Each row rule leaves the invariant as it is.
LEMMA SqlRowKeeps ==
    ASSUME RoutingInv, router.type = "Assert", SqlRow
    PROVE  RoutingInv'
<1>1. PICK k, c : k = ruleAt /\ c = Rule(ruleAt).cond
  OBVIOUS
<1> DEFINE fail == passing \cup {Is(c, "false")}
<1>2. /\ RoutingTypeOK /\ RulesTell /\ Covered(now) /\ AbortsHeld(now)
      /\ phase = "rows" /\ DOMAIN sinks = {} /\ k <= Len(router.rules)
      /\ Rule(k).type = "sql_row" /\ ~Ageing(k) /\ k \in DOMAIN router.rules
      /\ UNCHANGED dataVars /\ UNCHANGED <<now, sinks>>
      /\ c \in router.conditions \ {Fresh}
  <2>1. /\ RoutingTypeOK /\ RulesTell /\ Covered(now) /\ AbortsHeld(now)
        /\ phase = "rows" /\ DOMAIN sinks = {} /\ k <= Len(router.rules)
        /\ Rule(k).type = "sql_row" /\ ~Ageing(k)
        /\ UNCHANGED dataVars /\ UNCHANGED <<now, sinks>>
    BY <1>1 DEF SqlRow, AtRule, RoutingInv, WalkedRules, SinksTell, Ageing
  <2>2. k \in DOMAIN router.rules
    BY <1>1, <2>1, RouterTypes DEF RoutingTypeOK
  <2> QED
    BY <1>1, <2>1, <2>2, RuleTypes
<1>3. CASE phase' = "failed" /\ UNCHANGED planVars
  <2>1. RoutingTypeOK'
    BY <1>2, <1>3 DEF RoutingTypeOK, planVars, dataVars, Filter, Compiles
  <2> QED
    BY <1>2, <1>3, <2>1, AfterFailure
<1>4. ASSUME /\ IF PlainQuarantine(Rule(k)) THEN UNCHANGED <<fired, phase>>
                ELSE \/ RowsOf(fail) = {} /\ UNCHANGED <<fired, phase>>
                     \/ Handle({k}, "rows")
             /\ Route(passing \cup {Is(c, "true")},
                      IF PlainQuarantine(Rule(k)) THEN <<fail>> ELSE <<>>)
             /\ UNCHANGED frames
      PROVE  RoutingInv'
  <2>1. PICK extra, quarantined :
            /\ extra = {Is(c, "true")}
            /\ quarantined = IF PlainQuarantine(Rule(k)) THEN <<fail>> ELSE <<>>
    OBVIOUS
  <2>2. /\ extra \in SUBSET Filter /\ fail \in SUBSET Filter
        /\ \A r \in input, fresh \in BOOLEAN :
               /\ Keeps(extra, r, fresh) <=> Passed(k, r, fresh)
               /\ Keeps(fail, r, fresh) <=> Fails(k, r, fresh)
               /\ Keeps(fail, r, fresh) => ~Passed(k, r, fresh)
    <3>1. extra \in SUBSET Filter /\ fail \in SUBSET Filter
      BY <1>2, <2>1 DEF RoutingTypeOK, Filter, Is, Conditions
    <3>2. ASSUME NEW r \in input, NEW fresh \in BOOLEAN
          PROVE  Keeps(extra, r, fresh) <=> truth[c][r] = "true"
      BY <1>2, <2>1 DEF Keeps, Met, Is
    <3>3. ASSUME NEW r \in input, NEW fresh \in BOOLEAN
          PROVE  Keeps(fail, r, fresh) <=> Passes(k, r, fresh) /\ truth[c][r] = "false"
      BY <1>1, <1>2, PassingAnd DEF RulesTell
    <3>4. ASSUME NEW r \in input, NEW fresh \in BOOLEAN
          PROVE  /\ Passed(k, r, fresh) <=> truth[c][r] = "true"
                 /\ Fails(k, r, fresh) <=> Passes(k, r, fresh) /\ truth[c][r] = "false"
      BY <1>1, <1>2 DEF Passed, Fails
    <3> QED
      BY <3>1, <3>2, <3>3, <3>4
  <2> HIDE DEF fail
  <2>3. \A r \in input : (RowsOf(fail) = {} /\ truth[c][r] = "false") => ~Passes(k, r, FreshBy(r, now))
    <3> SUFFICES ASSUME NEW r \in input, RowsOf(fail) = {}, truth[c][r] = "false"
                 PROVE  ~Passes(k, r, FreshBy(r, now))
      OBVIOUS
    <3>1. ~Keeps(fail, r, FreshBy(r, now)) /\ FreshBy(r, now) \in BOOLEAN
      BY RowsOfFrame DEF FreshBy
    <3>2. PICK fresh \in BOOLEAN : fresh = FreshBy(r, now)
      BY <3>1
    <3>3. ~Keeps(fail, r, fresh)
      BY <3>1, <3>2
    <3>4. ~Fails(k, r, fresh)
      BY <2>2, <3>3
    <3> QED
      BY <1>1, <1>2, <3>2, <3>4 DEF Fails
  <2>4. CASE phase' = "failed"
    <3>1. parts' = parts
      <4>1. ~PlainQuarantine(Rule(k))
        BY <1>2, <1>4, <2>4
      <4> QED
        BY <1>4, <4>1, <1>2 DEF Route, RoutingTypeOK
    <3>2. /\ ruleAt' = k + 1 /\ passing' = passing \cup {Is(c, "true")}
          /\ k + 1 \in 1..(Len(router.rules) + 1)
      BY <1>1, <1>2, <1>4, RouterTypes DEF Route
    <3>3. RoutingTypeOK'
      BY <1>2, <2>1, <2>2, <2>4, <3>1, <3>2 DEF RoutingTypeOK, dataVars, Filter, Compiles
    <3> QED
      BY <1>2, <2>4, <3>3, AfterFailure
  <2>5. CASE phase' # "failed"
    <3>1. \/ UNCHANGED <<fired, phase>> /\ (PlainQuarantine(Rule(k)) \/ RowsOf(fail) = {})
          \/ /\ ~PlainQuarantine(Rule(k)) /\ ~Raises(k)
             /\ phase' = "rows" /\ fired' = fired \cup {k}
      BY <1>1, <1>4, <2>5, HandledAlone
    <3>2. phase' = "rows" /\ fired \subseteq fired'
      BY <1>2, <3>1
    <3>3. RuleTurn(extra, quarantined)
      BY <1>1, <1>2, <1>4, <2>1, <3>2 DEF RuleTurn, fail
    <3>4. \/ quarantined = <<>> /\ ~Parting(ruleAt)
          \/ \E q : quarantined = <<q>> /\ PartOf(q)
      <4>1. CASE PlainQuarantine(Rule(k))
        <5>1. PICK q : q = fail
          OBVIOUS
        <5>2. PartOf(q)
          BY <1>1, <2>2, <5>1 DEF PartOf
        <5> QED
          BY <2>1, <4>1, <5>1, <5>2
      <4>2. CASE ~PlainQuarantine(Rule(k))
        BY <1>1, <1>2, <2>1, <4>2 DEF Parting
      <4> QED
        BY <4>1, <4>2
    <3>5. (Rule(ruleAt).type = "sql_row" /\ ~Parting(ruleAt)) =>
               \A r \in input : (/\ truth[Rule(ruleAt).cond][r] = "false"
                                 /\ Passes(ruleAt, r, FreshBy(r, now))) => ruleAt \in fired'
      BY <1>1, <2>3, <3>1 DEF Parting
    <3>6. (Rule(ruleAt).type = "sql_row" /\ Raises(ruleAt)) =>
               \A r \in input : truth[Rule(ruleAt).cond][r] = "false" =>
                   ~Passes(ruleAt, r, FreshBy(r, now))
      <4>1. Raises(k) => ~PlainQuarantine(Rule(k))
        BY <1>2, RuleTypes
      <4> QED
        BY <1>1, <2>3, <3>1, <4>1
    <3>7. \A r \in input, fresh \in BOOLEAN : Keeps(extra, r, fresh) <=> Passed(ruleAt, r, fresh)
      BY <1>1, <2>2
    <3>8. RoutingTypeOK' /\ (RulesTell /\ Covered(now) /\ AbortsHeld(now))'
      BY <1>2, <2>2, <3>3, <3>4, <3>5, <3>6, <3>7, TurnKeepsRules
    <3> QED
      BY <1>2, <3>2, <3>8, AfterTurn
  <2> QED
    BY <2>4, <2>5
<1> QED
  <2>1. \/ phase' = "failed" /\ UNCHANGED planVars
        \/ /\ IF PlainQuarantine(Rule(k)) THEN UNCHANGED <<fired, phase>>
              ELSE \/ RowsOf(fail) = {} /\ UNCHANGED <<fired, phase>>
                   \/ Handle({k}, "rows")
           /\ Route(passing \cup {Is(c, "true")},
                    IF PlainQuarantine(Rule(k)) THEN <<fail>> ELSE <<>>)
           /\ UNCHANGED frames
    BY <1>1 DEF SqlRow
  <2> QED
    BY <1>3, <1>4, <2>1

\* The turn of a rule other than sql_row.
LEMMA OtherTurn ==
    ASSUME RoutingInv, router.type = "Assert",
           NEW extra, extra \in SUBSET Filter, NEW quarantined, RuleTurn(extra, quarantined),
           Rule(ruleAt).type # "sql_row",
           \A r \in input, fresh \in BOOLEAN : Keeps(extra, r, fresh) <=> Passed(ruleAt, r, fresh),
           \/ quarantined = <<>> /\ ~Parting(ruleAt)
           \/ \E q : quarantined = <<q>> /\ PartOf(q)
    PROVE  RoutingInv'
<1>1. phase = "rows" /\ phase' = "rows" /\ UNCHANGED dataVars /\ UNCHANGED sinks
  BY DEF RuleTurn
<1>2. RoutingTypeOK /\ RulesTell /\ Covered(now) /\ AbortsHeld(now)
  BY <1>1 DEF RoutingInv, WalkedRules
<1>3. RoutingTypeOK' /\ (RulesTell /\ Covered(now) /\ AbortsHeld(now))'
  BY <1>2, TurnKeepsRules
<1> QED
  BY <1>1, <1>3, AfterTurn

LEMMA CustomKeeps ==
    ASSUME RoutingInv, router.type = "Assert", Custom
    PROVE  RoutingInv'
<1>1. PICK k, c : k = ruleAt /\ c = Rule(ruleAt).cond
  OBVIOUS
<1> DEFINE bad == passing \cup {Is(c, "false")}
<1>2. /\ RoutingTypeOK /\ PassingTells /\ phase = "rows" /\ DOMAIN sinks = {}
      /\ k \in DOMAIN router.rules /\ k \in Nat /\ ruleAt <= Len(router.rules)
      /\ Rule(k).type = "custom" /\ ~Ageing(k) /\ ~Parting(k)
      /\ UNCHANGED dataVars /\ UNCHANGED <<now, sinks>>
  <2>1. /\ RoutingTypeOK /\ PassingTells /\ phase = "rows" /\ DOMAIN sinks = {}
        /\ ruleAt <= Len(router.rules)
        /\ Rule(k).type = "custom" /\ ~Ageing(k) /\ ~Parting(k)
        /\ UNCHANGED dataVars /\ UNCHANGED <<now, sinks>>
    BY <1>1 DEF Custom, AtRule, RoutingInv, WalkedRules, RulesTell, SinksTell, Ageing, Parting
  <2> QED
    BY <1>1, <2>1, RouterTypes DEF RoutingTypeOK
<1>3. c \in router.conditions \ {Fresh}
  BY <1>1, <1>2, RuleTypes
<1>4. PICK extra : extra = {} /\ extra \in SUBSET Filter /\ passing \cup extra = passing
  <2>1. {} \in SUBSET Filter /\ passing \cup {} = passing
    OBVIOUS
  <2> QED
    BY <2>1
<1>5. \A r \in input, fresh \in BOOLEAN : Keeps(extra, r, fresh) <=> Passed(ruleAt, r, fresh)
  BY <1>1, <1>2, <1>4 DEF Keeps, Passed
<1>6. PartOf(bad)
  <2>1. bad \in SUBSET Filter
    BY <1>2, <1>3 DEF RoutingTypeOK, Filter, Is, Conditions
  <2>2. ASSUME NEW r \in input, NEW fresh \in BOOLEAN
        PROVE  Keeps(bad, r, fresh) <=> Passes(k, r, fresh) /\ truth[c][r] = "false"
    <3>1. Keeps(passing \cup {Is(c, "false")}, r, fresh) <=>
              /\ Passes(ruleAt, r, fresh)
              /\ IF c = Fresh THEN (IF fresh THEN "true" ELSE "false") = "false"
                 ELSE truth[c][r] = "false"
      <4>1. RoutingTypeOK /\ PassingTells
        BY <1>2
      <4> HIDE DEF bad
      <4> QED
        BY <4>1, PassingAnd
    <3> QED
      BY <1>1, <1>3, <3>1
  <2>3. ASSUME NEW r \in input, NEW fresh \in BOOLEAN
        PROVE  Fails(k, r, fresh) <=> Passes(k, r, fresh) /\ truth[c][r] = "false"
    BY <1>1, <1>2 DEF Fails
  <2>4. ASSUME NEW r \in input, truth[c][r] = "false"
        PROVE  Named(r)
    BY <1>1, <1>2, <2>4 DEF Named, RulesOf
  <2> QED
    BY <1>1, <2>1, <2>2, <2>3, <2>4 DEF PartOf
<1> HIDE DEF bad
<1>7. CASE phase' = "failed" /\ UNCHANGED planVars
  <2>1. RoutingTypeOK'
    BY <1>2, <1>7 DEF RoutingTypeOK, planVars, dataVars, Filter, Compiles
  <2> QED
    BY <1>2, <1>7, <2>1, AfterFailure
<1>8. CASE Route(passing, <<>>) /\ UNCHANGED <<phase, fired, frames>>
  <2>1. RuleTurn(extra, <<>>)
    BY <1>2, <1>4, <1>8 DEF RuleTurn
  <2>2. Rule(ruleAt).type # "sql_row" /\ ~Parting(ruleAt)
    BY <1>1, <1>2
  <2> QED
    BY <1>4, <1>5, <2>1, <2>2, OtherTurn
<1>9. CASE Route(passing, <<bad>>) /\ UNCHANGED <<phase, fired, frames>>
  <2>1. PICK q, quarantined : q = bad /\ quarantined = <<q>>
    OBVIOUS
  <2>2. RuleTurn(extra, quarantined)
    BY <1>2, <1>4, <1>9, <2>1 DEF RuleTurn
  <2>3. Rule(ruleAt).type # "sql_row"
    BY <1>1, <1>2
  <2>4. PartOf(q)
    BY <1>6, <2>1
  <2> QED
    BY <1>4, <1>5, <2>1, <2>2, <2>3, <2>4, OtherTurn
<1>10. CASE Route(passing, <<>>) /\ Handle({ruleAt}, "rows") /\ UNCHANGED frames
  <2>1. CASE phase' = "failed"
    <3>1. parts' = parts /\ ruleAt' = k + 1 /\ passing' = passing
      BY <1>1, <1>2, <1>10 DEF Route, RoutingTypeOK
    <3>2. k + 1 \in 1..(Len(router.rules) + 1)
      BY <1>1, <1>2, RouterTypes
    <3>3. RoutingTypeOK'
      BY <1>2, <2>1, <3>1, <3>2 DEF RoutingTypeOK, dataVars, Filter, Compiles
    <3> QED
      BY <1>2, <2>1, <3>3, AfterFailure
  <2>2. CASE phase' # "failed"
    <3>1. phase' = "rows" /\ fired \subseteq fired'
      BY <1>10, <2>2, HandledAlone
    <3>2. RuleTurn(extra, <<>>)
      BY <1>2, <1>4, <1>10, <3>1 DEF RuleTurn
    <3>3. Rule(ruleAt).type # "sql_row" /\ ~Parting(ruleAt)
      BY <1>1, <1>2
    <3> QED
      BY <1>4, <1>5, <3>2, <3>3, OtherTurn
  <2> QED
    BY <2>1, <2>2
<1> QED
  <2>1. \/ phase' = "failed" /\ UNCHANGED planVars
        \/ Route(passing, <<>>) /\ UNCHANGED <<phase, fired, frames>>
        \/ Route(passing, <<bad>>) /\ UNCHANGED <<phase, fired, frames>>
        \/ Route(passing, <<>>) /\ Handle({ruleAt}, "rows") /\ UNCHANGED frames
    BY <1>1 DEF Custom, bad
  <2> QED
    BY <1>7, <1>8, <1>9, <1>10, <2>1

LEMMA FreshRowKeeps ==
    ASSUME RoutingInv, router.type = "Assert", FreshRow
    PROVE  RoutingInv'
<1>1. PICK k, extra, q, quarantined :
          /\ k = ruleAt /\ extra = {Is(Fresh, "true")} /\ q = passing \cup {Is(Fresh, "false")}
          /\ quarantined = <<q>>
  OBVIOUS
<1>2. /\ RoutingTypeOK /\ PassingTells /\ phase = "rows" /\ ruleAt <= Len(router.rules)
      /\ Rule(k).type = "freshness" /\ Ageing(k)
      /\ RuleTurn(extra, quarantined)
  BY <1>1 DEF FreshRow, AtRule, RoutingInv, WalkedRules, RulesTell, Ageing, RuleTurn
<1>3. extra \in SUBSET Filter /\ q \in SUBSET Filter
  BY <1>1, <1>2 DEF RoutingTypeOK, Filter, Is, Conditions
<1>4. ASSUME NEW r \in input, NEW fresh \in BOOLEAN
      PROVE  /\ Keeps(extra, r, fresh) <=> fresh
             /\ Passed(k, r, fresh) <=> fresh
             /\ Fails(k, r, fresh) <=> Passes(k, r, fresh) /\ ~fresh
  <2>1. Keeps(extra, r, fresh) <=> fresh
    BY <1>1 DEF Keeps, Met, Is
  <2> QED
    BY <1>2, <2>1 DEF Passed, Fails
<1>5. ASSUME NEW r \in input, NEW fresh \in BOOLEAN
      PROVE  Keeps(q, r, fresh) <=> Passes(k, r, fresh) /\ ~fresh
  BY <1>1, <1>2, PassingAnd
<1>6. PartOf(q)
  BY <1>1, <1>3, <1>4, <1>5 DEF PartOf
<1>7. Rule(ruleAt).type # "sql_row"
  BY <1>1, <1>2
<1>8. \A r \in input, fresh \in BOOLEAN : Keeps(extra, r, fresh) <=> Passed(ruleAt, r, fresh)
  BY <1>1, <1>4
<1> QED
  BY <1>1, <1>2, <1>3, <1>6, <1>7, <1>8, OtherTurn

LEMMA NoRowRuleKeeps ==
    ASSUME RoutingInv, router.type = "Assert", NoRowRule
    PROVE  RoutingInv'
<1>1. PICK extra : extra = {} /\ extra \in SUBSET Filter /\ passing \cup extra = passing
  <2>1. {} \in SUBSET Filter /\ passing \cup {} = passing
    OBVIOUS
  <2> QED
    BY <2>1
<1>2. /\ Rule(ruleAt).type # "sql_row" /\ ~Ageing(ruleAt) /\ ~Parting(ruleAt)
      /\ RuleTurn(extra, <<>>)
  BY <1>1 DEF NoRowRule, Ageing, Parting, RuleTurn
<1>3. \A r \in input, fresh \in BOOLEAN : Keeps(extra, r, fresh) <=> Passed(ruleAt, r, fresh)
  BY <1>1, <1>2 DEF Keeps, Passed
<1> QED
  BY <1>1, <1>2, <1>3, OtherTurn

-----------------------------------------------------------------------------
(* The other steps: they leave the rules as they are.                       *)

LEMMA HandledAll ==
    ASSUME NEW failed, NEW next, Handle(failed, next)
    PROVE  /\ fired \subseteq fired'
           /\ \/ phase' = "failed"
              \/ phase' = next /\ \A i \in failed : ~Raises(i)
BY DEF Handle

LEMMA RulesStay ==
    ASSUME UNCHANGED <<dataVars, ruleAt, passing, parts>>, fired \subseteq fired', NEW t
    PROVE  /\ RulesTell => RulesTell'
           /\ Covered(t) => Covered(t)'
           /\ AbortsHeld(t) => AbortsHeld(t)'
<1>1. /\ UNCHANGED dataVars /\ input' = input /\ truth' = truth
      /\ ruleAt' = ruleAt /\ passing' = passing /\ parts' = parts
  BY DEF dataVars
<1>2. /\ \A i : Rule(i)' = Rule(i) /\ Raises(i)' = Raises(i) /\ Ageing(i)' = Ageing(i)
                /\ Parting(i)' = Parting(i)
      /\ AgeMatters' = AgeMatters
      /\ \A frame, r, fresh : Keeps(frame, r, fresh)' = Keeps(frame, r, fresh)
      /\ \A k, r, fresh : Passes(k, r, fresh)' = Passes(k, r, fresh)
      /\ \A i, r, fresh : Fails(i, r, fresh)' = Fails(i, r, fresh)
      /\ \A r : Named(r)' = Named(r)
      /\ \A r : FreshBy(r, t)' = FreshBy(r, t)
  BY <1>1, SameData
<1>3. PassingTells => PassingTells'
  <2>1. \A r, fresh : Keeps(passing, r, fresh)' = Keeps(passing, r, fresh)
    BY <1>1, <1>2
  <2>2. \A r, fresh : Passes(ruleAt, r, fresh)' = Passes(ruleAt, r, fresh)
    BY <1>1, <1>2
  <2> QED
    BY <1>1, <2>1, <2>2 DEF PassingTells
<1>4. \A j, r, fresh : Keeps(parts[j], r, fresh)' = Keeps(parts[j], r, fresh)
  BY <1>1, <1>2
<1>5. PartsApart => PartsApart'
  <2>1. \A r, fresh : Passes(ruleAt, r, fresh)' = Passes(ruleAt, r, fresh)
    BY <1>1, <1>2
  <2> QED
    BY <1>1, <1>2, <1>4, <2>1 DEF PartsApart
<1>6. PartsComplete => PartsComplete'
  BY <1>1, <1>2, <1>4 DEF PartsComplete
<1>7. PartsAgeless => PartsAgeless'
  BY <1>1, <1>2, <1>4 DEF PartsAgeless
<1>8. Covered(t) => Covered(t)'
  <2>1. \A i, r, fresh : Dropped(i, r, fresh) => Dropped(i, r, fresh)'
    BY <1>1, <1>2 DEF Dropped
  <2>2. \A r, fresh : Passes(ruleAt, r, fresh)' = Passes(ruleAt, r, fresh)
    BY <1>1, <1>2
  <2> QED
    BY <1>1, <1>2, <2>1, <2>2 DEF Covered
<1>9. AbortsHeld(t) => AbortsHeld(t)'
  BY <1>1, <1>2 DEF AbortsHeld
<1> QED
  BY <1>3, <1>5, <1>6, <1>7, <1>8, <1>9 DEF RulesTell

\* What holds of the rules at a time holds of them later.
LEMMA LaterToo ==
    ASSUME RoutingTypeOK, NEW t \in Nat, NEW u \in Nat, t <= u
    PROVE  (Covered(t) => Covered(u)) /\ (AbortsHeld(t) => AbortsHeld(u))
<1>1. \A r \in input : FreshBy(r, u) => FreshBy(r, t)
  BY DEF RoutingTypeOK, FreshBy
<1>2. Covered(t) => Covered(u)
  BY <1>1 DEF Covered
<1>3. AbortsHeld(t) => AbortsHeld(u)
  BY <1>1 DEF AbortsHeld
<1> QED
  BY <1>2, <1>3

\* A phase that only looks at the rules.
LEMMA LookKeeps ==
    ASSUME RoutingInv, router.type = "Assert", NEW failed, NEW next, Handle(failed, next),
           UNCHANGED <<dataVars, now, ruleAt, passing, parts, sinks>>,
           phase \in {"schema", "batch", "sample"}, next \in {"batch", "sample", "rows"},
           next = "batch" \/ \A i \in RulesOf({"min_rows"}) :
                                 Raises(i) => Cardinality(input) >= Rule(i).limit
    PROVE  RoutingInv'
<1>1. PICK t : t = now
  OBVIOUS
<1>2. /\ RoutingTypeOK /\ RulesTell /\ Covered(t) /\ AbortsHeld(t) /\ DOMAIN sinks = {}
      /\ phase # "ports" /\ UNCHANGED dataVars /\ UNCHANGED sinks /\ now' = t
      /\ fired \subseteq fired'
      /\ phase' = "failed" \/ phase' = next
  BY <1>1, HandledAll DEF RoutingInv, WalkedRules, SinksTell
<1>3. RoutingTypeOK'
  BY <1>2 DEF RoutingTypeOK, dataVars, Filter, Compiles
<1>4. CASE phase' = "failed"
  BY <1>2, <1>3, <1>4, AfterFailure
<1>5. CASE phase' = next
  <2>1. (RulesTell /\ Covered(now) /\ AbortsHeld(now))'
    BY <1>2, RulesStay
  <2>2. ~Through' /\ DOMAIN sinks' = {} /\ phase' \notin {"rate", "ports", "failed"}
    BY <1>2, <1>5 DEF Through
  <2>3. RowsEnough'
    <3>1. /\ \A i : Rule(i)' = Rule(i) /\ Raises(i)' = Raises(i)
          /\ RulesOf({"min_rows"})' = RulesOf({"min_rows"})
          /\ input' = input
      BY <1>2, SameData DEF dataVars
    <3> QED
      BY <1>2, <1>5, <2>2, <3>1 DEF RowsEnough
  <2> QED
    BY <1>3, <2>1, <2>2, <2>3 DEF RoutingInv, WalkedRules, RateHeld, FramesTell, SinksTell
<1> QED
  BY <1>2, <1>4, <1>5

LEMMA LooksKeep ==
    ASSUME RoutingInv, router.type = "Assert", CheckSchema \/ CheckBatch \/ CheckSample
    PROVE  RoutingInv'
<1>1. CASE CheckSchema
  <2>1. PICK failed \in SUBSET RulesOf({"schema_match"}) : Handle(failed, "batch")
    BY <1>1 DEF CheckSchema
  <2> QED
    BY <1>1, <2>1, LookKeeps DEF CheckSchema
<1>2. CASE CheckBatch
  <2>1. PICK failed : /\ {i \in RulesOf({"min_rows"}) : Cardinality(input) < Rule(i).limit} \subseteq failed
                      /\ Handle(failed, "sample")
    BY <1>2 DEF CheckBatch
  <2>2. CASE phase' = "failed"
    <3>1. /\ phase # "ports" /\ DOMAIN sinks = {} /\ UNCHANGED sinks
          /\ UNCHANGED <<dataVars, now, ruleAt, passing, parts>> /\ RoutingTypeOK
      BY <1>2 DEF CheckBatch, RoutingInv, SinksTell
    <3>2. RoutingTypeOK'
      BY <2>2, <3>1 DEF RoutingTypeOK, dataVars, Filter, Compiles
    <3> QED
      BY <2>2, <3>1, <3>2, AfterFailure
  <2>3. CASE phase' # "failed"
    <3>1. \A i \in failed : ~Raises(i)
      BY <2>1, <2>3, HandledAll
    <3>2. ASSUME NEW i \in RulesOf({"min_rows"}), Raises(i)
          PROVE  Cardinality(input) >= Rule(i).limit
      <4>1. ~(Cardinality(input) < Rule(i).limit)
        BY <2>1, <3>1, <3>2
      <4>2. RoutingTypeOK /\ i \in DOMAIN router.rules /\ Rule(i).type = "min_rows"
        BY DEF RulesOf, RoutingInv
      <4>3. Rule(i).limit \in Nat
        BY <4>2, RuleTypes
      <4>4. Cardinality(input) \in Nat
        BY <4>2, RouterTypes, FS_CardinalityType
      <4> QED
        BY <4>1, <4>3, <4>4
    <3> QED
      BY <1>2, <2>1, <3>2, LookKeeps DEF CheckBatch
  <2> QED
    BY <2>2, <2>3
<1>3. CASE CheckSample
  <2>1. PICK failed : Handle(failed, "rows")
    BY <1>3 DEF CheckSample
  <2>2. \A i \in RulesOf({"min_rows"}) : Raises(i) => Cardinality(input) >= Rule(i).limit
    BY <1>3 DEF CheckSample, RoutingInv, RowsEnough
  <2> QED
    BY <1>3, <2>1, <2>2, LookKeeps DEF CheckSample
<1> QED
  BY <1>1, <1>2, <1>3

\* Where nothing moves but the phase and the ports.
LEMMA RulesAndRowsStay ==
    ASSUME RoutingInv, UNCHANGED <<dataVars, ruleAt, passing, parts, now>>, fired \subseteq fired'
    PROVE  /\ (RulesTell /\ Covered(now) /\ AbortsHeld(now))
                  => (RulesTell /\ Covered(now) /\ AbortsHeld(now))'
           /\ \A i : Rule(i)' = Rule(i) /\ Raises(i)' = Raises(i)
           /\ \A types : RulesOf(types)' = RulesOf(types)
           /\ AgeMatters' = AgeMatters /\ Quarantined' = Quarantined
           /\ router' = router /\ input' = input /\ Funnelled' = Funnelled /\ Outlets' = Outlets
<1>1. PICK t : t = now /\ t = now'
  OBVIOUS
<1>2. (RulesTell /\ Covered(t) /\ AbortsHeld(t)) => (RulesTell /\ Covered(t) /\ AbortsHeld(t))'
  BY RulesStay
<1>3. /\ \A i : Rule(i)' = Rule(i) /\ Raises(i)' = Raises(i)
      /\ \A types : RulesOf(types)' = RulesOf(types)
      /\ AgeMatters' = AgeMatters
  BY SameData
<1>4. Quarantined' = Quarantined
  BY DEF Quarantined, RowsOf, Value, dataVars
<1>5. router' = router /\ input' = input /\ Funnelled' = Funnelled /\ Outlets' = Outlets
  BY DEF dataVars, Funnelled, Outlets, Ports
<1> QED
  BY <1>1, <1>2, <1>3, <1>4, <1>5

LEMMA RowRulesDoneKeeps ==
    ASSUME RoutingInv, router.type = "Assert", RowRulesDone
    PROVE  RoutingInv'
<1>1. /\ phase = "rows" /\ phase' = "rate" /\ DOMAIN sinks = {} /\ UNCHANGED <<sinks, frames>>
      /\ UNCHANGED <<dataVars, ruleAt, passing, parts, now>> /\ UNCHANGED dataVars
      /\ fired \subseteq fired' /\ ruleAt > Len(router.rules)
  BY DEF RowRulesDone, planVars, RoutingInv, SinksTell
<1>2. ruleAt = Len(router.rules) + 1
  BY <1>1, RouterTypes DEF RoutingInv, RoutingTypeOK
<1>3. RoutingTypeOK'
  BY <1>1 DEF RoutingInv, RoutingTypeOK, dataVars, Filter, Compiles
<1>4. (RulesTell /\ Covered(now) /\ AbortsHeld(now))'
  BY <1>1, RulesAndRowsStay DEF RoutingInv, WalkedRules
<1>5. ~Through' /\ DOMAIN sinks' = {}
  BY <1>1 DEF Through
<1>6. RowsEnough'
  BY <1>1, RulesAndRowsStay DEF RoutingInv, RowsEnough
<1>7. FramesTell'
  BY <1>1, <1>2, <1>5 DEF FramesTell, dataVars
<1> QED
  BY <1>1, <1>3, <1>4, <1>5, <1>6, <1>7 DEF RoutingInv, WalkedRules, RateHeld, SinksTell

LEMMA CheckRateKeeps ==
    ASSUME RoutingInv, router.type = "Assert", CheckRate
    PROVE  RoutingInv'
<1>1. PICK failed :
          /\ failed = {i \in RulesOf({"spillway_rate"}) :
                           Exceeds(Quarantined, Cardinality(input), Rule(i).limit)}
          /\ Handle(failed, "ports")
  BY DEF CheckRate
<1>2. /\ phase = "rate" /\ DOMAIN sinks = {} /\ UNCHANGED sinks
      /\ UNCHANGED <<dataVars, ruleAt, passing, parts, now>> /\ UNCHANGED dataVars
      /\ fired \subseteq fired' /\ RoutingTypeOK /\ ruleAt = Len(router.rules) + 1
      /\ phase' = "failed" \/ (phase' = "ports" /\ \A i \in failed : ~Raises(i))
  BY <1>1, HandledAll DEF CheckRate, RoutingInv, SinksTell, FramesTell
<1>3. RoutingTypeOK'
  BY <1>2 DEF RoutingTypeOK, dataVars, Filter, Compiles
<1>4. CASE phase' = "failed"
  BY <1>2, <1>3, <1>4, AfterFailure
<1>5. CASE phase' = "ports"
  <2>1. (RulesTell /\ Covered(now) /\ AbortsHeld(now))'
    BY <1>2, RulesAndRowsStay DEF RoutingInv, WalkedRules
  <2>2. RowsEnough'
    BY <1>2, RulesAndRowsStay DEF RoutingInv, RowsEnough
  <2>3. RateHeld'
    <3>1. \A i \in RulesOf({"spillway_rate"}) :
              Raises(i) => ~Exceeds(Quarantined, Cardinality(input), Rule(i).limit)
      BY <1>1, <1>2, <1>5
    <3> QED
      BY <1>2, <3>1, RulesAndRowsStay DEF RateHeld, Exceeds
  <2>4. FramesTell'
    <3>1. frames' = IF router.wired /\ parts # <<>>
                    THEN [main |-> <<passing>>, spillway |-> parts]
                    ELSE [main |-> <<passing>>]
      BY <1>5 DEF CheckRate
    <3>2. \/ frames' = [main |-> <<passing>>] /\ (parts = <<>> \/ ~router.wired)
          \/ frames' = [main |-> <<passing>>, spillway |-> parts] /\ router.wired
      BY <3>1
    <3>3. router' = router /\ passing' = passing /\ parts' = parts /\ ruleAt' = ruleAt
      BY <1>2 DEF dataVars
    <3> QED
      BY <1>2, <3>2, <3>3 DEF FramesTell
  <2>5. SinksTell'
    BY <1>2, <1>5 DEF SinksTell
  <2> QED
    BY <1>3, <2>1, <2>2, <2>3, <2>4, <2>5 DEF RoutingInv, WalkedRules
<1> QED
  BY <1>2, <1>4, <1>5

LEMMA SplitsKeep ==
    ASSUME RoutingInv, SplitChannel \/ SplitJunction
    PROVE  RoutingInv'
<1>1. /\ router.type = "Channel" \/ router.type = "Junction"
      /\ router.type = "Channel" => frames' = ChannelFrames
      /\ router.type = "Junction" => frames' = JunctionFrames
      /\ phase = "split" /\ phase' = "ports" /\ DOMAIN sinks = {} /\ sinks' = sinks
      /\ UNCHANGED <<dataVars, ruleAt, passing, parts, now>> /\ UNCHANGED dataVars
  <2>1. CASE SplitChannel
    BY <2>1 DEF SplitChannel, Split, ChannelFrames, RoutingInv, SinksTell
  <2>2. CASE SplitJunction
    BY <2>2 DEF SplitJunction, Split, JunctionFrames, RoutingInv, SinksTell
  <2> QED
    BY <2>1, <2>2
<1>2. ChannelFrames' = ChannelFrames /\ JunctionFrames' = JunctionFrames /\ router' = router
  BY <1>1 DEF dataVars, ChannelFrames, JunctionFrames, Branch
<1>3. RoutingTypeOK'
  BY <1>1 DEF RoutingInv, RoutingTypeOK, dataVars, Filter, Compiles
<1>4. FramesTell'
  BY <1>1, <1>2 DEF FramesTell
<1>5. SinksTell'
  BY <1>1 DEF SinksTell
<1> QED
  BY <1>1, <1>2, <1>3, <1>4, <1>5 DEF RoutingInv, WalkedRules, RowsEnough, RateHeld

\* What the sinks got stays as it is while the data and the ports do.
LEMMA SinkStays ==
    ASSUME RoutingInv, UNCHANGED <<dataVars, planVars>>, now' \in Nat, now <= now',
           NEW s \in DOMAIN sinks, sinks'[s] = sinks[s]
    PROVE  /\ s \in Outlets' /\ sinks'[s].at \in Nat /\ sinks'[s].at <= now'
           /\ ~Funnelled' =>
                 /\ s \in DOMAIN frames'
                 /\ \A r \in Tuples :
                        sinks'[s].copies[r] = CopiesAt(frames[s], r, FreshBy(r, sinks[s].at))'
           /\ Funnelled' => \A r \in Tuples : sinks'[s].copies[r] = Merged(r)'
           /\ router'.type = "Assert" => Covered(sinks[s].at)' /\ AbortsHeld(sinks[s].at)'
<1>1. /\ UNCHANGED dataVars /\ router' = router /\ truth' = truth /\ input' = input
      /\ frames' = frames /\ fired' = fired /\ UNCHANGED <<ruleAt, passing, parts>>
      /\ Outlets' = Outlets /\ Funnelled' = Funnelled /\ Ports' = Ports
      /\ now \in Nat /\ RoutingTypeOK
  BY DEF dataVars, planVars, Outlets, Funnelled, Ports, RoutingInv, RoutingTypeOK
<1>2. PICK t : t = sinks[s].at
  OBVIOUS
<1>3. s \in Outlets /\ sinks'[s].at \in Nat /\ sinks'[s].at <= now'
  <2>1. s \in Outlets /\ t \in Nat /\ t <= now
    BY <1>2 DEF RoutingInv, SinksTell
  <2> QED
    BY <1>1, <1>2, <2>1
<1>4. ASSUME ~Funnelled
      PROVE  /\ s \in DOMAIN frames
             /\ \A r \in Tuples :
                    sinks'[s].copies[r] = CopiesAt(frames[s], r, FreshBy(r, sinks[s].at))'
  <2>1. /\ s \in DOMAIN frames
        /\ \A r \in Tuples : sinks[s].copies[r] = CopiesAt(frames[s], r, FreshBy(r, t))
    BY <1>2, <1>4 DEF RoutingInv, SinksTell
  <2>2. \A r : CopiesAt(frames[s], r, FreshBy(r, sinks[s].at))' = CopiesAt(frames[s], r, FreshBy(r, t))
    BY <1>1, <1>2 DEF CopiesAt, Keeps, Met, FreshBy, dataVars
  <2> QED
    BY <2>1, <2>2
<1>5. ASSUME Funnelled, NEW r \in Tuples
      PROVE  sinks'[s].copies[r] = Merged(r)'
  <2>1. frames = JunctionFrames /\ router.type = "Junction" /\ Ports = DOMAIN router.branches
    BY <1>5 DEF Funnelled, Ports, RoutingInv, FramesTell, Through
  <2>2. ASSUME NEW b \in Ports
        PROVE  Copies(frames[b], r)' = Copies(frames[b], r)
    <3>1. frames[b] = <<Branch(b)>>
      BY <2>1 DEF JunctionFrames
    <3>2. \A f \in Branch(b) : f.cond \in router.conditions
      <4>1. router.conditions = Range(router.branches) \ {"_else_"}
        BY <1>1, <2>1, RouterTypes
      <4>2. router.branches[b] \in Range(router.branches)
        BY <2>1 DEF Range
      <4> QED
        BY <4>1, <4>2 DEF Branch, Is
    <3>3. \A f \in Branch(b) : Value(f.cond, r)' = Value(f.cond, r)
      <4>1. Fresh \notin router.conditions
        BY <1>1, <2>1, RouterTypes
      <4> QED
        BY <1>1, <3>2, <4>1 DEF Value
    <3>4. (r \in RowsOf(Branch(b)))' <=> r \in RowsOf(Branch(b))
      <4>1. Branch(b)' = Branch(b)
        BY <1>1 DEF Branch
      <4> QED
        BY <1>1, <3>3, <4>1 DEF RowsOf
    <3>5. /\ DOMAIN frames[b] = {1} /\ frames[b][1] = Branch(b)
          /\ frames'[b] = frames[b] /\ Branch(b)' = Branch(b)
      BY <1>1, <3>1 DEF Branch
    <3> QED
      BY <3>4, <3>5 DEF Copies
  <2>3. Merged(r)' = Merged(r)
    BY <1>1, <2>2 DEF Merged
  <2> QED
    BY <1>5, <2>3 DEF RoutingInv, SinksTell
<1>6. router.type = "Assert" => Covered(sinks[s].at)' /\ AbortsHeld(sinks[s].at)'
  <2>1. router.type = "Assert" => Covered(t) /\ AbortsHeld(t)
    BY <1>2 DEF RoutingInv, SinksTell
  <2>2. /\ Covered(t) => Covered(t)'
        /\ AbortsHeld(t) => AbortsHeld(t)'
    BY <1>1, RulesStay
  <2>3. sinks'[s].at = t
    BY <1>2
  <2> QED
    BY <2>1, <2>2, <2>3
<1> QED
  BY <1>1, <1>3, <1>4, <1>5, <1>6

\* Nothing of the rest depends on more than these.
LEMMA PlanStays ==
    ASSUME RoutingInv, UNCHANGED <<dataVars, planVars>>, now' \in Nat, now <= now',
           phase' = phase \/ phase' = "failed",
           phase = "ports" \/ DOMAIN sinks' = DOMAIN sinks,
           phase' \in {"ports", "failed"} \/ DOMAIN sinks' = {},
           DOMAIN sinks \subseteq DOMAIN sinks'
    PROVE  /\ RoutingTypeOK' /\ WalkedRules' /\ RowsEnough' /\ RateHeld' /\ FramesTell'
<1>1. /\ UNCHANGED dataVars /\ router' = router /\ input' = input /\ frames' = frames
      /\ UNCHANGED <<ruleAt, passing, parts>> /\ fired \subseteq fired'
      /\ RoutingTypeOK /\ now \in Nat
  BY DEF dataVars, planVars, RoutingInv, RoutingTypeOK
<1>2. Through' => Through
  BY DEF Through
<1>3. RoutingTypeOK'
  BY <1>1 DEF RoutingTypeOK, dataVars, planVars, Filter, Compiles
<1>4. /\ \A i : Rule(i)' = Rule(i) /\ Raises(i)' = Raises(i)
      /\ \A types : RulesOf(types)' = RulesOf(types)
      /\ AgeMatters' = AgeMatters
  BY <1>1, SameData
<1>5. WalkedRules'
  <2>1. PICK t \in Nat, u \in Nat : t = now /\ u = now'
    BY <1>1
  <2>2. (RulesTell /\ Covered(t) /\ AbortsHeld(t)) => (RulesTell' /\ Covered(u)' /\ AbortsHeld(u)')
    <3>1. /\ RulesTell => RulesTell'
          /\ Covered(u) => Covered(u)'
          /\ AbortsHeld(u) => AbortsHeld(u)'
      BY <1>1, RulesStay
    <3>2. (Covered(t) => Covered(u)) /\ (AbortsHeld(t) => AbortsHeld(u))
      BY <1>1, <2>1, LaterToo
    <3> QED
      BY <3>1, <3>2
  <2>3. (RulesTell /\ Covered(now) /\ AbortsHeld(now)) => (RulesTell /\ Covered(now) /\ AbortsHeld(now))'
    BY <2>1, <2>2
  <2> QED
    BY <1>1, <1>2, <2>3 DEF RoutingInv, WalkedRules
<1>6. RowsEnough'
  BY <1>1, <1>2, <1>4 DEF RoutingInv, RowsEnough
<1>7. RateHeld'
  <2> SUFFICES ASSUME router.type = "Assert", Through', ~AgeMatters
               PROVE  RateHeld'
    BY <1>1, <1>4 DEF RateHeld
  <2>1. PartsAgeless
    BY <1>2 DEF RoutingInv, WalkedRules, RulesTell
  <2>2. ASSUME NEW j \in DOMAIN parts, NEW r \in input, NEW x \in BOOLEAN, NEW y \in BOOLEAN
        PROVE  Keeps(parts[j], r, x) <=> Keeps(parts[j], r, y)
    <3>1. Keeps(parts[j], r, TRUE) <=> Keeps(parts[j], r, FALSE)
      BY <2>1 DEF PartsAgeless
    <3>2. (x = TRUE \/ x = FALSE) /\ (y = TRUE \/ y = FALSE)
      OBVIOUS
    <3> QED
      BY <3>1, <3>2
  <2>3. Quarantined' = Quarantined
    <3>1. PICK u : u = now'
      OBVIOUS
    <3> DEFINE seenAt(t) == {p \in (DOMAIN parts) \X input : Keeps(parts[p[1]], p[2], FreshBy(p[2], t))}
    <3>2. \A r : FreshBy(r, now) \in BOOLEAN /\ FreshBy(r, u) \in BOOLEAN
      BY DEF FreshBy
    <3>3. seenAt(now) = seenAt(u)
      <4>1. ASSUME NEW p \in (DOMAIN parts) \X input
            PROVE  Keeps(parts[p[1]], p[2], FreshBy(p[2], now))
                       <=> Keeps(parts[p[1]], p[2], FreshBy(p[2], u))
        <5>1. p[1] \in DOMAIN parts /\ p[2] \in input
          OBVIOUS
        <5> QED
          BY <2>2, <3>2, <5>1
      <4> QED
        BY <4>1
    <3>4. Quarantined = Cardinality(seenAt(now))
      <4>1. ASSUME NEW p \in (DOMAIN parts) \X input
            PROVE  p[2] \in RowsOf(parts[p[1]]) <=> Keeps(parts[p[1]], p[2], FreshBy(p[2], now))
        BY RowsOfFrame
      <4>2. {p \in (DOMAIN parts) \X input : p[2] \in RowsOf(parts[p[1]])} = seenAt(now)
        BY <4>1
      <4> QED
        BY <4>2 DEF Quarantined
    <3>5. Quarantined' = Cardinality(seenAt(u))
      <4>1. ASSUME NEW p \in (DOMAIN parts) \X input
            PROVE  (p[2] \in RowsOf(parts[p[1]]))' <=> Keeps(parts[p[1]], p[2], FreshBy(p[2], u))
        BY <1>1, <3>1 DEF RowsOf, Keeps, Met, Value, FreshBy, dataVars
      <4>2. {p \in (DOMAIN parts) \X input : p[2] \in RowsOf(parts[p[1]])}' = seenAt(u)
        BY <1>1, <4>1
      <4> QED
        BY <4>2 DEF Quarantined
    <3> QED
      BY <3>3, <3>4, <3>5
  <2> QED
    BY <1>1, <1>2, <1>4, <2>3 DEF RoutingInv, RateHeld, Exceeds
<1>8. FramesTell'
  <2>1. ChannelFrames' = ChannelFrames /\ JunctionFrames' = JunctionFrames
    BY <1>1 DEF ChannelFrames, JunctionFrames, Branch
  <2> QED
    BY <1>1, <1>2, <2>1 DEF RoutingInv, FramesTell
<1> QED
  BY <1>3, <1>5, <1>6, <1>7, <1>8

LEMMA WriteKeeps ==
    ASSUME RoutingInv, NEW s, s \in Outlets, Write(s)
    PROVE  RoutingInv'
<1>1. /\ phase = "ports" /\ phase' = "ports" /\ now' = now /\ now \in Nat
      /\ UNCHANGED <<dataVars, planVars>> /\ UNCHANGED dataVars
      /\ DOMAIN sinks' = DOMAIN sinks \cup {s} /\ s \notin DOMAIN sinks
      /\ \A q \in DOMAIN sinks : sinks'[q] = sinks[q]
      /\ sinks'[s].at = now
      /\ \A r \in Tuples : sinks'[s].copies[r] = IF Funnelled THEN Merged(r) ELSE Copies(frames[s], r)
      /\ Funnelled \/ s \in DOMAIN frames
      /\ frames' = frames /\ router' = router
  BY DEF Write, dataVars, planVars, RoutingInv, RoutingTypeOK
<1>2. RoutingTypeOK' /\ WalkedRules' /\ RowsEnough' /\ RateHeld' /\ FramesTell'
  BY <1>1, PlanStays
<1>3. SinksTell'
  <2> SUFFICES ASSUME NEW q \in DOMAIN sinks'
               PROVE  /\ q \in Outlets' /\ sinks'[q].at \in Nat /\ sinks'[q].at <= now'
                      /\ ~Funnelled' =>
                            /\ q \in DOMAIN frames'
                            /\ \A r \in Tuples :
                                   sinks'[q].copies[r] = CopiesAt(frames[q], r, FreshBy(r, sinks[q].at))'
                      /\ Funnelled' => \A r \in Tuples : sinks'[q].copies[r] = Merged(r)'
                      /\ router'.type = "Assert" => Covered(sinks[q].at)' /\ AbortsHeld(sinks[q].at)'
    BY <1>1 DEF SinksTell
  <2>1. CASE q \in DOMAIN sinks
    BY <1>1, <2>1, SinkStays
  <2>2. CASE q = s
    <3>1. q \in Outlets' /\ Funnelled' = Funnelled /\ \A r : Merged(r)' = Merged(r)
      BY <1>1, <2>2 DEF Outlets, Ports, Funnelled, Merged, Copies, RowsOf, Value, dataVars
    <3>2. \A r : Copies(frames[s], r) = CopiesAt(frames[s], r, FreshBy(r, now))
      BY RowsOfFrame
    <3>3. \A r : CopiesAt(frames[q], r, FreshBy(r, sinks[q].at))' = CopiesAt(frames[s], r, FreshBy(r, now))
      BY <1>1, <2>2 DEF CopiesAt, Keeps, Met, FreshBy, dataVars
    <3>4. router'.type = "Assert" => Covered(sinks[q].at)' /\ AbortsHeld(sinks[q].at)'
      <4>1. router'.type = "Assert" => Covered(now)' /\ AbortsHeld(now)'
        BY <1>1, <1>2 DEF WalkedRules, Through
      <4>2. sinks'[q].at = now'
        BY <1>1, <2>2
      <4> QED
        BY <4>1, <4>2
    <3> QED
      BY <1>1, <2>2, <3>1, <3>2, <3>3, <3>4
  <2> QED
    BY <1>1, <2>1, <2>2
<1> QED
  BY <1>2, <1>3 DEF RoutingInv

\* Steps that leave the data, the rules, the ports and the sinks.
LEMMA IdleKeeps ==
    ASSUME RoutingInv, UNCHANGED <<dataVars, planVars, sinks>>, now' \in Nat, now <= now',
           phase' = phase \/ (phase = "ports" /\ phase' = "failed")
    PROVE  RoutingInv'
<1>1. /\ sinks' = sinks /\ UNCHANGED <<dataVars, planVars>>
      /\ DOMAIN sinks # {} => phase' \in {"ports", "failed"}
  BY DEF RoutingInv, SinksTell
<1>2. RoutingTypeOK' /\ WalkedRules' /\ RowsEnough' /\ RateHeld' /\ FramesTell'
  BY <1>1, PlanStays
<1>3. SinksTell'
  <2> SUFFICES ASSUME NEW q \in DOMAIN sinks
               PROVE  /\ q \in Outlets' /\ sinks'[q].at \in Nat /\ sinks'[q].at <= now'
                      /\ ~Funnelled' =>
                            /\ q \in DOMAIN frames'
                            /\ \A r \in Tuples :
                                   sinks'[q].copies[r] = CopiesAt(frames[q], r, FreshBy(r, sinks[q].at))'
                      /\ Funnelled' => \A r \in Tuples : sinks'[q].copies[r] = Merged(r)'
                      /\ router'.type = "Assert" => Covered(sinks[q].at)' /\ AbortsHeld(sinks[q].at)'
    BY <1>1 DEF SinksTell
  <2> QED
    BY <1>1, SinkStays
<1> QED
  BY <1>2, <1>3 DEF RoutingInv

LEMMA RoutingStart == ASSUME RoutingInit PROVE RoutingInv
<1>1. /\ DOMAIN sinks = {} /\ ~Through /\ phase \in {"schema", "split"}
      /\ router.type = "Assert" <=> phase = "schema"
      /\ ruleAt = 1 /\ passing = {} /\ parts = <<>> /\ now = 1
  BY DEF RoutingInit, Through
<1>2. router \in Routers /\ Compiles(router) /\ input \in SUBSET Tuples
  BY DEF RoutingInit
<1>3. /\ truth \in [router.conditions \ {Fresh} -> [Tuples -> Conditions]]
      /\ freshUntil \in [Tuples -> Nat]
  <2>1. 0..LastTime \subseteq Nat /\ {0} \subseteq Nat
    BY RoutingAssumption
  <2> QED
    BY <2>1 DEF RoutingInit, Conditions
<1>4. router.type = "Assert" => Len(router.rules) \in Nat
  <2>1. router.type = "Assert" => router.rules \in Seq(Range(router.rules))
    BY <1>2, RoutingAssumption
  <2> QED
    BY <2>1
<1>5. RoutingTypeOK
  BY <1>1, <1>2, <1>3, <1>4 DEF RoutingTypeOK, Filter
<1>6. RulesTell /\ Covered(now) /\ AbortsHeld(now)
  <2>1. PassingTells /\ Covered(now) /\ AbortsHeld(now)
    BY <1>1 DEF PassingTells, Keeps, Passes, Covered, AbortsHeld
  <2>2. PartsApart /\ PartsComplete /\ PartsAgeless
    BY <1>1 DEF PartsApart, PartsComplete, PartsAgeless
  <2> QED
    BY <2>1, <2>2 DEF RulesTell
<1>7. RowsEnough /\ RateHeld /\ FramesTell /\ SinksTell
  BY <1>1 DEF RowsEnough, RateHeld, FramesTell, SinksTell
<1> QED
  BY <1>5, <1>6, <1>7 DEF RoutingInv, WalkedRules

LEMMA RoutingStep == ASSUME RoutingInv, [RoutingNext]_routingVars PROVE RoutingInv'
<1>1. router.type \in {"Assert", "Channel", "Junction"} /\ now \in Nat
  BY RouterTypes DEF RoutingInv, RoutingTypeOK
<1>2. phase \in {"schema", "batch", "sample", "rows", "rate"} => router.type = "Assert"
  BY DEF RoutingInv, RoutingTypeOK
<1>3. CASE CheckSchema \/ CheckBatch \/ CheckSample
  <2>1. router.type = "Assert"
    BY <1>2, <1>3 DEF CheckSchema, CheckBatch, CheckSample
  <2> QED
    BY <1>3, <2>1, LooksKeep
<1>4. CASE SqlRow
  BY <1>2, <1>4, SqlRowKeeps DEF SqlRow, AtRule
<1>5. CASE Custom
  BY <1>2, <1>5, CustomKeeps DEF Custom, AtRule
<1>6. CASE FreshRow
  BY <1>2, <1>6, FreshRowKeeps DEF FreshRow, AtRule
<1>7. CASE NoRowRule
  BY <1>2, <1>7, NoRowRuleKeeps DEF NoRowRule
<1>8. CASE RowRulesDone
  BY <1>2, <1>8, RowRulesDoneKeeps DEF RowRulesDone
<1>9. CASE CheckRate
  BY <1>2, <1>9, CheckRateKeeps DEF CheckRate
<1>10. CASE SplitChannel \/ SplitJunction
  BY <1>10, SplitsKeep
<1>11. ASSUME NEW s \in Outlets, Write(s)
       PROVE  RoutingInv'
  BY <1>11, WriteKeeps
<1>12. ASSUME NEW s \in Outlets, Starved(s)
       PROVE  RoutingInv'
  BY <1>1, <1>12, IdleKeeps DEF Starved
<1>13. CASE Tick
  BY <1>1, <1>13, IdleKeeps DEF Tick
<1>14. CASE UNCHANGED routingVars
  BY <1>1, <1>14, IdleKeeps DEF routingVars
<1> QED
  BY <1>3, <1>4, <1>5, <1>6, <1>7, <1>8, <1>9, <1>10, <1>11, <1>12, <1>13, <1>14 DEF RoutingNext

\* The invariant holds for any rows, any rules and any number of ports.
THEOREM RoutingInvariant == RoutingSpec => []RoutingInv
BY RoutingStart, RoutingStep, PTL DEF RoutingSpec

-----------------------------------------------------------------------------
(* What the invariant says of the sinks.                                    *)

LEMMA OneFrame ==
    ASSUME NEW frame, NEW r, NEW fresh
    PROVE  CopiesAt(<<frame>>, r, fresh) = IF r \in input /\ Keeps(frame, r, fresh) THEN 1 ELSE 0
<1>1. DOMAIN <<frame>> = {1} /\ <<frame>>[1] = frame
  OBVIOUS
<1>2. CASE r \in input /\ Keeps(frame, r, fresh)
  <2>1. {i \in DOMAIN <<frame>> : r \in input /\ Keeps(<<frame>>[i], r, fresh)} = {1}
    BY <1>1, <1>2
  <2> QED
    BY <1>2, <2>1, FS_Singleton DEF CopiesAt
<1>3. CASE ~(r \in input /\ Keeps(frame, r, fresh))
  <2>1. {i \in DOMAIN <<frame>> : r \in input /\ Keeps(<<frame>>[i], r, fresh)} = {}
    BY <1>1, <1>3
  <2> QED
    BY <1>3, <2>1, FS_EmptySet DEF CopiesAt
<1> QED
  BY <1>2, <1>3

\* Of an Assert whose sinks have run.
LEMMA AssertSinks ==
    ASSUME RoutingInv, router.type = "Assert", NEW s, Filled(s)
    PROVE  /\ RoutingTypeOK /\ RulesTell /\ Through /\ ruleAt = Len(router.rules) + 1
           /\ s \in Outlets /\ Outlets = Ports
           /\ Covered(sinks[s].at) /\ AbortsHeld(sinks[s].at)
           /\ \A r : FreshAt(s, r) = FreshBy(r, sinks[s].at) /\ FreshAt(s, r) \in BOOLEAN
           /\ \A r \in input : s = "main" =>
                  Got(s, r) = IF Keeps(passing, r, FreshAt(s, r)) THEN 1 ELSE 0
           /\ \A r \in input : s = "spillway" =>
                  router.wired /\ Got(s, r) = CopiesAt(parts, r, FreshAt(s, r))
           /\ s = "main" \/ s = "spillway"
<1>1. /\ RoutingTypeOK /\ RulesTell /\ Through /\ ruleAt = Len(router.rules) + 1
      /\ s \in Outlets /\ ~Funnelled
      /\ Covered(sinks[s].at) /\ AbortsHeld(sinks[s].at)
  BY DEF RoutingInv, Filled, Through, WalkedRules, FramesTell, SinksTell, Funnelled
<1>2. \A r : FreshAt(s, r) = FreshBy(r, sinks[s].at) /\ FreshAt(s, r) \in BOOLEAN
  BY DEF FreshAt, FreshBy
<1>3. Outlets = Ports /\ (s = "main" \/ s = "spillway")
  BY <1>1 DEF Outlets, Ports
<1>4. ASSUME NEW r \in input
      PROVE  s \in DOMAIN frames /\ Got(s, r) = CopiesAt(frames[s], r, FreshAt(s, r))
  <2>1. r \in Tuples
    BY <1>1, RouterTypes
  <2> QED
    BY <1>1, <1>2, <2>1 DEF RoutingInv, SinksTell, Filled, Got
<1>5. /\ "main" # "spillway"
      /\ \/ frames = [main |-> <<passing>>]
         \/ frames = [main |-> <<passing>>, spillway |-> parts] /\ router.wired
  BY <1>1 DEF RoutingInv, FramesTell
<1>6. ASSUME NEW r \in input, s = "main"
      PROVE  Got(s, r) = IF Keeps(passing, r, FreshAt(s, r)) THEN 1 ELSE 0
  <2>1. frames[s] = <<passing>>
    BY <1>5, <1>6
  <2> QED
    BY <1>4, <2>1, OneFrame
<1>7. ASSUME NEW r \in input, s = "spillway"
      PROVE  router.wired /\ Got(s, r) = CopiesAt(parts, r, FreshAt(s, r))
  <2>1. frames[s] = parts /\ router.wired
    BY <1>4, <1>5, <1>7
  <2> QED
    BY <1>4, <2>1
<1> QED
  BY <1>1, <1>2, <1>3, <1>6, <1>7

LEMMA AssertPasses == ASSUME RoutingInv PROVE PassedTheRules
<1> SUFFICES ASSUME router.type = "Assert", Filled("main")
             PROVE  PassedTheRules
  BY DEF PassedTheRules
<1>1. /\ RoutingTypeOK /\ RulesTell /\ Through /\ ruleAt = Len(router.rules) + 1
      /\ AbortsHeld(sinks["main"].at)
      /\ \A r : FreshAt("main", r) = FreshBy(r, sinks["main"].at) /\ FreshAt("main", r) \in BOOLEAN
      /\ \A r \in input : Got("main", r) = IF Keeps(passing, r, FreshAt("main", r)) THEN 1 ELSE 0
  BY AssertSinks
<1>2. DOMAIN router.rules = 1..(ruleAt - 1) /\ Len(router.rules) \in Nat
  BY <1>1, RouterTypes
<1>3. ASSUME NEW r \in input, Got("main", r) > 0
      PROVE  /\ Got("main", r) = 1
             /\ \A i \in RulesOf({"sql_row"}) : truth[Rule(i).cond][r] = "true"
             /\ \A i \in RulesOf({"freshness"}) :
                    Action(Rule(i)) = "quarantine" => FreshAt("main", r)
  <2>1. PICK fresh \in BOOLEAN : fresh = FreshAt("main", r)
    BY <1>1
  <2>2. Keeps(passing, r, fresh) /\ Got("main", r) = 1
    BY <1>1, <1>3, <2>1
  <2>3. Passes(ruleAt, r, fresh)
    BY <1>1, <2>2 DEF RulesTell, PassingTells
  <2>4. \A i \in DOMAIN router.rules : Passed(i, r, fresh)
    BY <1>2, <2>3 DEF Passes
  <2> QED
    BY <2>1, <2>2, <2>4 DEF Passed, Ageing, RulesOf
<1>4. ASSUME NEW i \in RulesOf({"sql_row"}), Raises(i), NEW r \in input,
             truth[Rule(i).cond][r] = "false"
      PROVE  \E j \in RulesOf({"sql_row", "freshness"}) :
                 /\ j < i
                 /\ IF Rule(j).type = "sql_row" THEN truth[Rule(j).cond][r] # "true"
                    ELSE Action(Rule(j)) = "quarantine" /\ ~FreshAt("main", r)
  <2>1. i \in 1..(ruleAt - 1) /\ Rule(i).type = "sql_row"
    BY <1>2 DEF RulesOf
  <2>2. PICK j \in 1..(i - 1) :
            \/ Rule(j).type = "sql_row" /\ truth[Rule(j).cond][r] # "true"
            \/ Ageing(j) /\ ~FreshBy(r, sinks["main"].at)
    BY <1>1, <1>4, <2>1 DEF AbortsHeld
  <2>3. j \in DOMAIN router.rules /\ j < i
    BY <1>1, <1>2, <2>1
  <2> QED
    BY <1>1, <2>2, <2>3 DEF RulesOf, Ageing
<1>5. \A i \in RulesOf({"min_rows"}) : Raises(i) => Cardinality(input) >= Rule(i).limit
  BY <1>1 DEF RoutingInv, RowsEnough
<1> QED
  BY <1>3, <1>4, <1>5 DEF PassedTheRules

LEMMA AssertSpills == ASSUME RoutingInv PROVE SpilledWithinRate
<1> DEFINE got == UNION {{r} \X (1..Got("spillway", r)) : r \in input}
           seen == {p \in (DOMAIN parts) \X input : p[2] \in RowsOf(parts[p[1]])}
           of(r) == {j \in DOMAIN parts : r \in RowsOf(parts[j])}
<1> SUFFICES ASSUME router.type = "Assert", Filled("spillway"),
                    NEW i \in RulesOf({"spillway_rate"}), Raises(i),
                    \A j \in RulesOf({"freshness"}) : Action(Rule(j)) # "quarantine"
             PROVE  ~Exceeds(Cardinality(got), Cardinality(input), Rule(i).limit)
  BY DEF SpilledWithinRate
<1>1. /\ RoutingTypeOK /\ PartsAgeless /\ Through /\ ~AgeMatters
      /\ \A r \in input : Got("spillway", r) = CopiesAt(parts, r, FreshAt("spillway", r))
      /\ \A r : FreshAt("spillway", r) \in BOOLEAN
      /\ parts \in Seq(SUBSET Filter)
  BY AssertSinks DEF RulesTell, AgeMatters, RoutingTypeOK
<1>2. ~Exceeds(Quarantined, Cardinality(input), Rule(i).limit) /\ Quarantined = Cardinality(seen)
  BY <1>1 DEF RoutingInv, RateHeld, Quarantined
<1>3. ASSUME NEW r \in input
      PROVE  /\ IsFiniteSet(of(r)) /\ of(r) \subseteq DOMAIN parts
             /\ Got("spillway", r) = Cardinality(of(r))
             /\ Got("spillway", r) \in Nat
  <2>1. FreshBy(r, now) \in BOOLEAN
    BY DEF FreshBy
  <2>2. PICK fresh \in BOOLEAN : fresh = FreshBy(r, now)
    BY <2>1
  <2>3. PICK shown \in BOOLEAN : shown = FreshAt("spillway", r)
    BY <1>1
  <2>4. \A j \in DOMAIN parts : Keeps(parts[j], r, fresh) <=> Keeps(parts[j], r, shown)
    <3>1. \A j \in DOMAIN parts : Keeps(parts[j], r, TRUE) <=> Keeps(parts[j], r, FALSE)
      BY <1>1 DEF PartsAgeless
    <3>2. (fresh = TRUE \/ fresh = FALSE) /\ (shown = TRUE \/ shown = FALSE)
      OBVIOUS
    <3> QED
      BY <3>1, <3>2
  <2>5. \A j : r \in RowsOf(parts[j]) <=> Keeps(parts[j], r, fresh)
    BY <2>2, RowsOfFrame
  <2>6. of(r) = {j \in DOMAIN parts : r \in input /\ Keeps(parts[j], r, shown)}
    BY <2>4, <2>5
  <2>7. Got("spillway", r) = Cardinality(of(r))
    BY <1>1, <2>3, <2>6 DEF CopiesAt
  <2>8. IsFiniteSet(DOMAIN parts) /\ of(r) \subseteq DOMAIN parts
    BY <1>1, FS_Interval
  <2>9. IsFiniteSet(of(r))
    BY <2>8, FS_Subset
  <2> HIDE DEF of
  <2> QED
    BY <2>7, <2>8, <2>9, FS_CardinalityType
<1>4. ASSUME NEW r \in input
      PROVE  \E h : h \in Bijection(1..Got("spillway", r), of(r))
  <2> HIDE DEF of
  <2> QED
    BY <1>3, FS_CardinalityType DEF ExistsBijection
<1>5. IsFiniteSet(seen)
  <2>1. IsFiniteSet(DOMAIN parts) /\ IsFiniteSet(input)
    BY <1>1, FS_Interval, RouterTypes
  <2>2. IsFiniteSet((DOMAIN parts) \X input)
    BY <2>1, FS_Product
  <2>3. seen \subseteq (DOMAIN parts) \X input
    OBVIOUS
  <2> HIDE DEF seen
  <2> QED
    BY <2>2, <2>3, FS_Subset
\* A copy in the sink is one of the parts that the rule counted.
<1> DEFINE part == [r \in input |-> CHOOSE h : h \in Bijection(1..Got("spillway", r), of(r))]
           counted == [p \in got |-> <<part[p[1]][p[2]], p[1]>>]
<1>6. ASSUME NEW r \in input
      PROVE  /\ part[r] \in [1..Got("spillway", r) -> of(r)]
             /\ \A a, b \in 1..Got("spillway", r) : part[r][a] = part[r][b] => a = b
  <2>1. PICK h : h = part[r]
    OBVIOUS
  <2>2. h \in Bijection(1..Got("spillway", r), of(r))
    <3> HIDE DEF of
    <3> QED
      BY <1>4, <2>1
  <2> HIDE DEF of, part
  <2>3. h \in [1..Got("spillway", r) -> of(r)] /\ IsInjective(h)
    BY <2>2 DEF Bijection, Injection
  <2> QED
    BY <2>1, <2>3 DEF IsInjective
<1>7. \A p \in got : p[1] \in input /\ p[2] \in 1..Got("spillway", p[1]) /\ p = <<p[1], p[2]>>
  OBVIOUS
<1> HIDE DEF part, got
<1>8. counted \in Injection(got, seen)
  <2>1. ASSUME NEW p \in got
        PROVE  counted[p] \in seen
    <3>1. PICK r \in input : p[1] = r /\ p[2] \in 1..Got("spillway", r)
      BY <1>7
    <3>2. part[r][p[2]] \in of(r)
      <4> HIDE DEF of
      <4> QED
        BY <1>6, <3>1
    <3>3. part[r][p[2]] \in DOMAIN parts /\ r \in RowsOf(parts[part[r][p[2]]])
      BY <3>2
    <3> QED
      BY <3>1, <3>3
  <2>2. ASSUME NEW p \in got, NEW q \in got, counted[p] = counted[q]
        PROVE  p = q
    <3>1. p[1] = q[1] /\ part[p[1]][p[2]] = part[q[1]][q[2]]
      BY <2>2
    <3>2. p[2] = q[2]
      BY <1>6, <1>7, <3>1
    <3> QED
      BY <1>7, <3>1, <3>2
  <2>3. counted \in [got -> seen] /\ DOMAIN counted = got
    BY <2>1
  <2> HIDE DEF counted, seen
  <2> QED
    BY <2>2, <2>3 DEF Injection, IsInjective
<1> HIDE DEF counted, seen
<1>9. IsFiniteSet(got) /\ Cardinality(got) <= Cardinality(seen)
  BY <1>5, <1>8, FS_Injection
<1>10. Cardinality(got) \in Nat /\ Cardinality(seen) \in Nat
  BY <1>5, <1>9, FS_CardinalityType
<1>11. Cardinality(input) \in Nat /\ Rule(i).limit \in Nat
  <2>1. i \in DOMAIN router.rules /\ Rule(i).type = "spillway_rate"
    BY DEF RulesOf
  <2> QED
    BY <1>1, <2>1, RuleTypes, RouterTypes, FS_CardinalityType
<1>12. PICK most \in Nat : most = Rule(i).limit * Cardinality(input)
  BY <1>11
<1>13. 100 * Cardinality(got) <= most
  BY <1>2, <1>9, <1>10, <1>12 DEF Exceeds
<1> QED
  BY <1>10, <1>12, <1>13 DEF Exceeds

\* Copies, told by how many each sink has.
LEMMA CopiesInSinks ==
    ASSUME NEW S, NEW got \in [S -> Nat]
    PROVE  LET all == UNION {{s} \X (1..got[s]) : s \in S}
           IN  /\ all = {} => \A s \in S : got[s] = 0
               /\ Cardinality(all) > 1 =>
                      \/ \E s \in S : got[s] > 1
                      \/ \E s, t \in S : s # t /\ got[s] > 0 /\ got[t] > 0
<1> DEFINE all == UNION {{s} \X (1..got[s]) : s \in S}
<1>1. ASSUME NEW s \in S, got[s] # 0
      PROVE  all # {}
  <2>1. 1 \in 1..got[s]
    BY <1>1
  <2>2. <<s, 1>> \in {s} \X (1..got[s])
    BY <2>1
  <2> QED
    BY <2>2
<1>2. ASSUME \A s \in S : ~(got[s] > 1), \A s, t \in S : (got[s] > 0 /\ got[t] > 0) => s = t
      PROVE  Cardinality(all) \in {0, 1}
  <2>1. ASSUME NEW p \in all
        PROVE  \E s \in S : p = <<s, 1>> /\ got[s] > 0
    <3>1. PICK s \in S : p \in {s} \X (1..got[s])
      OBVIOUS
    <3>2. got[s] = 1 \/ got[s] = 0
      BY <1>2
    <3> QED
      BY <3>1, <3>2
  <2>2. CASE all = {}
    <3> HIDE DEF all
    <3> QED
      BY <2>2, FS_EmptySet
  <2>3. CASE all # {}
    <3>1. PICK p : p \in all
      BY <2>3
    <3>2. \A q \in all : q = p
      BY <1>2, <2>1, <3>1
    <3>3. all = {p}
      BY <3>1, <3>2
    <3> HIDE DEF all
    <3> QED
      BY <3>3, FS_Singleton
  <2> QED
    BY <2>2, <2>3
<1> QED
  <2>1. all = {} => \A s \in S : got[s] = 0
    BY <1>1
  <2>2. ASSUME ~\E s \in S : got[s] > 1, ~\E s, t \in S : s # t /\ got[s] > 0 /\ got[t] > 0
        PROVE  ~(Cardinality(all) > 1)
    <3> HIDE DEF all
    <3>1. Cardinality(all) \in {0, 1}
      BY <1>2, <2>2
    <3> QED
      BY <3>1
  <2> HIDE DEF all
  <2>3. /\ all = {} => \A s \in S : got[s] = 0
        /\ Cardinality(all) > 1 =>
               \/ \E s \in S : got[s] > 1
               \/ \E s, t \in S : s # t /\ got[s] > 0 /\ got[t] > 0
    BY <2>1, <2>2
  <2> QED
    BY <2>3 DEF all

\* What there is to show of a row when every sink has run.
Accounted(r) ==
    /\ \A s \in Outlets : Got(s, r) \in Nat
    /\ (\A s \in Outlets : Got(s, r) = 0) => MayBeLost(r)
    /\ \A s \in Outlets : Got(s, r) > 1 => MayBeTwice(r)
    /\ \A s, t \in Outlets : (s # t /\ Got(s, r) > 0 /\ Got(t, r) > 0) => MayBeTwice(r)

\* A row that does not pass was dropped for a reason, or is in a part.
LEMMA NotPassing ==
    ASSUME RoutingInv, router.type = "Assert", Filled("main"), NEW r \in input,
           NEW fresh \in BOOLEAN, fresh => FreshAt("main", r), ~Passes(ruleAt, r, fresh)
    PROVE  \/ MayBeLost(r)
           \/ router.wired /\ \E j \in DOMAIN parts : Keeps(parts[j], r, fresh)
<1>1. /\ RoutingTypeOK /\ PartsComplete /\ Covered(sinks["main"].at)
      /\ ruleAt = Len(router.rules) + 1
      /\ fresh => FreshBy(r, sinks["main"].at)
  BY AssertSinks DEF RulesTell
<1>2. PICK i \in 1..(ruleAt - 1) : Dropped(i, r, fresh)
  BY <1>1 DEF Covered
<1>3. i \in DOMAIN router.rules
  BY <1>1, RouterTypes
<1>4. ASSUME /\ Rule(i).type = "sql_row"
             /\ \/ truth[Rule(i).cond][r] = "null"
                \/ /\ truth[Rule(i).cond][r] = "false"
                   /\ IF PlainQuarantine(Rule(i)) THEN ~router.wired ELSE i \in fired
      PROVE  MayBeLost(r)
  <2>1. \E j \in RulesOf({"sql_row"}) :
                    \/ truth[Rule(j).cond][r] = "null"
                    \/ /\ truth[Rule(j).cond][r] = "false"
                       /\ IF PlainQuarantine(Rule(j)) THEN ~router.wired ELSE j \in fired
    BY <1>3, <1>4 DEF RulesOf
  <2> QED
    BY <2>1 DEF MayBeLost
<1>5. CASE Parting(i) /\ Fails(i, r, fresh)
  <2>1. CASE router.wired
    <3>1. \E j \in DOMAIN parts : Keeps(parts[j], r, fresh)
      BY <1>1, <1>5 DEF PartsComplete
    <3> QED
      BY <2>1, <3>1
  <2>2. CASE ~router.wired
    <3>1. ~Ageing(i)
      BY <1>1, <1>3, <2>2, RuleTypes
    <3>2. /\ Rule(i).type = "sql_row" /\ PlainQuarantine(Rule(i))
          /\ truth[Rule(i).cond][r] = "false"
      BY <1>5, <3>1 DEF Parting, Fails
    <3> QED
      BY <1>4, <2>2, <3>2
  <2> QED
    BY <2>1, <2>2
<1> QED
  BY <1>2, <1>4, <1>5 DEF Dropped

LEMMA AssertAccounts ==
    ASSUME RoutingInv, router.type = "Assert", DOMAIN sinks = Outlets, NEW r \in input
    PROVE  Accounted(r)
<1>1. /\ Outlets = IF router.wired THEN {"main", "spillway"} ELSE {"main"}
      /\ Filled("main") /\ "main" # "spillway"
      /\ router.wired => Filled("spillway")
  BY DEF Outlets, Funnelled, Ports, Filled
<1>2. /\ RoutingTypeOK /\ PassingTells /\ PartsApart /\ PartsAgeless
      /\ parts \in Seq(SUBSET Filter)
  BY <1>1, AssertSinks DEF RulesTell, RoutingTypeOK
<1>3. PICK atMain \in BOOLEAN : /\ atMain = FreshAt("main", r)
                                /\ Got("main", r) = IF Passes(ruleAt, r, atMain) THEN 1 ELSE 0
  <2>1. /\ FreshAt("main", r) \in BOOLEAN
        /\ Got("main", r) = IF Keeps(passing, r, FreshAt("main", r)) THEN 1 ELSE 0
    BY <1>1, AssertSinks
  <2>2. PICK fresh \in BOOLEAN : fresh = FreshAt("main", r)
    BY <2>1
  <2>3. Got("main", r) = IF Passes(ruleAt, r, fresh) THEN 1 ELSE 0
    BY <1>2, <2>1, <2>2 DEF PassingTells
  <2> QED
    BY <2>2, <2>3
<1>4. \A i \in Nat : Passes(i, r, FALSE) => Passes(i, r, TRUE)
  BY DEF Passes, Passed
<1>5. ruleAt \in Nat /\ (atMain = TRUE \/ atMain = FALSE)
  BY <1>1, <1>2 DEF RoutingTypeOK
<1>6. MayBeLost(r) <=>
          \/ \E i \in RulesOf({"sql_row"}) :
                 \/ truth[Rule(i).cond][r] = "null"
                 \/ /\ truth[Rule(i).cond][r] = "false"
                    /\ IF PlainQuarantine(Rule(i)) THEN ~router.wired ELSE i \in fired
          \/ AgeMatters /\ ~FreshAt("main", r) /\ FreshAt("spillway", r)
  BY DEF MayBeLost, AgeMatters
<1>7. MayBeTwice(r) <=>
          \/ Named(r)
          \/ AgeMatters /\ FreshAt("main", r) /\ ~FreshAt("spillway", r)
  BY DEF MayBeTwice, AgeMatters, Named
<1>8. CASE ~router.wired
  <2>1. Outlets = {"main"}
    BY <1>1, <1>8
  <2>2. Got("main", r) = 0 => MayBeLost(r)
    <3>1. Got("main", r) = 0 => ~Passes(ruleAt, r, atMain)
      BY <1>3
    <3> QED
      BY <1>1, <1>3, <1>8, <3>1, NotPassing
  <2> QED
    BY <1>3, <2>1, <2>2 DEF Accounted
<1>9. CASE router.wired
  <2>1. Outlets = {"main", "spillway"}
    BY <1>1, <1>9
  <2>2. PICK atSpillway \in BOOLEAN : /\ atSpillway = FreshAt("spillway", r)
                                      /\ Got("spillway", r) = CopiesAt(parts, r, atSpillway)
    <3>1. /\ FreshAt("spillway", r) \in BOOLEAN
          /\ Got("spillway", r) = CopiesAt(parts, r, FreshAt("spillway", r))
      BY <1>1, <1>9, AssertSinks
    <3>2. PICK fresh \in BOOLEAN : fresh = FreshAt("spillway", r)
      BY <3>1
    <3> QED
      BY <3>1, <3>2
  <2>3. /\ Got("spillway", r) \in Nat
        /\ Got("spillway", r) > 0 => \E j \in DOMAIN parts : Keeps(parts[j], r, atSpillway)
        /\ \A j \in DOMAIN parts : Keeps(parts[j], r, atSpillway) => Got("spillway", r) > 0
        /\ Got("spillway", r) > 1 =>
               \E i, j \in DOMAIN parts :
                   i # j /\ Keeps(parts[i], r, atSpillway) /\ Keeps(parts[j], r, atSpillway)
    BY <1>2, <2>2, CountedCopies
  <2>4. atSpillway = TRUE \/ atSpillway = FALSE
    OBVIOUS
  <2>5. ~AgeMatters => \A j \in DOMAIN parts : Keeps(parts[j], r, TRUE) <=> Keeps(parts[j], r, FALSE)
    BY <1>2 DEF PartsAgeless
  <2>6. ASSUME Got("main", r) = 0, Got("spillway", r) = 0
        PROVE  MayBeLost(r)
    <3>1. ~Passes(ruleAt, r, atMain) /\ \A j \in DOMAIN parts : ~Keeps(parts[j], r, atSpillway)
      BY <1>3, <2>3, <2>6
    <3>2. ~Passes(ruleAt, r, FALSE)
      BY <1>4, <1>5, <3>1
    <3>3. MayBeLost(r) \/ \E j \in DOMAIN parts : Keeps(parts[j], r, FALSE)
      BY <1>1, <3>2, NotPassing
    <3>4. CASE atSpillway = FALSE
      BY <3>1, <3>3, <3>4
    <3>5. CASE atSpillway = TRUE /\ atMain = TRUE
      <4>1. MayBeLost(r) \/ \E j \in DOMAIN parts : Keeps(parts[j], r, TRUE)
        BY <1>1, <1>3, <3>1, <3>5, NotPassing
      <4> QED
        BY <3>1, <3>5, <4>1
    <3>6. CASE atSpillway = TRUE /\ atMain = FALSE
      <4>1. CASE AgeMatters
        BY <1>3, <1>6, <2>2, <3>6, <4>1
      <4>2. CASE ~AgeMatters
        BY <2>5, <3>1, <3>3, <3>6, <4>2
      <4> QED
        BY <4>1, <4>2
    <3> QED
      BY <1>5, <2>4, <3>4, <3>5, <3>6
  <2>7. ASSUME Got("spillway", r) > 1
        PROVE  MayBeTwice(r)
    <3>1. PICK i, j \in DOMAIN parts :
              i # j /\ Keeps(parts[i], r, atSpillway) /\ Keeps(parts[j], r, atSpillway)
      BY <2>3, <2>7
    <3>2. Named(r)
      BY <1>2, <3>1 DEF PartsApart
    <3> QED
      BY <1>7, <3>2
  <2>8. ASSUME Got("main", r) > 0, Got("spillway", r) > 0
        PROVE  MayBeTwice(r)
    <3>1. Passes(ruleAt, r, atMain)
      BY <1>3, <2>8
    <3>2. PICK j \in DOMAIN parts : Keeps(parts[j], r, atSpillway)
      BY <2>3, <2>8
    <3>3. \A fresh \in BOOLEAN : Keeps(parts[j], r, fresh) => Named(r) \/ ~Passes(ruleAt, r, fresh)
      BY <1>2 DEF PartsApart
    <3>4. CASE Named(r)
      BY <1>7, <3>4
    <3>5. CASE ~Named(r) /\ atMain = atSpillway
      BY <3>1, <3>2, <3>3, <3>5
    <3>6. CASE ~Named(r) /\ atMain = TRUE /\ atSpillway = FALSE
      <4>1. CASE AgeMatters
        BY <1>3, <1>7, <2>2, <3>6, <4>1
      <4>2. CASE ~AgeMatters
        <5>1. Keeps(parts[j], r, TRUE)
          BY <2>5, <3>2, <3>6, <4>2
        <5>2. ~Passes(ruleAt, r, TRUE)
          BY <3>3, <3>6, <5>1
        <5> QED
          BY <3>1, <3>6, <5>2
      <4> QED
        BY <4>1, <4>2
    <3>7. CASE ~Named(r) /\ atMain = FALSE /\ atSpillway = TRUE
      <4>1. Passes(ruleAt, r, TRUE)
        BY <1>4, <1>5, <3>1, <3>7
      <4> QED
        BY <3>2, <3>3, <3>7, <4>1
    <3> QED
      BY <1>5, <2>4, <3>4, <3>5, <3>6, <3>7
  <2>9. Got("main", r) \in {0, 1}
    BY <1>3
  <2> QED
    BY <2>1, <2>3, <2>6, <2>7, <2>8, <2>9 DEF Accounted
<1> QED
  BY <1>8, <1>9

LEMMA ChannelAccounts ==
    ASSUME RoutingInv, router.type = "Channel", DOMAIN sinks = Outlets, NEW r \in input
    PROVE  Accounted(r)
<1>1. /\ Outlets = IF router.wired THEN {"main", "spillway"} ELSE {"main"}
      /\ ~Funnelled /\ "main" # "spillway" /\ DOMAIN sinks # {}
  BY DEF Outlets, Funnelled, Ports
<1>2. RoutingTypeOK /\ frames = ChannelFrames
  BY <1>1 DEF RoutingInv, FramesTell, Through
<1>3. /\ router.wired \in BOOLEAN /\ Fresh \notin router.conditions
      /\ \A c, d \in router.conditions : c = d
      /\ r \in Tuples
  BY <1>2, RouterTypes
<1>4. ASSUME NEW s \in Outlets
      PROVE  Got(s, r) = CopiesAt(frames[s], r, FreshBy(r, sinks[s].at))
  BY <1>1, <1>3 DEF RoutingInv, SinksTell, Got, Filled
<1>5. ASSUME NEW c \in router.conditions, NEW value, NEW fresh
      PROVE  Keeps({Is(d, value) : d \in router.conditions}, r, fresh) <=> truth[c][r] = value
  <2>1. {Is(d, value) : d \in router.conditions} = {Is(c, value)}
    BY <1>3
  <2>2. Met(Is(c, value), r, fresh) <=> truth[c][r] = value
    BY <1>3 DEF Met, Is
  <2> QED
    BY <2>1, <2>2 DEF Keeps
<1>6. MayBeLost(r) <=> (router.wired /\ \E c \in router.conditions : truth[c][r] = "null")
  BY DEF MayBeLost
<1>7. CASE ~router.wired
  <2>1. frames["main"] = <<{}>> /\ Outlets = {"main"}
    BY <1>1, <1>2, <1>7 DEF ChannelFrames
  <2>2. Got("main", r) = 1
    <3>1. \A fresh : Keeps({}, r, fresh)
      BY DEF Keeps
    <3> QED
      BY <1>4, <2>1, <3>1, OneFrame
  <2> QED
    BY <2>1, <2>2 DEF Accounted
<1>8. CASE router.wired /\ router.conditions = {}
  <2>1. /\ frames["main"] = <<{}>> /\ frames["spillway"] = <<>>
        /\ Outlets = {"main", "spillway"}
    BY <1>1, <1>2, <1>8 DEF ChannelFrames
  <2>2. Got("main", r) = 1
    <3>1. \A fresh : Keeps({}, r, fresh)
      BY DEF Keeps
    <3> QED
      BY <1>4, <2>1, <3>1, OneFrame
  <2>3. Got("spillway", r) = 0
    <3>1. \A fresh : CopiesAt(<<>>, r, fresh) = 0
      <4>1. \A fresh : {i \in DOMAIN <<>> : r \in input /\ Keeps(<<>>[i], r, fresh)} = {}
        OBVIOUS
      <4> QED
        BY <4>1, FS_EmptySet DEF CopiesAt
    <3> QED
      BY <1>4, <2>1, <3>1
  <2> QED
    BY <2>1, <2>2, <2>3 DEF Accounted
<1>9. CASE router.wired /\ router.conditions # {}
  <2>1. /\ frames["main"] = <<{Is(c, "false") : c \in router.conditions}>>
        /\ frames["spillway"] = <<{Is(c, "true") : c \in router.conditions}>>
        /\ Outlets = {"main", "spillway"}
    BY <1>1, <1>2, <1>9 DEF ChannelFrames
  <2>2. PICK c \in router.conditions : TRUE
    BY <1>9
  <2>3. Got("main", r) = IF truth[c][r] = "false" THEN 1 ELSE 0
    <3>1. \A fresh : CopiesAt(frames["main"], r, fresh) = IF truth[c][r] = "false" THEN 1 ELSE 0
      BY <1>5, <2>1, OneFrame
    <3> QED
      BY <1>4, <2>1, <3>1
  <2>4. Got("spillway", r) = IF truth[c][r] = "true" THEN 1 ELSE 0
    <3>1. \A fresh : CopiesAt(frames["spillway"], r, fresh) = IF truth[c][r] = "true" THEN 1 ELSE 0
      BY <1>5, <2>1, OneFrame
    <3> QED
      BY <1>4, <2>1, <3>1
  <2>5. truth[c][r] \in {"true", "false", "null"}
    BY <1>2, <1>3, <2>2 DEF RoutingTypeOK, Conditions
  <2>6. "true" # "false"
    OBVIOUS
  <2> QED
    BY <1>6, <1>9, <2>1, <2>2, <2>3, <2>4, <2>5, <2>6 DEF Accounted
<1> QED
  BY <1>3, <1>7, <1>8, <1>9

\* The rows that a branch takes.
Takes(b, r) ==
    \/ router.mode = "broadcast"
    \/ router.branches[b] # "_else_" /\ truth[router.branches[b]][r] = "true"
    \/ router.branches[b] = "_else_" /\ \A c \in router.conditions : truth[c][r] = "false"

LEMMA BranchTakes ==
    ASSUME RoutingInv, router.type = "Junction", NEW r \in input, NEW b \in DOMAIN router.branches,
           NEW fresh
    PROVE  /\ router.branches[b] # "_else_" => router.branches[b] \in router.conditions
           /\ CopiesAt(JunctionFrames[b], r, fresh) = IF Takes(b, r) THEN 1 ELSE 0
<1>1. RoutingTypeOK
  BY DEF RoutingInv
<1>2. /\ router.conditions = Range(router.branches) \ {"_else_"} /\ Fresh \notin router.conditions
  BY <1>1, RouterTypes
<1>3. router.branches[b] # "_else_" => router.branches[b] \in router.conditions
  BY <1>2 DEF Range
<1>4. JunctionFrames[b] = <<Branch(b)>>
  BY DEF JunctionFrames
<1>5. CASE router.mode = "broadcast"
  <2>1. Branch(b) = {}
    BY <1>5 DEF Branch
  <2> QED
    BY <1>3, <1>4, <1>5, <2>1, OneFrame DEF Keeps, Takes
<1>6. CASE router.mode # "broadcast" /\ router.branches[b] # "_else_"
  <2>1. Branch(b) = {Is(router.branches[b], "true")}
    BY <1>6 DEF Branch
  <2>2. Keeps(Branch(b), r, fresh) <=> truth[router.branches[b]][r] = "true"
    BY <1>2, <1>3, <1>6, <2>1 DEF Keeps, Met, Is
  <2> QED
    BY <1>3, <1>4, <1>6, <2>2, OneFrame DEF Takes
<1>7. CASE router.mode # "broadcast" /\ router.branches[b] = "_else_"
  <2>1. Branch(b) = {Is(c, "false") : c \in router.conditions}
    BY <1>7 DEF Branch
  <2>2. Keeps(Branch(b), r, fresh) <=> \A c \in router.conditions : truth[c][r] = "false"
    <3>1. \A c \in router.conditions : Met(Is(c, "false"), r, fresh) <=> truth[c][r] = "false"
      BY <1>2 DEF Met, Is
    <3> QED
      BY <2>1, <3>1 DEF Keeps
  <2> QED
    BY <1>3, <1>4, <1>7, <2>2, OneFrame DEF Takes
<1> QED
  BY <1>5, <1>6, <1>7

\* Why a row is in no branch, and why it is in two.
LEMMA BranchesAccount ==
    ASSUME RoutingInv, router.type = "Junction", NEW r \in input
    PROVE  /\ (\A b \in DOMAIN router.branches : ~Takes(b, r)) => MayBeLost(r)
           /\ \A b, d \in DOMAIN router.branches :
                  (b # d /\ Takes(b, r) /\ Takes(d, r) /\ router.funnel # "union") => MayBeTwice(r)
<1>1. /\ RoutingTypeOK /\ Ports = DOMAIN router.branches /\ r \in Tuples
      /\ router.conditions = Range(router.branches) \ {"_else_"} /\ Fresh \notin router.conditions
      /\ Len(router.branches) >= 1 /\ DOMAIN router.branches = 1..Len(router.branches)
  BY RouterTypes DEF RoutingInv, Ports
<1>2. \A c \in router.conditions : truth[c][r] \in {"true", "false", "null"}
  BY <1>1 DEF RoutingTypeOK, Conditions
<1>3. ASSUME \A b \in DOMAIN router.branches : ~Takes(b, r)
      PROVE  MayBeLost(r)
  <2>1. router.mode # "broadcast"
    BY <1>1, <1>3 DEF Takes
  <2>2. \A c \in router.conditions : truth[c][r] # "true"
    BY <1>1, <1>3 DEF Takes, Range
  <2>3. (\E b \in Ports : router.branches[b] = "_else_") =>
            \E c \in router.conditions : truth[c][r] = "null"
    BY <1>1, <1>2, <1>3, <2>2 DEF Takes
  <2> QED
    BY <2>1, <2>2, <2>3 DEF MayBeLost
<1>4. ASSUME NEW b \in DOMAIN router.branches, NEW d \in DOMAIN router.branches,
             b # d, Takes(b, r), Takes(d, r), router.funnel # "union"
      PROVE  MayBeTwice(r)
  <2>1. /\ router.branches[b] # "_else_" => router.branches[b] \in router.conditions
        /\ router.branches[d] # "_else_" => router.branches[d] \in router.conditions
    BY <1>1 DEF Range
  <2>2. \/ router.mode = "broadcast"
        \/ /\ router.branches[b] # "_else_" /\ truth[router.branches[b]][r] = "true"
           /\ router.branches[d] # "_else_" /\ truth[router.branches[d]][r] = "true"
        \/ router.branches[b] = "_else_" /\ router.branches[d] = "_else_"
    BY <1>4, <2>1 DEF Takes
  <2>3. \/ router.mode = "broadcast"
        \/ \E x, y \in Ports : x # y /\
               \/ \A z \in {x, y} : /\ router.branches[z] # "_else_"
                                    /\ truth[router.branches[z]][r] = "true"
               \/ \A z \in {x, y} : router.branches[z] = "_else_"
    BY <1>1, <1>4, <2>2
  <2> QED
    BY <1>4, <2>3 DEF MayBeTwice
<1> QED
  BY <1>3, <1>4

LEMMA JunctionAccounts ==
    ASSUME RoutingInv, router.type = "Junction", DOMAIN sinks = Outlets, NEW r \in input
    PROVE  Accounted(r)
<1>1. /\ RoutingTypeOK /\ Ports = DOMAIN router.branches /\ r \in Tuples
      /\ Len(router.branches) >= 1 /\ DOMAIN router.branches = 1..Len(router.branches)
      /\ Len(router.branches) \in Nat
  BY RouterTypes DEF RoutingInv, Ports
<1>2. Outlets # {} /\ DOMAIN sinks # {}
  BY <1>1 DEF Outlets
<1>3. frames = JunctionFrames
  BY <1>2 DEF RoutingInv, FramesTell, Through
<1>4. \A b \in Ports : \A fresh : CopiesAt(frames[b], r, fresh) = IF Takes(b, r) THEN 1 ELSE 0
  BY <1>1, <1>3, BranchTakes
<1>5. CASE ~Funnelled
  <2>1. router.funnel # "union" /\ Outlets = Ports
    BY <1>5 DEF Funnelled, Outlets
  <2>2. ASSUME NEW s \in Outlets
        PROVE  Got(s, r) = IF Takes(s, r) THEN 1 ELSE 0
    <3>1. Got(s, r) = CopiesAt(frames[s], r, FreshBy(r, sinks[s].at))
      BY <1>1, <1>5 DEF RoutingInv, SinksTell, Got, Filled
    <3> QED
      BY <1>4, <2>1, <3>1
  <2> QED
    BY <1>1, <2>1, <2>2, BranchesAccount DEF Accounted
<1>6. CASE Funnelled
  <2>1. Outlets = {0}
    BY <1>6 DEF Outlets
  <2> DEFINE T == {b \in Ports : Takes(b, r)}
  <2>2. IsFiniteSet(T)
    <3>1. IsFiniteSet(Ports) /\ T \subseteq Ports
      BY <1>1, FS_Interval
    <3> HIDE DEF T
    <3> QED
      BY <3>1, FS_Subset
  <2>3. Got(0, r) = IF router.funnel = "union" /\ Cardinality(T) > 1 THEN 1 ELSE Cardinality(T)
    <3>1. Got(0, r) = Merged(r)
      BY <1>1, <1>6, <2>1 DEF RoutingInv, SinksTell, Got, Filled
    <3>2. \A b \in Ports : Copies(frames[b], r) > 0 <=> Takes(b, r)
      BY <1>4, RowsOfFrame
    <3>3. {b \in Ports : Copies(frames[b], r) > 0} = T
      BY <3>2
    <3> QED
      BY <3>1, <3>3 DEF Merged
  <2>4. Cardinality(T) \in Nat /\ (Cardinality(T) = 0 => T = {})
    <3> HIDE DEF T
    <3> QED
      BY <2>2, FS_CardinalityType, FS_EmptySet
  <2>5. Cardinality(T) > 1 => \E b, d \in T : b # d
    <3> HIDE DEF T
    <3>1. T = {} => Cardinality(T) = 0
      BY FS_EmptySet
    <3>2. \A b : T = {b} => Cardinality(T) = 1
      BY FS_Singleton
    <3> QED
      BY <3>1, <3>2
  <2>6. Got(0, r) = 0 => MayBeLost(r)
    <3>1. Got(0, r) = 0 => T = {}
      BY <2>3, <2>4
    <3> QED
      BY <1>1, <3>1, BranchesAccount
  <2>7. Got(0, r) > 1 => MayBeTwice(r)
    <3>1. Got(0, r) > 1 => router.funnel # "union" /\ \E b, d \in T : b # d
      BY <2>3, <2>5
    <3> QED
      BY <1>1, <3>1, BranchesAccount
  <2>8. Got(0, r) \in Nat
    BY <2>3, <2>4
  <2> QED
    BY <2>1, <2>6, <2>7, <2>8 DEF Accounted
<1> QED
  BY <1>5, <1>6

LEMMA RowsAccounted == ASSUME RoutingInv PROVE RowsAccountedFor
<1> SUFFICES ASSUME DOMAIN sinks = Outlets, NEW r \in input
             PROVE  LET all == UNION {{s} \X (1..Got(s, r)) : s \in Outlets}
                    IN  /\ all = {} => MayBeLost(r)
                        /\ Cardinality(all) > 1 => MayBeTwice(r)
  BY DEF RowsAccountedFor
<1>1. Accounted(r)
  <2>1. router.type \in {"Assert", "Channel", "Junction"}
    BY RouterTypes DEF RoutingInv
  <2> QED
    BY <2>1, AssertAccounts, ChannelAccounts, JunctionAccounts
<1> DEFINE got == [s \in Outlets |-> Got(s, r)]
<1>2. got \in [Outlets -> Nat] /\ \A s \in Outlets : got[s] = Got(s, r)
  BY <1>1 DEF Accounted
<1>3. UNION {{s} \X (1..got[s]) : s \in Outlets} = UNION {{s} \X (1..Got(s, r)) : s \in Outlets}
  BY <1>2
<1> HIDE DEF got
<1>4. LET all == UNION {{s} \X (1..got[s]) : s \in Outlets}
      IN  /\ all = {} => \A s \in Outlets : got[s] = 0
          /\ Cardinality(all) > 1 =>
                 \/ \E s \in Outlets : got[s] > 1
                 \/ \E s, t \in Outlets : s # t /\ got[s] > 0 /\ got[t] > 0
  BY <1>2, CopiesInSinks
<1> QED
  BY <1>1, <1>2, <1>3, <1>4 DEF Accounted

\* RowsRouted, for any rows, any rules and any sinks' times: what gets through an
\* Assert has passed its rules, the spillway stays within a rate that aborts, and every
\* row is in exactly one sink but for the reasons that are named.
THEOREM RowsAreRouted == RoutingSpec => []RowsRouted
<1>1. RoutingInv => RowsRouted
  BY AssertPasses, AssertSpills, RowsAccounted DEF RowsRouted, AssertKeepsRules
<1> QED
  BY <1>1, RoutingInvariant, PTL

=============================================================================
