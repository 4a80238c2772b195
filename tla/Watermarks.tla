----------------------------- MODULE Watermarks -----------------------------
(***************************************************************************)
(* An incremental Channel (executor/spark/executor.py): a run reads only   *)
(* the rows above the watermark an earlier run left, and the sinks below   *)
(* the Channel move the watermark up from what they have written.  Writing *)
(* a sink, marking it done, and storing the watermark in its sidecar file  *)
(* and in the depot are separate steps, and a run may die between any two, *)
(* be resumed from its checkpoints, or simply be followed by the next one. *)
(*                                                                         *)
(* Rows are numbered in the order of their watermark column and arrive in  *)
(* that order; 0 is the sentinel of a first run.  Sinks append, as the     *)
(* documents ask for with incremental Channels; an append is all or        *)
(* nothing.  A run sees the rows that were there when its Channel ran.     *)
(* Checkpoints are on.                                                     *)
(***************************************************************************)
EXTENDS Naturals, Sequences, Functions

CONSTANTS
    Sinks,          \* Egress modules below the Channel, in execution order
    LastRow,        \* rows that ever arrive
    MaxRuns,        \* runs and resumes
    MaxIncidents    \* what may go wrong or be repeated

ASSUME WatermarkAssumption ==
    /\ LastRow \in Nat /\ MaxRuns \in Nat /\ MaxIncidents \in Nat
    /\ Sinks \in Seq(Range(Sinks)) /\ IsInjective(Sinks)

VARIABLES
    arrived,    \* rows 1 .. arrived are in the source
    copies,     \* sink -> row -> how often it was appended
    sidecar,    \* watermarks/<blueprint>__<channel>.json, 0 if there is none
    depot,      \* the Channel's key in the depot, 0 if there is none
    at,         \* idle; or what the run does next (Places)
    batch,      \* the Channel's frame: the rows from, to
    todo,       \* sinks the run has still to visit
    owing,      \* _pending_watermarks: sinks that will move the watermark
    new,        \* the watermark just computed
    saved,      \* checkpoints of the last run: has the Channel a frame, the frame, sinks done
    runs, incidents

wmVars == <<arrived, copies, sidecar, depot, at, batch, todo, owing, new, saved, runs, incidents>>

Rows == 1..LastRow
Places == {"idle", "read", "write", "mark", "compute", "sidecar", "depot"}
NoFrame == [from |-> 1, to |-> 0]
NothingSaved == [channel |-> FALSE, frame |-> NoFrame, done |-> {}]

WmInit ==
    /\ arrived = 0 /\ copies = [s \in Range(Sinks) |-> [r \in Rows |-> 0]]
    /\ sidecar = 0 /\ depot = 0
    /\ at = "idle" /\ batch = NoFrame /\ todo = <<>> /\ owing = {} /\ new = 0
    /\ saved = NothingSaved /\ runs = 0 /\ incidents = 0

\* The sidecar first, the depot if there is none, then the sentinel.
Watermark == IF sidecar # 0 THEN sidecar ELSE depot

RowArrives ==
    /\ arrived < LastRow /\ arrived' = arrived + 1
    /\ UNCHANGED <<copies, sidecar, depot, at, batch, todo, owing, new, saved, runs, incidents>>

Incident == incidents < MaxIncidents /\ incidents' = incidents + 1

StartRun ==
    /\ at = "idle" /\ runs < MaxRuns /\ runs' = runs + 1
    /\ at' = "read" /\ saved' = NothingSaved
    /\ UNCHANGED <<arrived, copies, sidecar, depot, batch, todo, owing, new, incidents>>

\* Mutant: the Channel moves the watermark before anything is written.
ReadChannelAdvances ==
    /\ at = "read"
    /\ batch' = [from |-> Watermark + 1, to |-> arrived]
    /\ todo' = Sinks /\ owing' = Range(Sinks) /\ sidecar' = arrived
    /\ saved' = [channel |-> TRUE, frame |-> batch', done |-> {}]
    /\ at' = "write"
    /\ UNCHANGED <<arrived, copies, depot, new, runs, incidents>>

\* The Channel's query with the watermark in it; every sink below is put down in
\* _pending_watermarks, then the Channel is checkpointed.
ReadChannel ==
    /\ at = "read"
    /\ batch' = [from |-> Watermark + 1, to |-> arrived]
    /\ todo' = Sinks /\ owing' = Range(Sinks)
    /\ saved' = [channel |-> TRUE, frame |-> batch', done |-> {}]
    /\ at' = "write"
    /\ UNCHANGED <<arrived, copies, sidecar, depot, new, runs, incidents>>

\* Resume reloads the Channel from its checkpoint, so nothing is put down in
\* _pending_watermarks.  A run that died before its Channel was done starts over.
Resume ==
    /\ at = "idle" /\ runs > 0 /\ runs < MaxRuns /\ runs' = runs + 1
    /\ Incident
    /\ IF saved.channel
       THEN at' = "write" /\ batch' = saved.frame /\ owing' = {} /\ todo' = Sinks
       ELSE at' = "read" /\ UNCHANGED <<batch, owing, todo>>
    /\ UNCHANGED <<arrived, copies, sidecar, depot, new, saved>>

RunEnds ==
    /\ at' = "idle" /\ todo' = <<>> /\ owing' = {} /\ batch' = NoFrame /\ new' = 0

ChannelFails ==
    /\ at = "read" /\ RunEnds
    /\ UNCHANGED <<arrived, copies, sidecar, depot, saved, runs, incidents>>

AtSink == at = "write" /\ todo # <<>>
Marked == Head(todo) \in saved.done
NextSink == todo' = Tail(todo) /\ at' = "write"

\* A resumed run passes over the sinks that are marked.
SkipMarked ==
    /\ AtSink /\ Marked /\ NextSink
    /\ UNCHANGED <<arrived, copies, sidecar, depot, batch, owing, new, saved, runs, incidents>>

WriteEgress ==
    /\ AtSink /\ ~Marked
    /\ copies' = [copies EXCEPT ![Head(todo)] =
                      [r \in Rows |-> IF r \in batch.from..batch.to THEN @[r] + 1 ELSE @[r]]]
    /\ at' = "mark"
    /\ UNCHANGED <<arrived, sidecar, depot, batch, todo, owing, new, saved, runs, incidents>>

\* The write fails for good: the run ends, or under alert_only goes on.
WriteFails ==
    /\ AtSink /\ ~Marked
    /\ \/ RunEnds
       \/ todo' = Tail(todo) /\ UNCHANGED <<at, batch, owing, new>>
    /\ UNCHANGED <<arrived, copies, sidecar, depot, saved, runs, incidents>>

MarkDone ==
    /\ at = "mark"
    /\ saved' = [saved EXCEPT !.done = @ \cup {Head(todo)}]
    /\ IF Head(todo) \in owing THEN at' = "compute" /\ UNCHANGED todo ELSE NextSink
    /\ UNCHANGED <<arrived, copies, sidecar, depot, batch, owing, new, runs, incidents>>

Written(s) == {r \in Rows : copies[s][r] > 0}

\* Mutant: the smallest value of the column.
ComputedMin(s) == CHOOSE r \in Written(s) : \A q \in Written(s) : r <= q

\* _compute_watermark_from_output: MAX of the column over all the sink holds.
Computed(s) == CHOOSE r \in Written(s) : \A q \in Written(s) : q <= r

\* No value, because the sink is empty or (an incident) the query failed: the
\* watermark stays.
ComputeWatermark ==
    /\ at = "compute" /\ owing' = owing \ {Head(todo)}
    /\ \/ /\ Written(Head(todo)) # {} /\ new' = Computed(Head(todo)) /\ at' = "sidecar"
          /\ UNCHANGED <<todo, incidents>>
       \/ Written(Head(todo)) = {} /\ NextSink /\ UNCHANGED <<new, incidents>>
       \/ Written(Head(todo)) # {} /\ Incident /\ NextSink /\ UNCHANGED new
    /\ UNCHANGED <<arrived, copies, sidecar, depot, batch, saved, runs>>

WriteSidecar ==
    /\ at = "sidecar" /\ sidecar' = new /\ at' = "depot"
    /\ UNCHANGED <<arrived, copies, depot, batch, todo, owing, new, saved, runs, incidents>>

PutDepot ==
    /\ at = "depot" /\ depot' = new /\ NextSink
    /\ UNCHANGED <<arrived, copies, sidecar, batch, owing, new, saved, runs, incidents>>

Finish ==
    /\ at = "write" /\ todo = <<>> /\ RunEnds
    /\ UNCHANGED <<arrived, copies, sidecar, depot, saved, runs, incidents>>

Killed ==
    /\ at # "idle" /\ Incident /\ RunEnds
    /\ UNCHANGED <<arrived, copies, sidecar, depot, saved, runs>>

\* The local store was cleared, the depot is kept elsewhere.
SidecarLost ==
    /\ at = "idle" /\ sidecar # 0 /\ sidecar' = 0 /\ Incident
    /\ UNCHANGED <<arrived, copies, depot, at, batch, todo, owing, new, saved, runs>>

WmNext ==
    \/ RowArrives \/ StartRun \/ Resume \/ ReadChannel \/ ChannelFails
    \/ SkipMarked \/ WriteEgress \/ WriteFails \/ MarkDone \/ ComputeWatermark \/ WriteSidecar \/ PutDepot
    \/ Finish \/ Killed \/ SidecarLost

WmSpec == WmInit /\ [][WmNext]_wmVars

-----------------------------------------------------------------------------
(* Properties.                                                             *)

\* Between runs the watermark never covers a row a sink has not got: "Watermark is
\* not advanced if the Channel or Egress fails" (docs/archive/SPECS-1.1.0.md:348).
\* With two sinks below one Channel it is violated: the first one moves the
\* watermark, the second one fails, and the next run does not read its rows.
NothingSkipped ==
    at = "idle" => \A s \in Range(Sinks), r \in Rows : r <= Watermark => copies[s][r] > 0

\* A row gets to a sink twice only for a reason, and once per reason: a run that
\* died, a resume (which never moves the watermark), a watermark that could not be
\* computed or was lost.
DuplicatesPaidFor == \A s \in Range(Sinks), r \in Rows : copies[s][r] <= 1 + incidents

\* The two halves of what an incremental Channel owes its one sink: with a watermark
\* too high it loses rows, with one too low it repeats them.
WatermarkInStep == NothingSkipped /\ DuplicatesPaidFor
=============================================================================
