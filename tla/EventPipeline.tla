--------------------------- MODULE EventPipeline ---------------------------
(***************************************************************************)
(* Funnel events on their way to a report: Collect puts an event on the    *)
(* Redis stream, or in a local buffer, or drops it; the ingest loop of a   *)
(* worker reads the stream in batches, stores them and acknowledges; the   *)
(* roller recomputes the buckets that have closed and moves its cursor, and *)
(* drops the partitions of raw events past their retention.                *)
(*                                                                         *)
(* An entry is an event id with the bucket its occurred_at falls into: the *)
(* two that the unique index of analytics.events compares.  Of the stream  *)
(* only the entries that were not read are kept: no loop reads one again.  *)
(***************************************************************************)
EXTENDS Integers, FiniteSets, Sequences

CONSTANTS
    Workers,    \* worker processes
    Events,     \* event ids
    Skewed,     \* events whose reporter's clock is implausible
    Last,       \* bound: the last bucket an event falls into
    Width,      \* BucketWidth, in clock units
    Lag,        \* closedBucketLag, in clock units
    MaxCatchUp, \* how many buckets one pass rebuilds
    Retention,  \* RAW_EVENT_RETENTION_DAYS, in clock units
    StreamMax,  \* EVENT_STREAM_MAXLEN
    BufSize,    \* capacity of the collector's buffer
    Readers,    \* bound: workers whose ingest loop is given entries to store
    MaxInputs   \* bound: reports received (a beacon is retried), failures and
                \* crashes, all together

NoCursor == -1

ASSUME ClockAssumption ==
    /\ Last \in Nat /\ Width \in Nat \ {0} /\ Lag \in Nat
    /\ MaxCatchUp \in Nat \ {0} /\ Retention \in Nat
ASSUME BoundsAssumption ==
    StreamMax \in Nat /\ BufSize \in Nat /\ MaxInputs \in Nat /\ Readers \subseteq Workers
ASSUME SkewedAssumption == Skewed \subseteq Events

Buckets == 0..Last
Entries == Events \X Buckets
MaxClock == (Last + 1) * Width + Lag  \* bound: the last bucket has closed

VARIABLES
    clock,
    at,        \* [Events -> bucket of the first report, NoCursor before it]
    sent,      \* how many reports were received
    stream,    \* sequence of the entries on the stream that no consumer has read
    pending,   \* entries read and not acknowledged
    batch,     \* [Workers -> the ingest loop: where it is and what it read]
    buffer,    \* entries that could not reach Redis
    trimmed,   \* history: entries the stream gave up before they were read
    lost,      \* entries dropped, or gone with the API server's memory
    stored,    \* analytics.events
    oldest,    \* the first bucket whose partition has not been dropped
    seen,      \* history: every entry that was ever stored
    belated,   \* history: those stored after a roller had passed their bucket
    dropped,   \* history: those dropped before every roller had passed it
    rolled,    \* [Buckets -> the events counted in analytics.funnel_rollups]
    cursor,    \* analytics.rollup_state: the buckets below it are done
    mem,       \* [Workers -> Roller.cursor, NoCursor until it is loaded]
    roll,      \* [Workers -> end of the range recomputed, NoCursor if none is]
    fails

reports == <<at, sent>>
transit == <<stream, pending, batch, buffer, trimmed, lost>>
raw == <<stored, oldest, seen, belated, dropped>>
rollups == <<rolled, cursor, mem, roll>>
pipelineVars == <<clock, reports, transit, raw, rollups, fails>>

IdleBatch == [at |-> "idle", entries |-> {}]

PipelineInit ==
    /\ clock = 0
    /\ at = [e \in Events |-> NoCursor]
    /\ sent = 0
    /\ stream = <<>> /\ pending = {} /\ buffer = {} /\ trimmed = {} /\ lost = {}
    /\ stored = {} /\ oldest = 0 /\ seen = {} /\ belated = {} /\ dropped = {}
    /\ batch = [w \in Workers |-> IdleBatch]
    /\ rolled = [b \in Buckets |-> {}]
    /\ cursor = 0
    /\ mem = [w \in Workers |-> NoCursor]
    /\ roll = [w \in Workers |-> NoCursor]
    /\ fails = 0

\* The first bucket that had not closed Lag ago: what Tick calls limit.
OpenAt(t) == IF t < Lag THEN 0 ELSE (t - Lag) \div Width

Unread == {stream[i] : i \in DOMAIN stream}
InTransit == Unread \cup buffer \cup UNION {batch[w].entries : w \in Workers}

Tick ==
    /\ clock < MaxClock
    /\ clock' = clock + 1
    /\ UNCHANGED <<reports, transit, raw, rollups, fails>>

-----------------------------------------------------------------------------
(* Collector.Collect and FlushBuffered, in the API server.                 *)

Now == clock \div Width

\* A plausible occurred_at is the reporter's own, the same at every retry;
\* any other is replaced by now.
Stamps(e) ==
    IF e \in Skewed THEN {Now}
    ELSE IF at[e] = NoCursor THEN 0..Now ELSE {at[e]}

\* XADD with MAXLEN ~ StreamMax: past that length Redis drops old entries, read
\* or not, when it sees fit, and says nothing.
Add(x) ==
    LET all == Append(stream, x) IN
    \E k \in 0..IF Len(all) > StreamMax THEN Len(all) - StreamMax ELSE 0 :
        /\ stream' = SubSeq(all, k + 1, Len(all))
        /\ trimmed' = trimmed \cup {all[i] : i \in 1..k}

\* XADD succeeds, fails, or succeeds after its 5 ms are over.
Collect(e, x, onStream, answered) ==
    /\ sent + fails < MaxInputs /\ Now \in Buckets
    /\ x[1] = e /\ x[2] \in Stamps(e)
    /\ onStream \/ ~answered
    /\ sent' = sent + 1
    /\ at' = [at EXCEPT ![e] = IF @ = NoCursor THEN x[2] ELSE @]
    /\ IF onStream THEN Add(x) ELSE UNCHANGED <<stream, trimmed>>
    /\ buffer' = IF ~answered /\ Cardinality(buffer) < BufSize
                 THEN buffer \cup {x} ELSE buffer
    /\ lost' = IF ~answered /\ Cardinality(buffer) >= BufSize
               THEN lost \cup {x} ELSE lost
    /\ UNCHANGED <<clock, pending, batch, raw, rollups, fails>>

\* Some roller has recomputed the bucket: the row, a memory, or a range just
\* done says so.
Passed(b) == cursor > b \/ \E w \in Workers : mem[w] > b \/ roll[w] > b

\* InsertEvents: all of them or none.  No partition takes what is older than
\* the retention, and there is no default one.
HavePartitions(entries) == \A x \in entries : x[2] >= oldest

InsertEvents(entries) ==
    /\ HavePartitions(entries)
    /\ stored' = stored \cup entries
    /\ seen' = seen \cup entries
    /\ belated' = belated \cup {x \in entries \ seen : Passed(x[2])}
    /\ UNCHANGED <<oldest, dropped>>

Flush ==
    /\ buffer # {}
    /\ InsertEvents(buffer)
    /\ buffer' = {}
    /\ UNCHANGED <<clock, reports, stream, pending, batch, trimmed, lost, rollups, fails>>

\* Entries that no partition takes: the error is logged, the buffer empty.
FlushRefused ==
    /\ ~HavePartitions(buffer)
    /\ lost' = lost \cup buffer
    /\ buffer' = {}
    /\ UNCHANGED <<clock, reports, stream, pending, batch, trimmed, raw, rollups, fails>>

\* The insert fails, or the server stops without a flush.
FlushFails ==
    /\ buffer # {} /\ sent + fails < MaxInputs
    /\ lost' = lost \cup buffer
    /\ buffer' = {}
    /\ fails' = fails + 1
    /\ UNCHANGED <<clock, reports, stream, pending, batch, trimmed, raw, rollups>>

-----------------------------------------------------------------------------
(* Ingestor.drainOnce.                                                     *)

\* A mutant: XREADGROUP with NOACK.
ReadNoAck(w) ==
    /\ w \in Readers /\ batch[w].at = "idle" /\ stream # <<>>
    /\ batch' = [batch EXCEPT ![w] = [at |-> "read", entries |-> Unread]]
    /\ stream' = <<>>
    /\ UNCHANGED <<clock, reports, pending, buffer, trimmed, lost, raw, rollups, fails>>

\* XREADGROUP with ">": entries no consumer has read (500 at most, more than
\* here).  Those left pending by a failure are not asked for.
Read(w) ==
    /\ w \in Readers /\ batch[w].at = "idle" /\ stream # <<>>
    /\ batch' = [batch EXCEPT ![w] = [at |-> "read", entries |-> Unread]]
    /\ pending' = pending \cup Unread
    /\ stream' = <<>>
    /\ UNCHANGED <<clock, reports, buffer, trimmed, lost, raw, rollups, fails>>

\* Nothing new within the time the read blocks: the loop starts over.
Poll(w) ==
    /\ batch[w].at = "idle" /\ (stream = <<>> \/ w \notin Readers)
    /\ UNCHANGED pipelineVars

\* InsertEvents with ON CONFLICT DO NOTHING.
Store(w) ==
    /\ batch[w].at = "read"
    /\ InsertEvents(batch[w].entries)
    /\ batch' = [batch EXCEPT ![w].at = "stored"]
    /\ UNCHANGED <<clock, reports, stream, pending, buffer, trimmed, lost, rollups, fails>>

\* One entry that no partition takes fails its whole batch, which stays pending.
StoreRefused(w) ==
    /\ batch[w].at = "read" /\ ~HavePartitions(batch[w].entries)
    /\ batch' = [batch EXCEPT ![w] = IdleBatch]
    /\ UNCHANGED <<clock, reports, stream, pending, buffer, trimmed, lost, raw, rollups, fails>>

Ack(w) ==
    /\ batch[w].at = "stored"
    /\ pending' = pending \ batch[w].entries
    /\ batch' = [batch EXCEPT ![w] = IdleBatch]
    /\ UNCHANGED <<clock, reports, stream, buffer, trimmed, lost, raw, rollups, fails>>

\* The insert or the acknowledgement fails: the batch stays pending.
DrainFails(w) ==
    /\ batch[w].at # "idle" /\ sent + fails < MaxInputs
    /\ batch' = [batch EXCEPT ![w] = IdleBatch]
    /\ fails' = fails + 1
    /\ UNCHANGED <<clock, reports, stream, pending, buffer, trimmed, lost, raw, rollups>>

-----------------------------------------------------------------------------
(* Roller.Tick.                                                            *)

\* A mutant: a restart looks one bucket back and no further.
LoadCursorLookback(w) ==
    /\ mem[w] = NoCursor
    /\ mem' = [mem EXCEPT ![w] = IF OpenAt(clock) = 0 THEN 0 ELSE OpenAt(clock) - 1]
    /\ UNCHANGED <<clock, reports, transit, raw, rolled, cursor, roll, fails>>

LoadCursor(w) ==
    /\ mem[w] = NoCursor
    /\ mem' = [mem EXCEPT ![w] = cursor]
    /\ UNCHANGED <<clock, reports, transit, raw, rolled, cursor, roll, fails>>

Behind(w) == mem[w] # NoCursor /\ roll[w] = NoCursor /\ mem[w] < OpenAt(clock)

RangeEnd(w) ==
    IF OpenAt(clock) - mem[w] > MaxCatchUp THEN mem[w] + MaxCatchUp ELSE OpenAt(clock)

\* DELETE and INSERT ... SELECT in a transaction.  Two at once on a bucket
\* meet at the primary key, where the second fails.
Recompute(w) ==
    /\ Behind(w)
    /\ rolled' = [b \in Buckets |-> IF b \in mem[w]..RangeEnd(w) - 1
                                    THEN {e \in Events : <<e, b>> \in stored}
                                    ELSE rolled[b]]
    /\ roll' = [roll EXCEPT ![w] = RangeEnd(w)]
    /\ UNCHANGED <<clock, reports, transit, raw, cursor, mem, fails>>

SetCursor(w) ==
    /\ roll[w] # NoCursor
    /\ cursor' = roll[w]
    /\ mem' = [mem EXCEPT ![w] = roll[w]]
    /\ roll' = [roll EXCEPT ![w] = NoCursor]
    /\ UNCHANGED <<clock, reports, transit, raw, rolled, fails>>

\* A mutant: the cursor in memory moves on although the range failed.
RollFailsForward(w) ==
    /\ (Behind(w) \/ roll[w] # NoCursor) /\ sent + fails < MaxInputs
    /\ mem' = [mem EXCEPT ![w] = RangeEnd(w)]
    /\ roll' = [roll EXCEPT ![w] = NoCursor]
    /\ fails' = fails + 1
    /\ UNCHANGED <<clock, reports, transit, raw, rolled, cursor>>

\* The recompute or the cursor's update fails: the range is repeated.
RollFails(w) ==
    /\ (Behind(w) \/ roll[w] # NoCursor) /\ sent + fails < MaxInputs
    /\ roll' = [roll EXCEPT ![w] = NoCursor]
    /\ fails' = fails + 1
    /\ UNCHANGED <<clock, reports, transit, raw, rolled, cursor, mem>>

\* A worker stops and starts again, with nothing of its memory.
Crash(w) ==
    /\ sent + fails < MaxInputs
    /\ batch' = [batch EXCEPT ![w] = IdleBatch]
    /\ mem' = [mem EXCEPT ![w] = NoCursor]
    /\ roll' = [roll EXCEPT ![w] = NoCursor]
    /\ fails' = fails + 1
    /\ UNCHANGED <<clock, reports, stream, pending, buffer, trimmed, lost, raw, rolled, cursor>>

-----------------------------------------------------------------------------
(* Roller.Maintain.                                                        *)

\* The bucket the retention reaches back to; a day's partition is one bucket.
Cutoff == IF clock < Retention THEN 0 ELSE (clock - Retention) \div Width

\* Some roller has the bucket still ahead of it, or will repeat it.
Ahead(b) == cursor <= b \/ \E w \in Workers : mem[w] \in 0..b

\* Partitions of days before the cutoff are dropped one by one; a failure
\* leaves the rest to the next hour.  Nothing asks what has been rolled up.
Maintain ==
    /\ \E first \in oldest + 1..Cutoff :
        /\ oldest' = first
        /\ stored' = {x \in stored : x[2] >= first}
        /\ dropped' = dropped \cup {x \in stored : x[2] < first /\ Ahead(x[2])}
    /\ UNCHANGED <<clock, reports, transit, seen, belated, rollups, fails>>

-----------------------------------------------------------------------------
DrainStep(w) == Read(w) \/ Poll(w) \/ Store(w) \/ StoreRefused(w) \/ Ack(w)
RollStep(w) == LoadCursor(w) \/ Recompute(w) \/ SetCursor(w)

PipelineNext ==
    \/ Tick
    \/ \E e \in Events, b \in Buckets, onStream, answered \in BOOLEAN :
          Collect(e, <<e, b>>, onStream, answered)
    \/ Flush \/ FlushRefused \/ FlushFails \/ Maintain
    \/ \E w \in Workers :
          DrainStep(w) \/ DrainFails(w) \/ RollStep(w) \/ RollFails(w) \/ Crash(w)

PipelineSpec == PipelineInit /\ [][PipelineNext]_pipelineVars

\* Time passes, and the roller of a worker runs for ever.  Nothing is asked of
\* the server's flushes or of the ingest loops.
Fairness ==
    WF_pipelineVars(Tick) /\ \A w \in Workers : WF_pipelineVars(RollStep(w))

FairSpec == PipelineSpec /\ Fairness

-----------------------------------------------------------------------------
Cursors == {NoCursor} \cup 0..Last + 1

\* Every variable keeps its type, and no cursor runs ahead of the closed buckets.
PipelineTypeOK ==
    /\ clock \in 0..MaxClock
    /\ at \in [Events -> {NoCursor} \cup Buckets]
    /\ stream \in Seq(Entries) /\ pending \subseteq Entries
    /\ batch \in [Workers -> [at : {"idle", "read", "stored"}, entries : SUBSET Entries]]
    /\ buffer \subseteq Entries /\ Cardinality(buffer) <= BufSize
    /\ trimmed \subseteq Entries /\ lost \subseteq Entries
    /\ stored \subseteq seen /\ seen \subseteq Entries /\ oldest \in Nat
    /\ belated \subseteq seen /\ dropped \subseteq seen
    /\ rolled \in [Buckets -> SUBSET Events]
    /\ mem \in [Workers -> Cursors] /\ roll \in [Workers -> Cursors]
    /\ cursor \in 0..OpenAt(clock)
    /\ \A w \in Workers : mem[w] <= OpenAt(clock) /\ roll[w] <= OpenAt(clock)
    /\ sent \in Nat /\ fails \in Nat /\ sent + fails <= MaxInputs

\* No event disappears without a trace: what was reported is on its way,
\* stored, lost where the collector says so, or was given up by a stream that
\* had grown past its length (the acknowledgement comes after the insert, never
\* before).
Accounted ==
    /\ \A e \in Events : at[e] # NoCursor =>
         \E x \in InTransit \cup pending \cup trimmed \cup lost \cup seen : x[1] = e
    /\ trimmed # {} => sent > StreamMax

\* What is counted for a bucket that is done are the events stored for it, across
\* failures, restarts and two rollers with cursors of their own, and it outlives
\* the raw events (LinkStats: rollups "survive the raw events").  What may be
\* missing are the events that came when a roller had passed their bucket, and
\* those whose partition was dropped while a roller had not.
ClosedIsCounted ==
    \A b \in Buckets :
        /\ rolled[b] \subseteq {e \in Events : <<e, b>> \in seen}
        /\ b < cursor =>
             {e \in Events : <<e, b>> \in seen \ (belated \cup dropped)} \subseteq rolled[b]

\* What is stored for a bucket reaches the rollups, all of it in the end (what
\* comes in is bounded), with the same exceptions.
Uncounted(b) == {e \in Events : <<e, b>> \in stored \ (belated \cup dropped)} \ rolled[b]

StoredIsCounted == []<>(\A b \in Buckets : Uncounted(b) = {})
=============================================================================
