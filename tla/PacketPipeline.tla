--------------------------- MODULE PacketPipeline ---------------------------
(***************************************************************************)
(* The packet pipeline of one run of the capture engine: the PacketCache   *)
(* (sniff4hound/packet_pipeline.py), the capture threads that fill it and  *)
(* the processing jobs that empty it (sniff4hound/sniffer.py), and the     *)
(* writes of packets to the shared SQLite connection (register_packet,     *)
(* register_packets and write_batch of sniff4hound/store.py).              *)
(*                                                                         *)
(* A packet is its number.  What detection makes of it is an arbitrary     *)
(* verdict.  A packet's rows (packet, flow, tags, payload) are one unit in *)
(* `rows'; a write that failed half way leaves it in `txn', the transaction*)
(* open on the connection, and whoever commits next makes it `torn'.       *)
(***************************************************************************)
EXTENDS Naturals, Sequences, FiniteSetsExt, Lists

CONSTANTS
  MaxPackets,   \* bound on the packets captured
  Jobs,         \* the processing jobs
  MaxHands,     \* the capture threads
  BatchMax,     \* PIPELINE_BATCH_MAX
  MaxAttempts,  \* how often a batch is tried against a locked database
  CacheLimits,  \* the values of cache_limit; the first start uses any of them
  MaxResets     \* bound on resets of the counters

Packets == 1..MaxPackets

ASSUME PipelineAssumption ==
  /\ MaxPackets \in Nat /\ MaxHands \in Nat /\ MaxResets \in Nat
  /\ BatchMax \in Nat \ {0} /\ MaxAttempts \in Nat \ {0} /\ IsFiniteSet(Jobs)
  /\ CacheLimits \subseteq Nat \ {0} /\ CacheLimits # {}

VARIABLES
  fate,      \* what became of each packet
  hands,     \* packets a capture thread found the cache open for
  items,     \* _items of the cache
  limit,     \* _limit
  closed,    \* _closed
  cached,    \* the cache's counters: accepted, dropped, peak
  place,     \* where each job stands in _pipeline_worker()
  batch,     \* what a job has yet to evaluate
  deferred,  \* what a job has to write when its batch is evaluated
  attempt,   \* attempts at writing it
  pending,   \* a job's own counts, applied at the end of its batch
  count,     \* the counters of the engine
  rows,      \* how many times each packet is in the database, whole
  txn,       \* packets half written in the transaction left open
  torn,      \* packets half written in the database
  log,       \* history: the packets accepted by the cache, in order
  zeroed,    \* history: the counts that resets have thrown away
  resets,    \* how many resets began
  resetting  \* a reset has zeroed the engine's counters, not yet the cache's

cacheVars == <<items, limit, closed, cached, log>>
jobVars   == <<place, batch, deferred, attempt, pending>>
dbVars    == <<rows, txn, torn>>
tallyVars == <<count, zeroed, resets, resetting>>
vars == <<fate, hands, cacheVars, jobVars, dbVars, tallyVars>>

Zero == [processed |-> 0, persisted |-> 0, errors |-> 0, write_errors |-> 0]

Plus(c, d) == [n \in DOMAIN c |-> c[n] + d[n]]

Init ==
  /\ fate = [p \in Packets |-> "new"] /\ hands = {}
  /\ items = <<>> /\ limit \in CacheLimits /\ closed = FALSE /\ log = <<>>
  /\ cached = [accepted |-> 0, dropped |-> 0, peak |-> 0]
  /\ place = [j \in Jobs |-> "get"] /\ batch = [j \in Jobs |-> <<>>]
  /\ deferred = [j \in Jobs |-> {}] /\ attempt = [j \in Jobs |-> 0]
  /\ pending = [j \in Jobs |-> Zero]
  /\ rows = [p \in Packets |-> 0] /\ txn = {} /\ torn = {}
  /\ count = Zero /\ resets = 0 /\ resetting = FALSE
  /\ zeroed = [total |-> Zero, accepted |-> 0, dropped |-> 0]

Judge(S, f) == fate' = [p \in Packets |-> IF p \in S THEN f ELSE fate[p]]

-----------------------------------------------------------------------------
(* _enqueue_packet(), on a capture thread. *)

\* The cache is tested before put() takes its lock.
Capture(p) ==
  /\ fate[p] = "new" /\ \A q \in 1..(p - 1) : fate[q] # "new"
  /\ Cardinality(hands) < MaxHands
  /\ IF closed
     THEN Judge({p}, "inline") /\ UNCHANGED hands
     ELSE Judge({p}, "hand") /\ hands' = hands \cup {p}
  /\ UNCHANGED <<cacheVars, jobVars, dbVars, tallyVars>>

\* The oldest n packets make room.
Evict(s, n) == Drop(s, n)

\* How many packets to evict for the cache to hold at most `room' of them.
Excess(room) == IF Len(items) > room THEN Len(items) - room ELSE 0

Put(p) ==
  /\ p \in hands
  /\ hands' = hands \ {p}
  /\ IF closed
     THEN Judge({p}, "refused") /\ UNCHANGED cacheVars
     ELSE LET n == Excess(limit - 1)
              kept == Evict(items, n)
              evicted == Elems(items) \ Elems(kept)
          IN /\ items' = Append(kept, p)
             /\ log' = Append(log, p)
             /\ cached' = [accepted |-> cached.accepted + 1,
                           dropped |-> cached.dropped + n,
                           peak |-> IF Len(kept) + 1 > cached.peak
                                    THEN Len(kept) + 1 ELSE cached.peak]
             /\ fate' = [q \in Packets |->
                           IF q = p THEN "waiting"
                           ELSE IF q \in evicted THEN "evicted" ELSE fate[q]]
             /\ UNCHANGED <<limit, closed>>
  /\ UNCHANGED <<jobVars, dbVars, tallyVars>>

\* set_limit(), when a settings refresh finds another cache_limit.
SetLimit(l) ==
  /\ l # limit
  /\ limit' = l
  /\ LET n == Excess(l)
         kept == Evict(items, n)
     IN /\ items' = kept
        /\ cached' = [cached EXCEPT !.dropped = @ + n]
        /\ Judge(Elems(items) \ Elems(kept), "evicted")
  /\ UNCHANGED <<hands, closed, log, jobVars, dbVars, tallyVars>>

\* close(), by Sniffer.stop(): what waits is discarded.
Close ==
  /\ ~closed
  /\ closed' = TRUE
  /\ items' = <<>>
  /\ Judge(Elems(items), "discarded")
  /\ UNCHANGED <<hands, limit, cached, log, jobVars, dbVars, tallyVars>>

-----------------------------------------------------------------------------
(* register_packet() outside a batch: once the cache is closed a packet is *)
(* evaluated and written on the capture thread itself.                     *)

InlineDone(p, f) ==
  /\ fate[p] = "inline"
  /\ Judge({p}, f)
  /\ UNCHANGED <<hands, cacheVars, jobVars, zeroed, resets, resetting>>

InlineClean(p) == InlineDone(p, "clean") /\ UNCHANGED <<dbVars, count>>

\* A commit carries whatever the transaction holds.
InlineStored(p) ==
  /\ InlineDone(p, "stored")
  /\ rows' = [rows EXCEPT ![p] = @ + 1]
  /\ torn' = torn \cup txn /\ txn' = {}
  /\ count' = [count EXCEPT !.persisted = @ + 1]

\* A "locked" failure is rolled back and the whole insert is tried again: n = 2
\* when what failed was reading the row back, after its commit.
InlineRecovered(p, n) ==
  /\ InlineDone(p, "stored")
  /\ rows' = [rows EXCEPT ![p] = @ + n]
  /\ txn' = {} /\ UNCHANGED torn
  /\ count' = [count EXCEPT !.persisted = @ + 1]

\* Any other failure propagates: before anything was written, half way with the
\* transaction open (what it held before is gone if this was the second try),
\* or while reading back the committed row.
InlineFails(p) ==
  /\ InlineDone(p, "lost")
  /\ \/ txn' \in {txn, {p}, txn \cup {p}} /\ UNCHANGED <<rows, torn>>
     \/ /\ rows' = [rows EXCEPT ![p] = @ + 1]
        /\ torn' = torn \cup txn /\ txn' = {}
  /\ UNCHANGED count

\* Any other writer of this connection commits.
OtherCommit ==
  /\ txn # {}
  /\ torn' = torn \cup txn /\ txn' = {}
  /\ UNCHANGED <<fate, hands, cacheVars, jobVars, rows, tallyVars>>

-----------------------------------------------------------------------------
(* _pipeline_worker() and _process_batch(), on job j. *)

Goto(j, there) == place' = [place EXCEPT ![j] = there]

Get(j) ==
  /\ place[j] = "get" /\ items # <<>>
  /\ batch' = [batch EXCEPT ![j] = <<Head(items)>>]
  /\ items' = Tail(items)
  /\ Judge({Head(items)}, "taken")
  /\ Goto(j, "more")
  /\ UNCHANGED <<hands, limit, closed, cached, log, deferred, attempt,
                 pending, dbVars, tallyVars>>

JobEnds(j) ==
  /\ place[j] = "get" /\ items = <<>> /\ closed
  /\ Goto(j, "gone")
  /\ UNCHANGED <<fate, hands, cacheVars, batch, deferred, attempt, pending,
                 dbVars, tallyVars>>

GetMany(j) ==
  /\ place[j] = "more"
  /\ LET n == IF Len(items) < BatchMax - 1 THEN Len(items) ELSE BatchMax - 1
     IN /\ batch' = [batch EXCEPT ![j] = @ \o SubSeq(items, 1, n)]
        /\ items' = Drop(items, n)
        /\ Judge(Elems(SubSeq(items, 1, n)), "taken")
  /\ Goto(j, "evaluate")
  /\ UNCHANGED <<hands, limit, closed, cached, log, deferred, attempt,
                 pending, dbVars, tallyVars>>

\* What _store_packet() may do with a packet: it fails in detection or on the
\* store, and on the store also once the packet is deferred, trimming tables.
Verdicts ==
  [defer : BOOLEAN, outcome : {"processed", "errors", "write_errors"}]
    \ {[defer |-> TRUE, outcome |-> "errors"]}

\* When the last packet of the batch is evaluated, _flush_deferred() begins.
Evaluate(j, defer, outcome) ==
  /\ place[j] = "evaluate"
  /\ LET p == Head(batch[j])
         write == IF defer THEN deferred[j] \cup {p} ELSE deferred[j]
         last == Tail(batch[j]) = <<>>
     IN /\ deferred' = [deferred EXCEPT ![j] = write]
        /\ Judge({p}, IF defer THEN "deferred" ELSE "clean")
        /\ Goto(j, IF ~last THEN "evaluate"
                   ELSE IF write = {} THEN "apply" ELSE "flush")
        /\ attempt' = [attempt EXCEPT ![j] =
                         IF last /\ write # {} THEN 1 ELSE 0]
  /\ batch' = [batch EXCEPT ![j] = Tail(@)]
  /\ pending' = [pending EXCEPT ![j][outcome] = @ + 1]
  /\ UNCHANGED <<hands, cacheVars, dbVars, tallyVars>>

\* What finish() and the outcomes of register_packets() count.
BatchOutcome(j, failed) ==
  pending' = [pending EXCEPT
    ![j].persisted = @ + Cardinality(deferred[j] \ failed),
    ![j].write_errors = @ + Cardinality(failed)]

\* One transaction: each packet has its savepoint, then all commit at once.
FlushCommits(j, failed) ==
  /\ place[j] = "flush" /\ txn = {} /\ failed \subseteq deferred[j]
  /\ rows' = [p \in Packets |->
                IF p \in deferred[j] \ failed THEN rows[p] + 1 ELSE rows[p]]
  /\ fate' = [p \in Packets |->
                IF p \in failed THEN "lost"
                ELSE IF p \in deferred[j] THEN "stored" ELSE fate[p]]
  /\ BatchOutcome(j, failed)
  /\ deferred' = [deferred EXCEPT ![j] = {}]
  /\ attempt' = [attempt EXCEPT ![j] = 0]
  /\ Goto(j, "apply")
  /\ UNCHANGED <<hands, cacheVars, batch, txn, torn, tallyVars>>

MayRetry(j) == attempt[j] < MaxAttempts

\* Mutant: the attempt that ran into the lock is not rolled back.
MutFlushLocked(j) ==
  /\ place[j] = "flush" /\ txn = {} /\ MayRetry(j)
  /\ attempt' = [attempt EXCEPT ![j] = @ + 1]
  /\ rows' = [p \in Packets |->
                IF p \in deferred[j] THEN rows[p] + 1 ELSE rows[p]]
  /\ UNCHANGED <<fate, hands, cacheVars, place, batch, deferred, pending, txn,
                 torn, tallyVars>>

\* "database is locked", at the begin or at the commit: rolled back, try again.
FlushLocked(j) ==
  /\ place[j] = "flush" /\ txn = {} /\ MayRetry(j)
  /\ attempt' = [attempt EXCEPT ![j] = @ + 1]
  /\ UNCHANGED <<fate, hands, cacheVars, place, batch, deferred, pending,
                 dbVars, tallyVars>>

\* The last attempt failed, or the error was another one; with a transaction
\* open on the connection BEGIN itself fails.  Nothing of the batch landed.
FlushFails(j) ==
  /\ place[j] = "flush"
  /\ Judge(deferred[j], "lost")
  /\ pending' = [pending EXCEPT
                   ![j].write_errors = @ + Cardinality(deferred[j])]
  /\ deferred' = [deferred EXCEPT ![j] = {}]
  /\ attempt' = [attempt EXCEPT ![j] = 0]
  /\ Goto(j, "apply")
  /\ UNCHANGED <<hands, cacheVars, batch, dbVars, tallyVars>>

\* Mutant: the counts of a batch replace those another job applied meanwhile.
MutTally(counts) == count' = counts

\* _apply_pipeline_counts(), under its lock.
Tally(counts) == count' = Plus(count, counts)

Apply(j) ==
  /\ place[j] = "apply"
  /\ Tally(pending[j])
  /\ pending' = [pending EXCEPT ![j] = Zero]
  /\ Goto(j, "get")
  /\ UNCHANGED <<fate, hands, cacheVars, batch, deferred, attempt, dbVars,
                 zeroed, resets, resetting>>

\* reset_pipeline_counters(): the engine's counters under their lock, then the
\* cache's under its own.
Reset ==
  /\ resets < MaxResets /\ ~resetting
  /\ resets' = resets + 1 /\ resetting' = TRUE
  /\ count' = Zero
  /\ zeroed' = [zeroed EXCEPT !.total = Plus(@, count)]
  /\ UNCHANGED <<fate, hands, cacheVars, jobVars, dbVars>>

ResetCache ==
  /\ resetting /\ resetting' = FALSE
  /\ cached' = [accepted |-> 0, dropped |-> 0, peak |-> Len(items)]
  /\ zeroed' = [zeroed EXCEPT !.accepted = @ + cached.accepted,
                              !.dropped = @ + cached.dropped]
  /\ UNCHANGED <<fate, hands, items, limit, closed, log, jobVars, dbVars,
                 count, resets>>

-----------------------------------------------------------------------------
JobStep(j) ==
  \/ Get(j) \/ JobEnds(j) \/ GetMany(j)
  \/ \E v \in Verdicts : Evaluate(j, v.defer, v.outcome)
  \/ \E failed \in SUBSET deferred[j] : FlushCommits(j, failed)
  \/ FlushLocked(j) \/ FlushFails(j) \/ Apply(j)

Inline(p) ==
  \/ InlineClean(p) \/ InlineStored(p) \/ InlineFails(p)
  \/ \E n \in 1..2 : InlineRecovered(p, n)

Next ==
  \/ \E p \in Packets : Capture(p) \/ Put(p) \/ Inline(p)
  \/ \E l \in CacheLimits : SetLimit(l)
  \/ \E j \in Jobs : JobStep(j)
  \/ Close \/ Reset \/ ResetCache \/ OtherCommit

Spec == Init /\ [][Next]_vars

-----------------------------------------------------------------------------
(* Properties *)

Counts == [processed : Nat, persisted : Nat, errors : Nat, write_errors : Nat]

\* Every variable keeps its type.
TypeOK ==
  /\ fate \in [Packets -> {"new", "hand", "waiting", "evicted", "discarded",
                           "refused", "inline", "taken", "clean", "deferred",
                           "stored", "lost"}]
  /\ hands \subseteq Packets /\ items \in Seq(Packets) /\ log \in Seq(Packets)
  /\ limit \in CacheLimits /\ closed \in BOOLEAN
  /\ cached \in [accepted : Nat, dropped : Nat, peak : Nat]
  /\ place \in [Jobs -> {"get", "more", "evaluate", "flush", "apply", "gone"}]
  /\ batch \in [Jobs -> Seq(Packets)] /\ deferred \in [Jobs -> SUBSET Packets]
  /\ attempt \in [Jobs -> 0..MaxAttempts] /\ pending \in [Jobs -> Counts]
  /\ count \in Counts /\ rows \in [Packets -> Nat]
  /\ txn \subseteq Packets /\ torn \subseteq Packets
  /\ zeroed \in [total : Counts, accepted : Nat, dropped : Nat]
  /\ resets \in Nat /\ resetting \in BOOLEAN

With(f) == {p \in Packets : fate[p] = f}

\* The cache never holds more than its limit, knows its peak, and what waits in
\* it is always the newest of what it accepted, in order: whatever was evicted
\* or taken is older than everything still waiting.
NewestSurvive ==
  /\ Len(items) <= limit /\ Len(items) <= cached.peak
  /\ ~closed => items = Drop(log, Len(log) - Len(items))

\* accepted and dropped count every packet, over any number of resets: what was
\* accepted is waiting, evicted, discarded by stop() or taken by one job.
CacheAddsUp ==
  /\ cached.accepted + zeroed.accepted = Len(log)
  /\ cached.dropped + zeroed.dropped = Cardinality(With("evicted"))
  /\ Elems(items) = With("waiting")

\* The counts of every job's batch and of the engine, those lost to resets
\* included.
Total(n) ==
  count[n] + zeroed.total[n] + MapThenSumSet(LAMBDA j : pending[j][n], Jobs)

\* The packets jobs have evaluated, and those of them that did not get stored.
Evaluations ==
  {p \in Elems(log) : fate[p] \in {"clean", "deferred", "stored", "lost"}}
Unwritten == Elems(log) \cap With("lost")

\* Nothing a job takes goes uncounted or is counted twice: each packet is
\* processed or an error when it is evaluated, each packet to persist is
\* persisted or one more write error, and a reset in the middle of a batch
\* loses none of them.
PipelineAddsUp ==
  /\ Total("persisted") = Cardinality(With("stored"))
  /\ Total("processed") + Total("errors") + Total("write_errors") =
       Cardinality(Evaluations) + Cardinality(Unwritten)

\* What waits is the newest of what came, and from the cache to the database no
\* packet is forgotten or counted twice, through evictions, resets, stop() and
\* batches that fail.
EveryPacketCounts == NewestSurvive /\ CacheAddsUp /\ PipelineAddsUp

\* A packet a job wrote is there once, however often its batch was retried, and
\* one reported as a write error is not in the database.
StoredOnce ==
  \A p \in Elems(log) : rows[p] = IF fate[p] = "stored" THEN 1 ELSE 0

\* A packet row, its flow, tags and payload land together or not at all.
NoTornPacket == torn = {}
=============================================================================
