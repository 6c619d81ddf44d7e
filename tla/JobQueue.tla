------------------------------ MODULE JobQueue ------------------------------
(***************************************************************************)
(* The background job queue every API request goes through                 *)
(* (sniff4hound/jobs.py) and the `jobs' table it persists deferred work to *)
(* (SniffStore.upsert_job and friends, sniff4hound/store.py).              *)
(*                                                                         *)
(* Actors: one request thread per job (submit), the worker threads, the    *)
(* watchdog, the reaper, the thread that runs shutdown(), and the crash    *)
(* and restart of the whole process.  Worker threads are interchangeable,  *)
(* so they are counted by where they stand (looping, getting, leaving) and *)
(* a worker that holds a job is identified with that job (wk).             *)
(*                                                                         *)
(* Time is asynchronous: the inline window, the read timeout, the job      *)
(* timeout and the join deadline may each expire at any moment.            *)
(***************************************************************************)
EXTENDS Naturals, Sequences, FiniteSets

CONSTANTS
  Reads,          \* jobs submitted with persist=False (GET and HEAD routes)
  Writes,         \* jobs submitted with persist=True (every other method)
  Limit,          \* _worker_limit
  HandlerResults, \* what fn() may do: "ok", "big" (oversized), "raised"
  StoreMayFail,   \* whether a statement on the jobs table may raise
  MaxRestarts,    \* bound on process restarts
  MayShutdown,    \* whether shutdown() is ever called in this instance
  MaxOld,         \* bound on the jobs that outlive JOB_TTL_SECONDS
  Sentinel        \* the None item shutdown() puts on the queue

Jobs  == Reads \cup Writes
NoJob == "no_job"

ASSUME JobsAssumption ==
  /\ IsFiniteSet(Reads) /\ IsFiniteSet(Writes) /\ Reads \cap Writes = {}
  /\ Sentinel \notin Reads \cup Writes /\ NoJob \notin Reads \cup Writes

ASSUME BoundsAssumption ==
  /\ Limit \in Nat \ {0}
  /\ MaxRestarts \in Nat /\ MaxOld \in Nat
  /\ HandlerResults \subseteq {"ok", "big", "raised"} /\ HandlerResults # {}
  /\ StoreMayFail \in BOOLEAN /\ MayShutdown \in BOOLEAN

VARIABLES
  req,        \* where the request thread of a job stands in submit()
  snap,       \* the status in the snapshot a claim is about to write
  wk,         \* where the worker holding a job stands in _work_loop()
  outcome,    \* how the job was settled; kept as history once the process is gone
  abandoned,  \* its worker was replaced by _settle()
  fin,        \* progress of _finish(): final row, then job_update frame
  finBy,      \* the thread inside _finish()
  rows,       \* the jobs table
  old,        \* jobs created more than JOB_TTL_SECONDS ago
  registry,   \* _jobs
  queue,      \* _queue
  unfinished, \* _queue.unfinished_tasks
  surplus,    \* _surplus
  threads,    \* len(_threads)
  looping,    \* idle workers about to test _stopping
  getting,    \* idle workers inside _queue.get()
  leaving,    \* workers past _work_loop(), still in _threads
  sd,         \* where shutdown() stands
  sdJob,      \* the job shutdown() took off the queue and is settling
  owed,       \* sentinels shutdown() will put: the threads it counted
  reaper,     \* where reap() stands
  restarts

reqVars  == <<req, snap>>
setVars  == <<outcome, fin, finBy>>
poolVars == <<surplus, threads, abandoned>>
idleVars == <<looping, getting, leaving>>
qVars    == <<queue, unfinished>>
sdVars   == <<sd, sdJob, owed>>
dbVars   == <<rows, old, reaper>>
vars == <<reqVars, wk, setVars, poolVars, idleVars, qVars, registry, sdVars,
          dbVars, restarts>>

Outcomes == {"ok", "big", "raised", "timeout", "shutdown"}
Stopping == sd # "up"
Done(j)  == outcome[j] # "none"
\* Jobs whose fn() is running or has just returned: the _running dictionary.
running  == {j \in Jobs : wk[j] \in {"run", "settled", "tasked"}}
\* Jobs some worker took off the queue and has not called task_done() for.
Held     == {j \in Jobs : wk[j] \in {"taken", "checked", "run", "settled"}}
\* Jobs some worker holds, from Queue.get() to its return to the loop.
Busy     == {j \in Jobs : wk[j] # "none"}
\* The jobs for which thread `by' is inside _finish().
Owes(by) == {j \in Jobs : finBy[j] = by}
\* started_mono is set in the same step that enters the handler.
Started(j) == j \in running
\* submit() gave up waiting, so the job must reach SQLite.
Persisted(j) == req[j] \in {"claimed", "snapped", "polling"}

Status(j) ==
  CASE outcome[j] \in {"ok", "big"} -> "done"
    [] outcome[j] \in {"raised", "timeout", "shutdown"} -> "error"
    [] OTHER -> IF Started(j) THEN "running" ELSE "queued"

\* Mutant: an oversized result is stored as if it had fitted.
MutRowStatus(j, status) == status

\* What upsert_job() stores for a snapshot with this status: a result over
\* JOB_RESULT_PERSIST_MAX_BYTES is replaced by an error.
RowStatus(j, status) ==
  IF status = "done" /\ outcome[j] = "big" THEN "error" ELSE status

\* INSERT ... ON CONFLICT DO UPDATE; an exception is printed and swallowed.
Upsert(j, status) ==
  \/ rows' = [rows EXCEPT ![j] = RowStatus(j, status)]
  \/ StoreMayFail /\ UNCHANGED rows

\* What GET /api/jobs/?id=j answers: the registry first, then SQLite.
get(j) == IF j \in registry THEN Status(j) ELSE rows[j]

Init ==
  /\ req = [j \in Jobs |-> "idle"]
  /\ snap = [j \in Jobs |-> "none"]
  /\ wk = [j \in Jobs |-> "none"]
  /\ outcome = [j \in Jobs |-> "none"]
  /\ finBy = [j \in Jobs |-> "none"]
  /\ abandoned = [j \in Jobs |-> FALSE]
  /\ fin = [j \in Jobs |-> "none"]
  /\ rows = [j \in Jobs |-> "none"]
  /\ old = {} /\ registry = {} /\ queue = <<>> /\ unfinished = 0
  /\ surplus = 0 /\ threads = Limit
  /\ looping = Limit /\ getting = 0 /\ leaving = 0
  /\ sd = "up" /\ sdJob = NoJob /\ owed = 0
  /\ reaper = "idle" /\ restarts = 0

-----------------------------------------------------------------------------
(* _settle(): the first caller under job.lock records the outcome. *)

\* Mutant: no bound on the replacements outstanding.
MutReplaces(j, timedOut) == timedOut /\ Started(j) /\ ~Stopping

\* A timed-out handler cannot be killed; its worker is replaced while fewer
\* than Limit replaced workers are still inside their handlers.
Replaces(j, timedOut) ==
  timedOut /\ Started(j) /\ ~Stopping /\ surplus < Limit

RecordOutcome(j, o, by) ==
  /\ outcome' = [outcome EXCEPT ![j] = o]
  /\ fin' = [fin EXCEPT ![j] = IF Persisted(j) THEN "write" ELSE "none"]
  /\ finBy' = [finBy EXCEPT ![j] = IF Persisted(j) THEN by ELSE "none"]

\* Mutant: the second caller does not test done.
MutSettle(j, o, by, timedOut) ==
  RecordOutcome(j, o, by) /\ UNCHANGED <<poolVars, looping>>

Settle(j, o, by, timedOut) ==
  IF Done(j)
  THEN UNCHANGED <<setVars, poolVars, looping>>
  ELSE /\ RecordOutcome(j, o, by)
       /\ IF Replaces(j, timedOut)
          THEN /\ abandoned' = [abandoned EXCEPT ![j] = TRUE]
               /\ surplus' = surplus + 1
               /\ threads' = threads + 1
               /\ looping' = looping + 1
          ELSE UNCHANGED <<poolVars, looping>>

-----------------------------------------------------------------------------
(* submit(), on the request thread of job j. *)

Submit(j) ==
  /\ req[j] = "idle" /\ ~Stopping
  /\ req' = [req EXCEPT ![j] = "waiting"]
  /\ registry' = registry \cup {j}
  /\ queue' = Append(queue, j)
  /\ unfinished' = unfinished + 1
  /\ UNCHANGED <<snap, wk, setVars, poolVars, idleVars, sdVars, dbVars,
                 restarts>>

SubmitRefused(j) ==
  /\ req[j] = "idle" /\ Stopping
  /\ req' = [req EXCEPT ![j] = "refused"]
  /\ UNCHANGED <<snap, wk, setVars, poolVars, idleVars, qVars, registry,
                 sdVars, dbVars, restarts>>

\* Mutant: an error does not wake the request thread.
MutAnswerInline(j) ==
  /\ req[j] = "waiting" /\ outcome[j] \in {"ok", "big"}
  /\ req' = [req EXCEPT ![j] = "answered"]
  /\ registry' = registry \ {j}
  /\ UNCHANGED <<snap, wk, setVars, poolVars, idleVars, qVars, sdVars, dbVars,
                 restarts>>

\* done.wait() returned True, or the claim found the job done under its lock.
AnswerInline(j) ==
  /\ req[j] = "waiting" /\ Done(j)
  /\ req' = [req EXCEPT ![j] = "answered"]
  /\ registry' = registry \ {j}
  /\ UNCHANGED <<snap, wk, setVars, poolVars, idleVars, qVars, sdVars, dbVars,
                 restarts>>

\* A write whose inline window closed: claim the job for polling.
Claim(j) ==
  /\ j \in Writes /\ req[j] = "waiting" /\ ~Done(j)
  /\ req' = [req EXCEPT ![j] = "claimed"]
  /\ UNCHANGED <<snap, wk, setVars, poolVars, idleVars, qVars, registry,
                 sdVars, dbVars, restarts>>

\* _persist() builds the snapshot before upsert_job() takes the store's lock.
ClaimSnapshot(j) ==
  /\ req[j] = "claimed"
  /\ req' = [req EXCEPT ![j] = "snapped"]
  /\ snap' = [snap EXCEPT ![j] = Status(j)]
  /\ UNCHANGED <<wk, setVars, poolVars, idleVars, qVars, registry, sdVars,
                 dbVars, restarts>>

ClaimWrite(j) ==
  /\ req[j] = "snapped"
  /\ Upsert(j, snap[j])
  /\ req' = [req EXCEPT ![j] = "polling"]
  /\ snap' = [snap EXCEPT ![j] = "none"]
  /\ UNCHANGED <<wk, setVars, poolVars, idleVars, qVars, registry, sdVars,
                 old, reaper, restarts>>

\* A read whose done.wait() ran out: settle, discard, forget, raise.
ReadTimesOut(j) ==
  /\ j \in Reads /\ req[j] = "waiting" /\ ~Done(j)
  /\ req' = [req EXCEPT ![j] = "late"]
  /\ UNCHANGED <<snap, wk, setVars, poolVars, idleVars, qVars, registry,
                 sdVars, dbVars, restarts>>

ReadSettles(j) ==
  /\ req[j] = "late"
  /\ Settle(j, "timeout", "reader", TRUE)
  /\ req' = [req EXCEPT ![j] = "expired"]
  /\ UNCHANGED <<snap, wk, getting, leaving, qVars, registry, sdVars, dbVars,
                 restarts>>

TakenOut(s, i) ==
  [k \in 1..(Len(s) - 1) |-> IF k < i THEN s[k] ELSE s[k + 1]]

\* Mutants: discard() removes without counting, or does not look into the queue at
\* all.
MutDiscardUncounted(j) ==
  /\ queue' = SelectSeq(queue, LAMBDA item : item # j)
  /\ UNCHANGED unfinished
MutDiscardNothing(j) == UNCHANGED qVars /\ j \in Jobs

\* _PendingJobs.discard(): drop the item if no worker took it yet.
Discard(j) ==
  \/ \E i \in DOMAIN queue :
       /\ queue[i] = j
       /\ queue' = TakenOut(queue, i)
       /\ unfinished' = unfinished - 1
  \/ (\A i \in DOMAIN queue : queue[i] # j) /\ UNCHANGED qVars

ReadDiscards(j) ==
  /\ req[j] = "expired"
  /\ Discard(j)
  /\ req' = [req EXCEPT ![j] = "discarded"]
  /\ UNCHANGED <<snap, wk, setVars, poolVars, idleVars, registry, sdVars,
                 dbVars, restarts>>

ReadForgets(j) ==
  /\ req[j] = "discarded"
  /\ registry' = registry \ {j}
  /\ req' = [req EXCEPT ![j] = "timed_out"]
  /\ UNCHANGED <<snap, wk, setVars, poolVars, idleVars, qVars, sdVars, dbVars,
                 restarts>>

-----------------------------------------------------------------------------
(* _work_loop(), on a worker thread. *)

LoopTest ==
  /\ looping > 0
  /\ looping' = looping - 1
  /\ IF Stopping
     THEN leaving' = leaving + 1 /\ UNCHANGED getting
     ELSE getting' = getting + 1 /\ UNCHANGED leaving
  /\ UNCHANGED <<reqVars, wk, setVars, poolVars, qVars, registry, sdVars,
                 dbVars, restarts>>

GetJob(j) ==
  /\ getting > 0 /\ queue # <<>> /\ Head(queue) = j
  /\ queue' = Tail(queue)
  /\ getting' = getting - 1
  /\ wk' = [wk EXCEPT ![j] = "taken"]
  /\ UNCHANGED <<reqVars, setVars, poolVars, looping, leaving, unfinished,
                 registry, sdVars, dbVars, restarts>>

GetSentinel ==
  /\ getting > 0 /\ queue # <<>> /\ Head(queue) = Sentinel
  /\ queue' = Tail(queue)
  /\ unfinished' = unfinished - 1
  /\ getting' = getting - 1
  /\ leaving' = leaving + 1
  /\ UNCHANGED <<reqVars, wk, setVars, poolVars, looping, registry, sdVars,
                 dbVars, restarts>>

\* A job taken after stop is answered as refused instead of run.
StopTest(j) ==
  /\ wk[j] = "taken"
  /\ wk' = [wk EXCEPT ![j] = "checked"]
  /\ IF Stopping
     THEN Settle(j, "shutdown", "worker", FALSE)
     ELSE UNCHANGED <<setVars, poolVars, looping>>
  /\ UNCHANGED <<reqVars, getting, leaving, qVars, registry, sdVars, dbVars,
                 restarts>>

\* A queued read can expire before any worker gets to it.
SkipSettled(j) ==
  /\ wk[j] = "checked" /\ Done(j) /\ j \notin Owes("worker")
  /\ wk' = [wk EXCEPT ![j] = "none"]
  /\ unfinished' = unfinished - 1
  /\ looping' = looping + 1
  /\ UNCHANGED <<reqVars, setVars, poolVars, getting, leaving, queue,
                 registry, sdVars, dbVars, restarts>>

StartHandler(j) ==
  /\ wk[j] = "checked" /\ ~Done(j)
  /\ wk' = [wk EXCEPT ![j] = "run"]
  /\ UNCHANGED <<reqVars, setVars, poolVars, idleVars, qVars, registry,
                 sdVars, dbVars, restarts>>

\* fn() returns or raises; the worker settles the job if nobody has yet.
HandlerReturns(j, result) ==
  /\ wk[j] = "run"
  /\ Settle(j, result, "worker", FALSE)
  /\ wk' = [wk EXCEPT ![j] = "settled"]
  /\ UNCHANGED <<reqVars, getting, leaving, qVars, registry, sdVars, dbVars,
                 restarts>>

TaskDone(j) ==
  /\ wk[j] = "settled" /\ j \notin Owes("worker")
  /\ wk' = [wk EXCEPT ![j] = "tasked"]
  /\ unfinished' = unfinished - 1
  /\ UNCHANGED <<reqVars, setVars, poolVars, idleVars, queue, registry,
                 sdVars, dbVars, restarts>>

\* Only the worker that was replaced retires; any other rejoins the pool.
\* Nobody reads job.abandoned after this.
Rejoin(j) ==
  /\ wk[j] = "tasked"
  /\ wk' = [wk EXCEPT ![j] = "none"]
  /\ abandoned' = [abandoned EXCEPT ![j] = FALSE]
  /\ IF abandoned[j]
     THEN /\ surplus' = surplus - 1 /\ leaving' = leaving + 1
          /\ UNCHANGED looping
     ELSE looping' = looping + 1 /\ UNCHANGED <<surplus, leaving>>
  /\ UNCHANGED <<reqVars, setVars, threads, getting, qVars, registry, sdVars,
                 dbVars, restarts>>

Leave ==
  /\ leaving > 0
  /\ leaving' = leaving - 1
  /\ threads' = threads - 1
  /\ UNCHANGED <<reqVars, wk, setVars, surplus, abandoned, looping, getting,
                 qVars, registry, sdVars, dbVars, restarts>>

-----------------------------------------------------------------------------
(* _finish(), on whichever thread settled a persisted job: row, then frame. *)

FinalWrite(j) ==
  /\ fin[j] = "write"
  /\ Upsert(j, Status(j))
  /\ fin' = [fin EXCEPT ![j] = "frame"]
  /\ UNCHANGED <<reqVars, wk, outcome, finBy, poolVars, idleVars, qVars,
                 registry, sdVars, old, reaper, restarts>>

FinalFrame(j) ==
  /\ fin[j] = "frame"
  /\ fin' = [fin EXCEPT ![j] = "sent"]
  /\ finBy' = [finBy EXCEPT ![j] = "none"]
  /\ UNCHANGED <<reqVars, wk, outcome, poolVars, idleVars, qVars, registry,
                 sdVars, dbVars, restarts>>

-----------------------------------------------------------------------------
(* The watchdog and the reaper. *)

\* Mutant: with no replacement left the overdue job is not settled either.
MutAbandonOverdue(j) ==
  /\ wk[j] = "run" /\ ~Done(j) /\ Owes("watchdog") = {} /\ surplus < Limit
  /\ Settle(j, "timeout", "watchdog", TRUE)
  /\ UNCHANGED <<reqVars, wk, getting, leaving, qVars, registry, sdVars,
                 dbVars, restarts>>

\* One overdue job of a pass; a pass writes one final row at a time.
AbandonOverdue(j) ==
  /\ wk[j] = "run" /\ ~Done(j) /\ Owes("watchdog") = {}
  /\ Settle(j, "timeout", "watchdog", TRUE)
  /\ UNCHANGED <<reqVars, wk, getting, leaving, qVars, registry, sdVars,
                 dbVars, restarts>>

\* JOB_TTL_SECONDS after creation; far longer than any request waits.
Age(j) ==
  /\ req[j] \in {"answered", "polling", "timed_out", "gone"}
  /\ j \notin old /\ Cardinality(old) < MaxOld
  /\ old' = old \cup {j}
  /\ UNCHANGED <<reqVars, wk, setVars, poolVars, idleVars, qVars, registry,
                 sdVars, rows, reaper, restarts>>

ReapRows ==
  /\ reaper = "idle" /\ ~Stopping /\ old # {}
  /\ reaper' = "rows"
  /\ \/ rows' = [j \in Jobs |-> IF j \in old THEN "none" ELSE rows[j]]
     \/ StoreMayFail /\ UNCHANGED rows
  /\ UNCHANGED <<reqVars, wk, setVars, poolVars, idleVars, qVars, registry,
                 sdVars, old, restarts>>

ReapRegistry ==
  /\ reaper = "rows"
  /\ reaper' = "idle"
  /\ registry' = {j \in registry : ~(Done(j) /\ j \in old)}
  /\ UNCHANGED <<reqVars, wk, setVars, poolVars, idleVars, qVars, sdVars,
                 rows, old, restarts>>

-----------------------------------------------------------------------------
(* shutdown(). *)

Shutdown ==
  /\ MayShutdown /\ sd = "up"
  /\ sd' = "drain"
  /\ owed' = threads
  /\ UNCHANGED <<reqVars, wk, setVars, poolVars, idleVars, qVars, registry,
                 sdJob, dbVars, restarts>>

DrainTake(j) ==
  /\ sd = "drain" /\ sdJob = NoJob /\ queue # <<>> /\ Head(queue) = j
  /\ queue' = Tail(queue)
  /\ sdJob' = j
  /\ Settle(j, "shutdown", "shutdown", FALSE)
  /\ UNCHANGED <<reqVars, wk, getting, leaving, unfinished, registry, sd,
                 owed, dbVars, restarts>>

DrainDone ==
  /\ sd = "drain" /\ sdJob # NoJob /\ Owes("shutdown") = {}
  /\ sdJob' = NoJob
  /\ unfinished' = unfinished - 1
  /\ UNCHANGED <<reqVars, wk, setVars, poolVars, idleVars, queue, registry,
                 sd, owed, dbVars, restarts>>

\* Mutant: the sentinels go behind the queued jobs, which are not drained.
MutPutSentinels ==
  /\ sd = "drain" /\ sdJob = NoJob
  /\ sd' = "join"
  /\ queue' = queue \o [i \in 1..owed |-> Sentinel]
  /\ unfinished' = unfinished + owed
  /\ owed' = 0
  /\ UNCHANGED <<reqVars, wk, setVars, poolVars, idleVars, registry, sdJob,
                 dbVars, restarts>>

PutSentinels ==
  /\ sd = "drain" /\ sdJob = NoJob /\ queue = <<>>
  /\ sd' = "join"
  /\ queue' = [i \in 1..owed |-> Sentinel]
  /\ unfinished' = unfinished + owed
  /\ owed' = 0
  /\ UNCHANGED <<reqVars, wk, setVars, poolVars, idleVars, registry, sdJob,
                 dbVars, restarts>>

\* The bounded join is over: the threads are gone or the deadline passed.
JoinEnds ==
  /\ sd = "join"
  /\ sd' = "final"
  /\ UNCHANGED <<reqVars, wk, setVars, poolVars, idleVars, qVars, registry,
                 sdJob, owed, dbVars, restarts>>

\* Abandoned workers may have retired without consuming a sentinel.
FinalDrain ==
  /\ sd = "final"
  /\ IF queue = <<>>
     THEN sd' = "closed" /\ UNCHANGED qVars
     ELSE /\ queue' = Tail(queue)
          /\ unfinished' = unfinished - 1
          /\ UNCHANGED sd
  /\ UNCHANGED <<reqVars, wk, setVars, poolVars, idleVars, registry, sdJob,
                 owed, dbVars, restarts>>

-----------------------------------------------------------------------------
(* The process dies and a new one builds a JobQueue on the same database.  *)

\* SniffStore.fail_orphaned_jobs()
FailOrphaned(r) == IF r \in {"queued", "running"} THEN "interrupted" ELSE r

Restart ==
  /\ restarts < MaxRestarts
  /\ restarts' = restarts + 1
  /\ req' = [j \in Jobs |-> IF req[j] = "idle" THEN "idle" ELSE "gone"]
  /\ fin' = [j \in Jobs |-> IF fin[j] = "sent" THEN "sent" ELSE "none"]
  /\ finBy' = [j \in Jobs |-> "none"]
  /\ snap' = [j \in Jobs |-> "none"]
  /\ wk' = [j \in Jobs |-> "none"]
  /\ \/ rows' = [j \in Jobs |-> FailOrphaned(rows[j])]
     \/ StoreMayFail /\ UNCHANGED rows
  /\ registry' = {} /\ queue' = <<>> /\ unfinished' = 0
  /\ abandoned' = [j \in Jobs |-> FALSE]
  /\ surplus' = 0 /\ threads' = Limit
  /\ looping' = Limit /\ getting' = 0 /\ leaving' = 0
  /\ sd' = "up" /\ sdJob' = NoJob /\ owed' = 0 /\ reaper' = "idle"
  /\ UNCHANGED <<outcome, old>>

-----------------------------------------------------------------------------
\* Steps a thread owes once it has started: everything but a new request.
RequestStep(j) ==
  \/ AnswerInline(j) \/ Claim(j) \/ ClaimSnapshot(j) \/ ClaimWrite(j)
  \/ ReadTimesOut(j) \/ ReadSettles(j) \/ ReadDiscards(j) \/ ReadForgets(j)

WorkerStep(j) ==
  \/ GetJob(j) \/ StopTest(j) \/ SkipSettled(j) \/ StartHandler(j)
  \/ TaskDone(j) \/ Rejoin(j)

FinishStep(j) == FinalWrite(j) \/ FinalFrame(j)

ShutdownStep ==
  \/ DrainDone \/ PutSentinels \/ JoinEnds \/ FinalDrain
  \/ \E j \in Jobs : DrainTake(j)

Next ==
  \/ \E j \in Jobs :
       \/ Submit(j) \/ SubmitRefused(j) \/ RequestStep(j)
       \/ WorkerStep(j) \/ FinishStep(j)
       \/ \E result \in HandlerResults : HandlerReturns(j, result)
       \/ AbandonOverdue(j) \/ Age(j)
  \/ LoopTest \/ GetSentinel \/ Leave
  \/ ReapRows \/ ReapRegistry
  \/ Shutdown \/ ShutdownStep
  \/ Restart

Spec == Init /\ [][Next]_vars

\* Every thread of the process keeps running, the timers fire and the store
\* answers, but a handler owes nobody a return, nobody owes a shutdown or a
\* restart, and a wait may always be cut short by its timer or not.
Fairness ==
  /\ \A j \in Jobs :
       /\ WF_vars(RequestStep(j)) /\ WF_vars(WorkerStep(j))
       /\ WF_vars(FinishStep(j)) /\ WF_vars(AbandonOverdue(j) /\ ~Stopping)
  /\ WF_vars(LoopTest) /\ WF_vars(GetSentinel) /\ WF_vars(Leave)
  /\ WF_vars(ShutdownStep)

FairSpec == Spec /\ Fairness

-----------------------------------------------------------------------------
(* Properties *)

\* Every variable of the queue keeps its type.
TypeOK ==
  /\ req \in [Jobs -> {"idle", "waiting", "claimed", "snapped", "late",
                       "expired", "discarded", "refused", "answered", "polling",
                       "timed_out", "gone"}]
  /\ snap \in [Jobs -> {"none", "queued", "running", "done", "error"}]
  /\ wk \in [Jobs -> {"none", "taken", "checked", "run", "settled", "tasked"}]
  /\ outcome \in [Jobs -> Outcomes \cup {"none"}]
  /\ finBy \in [Jobs -> {"none", "worker", "watchdog", "reader", "shutdown"}]
  /\ abandoned \in [Jobs -> BOOLEAN]
  /\ fin \in [Jobs -> {"none", "write", "frame", "sent"}]
  /\ rows \in [Jobs -> {"none", "queued", "running", "done", "error",
                        "interrupted"}]
  /\ old \subseteq Jobs /\ registry \subseteq Jobs
  /\ queue \in Seq(Jobs \cup {Sentinel})
  /\ unfinished \in Nat /\ surplus \in Nat /\ threads \in Nat
  /\ looping \in Nat /\ getting \in Nat /\ leaving \in Nat
  /\ sd \in {"up", "drain", "join", "final", "closed"}
  /\ sdJob \in Jobs \cup {NoJob}
  /\ owed \in Nat /\ reaper \in {"idle", "rows"} /\ restarts \in Nat

Abandoned == {j \in running : abandoned[j]}

\* The pool never loses or leaks a worker.  Threads on the books are exactly
\* the idle ones, the ones holding a job and the ones on their way out; a
\* replacement is outstanding for exactly each abandoned handler, never more
\* than one extra pool of them; and until shutdown the workers that will serve
\* the next request number exactly the configured limit.
PoolIsWhole ==
  /\ threads = looping + getting + leaving + Cardinality(Busy)
  /\ surplus = Cardinality(Abandoned) /\ surplus <= Limit
  /\ ~Stopping => looping + getting + Cardinality(Busy) = Limit + surplus

\* unfinished_tasks counts exactly the queued items and the items some thread
\* took and has not reported: neither discard() nor the two drains of
\* shutdown() miscount (task_done() would raise, or a join would hang).
TasksAddUp ==
  unfinished = Len(queue) + Cardinality(Held) + (IF sdJob = NoJob THEN 0 ELSE 1)

\* A job is settled once: whoever settles it first (worker, watchdog, reader
\* or shutdown) decides, and a late result never replaces that outcome.
SettledOnce ==
  [][\A j \in Jobs : Done(j) => outcome'[j] = outcome[j]]_outcome

\* When submit() has answered a caller that will not poll (inline answer,
\* expired read, refusal), the queue keeps nothing of that job: no registry
\* entry, no queued item, and never a row.
AnsweredLeavesNothing ==
  \A j \in Jobs :
    req[j] \in {"refused", "answered", "timed_out"} =>
      /\ j \notin registry /\ rows[j] = "none"
      /\ \A i \in DOMAIN queue : queue[i] # j

\* A row never claims what the job did not do: it says "done" only of a job
\* that returned a storable result, "error" only of one that failed or was too
\* big, and "interrupted" only of a job whose process died.
RowsAreTrue ==
  \A j \in Jobs :
    /\ rows[j] = "done" => outcome[j] = "ok"
    /\ rows[j] = "error" => outcome[j] \notin {"none", "ok"}
    /\ rows[j] = "interrupted" => req[j] = "gone"

\* The final drain of shutdown() can only meet sentinels: no job accepted
\* before the stop is dropped there unsettled.
NoJobDropped ==
  /\ sd \in {"join", "final", "closed"} =>
       \A i \in DOMAIN queue : queue[i] = Sentinel
  /\ sd = "closed" =>
       \A j \in registry : Done(j) \/ wk[j] # "none"

\* A read always comes back to its caller, however many handlers are stuck.
ReadsAreAnswered ==
  \A j \in Reads : req[j] = "waiting" ~> req[j] \in {"answered", "timed_out", "gone"}

\* A handler that never returns is answered with an error all the same.
RunningIsSettled ==
  \A j \in Jobs : wk[j] = "run" ~> Done(j) \/ Stopping

\* The frame that tells a client its job is done is only sent once SQLite
\* holds that result, which is then still there after a restart.
AnnouncedIsDurable ==
  \A j \in Jobs :
    fin[j] = "sent" /\ outcome[j] = "ok" /\ j \notin old => rows[j] = "done"

\* A request that was accepted is eventually settled, even when every worker
\* is stuck in a handler.
AcceptedIsSettled ==
  \A j \in Jobs : req[j] = "waiting" ~> Done(j) \/ req[j] = "gone"
=============================================================================
