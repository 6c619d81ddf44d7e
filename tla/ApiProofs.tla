----------------------------- MODULE ApiProofs ------------------------------
(***************************************************************************)
(* Proofs about what answers requests: the job queue behind the API, the   *)
(* limiter and the tickets in front of it, and the phones that listen      *)
(* (JobQueue, Access, MobileStream), for any finite sets of jobs and of    *)
(* request threads, any pool size, and any sources, phones and operators.  *)
(*                                                                         *)
(* None of the invariants is inductive alone.  That the task count of the  *)
(* queue adds up needs that a queued job is held by no worker, that needs  *)
(* that it is queued once, and that needs to know which requests can still *)
(* own a queued item: IInv.  That a source fails no more often than the    *)
(* limiter allows needs what its entry still says of its failures, and how *)
(* many requests are on their way to fail: AccessInv.  That no phone gets  *)
(* an event after its session ended needs where such a phone can be, and   *)
(* that its token is of no open pairing: MobileInv.                        *)
(***************************************************************************)
EXTENDS JobQueue, Access, MobileStream, ListProofs

\* x is an item of queue q.
In(x, q) == \E i \in DOMAIN q : q[i] = x

\* No job is in q twice; sentinels may repeat.
Uniq(q) == \A i, k \in DOMAIN q : q[i] = q[k] /\ q[i] # Sentinel => i = k

Items == Jobs \cup {Sentinel}

\* A queued job is held by no worker, its request is still inside submit() or
\* polls for it, and only a read that is about to discard it has settled it.
\* Sentinels are queued by shutdown() only, and then jobs are no more.
QueueInv ==
  /\ Uniq(queue)
  /\ \A j \in Jobs : In(j, queue) =>
       /\ wk[j] = "none"
       /\ req[j] \in {"waiting", "claimed", "snapped", "polling", "late", "expired"}
       /\ Done(j) => req[j] = "expired"
  /\ ~Stopping => ~In(Sentinel, queue)
  /\ sd \in {"join", "final", "closed"} => \A j \in Jobs : ~In(j, queue)

\* Where a job can be, given where its request stands.
FlowInv ==
  \A j \in Jobs :
    /\ req[j] = "idle" => wk[j] = "none" /\ j \notin registry /\ ~Done(j)
    /\ wk[j] \in {"settled", "tasked"} => Done(j)
    /\ abandoned[j] => Done(j)
    /\ req[j] \in {"expired", "discarded"} => Done(j)
    /\ j \in registry => Done(j) \/ wk[j] # "none" \/ In(j, queue)
    /\ req[j] \in {"refused", "answered", "timed_out"} => j \notin registry

\* Only a job claimed for polling is ever written, and with its outcome.
RowInv ==
  \A j \in Jobs :
    /\ fin[j] \in {"write", "frame"} => Persisted(j)
    /\ rows[j] # "none" => Persisted(j) \/ req[j] = "gone"
    /\ snap[j] = "done" => outcome[j] \in {"ok", "big"}
    /\ snap[j] = "error" => outcome[j] \in {"raised", "timeout", "shutdown"}
    /\ rows[j] = "done" => outcome[j] = "ok"
    /\ rows[j] = "error" => outcome[j] \notin {"none", "ok"}
    /\ rows[j] = "interrupted" => req[j] = "gone"

IInv ==
  TypeOK /\ PoolIsWhole /\ TasksAddUp /\ QueueInv /\ FlowInv /\ RowInv

-----------------------------------------------------------------------------
(* Facts about the operations on the queue. *)

\* put(): the new item is in, everything else is as before.
LEMMA QueueAppend ==
  ASSUME NEW q \in Seq(Items), NEW x \in Items
  PROVE  /\ Append(q, x) \in Seq(Items)
         /\ Len(Append(q, x)) = Len(q) + 1
         /\ \A y : In(y, Append(q, x)) <=> In(y, q) \/ y = x
         /\ Uniq(q) /\ ~In(x, q) => Uniq(Append(q, x))
  <1>1. /\ Append(q, x) \in Seq(Items)
        /\ Len(Append(q, x)) = Len(q) + 1
        /\ \A i \in 1..Len(q) : Append(q, x)[i] = q[i]
        /\ Append(q, x)[Len(q) + 1] = x
    BY AppendProperties
  <1>2. /\ DOMAIN q = 1..Len(q) /\ Len(q) \in Nat
        /\ DOMAIN Append(q, x) = 1..(Len(q) + 1)
    BY <1>1, LenProperties
  <1>3. \A y : In(y, Append(q, x)) <=> In(y, q) \/ y = x
    BY <1>1, <1>2 DEF In
  <1>4. Uniq(q) /\ ~In(x, q) => Uniq(Append(q, x))
    BY <1>1, <1>2 DEF In, Uniq
  <1> QED BY <1>1, <1>3, <1>4

\* get(): the head is out; if it was a job, it is nowhere else.
LEMMA QueueTail ==
  ASSUME NEW q \in Seq(Items), q # <<>>
  PROVE  /\ Tail(q) \in Seq(Items) /\ Head(q) \in Items
         /\ Len(q) \in Nat /\ Len(q) > 0 /\ Len(Tail(q)) = Len(q) - 1
         /\ In(Head(q), q)
         /\ \A y : In(y, Tail(q)) => In(y, q)
         /\ \A y : In(y, q) /\ y # Head(q) => In(y, Tail(q))
         /\ Uniq(q) => Uniq(Tail(q))
         /\ Uniq(q) /\ Head(q) # Sentinel => ~In(Head(q), Tail(q))
  <1>1. /\ Tail(q) \in Seq(Items) /\ Head(q) \in Items
        /\ Len(Tail(q)) = Len(q) - 1
        /\ \A i \in 1..Len(Tail(q)) : Tail(q)[i] = q[i + 1]
    BY HeadTailProperties
  <1>2. /\ DOMAIN q = 1..Len(q) /\ Len(q) \in Nat /\ Len(q) > 0
        /\ DOMAIN Tail(q) = 1..(Len(q) - 1)
        /\ Head(q) = q[1]
    BY <1>1, LenProperties, EmptySeq
  <1>3. In(Head(q), q)
    BY <1>2 DEF In
  <1>4. \A y : In(y, Tail(q)) => In(y, q)
    BY <1>1, <1>2 DEF In
  <1>5. ASSUME NEW y, In(y, q), y # Head(q)
        PROVE  In(y, Tail(q))
    <2>1. PICK i \in 1..Len(q) : q[i] = y
      BY <1>2, <1>5 DEF In
    <2>2. i - 1 \in DOMAIN Tail(q) /\ Tail(q)[i - 1] = y
      BY <1>1, <1>2, <1>5, <2>1
    <2> QED BY <2>2 DEF In
  <1>6. Uniq(q) => Uniq(Tail(q))
    BY <1>1, <1>2 DEF Uniq
  <1>7. Uniq(q) /\ Head(q) # Sentinel => ~In(Head(q), Tail(q))
    BY <1>1, <1>2 DEF In, Uniq
  <1> QED BY <1>1, <1>2, <1>3, <1>4, <1>5, <1>6, <1>7

\* discard(): one item is out; if it was a job, it is nowhere else.
LEMMA RemoveFacts ==
  ASSUME NEW q \in Seq(Items), NEW i \in DOMAIN q
  PROVE  /\ TakenOut(q, i) \in Seq(Items)
         /\ Len(q) \in Nat /\ Len(q) > 0 /\ Len(TakenOut(q, i)) = Len(q) - 1
         /\ \A y : In(y, TakenOut(q, i)) => In(y, q)
         /\ \A y : In(y, q) /\ y # q[i] => In(y, TakenOut(q, i))
         /\ Uniq(q) => Uniq(TakenOut(q, i))
         /\ Uniq(q) /\ q[i] # Sentinel => ~In(q[i], TakenOut(q, i))
  <1> DEFINE r == TakenOut(q, i)
  <1>1. /\ DOMAIN q = 1..Len(q) /\ Len(q) \in Nat /\ i \in 1..Len(q)
        /\ \A k \in 1..Len(q) : q[k] \in Items
    BY LenProperties, ElementOfSeq
  <1>2. /\ r \in [1..(Len(q) - 1) -> Items]
        /\ \A k \in 1..(Len(q) - 1) : r[k] = IF k < i THEN q[k] ELSE q[k + 1]
    BY <1>1 DEF TakenOut
  <1> HIDE DEF r
  <1>3. r \in Seq(Items) /\ DOMAIN r = 1..(Len(q) - 1) /\ Len(q) > 0
    <2>1. Len(q) - 1 \in Nat
      BY <1>1
    <2> QED BY <1>1, <1>2, <2>1, SeqDef
  <1>4. Len(r) = Len(q) - 1
    <2>1. Len(r) \in Nat /\ 1..Len(r) = 1..(Len(q) - 1)
      BY <1>3, LenProperties
    <2>2. \A m, n \in Nat : 1..m = 1..n => m = n
      <3>1. SUFFICES ASSUME NEW m \in Nat, NEW n \in Nat, 1..m = 1..n, m < n
                     PROVE  FALSE
        OBVIOUS
      <3>2. n \in 1..n /\ n \notin 1..m
        BY <3>1
      <3> QED BY <3>1, <3>2
    <2>3. Len(q) - 1 \in Nat
      BY <1>1
    <2> QED BY <2>1, <2>2, <2>3
  <1>5. \A y : In(y, r) => In(y, q)
    BY <1>1, <1>2, <1>3 DEF In
  <1>6. ASSUME NEW y, In(y, q), y # q[i]
        PROVE  In(y, r)
    <2>1. PICK k \in 1..Len(q) : q[k] = y
      BY <1>1, <1>6 DEF In
    <2>2. CASE k < i
      BY <1>1, <1>2, <1>3, <2>1, <2>2 DEF In
    <2>3. CASE k > i
      <3>1. k - 1 \in DOMAIN r /\ r[k - 1] = y
        BY <1>1, <1>2, <1>3, <2>1, <2>3
      <3> QED BY <3>1 DEF In
    <2> QED BY <1>1, <1>6, <2>1, <2>2, <2>3
  <1>7. Uniq(q) => Uniq(r)
    <2>1. SUFFICES ASSUME Uniq(q), NEW a \in 1..(Len(q) - 1),
                          NEW b \in 1..(Len(q) - 1),
                          r[a] = r[b], r[a] # Sentinel
                   PROVE  a = b
      BY <1>3 DEF Uniq
    <2> QED BY SMTT(30), <1>1, <1>2, <2>1 DEF Uniq
  <1>8. Uniq(q) /\ q[i] # Sentinel => ~In(q[i], r)
    BY <1>1, <1>2, <1>3 DEF In, Uniq
  <1> QED BY <1>1, <1>3, <1>4, <1>5, <1>6, <1>7, <1>8 DEF r

\* The sentinels shutdown() puts on the drained queue.
LEMMA SentinelFacts ==
  ASSUME NEW n \in Nat
  PROVE  LET q == [i \in 1..n |-> Sentinel]
         IN  q \in Seq(Items) /\ Len(q) = n /\ Uniq(q)
             /\ \A j \in Jobs : ~In(j, q)
  <1> DEFINE q == [i \in 1..n |-> Sentinel]
  <1>1. q \in [1..n -> Items] /\ DOMAIN q = 1..n
    BY DEF Items
  <1>2. q \in Seq(Items)
    BY <1>1, SeqDef
  <1>3. Len(q) = n
    BY <1>1, <1>2, LenProperties
  <1>4. Uniq(q)
    BY DEF Uniq
  <1>5. \A j \in Jobs : ~In(j, q)
    BY JobsAssumption DEF In, Jobs
  <1> QED BY <1>2, <1>3, <1>4, <1>5

\* The empty queue.
LEMMA EmptyFacts ==
  <<>> \in Seq(Items) /\ Len(<<>>) = 0 /\ Uniq(<<>>) /\ \A y : ~In(y, <<>>)
  <1>1. <<>> \in Seq(Items) /\ Len(<<>>) = 0
    BY EmptySeq
  <1> QED BY <1>1 DEF In, Uniq

-----------------------------------------------------------------------------
(* Counting: the sets of jobs the invariants count are finite. *)

\* The jobs of the model, reads and deferred ones, are finitely many.
LEMMA JobsFinite == IsFiniteSet(Jobs)
  BY JobsAssumption, FS_Union DEF Jobs

\* How many jobs are in some state is a natural number.
LEMMA CountOf ==
  ASSUME NEW S \in SUBSET Jobs
  PROVE  IsFiniteSet(S) /\ Cardinality(S) \in Nat
  BY JobsFinite, FS_Subset, FS_CardinalityType

\* One more job in a counted set is one more in its count.
LEMMA CountAdd ==
  ASSUME NEW S \in SUBSET Jobs, NEW j \in Jobs, j \notin S
  PROVE  Cardinality(S \cup {j}) = Cardinality(S) + 1
  BY CountOf, FS_AddElement

\* One job less in a counted set is one less in its count.
LEMMA CountDrop ==
  ASSUME NEW S \in SUBSET Jobs, NEW j \in S
  PROVE  Cardinality(S \ {j}) = Cardinality(S) - 1 /\ Cardinality(S) > 0
  <1>1. IsFiniteSet(S) /\ Cardinality(S) \in Nat /\ S \ {j} \in SUBSET Jobs
    BY CountOf
  <1>2. Cardinality(S \ {j}) = Cardinality(S) - 1
    BY <1>1, FS_RemoveElement
  <1>3. Cardinality(S \ {j}) \in Nat
    BY <1>1, CountOf
  <1> QED BY <1>1, <1>2, <1>3

-----------------------------------------------------------------------------
(* What _settle() does, whoever calls it. *)

\* _settle() changes the outcome of its job only, and either nothing of the
\* pool or one replacement worker more.
LEMMA SettleFacts ==
  ASSUME TypeOK, NEW j \in Jobs, NEW o \in Outcomes,
         NEW by \in {"worker", "watchdog", "reader", "shutdown"},
         NEW t \in BOOLEAN, Settle(j, o, by, t)
  PROVE  /\ outcome' \in [Jobs -> Outcomes \cup {"none"}]
         /\ fin' \in [Jobs -> {"none", "write", "frame", "sent"}]
         /\ finBy' \in [Jobs -> {"none", "worker", "watchdog", "reader", "shutdown"}]
         /\ abandoned' \in [Jobs -> BOOLEAN]
         /\ looping' \in Nat
         /\ outcome'[j] # "none"
         /\ \A k \in Jobs : Done(k) => outcome'[k] = outcome[k]
         /\ \A k \in Jobs : k # j => /\ outcome'[k] = outcome[k]
                                     /\ fin'[k] = fin[k]
                                     /\ abandoned'[k] = abandoned[k]
         /\ fin'[j] \in {"write", "frame"} => fin'[j] = fin[j] \/ Persisted(j)
  <1>1. CASE Done(j)
    BY <1>1 DEF Settle, TypeOK, Done, setVars, poolVars
  <1>2. CASE ~Done(j)
    <2>1. /\ RecordOutcome(j, o, by)
          /\ \/ UNCHANGED <<poolVars, looping>>
             \/ /\ abandoned' = [abandoned EXCEPT ![j] = TRUE]
                /\ looping' = looping + 1
      BY <1>2 DEF Settle
    <2>2. abandoned' \in [Jobs -> BOOLEAN] /\ looping' \in Nat
          /\ \A k \in Jobs : k # j => abandoned'[k] = abandoned[k]
      <3>1. CASE UNCHANGED <<poolVars, looping>>
        BY <3>1 DEF TypeOK, poolVars
      <3>2. CASE /\ abandoned' = [abandoned EXCEPT ![j] = TRUE]
                 /\ looping' = looping + 1
        BY <3>2 DEF TypeOK
      <3> QED BY <2>1, <3>1, <3>2
    <2>3. /\ outcome' \in [Jobs -> Outcomes \cup {"none"}]
          /\ outcome'[j] = o
          /\ \A k \in Jobs : k # j => outcome'[k] = outcome[k]
      BY <2>1 DEF RecordOutcome, TypeOK
    <2>4. /\ fin' \in [Jobs -> {"none", "write", "frame", "sent"}]
          /\ \A k \in Jobs : k # j => fin'[k] = fin[k]
          /\ fin'[j] \in {"write", "frame"} => Persisted(j)
      BY <2>1 DEF RecordOutcome, TypeOK
    <2>5. finBy' \in [Jobs -> {"none", "worker", "watchdog", "reader", "shutdown"}]
      BY <2>1 DEF RecordOutcome, TypeOK
    <2> QED BY <1>2, <2>2, <2>3, <2>4, <2>5 DEF Done, Outcomes
  <1> QED BY <1>1, <1>2

\* Settling a job, with or without a replacement, leaves the pool whole.
LEMMA SettlePool ==
  ASSUME IInv, NEW j \in Jobs, NEW o, NEW by, NEW t, Settle(j, o, by, t),
         Busy' = Busy, running' = running, UNCHANGED <<getting, leaving, sd>>
  PROVE  PoolIsWhole'
  <1> DEFINE A == Abandoned
             B == Busy
  <1>1. /\ Cardinality(A) \in Nat /\ Cardinality(B) \in Nat
        /\ A \in SUBSET Jobs
    BY CountOf DEF Abandoned, Busy, running
  <1>2. /\ threads = looping + getting + leaving + Cardinality(B)
        /\ surplus = Cardinality(A) /\ surplus <= Limit
        /\ ~Stopping => looping + getting + Cardinality(B) = Limit + surplus
        /\ threads \in Nat /\ looping \in Nat /\ getting \in Nat /\ leaving \in Nat
        /\ surplus \in Nat /\ Limit \in Nat
    BY BoundsAssumption DEF IInv, PoolIsWhole, TypeOK
  <1>3. CASE UNCHANGED <<poolVars, looping>>
    <2>1. A' = A /\ B' = B /\ (Stopping' <=> Stopping)
      <3>1. abandoned' = abandoned /\ sd' = sd
        BY <1>3 DEF poolVars
      <3> QED BY <3>1 DEF Abandoned, Stopping
    <2> HIDE DEF A, B
    <2>2. /\ threads' = looping' + getting' + leaving' + Cardinality(B')
          /\ surplus' = Cardinality(A') /\ surplus' <= Limit
          /\ ~Stopping' => looping' + getting' + Cardinality(B') = Limit + surplus'
      BY <1>2, <1>3, <2>1 DEF poolVars
    <2> QED BY <2>2 DEF PoolIsWhole, A, B
  <1>4. CASE /\ ~Done(j) /\ Replaces(j, t)
             /\ abandoned' = [abandoned EXCEPT ![j] = TRUE]
             /\ surplus' = surplus + 1
             /\ threads' = threads + 1
             /\ looping' = looping + 1
    <2>1. ~abandoned[j] /\ j \in running /\ surplus < Limit
      BY <1>4 DEF IInv, FlowInv, Replaces, Started
    <2>2. A' = A \cup {j} /\ j \notin A /\ B' = B /\ (Stopping' <=> Stopping)
      BY <1>4, <2>1 DEF Abandoned, Stopping, IInv, TypeOK, running
    <2>3. Cardinality(A') = Cardinality(A) + 1
      BY <1>1, <2>2, CountAdd
    <2> HIDE DEF A, B
    <2>4. /\ threads' = looping' + getting' + leaving' + Cardinality(B')
          /\ surplus' = Cardinality(A') /\ surplus' <= Limit
          /\ ~Stopping' => looping' + getting' + Cardinality(B') = Limit + surplus'
      BY <1>1, <1>2, <1>4, <2>1, <2>2, <2>3
    <2> QED BY <2>4 DEF PoolIsWhole, A, B
  <1> QED BY <1>3, <1>4 DEF Settle

-----------------------------------------------------------------------------
(* Each step keeps the pool whole. *)

\* The pool is whole again when the workers gained, lost or moved balance.
LEMMA PoolBalance ==
  /\ IInv /\ sd' = sd
  /\ threads' - threads = (looping' - looping) + (getting' - getting)
       + (leaving' - leaving) + (Cardinality(Busy') - Cardinality(Busy))
  /\ surplus' = Cardinality(Abandoned') /\ surplus' <= surplus
  /\ sd = "up" => looping' + getting' + Cardinality(Busy') - surplus'
                    = looping + getting + Cardinality(Busy) - surplus
  /\ looping' \in Int /\ getting' \in Int /\ leaving' \in Int /\ threads' \in Int
  /\ surplus' \in Int /\ Cardinality(Busy') \in Int
  => PoolIsWhole'
  <1>1. Cardinality(Abandoned) \in Nat /\ Cardinality(Busy) \in Nat
    BY CountOf DEF Abandoned, Busy, running
  <1>2. ASSUME IInv
        PROVE  /\ threads = looping + getting + leaving + Cardinality(Busy)
               /\ surplus <= Limit
    BY <1>2 DEF PoolIsWhole, IInv
  <1>3. ASSUME IInv, sd = "up"
        PROVE  looping + getting + Cardinality(Busy) = Limit + surplus
    BY <1>3 DEF PoolIsWhole, IInv, Stopping
  <1>4. ASSUME IInv
        PROVE  /\ threads \in Int /\ looping \in Int /\ getting \in Int
               /\ leaving \in Int /\ surplus \in Int /\ Limit \in Int
    BY <1>4, BoundsAssumption DEF IInv, TypeOK
  <1>5. ASSUME IInv, threads' - threads = (looping' - looping) + (getting' - getting)
                 + (leaving' - leaving) + (Cardinality(Busy') - Cardinality(Busy)),
               looping' \in Int, getting' \in Int, leaving' \in Int,
               threads' \in Int, Cardinality(Busy') \in Int
        PROVE  threads' = looping' + getting' + leaving' + Cardinality(Busy')
    BY <1>1, <1>2, <1>4, <1>5
  <1>6. ASSUME IInv, surplus' <= surplus, surplus' \in Int
        PROVE  surplus' <= Limit
    BY <1>2, <1>4, <1>6
  <1>7. ASSUME IInv, sd = "up",
               looping' + getting' + Cardinality(Busy') - surplus'
                 = looping + getting + Cardinality(Busy) - surplus,
               looping' \in Int, getting' \in Int, surplus' \in Int,
               Cardinality(Busy') \in Int
        PROVE  looping' + getting' + Cardinality(Busy') = Limit + surplus'
    <2>1. looping + getting + Cardinality(Busy) - surplus = Limit
      <3>1. \A x, y, z, u, n \in Int : x + y + z = n + u => x + y + z - u = n
        OBVIOUS
      <3>2. looping + getting + Cardinality(Busy) = Limit + surplus
        BY <1>3, <1>7
      <3>3. looping \in Int /\ getting \in Int /\ surplus \in Int /\ Limit \in Int
            /\ Cardinality(Busy) \in Int
        BY <1>1, <1>4, <1>7
      <3> QED BY <3>1, <3>2, <3>3
    <2>2. looping' + getting' + Cardinality(Busy') - surplus' = Limit
      BY <1>7, <2>1
    <2>3. \A x, y, z, u, n \in Int : x + y + z - u = n => x + y + z = n + u
      OBVIOUS
    <2> QED BY <1>4, <1>7, <2>2, <2>3
  <1> QED BY <1>5, <1>6, <1>7 DEF PoolIsWhole, Stopping

\* Every operation of the queue keeps the pool whole: a worker that starts,
\* is abandoned, rejoins or leaves is counted by each of them.
LEMMA PoolStep ==
  ASSUME IInv, [Next]_vars
  PROVE  PoolIsWhole'
  <1>1. /\ Cardinality(Abandoned) \in Nat /\ Cardinality(Busy) \in Nat
        /\ Abandoned \in SUBSET Jobs /\ Busy \in SUBSET Jobs
        /\ threads \in Nat /\ looping \in Nat /\ getting \in Nat /\ leaving \in Nat
        /\ surplus \in Nat /\ surplus = Cardinality(Abandoned)
        /\ wk \in [Jobs -> {"none", "taken", "checked", "run", "settled", "tasked"}]
        /\ abandoned \in [Jobs -> BOOLEAN]
    BY CountOf DEF Abandoned, Busy, running, IInv, TypeOK, PoolIsWhole
  <1>2. ASSUME UNCHANGED <<wk, poolVars, idleVars>>, Stopping => Stopping'
        PROVE  PoolIsWhole'
    <2>1. /\ Busy' = Busy /\ Abandoned' = Abandoned
          /\ UNCHANGED <<threads, looping, getting, leaving, surplus>>
      BY <1>2 DEF Busy, Abandoned, running, poolVars, idleVars
    <2> QED BY <1>2, <2>1 DEF PoolIsWhole, IInv
  <1>3. ASSUME NEW j \in Jobs, ReadSettles(j)
        PROVE  PoolIsWhole'
    <2>1. /\ Settle(j, "timeout", "reader", TRUE) /\ wk' = wk
          /\ UNCHANGED <<getting, leaving, sd>>
      BY <1>3 DEF ReadSettles, sdVars
    <2>2. Busy' = Busy /\ running' = running
      BY <2>1 DEF Busy, running
    <2> QED BY <2>1, <2>2, SettlePool
  <1>4. ASSUME NEW j \in Jobs, AbandonOverdue(j)
        PROVE  PoolIsWhole'
    <2>1. /\ Settle(j, "timeout", "watchdog", TRUE) /\ wk' = wk
          /\ UNCHANGED <<getting, leaving, sd>>
      BY <1>4 DEF AbandonOverdue, sdVars
    <2>2. Busy' = Busy /\ running' = running
      BY <2>1 DEF Busy, running
    <2> QED BY <2>1, <2>2, SettlePool
  <1>5. ASSUME NEW j \in Jobs, DrainTake(j)
        PROVE  PoolIsWhole'
    <2>1. /\ Settle(j, "shutdown", "shutdown", FALSE) /\ wk' = wk
          /\ UNCHANGED <<getting, leaving, sd>>
      BY <1>5 DEF DrainTake
    <2>2. Busy' = Busy /\ running' = running
      BY <2>1 DEF Busy, running
    <2> QED BY <2>1, <2>2, SettlePool
  <1>6. ASSUME NEW j \in Jobs, NEW r \in HandlerResults, HandlerReturns(j, r)
        PROVE  PoolIsWhole'
    <2>1. /\ Settle(j, r, "worker", FALSE)
          /\ wk[j] = "run" /\ wk' = [wk EXCEPT ![j] = "settled"]
          /\ UNCHANGED <<getting, leaving, sd>>
      BY <1>6 DEF HandlerReturns, sdVars
    <2>2. Busy' = Busy /\ running' = running
      BY <1>1, <2>1 DEF Busy, running
    <2> QED BY <2>1, <2>2, SettlePool
  <1>7. ASSUME NEW j \in Jobs, StopTest(j)
        PROVE  PoolIsWhole'
    <2>1. /\ wk[j] = "taken" /\ wk' = [wk EXCEPT ![j] = "checked"]
          /\ UNCHANGED <<getting, leaving, sd>>
          /\ \/ Settle(j, "shutdown", "worker", FALSE)
             \/ UNCHANGED <<poolVars, looping>>
      BY <1>7 DEF StopTest, sdVars
    <2>2. Busy' = Busy /\ running' = running
      BY <1>1, <2>1 DEF Busy, running
    <2>3. CASE UNCHANGED <<poolVars, looping>>
      <3>1. /\ Abandoned' = Abandoned
            /\ UNCHANGED <<threads, looping, surplus>>
        BY <2>2, <2>3 DEF Abandoned, poolVars
      <3> QED BY <2>1, <2>2, <3>1 DEF PoolIsWhole, IInv, Stopping
    <2> QED BY <2>1, <2>2, <2>3, SettlePool
  <1>8. ASSUME NEW j \in Jobs, TaskDone(j) \/ StartHandler(j)
        PROVE  PoolIsWhole'
    <2>1. /\ UNCHANGED <<poolVars, idleVars, sd>>
          /\ \/ wk[j] = "settled" /\ wk' = [wk EXCEPT ![j] = "tasked"]
             \/ /\ wk[j] = "checked" /\ ~Done(j)
                /\ wk' = [wk EXCEPT ![j] = "run"]
      BY <1>8 DEF TaskDone, StartHandler, sdVars
    <2>2. /\ UNCHANGED <<threads, looping, getting, leaving, surplus, abandoned>>
          /\ ~Done(j) => ~abandoned[j]
      BY <2>1 DEF poolVars, idleVars, IInv, FlowInv
    <2>3. Busy' = Busy
      BY <1>1, <2>1 DEF Busy
    <2>4. Abandoned' = Abandoned
      BY <1>1, <2>1, <2>2 DEF Abandoned, running
    <2> QED BY <2>1, <2>2, <2>3, <2>4 DEF PoolIsWhole, IInv, Stopping
  <1>9. CASE LoopTest
    <2>1. /\ UNCHANGED <<wk, poolVars, sd>>
          /\ looping > 0 /\ looping' = looping - 1
          /\ \/ Stopping /\ leaving' = leaving + 1 /\ getting' = getting
             \/ ~Stopping /\ getting' = getting + 1 /\ leaving' = leaving
      BY <1>9 DEF LoopTest, sdVars
    <2>2. Busy' = Busy /\ Abandoned' = Abandoned /\ UNCHANGED <<threads, surplus>>
      BY <2>1 DEF Busy, Abandoned, running, poolVars
    <2> QED BY <1>1, <2>1, <2>2, PoolBalance DEF Stopping
  <1>10. ASSUME NEW j \in Jobs, GetJob(j)
         PROVE  PoolIsWhole'
    <2>1. /\ UNCHANGED <<poolVars, looping, leaving, sd>>
          /\ queue # <<>> /\ Head(queue) = j
          /\ getting > 0 /\ getting' = getting - 1
          /\ wk' = [wk EXCEPT ![j] = "taken"]
      BY <1>10 DEF GetJob, sdVars
    <2>2. wk[j] = "none"
      <3>1. In(j, queue)
        BY <2>1, QueueTail DEF IInv, TypeOK, Items
      <3> QED BY <3>1 DEF IInv, QueueInv
    <2>3. /\ Busy' = Busy \cup {j} /\ j \notin Busy
          /\ UNCHANGED <<threads, surplus, abandoned>>
      BY <1>1, <2>1, <2>2 DEF Busy, poolVars
    <2>4. Abandoned' = Abandoned
      BY <1>1, <2>1, <2>2, <2>3 DEF Abandoned, running
    <2>5. Cardinality(Busy') = Cardinality(Busy) + 1
      BY <1>1, <2>3, CountAdd
    <2> QED BY <1>1, <2>1, <2>3, <2>4, <2>5, PoolBalance
  <1>11. CASE GetSentinel
    <2>1. /\ UNCHANGED <<wk, poolVars, looping, sd>>
          /\ queue # <<>> /\ Head(queue) = Sentinel
          /\ getting' = getting - 1 /\ leaving' = leaving + 1
      BY <1>11 DEF GetSentinel, sdVars
    <2>2. Stopping
      <3>1. In(Sentinel, queue)
        BY <2>1, QueueTail DEF IInv, TypeOK, Items
      <3> QED BY <3>1 DEF IInv, QueueInv
    <2>3. Busy' = Busy /\ Abandoned' = Abandoned /\ UNCHANGED <<threads, surplus>>
      BY <2>1 DEF Busy, Abandoned, running, poolVars
    <2> QED BY <1>1, <2>1, <2>2, <2>3, PoolBalance DEF Stopping
  <1>12. ASSUME NEW j \in Jobs, SkipSettled(j)
         PROVE  PoolIsWhole'
    <2>1. /\ UNCHANGED <<poolVars, getting, leaving, sd>>
          /\ wk[j] = "checked" /\ wk' = [wk EXCEPT ![j] = "none"]
          /\ looping' = looping + 1
      BY <1>12 DEF SkipSettled, sdVars
    <2>2. /\ Busy' = Busy \ {j} /\ j \in Busy
          /\ UNCHANGED <<threads, surplus, abandoned>>
      BY <1>1, <2>1 DEF Busy, poolVars
    <2>3. Abandoned' = Abandoned
      BY <1>1, <2>1, <2>2 DEF Abandoned, running
    <2>4. Cardinality(Busy') = Cardinality(Busy) - 1
      BY <1>1, <2>2, CountDrop
    <2> QED BY <1>1, <2>1, <2>2, <2>3, <2>4, PoolBalance DEF Stopping
  <1>13. ASSUME NEW j \in Jobs, Rejoin(j)
         PROVE  PoolIsWhole'
    <2>1. /\ UNCHANGED <<threads, getting, sd>>
          /\ wk[j] = "tasked" /\ wk' = [wk EXCEPT ![j] = "none"]
          /\ abandoned' = [abandoned EXCEPT ![j] = FALSE]
      BY <1>13 DEF Rejoin, sdVars
    <2>2. Busy' = Busy \ {j} /\ j \in Busy
      BY <1>1, <2>1 DEF Busy
    <2>3. Cardinality(Busy') = Cardinality(Busy) - 1
      BY <1>1, <2>2, CountDrop
    <2>4. Abandoned' = Abandoned \ {j}
      BY <1>1, <2>1 DEF Abandoned, running
    <2>5. CASE abandoned[j]
      <3>1. surplus' = surplus - 1 /\ leaving' = leaving + 1 /\ looping' = looping
        BY <1>13, <2>5 DEF Rejoin
      <3>2. j \in Abandoned
        BY <2>1, <2>5 DEF Abandoned, running
      <3>3. Cardinality(Abandoned') = Cardinality(Abandoned) - 1
        BY <1>1, <2>4, <3>2, CountDrop
      <3> QED BY <1>1, <2>1, <2>3, <3>1, <3>3, PoolBalance DEF Stopping
    <2>6. CASE ~abandoned[j]
      <3>1. surplus' = surplus /\ leaving' = leaving /\ looping' = looping + 1
        BY <1>13, <2>6 DEF Rejoin
      <3>2. Abandoned' = Abandoned
        BY <2>4, <2>6 DEF Abandoned
      <3> QED BY <1>1, <2>1, <2>3, <3>1, <3>2, PoolBalance DEF Stopping
    <2> QED BY <2>5, <2>6
  <1>14. CASE Leave
    <2>1. /\ UNCHANGED <<wk, surplus, abandoned, looping, getting, sd>>
          /\ leaving' = leaving - 1 /\ threads' = threads - 1
      BY <1>14 DEF Leave, sdVars
    <2>2. Busy' = Busy /\ Abandoned' = Abandoned
      BY <2>1 DEF Busy, Abandoned, running
    <2> QED BY <1>1, <2>1, <2>2, PoolBalance DEF Stopping
  <1>15. CASE Restart
    <2>1. /\ wk' = [j \in Jobs |-> "none"]
          /\ surplus' = 0 /\ threads' = Limit
          /\ looping' = Limit /\ getting' = 0 /\ leaving' = 0
      BY <1>15 DEF Restart
    <2>2. Busy' = {} /\ Abandoned' = {}
      BY <2>1 DEF Busy, Abandoned, running
    <2> QED BY <2>1, <2>2, FS_EmptySet, BoundsAssumption DEF PoolIsWhole
  <1>16. ASSUME NEW j \in Jobs,
                \/ Submit(j) \/ SubmitRefused(j) \/ AnswerInline(j) \/ Claim(j)
                \/ ClaimSnapshot(j) \/ ClaimWrite(j) \/ ReadTimesOut(j)
                \/ ReadDiscards(j) \/ ReadForgets(j) \/ FinalWrite(j)
                \/ FinalFrame(j) \/ Age(j)
         PROVE  PoolIsWhole'
    <2>1. UNCHANGED <<wk, poolVars, idleVars, sd>>
      BY <1>16 DEF Submit, SubmitRefused, AnswerInline, Claim, ClaimSnapshot,
         ClaimWrite, ReadTimesOut, ReadDiscards, ReadForgets, FinalWrite,
         FinalFrame, Age, sdVars
    <2> QED BY <1>2, <2>1 DEF Stopping
  <1>17. CASE \/ ReapRows \/ ReapRegistry \/ DrainDone \/ PutSentinels
              \/ JoinEnds \/ FinalDrain \/ Shutdown \/ UNCHANGED vars
    <2>1. UNCHANGED <<wk, poolVars, idleVars>> /\ (Stopping => Stopping')
      BY <1>17 DEF ReapRows, ReapRegistry, DrainDone, PutSentinels, JoinEnds,
         FinalDrain, Shutdown, vars, sdVars, Stopping
    <2> QED BY <1>2, <2>1
  <1> QED
    BY <1>3, <1>4, <1>5, <1>6, <1>7, <1>8, <1>9, <1>10, <1>11, <1>12, <1>13,
       <1>14, <1>15, <1>16, <1>17
    DEF Next, RequestStep, WorkerStep, FinishStep, ShutdownStep

-----------------------------------------------------------------------------
(* Each step keeps the task count. *)

\* Every operation keeps unfinished_tasks equal to what was put and not yet
\* reported by task_done().
LEMMA TasksStep ==
  ASSUME IInv, [Next]_vars
  PROVE  TasksAddUp'
  <1> DEFINE h == Cardinality(Held)
             x == IF sdJob = NoJob THEN 0 ELSE 1
  <1>1. /\ h \in Nat /\ x \in Nat /\ Held \in SUBSET Jobs
        /\ unfinished \in Nat /\ queue \in Seq(Items) /\ Len(queue) \in Nat
        /\ unfinished = Len(queue) + h + x
        /\ wk \in [Jobs -> {"none", "taken", "checked", "run", "settled", "tasked"}]
    <2>1. Held \in SUBSET Jobs /\ h \in Nat
      BY CountOf DEF Held
    <2>2. queue \in Seq(Items) /\ Len(queue) \in Nat
      BY LenProperties DEF IInv, TypeOK, Items
    <2> QED BY <2>1, <2>2 DEF IInv, TypeOK, TasksAddUp
  <1>2. SUFFICES unfinished' = Len(queue') + h' + x'
    BY DEF TasksAddUp
  <1>3. NoJob \notin Jobs /\ Sentinel \notin Jobs
    BY JobsAssumption DEF Jobs
  <1>4. ASSUME Held' = Held, UNCHANGED <<qVars, sdJob>>
        PROVE  unfinished' = Len(queue') + h' + x'
    BY <1>1, <1>4 DEF qVars
  <1> HIDE DEF h, x
  <1>5. ASSUME NEW j \in Jobs, Submit(j)
        PROVE  unfinished' = Len(queue') + h' + x'
    <2>1. /\ queue' = Append(queue, j) /\ unfinished' = unfinished + 1
          /\ wk' = wk /\ sdJob' = sdJob
      BY <1>5 DEF Submit, sdVars
    <2>2. h' = h /\ x' = x /\ Len(queue') = Len(queue) + 1
      BY <1>1, <2>1, QueueAppend DEF h, x, Held, Items
    <2> QED BY <1>1, <2>1, <2>2
  <1>6. ASSUME NEW j \in Jobs, ReadDiscards(j)
        PROVE  unfinished' = Len(queue') + h' + x'
    <2>1. Discard(j) /\ wk' = wk /\ sdJob' = sdJob
      BY <1>6 DEF ReadDiscards, sdVars
    <2>2. Held' = Held /\ h' = h /\ x' = x
      BY <2>1 DEF h, x, Held
    <2>3. CASE UNCHANGED qVars
      BY <1>4, <2>1, <2>2, <2>3
    <2>4. ASSUME NEW i \in DOMAIN queue, queue' = TakenOut(queue, i),
                 unfinished' = unfinished - 1
          PROVE  unfinished' = Len(queue') + h' + x'
      <3>1. Len(queue') = Len(queue) - 1
        BY <1>1, <2>4, RemoveFacts
      <3> QED BY <1>1, <2>2, <2>4, <3>1
    <2> QED BY <2>1, <2>3, <2>4 DEF Discard
  <1>7. ASSUME NEW j \in Jobs, GetJob(j)
        PROVE  unfinished' = Len(queue') + h' + x'
    <2>1. /\ queue # <<>> /\ Head(queue) = j /\ queue' = Tail(queue)
          /\ wk' = [wk EXCEPT ![j] = "taken"]
          /\ unfinished' = unfinished /\ sdJob' = sdJob
      BY <1>7 DEF GetJob, sdVars
    <2>2. In(j, queue) /\ Len(queue') = Len(queue) - 1
      BY <1>1, <2>1, QueueTail
    <2>3. wk[j] = "none"
      BY <2>2 DEF IInv, QueueInv
    <2>4. Held' = Held \cup {j} /\ j \notin Held /\ x' = x
      BY <1>1, <2>1, <2>3 DEF Held, x
    <2>5. h' = h + 1
      BY <1>1, <2>4, CountAdd DEF h
    <2> QED BY <1>1, <2>1, <2>2, <2>4, <2>5
  <1>8. CASE GetSentinel
    <2>1. /\ queue # <<>> /\ queue' = Tail(queue) /\ wk' = wk
          /\ unfinished' = unfinished - 1 /\ sdJob' = sdJob
      BY <1>8 DEF GetSentinel, sdVars
    <2>2. Len(queue') = Len(queue) - 1
      BY <1>1, <2>1, QueueTail
    <2>3. h' = h /\ x' = x
      BY <2>1 DEF h, x, Held
    <2> QED BY <1>1, <2>1, <2>2, <2>3
  <1>9. ASSUME NEW j \in Jobs, SkipSettled(j) \/ TaskDone(j)
        PROVE  unfinished' = Len(queue') + h' + x'
    <2>1. /\ queue' = queue /\ unfinished' = unfinished - 1 /\ sdJob' = sdJob
          /\ \/ wk[j] = "checked" /\ wk' = [wk EXCEPT ![j] = "none"]
             \/ wk[j] = "settled" /\ wk' = [wk EXCEPT ![j] = "tasked"]
      BY <1>9 DEF SkipSettled, TaskDone, sdVars
    <2>2. Held' = Held \ {j} /\ j \in Held /\ x' = x
      BY <1>1, <2>1 DEF Held, x
    <2>3. h' = h - 1
      BY <1>1, <2>2, CountDrop DEF h
    <2> QED BY <1>1, <2>1, <2>2, <2>3
  <1>10. ASSUME NEW j \in Jobs, NEW r, NEW q, wk[j] = q, wk' = [wk EXCEPT ![j] = r],
                \/ q \in {"taken", "checked", "run"} /\ r \in {"checked", "run", "settled"}
                \/ q = "tasked" /\ r = "none",
                UNCHANGED <<qVars, sdJob>>
         PROVE  unfinished' = Len(queue') + h' + x'
    <2>1. Held' = Held
      BY <1>1, <1>10 DEF Held
    <2> QED BY <1>4, <1>10, <2>1
  <1>11. ASSUME NEW j \in Jobs,
                StopTest(j) \/ StartHandler(j) \/ Rejoin(j)
                \/ \E r \in HandlerResults : HandlerReturns(j, r)
         PROVE  unfinished' = Len(queue') + h' + x'
    <2>1. /\ UNCHANGED <<qVars, sdJob>>
          /\ \/ wk[j] = "taken" /\ wk' = [wk EXCEPT ![j] = "checked"]
             \/ wk[j] = "checked" /\ wk' = [wk EXCEPT ![j] = "run"]
             \/ wk[j] = "run" /\ wk' = [wk EXCEPT ![j] = "settled"]
             \/ wk[j] = "tasked" /\ wk' = [wk EXCEPT ![j] = "none"]
      BY <1>11 DEF StopTest, StartHandler, Rejoin, HandlerReturns, sdVars
    <2> QED BY <1>10, <2>1
  <1>12. ASSUME NEW j \in Jobs, DrainTake(j)
         PROVE  unfinished' = Len(queue') + h' + x'
    <2>1. /\ queue # <<>> /\ queue' = Tail(queue) /\ wk' = wk
          /\ unfinished' = unfinished /\ sdJob = NoJob /\ sdJob' = j
      BY <1>12 DEF DrainTake
    <2>2. Len(queue') = Len(queue) - 1
      BY <1>1, <2>1, QueueTail
    <2>3. h' = h /\ x = 0 /\ x' = 1
      BY <1>3, <2>1 DEF h, x, Held
    <2> QED BY <1>1, <2>1, <2>2, <2>3
  <1>13. CASE DrainDone
    <2>1. /\ queue' = queue /\ wk' = wk /\ sdJob # NoJob /\ sdJob' = NoJob
          /\ unfinished' = unfinished - 1
      BY <1>13 DEF DrainDone
    <2>2. h' = h /\ x = 1 /\ x' = 0
      BY <2>1 DEF h, x, Held
    <2> QED BY <1>1, <2>1, <2>2
  <1>14. CASE PutSentinels
    <2>1. /\ queue = <<>> /\ queue' = [i \in 1..owed |-> Sentinel] /\ wk' = wk
          /\ unfinished' = unfinished + owed /\ sdJob' = sdJob
      BY <1>14 DEF PutSentinels
    <2>2. owed \in Nat
      BY DEF IInv, TypeOK
    <2>3. Len(queue) = 0 /\ Len(queue') = owed
      BY <2>1, <2>2, EmptyFacts, SentinelFacts
    <2>4. h' = h /\ x' = x
      BY <2>1 DEF h, x, Held
    <2> QED BY <1>1, <2>1, <2>2, <2>3, <2>4
  <1>15. CASE FinalDrain
    <2>1. wk' = wk /\ sdJob' = sdJob
      BY <1>15 DEF FinalDrain
    <2>2. Held' = Held /\ h' = h /\ x' = x
      BY <2>1 DEF h, x, Held
    <2>3. CASE UNCHANGED qVars
      BY <1>4, <2>1, <2>2, <2>3
    <2>4. CASE /\ queue # <<>> /\ queue' = Tail(queue)
               /\ unfinished' = unfinished - 1
      <3>1. Len(queue') = Len(queue) - 1
        BY <1>1, <2>4, QueueTail
      <3> QED BY <1>1, <2>2, <2>4, <3>1
    <2> QED BY <1>15, <2>3, <2>4 DEF FinalDrain
  <1>16. CASE Restart
    <2>1. /\ wk' = [j \in Jobs |-> "none"] /\ queue' = <<>> /\ unfinished' = 0
          /\ sdJob' = NoJob
      BY <1>16 DEF Restart
    <2>2. Held' = {} /\ x' = 0
      BY <2>1 DEF Held, x
    <2> QED BY <2>1, <2>2, FS_EmptySet, EmptyFacts DEF h
  <1>17. ASSUME NEW j \in Jobs,
                \/ SubmitRefused(j) \/ AnswerInline(j) \/ Claim(j)
                \/ ClaimSnapshot(j) \/ ClaimWrite(j) \/ ReadTimesOut(j)
                \/ ReadSettles(j) \/ ReadForgets(j) \/ FinalWrite(j)
                \/ FinalFrame(j) \/ Age(j) \/ AbandonOverdue(j)
         PROVE  unfinished' = Len(queue') + h' + x'
    <2>1. UNCHANGED <<wk, qVars, sdJob>>
      BY <1>17 DEF SubmitRefused, AnswerInline, Claim, ClaimSnapshot,
         ClaimWrite, ReadTimesOut, ReadSettles, ReadForgets, FinalWrite,
         FinalFrame, Age, AbandonOverdue, sdVars
    <2>2. Held' = Held
      BY <2>1 DEF Held
    <2> QED BY <1>4, <2>1, <2>2
  <1>18. CASE \/ LoopTest \/ Leave \/ ReapRows \/ ReapRegistry \/ JoinEnds
              \/ Shutdown \/ UNCHANGED vars
    <2>1. UNCHANGED <<wk, qVars, sdJob>>
      BY <1>18 DEF LoopTest, Leave, ReapRows, ReapRegistry, JoinEnds, Shutdown,
         vars, sdVars
    <2>2. Held' = Held
      BY <2>1 DEF Held
    <2> QED BY <1>4, <2>1, <2>2
  <1> QED
    BY <1>5, <1>6, <1>7, <1>8, <1>9, <1>11, <1>12, <1>13, <1>14, <1>15,
       <1>16, <1>17, <1>18
    DEF Next, RequestStep, WorkerStep, FinishStep, ShutdownStep

-----------------------------------------------------------------------------
(* Each step keeps the types.  The counters stay naturals because they      *)
(* count something: that is what PoolStep and TasksStep are for.            *)

\* TypeOK without the counters whose decrements no guard protects.
FlowTypes ==
  /\ req \in [Jobs -> {"idle", "waiting", "claimed", "snapped", "late",
                       "expired", "discarded", "refused", "answered", "polling",
                       "timed_out", "gone"}]
  /\ snap \in [Jobs -> {"none", "queued", "running", "done", "error"}]
  /\ wk \in [Jobs -> {"none", "taken", "checked", "run", "settled", "tasked"}]
  /\ outcome \in [Jobs -> Outcomes \cup {"none"}]
  /\ finBy \in [Jobs -> {"none", "worker", "watchdog", "reader", "shutdown"}]
  /\ abandoned \in [Jobs -> BOOLEAN]
  /\ fin \in [Jobs -> {"none", "write", "frame", "sent"}]
  /\ rows \in [Jobs -> {"none", "queued", "running", "done", "error",
                        "interrupted"}]
  /\ old \subseteq Jobs /\ registry \subseteq Jobs
  /\ queue \in Seq(Items)
  /\ looping \in Nat /\ getting \in Nat /\ leaving \in Nat
  /\ sd \in {"up", "drain", "join", "final", "closed"}
  /\ sdJob \in Jobs \cup {NoJob}
  /\ owed \in Nat /\ reaper \in {"idle", "rows"} /\ restarts \in Nat

\* TypeOK in two halves, so that a leaf expands only what it needs.
LEMMA TypeSplit ==
  /\ TypeOK => FlowTypes /\ threads \in Nat
  /\ FlowTypes /\ PoolIsWhole /\ TasksAddUp => TypeOK
  <1>1. TypeOK => FlowTypes /\ threads \in Nat
    BY DEF TypeOK, FlowTypes, Items
  <1>2. ASSUME FlowTypes, PoolIsWhole, TasksAddUp
        PROVE  TypeOK
    <2>1. /\ Cardinality(Busy) \in Nat /\ Cardinality(Abandoned) \in Nat
          /\ Cardinality(Held) \in Nat /\ Len(queue) \in Nat
      BY <1>2, CountOf, LenProperties DEF Busy, Abandoned, running, Held, FlowTypes
    <2>2. threads \in Nat
      BY <1>2, <2>1 DEF PoolIsWhole, FlowTypes
    <2>3. surplus \in Nat
      BY <1>2, <2>1 DEF PoolIsWhole
    <2>4. unfinished \in Nat
      BY <1>2, <2>1 DEF TasksAddUp
    <2> QED BY <1>2, <2>2, <2>3, <2>4 DEF TypeOK, FlowTypes, Items
  <1> QED BY <1>1, <1>2

\* upsert_job() leaves the table well typed.
LEMMA UpsertTypes ==
  ASSUME FlowTypes, NEW j \in Jobs, NEW s \in {"none", "queued", "running", "done", "error"},
         Upsert(j, s)
  PROVE  rows' \in [Jobs -> {"none", "queued", "running", "done", "error",
                             "interrupted"}]
  BY DEF FlowTypes, Upsert, RowStatus

\* The status a snapshot copies from a job is one of those the table knows.
LEMMA StatusType ==
  ASSUME FlowTypes, NEW j \in Jobs
  PROVE  Status(j) \in {"queued", "running", "done", "error"}
  BY DEF FlowTypes, Status, Outcomes

\* Every operation keeps the types, given that the counters are exact.
LEMMA TypeStep ==
  ASSUME IInv, [Next]_vars
  PROVE  TypeOK'
  <1>1. FlowTypes /\ threads \in Nat /\ TypeOK
    BY TypeSplit DEF IInv
  <1>2. SUFFICES FlowTypes'
    <2>1. PoolIsWhole' /\ TasksAddUp'
      BY PoolStep, TasksStep
    <2>2. FlowTypes' /\ PoolIsWhole' /\ TasksAddUp' => TypeOK'
      BY TypeSplit, PTL
    <2> QED BY <1>2, <2>1, <2>2
  <1>3. ASSUME NEW j \in Jobs, Submit(j)
        PROVE  FlowTypes'
    <2>1. queue' \in Seq(Items)
      BY <1>1, <1>3, QueueAppend DEF Submit, FlowTypes, Items
    <2> QED BY <1>1, <1>3, <2>1 DEF Submit, FlowTypes, setVars, poolVars,
         idleVars, sdVars, dbVars
  <1>4. ASSUME NEW j \in Jobs,
               \/ SubmitRefused(j) \/ AnswerInline(j) \/ Claim(j)
               \/ ReadTimesOut(j) \/ ReadForgets(j)
        PROVE  FlowTypes'
    BY <1>1, <1>4 DEF SubmitRefused, AnswerInline, Claim, ReadTimesOut,
       ReadForgets, FlowTypes, setVars, poolVars, idleVars, qVars, sdVars, dbVars
  <1>5. ASSUME NEW j \in Jobs, ClaimSnapshot(j)
        PROVE  FlowTypes'
    BY <1>1, <1>5, StatusType DEF ClaimSnapshot, FlowTypes, setVars, poolVars,
       idleVars, qVars, sdVars, dbVars
  <1>6. ASSUME NEW j \in Jobs, ClaimWrite(j)
        PROVE  FlowTypes'
    <2>1. rows' \in [Jobs -> {"none", "queued", "running", "done", "error",
                              "interrupted"}]
      <3>1. snap[j] \in {"none", "queued", "running", "done", "error"}
        BY <1>1 DEF FlowTypes
      <3> QED BY <1>1, <1>6, <3>1, UpsertTypes DEF ClaimWrite
    <2> QED BY <1>1, <1>6, <2>1 DEF ClaimWrite, FlowTypes, setVars, poolVars,
         idleVars, qVars, sdVars
  <1>7. ASSUME NEW j \in Jobs, ReadDiscards(j)
        PROVE  FlowTypes'
    <2>1. queue' \in Seq(Items)
      BY <1>1, <1>7, RemoveFacts DEF ReadDiscards, Discard, FlowTypes, qVars
    <2> QED BY <1>1, <1>7, <2>1 DEF ReadDiscards, FlowTypes, setVars, poolVars,
         idleVars, sdVars, dbVars
  <1>8. ASSUME NEW j \in Jobs, NEW o \in Outcomes, NEW t \in BOOLEAN,
               NEW by \in {"worker", "watchdog", "reader", "shutdown"},
               Settle(j, o, by, t)
        PROVE  /\ outcome' \in [Jobs -> Outcomes \cup {"none"}]
               /\ fin' \in [Jobs -> {"none", "write", "frame", "sent"}]
               /\ finBy' \in [Jobs -> {"none", "worker", "watchdog", "reader", "shutdown"}]
               /\ abandoned' \in [Jobs -> BOOLEAN]
               /\ looping' \in Nat
    BY <1>1, <1>8, SettleFacts
  <1>9. "timeout" \in Outcomes /\ "shutdown" \in Outcomes
    BY DEF Outcomes
  <1>10. ASSUME NEW j \in Jobs, ReadSettles(j)
         PROVE  FlowTypes'
    <2>1. Settle(j, "timeout", "reader", TRUE)
      BY <1>10 DEF ReadSettles
    <2> QED BY <1>1, <1>8, <1>9, <1>10, <2>1 DEF ReadSettles, FlowTypes, qVars,
         sdVars, dbVars
  <1>11. ASSUME NEW j \in Jobs, AbandonOverdue(j)
         PROVE  FlowTypes'
    <2>1. Settle(j, "timeout", "watchdog", TRUE)
      BY <1>11 DEF AbandonOverdue
    <2> QED BY <1>1, <1>8, <1>9, <1>11, <2>1 DEF AbandonOverdue, FlowTypes,
         reqVars, qVars, sdVars, dbVars
  <1>12. ASSUME NEW j \in Jobs, DrainTake(j)
         PROVE  FlowTypes'
    <2>1. Settle(j, "shutdown", "shutdown", FALSE)
      BY <1>12 DEF DrainTake
    <2>2. queue' \in Seq(Items)
      BY <1>1, <1>12, QueueTail DEF DrainTake, FlowTypes
    <2> QED BY <1>1, <1>8, <1>9, <1>12, <2>1, <2>2 DEF DrainTake, FlowTypes,
         reqVars, dbVars
  <1>13. ASSUME NEW j \in Jobs, NEW r \in HandlerResults, HandlerReturns(j, r)
         PROVE  FlowTypes'
    <2>1. Settle(j, r, "worker", FALSE) /\ r \in Outcomes
      BY <1>13, BoundsAssumption DEF HandlerReturns, Outcomes
    <2> QED BY <1>1, <1>8, <1>13, <2>1 DEF HandlerReturns, FlowTypes, reqVars,
         qVars, sdVars, dbVars
  <1>14. ASSUME NEW j \in Jobs, StopTest(j)
         PROVE  FlowTypes'
    <2>1. CASE Settle(j, "shutdown", "worker", FALSE)
      BY <1>1, <1>8, <1>9, <1>14, <2>1 DEF StopTest, FlowTypes, reqVars, qVars,
         sdVars, dbVars
    <2>2. CASE UNCHANGED <<setVars, poolVars, looping>>
      BY <1>1, <1>14, <2>2 DEF StopTest, FlowTypes, reqVars, qVars, sdVars,
         dbVars, setVars, poolVars
    <2> QED BY <1>14, <2>1, <2>2 DEF StopTest
  <1>15. CASE LoopTest \/ Leave
    BY SMTT(30), <1>1, <1>15 DEF LoopTest, Leave, FlowTypes, reqVars, setVars, poolVars,
       qVars, sdVars, dbVars
  <1>16. CASE GetSentinel
    <2>1. queue' \in Seq(Items)
      BY <1>1, <1>16, QueueTail DEF GetSentinel, FlowTypes
    <2> QED BY <1>1, <1>16, <2>1 DEF GetSentinel, FlowTypes, reqVars, setVars,
         poolVars, sdVars, dbVars
  <1>17. ASSUME NEW j \in Jobs, GetJob(j)
         PROVE  FlowTypes'
    <2>1. queue' \in Seq(Items)
      BY <1>1, <1>17, QueueTail DEF GetJob, FlowTypes
    <2> QED BY <1>1, <1>17, <2>1 DEF GetJob, FlowTypes, reqVars, setVars,
         poolVars, sdVars, dbVars
  <1>18. ASSUME NEW j \in Jobs, SkipSettled(j) \/ StartHandler(j) \/ TaskDone(j)
         PROVE  FlowTypes'
    BY <1>1, <1>18 DEF SkipSettled, StartHandler, TaskDone, FlowTypes, reqVars,
       setVars, poolVars, idleVars, qVars, sdVars, dbVars
  <1>19. ASSUME NEW j \in Jobs, Rejoin(j)
         PROVE  FlowTypes'
    BY <1>1, <1>19 DEF Rejoin, FlowTypes, reqVars, setVars, qVars, sdVars, dbVars
  <1>20. ASSUME NEW j \in Jobs, FinalWrite(j)
         PROVE  FlowTypes'
    <2>1. rows' \in [Jobs -> {"none", "queued", "running", "done", "error",
                              "interrupted"}]
      BY <1>1, <1>20, StatusType, UpsertTypes DEF FinalWrite
    <2> QED BY <1>1, <1>20, <2>1 DEF FinalWrite, FlowTypes, reqVars, poolVars,
         idleVars, qVars, sdVars
  <1>21. ASSUME NEW j \in Jobs, FinalFrame(j) \/ Age(j)
         PROVE  FlowTypes'
    BY SMTT(30), <1>1, <1>21 DEF FinalFrame, Age, FlowTypes, reqVars, setVars, poolVars,
       idleVars, qVars, sdVars, dbVars
  <1>22. CASE ReapRows \/ ReapRegistry
    BY <1>1, <1>22 DEF ReapRows, ReapRegistry, FlowTypes, reqVars, setVars,
       poolVars, idleVars, qVars, sdVars
  <1>23. CASE Shutdown \/ DrainDone \/ JoinEnds
    BY <1>1, <1>23 DEF Shutdown, DrainDone, JoinEnds, FlowTypes, reqVars,
       setVars, poolVars, idleVars, qVars, dbVars
  <1>24. CASE PutSentinels
    <2>1. queue' \in Seq(Items)
      BY <1>1, <1>24, SentinelFacts DEF PutSentinels, FlowTypes
    <2> QED BY <1>1, <1>24, <2>1 DEF PutSentinels, FlowTypes, reqVars, setVars,
         poolVars, idleVars, dbVars
  <1>25. CASE FinalDrain
    <2>1. queue' \in Seq(Items)
      BY <1>1, <1>25, QueueTail DEF FinalDrain, FlowTypes, qVars
    <2> QED BY <1>1, <1>25, <2>1 DEF FinalDrain, FlowTypes, reqVars, setVars,
         poolVars, idleVars, dbVars
  <1>26. CASE Restart
    <2>1. rows' \in [Jobs -> {"none", "queued", "running", "done", "error",
                              "interrupted"}]
      BY <1>1, <1>26 DEF Restart, FlowTypes, FailOrphaned
    <2>2. queue' \in Seq(Items)
      BY <1>26, EmptyFacts DEF Restart
    <2> QED BY <1>1, <1>26, <2>1, <2>2, BoundsAssumption DEF Restart, FlowTypes
  <1>27. CASE UNCHANGED vars
    BY <1>1, <1>27 DEF vars, FlowTypes, reqVars, setVars, poolVars, idleVars,
       qVars, sdVars, dbVars
  <1> QED
    BY <1>3, <1>4, <1>5, <1>6, <1>7, <1>10, <1>11, <1>12, <1>13, <1>14, <1>15,
       <1>16, <1>17, <1>18, <1>19, <1>20, <1>21, <1>22, <1>23, <1>24, <1>25,
       <1>26, <1>27
    DEF Next, RequestStep, WorkerStep, FinishStep, ShutdownStep

-----------------------------------------------------------------------------
(* Each step keeps the queue in order. *)

\* Every operation keeps a queued job queued once and held by nobody.
LEMMA QueueStep ==
  ASSUME IInv, [Next]_vars
  PROVE  QueueInv'
  <1>1. FlowTypes /\ TypeOK /\ QueueInv /\ FlowInv
    BY TypeSplit DEF IInv
  <1>2. queue \in Seq(Items) /\ Sentinel \notin Jobs /\ Jobs \subseteq Items
    BY <1>1, JobsAssumption DEF FlowTypes, Items, Jobs
  <1>3. ASSUME NEW j \in Jobs,
               \/ SubmitRefused(j) \/ AnswerInline(j) \/ Claim(j)
               \/ ClaimSnapshot(j) \/ ClaimWrite(j) \/ ReadTimesOut(j)
               \/ ReadForgets(j)
        PROVE  QueueInv'
    <2>1. /\ queue' = queue /\ wk' = wk /\ outcome' = outcome /\ sd' = sd
          /\ \E p : /\ req' = [req EXCEPT ![j] = p]
                    /\ \/ req[j] = "idle" /\ p = "refused"
                       \/ req[j] = "waiting" /\ Done(j) /\ p = "answered"
                       \/ req[j] = "waiting" /\ ~Done(j) /\ p \in {"claimed", "late"}
                       \/ req[j] = "claimed" /\ p = "snapped"
                       \/ req[j] = "snapped" /\ p = "polling"
                       \/ req[j] = "discarded" /\ p = "timed_out"
      BY <1>3 DEF SubmitRefused, AnswerInline, Claim, ClaimSnapshot, ClaimWrite,
         ReadTimesOut, ReadForgets, setVars, qVars, sdVars
    <2> QED BY <1>1, <2>1 DEF QueueInv, FlowTypes, Done, Stopping
  <1>4. ASSUME NEW j \in Jobs, ReadSettles(j)
        PROVE  QueueInv'
    <2>1. /\ req[j] = "late" /\ req' = [req EXCEPT ![j] = "expired"]
          /\ wk' = wk /\ queue' = queue /\ sd' = sd
          /\ Settle(j, "timeout", "reader", TRUE)
      BY <1>4 DEF ReadSettles, qVars, sdVars
    <2>2. \A k \in Jobs : k # j => outcome'[k] = outcome[k]
      BY <1>1, <2>1, SettleFacts DEF Outcomes
    <2> QED BY <1>1, <2>1, <2>2 DEF QueueInv, FlowTypes, Done, Stopping
  <1>5. ASSUME NEW j \in Jobs, wk[j] # "none", queue' = queue, req' = req, sd' = sd,
               \A k \in Jobs : k # j => wk'[k] = wk[k] /\ outcome'[k] = outcome[k]
        PROVE  QueueInv'
    BY <1>1, <1>5 DEF QueueInv, FlowTypes, Done, Stopping
  <1>6. ASSUME NEW j \in Jobs, AbandonOverdue(j)
        PROVE  QueueInv'
    <2>1. /\ wk[j] = "run" /\ wk' = wk /\ queue' = queue /\ req' = req /\ sd' = sd
          /\ Settle(j, "timeout", "watchdog", TRUE)
      BY <1>6 DEF AbandonOverdue, reqVars, qVars, sdVars
    <2>2. \A k \in Jobs : k # j => outcome'[k] = outcome[k]
      BY <1>1, <2>1, SettleFacts DEF Outcomes
    <2> QED BY <1>5, <2>1, <2>2
  <1>7. ASSUME NEW j \in Jobs, NEW r \in HandlerResults, HandlerReturns(j, r)
        PROVE  QueueInv'
    <2>1. /\ wk[j] = "run" /\ wk' = [wk EXCEPT ![j] = "settled"]
          /\ queue' = queue /\ req' = req /\ sd' = sd
          /\ Settle(j, r, "worker", FALSE) /\ r \in Outcomes
      BY <1>7, BoundsAssumption DEF HandlerReturns, reqVars, qVars, sdVars, Outcomes
    <2>2. \A k \in Jobs : k # j => outcome'[k] = outcome[k]
      BY <1>1, <2>1, SettleFacts
    <2> QED BY <1>1, <1>5, <2>1, <2>2 DEF FlowTypes
  <1>8. ASSUME NEW j \in Jobs, StopTest(j)
        PROVE  QueueInv'
    <2>1. /\ wk[j] = "taken" /\ wk' = [wk EXCEPT ![j] = "checked"]
          /\ queue' = queue /\ req' = req /\ sd' = sd
          /\ \/ Settle(j, "shutdown", "worker", FALSE)
             \/ outcome' = outcome
      BY <1>8 DEF StopTest, reqVars, qVars, sdVars, setVars
    <2>2. \A k \in Jobs : k # j => outcome'[k] = outcome[k]
      BY <1>1, <2>1, SettleFacts DEF Outcomes
    <2> QED BY <1>1, <1>5, <2>1, <2>2 DEF FlowTypes
  <1>9. ASSUME NEW j \in Jobs,
               SkipSettled(j) \/ StartHandler(j) \/ TaskDone(j) \/ Rejoin(j)
        PROVE  QueueInv'
    <2>1. /\ wk[j] # "none" /\ \E p : wk' = [wk EXCEPT ![j] = p]
          /\ queue' = queue /\ req' = req /\ sd' = sd /\ outcome' = outcome
      BY <1>9 DEF SkipSettled, StartHandler, TaskDone, Rejoin, reqVars, qVars,
         sdVars, setVars
    <2> QED BY <1>1, <1>5, <2>1 DEF FlowTypes
  <1>10. ASSUME NEW j \in Jobs, Submit(j)
         PROVE  QueueInv'
    <2>1. /\ req[j] = "idle" /\ ~Stopping /\ req' = [req EXCEPT ![j] = "waiting"]
          /\ queue' = Append(queue, j) /\ wk' = wk /\ outcome' = outcome /\ sd' = sd
      BY <1>10 DEF Submit, setVars, sdVars
    <2>2. ~In(j, queue) /\ wk[j] = "none" /\ sd = "up"
      BY <1>1, <2>1 DEF QueueInv, FlowInv, Stopping
    <2>3. Uniq(queue') /\ \A y : In(y, queue') <=> In(y, queue) \/ y = j
      BY <1>1, <1>2, <2>1, <2>2, QueueAppend DEF QueueInv
    <2>4. ~Done(j)
      BY <1>1, <2>1 DEF FlowInv
    <2> QED BY <1>1, <1>2, <2>1, <2>2, <2>3, <2>4 DEF QueueInv, FlowTypes, Done, Stopping
  <1>11. ASSUME NEW j \in Jobs, ReadDiscards(j)
         PROVE  QueueInv'
    <2>1. /\ req[j] = "expired" /\ Discard(j)
          /\ req' = [req EXCEPT ![j] = "discarded"]
          /\ wk' = wk /\ outcome' = outcome /\ sd' = sd
      BY <1>11 DEF ReadDiscards, setVars, sdVars
    <2>2. /\ Uniq(queue') /\ ~In(j, queue')
          /\ \A y : In(y, queue') => In(y, queue)
      <3>1. CASE (\A i \in DOMAIN queue : queue[i] # j) /\ UNCHANGED qVars
        BY <1>1, <3>1 DEF QueueInv, In, qVars
      <3>2. ASSUME NEW i \in DOMAIN queue, queue[i] = j,
                   queue' = TakenOut(queue, i)
            PROVE  /\ Uniq(queue') /\ ~In(j, queue')
                   /\ \A y : In(y, queue') => In(y, queue)
        BY <1>1, <1>2, <3>2, RemoveFacts DEF QueueInv
      <3> QED BY <2>1, <3>1, <3>2 DEF Discard
    <2> QED BY <1>1, <2>1, <2>2 DEF QueueInv, FlowTypes, Done, Stopping
  <1>12. ASSUME queue # <<>>, queue' = Tail(queue), req' = req, sd' = sd,
                \A k \in Jobs : k # Head(queue) => wk'[k] = wk[k] /\ outcome'[k] = outcome[k]
         PROVE  QueueInv'
    <2>1. /\ Uniq(queue') /\ \A y : In(y, queue') => In(y, queue)
          /\ Head(queue) # Sentinel => ~In(Head(queue), queue')
      BY <1>1, <1>2, <1>12, QueueTail DEF QueueInv
    <2> QED BY <1>1, <1>2, <1>12, <2>1 DEF QueueInv, FlowTypes, Done, Stopping
  <1>13. ASSUME NEW j \in Jobs, GetJob(j)
         PROVE  QueueInv'
    <2>1. /\ queue # <<>> /\ Head(queue) = j /\ queue' = Tail(queue)
          /\ wk' = [wk EXCEPT ![j] = "taken"] /\ req' = req /\ sd' = sd
          /\ outcome' = outcome
      BY <1>13 DEF GetJob, reqVars, sdVars, setVars
    <2> QED BY <1>1, <1>12, <2>1 DEF FlowTypes
  <1>14. CASE GetSentinel
    <2>1. /\ queue # <<>> /\ queue' = Tail(queue) /\ wk' = wk /\ req' = req
          /\ sd' = sd /\ outcome' = outcome
      BY <1>14 DEF GetSentinel, reqVars, sdVars, setVars
    <2> QED BY <1>12, <2>1
  <1>15. ASSUME NEW j \in Jobs, DrainTake(j)
         PROVE  QueueInv'
    <2>1. /\ queue # <<>> /\ Head(queue) = j /\ queue' = Tail(queue)
          /\ wk' = wk /\ req' = req /\ sd' = sd
          /\ Settle(j, "shutdown", "shutdown", FALSE)
      BY <1>15 DEF DrainTake, reqVars
    <2>2. \A k \in Jobs : k # j => outcome'[k] = outcome[k]
      BY <1>1, <2>1, SettleFacts DEF Outcomes
    <2> QED BY <1>12, <2>1, <2>2
  <1>16. CASE PutSentinels
    <2>1. /\ queue' = [i \in 1..owed |-> Sentinel] /\ owed \in Nat
          /\ wk' = wk /\ req' = req /\ sd' = "join" /\ outcome' = outcome
      BY <1>1, <1>16 DEF PutSentinels, reqVars, setVars, FlowTypes
    <2>2. Uniq(queue') /\ \A j \in Jobs : ~In(j, queue')
      BY <2>1, SentinelFacts
    <2> QED BY <2>1, <2>2 DEF QueueInv, Stopping
  <1>17. CASE FinalDrain
    <2>1. /\ wk' = wk /\ req' = req /\ outcome' = outcome
          /\ \/ sd = "final" /\ sd' = "closed" /\ queue' = queue
             \/ queue # <<>> /\ queue' = Tail(queue) /\ sd' = sd
      BY <1>17 DEF FinalDrain, reqVars, setVars, qVars
    <2>2. CASE sd = "final" /\ sd' = "closed" /\ queue' = queue
      BY <1>1, <2>1, <2>2 DEF QueueInv, Done, Stopping
    <2> QED BY <1>12, <2>1, <2>2
  <1>18. CASE Restart
    <2>1. queue' = <<>>
      BY <1>18 DEF Restart
    <2> QED BY <2>1, EmptyFacts DEF QueueInv
  <1>19. ASSUME UNCHANGED <<queue, wk, req, outcome>>,
                \/ sd' = sd
                \/ sd' = "drain" /\ sd = "up"
                \/ sd' = "final" /\ sd = "join"
         PROVE  QueueInv'
    BY <1>1, <1>19 DEF QueueInv, Done, Stopping
  <1>20. CASE \/ LoopTest \/ Leave \/ ReapRows \/ ReapRegistry \/ Shutdown
              \/ JoinEnds \/ DrainDone \/ UNCHANGED vars
              \/ \E j \in Jobs : FinalWrite(j) \/ FinalFrame(j) \/ Age(j)
    <2>1. /\ UNCHANGED <<queue, wk, req, outcome>>
          /\ \/ sd' = sd
             \/ sd' = "drain" /\ sd = "up"
             \/ sd' = "final" /\ sd = "join"
      BY <1>20 DEF LoopTest, Leave, ReapRows, ReapRegistry, Shutdown, JoinEnds,
         DrainDone, vars, FinalWrite, FinalFrame, Age, reqVars, setVars, qVars, sdVars
    <2> QED BY <1>19, <2>1
  <1> QED
    BY <1>3, <1>4, <1>6, <1>7, <1>8, <1>9, <1>10, <1>11, <1>13, <1>14, <1>15,
       <1>16, <1>17, <1>18, <1>20
    DEF Next, RequestStep, WorkerStep, FinishStep, ShutdownStep

-----------------------------------------------------------------------------
(* Each step keeps the flow of a job. *)

\* Every operation leaves a job where its request says it can be.
LEMMA FlowStep ==
  ASSUME IInv, [Next]_vars
  PROVE  FlowInv'
  <1>1. FlowTypes /\ TypeOK /\ QueueInv /\ FlowInv
    BY TypeSplit DEF IInv
  <1>2. queue \in Seq(Items) /\ Sentinel \notin Jobs /\ Jobs \subseteq Items
    BY <1>1, JobsAssumption DEF FlowTypes, Items, Jobs
  <1>3. ASSUME NEW j \in Jobs,
               \/ SubmitRefused(j) \/ AnswerInline(j) \/ Claim(j)
               \/ ClaimSnapshot(j) \/ ClaimWrite(j) \/ ReadTimesOut(j)
               \/ ReadForgets(j)
        PROVE  FlowInv'
    <2>1. /\ queue' = queue /\ wk' = wk /\ outcome' = outcome
          /\ abandoned' = abandoned
          /\ \/ /\ req[j] = "idle" /\ req' = [req EXCEPT ![j] = "refused"]
                /\ registry' = registry
             \/ /\ req' = [req EXCEPT ![j] = "answered"]
                /\ registry' = registry \ {j}
             \/ /\ \E p \in {"claimed", "late", "snapped", "polling"} :
                     req' = [req EXCEPT ![j] = p]
                /\ registry' = registry
             \/ /\ req' = [req EXCEPT ![j] = "timed_out"]
                /\ registry' = registry \ {j}
      BY <1>3 DEF SubmitRefused, AnswerInline, Claim, ClaimSnapshot, ClaimWrite,
         ReadTimesOut, ReadForgets, setVars, qVars, poolVars
    <2> QED BY <1>1, <2>1 DEF FlowInv, FlowTypes, Done
  <1>4. ASSUME NEW j \in Jobs, NEW o \in Outcomes, NEW t \in BOOLEAN,
               NEW by \in {"worker", "watchdog", "reader", "shutdown"},
               Settle(j, o, by, t), registry' = registry, req[j] # "idle",
               \/ req' = req
               \/ req' = [req EXCEPT ![j] = "expired"],
               \/ wk' = wk
               \/ \E p \in {"checked", "settled"} : wk' = [wk EXCEPT ![j] = p],
               \A k \in Jobs : k # j => (In(k, queue) => In(k, queue'))
        PROVE  FlowInv'
    <2>1. /\ outcome'[j] # "none"
          /\ \A k \in Jobs : k # j => /\ outcome'[k] = outcome[k]
                                      /\ abandoned'[k] = abandoned[k]
      BY <1>1, <1>4, SettleFacts
    <2> QED BY <1>1, <1>4, <2>1 DEF FlowInv, FlowTypes, Done
  <1>5. "timeout" \in Outcomes /\ "shutdown" \in Outcomes
    BY DEF Outcomes
  <1>6. ASSUME NEW j \in Jobs, ReadSettles(j)
        PROVE  FlowInv'
    <2>1. /\ req[j] = "late" /\ req' = [req EXCEPT ![j] = "expired"]
          /\ wk' = wk /\ queue' = queue /\ registry' = registry
          /\ Settle(j, "timeout", "reader", TRUE)
      BY <1>6 DEF ReadSettles, qVars
    <2> QED BY <1>4, <1>5, <2>1
  <1>7. ASSUME NEW j \in Jobs, AbandonOverdue(j)
        PROVE  FlowInv'
    <2>1. /\ wk[j] = "run" /\ wk' = wk /\ queue' = queue /\ req' = req
          /\ registry' = registry /\ Settle(j, "timeout", "watchdog", TRUE)
      BY <1>7 DEF AbandonOverdue, reqVars, qVars
    <2>2. req[j] # "idle"
      BY <1>1, <2>1 DEF FlowInv
    <2> QED BY <1>4, <1>5, <2>1, <2>2
  <1>8. ASSUME NEW j \in Jobs, NEW r \in HandlerResults, HandlerReturns(j, r)
        PROVE  FlowInv'
    <2>1. /\ wk[j] = "run" /\ wk' = [wk EXCEPT ![j] = "settled"]
          /\ queue' = queue /\ req' = req /\ registry' = registry
          /\ Settle(j, r, "worker", FALSE) /\ r \in Outcomes
      BY <1>8, BoundsAssumption DEF HandlerReturns, reqVars, qVars, Outcomes
    <2>2. req[j] # "idle"
      BY <1>1, <2>1 DEF FlowInv
    <2> QED BY <1>4, <2>1, <2>2
  <1>9. ASSUME NEW j \in Jobs, DrainTake(j)
        PROVE  FlowInv'
    <2>1. /\ queue # <<>> /\ Head(queue) = j /\ queue' = Tail(queue)
          /\ wk' = wk /\ req' = req /\ registry' = registry
          /\ Settle(j, "shutdown", "shutdown", FALSE)
      BY <1>9 DEF DrainTake, reqVars
    <2>2. /\ In(j, queue)
          /\ \A k \in Jobs : k # j => (In(k, queue) => In(k, queue'))
      BY <1>2, <2>1, QueueTail
    <2>3. req[j] # "idle"
      BY <1>1, <2>2 DEF QueueInv
    <2> QED BY <1>4, <1>5, <2>1, <2>2, <2>3
  <1>10. ASSUME NEW j \in Jobs, wk[j] # "none", queue' = queue, req' = req,
                registry' = registry, outcome' = outcome,
                \/ abandoned' = abandoned
                \/ abandoned' = [abandoned EXCEPT ![j] = FALSE],
                \/ wk' = [wk EXCEPT ![j] = "checked"]
                \/ wk' = [wk EXCEPT ![j] = "run"]
                \/ wk' = [wk EXCEPT ![j] = "tasked"] /\ Done(j)
                \/ wk' = [wk EXCEPT ![j] = "none"] /\ Done(j)
         PROVE  FlowInv'
    BY <1>1, <1>10 DEF FlowInv, FlowTypes, Done
  <1>11. ASSUME NEW j \in Jobs, StopTest(j)
         PROVE  FlowInv'
    <2>1. /\ wk[j] = "taken" /\ wk' = [wk EXCEPT ![j] = "checked"]
          /\ queue' = queue /\ req' = req /\ registry' = registry
          /\ \/ Settle(j, "shutdown", "worker", FALSE)
             \/ outcome' = outcome /\ abandoned' = abandoned
      BY <1>11 DEF StopTest, reqVars, qVars, setVars, poolVars
    <2>2. req[j] # "idle"
      BY <1>1, <2>1 DEF FlowInv
    <2>3. CASE Settle(j, "shutdown", "worker", FALSE)
      BY <1>4, <1>5, <2>1, <2>2, <2>3
    <2> QED BY <1>10, <2>1, <2>3
  <1>12. ASSUME NEW j \in Jobs,
                SkipSettled(j) \/ StartHandler(j) \/ TaskDone(j) \/ Rejoin(j)
         PROVE  FlowInv'
    <2>1. /\ wk[j] # "none" /\ queue' = queue /\ req' = req
          /\ registry' = registry /\ outcome' = outcome
          /\ \/ abandoned' = abandoned
             \/ abandoned' = [abandoned EXCEPT ![j] = FALSE]
          /\ \/ wk' = [wk EXCEPT ![j] = "run"]
             \/ wk' = [wk EXCEPT ![j] = "tasked"] /\ wk[j] = "settled"
             \/ wk' = [wk EXCEPT ![j] = "none"] /\ (wk[j] = "tasked" \/ Done(j))
      BY <1>12 DEF SkipSettled, StartHandler, TaskDone, Rejoin, reqVars, qVars,
         setVars, poolVars
    <2>2. wk[j] \in {"settled", "tasked"} => Done(j)
      BY <1>1 DEF FlowInv
    <2> QED BY <1>10, <2>1, <2>2
  <1>13. ASSUME NEW j \in Jobs, Submit(j)
         PROVE  FlowInv'
    <2>1. /\ req[j] = "idle" /\ req' = [req EXCEPT ![j] = "waiting"]
          /\ queue' = Append(queue, j) /\ registry' = registry \cup {j}
          /\ wk' = wk /\ outcome' = outcome /\ abandoned' = abandoned
      BY <1>13 DEF Submit, setVars, poolVars
    <2>2. \A y : In(y, queue') <=> In(y, queue) \/ y = j
      BY <1>2, <2>1, QueueAppend
    <2> QED BY <1>1, <2>1, <2>2 DEF FlowInv, FlowTypes, Done
  <1>14. ASSUME NEW j \in Jobs, ReadDiscards(j)
         PROVE  FlowInv'
    <2>1. /\ req[j] = "expired" /\ Discard(j)
          /\ req' = [req EXCEPT ![j] = "discarded"] /\ registry' = registry
          /\ wk' = wk /\ outcome' = outcome /\ abandoned' = abandoned
      BY <1>14 DEF ReadDiscards, setVars, poolVars
    <2>2. \A k \in Jobs : k # j => (In(k, queue) => In(k, queue'))
      <3>1. CASE UNCHANGED qVars
        BY <3>1 DEF qVars
      <3>2. ASSUME NEW i \in DOMAIN queue, queue[i] = j,
                   queue' = TakenOut(queue, i)
            PROVE  \A k \in Jobs : k # j => (In(k, queue) => In(k, queue'))
        BY <1>2, <3>2, RemoveFacts
      <3> QED BY <2>1, <3>1, <3>2 DEF Discard
    <2> QED BY <1>1, <2>1, <2>2 DEF FlowInv, FlowTypes, Done
  <1>15. ASSUME NEW j \in Jobs, GetJob(j)
         PROVE  FlowInv'
    <2>1. /\ queue # <<>> /\ Head(queue) = j /\ queue' = Tail(queue)
          /\ wk' = [wk EXCEPT ![j] = "taken"] /\ req' = req
          /\ outcome' = outcome /\ abandoned' = abandoned /\ registry' = registry
      BY <1>15 DEF GetJob, reqVars, setVars, poolVars
    <2>2. /\ In(j, queue)
          /\ \A k \in Jobs : k # j => (In(k, queue) => In(k, queue'))
      BY <1>2, <2>1, QueueTail
    <2>3. req[j] # "idle"
      BY <1>1, <2>2 DEF QueueInv
    <2> QED BY <1>1, <2>1, <2>2, <2>3 DEF FlowInv, FlowTypes, Done
  <1>16. ASSUME UNCHANGED <<wk, req, outcome, abandoned>>, registry' \subseteq registry,
                \A k \in Jobs : In(k, queue) => In(k, queue')
         PROVE  FlowInv'
    BY <1>1, <1>16 DEF FlowInv, Done
  <1>17. CASE GetSentinel
    <2>1. /\ queue # <<>> /\ Head(queue) = Sentinel /\ queue' = Tail(queue)
          /\ UNCHANGED <<wk, req, outcome, abandoned, registry>>
      BY <1>17 DEF GetSentinel, reqVars, setVars, poolVars
    <2>2. \A k \in Jobs : In(k, queue) => In(k, queue')
      BY <1>2, <2>1, QueueTail
    <2> QED BY <1>16, <2>1, <2>2
  <1>18. CASE PutSentinels
    <2>1. queue = <<>> /\ UNCHANGED <<wk, req, outcome, abandoned, registry>>
      BY <1>18 DEF PutSentinels, reqVars, setVars, poolVars
    <2>2. \A k \in Jobs : In(k, queue) => In(k, queue')
      BY <2>1, EmptyFacts
    <2> QED BY <1>16, <2>1, <2>2
  <1>19. CASE FinalDrain
    <2>1. /\ sd = "final" /\ UNCHANGED <<wk, req, outcome, abandoned, registry>>
      BY <1>19 DEF FinalDrain, reqVars, setVars, poolVars
    <2>2. \A k \in Jobs : ~In(k, queue)
      BY <1>1, <2>1 DEF QueueInv
    <2> QED BY <1>16, <2>1, <2>2
  <1>20. CASE Restart
    <2>1. /\ req' = [j \in Jobs |-> IF req[j] = "idle" THEN "idle" ELSE "gone"]
          /\ wk' = [j \in Jobs |-> "none"] /\ abandoned' = [j \in Jobs |-> FALSE]
          /\ registry' = {} /\ outcome' = outcome
      BY <1>20 DEF Restart
    <2> QED BY <1>1, <2>1 DEF FlowInv, Done
  <1>21. CASE \/ LoopTest \/ Leave \/ ReapRows \/ ReapRegistry \/ Shutdown
              \/ JoinEnds \/ DrainDone \/ UNCHANGED vars
              \/ \E j \in Jobs : FinalWrite(j) \/ FinalFrame(j) \/ Age(j)
    <2>1. /\ UNCHANGED <<queue, wk, req, outcome, abandoned>>
          /\ registry' \subseteq registry
      BY <1>21 DEF LoopTest, Leave, ReapRows, ReapRegistry, Shutdown, JoinEnds,
         DrainDone, vars, FinalWrite, FinalFrame, Age, reqVars, setVars, qVars,
         poolVars
    <2> QED BY <1>16, <2>1
  <1> QED
    BY <1>3, <1>6, <1>7, <1>8, <1>9, <1>11, <1>12, <1>13, <1>14, <1>15, <1>17,
       <1>18, <1>19, <1>20, <1>21
    DEF Next, RequestStep, WorkerStep, FinishStep, ShutdownStep

-----------------------------------------------------------------------------
(* Each step keeps the rows true. *)

\* A write of a snapshot that was true of its job keeps the rows true.
LEMMA UpsertTrue ==
  ASSUME FlowTypes, RowInv, NEW j \in Jobs, Persisted(j),
         NEW s \in {"none", "queued", "running", "done", "error"},
         s = "done" => outcome[j] \in {"ok", "big"},
         s = "error" => outcome[j] \in {"raised", "timeout", "shutdown"},
         Upsert(j, s)
  PROVE  \A k \in Jobs :
           /\ rows'[k] # "none" => Persisted(k) \/ req[k] = "gone"
           /\ rows'[k] = "done" => outcome[k] = "ok"
           /\ rows'[k] = "error" => outcome[k] \notin {"none", "ok"}
           /\ rows'[k] = "interrupted" => req[k] = "gone"
  BY DEF FlowTypes, RowInv, Upsert, RowStatus

\* Every operation keeps the rows of the jobs table true of their jobs.
LEMMA RowStep ==
  ASSUME IInv, [Next]_vars
  PROVE  RowInv'
  <1>1. FlowTypes /\ TypeOK /\ RowInv /\ FlowInv
    BY TypeSplit DEF IInv
  <1>2. ASSUME NEW j \in Jobs,
               \/ Submit(j) \/ SubmitRefused(j) \/ AnswerInline(j) \/ Claim(j)
               \/ ReadTimesOut(j) \/ ReadDiscards(j) \/ ReadForgets(j)
        PROVE  RowInv'
    <2>1. /\ UNCHANGED <<fin, rows, snap, outcome>>
          /\ req[j] \notin {"claimed", "snapped", "polling", "gone"}
          /\ \E p : req' = [req EXCEPT ![j] = p]
      BY <1>2 DEF Submit, SubmitRefused, AnswerInline, Claim, ReadTimesOut,
         ReadDiscards, ReadForgets, setVars, dbVars
    <2> QED BY <1>1, <2>1 DEF RowInv, FlowTypes, Persisted
  <1>3. ASSUME NEW j \in Jobs, ClaimSnapshot(j)
        PROVE  RowInv'
    <2>1. /\ UNCHANGED <<fin, rows, outcome>>
          /\ req[j] = "claimed" /\ req' = [req EXCEPT ![j] = "snapped"]
          /\ snap' = [snap EXCEPT ![j] = Status(j)]
      BY <1>3 DEF ClaimSnapshot, setVars, dbVars
    <2>2. /\ Status(j) = "done" => outcome[j] \in {"ok", "big"}
          /\ Status(j) = "error" => outcome[j] \in {"raised", "timeout", "shutdown"}
      BY DEF Status
    <2> QED BY <1>1, <2>1, <2>2 DEF RowInv, FlowTypes, Persisted
  <1>4. ASSUME NEW j \in Jobs, ClaimWrite(j)
        PROVE  RowInv'
    <2>1. /\ UNCHANGED <<fin, outcome>> /\ Upsert(j, snap[j])
          /\ req[j] = "snapped" /\ req' = [req EXCEPT ![j] = "polling"]
          /\ snap' = [snap EXCEPT ![j] = "none"]
      BY <1>4 DEF ClaimWrite, setVars
    <2>2. snap[j] \in {"none", "queued", "running", "done", "error"} /\ Persisted(j)
          /\ (snap[j] = "done" => outcome[j] \in {"ok", "big"})
          /\ (snap[j] = "error" => outcome[j] \in {"raised", "timeout", "shutdown"})
      BY <1>1, <2>1 DEF FlowTypes, Persisted, RowInv
    <2>3. \A k \in Jobs :
            /\ rows'[k] # "none" => Persisted(k) \/ req[k] = "gone"
            /\ rows'[k] = "done" => outcome[k] = "ok"
            /\ rows'[k] = "error" => outcome[k] \notin {"none", "ok"}
            /\ rows'[k] = "interrupted" => req[k] = "gone"
      BY <1>1, <2>1, <2>2, UpsertTrue
    <2> QED BY <1>1, <2>1, <2>3 DEF RowInv, FlowTypes, Persisted
  <1>5. ASSUME NEW j \in Jobs, FinalWrite(j)
        PROVE  RowInv'
    <2>1. /\ UNCHANGED <<outcome, req, snap>> /\ Upsert(j, Status(j))
          /\ fin[j] = "write" /\ fin' = [fin EXCEPT ![j] = "frame"]
      BY <1>5 DEF FinalWrite, reqVars
    <2>2. Persisted(j) /\ Status(j) \in {"none", "queued", "running", "done", "error"}
      BY <1>1, <2>1, StatusType DEF RowInv
    <2>3. /\ Status(j) = "done" => outcome[j] \in {"ok", "big"}
          /\ Status(j) = "error" => outcome[j] \in {"raised", "timeout", "shutdown"}
      BY DEF Status
    <2>4. \A k \in Jobs :
            /\ rows'[k] # "none" => Persisted(k) \/ req[k] = "gone"
            /\ rows'[k] = "done" => outcome[k] = "ok"
            /\ rows'[k] = "error" => outcome[k] \notin {"none", "ok"}
            /\ rows'[k] = "interrupted" => req[k] = "gone"
      BY <1>1, <2>1, <2>2, <2>3, UpsertTrue
    <2> QED BY <1>1, <2>1, <2>2, <2>4 DEF RowInv, FlowTypes, Persisted
  <1>6. ASSUME NEW j \in Jobs, NEW o \in Outcomes, NEW t \in BOOLEAN,
               NEW by \in {"worker", "watchdog", "reader", "shutdown"},
               Settle(j, o, by, t), UNCHANGED <<rows, snap>>,
               \/ req' = req
               \/ req[j] = "late" /\ req' = [req EXCEPT ![j] = "expired"]
        PROVE  RowInv'
    <2>1. /\ \A k \in Jobs : Done(k) => outcome'[k] = outcome[k]
          /\ \A k \in Jobs : k # j => outcome'[k] = outcome[k] /\ fin'[k] = fin[k]
          /\ fin'[j] \in {"write", "frame"} => fin'[j] = fin[j] \/ Persisted(j)
      BY <1>1, <1>6, SettleFacts
    <2>2. \A k \in Jobs : Persisted(k) => Persisted(k)'
      BY <1>1, <1>6 DEF Persisted, FlowTypes
    <2>3. \A k \in Jobs : req[k] = "gone" => req'[k] = "gone"
      BY <1>1, <1>6 DEF FlowTypes
    <2>4. \A k \in Jobs : fin'[k] \in {"write", "frame"} => Persisted(k)'
      BY <1>1, <2>1, <2>2 DEF RowInv
    <2> QED BY <1>1, <1>6, <2>1, <2>2, <2>3, <2>4 DEF RowInv, Done
  <1>7. "timeout" \in Outcomes /\ "shutdown" \in Outcomes
    BY DEF Outcomes
  <1>8. ASSUME NEW j \in Jobs, ReadSettles(j) \/ AbandonOverdue(j) \/ DrainTake(j)
        PROVE  RowInv'
    <2>1. /\ UNCHANGED <<rows, snap>>
          /\ \/ req' = req
             \/ req[j] = "late" /\ req' = [req EXCEPT ![j] = "expired"]
          /\ \/ Settle(j, "timeout", "reader", TRUE)
             \/ Settle(j, "timeout", "watchdog", TRUE)
             \/ Settle(j, "shutdown", "shutdown", FALSE)
      BY <1>8 DEF ReadSettles, AbandonOverdue, DrainTake, reqVars, dbVars
    <2> QED BY <1>6, <1>7, <2>1
  <1>9. ASSUME NEW j \in Jobs, NEW r \in HandlerResults, HandlerReturns(j, r)
        PROVE  RowInv'
    <2>1. UNCHANGED <<rows, snap, req>> /\ Settle(j, r, "worker", FALSE) /\ r \in Outcomes
      BY <1>9, BoundsAssumption DEF HandlerReturns, reqVars, dbVars, Outcomes
    <2> QED BY <1>6, <2>1
  <1>10. ASSUME UNCHANGED <<req, snap, outcome>>,
                \A k \in Jobs : fin'[k] \in {"write", "frame"} => fin'[k] = fin[k],
                \A k \in Jobs : rows'[k] = rows[k] \/ rows'[k] = "none"
         PROVE  RowInv'
    BY <1>1, <1>10 DEF RowInv, Persisted
  <1>11. ASSUME NEW j \in Jobs, StopTest(j)
         PROVE  RowInv'
    <2>1. /\ UNCHANGED <<rows, snap, req>>
          /\ \/ Settle(j, "shutdown", "worker", FALSE)
             \/ UNCHANGED <<fin, outcome>>
      BY <1>11 DEF StopTest, reqVars, dbVars, setVars
    <2>2. CASE Settle(j, "shutdown", "worker", FALSE)
      BY <1>6, <1>7, <2>1, <2>2
    <2> QED BY <1>10, <2>1, <2>2
  <1>12. ASSUME NEW j \in Jobs,
                \/ GetJob(j) \/ SkipSettled(j) \/ StartHandler(j) \/ TaskDone(j)
                \/ Rejoin(j) \/ Age(j)
         PROVE  RowInv'
    <2>1. UNCHANGED <<rows, snap, req, fin, outcome>>
      BY <1>12 DEF GetJob, SkipSettled, StartHandler, TaskDone, Rejoin, Age,
         reqVars, dbVars, setVars
    <2> QED BY <1>10, <2>1
  <1>13. ASSUME NEW j \in Jobs, FinalFrame(j)
         PROVE  RowInv'
    <2>1. /\ UNCHANGED <<rows, snap, req, outcome>>
          /\ fin' = [fin EXCEPT ![j] = "sent"]
      BY <1>13 DEF FinalFrame, reqVars, dbVars
    <2> QED BY <1>1, <1>10, <2>1 DEF FlowTypes
  <1>14. CASE ReapRows
    <2>1. /\ UNCHANGED <<snap, req, fin, outcome>>
          /\ \/ rows' = [j \in Jobs |-> IF j \in old THEN "none" ELSE rows[j]]
             \/ rows' = rows
      BY <1>14 DEF ReapRows, reqVars, setVars
    <2> QED BY <1>10, <2>1
  <1>15. CASE Restart
    <2>1. /\ req' = [j \in Jobs |-> IF req[j] = "idle" THEN "idle" ELSE "gone"]
          /\ fin' = [j \in Jobs |-> IF fin[j] = "sent" THEN "sent" ELSE "none"]
          /\ snap' = [j \in Jobs |-> "none"] /\ outcome' = outcome
          /\ \/ rows' = [j \in Jobs |-> FailOrphaned(rows[j])]
             \/ rows' = rows
      BY <1>15 DEF Restart
    <2>2. \A k \in Jobs :
            rows'[k] = rows[k] \/ (rows'[k] = "interrupted" /\ rows[k] # "none")
      <3>1. CASE rows' = rows
        BY <3>1
      <3>2. CASE rows' = [j \in Jobs |-> FailOrphaned(rows[j])]
        BY <3>2 DEF FailOrphaned
      <3> QED BY <2>1, <3>1, <3>2
    <2>3. \A k \in Jobs : rows[k] # "none" => req[k] # "idle"
      BY <1>1 DEF RowInv, Persisted
    <2> QED BY <1>1, <2>1, <2>2, <2>3 DEF RowInv, Persisted
  <1>16. CASE \/ LoopTest \/ GetSentinel \/ Leave \/ ReapRegistry \/ Shutdown
              \/ DrainDone \/ PutSentinels \/ JoinEnds \/ FinalDrain
              \/ UNCHANGED vars
    <2>1. UNCHANGED <<rows, snap, req, fin, outcome>>
      BY <1>16 DEF LoopTest, GetSentinel, Leave, ReapRegistry, Shutdown,
         DrainDone, PutSentinels, JoinEnds, FinalDrain, vars, reqVars, setVars,
         dbVars
    <2> QED BY <1>10, <2>1
  <1> QED
    BY <1>2, <1>3, <1>4, <1>5, <1>8, <1>9, <1>11, <1>12, <1>13, <1>14, <1>15, <1>16
    DEF Next, RequestStep, WorkerStep, FinishStep, ShutdownStep

-----------------------------------------------------------------------------
(* The theorems. *)

\* A queue that has just started satisfies the inductive invariant.
LEMMA InitIInv == Init => IInv
  <1>1. SUFFICES ASSUME Init PROVE IInv
    OBVIOUS
  <1>2. Busy = {} /\ Abandoned = {} /\ Held = {}
    BY <1>1 DEF Init, Busy, Abandoned, running, Held
  <1>3. PoolIsWhole
    BY <1>1, <1>2, FS_EmptySet, BoundsAssumption DEF Init, PoolIsWhole
  <1>4. TasksAddUp
    BY <1>1, <1>2, FS_EmptySet, EmptyFacts DEF Init, TasksAddUp
  <1>5. TypeOK
    BY <1>1, EmptyFacts, BoundsAssumption DEF Init, TypeOK, Items
  <1>6. QueueInv
    BY <1>1, EmptyFacts DEF Init, QueueInv, Stopping
  <1>7. FlowInv /\ RowInv
    BY <1>1 DEF Init, FlowInv, RowInv, Done
  <1> QED BY <1>3, <1>4, <1>5, <1>6, <1>7 DEF IInv

\* Every step of the queue keeps the inductive invariant.
LEMMA StepIInv == IInv /\ [Next]_vars => IInv'
  BY TypeStep, PoolStep, TasksStep, QueueStep, FlowStep, RowStep DEF IInv

\* The strengthened invariant holds in every behaviour of the queue.
THEOREM Inductive == Spec => []IInv
  BY InitIInv, StepIInv, PTL DEF Spec

\* Every counter of the queue stays a natural number and every record keeps its
\* type: no task_done() too many, no worker retired that was not counted.
THEOREM TypeCorrect == Spec => []TypeOK
  <1>1. IInv => TypeOK
    BY DEF IInv
  <1> QED BY <1>1, Inductive, PTL

\* The worker pool is never larger or smaller than its limit plus the workers
\* replaced by _settle(), whatever the number of stuck handlers.
THEOREM PoolCorrect == Spec => []PoolIsWhole
  <1>1. IInv => PoolIsWhole
    BY DEF IInv
  <1> QED BY <1>1, Inductive, PTL

\* unfinished_tasks is the number of items put and not yet reported done.
THEOREM TasksCorrect == Spec => []TasksAddUp
  <1>1. IInv => TasksAddUp
    BY DEF IInv
  <1> QED BY <1>1, Inductive, PTL

\* What submit() answered for good leaves no trace in queue, registry or table.
THEOREM AnsweredCorrect == Spec => []AnsweredLeavesNothing
  <1>1. IInv => AnsweredLeavesNothing
    BY DEF IInv, AnsweredLeavesNothing, FlowInv, RowInv, QueueInv, In, Persisted
  <1> QED BY <1>1, Inductive, PTL

\* No row of the jobs table says of a job what it did not do.
THEOREM RowsCorrect == Spec => []RowsAreTrue
  <1>1. IInv => RowsAreTrue
    BY DEF IInv, RowInv, RowsAreTrue
  <1> QED BY <1>1, Inductive, PTL

\* shutdown() drops sentinels only: every accepted job is settled or running.
THEOREM DrainCorrect == Spec => []NoJobDropped
  <1>1. ASSUME IInv
        PROVE  NoJobDropped
    <2>1. queue \in Seq(Items) /\ DOMAIN queue = 1..Len(queue)
      BY <1>1, LenProperties DEF IInv, TypeOK, Items
    <2>2. \A i \in DOMAIN queue : queue[i] \in Items
      BY <2>1, ElementOfSeq
    <2>3. sd \in {"join", "final", "closed"} => \A i \in DOMAIN queue : queue[i] = Sentinel
      BY <1>1, <2>2 DEF IInv, QueueInv, In, Items
    <2>4. sd = "closed" => \A j \in registry : Done(j) \/ wk[j] # "none"
      BY <1>1 DEF IInv, QueueInv, FlowInv, TypeOK
    <2> QED BY <2>3, <2>4 DEF NoJobDropped
  <1> QED BY <1>1, Inductive, PTL

\* The first settlement of a job is its last.
THEOREM SettledOnceCorrect == Spec => SettledOnce
  <1>1. ASSUME IInv, [Next]_vars
        PROVE  [\A j \in Jobs : Done(j) => outcome'[j] = outcome[j]]_outcome
    <2>1. FlowTypes /\ TypeOK
      BY <1>1, TypeSplit DEF IInv
    <2>2. "timeout" \in Outcomes /\ "shutdown" \in Outcomes /\ HandlerResults \subseteq Outcomes
      BY BoundsAssumption DEF Outcomes
    <2>3. ASSUME NEW j \in Jobs, NEW o \in Outcomes, NEW t \in BOOLEAN,
                 NEW by \in {"worker", "watchdog", "reader", "shutdown"},
                 Settle(j, o, by, t)
          PROVE  \A k \in Jobs : Done(k) => outcome'[k] = outcome[k]
      BY <2>1, <2>3, SettleFacts
    <2>4. ASSUME NEW j \in Jobs,
                 \/ ReadSettles(j) \/ AbandonOverdue(j) \/ DrainTake(j) \/ StopTest(j)
                 \/ \E r \in HandlerResults : HandlerReturns(j, r)
          PROVE  \A k \in Jobs : Done(k) => outcome'[k] = outcome[k]
      <3>1. \/ \E r \in HandlerResults : Settle(j, r, "worker", FALSE)
            \/ Settle(j, "timeout", "reader", TRUE)
            \/ Settle(j, "timeout", "watchdog", TRUE)
            \/ Settle(j, "shutdown", "shutdown", FALSE)
            \/ Settle(j, "shutdown", "worker", FALSE)
            \/ outcome' = outcome
        BY <2>4 DEF ReadSettles, AbandonOverdue, DrainTake, StopTest,
           HandlerReturns, setVars
      <3> QED BY <2>2, <2>3, <3>1
    <2>5. ASSUME NEW j \in Jobs,
                 \/ Submit(j) \/ SubmitRefused(j) \/ AnswerInline(j) \/ Claim(j)
                 \/ ClaimSnapshot(j) \/ ClaimWrite(j) \/ ReadTimesOut(j)
                 \/ ReadDiscards(j) \/ ReadForgets(j) \/ GetJob(j)
                 \/ SkipSettled(j) \/ StartHandler(j) \/ TaskDone(j) \/ Rejoin(j)
                 \/ FinalWrite(j) \/ FinalFrame(j) \/ Age(j)
          PROVE  outcome' = outcome
      BY <2>5 DEF Submit, SubmitRefused, AnswerInline, Claim, ClaimSnapshot,
         ClaimWrite, ReadTimesOut, ReadDiscards, ReadForgets, GetJob,
         SkipSettled, StartHandler, TaskDone, Rejoin, FinalWrite, FinalFrame,
         Age, setVars
    <2>6. CASE \/ LoopTest \/ GetSentinel \/ Leave \/ ReapRows \/ ReapRegistry
               \/ Shutdown \/ DrainDone \/ PutSentinels \/ JoinEnds
               \/ FinalDrain \/ Restart \/ UNCHANGED vars
      BY <2>6 DEF LoopTest, GetSentinel, Leave, ReapRows, ReapRegistry,
         Shutdown, DrainDone, PutSentinels, JoinEnds, FinalDrain, Restart,
         vars, setVars
    <2> QED BY <1>1, <2>4, <2>5, <2>6
      DEF Next, RequestStep, WorkerStep, FinishStep, ShutdownStep
  <1> QED BY <1>1, Inductive, PTL DEF Spec, SettledOnce

-----------------------------------------------------------------------------
(* Who gets in: types, and what EntryIsEarned rests on. *)

Tokens == {"code", "jwt", "bad", "none"}
ClientRec == [fails : Seq(Nat), until : Nat, strikes : Nat, seen : Nat]
TicketRec == [kind : {"ws", "favicon"}, token : Tokens, src : Sources, expires : Nat, listed : BOOLEAN, uses : Nat]
RequestRec == {Idle} \cup [st : {"auth", "check", "fail", "in"}, src : Sources, token : Tokens, then : Nat]

AccessTypes ==
  /\ now \in Nat /\ served \in Nat
  /\ request \in [Requests -> RequestRec]
  /\ DOMAIN clients \subseteq Sources
  /\ \A s \in DOMAIN clients : clients[s] \in ClientRec
  /\ tickets \in Seq(TicketRec)
  /\ rejected \in [Sources -> Seq(Nat)]

\* What the limiter has of a source that failed at the times R: fewer failures than cost a lockout, and among them
\* every one of R that is in the window and later than the last lockout.
Ledger(e, R, t) ==
  /\ Len(e.fails) < Threshold
  /\ \A x \in Int : x >= e.until - BaseLockout /\ x >= t - Window =>
       Len(Kept(R, After(x))) <= Len(Kept(e.fails, After(x)))

LedgerAt(s) ==
  /\ \A i \in DOMAIN rejected[s] : rejected[s][i] <= now
  /\ s \notin DOMAIN clients => rejected[s] = <<>>
  /\ s \in DOMAIN clients => Ledger(clients[s], rejected[s], now)

\* Requests of source s that have passed check() and are about to fail.
Pending(s) == {r \in Requests : request[r].st = "fail" /\ request[r].src = s}

\* A source has at most Threshold failures in the span that ends now, with one for each other request, those
\* that are about to fail among them.
PendingAt(s) ==
  Len(Kept(rejected[s], After(now - Span))) + Cardinality(Pending(s)) <= Threshold + Cardinality(Requests) - 1

LimiterInv == \A s \in Sources : LedgerAt(s) /\ PendingAt(s)

\* A request that came on a ticket took it from the list.
Holds(r, i) == request[r].st \in {"auth", "in"} /\ request[r].then = i /\ i # 0 /\ request[r].token # "none"

TicketInv ==
  /\ \A i \in DOMAIN tickets :
       tickets[i].kind = "ws" => tickets[i].uses <= 1 /\ (tickets[i].uses = 1 => ~tickets[i].listed)
  /\ \A r \in Requests : \A i \in Nat : Holds(r, i) => i \in DOMAIN tickets /\ tickets[i].kind = "ws" /\ ~tickets[i].listed
  /\ \A r, q \in Requests : \A i \in Nat : Holds(r, i) /\ Holds(q, i) => r = q

AccessInv == AccessTypes /\ LimiterInv /\ AttemptsBounded /\ TicketInv

-----------------------------------------------------------------------------
(* Who gets in: numbers and lists. *)

\* One step of the recursion of Doubled.
DoubledAt(g, k) == IF k = 0 THEN 1 ELSE 2 * g[k - 1]

LEMMA DoubledExists ==
  ASSUME NEW m \in Nat
  PROVE  \E g : g = [k \in 0..m |-> DoubledAt(g, k)]
  <1> DEFINE P(n) == \E g : g = [k \in 0..n |-> DoubledAt(g, k)]
             T == {n \in Nat : P(n)}
  <1>1. P(0)
    <2>1. [k \in 0..0 |-> 1] = [k \in 0..0 |-> DoubledAt([i \in 0..0 |-> 1], k)]
      BY DEF DoubledAt
    <2> QED BY <2>1
  <1>2. ASSUME NEW n \in Nat, P(n) PROVE P(n + 1)
    <2>1. PICK g : g = [k \in 0..n |-> DoubledAt(g, k)]
      BY <1>2
    <2> DEFINE h == [k \in 0..(n + 1) |-> IF k <= n THEN g[k] ELSE DoubledAt(g, n + 1)]
    <2>2. ASSUME NEW k \in 0..(n + 1) PROVE h[k] = DoubledAt(h, k)
      <3>1. \A i \in 0..n : h[i] = g[i]
        OBVIOUS
      <3>2. k # 0 => k - 1 \in 0..n
        OBVIOUS
      <3>3. DoubledAt(g, k) = DoubledAt(h, k)
        BY <3>1, <3>2 DEF DoubledAt
      <3>4. h[k] = DoubledAt(g, k)
        <4>1. CASE k <= n
          BY <4>1, <2>1
        <4>2. CASE k = n + 1
          BY <4>2
        <4> QED BY <4>1, <4>2
      <3> QED BY <3>3, <3>4
    <2>3. h = [k \in 0..(n + 1) |-> DoubledAt(h, k)]
      BY <2>2
    <2> HIDE DEF h
    <2> QED BY <2>3
  <1> HIDE DEF P
  <1>3. T = Nat
    <2>1. T \in SUBSET Nat /\ 0 \in T
      BY <1>1
    <2>2. \A n \in T : n + 1 \in T
      BY <1>2
    <2> HIDE DEF T
    <2> QED BY <2>1, <2>2, SetInduction
  <1>4. P(m)
    BY <1>3
  <1> QED BY <1>4 DEF P

LEMMA DoubledFacts ==
  ASSUME NEW m \in Nat
  PROVE  Doubled(m) \in Nat \ {0}
  <1> DEFINE power == CHOOSE g : g = [k \in 0..m |-> DoubledAt(g, k)]
  <1>1. power = [k \in 0..m |-> DoubledAt(power, k)]
    BY DoubledExists
  <1>2. Doubled(m) = power[m]
    BY DEF Doubled, DoubledAt
  <1> HIDE DEF power
  <1> DEFINE P(k) == k <= m => power[k] \in Nat \ {0}
             T == {k \in Nat : P(k)}
  <1>3. P(0)
    BY <1>1 DEF DoubledAt
  <1>4. ASSUME NEW k \in Nat, P(k) PROVE P(k + 1)
    <2>1. SUFFICES ASSUME k + 1 <= m PROVE power[k + 1] \in Nat \ {0}
      OBVIOUS
    <2>2. k + 1 \in 0..m /\ k + 1 # 0 /\ (k + 1) - 1 = k
      BY <2>1
    <2>3. power[k + 1] = 2 * power[k]
      BY <1>1, <2>2 DEF DoubledAt
    <2>4. power[k] \in Nat \ {0}
      BY <1>4, <2>1
    <2> QED BY <2>3, <2>4
  <1> HIDE DEF P
  <1>5. T = Nat
    <2>1. T \in SUBSET Nat /\ 0 \in T
      BY <1>3
    <2>2. \A k \in T : k + 1 \in T
      BY <1>4
    <2> HIDE DEF T
    <2> QED BY <2>1, <2>2, SetInduction
  <1>6. P(m)
    BY <1>5
  <1> QED BY <1>2, <1>6 DEF P

\* min()
LEMMA LeastOfTwo ==
  ASSUME NEW m \in Nat, NEW n \in Nat
  PROVE  /\ Min({m, n}) \in {m, n}
         /\ Min({m, n}) <= m /\ Min({m, n}) <= n
  <1>1. \E x \in {m, n} : \A y \in {m, n} : x <= y
    <2>1. m <= n \/ n <= m
      OBVIOUS
    <2> QED BY <2>1
  <1>2. Min({m, n}) \in {m, n} /\ \A y \in {m, n} : Min({m, n}) <= y
    BY <1>1 DEF Min
  <1> QED BY <1>2

\* A lockout lasts at least as long as the first one.
LEMMA LockoutFacts ==
  ASSUME NEW k \in Nat
  PROVE  Lockout(k + 1) \in Nat /\ Lockout(k + 1) >= BaseLockout
  <1>1. BaseLockout \in Nat \ {0} /\ MaxLockout \in Nat \ {0} /\ BaseLockout <= MaxLockout
    BY AccessAssumption
  <1>2. PICK d \in Nat \ {0} : d = Doubled((k + 1) - 1)
    BY DoubledFacts
  <1>3. PICK b \in Nat : b = BaseLockout * d /\ b >= BaseLockout
    BY <1>1
  <1>4. Lockout(k + 1) = Min({b, MaxLockout})
    BY <1>2, <1>3 DEF Lockout
  <1> QED BY <1>1, <1>3, <1>4, LeastOfTwo

LEMMA SpanFacts == Span \in Nat \ {0} /\ Span <= Window /\ Span <= BaseLockout
  <1>1. BaseLockout \in Nat \ {0} /\ Window \in Nat \ {0}
    BY AccessAssumption
  <1> QED BY <1>1, LeastOfTwo DEF Span

\* None of a source's failures is later than now, so those of the span that ends now are those after it began.
LEMMA SpanEndsNow ==
  ASSUME NEW R \in Seq(Nat), NEW n \in Nat, \A i \in DOMAIN R : R[i] <= n, NEW x \in Int
  PROVE  Kept(R, After(x) \cap 0..n) = Kept(R, After(x))
  <1>1. \A i \in DOMAIN R : R[i] \in Nat /\ R[i] <= n
    BY ElementOfSeq, LenProperties
  <1>2. \A i \in DOMAIN R : R[i] \in After(x) \cap 0..n <=> R[i] \in After(x)
    BY <1>1 DEF After
  <1> QED BY <1>2, KeptAgree

\* A failure more is kept where it counts, and changes nothing else.
LEMMA TimesAppend ==
  ASSUME NEW R \in Seq(Nat), NEW n \in Nat, NEW S
  PROVE  /\ n \in S => Kept(Append(R, n), S) = Append(Kept(R, S), n)
         /\ n \notin S => Kept(Append(R, n), S) = Kept(R, S)
  BY KeptAppend

\* No failure is kept of none.
LEMMA NoneKept == ASSUME NEW S PROVE Kept(<<>>, S) = <<>> /\ Len(Kept(<<>>, S)) = 0
  <1>1. <<>> \in Seq(Nat) /\ Len(<<>>) = 0
    BY EmptySeq
  <1>2. \A k \in DOMAIN <<>> : FALSE
    OBVIOUS
  <1>3. Kept(<<>>, S) = <<>>
    BY <1>1, <1>2, KeptSizes
  <1> QED BY <1>1, <1>3

\* register_failure() keeps the ledger: the failure is counted, or it costs a lockout that outlasts it.
LEMMA FailedFacts ==
  ASSUME NEW e \in ClientRec, NEW R \in Seq(Nat), now \in Nat, \A i \in DOMAIN R : R[i] <= now, Ledger(e, R, now)
  PROVE  Failed(e) \in ClientRec /\ Ledger(Failed(e), Append(R, now), now)
  <1>1. /\ {Threshold, Window, BaseLockout} \subseteq Nat \ {0}
        /\ e.fails \in Seq(Nat) /\ e.until \in Nat /\ e.strikes \in Nat
    BY AccessAssumption DEF ClientRec
  <1>2. PICK fails : fails = Kept(Append(e.fails, now), After(now - Window))
    OBVIOUS
  <1>3. Append(e.fails, now) \in Seq(Nat) /\ Append(R, now) \in Seq(Nat)
    BY <1>1, AppendProperties
  <1>4. fails \in Seq(Nat) /\ Len(fails) \in Nat
    BY <1>2, <1>3, KeptFacts, LenProperties
  <1>5. CASE Struck(fails)
    <2>1. PICK f : f = [fails |-> <<>>, until |-> now + Lockout(e.strikes + 1), strikes |-> e.strikes + 1, seen |-> now]
      OBVIOUS
    <2>2. Failed(e) = f
      BY <1>2, <1>5, <2>1 DEF Failed
    <2>3. Lockout(e.strikes + 1) \in Nat /\ Lockout(e.strikes + 1) >= BaseLockout
      BY <1>1, LockoutFacts
    <2>4. f \in ClientRec
      BY <1>1, <2>1, <2>3, EmptySeq DEF ClientRec
    <2>5. ASSUME NEW x \in Int, x >= f.until - BaseLockout
          PROVE  Len(Kept(Append(R, now), After(x))) <= Len(Kept(f.fails, After(x)))
      <3>1. x >= now
        BY <1>1, <2>1, <2>3, <2>5
      <3>2. \A i \in DOMAIN R : R[i] \in Nat /\ R[i] <= now
        BY ElementOfSeq, LenProperties
      <3>3. now \notin After(x) /\ \A i \in DOMAIN R : R[i] \notin After(x)
        BY <3>1, <3>2 DEF After
      <3>4. Kept(R, After(x)) = <<>>
        BY <3>3, KeptSizes
      <3>5. Kept(Append(R, now), After(x)) = Kept(R, After(x))
        BY <3>3, TimesAppend
      <3> QED BY <2>1, <3>4, <3>5, NoneKept
    <2>6. Len(f.fails) < Threshold
      BY <1>1, <2>1, EmptySeq
    <2> QED BY <2>2, <2>4, <2>5, <2>6 DEF Ledger
  <1>6. CASE ~Struck(fails)
    <2>1. PICK f : f = [e EXCEPT !.fails = fails, !.seen = now]
      OBVIOUS
    <2>2. Failed(e) = f
      BY <1>2, <1>6, <2>1 DEF Failed
    <2>3. f \in ClientRec /\ f.fails = fails /\ f.until = e.until
      BY <1>4, <2>1 DEF ClientRec
    <2>4. Len(fails) < Threshold
      BY <1>1, <1>4, <1>6 DEF Struck
    <2>5. ASSUME NEW x \in Int, x >= f.until - BaseLockout, x >= now - Window
          PROVE  Len(Kept(Append(R, now), After(x))) <= Len(Kept(f.fails, After(x)))
      <3>1. After(x) \subseteq After(now - Window)
        BY <1>1, <2>5 DEF After
      <3>2. Kept(f.fails, After(x)) = Kept(Append(e.fails, now), After(x))
        <4>1. Kept(Kept(Append(e.fails, now), After(now - Window)), After(x)) = Kept(Append(e.fails, now), After(x))
          BY <1>3, <3>1, KeptTwice
        <4> QED BY <1>2, <2>3, <4>1
      <3>3. Len(Kept(R, After(x))) <= Len(Kept(e.fails, After(x)))
        BY <2>3, <2>5 DEF Ledger
      <3>4. /\ Kept(R, After(x)) \in Seq(Nat) /\ Len(Kept(R, After(x))) \in Nat
            /\ Kept(e.fails, After(x)) \in Seq(Nat) /\ Len(Kept(e.fails, After(x))) \in Nat
        BY <1>1, KeptFacts, LenProperties
      <3>5. CASE now \in After(x)
        <4>1. /\ Kept(Append(R, now), After(x)) = Append(Kept(R, After(x)), now)
              /\ Kept(Append(e.fails, now), After(x)) = Append(Kept(e.fails, After(x)), now)
          <5>1. Kept(Append(R, now), After(x)) = Append(Kept(R, After(x)), now)
            BY <3>5, TimesAppend
          <5>2. e.fails \in Seq(Nat)
            BY <1>1
          <5>3. Kept(Append(e.fails, now), After(x)) = Append(Kept(e.fails, After(x)), now)
            BY <3>5, <5>2, TimesAppend
          <5> QED BY <5>1, <5>3
        <4>2. /\ Len(Append(Kept(R, After(x)), now)) = Len(Kept(R, After(x))) + 1
              /\ Len(Append(Kept(e.fails, After(x)), now)) = Len(Kept(e.fails, After(x))) + 1
          BY <3>4, AppendProperties
        <4> QED BY <3>2, <3>3, <3>4, <4>1, <4>2
      <3>6. CASE now \notin After(x)
        <4>1. /\ Kept(Append(R, now), After(x)) = Kept(R, After(x))
              /\ Kept(Append(e.fails, now), After(x)) = Kept(e.fails, After(x))
          <5>1. Kept(Append(R, now), After(x)) = Kept(R, After(x))
            BY <3>6, TimesAppend
          <5>2. e.fails \in Seq(Nat)
            BY <1>1
          <5>3. Kept(Append(e.fails, now), After(x)) = Kept(e.fails, After(x))
            BY <3>6, <5>2, TimesAppend
          <5> QED BY <5>1, <5>3
        <4> QED BY <3>2, <3>3, <4>1
      <3> QED BY <3>5, <3>6
    <2> QED BY <2>2, <2>3, <2>4, <2>5 DEF Ledger
  <1> QED BY <1>5, <1>6

-----------------------------------------------------------------------------
(* Who gets in: what the limiter knows, source by source. *)

\* What is known of a source whose entry is cleared or evicted, or was never there.
LEMMA LedgerCleared ==
  ASSUME NEW s \in Sources, rejected'[s] = <<>>, s \notin DOMAIN clients'
  PROVE  LedgerAt(s)'
  BY DEF LedgerAt

\* Time passes, or a source's entry is touched without changing what it counts.
LEMMA LedgerSame ==
  ASSUME NEW s \in Sources, LedgerAt(s), AccessTypes, now' \in Nat, now' >= now, rejected'[s] = rejected[s],
         s \in DOMAIN clients' <=> s \in DOMAIN clients,
         s \in DOMAIN clients => clients'[s].fails = clients[s].fails /\ clients'[s].until = clients[s].until
  PROVE  LedgerAt(s)'
  <1>1. now \in Nat /\ Window \in Nat /\ rejected[s] \in Seq(Nat)
    BY AccessAssumption DEF AccessTypes
  <1>2. \A i \in DOMAIN rejected[s] : rejected[s][i] \in Nat /\ rejected[s][i] <= now
    BY <1>1, ElementOfSeq, LenProperties DEF LedgerAt
  <1>3. \A i \in DOMAIN rejected'[s] : rejected'[s][i] <= now'
    BY <1>1, <1>2
  <1>4. ASSUME s \in DOMAIN clients' PROVE Ledger(clients'[s], rejected'[s], now')
    <2>1. Ledger(clients[s], rejected[s], now)
      BY <1>4 DEF LedgerAt
    <2>2. \A x \in Int : x >= now' - Window => x >= now - Window
      BY <1>1
    <2> QED BY <1>4, <2>1, <2>2 DEF Ledger
  <1> QED BY <1>3, <1>4 DEF LedgerAt

\* A source that fails has its failure entered.
LEMMA LedgerFails ==
  ASSUME NEW s \in Sources, NEW e \in ClientRec, AccessTypes, now' = now, \A i \in DOMAIN rejected[s] : rejected[s][i] <= now,
         Ledger(e, rejected[s], now), s \in DOMAIN clients', clients'[s] = Failed(e),
         rejected'[s] = Append(rejected[s], now)
  PROVE  LedgerAt(s)'
  <1>1. now \in Nat /\ rejected[s] \in Seq(Nat)
    BY DEF AccessTypes
  <1>2. Ledger(Failed(e), Append(rejected[s], now), now)
    BY <1>1, FailedFacts
  <1>3. \A i \in DOMAIN rejected'[s] : rejected'[s][i] <= now
    <2>1. PICK R : R = rejected[s]
      OBVIOUS
    <2>2. PICK Q : Q = Append(R, now)
      OBVIOUS
    <2>3. /\ Len(R) \in Nat /\ DOMAIN R = 1..Len(R) /\ DOMAIN Q = 1..(Len(R) + 1)
          /\ \A i \in 1..Len(R) : Q[i] = R[i]
          /\ Q[Len(R) + 1] = now
      BY <1>1, <2>1, <2>2, AppendProperties, LenProperties
    <2>4. \A i \in DOMAIN Q : i \in DOMAIN R \/ i = Len(R) + 1
      BY <2>3
    <2>5. \A i \in DOMAIN Q : Q[i] <= now
      BY <1>1, <2>1, <2>3, <2>4
    <2> QED BY <2>1, <2>2, <2>5
  <1> QED BY <1>2, <1>3 DEF LedgerAt

\* An untracked source that fails starts with an empty ledger.
LEMMA LedgerOfNone ==
  ASSUME NEW e, e.fails = <<>>, now \in Nat PROVE Ledger(e, <<>>, now)
  <1>1. Len(<<>>) < Threshold
    BY AccessAssumption, EmptySeq
  <1>2. \A x \in Int : Len(Kept(<<>>, After(x))) <= Len(Kept(e.fails, After(x)))
    BY NoneKept
  <1> QED BY <1>1, <1>2 DEF Ledger

LEMMA PendingFinite ==
  ASSUME NEW s
  PROVE  /\ Cardinality(Requests) \in Nat /\ IsFiniteSet(Pending(s))
         /\ Cardinality(Pending(s)) \in Nat /\ Cardinality(Pending(s)) <= Cardinality(Requests)
  <1>1. IsFiniteSet(Requests) /\ Pending(s) \subseteq Requests
    BY AccessAssumption DEF Pending
  <1> QED BY <1>1, FS_CardinalityType, FS_Subset

\* The same primed.
LEMMA PendingNext ==
  ASSUME NEW s
  PROVE  /\ IsFiniteSet(Pending(s)') /\ Cardinality(Pending(s)') \in Nat
         /\ Cardinality(Pending(s)') <= Cardinality(Requests)
  <1>1. IsFiniteSet(Requests) /\ Pending(s)' \subseteq Requests
    BY AccessAssumption DEF Pending
  <1> QED BY <1>1, FS_CardinalityType, FS_Subset

\* As long as no request passes check() and none fails, the span holds no more than before.
LEMMA PendingSame ==
  ASSUME NEW s \in Sources, PendingAt(s), AccessTypes, now' \in Nat, now' >= now,
         rejected'[s] \in {<<>>, rejected[s]}, Pending(s)' \subseteq Pending(s)
  PROVE  PendingAt(s)'
  <1>1. /\ Cardinality(Requests) \in Nat /\ Cardinality(Pending(s)') \in Nat
        /\ Cardinality(Pending(s)') <= Cardinality(Pending(s)) /\ Cardinality(Pending(s)) \in Nat
    BY PendingFinite, FS_Subset, FS_CardinalityType
  <1>2. now \in Nat /\ rejected[s] \in Seq(Nat) /\ Span \in Nat /\ Threshold \in Nat
    BY AccessAssumption, SpanFacts DEF AccessTypes
  <1>3. PICK m \in Nat : m = Len(Kept(rejected[s], After(now - Span)))
    BY <1>2, KeptSizes
  <1>4. PICK n : n = Len(Kept(rejected'[s], After(now' - Span)))
    OBVIOUS
  <1>5. n \in Nat /\ n <= m
    <2>1. CASE rejected'[s] = <<>>
      BY <1>3, <1>4, <2>1, NoneKept
    <2>2. CASE rejected'[s] = rejected[s]
      <3>1. After(now' - Span) \subseteq After(now - Span)
        BY <1>2 DEF After
      <3> QED BY <1>2, <1>3, <1>4, <2>2, <3>1, KeptSizes
    <2> QED BY <2>1, <2>2
  <1>6. m + Cardinality(Pending(s)) <= Threshold + Cardinality(Requests) - 1
    BY <1>3 DEF PendingAt
  <1>7. n + Cardinality(Pending(s)') <= Threshold + Cardinality(Requests) - 1
    BY <1>1, <1>2, <1>3, <1>5, <1>6
  <1>8. Span' = Span
    BY DEF Span
  <1> QED BY <1>4, <1>7, <1>8 DEF PendingAt

\* A source that is not blocked has failed less than Threshold times in the span that ends now.
LEMMA UnblockedFew ==
  ASSUME NEW s \in Sources, AccessTypes, LedgerAt(s), ~Blocked(s)
  PROVE  Len(Kept(rejected[s], After(now - Span))) < Threshold
  <1>1. /\ now \in Nat /\ rejected[s] \in Seq(Nat) /\ Threshold \in Nat \ {0} /\ Window \in Nat /\ BaseLockout \in Nat
        /\ Span \in Nat /\ Span <= Window /\ Span <= BaseLockout
    BY AccessAssumption, SpanFacts DEF AccessTypes
  <1>2. CASE s \notin DOMAIN clients
    BY <1>1, <1>2, NoneKept DEF LedgerAt
  <1>3. CASE s \in DOMAIN clients
    <2>1. PICK e : e = clients[s]
      OBVIOUS
    <2>2. e \in ClientRec /\ e.fails \in Seq(Nat) /\ e.until \in Nat /\ e.until <= now /\ Ledger(e, rejected[s], now)
      BY <1>1, <1>3, <2>1 DEF AccessTypes, ClientRec, Blocked, LedgerAt
    <2>3. now - Span \in Int /\ now - Span >= e.until - BaseLockout /\ now - Span >= now - Window
      BY <1>1, <2>2
    <2>4. Len(Kept(rejected[s], After(now - Span))) <= Len(Kept(e.fails, After(now - Span)))
      BY <2>2, <2>3 DEF Ledger
    <2>5. Len(Kept(e.fails, After(now - Span))) <= Len(e.fails) /\ Len(e.fails) < Threshold /\ Len(e.fails) \in Nat
      BY <2>2, KeptFacts, LenProperties DEF Ledger
    <2>6. /\ Len(Kept(rejected[s], After(now - Span))) \in Nat
          /\ Len(Kept(e.fails, After(now - Span))) \in Nat
      BY <1>1, <2>2, KeptSizes
    <2> QED BY <1>1, <2>4, <2>5, <2>6
  <1> QED BY <1>2, <1>3

\* So one more request that passes check() fits.
LEMMA PendingPasses ==
  ASSUME NEW s \in Sources, AccessTypes, LedgerAt(s), ~Blocked(s), now' = now, rejected'[s] = rejected[s]
  PROVE  PendingAt(s)'
  <1>1. Len(Kept(rejected[s], After(now - Span))) < Threshold
    BY UnblockedFew
  <1>2. rejected[s] \in Seq(Nat) /\ Threshold \in Nat
    BY AccessAssumption DEF AccessTypes
  <1>3. PICK m \in Nat : m = Len(Kept(rejected[s], After(now - Span)))
    BY <1>2, KeptSizes
  <1>4. Cardinality(Pending(s)') \in Nat /\ Cardinality(Pending(s)') <= Cardinality(Requests) /\ Cardinality(Requests) \in Nat
    BY PendingNext, PendingFinite
  <1>5. m + Cardinality(Pending(s)') <= Threshold + Cardinality(Requests) - 1
    BY <1>1, <1>2, <1>3, <1>4
  <1>6. Span' = Span
    BY DEF Span
  <1> QED BY <1>3, <1>5, <1>6 DEF PendingAt

\* A request that fails is counted, and no longer pending.
LEMMA PendingFails ==
  ASSUME NEW s \in Sources, NEW r \in Requests, AccessTypes, PendingAt(s), now' = now,
         rejected'[s] = Append(rejected[s], now), r \in Pending(s), Pending(s)' \subseteq Pending(s) \ {r}
  PROVE  PendingAt(s)'
  <1>1. /\ Cardinality(Requests) \in Nat /\ Cardinality(Pending(s)') \in Nat /\ Cardinality(Pending(s)) \in Nat
        /\ Cardinality(Pending(s)') <= Cardinality(Pending(s)) - 1
    <2>1. IsFiniteSet(Pending(s)) /\ IsFiniteSet(Pending(s) \ {r}) /\ Cardinality(Pending(s) \ {r}) = Cardinality(Pending(s)) - 1
      BY PendingFinite, FS_RemoveElement
    <2>2. Cardinality(Pending(s)') <= Cardinality(Pending(s) \ {r})
      BY <2>1, FS_Subset
    <2> QED BY <2>1, <2>2, PendingFinite, PendingNext
  <1>2. now \in Nat /\ rejected[s] \in Seq(Nat) /\ Span \in Nat /\ Threshold \in Nat
    BY AccessAssumption, SpanFacts DEF AccessTypes
  <1>3. PICK k : k = Kept(rejected[s], After(now - Span))
    OBVIOUS
  <1>4. k \in Seq(Nat) /\ Len(k) \in Nat
    BY <1>2, <1>3, KeptFacts, LenProperties
  <1>5. Len(Kept(rejected'[s], After(now - Span))) \in {Len(k), Len(k) + 1}
    <2>1. Kept(Append(rejected[s], now), After(now - Span)) \in {k, Append(k, now)}
      BY <1>2, <1>3, TimesAppend
    <2>2. Len(Append(k, now)) = Len(k) + 1
      BY <1>2, <1>4, AppendProperties
    <2> QED BY <2>1, <2>2
  <1>6. Len(k) + Cardinality(Pending(s)) <= Threshold + Cardinality(Requests) - 1
    BY <1>3 DEF PendingAt
  <1>7. Len(Kept(rejected'[s], After(now - Span))) + Cardinality(Pending(s)') <= Threshold + Cardinality(Requests) - 1
    BY <1>1, <1>2, <1>4, <1>5, <1>6
  <1>8. Span' = Span
    BY DEF Span
  <1> QED BY <1>7, <1>8 DEF PendingAt

\* The spans that have ended do not change; the one that ends now is in the ledger.
LEMMA AttemptsStep ==
  ASSUME AccessTypes, AccessTypes', LimiterInv', AttemptsBounded, now' \in {now, now + 1},
         \A s \in Sources : \/ rejected'[s] \in {<<>>, rejected[s]}
                            \/ now' = now /\ rejected'[s] = Append(rejected[s], now)
  PROVE  AttemptsBounded'
  <1>1. /\ now \in Nat /\ now' \in Nat /\ Span \in Nat /\ Threshold \in Nat \ {0} /\ Cardinality(Requests) \in Nat
    BY AccessAssumption, SpanFacts, FS_CardinalityType DEF AccessTypes
  <1>2. Span' = Span
    BY DEF Span
  <1>3. ASSUME NEW s \in Sources, NEW t \in 1..now'
        PROVE  Len(Kept(rejected'[s], After(t - Span) \cap 0..t)) <= Threshold + Cardinality(Requests) - 1
    <2>1. rejected[s] \in Seq(Nat) /\ rejected'[s] \in Seq(Nat)
      BY DEF AccessTypes
    <2>2. LedgerAt(s)' /\ PendingAt(s)'
      BY DEF LimiterInv
    <2>3. CASE t = now'
      <3>1. \A i \in DOMAIN rejected'[s] : rejected'[s][i] <= now'
        BY <2>2 DEF LedgerAt
      <3>2. Kept(rejected'[s], After(now' - Span) \cap 0..now') = Kept(rejected'[s], After(now' - Span))
        <4>1. now' - Span \in Int
          BY <1>1
        <4>2. PICK R \in Seq(Nat) : R = rejected'[s]
          BY <2>1
        <4>3. \A i \in DOMAIN R : R[i] <= now'
          BY <3>1, <4>2
        <4>4. Kept(R, After(now' - Span) \cap 0..now') = Kept(R, After(now' - Span))
          BY <1>1, <4>1, <4>3, SpanEndsNow
        <4> QED BY <4>2, <4>4
      <3>3. PICK m \in Nat : m = Len(Kept(rejected'[s], After(now' - Span)))
        BY <2>1, KeptSizes
      <3>4. m + Cardinality(Pending(s)') <= Threshold + Cardinality(Requests) - 1
        BY <1>2, <2>2, <3>3 DEF PendingAt
      <3>5. Cardinality(Pending(s)') \in Nat
        BY PendingNext
      <3> QED BY <1>1, <2>3, <3>2, <3>3, <3>4, <3>5
    <2>4. CASE t # now'
      <3>1. t \in 1..now
        BY <1>1, <2>4
      <3>2. Len(Kept(rejected[s], After(t - Span) \cap 0..t)) <= Threshold + Cardinality(Requests) - 1
        BY <3>1 DEF AttemptsBounded
      <3>3. CASE rejected'[s] = <<>>
        BY <1>1, <3>3, NoneKept
      <3>4. CASE rejected'[s] = rejected[s]
        BY <3>2, <3>4
      <3>5. CASE now' = now /\ rejected'[s] = Append(rejected[s], now)
        <4>1. now \notin After(t - Span) \cap 0..t
          BY <1>1, <2>4, <3>5
        <4>2. Kept(Append(rejected[s], now), After(t - Span) \cap 0..t) = Kept(rejected[s], After(t - Span) \cap 0..t)
          BY <1>1, <2>1, <4>1, TimesAppend
        <4> QED BY <3>2, <3>5, <4>2
      <3> QED BY <3>3, <3>4, <3>5
    <2> QED BY <2>3, <2>4
  <1> QED BY <1>2, <1>3 DEF AttemptsBounded

\* The limiter and what is pending of each source stay as they are but for the sources that are cleared.
LEMMA LimiterSame ==
  ASSUME AccessInv, AccessTypes', now' = now,
         \A s \in Sources :
           /\ Pending(s)' \subseteq Pending(s)
           /\ \/ rejected'[s] = <<>> /\ s \notin DOMAIN clients'
              \/ /\ rejected'[s] = rejected[s] /\ (s \in DOMAIN clients' <=> s \in DOMAIN clients)
                 /\ s \in DOMAIN clients => clients'[s].fails = clients[s].fails /\ clients'[s].until = clients[s].until
  PROVE  LimiterInv' /\ AttemptsBounded'
  <1>1. AccessTypes /\ now' \in Nat /\ now' >= now /\ AttemptsBounded
    BY DEF AccessInv, AccessTypes
  <1>2. ASSUME NEW s \in Sources PROVE LedgerAt(s)' /\ PendingAt(s)'
    <2>1. LedgerAt(s) /\ PendingAt(s)
      BY DEF AccessInv, LimiterInv
    <2>2. LedgerAt(s)'
      BY <1>1, <2>1, LedgerCleared, LedgerSame
    <2>3. PendingAt(s)'
      BY <1>1, <2>1, PendingSame
    <2> QED BY <2>2, <2>3
  <1>3. LimiterInv'
    BY <1>2 DEF LimiterInv
  <1> QED BY <1>1, <1>3, AttemptsStep

\* Where no entry is touched either.
LEMMA LimiterUntouched ==
  ASSUME AccessInv, AccessTypes', now' = now, clients' = clients, rejected' = rejected,
         \A s \in Sources : Pending(s)' \subseteq Pending(s)
  PROVE  LimiterInv' /\ AttemptsBounded'
  BY LimiterSame

\* A credential that is good clears its source.
LEMMA LimiterSuccess ==
  ASSUME AccessInv, AccessTypes', now' = now, NEW s \in Sources, RegisterSuccess(s),
         \A t \in Sources : Pending(t)' \subseteq Pending(t)
  PROVE  LimiterInv' /\ AttemptsBounded'
  <1>1. rejected \in [Sources -> Seq(Nat)]
    BY DEF AccessInv, AccessTypes
  <1>2. clients' = Without(clients, {s}) /\ rejected' = [rejected EXCEPT ![s] = <<>>]
    BY DEF RegisterSuccess
  <1>3. ASSUME NEW t \in Sources
        PROVE  \/ rejected'[t] = <<>> /\ t \notin DOMAIN clients'
               \/ /\ rejected'[t] = rejected[t] /\ (t \in DOMAIN clients' <=> t \in DOMAIN clients)
                  /\ t \in DOMAIN clients => clients'[t].fails = clients[t].fails /\ clients'[t].until = clients[t].until
    <2>1. CASE t = s
      BY <1>1, <1>2, <2>1 DEF Without
    <2>2. CASE t # s
      BY <1>1, <1>2, <2>2 DEF Without
    <2> QED BY <2>1, <2>2
  <1> QED BY <1>3, LimiterSame

-----------------------------------------------------------------------------
(* Who gets in: types, action by action. *)

\* A request of each kind is a request.
LEMMA RequestFacts ==
  ASSUME AccessTypes, NEW r \in Requests
  PROVE  /\ request[r] \in RequestRec
         /\ request[r].st # "idle" =>
              /\ request[r].src \in Sources /\ request[r].token \in Tokens /\ request[r].then \in Nat
              /\ request[r].st \in {"auth", "check", "fail", "in"}
              /\ request[r] = [st |-> request[r].st, src |-> request[r].src, token |-> request[r].token, then |-> request[r].then]
         /\ \A x \in RequestRec : [request EXCEPT ![r] = x] \in [Requests -> RequestRec]
  <1>1. request \in [Requests -> RequestRec] /\ request[r] \in RequestRec
    BY DEF AccessTypes
  <1>2. request[r].st # "idle" => request[r] \in [st : {"auth", "check", "fail", "in"}, src : Sources, token : Tokens, then : Nat]
    BY <1>1 DEF RequestRec, Idle
  <1> QED BY <1>1, <1>2

\* What authenticate() leaves of a request.
LEMMA AuthenticateFacts ==
  ASSUME AccessTypes, NEW r \in Requests, NEW s \in Sources, NEW token \in Tokens, NEW then \in Nat,
         Authenticate(r, Guarding(s, token, then))
  PROVE  /\ \/ /\ RegisterSuccess(s) /\ Authenticates(token)
               /\ request' = [request EXCEPT ![r] = [Guarding(s, token, then) EXCEPT !.st = "in"]]
            \/ /\ UNCHANGED <<clients, rejected>>
               /\ request' = [request EXCEPT ![r] = [Guarding(s, token, then) EXCEPT !.st = "check"]]
         /\ request' \in [Requests -> RequestRec]
         /\ \A q \in Requests : q # r => request'[q] = request[q]
         /\ request'[r].st \in {"in", "check"} /\ request'[r].src = s /\ request'[r].token = token /\ request'[r].then = then
         /\ DOMAIN clients' \subseteq DOMAIN clients
         /\ \A t \in DOMAIN clients' : clients'[t] = clients[t]
         /\ rejected' \in [Sources -> Seq(Nat)]
  <1> DEFINE g == Guarding(s, token, then)
  <1>1. /\ g.src = s /\ g.token = token
        /\ [g EXCEPT !.st = "in"] \in RequestRec /\ [g EXCEPT !.st = "check"] \in RequestRec
        /\ [g EXCEPT !.st = "in"] = [st |-> "in", src |-> s, token |-> token, then |-> then]
        /\ [g EXCEPT !.st = "check"] = [st |-> "check", src |-> s, token |-> token, then |-> then]
    BY DEF Guarding, RequestRec
  <1> HIDE DEF g
  <1>2. request \in [Requests -> RequestRec] /\ rejected \in [Sources -> Seq(Nat)]
    BY DEF AccessTypes
  <1>3. CASE Authenticates(token)
    <2>1. RegisterSuccess(s) /\ request' = [request EXCEPT ![r] = [g EXCEPT !.st = "in"]]
      BY <1>1, <1>3 DEF Authenticate, g
    <2>2. /\ request' \in [Requests -> RequestRec] /\ \A q \in Requests : q # r => request'[q] = request[q]
          /\ request'[r] = [g EXCEPT !.st = "in"]
      BY <1>1, <1>2, <2>1
    <2>3. clients' = Without(clients, {s}) /\ rejected' = [rejected EXCEPT ![s] = <<>>]
      BY <2>1 DEF RegisterSuccess
    <2>4. rejected' \in [Sources -> Seq(Nat)]
      <3>1. <<>> \in Seq(Nat)
        BY EmptySeq
      <3> QED BY <1>2, <2>3, <3>1
    <2>5. DOMAIN clients' \subseteq DOMAIN clients /\ \A t \in DOMAIN clients' : clients'[t] = clients[t]
      BY <2>3 DEF Without
    <2> QED BY <1>1, <1>3, <2>1, <2>2, <2>4, <2>5 DEF g
  <1>4. CASE ~Authenticates(token)
    <2>1. UNCHANGED <<clients, rejected>> /\ request' = [request EXCEPT ![r] = [g EXCEPT !.st = "check"]]
      BY <1>1, <1>4 DEF Authenticate, g
    <2>2. /\ request' \in [Requests -> RequestRec] /\ \A q \in Requests : q # r => request'[q] = request[q]
          /\ request'[r] = [g EXCEPT !.st = "check"]
      BY <1>1, <1>2, <2>1
    <2> QED BY <1>1, <1>2, <2>1, <2>2 DEF g
  <1> QED BY <1>3, <1>4

\* register_failure(): the source's failure is entered; the others keep their entry, or are evicted with it.
LEMMA FailureFacts ==
  ASSUME AccessInv, now' = now, NEW s \in Sources, RegisterFailure(s)
  PROVE  /\ DOMAIN clients' \subseteq Sources /\ \A t \in DOMAIN clients' : clients'[t] \in ClientRec
         /\ rejected' \in [Sources -> Seq(Nat)]
         /\ LedgerAt(s)' /\ rejected'[s] = Append(rejected[s], now)
         /\ \A t \in Sources \ {s} : LedgerAt(t)' /\ rejected'[t] \in {<<>>, rejected[t]}
  <1>1. /\ AccessTypes /\ now \in Nat /\ rejected \in [Sources -> Seq(Nat)] /\ DOMAIN clients \subseteq Sources
        /\ \A t \in DOMAIN clients : clients[t] \in ClientRec
    BY DEF AccessInv, AccessTypes
  <1>2. \A t \in Sources : LedgerAt(t)
    BY DEF AccessInv, LimiterInv
  <1> DEFINE none == [fails |-> <<>>, until |-> 0, strikes |-> 0, seen |-> now]
  <1>3. PICK gone :
          /\ s \in DOMAIN clients => gone = {}
          /\ clients' = [t \in DOMAIN Without(clients, gone) \cup {s} |->
                           IF t = s THEN Failed(IF s \in DOMAIN clients THEN clients[s] ELSE none)
                           ELSE Without(clients, gone)[t]]
          /\ rejected' = [t \in Sources |-> IF t = s THEN Append(rejected[t], now)
                                            ELSE IF t \in gone THEN <<>> ELSE rejected[t]]
    <2>1. CASE s \in DOMAIN clients
      BY <2>1 DEF RegisterFailure
    <2>2. CASE s \notin DOMAIN clients
      BY <2>2 DEF RegisterFailure
    <2> QED BY <2>1, <2>2
  <1>4. PICK e : e = IF s \in DOMAIN clients THEN clients[s] ELSE none
    OBVIOUS
  <1>5. PICK kept : kept = Without(clients, gone)
    OBVIOUS
  <1>6. /\ clients' = [t \in DOMAIN kept \cup {s} |-> IF t = s THEN Failed(e) ELSE kept[t]]
        /\ rejected' = [t \in Sources |-> IF t = s THEN Append(rejected[t], now)
                                          ELSE IF t \in gone THEN <<>> ELSE rejected[t]]
    BY <1>3, <1>4, <1>5
  <1>7. e \in ClientRec /\ Ledger(e, rejected[s], now)
    <2>1. CASE s \in DOMAIN clients
      BY <1>1, <1>2, <1>4, <2>1 DEF LedgerAt
    <2>2. CASE s \notin DOMAIN clients
      <3>1. e = [fails |-> <<>>, until |-> 0, strikes |-> 0, seen |-> now] /\ rejected[s] = <<>>
        BY <1>2, <1>4, <2>2 DEF LedgerAt
      <3>2. <<>> \in Seq(Nat)
        BY EmptySeq
      <3>3. e \in ClientRec /\ e.fails = <<>>
        BY <1>1, <3>1, <3>2 DEF ClientRec
      <3> QED BY <1>1, <3>1, <3>3, LedgerOfNone
    <2> QED BY <2>1, <2>2
  <1>8. rejected[s] \in Seq(Nat) /\ \A i \in DOMAIN rejected[s] : rejected[s][i] <= now
    BY <1>1, <1>2 DEF LedgerAt
  <1>9. Failed(e) \in ClientRec
    BY <1>1, <1>7, <1>8, FailedFacts
  <1>10. s \in DOMAIN clients' /\ clients'[s] = Failed(e) /\ rejected'[s] = Append(rejected[s], now)
    BY <1>6
  <1>11. LedgerAt(s)'
    BY <1>1, <1>7, <1>8, <1>10, LedgerFails
  <1>12. Append(rejected[s], now) \in Seq(Nat) /\ <<>> \in Seq(Nat)
    BY <1>1, <1>8, AppendProperties, EmptySeq
  <1>13. rejected' \in [Sources -> Seq(Nat)]
    BY <1>1, <1>6, <1>12
  <1>14. DOMAIN kept = DOMAIN clients \ gone /\ \A t \in DOMAIN kept : kept[t] = clients[t]
    BY <1>5 DEF Without
  <1>15. DOMAIN clients' = DOMAIN kept \cup {s}
    BY <1>6
  <1>16. \A t \in DOMAIN clients' : clients'[t] = IF t = s THEN Failed(e) ELSE kept[t]
    BY <1>6
  <1>17. \A t \in DOMAIN clients' : clients'[t] \in ClientRec
    BY <1>1, <1>9, <1>14, <1>15, <1>16
  <1>18. ASSUME NEW t \in Sources \ {s} PROVE LedgerAt(t)' /\ rejected'[t] \in {<<>>, rejected[t]}
    <2>1. LedgerAt(t)
      BY <1>2
    <2>2. rejected'[t] = IF t \in gone THEN <<>> ELSE rejected[t]
      BY <1>6
    <2>3. CASE t \in gone \/ t \notin DOMAIN clients
      <3>1. t \notin DOMAIN clients' /\ rejected'[t] = <<>>
        BY <1>14, <1>15, <2>1, <2>2, <2>3 DEF LedgerAt
      <3> QED BY <3>1, LedgerCleared
    <2>4. CASE t \notin gone /\ t \in DOMAIN clients
      <3>1. t \in DOMAIN clients' /\ clients'[t] = clients[t] /\ rejected'[t] = rejected[t]
        BY <1>14, <1>15, <1>16, <2>2, <2>4
      <3> QED BY <1>1, <2>1, <2>4, <3>1, LedgerSame
    <2> QED BY <2>3, <2>4
  <1> QED BY <1>1, <1>10, <1>11, <1>13, <1>14, <1>15, <1>17, <1>18

-----------------------------------------------------------------------------
(* Who gets in: tickets. *)

\* What the steps before a ticket's end do to it: it may leave the list, and is never put back.
Follows(t, u) == t.kind = u.kind /\ t.uses = u.uses /\ (t.listed => u.listed)

LEMMA PrunedFacts ==
  ASSUME AccessTypes, NEW kind
  PROVE  /\ Pruned(kind) \in Seq(TicketRec) /\ DOMAIN Pruned(kind) = DOMAIN tickets /\ DOMAIN tickets = 1..Len(tickets)
         /\ Len(Pruned(kind)) = Len(tickets) /\ Len(tickets) \in Nat
         /\ \A i \in DOMAIN tickets : tickets[i] \in TicketRec /\ Pruned(kind)[i] \in TicketRec /\ Follows(Pruned(kind)[i], tickets[i])
  <1>1. tickets \in Seq(TicketRec) /\ Len(tickets) \in Nat /\ DOMAIN tickets = 1..Len(tickets)
    BY LenProperties DEF AccessTypes
  <1>2. \A i \in DOMAIN tickets : tickets[i] \in TicketRec
    BY <1>1, ElementOfSeq
  <1>3. ASSUME NEW i \in DOMAIN tickets PROVE Pruned(kind)[i] \in TicketRec /\ Follows(Pruned(kind)[i], tickets[i])
    <2>1. tickets[i] \in TicketRec
      BY <1>2
    <2>2. /\ [tickets[i] EXCEPT !.listed = FALSE] \in TicketRec
          /\ Follows([tickets[i] EXCEPT !.listed = FALSE], tickets[i]) /\ Follows(tickets[i], tickets[i])
      BY <2>1 DEF TicketRec, Follows
    <2>3. Pruned(kind)[i] \in {tickets[i], [tickets[i] EXCEPT !.listed = FALSE]}
      BY DEF Pruned
    <2> QED BY <2>1, <2>2, <2>3
  <1>4. DOMAIN Pruned(kind) = DOMAIN tickets
    BY DEF Pruned
  <1>5. Pruned(kind) \in [1..Len(tickets) -> TicketRec]
    BY <1>1, <1>3, <1>4 DEF Pruned
  <1>6. Pruned(kind) \in Seq(TicketRec) /\ Len(Pruned(kind)) = Len(tickets)
    BY <1>1, <1>5, LenProperties, SeqDef
  <1> QED BY <1>1, <1>2, <1>3, <1>4, <1>6

\* Tickets are listed no longer than before, new ones have admitted nobody, and no request comes on one.
LEMMA TicketsSame ==
  ASSUME AccessTypes, TicketInv,
         \A i \in DOMAIN tickets : i \in DOMAIN tickets' /\ Follows(tickets'[i], tickets[i]),
         \A i \in DOMAIN tickets' : i \in DOMAIN tickets \/ tickets'[i].uses = 0,
         \A r \in Requests : \A i \in Nat : Holds(r, i)' => Holds(r, i)
  PROVE  TicketInv'
  <1>1. \A i \in DOMAIN tickets' :
          tickets'[i].kind = "ws" => tickets'[i].uses <= 1 /\ (tickets'[i].uses = 1 => ~tickets'[i].listed)
    BY DEF TicketInv, Follows
  <1>2. \A r \in Requests : \A i \in Nat :
          Holds(r, i)' => i \in DOMAIN tickets' /\ tickets'[i].kind = "ws" /\ ~tickets'[i].listed
    BY DEF TicketInv, Follows
  <1>3. \A r, q \in Requests : \A i \in Nat : Holds(r, i)' /\ Holds(q, i)' => r = q
    BY DEF TicketInv
  <1> QED BY <1>1, <1>2, <1>3 DEF TicketInv

\* A step of one request that leaves the tickets alone.
LEMMA TicketsUntouched ==
  ASSUME AccessTypes, TicketInv, tickets' = tickets, NEW r \in Requests,
         \A q \in Requests : q # r => request'[q] = request[q],
         \A i \in Nat : Holds(r, i)' => Holds(r, i)
  PROVE  TicketInv'
  <1>1. \A i \in DOMAIN tickets : i \in DOMAIN tickets' /\ Follows(tickets'[i], tickets[i])
    BY DEF Follows
  <1>2. \A q \in Requests : \A i \in Nat : Holds(q, i)' => Holds(q, i)
    BY DEF Holds
  <1> QED BY <1>1, <1>2, TicketsSame

\* What is pending when only one request has moved, and not to where it would fail.
LEMMA PendingMoves ==
  ASSUME NEW r \in Requests, request' \in [Requests -> RequestRec],
         \A q \in Requests : q # r => request'[q] = request[q], request'[r].st # "fail"
  PROVE  \A s \in Sources : Pending(s)' \subseteq Pending(s)
  BY DEF Pending

-----------------------------------------------------------------------------
(* Who gets in: every step keeps the invariant. *)

LEMMA ArriveKeeps ==
  ASSUME AccessInv, NEW r \in Requests, NEW s \in Sources, NEW token \in {"code", "jwt", "bad"}, Arrive(r, s, token)
  PROVE  AccessInv'
  <1>1. AccessTypes /\ TicketInv /\ now \in Nat /\ served \in Nat
    BY DEF AccessInv, AccessTypes
  <1>2. /\ Authenticate(r, Guarding(s, token, 0)) /\ served' = served + 1 /\ now' = now /\ tickets' = tickets
        /\ request[r].st = "idle" /\ token \in Tokens /\ 0 \in Nat
    BY DEF Arrive, Tokens
  <1>3. /\ \/ RegisterSuccess(s)
           \/ UNCHANGED <<clients, rejected>>
        /\ request' \in [Requests -> RequestRec]
        /\ \A q \in Requests : q # r => request'[q] = request[q]
        /\ request'[r].st \in {"in", "check"} /\ request'[r].then = 0
        /\ DOMAIN clients' \subseteq DOMAIN clients
        /\ \A t \in DOMAIN clients' : clients'[t] = clients[t]
        /\ rejected' \in [Sources -> Seq(Nat)]
    BY <1>1, <1>2, AuthenticateFacts
  <1>4. AccessTypes'
    BY <1>1, <1>2, <1>3 DEF AccessTypes
  <1>5. \A t \in Sources : Pending(t)' \subseteq Pending(t)
    BY <1>3, PendingMoves
  <1>6. LimiterInv' /\ AttemptsBounded'
    <2>1. CASE RegisterSuccess(s)
      BY <1>2, <1>4, <1>5, <2>1, LimiterSuccess
    <2>2. CASE UNCHANGED <<clients, rejected>>
      BY <1>2, <1>4, <1>5, <2>2, LimiterUntouched
    <2> QED BY <1>3, <2>1, <2>2
  <1>7. \A i \in Nat : Holds(r, i)' => Holds(r, i)
    BY <1>3 DEF Holds
  <1>8. TicketInv'
    BY <1>1, <1>2, <1>3, <1>7, TicketsUntouched
  <1> QED BY <1>4, <1>6, <1>8 DEF AccessInv

LEMMA GuardAuthenticatesKeeps ==
  ASSUME AccessInv, NEW r \in Requests, GuardAuthenticates(r)
  PROVE  AccessInv'
  <1>1. AccessTypes /\ TicketInv /\ now \in Nat /\ served \in Nat
    BY DEF AccessInv, AccessTypes
  <1>2. /\ Authenticate(r, request[r]) /\ served' = served /\ now' = now /\ tickets' = tickets /\ request[r].st = "auth"
    BY DEF GuardAuthenticates
  <1>3. PICK s \in Sources, token \in Tokens, then \in Nat :
          s = request[r].src /\ token = request[r].token /\ then = request[r].then
    BY <1>1, <1>2, RequestFacts
  <1>4. request[r] = Guarding(s, token, then)
    BY <1>1, <1>2, <1>3, RequestFacts DEF Guarding
  <1>5. Authenticate(r, Guarding(s, token, then))
    BY <1>2, <1>4
  <1>6. /\ \/ RegisterSuccess(s)
           \/ UNCHANGED <<clients, rejected>>
        /\ request' \in [Requests -> RequestRec]
        /\ \A q \in Requests : q # r => request'[q] = request[q]
        /\ request'[r].st \in {"in", "check"} /\ request'[r].then = then /\ request'[r].token = token
        /\ DOMAIN clients' \subseteq DOMAIN clients
        /\ \A t \in DOMAIN clients' : clients'[t] = clients[t]
        /\ rejected' \in [Sources -> Seq(Nat)]
    BY <1>1, <1>5, AuthenticateFacts
  <1>7. AccessTypes'
    BY <1>1, <1>2, <1>6 DEF AccessTypes
  <1>8. \A t \in Sources : Pending(t)' \subseteq Pending(t)
    BY <1>6, PendingMoves
  <1>9. LimiterInv' /\ AttemptsBounded'
    <2>1. CASE RegisterSuccess(s)
      BY <1>2, <1>7, <1>8, <2>1, LimiterSuccess
    <2>2. CASE UNCHANGED <<clients, rejected>>
      BY <1>2, <1>7, <1>8, <2>2, LimiterUntouched
    <2> QED BY <1>6, <2>1, <2>2
  <1>10. \A i \in Nat : Holds(r, i)' => Holds(r, i)
    BY <1>2, <1>3, <1>6 DEF Holds
  <1>11. TicketInv'
    BY <1>1, <1>2, <1>6, <1>10, TicketsUntouched
  <1> QED BY <1>7, <1>9, <1>11 DEF AccessInv

LEMMA GuardChecksKeeps ==
  ASSUME AccessInv, NEW r \in Requests, GuardChecks(r)
  PROVE  AccessInv'
  <1>1. AccessTypes /\ TicketInv /\ AttemptsBounded /\ now \in Nat
    BY DEF AccessInv, AccessTypes
  <1>2. PICK s \in Sources : s = request[r].src
    BY <1>1, RequestFacts DEF GuardChecks
  <1>3. /\ request[r].st = "check" /\ clients' = Seen(s) /\ now' = now /\ tickets' = tickets /\ rejected' = rejected
        /\ request' = [request EXCEPT ![r] = IF Blocked(s) THEN Idle ELSE [request[r] EXCEPT !.st = "fail"]]
        /\ served' = served
    BY <1>2 DEF GuardChecks
  <1>4. Idle \in RequestRec /\ [request[r] EXCEPT !.st = "fail"] \in RequestRec
    <2>1. request[r] \in [st : {"auth", "check", "fail", "in"}, src : Sources, token : Tokens, then : Nat]
      <3>1. request[r] \in RequestRec
        BY <1>1 DEF AccessTypes
      <3> QED BY <1>3, <3>1 DEF RequestRec, Idle
    <2> QED BY <2>1 DEF RequestRec
  <1>5. /\ request' \in [Requests -> RequestRec] /\ \A q \in Requests : q # r => request'[q] = request[q]
        /\ request'[r] = IF Blocked(s) THEN Idle ELSE [request[r] EXCEPT !.st = "fail"]
    BY <1>1, <1>3, <1>4 DEF AccessTypes
  <1>6. /\ DOMAIN clients' = DOMAIN clients
        /\ \A t \in DOMAIN clients : /\ clients'[t] \in ClientRec /\ clients'[t].fails = clients[t].fails
                                     /\ clients'[t].until = clients[t].until
    <2>1. \A t \in DOMAIN clients : clients[t] \in ClientRec
      BY <1>1 DEF AccessTypes
    <2>2. CASE s \notin DOMAIN clients
      BY <1>3, <2>1, <2>2 DEF Seen
    <2>3. CASE s \in DOMAIN clients
      <3>1. clients' = [clients EXCEPT ![s].seen = now]
        BY <1>3, <2>3 DEF Seen
      <3>2. \A t \in DOMAIN clients : t # s => clients'[t] = clients[t]
        BY <3>1
      <3>3. DOMAIN clients' = DOMAIN clients /\ clients'[s] = [clients[s] EXCEPT !.seen = now]
        BY <2>3, <3>1
      <3>4. clients'[s] \in ClientRec /\ clients'[s].fails = clients[s].fails /\ clients'[s].until = clients[s].until
        <4>1. clients[s] \in ClientRec
          BY <2>1, <2>3
        <4> QED BY <1>1, <3>3, <4>1 DEF ClientRec
      <3> QED BY <2>1, <3>2, <3>3, <3>4
    <2> QED BY <2>2, <2>3
  <1>7. AccessTypes'
    BY <1>1, <1>3, <1>5, <1>6 DEF AccessTypes
  <1>8. request'[r].st \in {"idle", "fail"}
    <2>1. ~Blocked(s) => [request[r] EXCEPT !.st = "fail"].st = "fail"
      <3>1. request[r] = [st |-> request[r].st, src |-> request[r].src, token |-> request[r].token, then |-> request[r].then]
        BY <1>1, <1>3, RequestFacts
      <3> QED BY <3>1
    <2> QED BY <1>5, <2>1 DEF Idle
  <1>9. TicketInv'
    <2>1. \A i \in Nat : Holds(r, i)' => Holds(r, i)
      BY <1>8 DEF Holds
    <2> QED BY <1>1, <1>3, <1>5, <2>1, TicketsUntouched
  <1>10. LimiterInv' /\ AttemptsBounded'
    <2>1. CASE Blocked(s)
      <3>1. request'[r].st # "fail"
        BY <1>5, <2>1 DEF Idle
      <3>2. \A t \in Sources : Pending(t)' \subseteq Pending(t)
        BY <1>5, <3>1, PendingMoves
      <3> QED BY <1>3, <1>6, <1>7, <3>2, LimiterSame
    <2>2. CASE ~Blocked(s)
      <3>1. request'[r].src = s
        <4>1. request[r] = [st |-> request[r].st, src |-> request[r].src, token |-> request[r].token, then |-> request[r].then]
          BY <1>1, <1>3, RequestFacts
        <4> QED BY <1>2, <1>5, <2>2, <4>1
      <3>2. ASSUME NEW t \in Sources PROVE LedgerAt(t)' /\ PendingAt(t)'
        <4>1. LedgerAt(t) /\ PendingAt(t) /\ now' \in Nat /\ now' >= now
          BY <1>1, <1>3 DEF AccessInv, LimiterInv
        <4>2. rejected'[t] = rejected[t]
          BY <1>3
        <4>3. LedgerAt(t)'
          BY <1>1, <1>6, <4>1, <4>2, LedgerSame
        <4>4. PendingAt(t)'
          <5>1. CASE t = s
            BY <1>1, <1>3, <2>2, <4>1, <4>2, <5>1, PendingPasses
          <5>2. CASE t # s
            <6>1. Pending(t)' \subseteq Pending(t)
              BY <1>5, <3>1, <5>2 DEF Pending
            <6> QED BY <1>1, <4>1, <4>2, <6>1, PendingSame
          <5> QED BY <5>1, <5>2
        <4> QED BY <4>3, <4>4
      <3>3. LimiterInv'
        BY <3>2 DEF LimiterInv
      <3>4. \A t \in Sources : rejected'[t] \in {<<>>, rejected[t]}
        BY <1>3
      <3> QED BY <1>1, <1>3, <1>7, <3>3, <3>4, AttemptsStep
    <2> QED BY <2>1, <2>2
  <1> QED BY <1>7, <1>9, <1>10 DEF AccessInv

LEMMA GuardFailsKeeps ==
  ASSUME AccessInv, NEW r \in Requests, GuardFails(r)
  PROVE  AccessInv'
  <1>1. AccessTypes /\ TicketInv /\ AttemptsBounded /\ now \in Nat
    BY DEF AccessInv, AccessTypes
  <1>2. PICK s \in Sources : s = request[r].src
    BY <1>1, RequestFacts DEF GuardFails
  <1>3. /\ request[r].st = "fail" /\ RegisterFailure(s) /\ now' = now /\ tickets' = tickets
        /\ request' = [request EXCEPT ![r] = Idle] /\ served' = served
    BY <1>2 DEF GuardFails
  <1>4. /\ DOMAIN clients' \subseteq Sources /\ \A t \in DOMAIN clients' : clients'[t] \in ClientRec
        /\ rejected' \in [Sources -> Seq(Nat)]
        /\ LedgerAt(s)' /\ rejected'[s] = Append(rejected[s], now)
        /\ \A t \in Sources \ {s} : LedgerAt(t)' /\ rejected'[t] \in {<<>>, rejected[t]}
    BY <1>3, FailureFacts
  <1>5. /\ request' \in [Requests -> RequestRec] /\ \A q \in Requests : q # r => request'[q] = request[q]
        /\ request'[r] = Idle
    <2>1. Idle \in RequestRec
      BY DEF RequestRec
    <2> QED BY <1>1, <1>3, <2>1 DEF AccessTypes
  <1>6. AccessTypes'
    BY <1>1, <1>3, <1>4, <1>5 DEF AccessTypes
  <1>7. \A t \in Sources : Pending(t)' \subseteq Pending(t) \ {r}
    BY <1>5 DEF Pending, Idle
  <1>8. r \in Pending(s)
    BY <1>2, <1>3 DEF Pending
  <1>9. ASSUME NEW t \in Sources PROVE LedgerAt(t)' /\ PendingAt(t)'
    <2>1. PendingAt(t) /\ now' \in Nat /\ now' >= now
      BY <1>1, <1>3 DEF AccessInv, LimiterInv
    <2>2. CASE t = s
      BY <1>1, <1>3, <1>4, <1>7, <1>8, <2>1, <2>2, PendingFails
    <2>3. CASE t # s
      <3>1. LedgerAt(t)' /\ rejected'[t] \in {<<>>, rejected[t]} /\ Pending(t)' \subseteq Pending(t)
        BY <1>4, <1>7, <2>3
      <3> QED BY <1>1, <2>1, <3>1, PendingSame
    <2> QED BY <2>2, <2>3
  <1>10. LimiterInv'
    BY <1>9 DEF LimiterInv
  <1>11. \A t \in Sources : rejected'[t] \in {<<>>, rejected[t]} \/ (now' = now /\ rejected'[t] = Append(rejected[t], now))
    <2>1. ASSUME NEW t \in Sources
          PROVE  rejected'[t] \in {<<>>, rejected[t]} \/ (now' = now /\ rejected'[t] = Append(rejected[t], now))
      <3>1. CASE t = s
        BY <1>3, <1>4, <3>1
      <3>2. CASE t # s
        <4>1. t \in Sources \ {s}
          BY <3>2
        <4>2. rejected'[t] \in {<<>>, rejected[t]}
          BY <1>4, <4>1
        <4> QED BY <4>2
      <3> QED BY <3>1, <3>2
    <2> QED BY <2>1
  <1>12. AttemptsBounded'
    BY <1>1, <1>3, <1>6, <1>10, <1>11, AttemptsStep
  <1>13. TicketInv'
    <2>1. \A i \in Nat : Holds(r, i)' => Holds(r, i)
      BY <1>5 DEF Holds, Idle
    <2> QED BY <1>1, <1>3, <1>5, <2>1, TicketsUntouched
  <1> QED BY <1>6, <1>10, <1>12, <1>13 DEF AccessInv

LEMMA ServeKeeps ==
  ASSUME AccessInv, NEW r \in Requests, Serve(r)
  PROVE  AccessInv'
  <1>1. AccessTypes /\ TicketInv /\ now \in Nat
    BY DEF AccessInv, AccessTypes
  <1>2. /\ request[r].st = "in" /\ request' = [request EXCEPT ![r] = Idle]
        /\ now' = now /\ clients' = clients /\ rejected' = rejected /\ served' = served
    BY DEF Serve
  <1>3. /\ request' \in [Requests -> RequestRec] /\ \A q \in Requests : q # r => request'[q] = request[q]
        /\ request'[r] = Idle /\ request'[r].st = "idle"
    <2>1. Idle \in RequestRec /\ Idle.st = "idle"
      BY DEF RequestRec, Idle
    <2> QED BY <1>1, <1>2, <2>1 DEF AccessTypes
  <1>4. \A q \in Requests : \A i \in Nat : Holds(q, i)' => Holds(q, i)
    BY <1>3 DEF Holds
  <1>5. \A t \in Sources : Pending(t)' \subseteq Pending(t)
    BY <1>3, PendingMoves
  <1>6. tickets' \in Seq(TicketRec) /\ TicketInv'
    <2>1. CASE tickets' = tickets
      <3>1. \A i \in Nat : Holds(r, i)' => Holds(r, i)
        BY <1>4
      <3> QED BY <1>1, <1>3, <2>1, <3>1, TicketsUntouched DEF AccessTypes
    <2>2. CASE tickets' # tickets
      <3>1. PICK kind \in {"ws", "favicon"} :
              tickets' = Append(Pruned(kind),
                                [kind |-> kind, token |-> request[r].token, src |-> request[r].src,
                                 expires |-> now + TicketTTL, listed |-> TRUE, uses |-> 0])
        BY <2>2 DEF Serve, Answered
      <3>2. PICK u : u = [kind |-> kind, token |-> request[r].token, src |-> request[r].src,
                          expires |-> now + TicketTTL, listed |-> TRUE, uses |-> 0]
        OBVIOUS
      <3>3. u \in TicketRec /\ u.uses = 0
        <4>1. request[r].token \in Tokens /\ request[r].src \in Sources
          BY <1>1, <1>2, RequestFacts
        <4>2. now + TicketTTL \in Nat
          BY <1>1, AccessAssumption
        <4> QED BY <3>2, <4>1, <4>2 DEF TicketRec
      <3>4. PICK P \in Seq(TicketRec) : P = Pruned(kind)
        BY <1>1, PrunedFacts
      <3>5. /\ DOMAIN P = DOMAIN tickets /\ Len(P) \in Nat /\ DOMAIN P = 1..Len(P)
            /\ \A i \in DOMAIN tickets : Follows(P[i], tickets[i])
        BY <1>1, <3>4, PrunedFacts
      <3>6. tickets' = Append(P, u)
        BY <3>1, <3>2, <3>4
      <3>7. /\ tickets' \in Seq(TicketRec) /\ DOMAIN tickets' = 1..(Len(P) + 1)
            /\ \A i \in 1..Len(P) : tickets'[i] = P[i]
            /\ tickets'[Len(P) + 1] = u
        BY <3>3, <3>4, <3>5, <3>6, AppendProperties, LenProperties
      <3>8. \A i \in DOMAIN tickets : i \in DOMAIN tickets' /\ Follows(tickets'[i], tickets[i])
        BY <3>5, <3>7
      <3>9. \A i \in DOMAIN tickets' : i \in DOMAIN tickets \/ tickets'[i].uses = 0
        BY <3>3, <3>5, <3>7
      <3> QED BY <1>1, <1>4, <3>7, <3>8, <3>9, TicketsSame
    <2> QED BY <2>1, <2>2
  <1>7. AccessTypes'
    BY <1>1, <1>2, <1>3, <1>6 DEF AccessTypes
  <1>8. LimiterInv' /\ AttemptsBounded'
    BY <1>2, <1>5, <1>7, LimiterUntouched
  <1> QED BY <1>6, <1>7, <1>8 DEF AccessInv

LEMMA ArriveOnTicketKeeps ==
  ASSUME AccessInv, NEW r \in Requests, NEW s \in Sources, NEW i \in DOMAIN tickets, ArriveOnTicket(r, s, i)
  PROVE  AccessInv'
  <1>1. AccessTypes /\ TicketInv /\ now \in Nat /\ served \in Nat
    BY DEF AccessInv, AccessTypes
  <1>2. PICK good \in BOOLEAN : good = (Good(i) /\ tickets[i].src = s)
    OBVIOUS
  <1>3. PICK token \in Tokens : token = IF good THEN tickets[i].token ELSE "none"
    BY <1>1, PrunedFacts DEF TicketRec, Tokens
  <1>4. /\ request[r].st = "idle" /\ tickets[i].kind = "ws" /\ served' = served + 1
        /\ tickets' = [Taken(i, "ws") EXCEPT ![i].uses = IF good THEN @ + 1 ELSE @]
        /\ request' = [request EXCEPT ![r] = Guarding(s, token, i)]
        /\ now' = now /\ clients' = clients /\ rejected' = rejected
    <2>1. CASE good
      BY <1>2, <1>3, <2>1 DEF ArriveOnTicket
    <2>2. CASE ~good
      BY <1>2, <1>3, <2>2 DEF ArriveOnTicket
    <2> QED BY <2>1, <2>2
  <1>5. i \in Nat /\ i # 0 /\ tickets[i] \in TicketRec
    BY <1>1, PrunedFacts
  <1>6. /\ request' \in [Requests -> RequestRec] /\ \A q \in Requests : q # r => request'[q] = request[q]
        /\ request'[r].st = "auth" /\ request'[r].then = i /\ request'[r].token = token
    <2>1. Guarding(s, token, i) \in RequestRec
      BY <1>5 DEF Guarding, RequestRec
    <2>2. Guarding(s, token, i).st = "auth" /\ Guarding(s, token, i).then = i /\ Guarding(s, token, i).token = token
      BY DEF Guarding
    <2> QED BY <1>1, <1>4, <2>1, <2>2 DEF AccessTypes
  <1>7. PICK P \in Seq(TicketRec) : P = Pruned("ws")
    BY <1>1, PrunedFacts
  <1>8. /\ DOMAIN P = DOMAIN tickets /\ Len(P) \in Nat /\ DOMAIN P = 1..Len(P)
        /\ \A k \in DOMAIN tickets : P[k] \in TicketRec /\ Follows(P[k], tickets[k])
    BY <1>1, <1>7, PrunedFacts
  <1>9. PICK u : u = [[P[i] EXCEPT !.listed = FALSE] EXCEPT !.uses = IF good THEN P[i].uses + 1 ELSE P[i].uses]
    OBVIOUS
  <1>10. /\ u \in TicketRec /\ u.kind = "ws" /\ ~u.listed /\ u.uses = IF good THEN tickets[i].uses + 1 ELSE tickets[i].uses
    <2>1. PICK p \in TicketRec : p = P[i]
      BY <1>8
    <2>2. p.kind = "ws" /\ p.uses = tickets[i].uses /\ p.uses \in Nat
      BY <1>4, <1>8, <2>1 DEF Follows, TicketRec
    <2>3. PICK n \in Nat : n = IF good THEN p.uses + 1 ELSE p.uses
      BY <2>2
    <2>4. u = [[p EXCEPT !.listed = FALSE] EXCEPT !.uses = n]
      BY <1>9, <2>1, <2>3
    <2>5. u \in TicketRec /\ u.kind = p.kind /\ ~u.listed /\ u.uses = n
      BY <2>1, <2>3, <2>4 DEF TicketRec
    <2> QED BY <2>2, <2>3, <2>5
  <1>11. /\ DOMAIN tickets' = DOMAIN tickets /\ tickets'[i] = u
         /\ \A k \in DOMAIN tickets : k # i => tickets'[k] = P[k]
    <2>1. PICK Q : Q = [P EXCEPT ![i].listed = FALSE]
      OBVIOUS
    <2>2. DOMAIN Q = DOMAIN P /\ Q[i] = [P[i] EXCEPT !.listed = FALSE] /\ \A k \in DOMAIN P : k # i => Q[k] = P[k]
      BY <1>8, <2>1
    <2>3. tickets' = [Q EXCEPT ![i].uses = IF good THEN @ + 1 ELSE @]
      BY <1>4, <1>7, <2>1 DEF Taken
    <2>4. Q[i].uses = P[i].uses
      BY <1>8, <2>2 DEF TicketRec
    <2>5. /\ DOMAIN tickets' = DOMAIN Q /\ \A k \in DOMAIN Q : k # i => tickets'[k] = Q[k]
          /\ tickets'[i] = [Q[i] EXCEPT !.uses = IF good THEN Q[i].uses + 1 ELSE Q[i].uses]
      BY <1>8, <2>2, <2>3
    <2> QED BY <1>8, <1>9, <2>2, <2>4, <2>5
  <1>12. tickets' \in Seq(TicketRec)
    <2>1. tickets' = [P EXCEPT ![i] = u]
      <3>1. tickets' = [k \in DOMAIN P |-> IF k = i THEN u ELSE P[k]]
        <4>1. tickets' = [k \in DOMAIN tickets' |-> tickets'[k]]
          BY <1>4 DEF Taken, Pruned
        <4> QED BY <1>8, <1>11, <4>1
      <3> QED BY <1>8, <3>1
    <2> QED BY <1>7, <1>8, <1>10, <2>1, ExceptSeq
  <1>13. good => tickets[i].listed /\ tickets[i].uses = 0
    <2>1. ASSUME good PROVE tickets[i].listed
      BY <1>2, <2>1 DEF Good
    <2>2. tickets[i].uses \in Nat /\ tickets[i].uses <= 1 /\ (tickets[i].uses = 1 => ~tickets[i].listed)
      BY <1>1, <1>4, <1>5 DEF TicketRec, TicketInv
    <2> QED BY <2>1, <2>2
  <1>14. TicketInv'
    <2>1. ASSUME NEW k \in DOMAIN tickets'
          PROVE  tickets'[k].kind = "ws" => tickets'[k].uses <= 1 /\ (tickets'[k].uses = 1 => ~tickets'[k].listed)
      <3>1. CASE k = i
        <4>1. tickets[i].uses <= 1
          BY <1>1, <1>4 DEF TicketInv
        <4> QED BY <1>10, <1>11, <1>13, <3>1, <4>1
      <3>2. CASE k # i
        <4>1. Follows(tickets'[k], tickets[k]) /\ k \in DOMAIN tickets
          BY <1>8, <1>11, <3>2
        <4> QED BY <1>1, <4>1 DEF TicketInv, Follows
      <3> QED BY <3>1, <3>2
    <2>2. \A q \in Requests : \A k \in Nat : Holds(q, k)' => Holds(q, k) \/ (q = r /\ k = i /\ good)
      BY <1>3, <1>6 DEF Holds
    <2>3. ASSUME NEW q \in Requests, NEW k \in Nat, Holds(q, k)'
          PROVE  k \in DOMAIN tickets' /\ tickets'[k].kind = "ws" /\ ~tickets'[k].listed
      <3>1. CASE k = i
        BY <1>10, <1>11, <3>1
      <3>2. CASE k # i
        <4>1. Holds(q, k)
          BY <2>2, <2>3, <3>2
        <4>2. k \in DOMAIN tickets /\ tickets[k].kind = "ws" /\ ~tickets[k].listed
          BY <1>1, <4>1 DEF TicketInv
        <4>3. Follows(tickets'[k], tickets[k])
          BY <1>8, <1>11, <3>2, <4>2
        <4> QED BY <1>11, <4>2, <4>3 DEF Follows
      <3> QED BY <3>1, <3>2
    <2>4. ASSUME good, NEW q \in Requests PROVE ~Holds(q, i)
      BY <1>1, <1>5, <1>13, <2>4 DEF TicketInv
    <2>5. ASSUME NEW p \in Requests, NEW q \in Requests, NEW k \in Nat, Holds(p, k)', Holds(q, k)' PROVE p = q
      <3>1. CASE Holds(p, k) /\ Holds(q, k)
        BY <1>1, <3>1 DEF TicketInv
      <3>2. CASE ~Holds(p, k)
        <4>1. p = r /\ k = i /\ good
          BY <2>2, <2>5, <3>2
        <4> QED BY <2>2, <2>4, <2>5, <4>1
      <3>3. CASE ~Holds(q, k)
        <4>1. q = r /\ k = i /\ good
          BY <2>2, <2>5, <3>3
        <4> QED BY <2>2, <2>4, <2>5, <4>1
      <3> QED BY <3>1, <3>2, <3>3
    <2> QED BY <2>1, <2>3, <2>5 DEF TicketInv
  <1>15. AccessTypes'
    BY <1>1, <1>4, <1>6, <1>12 DEF AccessTypes
  <1>16. \A t \in Sources : Pending(t)' \subseteq Pending(t)
    BY <1>6, PendingMoves
  <1>17. LimiterInv' /\ AttemptsBounded'
    BY <1>4, <1>15, <1>16, LimiterUntouched
  <1> QED BY <1>14, <1>15, <1>17 DEF AccessInv

LEMMA FetchFaviconKeeps ==
  ASSUME AccessInv, NEW r \in Requests, NEW s \in Sources, NEW i \in DOMAIN tickets, FetchFavicon(r, s, i)
  PROVE  AccessInv'
  <1>1. AccessTypes /\ TicketInv /\ now \in Nat /\ served \in Nat
    BY DEF AccessInv, AccessTypes
  <1>2. /\ request[r].st = "idle" /\ served' = served + 1 /\ now' = now /\ clients' = clients /\ rejected' = rejected
    BY DEF FetchFavicon
  <1>3. i \in Nat /\ tickets[i] \in TicketRec
    BY <1>1, PrunedFacts
  <1>4. /\ request' \in [Requests -> RequestRec] /\ \A q \in Requests : q # r => request'[q] = request[q]
        /\ \/ request'[r] = request[r]
           \/ request'[r] = Guarding(s, "none", i)
    <2>1. Guarding(s, "none", i) \in RequestRec
      BY <1>3 DEF Guarding, RequestRec, Tokens
    <2>2. CASE request' = request
      BY <1>1, <2>2 DEF AccessTypes
    <2>3. CASE request' = [request EXCEPT ![r] = Guarding(s, "none", i)]
      BY <1>1, <2>1, <2>3 DEF AccessTypes
    <2> QED BY <2>2, <2>3 DEF FetchFavicon
  <1>5. request'[r].st # "fail" /\ \A k \in Nat : ~Holds(r, k)'
    BY <1>2, <1>4 DEF Holds, Guarding
  <1>6. \A q \in Requests : \A k \in Nat : Holds(q, k)' => Holds(q, k)
    BY <1>4, <1>5 DEF Holds
  <1>7. tickets' \in Seq(TicketRec) /\ TicketInv'
    <2>1. CASE tickets' = tickets
      BY <1>1, <1>4, <1>6, <2>1, TicketsUntouched DEF AccessTypes
    <2>2. CASE tickets' = [tickets EXCEPT ![i].listed = FALSE]
      <3>1. [tickets[i] EXCEPT !.listed = FALSE] \in TicketRec /\ Follows([tickets[i] EXCEPT !.listed = FALSE], tickets[i])
        BY <1>3 DEF TicketRec, Follows
      <3>2. tickets' = [tickets EXCEPT ![i] = [tickets[i] EXCEPT !.listed = FALSE]]
        BY <2>2
      <3>3. tickets' \in Seq(TicketRec)
        <4>1. tickets \in Seq(TicketRec) /\ i \in 1..Len(tickets)
          BY <1>1, PrunedFacts DEF AccessTypes
        <4> QED BY <3>1, <3>2, <4>1, ExceptSeq
      <3>4. DOMAIN tickets' = DOMAIN tickets
        BY <3>2
      <3>5. \A k \in DOMAIN tickets : Follows(tickets'[k], tickets[k])
        BY <3>1, <3>2 DEF Follows
      <3> QED BY <1>1, <1>6, <3>3, <3>4, <3>5, TicketsSame
    <2> QED BY <2>1, <2>2 DEF FetchFavicon
  <1>8. AccessTypes'
    BY <1>1, <1>2, <1>4, <1>7 DEF AccessTypes
  <1>9. \A t \in Sources : Pending(t)' \subseteq Pending(t)
    BY <1>4, <1>5, PendingMoves
  <1>10. LimiterInv' /\ AttemptsBounded'
    BY <1>2, <1>8, <1>9, LimiterUntouched
  <1> QED BY <1>7, <1>8, <1>10 DEF AccessInv

LEMMA TickKeeps ==
  ASSUME AccessInv, Tick
  PROVE  AccessInv'
  <1>1. AccessTypes /\ TicketInv /\ AttemptsBounded /\ now \in Nat
    BY DEF AccessInv, AccessTypes
  <1>2. /\ now' = now + 1 /\ clients' = clients /\ request' = request /\ tickets' = tickets /\ rejected' = rejected
        /\ served' = served /\ now' \in Nat /\ now' >= now
    BY <1>1 DEF Tick
  <1>3. AccessTypes'
    BY <1>1, <1>2 DEF AccessTypes
  <1>4. ASSUME NEW s \in Sources PROVE LedgerAt(s)' /\ PendingAt(s)'
    <2>1. LedgerAt(s) /\ PendingAt(s)
      BY DEF AccessInv, LimiterInv
    <2>2. Pending(s)' \subseteq Pending(s)
      BY <1>2 DEF Pending
    <2> QED BY <1>1, <1>2, <2>1, <2>2, LedgerSame, PendingSame
  <1>5. LimiterInv'
    BY <1>4 DEF LimiterInv
  <1>6. AttemptsBounded'
    BY <1>1, <1>2, <1>3, <1>5, AttemptsStep
  <1>7. TicketInv'
    BY <1>1, <1>2 DEF TicketInv, Holds
  <1> QED BY <1>3, <1>5, <1>6, <1>7 DEF AccessInv

LEMMA AccessStarts ==
  ASSUME AccessInit
  PROVE  AccessInv
  <1>1. /\ now = 1 /\ clients = [s \in {} |-> {}] /\ request = [r \in Requests |-> Idle] /\ tickets = <<>>
        /\ rejected = [s \in Sources |-> <<>>] /\ served = 0
    BY DEF AccessInit
  <1>2. Threshold \in Nat \ {0} /\ Cardinality(Requests) \in Nat
    BY AccessAssumption, FS_CardinalityType
  <1>3. AccessTypes
    <2>1. tickets \in Seq(TicketRec) /\ <<>> \in Seq(Nat)
      BY <1>1, EmptySeq
    <2>2. request \in [Requests -> RequestRec]
      BY <1>1 DEF RequestRec
    <2>3. rejected \in [Sources -> Seq(Nat)]
      BY <1>1, <2>1
    <2>4. DOMAIN clients = {}
      BY <1>1
    <2> QED BY <1>1, <2>1, <2>2, <2>3, <2>4 DEF AccessTypes
  <1>4. ASSUME NEW s \in Sources PROVE LedgerAt(s) /\ PendingAt(s)
    <2>1. rejected[s] = <<>> /\ s \notin DOMAIN clients
      BY <1>1
    <2>2. LedgerAt(s)
      BY <2>1 DEF LedgerAt
    <2>3. Pending(s) = {}
      BY <1>1 DEF Pending, Idle
    <2>4. Cardinality(Pending(s)) = 0
      BY <2>3, FS_EmptySet
    <2>5. Len(Kept(rejected[s], After(now - Span))) = 0
      BY <2>1, NoneKept
    <2> QED BY <1>2, <2>2, <2>4, <2>5 DEF PendingAt
  <1>5. AttemptsBounded
    <2>1. ASSUME NEW s \in Sources, NEW t \in 1..now
          PROVE  Len(Kept(rejected[s], After(t - Span) \cap 0..t)) <= Threshold + Cardinality(Requests) - 1
      <3>1. rejected[s] = <<>>
        BY <1>1
      <3>2. Len(Kept(rejected[s], After(t - Span) \cap 0..t)) = 0
        BY <3>1, NoneKept
      <3> QED BY <1>2, <3>2
    <2> QED BY <2>1 DEF AttemptsBounded
  <1>6. TicketInv
    BY <1>1 DEF TicketInv, Holds, Idle
  <1>7. LimiterInv
    BY <1>4 DEF LimiterInv
  <1> QED BY <1>3, <1>5, <1>6, <1>7 DEF AccessInv

\* The limiter and the tickets: AccessInv is inductive.
THEOREM AccessInductive == AccessSpec => []AccessInv
  <1>1. AccessInit => AccessInv
    BY AccessStarts
  <1>2. AccessInv /\ [AccessNext]_accessVars => AccessInv'
    <2> SUFFICES ASSUME AccessInv, [AccessNext]_accessVars PROVE AccessInv'
      OBVIOUS
    <2>1. CASE Tick
      BY <2>1, TickKeeps
    <2>2. CASE Revoke
      <3>1. /\ now' = now /\ clients' = clients /\ request' = request /\ tickets' = tickets /\ rejected' = rejected
            /\ served' = served
        BY <2>2 DEF Revoke
      <3>2. AccessTypes' /\ TicketInv'
        BY <3>1 DEF AccessInv, AccessTypes, TicketInv, Holds
      <3>3. \A t \in Sources : Pending(t)' \subseteq Pending(t)
        BY <3>1 DEF Pending
      <3> QED BY <3>1, <3>2, <3>3, LimiterUntouched DEF AccessInv
    <2>3. ASSUME NEW r \in Requests,
                 \/ GuardAuthenticates(r) \/ GuardChecks(r) \/ GuardFails(r) \/ Serve(r)
                 \/ \E s \in Sources :
                      \/ \E token \in {"code", "jwt", "bad"} : Arrive(r, s, token)
                      \/ \E i \in DOMAIN tickets : ArriveOnTicket(r, s, i) \/ FetchFavicon(r, s, i)
          PROVE  AccessInv'
      <3>1. CASE GuardAuthenticates(r)
        BY <3>1, GuardAuthenticatesKeeps
      <3>2. CASE GuardChecks(r)
        BY <3>2, GuardChecksKeeps
      <3>3. CASE GuardFails(r)
        BY <3>3, GuardFailsKeeps
      <3>4. CASE Serve(r)
        BY <3>4, ServeKeeps
      <3>5. ASSUME NEW s \in Sources, NEW token \in {"code", "jwt", "bad"}, Arrive(r, s, token) PROVE AccessInv'
        BY <3>5, ArriveKeeps
      <3>6. ASSUME NEW s \in Sources, NEW i \in DOMAIN tickets, ArriveOnTicket(r, s, i) PROVE AccessInv'
        BY <3>6, ArriveOnTicketKeeps
      <3>7. ASSUME NEW s \in Sources, NEW i \in DOMAIN tickets, FetchFavicon(r, s, i) PROVE AccessInv'
        BY <3>7, FetchFaviconKeeps
      <3> QED BY <2>3, <3>1, <3>2, <3>3, <3>4, <3>5, <3>6, <3>7
    <2>4. CASE UNCHANGED accessVars
      <3>1. /\ now' = now /\ clients' = clients /\ request' = request /\ tickets' = tickets /\ rejected' = rejected
            /\ served' = served
        BY <2>4 DEF accessVars
      <3>2. AccessTypes' /\ TicketInv'
        BY <3>1 DEF AccessInv, AccessTypes, TicketInv, Holds
      <3>3. \A t \in Sources : Pending(t)' \subseteq Pending(t)
        BY <3>1 DEF Pending
      <3> QED BY <3>1, <3>2, <3>3, LimiterUntouched DEF AccessInv
    <2> QED BY <2>1, <2>2, <2>3, <2>4 DEF AccessNext
  <1> QED BY <1>1, <1>2, PTL DEF AccessSpec

\* AuthRateLimiter, _consume_ws_ticket(): for any number of sources and request threads, any threshold, window and
\* lockouts, a source is answered 401 no more often than the limiter allows, and a ticket lets one request in.
THEOREM EntryIsEarnedCorrect == AccessSpec => []EntryIsEarned
  <1>1. ASSUME AccessInv PROVE EntryIsEarned
    <2>1. AccessTypes /\ TicketInv /\ AttemptsBounded
      BY <1>1 DEF AccessInv
    <2>2. \A i \in DOMAIN tickets : tickets[i].kind = "ws" => tickets[i].uses <= 1
      BY <2>1 DEF TicketInv
    <2>3. ASSUME NEW r \in Requests, NEW q \in Requests, r # q, request[r].st \in {"auth", "in"},
                 request[q].st \in {"auth", "in"}, request[r].then # 0, request[r].then = request[q].then
          PROVE  "none" \in {request[r].token, request[q].token}
      <3>1. PICK i \in Nat : i = request[r].then
        BY <2>1, <2>3, RequestFacts
      <3> QED BY <2>1, <2>3, <3>1 DEF TicketInv, Holds
    <2> QED BY <2>1, <2>2, <2>3 DEF EntryIsEarned, TicketsAdmitOnce
  <1> QED BY <1>1, AccessInductive, PTL

-----------------------------------------------------------------------------
(* Phones: types, and what access rests on. *)

PairingFields == {"iface", "client", "approved", "vouched", "failed", "expired"}
SessionFields == {"client", "vouched", "iface", "revoked", "old"}
StreamFields == {"st", "tok", "want", "back", "q", "subbed", "logged", "got", "from", "spilt", "after"}
OperatorRec == [st : {"idle", "listen", "listenpair", "pair"}, iface : Interfaces \cup {""}]

TablesOK ==
  /\ operator \in [Operators -> OperatorRec]
  /\ DOMAIN screen = 1..MaxPairings
  /\ DOMAIN pairings \subseteq 1..MaxPairings
  /\ \A p \in DOMAIN pairings : DOMAIN pairings[p] = PairingFields
  /\ \A t \in DOMAIN sessions : DOMAIN sessions[t] = SessionFields

StreamsOK ==
  /\ DOMAIN stream = Devices
  /\ \A d \in Devices : DOMAIN stream[d] = StreamFields

\* An operator that is about to listen has the life-cycle lock, and nothing listens.
OpeningInv == \A o \in Operators : operator[o].st \in {"listen", "listenpair"} => busy = o /\ listener = ""

\* What the desktop shows of a pairing is who knocked; an approved one is vouched for.
PairingInv ==
  \A p \in DOMAIN pairings :
    /\ screen[p] # "" => screen[p] = pairings[p].client
    /\ pairings[p].approved => pairings[p].client # "" /\ pairings[p].vouched = pairings[p].client

\* A phone's token is of no open pairing, so a session that has ended is not replaced by one of the same token; and a
\* phone that got an event after the end is on its way out.
CutInv ==
  \A d \in Devices :
    /\ stream[d].tok \notin DOMAIN pairings
    /\ stream[d].after \in {0, 1}
    /\ stream[d].after = 1 => stream[d].st \in {"check", "leave"} /\ ~HasSession(d)

MobileInv == TablesOK /\ StreamsOK /\ OpeningInv /\ PairingInv /\ AccessIsVouched /\ CutInv


\* A step that makes no pairing and no session: what stays of them is as it was, expired or revoked perhaps.
Fades ==
  /\ DOMAIN pairings' \subseteq DOMAIN pairings
  /\ \A p \in DOMAIN pairings' :
       /\ DOMAIN pairings'[p] = PairingFields
       /\ pairings'[p].iface = pairings[p].iface /\ pairings'[p].client = pairings[p].client
       /\ pairings'[p].approved = pairings[p].approved /\ pairings'[p].vouched = pairings[p].vouched
  /\ DOMAIN sessions' \subseteq DOMAIN sessions
  /\ \A t \in DOMAIN sessions' :
       /\ DOMAIN sessions'[t] = SessionFields
       /\ sessions'[t].client = sessions[t].client /\ sessions'[t].vouched = sessions[t].vouched
       /\ sessions'[t].iface = sessions[t].iface
       /\ sessions[t].revoked => sessions'[t].revoked
       /\ sessions[t].old => sessions'[t].old

\* A step that leaves every stream where it is, with the token it has.
Steady ==
  /\ DOMAIN stream' = Devices
  /\ \A d \in Devices :
       /\ DOMAIN stream'[d] = StreamFields
       /\ stream'[d].tok = stream[d].tok /\ stream'[d].st = stream[d].st /\ stream'[d].after = stream[d].after

Desktop == <<listener, busy, operator, screen>>

LEMMA StandsStill ==
  ASSUME MobileInv, pairings' = pairings, sessions' = sessions
  PROVE  Fades
  BY DEF MobileInv, TablesOK, Fades

LEMMA PrunedPairings ==
  ASSUME MobileInv, pairings' = Keep(pairings, LivePairing)
  PROVE  DOMAIN pairings' \subseteq DOMAIN pairings /\ \A p \in DOMAIN pairings' : pairings'[p] = pairings[p]
  BY DEF Keep

LEMMA PrunedSessions ==
  ASSUME MobileInv, sessions' = Keep(sessions, LiveSession)
  PROVE  DOMAIN sessions' \subseteq DOMAIN sessions /\ \A t \in DOMAIN sessions' : sessions'[t] = sessions[t]
  BY DEF Keep

LEMMA PruneFades ==
  ASSUME MobileInv,
         pairings' = pairings \/ pairings' = Keep(pairings, LivePairing),
         sessions' = sessions \/ sessions' = Keep(sessions, LiveSession)
  PROVE  Fades
  <1>1. DOMAIN pairings' \subseteq DOMAIN pairings /\ \A p \in DOMAIN pairings' : pairings'[p] = pairings[p]
    BY PrunedPairings
  <1>2. DOMAIN sessions' \subseteq DOMAIN sessions /\ \A t \in DOMAIN sessions' : sessions'[t] = sessions[t]
    BY PrunedSessions
  <1> QED BY <1>1, <1>2 DEF MobileInv, TablesOK, Fades

\* What has ended stays ended.
LEMMA NoSessionReturns ==
  ASSUME MobileInv, Fades, NEW d \in Devices, stream'[d].tok = stream[d].tok, ~HasSession(d)
  PROVE  ~HasSession(d)'
  <1> SUFFICES ASSUME stream[d].tok \in DOMAIN sessions', LiveSession(sessions[stream[d].tok])'
               PROVE  FALSE
    BY DEF HasSession
  <1> QED BY DEF Fades, HasSession, LiveSession

\* Nothing is shown or approved in such a step.
LEMMA FadedPairings ==
  ASSUME MobileInv, Fades, screen' = screen
  PROVE  PairingInv'
  <1> SUFFICES ASSUME NEW p \in DOMAIN pairings'
               PROVE  /\ screen'[p] # "" => screen'[p] = pairings'[p].client
                      /\ pairings'[p].approved => pairings'[p].client # "" /\ pairings'[p].vouched = pairings'[p].client
    BY DEF PairingInv
  <1>1. p \in DOMAIN pairings /\ pairings'[p].client = pairings[p].client
        /\ pairings'[p].approved = pairings[p].approved /\ pairings'[p].vouched = pairings[p].vouched
    BY DEF Fades
  <1>2. /\ screen[p] # "" => screen[p] = pairings[p].client
        /\ pairings[p].approved => pairings[p].client # "" /\ pairings[p].vouched = pairings[p].client
    BY <1>1 DEF MobileInv, PairingInv
  <1> QED BY <1>1, <1>2

LEMMA FadedAccess ==
  ASSUME MobileInv, Fades, listener' = listener \/ listener = ""
  PROVE  AccessIsVouched'
  <1>1. ASSUME NEW t \in DOMAIN sessions'
        PROVE  /\ sessions'[t].client = sessions'[t].vouched
               /\ sessions'[t].revoked \/ sessions'[t].iface \in {listener', ""}
    <2>1. t \in DOMAIN sessions /\ sessions'[t].client = sessions[t].client /\ sessions'[t].vouched = sessions[t].vouched
          /\ sessions'[t].iface = sessions[t].iface /\ (sessions[t].revoked => sessions'[t].revoked)
      BY DEF Fades
    <2>2. sessions[t].client = sessions[t].vouched /\ (sessions[t].revoked \/ sessions[t].iface \in {listener, ""})
      BY <2>1 DEF MobileInv, AccessIsVouched
    <2> QED BY <2>1, <2>2
  <1>2. ASSUME NEW p \in DOMAIN pairings' PROVE pairings'[p].iface \in {listener', ""}
    <2>1. p \in DOMAIN pairings /\ pairings'[p].iface = pairings[p].iface
      BY DEF Fades
    <2>2. pairings[p].iface \in {listener, ""}
      BY <2>1 DEF MobileInv, AccessIsVouched
    <2> QED BY <2>1, <2>2
  <1> QED BY <1>1, <1>2 DEF AccessIsVouched

LEMMA FadingKeeps ==
  ASSUME MobileInv, Fades, UNCHANGED Desktop
  PROVE  TablesOK' /\ OpeningInv' /\ PairingInv' /\ AccessIsVouched'
  <1>1. listener' = listener /\ busy' = busy /\ operator' = operator /\ screen' = screen
    BY DEF Desktop
  <1>2. TablesOK'
    BY <1>1 DEF MobileInv, TablesOK, Fades
  <1>3. OpeningInv'
    BY <1>1 DEF MobileInv, OpeningInv
  <1>4. PairingInv' /\ AccessIsVouched'
    BY <1>1, FadedPairings, FadedAccess
  <1> QED BY <1>2, <1>3, <1>4

LEMMA SteadyKeeps ==
  ASSUME MobileInv, Fades, Steady
  PROVE  StreamsOK' /\ CutInv'
  <1>1. StreamsOK'
    BY DEF Steady, StreamsOK
  <1>2. CutInv'
    <2> SUFFICES ASSUME NEW d \in Devices
                 PROVE  /\ stream'[d].tok \notin DOMAIN pairings'
                        /\ stream'[d].after \in {0, 1}
                        /\ stream'[d].after = 1 => stream'[d].st \in {"check", "leave"} /\ ~HasSession(d)'
      BY DEF CutInv
    <2>1. stream'[d].tok = stream[d].tok /\ stream'[d].st = stream[d].st /\ stream'[d].after = stream[d].after
      BY DEF Steady
    <2>2. ~HasSession(d) => ~HasSession(d)'
      BY <2>1, NoSessionReturns
    <2> QED BY <2>1, <2>2 DEF MobileInv, CutInv, Fades
  <1> QED BY <1>1, <1>2

\* A step of one phone's stream.
Becomes(d, s) == DOMAIN stream' = Devices /\ stream'[d] = s /\ \A e \in Devices \ {d} : stream'[e] = stream[e]

LEMMA BecomesIt ==
  ASSUME MobileInv, NEW d \in Devices, NEW s, stream' = [stream EXCEPT ![d] = s]
  PROVE  Becomes(d, s)
  BY DEF MobileInv, StreamsOK, Becomes

LEMMA OneStreamKeeps ==
  ASSUME MobileInv, Fades, NEW d \in Devices, NEW s, Becomes(d, s),
         DOMAIN s = StreamFields, s.tok \in {stream[d].tok, 0}, s.after \in {0, 1},
         s.after = 1 => s.st \in {"check", "leave"} /\ ~HasSession(d) /\ s.tok = stream[d].tok
  PROVE  StreamsOK' /\ CutInv'
  <1>1. DOMAIN stream' = Devices /\ stream'[d] = s /\ \A e \in Devices \ {d} : stream'[e] = stream[e]
    BY DEF Becomes
  <1>2. StreamsOK'
    BY <1>1 DEF MobileInv, StreamsOK
  <1>3. CutInv'
    <2> SUFFICES ASSUME NEW e \in Devices
                 PROVE  /\ stream'[e].tok \notin DOMAIN pairings'
                        /\ stream'[e].after \in {0, 1}
                        /\ stream'[e].after = 1 => stream'[e].st \in {"check", "leave"} /\ ~HasSession(e)'
      BY DEF CutInv
    <2>1. stream[e].tok \notin DOMAIN pairings' /\ 0 \notin DOMAIN pairings'
      BY DEF MobileInv, CutInv, TablesOK, Fades
    <2>2. CASE e = d
      <3>1. s.after = 1 => ~HasSession(d)'
        BY <1>1, NoSessionReturns
      <3> QED BY <1>1, <2>1, <2>2, <3>1
    <2>3. CASE e # d
      <3>1. stream'[e] = stream[e]
        BY <1>1, <2>3
      <3>2. ~HasSession(e) => ~HasSession(e)'
        BY <3>1, NoSessionReturns
      <3> QED BY <2>1, <3>1, <3>2 DEF MobileInv, CutInv
    <2> QED BY <2>2, <2>3
  <1> QED BY <1>2, <1>3

LEMMA EnqueueSteady ==
  ASSUME NEW s, DOMAIN s = StreamFields, NEW events
  PROVE  /\ DOMAIN Enqueue(s, events) = StreamFields
         /\ Enqueue(s, events).tok = s.tok /\ Enqueue(s, events).st = s.st /\ Enqueue(s, events).after = s.after
  BY DEF Enqueue, StreamFields

LEMMA NotifiedSteady ==
  ASSUME MobileInv, NEW ss, NEW event, stream' = Notified(ss, event)
  PROVE  Steady
  <1>1. DOMAIN stream' = Devices
    BY DEF Notified
  <1>2. ASSUME NEW d \in Devices
        PROVE  /\ DOMAIN stream'[d] = StreamFields
               /\ stream'[d].tok = stream[d].tok /\ stream'[d].st = stream[d].st /\ stream'[d].after = stream[d].after
    <2>1. DOMAIN stream[d] = StreamFields
      BY DEF MobileInv, StreamsOK
    <2>2. stream'[d] \in {stream[d], Enqueue(stream[d], <<event>>), [stream[d] EXCEPT !.subbed = FALSE]}
      BY DEF Notified
    <2>3. CASE stream'[d] = stream[d]
      BY <2>1, <2>3
    <2>4. CASE stream'[d] = Enqueue(stream[d], <<event>>)
      BY <2>1, <2>4, EnqueueSteady
    <2>5. CASE stream'[d] = [stream[d] EXCEPT !.subbed = FALSE]
      BY <2>1, <2>5 DEF StreamFields
    <2> QED BY <2>2, <2>3, <2>4, <2>5
  <1> QED BY <1>1, <1>2 DEF Steady


-----------------------------------------------------------------------------
(* Phones: each action keeps the invariant. *)

LEMMA MobileBegins == MobileInit => MobileInv
  <1> SUFFICES ASSUME MobileInit PROVE MobileInv
    OBVIOUS
  <1>1. TablesOK /\ StreamsOK
    BY DEF MobileInit, TablesOK, StreamsOK, OperatorRec, NoStream, StreamFields
  <1>2. OpeningInv /\ PairingInv /\ AccessIsVouched
    BY DEF MobileInit, OpeningInv, PairingInv, AccessIsVouched
  <1>3. CutInv
    <2>1. DOMAIN pairings = {} /\ \A d \in Devices : stream[d].after = 0
      BY DEF MobileInit, NoStream
    <2> QED BY <2>1 DEF CutInv
  <1> QED BY <1>1, <1>2, <1>3 DEF MobileInv

LEMMA Assembled ==
  ASSUME TablesOK', OpeningInv', PairingInv', AccessIsVouched', StreamsOK', CutInv'
  PROVE  MobileInv'
  BY DEF MobileInv

LEMMA SteadyStep ==
  ASSUME MobileInv, Fades, Steady, UNCHANGED Desktop
  PROVE  MobileInv'
  BY FadingKeeps, SteadyKeeps, Assembled

LEMMA StreamsStandStill ==
  ASSUME MobileInv, stream' = stream
  PROVE  Steady
  BY DEF MobileInv, StreamsOK, Steady

LEMMA RecordEventKeeps ==
  ASSUME MobileInv, RecordEvent
  PROVE  MobileInv'
  <1>1. Fades
    BY StandsStill DEF RecordEvent
  <1>2. PICK event : stream' = Notified(sessions, event)
    BY DEF RecordEvent
  <1>3. Steady
    BY <1>2, NotifiedSteady
  <1>4. UNCHANGED Desktop
    BY DEF RecordEvent, Desktop
  <1> QED BY <1>1, <1>3, <1>4, SteadyStep

LEMMA LogFileKeeps ==
  ASSUME MobileInv, WriteLine \/ Rotate
  PROVE  MobileInv'
  <1>1. pairings' = pairings /\ sessions' = sessions /\ stream' = stream /\ UNCHANGED Desktop
    BY DEF WriteLine, Rotate, Desktop
  <1> QED BY <1>1, StandsStill, StreamsStandStill, SteadyStep

LEMMA PollKeeps ==
  ASSUME MobileInv, Poll
  PROVE  MobileInv'
  <1>1. pairings' = pairings /\ sessions' = sessions /\ UNCHANGED Desktop
    BY DEF Poll, Desktop
  <1>2. Steady
    <2>1. DOMAIN stream' = Devices
      BY DEF Poll
    <2>2. ASSUME NEW d \in Devices
          PROVE  /\ DOMAIN stream'[d] = StreamFields
                 /\ stream'[d].tok = stream[d].tok /\ stream'[d].st = stream[d].st /\ stream'[d].after = stream[d].after
      <3>1. DOMAIN stream[d] = StreamFields
        BY DEF MobileInv, StreamsOK
      <3>2. PICK events : stream'[d] \in {stream[d], Enqueue(stream[d], events), [stream[d] EXCEPT !.subbed = FALSE]}
        BY DEF Poll
      <3>3. CASE stream'[d] = stream[d]
        BY <3>1, <3>3
      <3>4. CASE stream'[d] = Enqueue(stream[d], events)
        BY <3>1, <3>4, EnqueueSteady
      <3>5. CASE stream'[d] = [stream[d] EXCEPT !.subbed = FALSE]
        BY <3>1, <3>5 DEF StreamFields
      <3> QED BY <3>2, <3>3, <3>4, <3>5
    <2> QED BY <2>1, <2>2 DEF Steady
  <1> QED BY <1>1, <1>2, StandsStill, SteadyStep

\* stop(): no pairing is left, every session is revoked.
LEMMA StopListenerFades ==
  ASSUME MobileInv, StopListener
  PROVE  Fades /\ Steady /\ DOMAIN pairings' = {} /\ \A t \in DOMAIN sessions' : sessions'[t].revoked
  <1>1. DOMAIN pairings' = {}
    BY DEF StopListener, Stopped
  <1>2. /\ DOMAIN sessions' = DOMAIN sessions
        /\ \A t \in DOMAIN sessions : sessions'[t] = [sessions[t] EXCEPT !.revoked = TRUE]
    BY DEF StopListener
  <1>3. \A t \in DOMAIN sessions : DOMAIN sessions[t] = SessionFields
    BY DEF MobileInv, TablesOK
  <1>4. Fades
    BY <1>1, <1>2, <1>3 DEF Fades, SessionFields
  <1>5. \A t \in DOMAIN sessions' : sessions'[t].revoked
    BY <1>2, <1>3 DEF SessionFields
  <1>6. PICK ss, event : stream' = Notified(ss, event)
    BY DEF StopListener
  <1>7. Steady
    BY <1>6, NotifiedSteady
  <1> QED BY <1>1, <1>4, <1>5, <1>7

LEMMA StopListenerKeeps ==
  ASSUME MobileInv, StopListener, screen' = screen, operator' \in [Operators -> OperatorRec],
         \A o \in Operators : operator'[o].st \in {"listen", "listenpair"} => busy' = o
  PROVE  MobileInv'
  <1>1. Fades /\ Steady /\ DOMAIN pairings' = {} /\ \A t \in DOMAIN sessions' : sessions'[t].revoked
    BY StopListenerFades
  <1>2. StreamsOK' /\ CutInv'
    BY <1>1, SteadyKeeps
  <1>3. TablesOK'
    BY <1>1 DEF MobileInv, TablesOK, Fades
  <1>4. listener' = ""
    BY DEF StopListener
  <1>5. OpeningInv' /\ PairingInv'
    BY <1>1, <1>4 DEF OpeningInv, PairingInv
  <1>6. AccessIsVouched'
    BY <1>1 DEF MobileInv, AccessIsVouched, Fades
  <1> QED BY <1>2, <1>3, <1>5, <1>6, Assembled

LEMMA OperatorStartsKeeps ==
  ASSUME MobileInv, NEW o \in Operators, NEW iface \in Interfaces, NEW pairing \in BOOLEAN,
         OperatorStarts(o, iface, pairing)
  PROVE  MobileInv'
  <1>1. operator[o].st = "idle" /\ busy = "" /\ screen' = screen /\ operator \in [Operators -> OperatorRec]
    BY DEF OperatorStarts, MobileInv, TablesOK
  <1>2. \A p \in Operators : operator[p].st \notin {"listen", "listenpair"}
    BY <1>1, MobileAssumption DEF MobileInv, OpeningInv
  <1>3. CASE listener = iface
    <2>1. operator' = [operator EXCEPT ![o] = [st |-> IF pairing THEN "pair" ELSE "idle", iface |-> iface]]
          /\ Prune /\ listener' = listener /\ busy' = busy /\ stream' = stream
      BY <1>3 DEF OperatorStarts
    <2>2. Fades
      BY <2>1, PruneFades DEF Prune
    <2>3. StreamsOK' /\ CutInv'
      BY <2>1, <2>2, StreamsStandStill, SteadyKeeps
    <2>4. [st |-> IF pairing THEN "pair" ELSE "idle", iface |-> iface] \in OperatorRec
      BY DEF OperatorRec
    <2>5. operator' \in [Operators -> OperatorRec] /\ \A p \in Operators : operator'[p].st \notin {"listen", "listenpair"}
      BY <1>1, <1>2, <2>1, <2>4
    <2>6. TablesOK'
      BY <1>1, <2>2, <2>5 DEF MobileInv, TablesOK, Fades
    <2>7. OpeningInv'
      BY <2>5 DEF OpeningInv
    <2>8. PairingInv'
      BY <1>1, <2>2, FadedPairings
    <2>9. AccessIsVouched'
      BY <2>1, <2>2, FadedAccess
    <2> QED BY <2>3, <2>6, <2>7, <2>8, <2>9, Assembled
  <1>4. CASE listener # iface
    <2>1. StopListener /\ busy' = o
          /\ operator' = [operator EXCEPT ![o] = [st |-> IF pairing THEN "listenpair" ELSE "listen", iface |-> iface]]
      BY <1>4 DEF OperatorStarts
    <2>2. [st |-> IF pairing THEN "listenpair" ELSE "listen", iface |-> iface] \in OperatorRec
      BY DEF OperatorRec
    <2>3. operator' \in [Operators -> OperatorRec]
      BY <1>1, <2>1, <2>2
    <2>4. \A p \in Operators : operator'[p].st \in {"listen", "listenpair"} => busy' = p
      BY <1>1, <1>2, <2>1
    <2> QED BY <1>1, <2>1, <2>3, <2>4, StopListenerKeeps
  <1> QED BY <1>3, <1>4

LEMMA OperatorStopsKeeps ==
  ASSUME MobileInv, NEW o \in Operators, OperatorStops(o)
  PROVE  MobileInv'
  <1>1. StopListener /\ screen' = screen /\ operator' = operator /\ busy' = busy
    BY DEF OperatorStops
  <1>2. operator' \in [Operators -> OperatorRec] /\ \A p \in Operators : operator'[p].st \in {"listen", "listenpair"} => busy' = p
    BY <1>1 DEF MobileInv, TablesOK, OpeningInv
  <1> QED BY <1>1, <1>2, StopListenerKeeps

LEMMA OperatorListensKeeps ==
  ASSUME MobileInv, NEW o \in Operators, OperatorListens(o)
  PROVE  MobileInv'
  <1>1. operator[o].st \in {"listen", "listenpair"} /\ busy' = "" /\ screen' = screen /\ stream' = stream
        /\ operator \in [Operators -> OperatorRec]
    BY DEF OperatorListens, MobileInv, TablesOK
  <1>2. busy = o /\ listener = ""
    BY <1>1 DEF MobileInv, OpeningInv
  <1>3. \A p \in Operators : operator[p].st \in {"listen", "listenpair"} => p = o
    BY <1>2 DEF MobileInv, OpeningInv
  <1>4. PICK to \in {"pair", "idle"} : operator' = [operator EXCEPT ![o].st = to]
    BY <1>1 DEF OperatorListens
  <1>5. operator' \in [Operators -> OperatorRec]
    BY <1>1, <1>4 DEF OperatorRec
  <1>6. \A p \in Operators : operator'[p].st \notin {"listen", "listenpair"}
    BY <1>1, <1>3, <1>4 DEF OperatorRec
  <1>7. Fades
    <2>1. (pairings' = pairings /\ sessions' = sessions) \/ Prune
      BY DEF OperatorListens
    <2> QED BY <2>1, PruneFades DEF Prune
  <1>8. TablesOK' /\ OpeningInv'
    BY <1>1, <1>5, <1>6, <1>7 DEF MobileInv, TablesOK, OpeningInv, Fades
  <1>9. PairingInv'
    BY <1>1, <1>7, FadedPairings
  <1>10. AccessIsVouched'
    BY <1>2, <1>7, FadedAccess
  <1>11. StreamsOK' /\ CutInv'
    BY <1>1, <1>7, StreamsStandStill, SteadyKeeps
  <1> QED BY <1>8, <1>9, <1>10, <1>11, Assembled


LEMMA CreatePairingKeeps ==
  ASSUME MobileInv, NEW o \in Operators, CreatePairing(o)
  PROVE  MobileInv'
  <1>1. /\ operator' = [operator EXCEPT ![o].st = "idle"]
        /\ listener' = listener /\ busy' = busy /\ screen' = screen /\ sessions' = sessions /\ stream' = stream
    BY DEF CreatePairing
  <1>2. PICK p \in 1..MaxPairings :
          /\ p \notin DOMAIN pairings \cup DOMAIN sessions /\ screen[p] = ""
          /\ \A d \in Devices : stream[d].tok # p
          /\ pairings' = [k \in DOMAIN pairings \cup {p} |-> IF k # p THEN pairings[k]
                           ELSE [iface |-> listener, client |-> "", approved |-> FALSE, vouched |-> "",
                                 failed |-> FALSE, expired |-> FALSE]]
    BY DEF CreatePairing
  <1>3. /\ DOMAIN pairings' = DOMAIN pairings \cup {p} /\ \A k \in DOMAIN pairings : pairings'[k] = pairings[k]
        /\ pairings'[p] = [iface |-> listener, client |-> "", approved |-> FALSE, vouched |-> "",
                           failed |-> FALSE, expired |-> FALSE]
    BY <1>2
  <1>4. operator' \in [Operators -> OperatorRec]
        /\ \A q \in Operators : operator'[q].st \in {"listen", "listenpair"} => operator[q].st = operator'[q].st
    BY <1>1 DEF MobileInv, TablesOK, OperatorRec
  <1>5. TablesOK'
    BY <1>1, <1>2, <1>3, <1>4 DEF MobileInv, TablesOK, PairingFields
  <1>6. OpeningInv'
    BY <1>1, <1>4 DEF MobileInv, OpeningInv
  <1>7. PairingInv'
    <2> SUFFICES ASSUME NEW k \in DOMAIN pairings'
                 PROVE  /\ screen'[k] # "" => screen'[k] = pairings'[k].client
                        /\ pairings'[k].approved => pairings'[k].client # "" /\ pairings'[k].vouched = pairings'[k].client
      BY DEF PairingInv
    <2>1. CASE k = p
      BY <1>1, <1>2, <1>3, <2>1
    <2>2. CASE k # p
      BY <1>1, <1>3, <2>2 DEF MobileInv, PairingInv
    <2> QED BY <2>1, <2>2
  <1>8. AccessIsVouched'
    BY <1>1, <1>2, <1>3 DEF MobileInv, AccessIsVouched
  <1>9. StreamsOK'
    BY <1>1 DEF MobileInv, StreamsOK
  <1>10. CutInv'
    BY <1>1, <1>2, <1>3 DEF MobileInv, CutInv, HasSession
  <1> QED BY <1>5, <1>6, <1>7, <1>8, <1>9, <1>10, Assembled

LEMMA PairingExpiresKeeps ==
  ASSUME MobileInv, NEW p \in DOMAIN pairings, PairingExpires(p)
  PROVE  MobileInv'
  <1>1. pairings' = [pairings EXCEPT ![p].expired = TRUE] /\ sessions' = sessions /\ stream' = stream /\ UNCHANGED Desktop
    BY DEF PairingExpires, Desktop
  <1>2. Fades
    BY <1>1 DEF MobileInv, TablesOK, Fades, PairingFields
  <1> QED BY <1>1, <1>2, StreamsStandStill, SteadyStep

LEMMA ShowKeeps ==
  ASSUME MobileInv, NEW p \in DOMAIN pairings, Show(p)
  PROVE  MobileInv'
  <1>1. /\ screen' = [screen EXCEPT ![p] = IF pairings[p].client # "" THEN pairings[p].client ELSE @]
        /\ Prune /\ listener' = listener /\ busy' = busy /\ operator' = operator /\ stream' = stream
    BY DEF Show
  <1>2. Fades
    BY <1>1, PruneFades DEF Prune
  <1>3. StreamsOK' /\ CutInv'
    BY <1>1, <1>2, StreamsStandStill, SteadyKeeps
  <1>4. OpeningInv'
    BY <1>1 DEF MobileInv, OpeningInv
  <1>5. AccessIsVouched'
    BY <1>1, <1>2, FadedAccess
  <1>6. p \in 1..MaxPairings /\ DOMAIN screen = 1..MaxPairings
    BY DEF MobileInv, TablesOK
  <1>7. TablesOK'
    BY <1>1, <1>2, <1>6 DEF MobileInv, TablesOK, Fades
  <1>8. PairingInv'
    <2> SUFFICES ASSUME NEW k \in DOMAIN pairings'
                 PROVE  /\ screen'[k] # "" => screen'[k] = pairings'[k].client
                        /\ pairings'[k].approved => pairings'[k].client # "" /\ pairings'[k].vouched = pairings'[k].client
      BY DEF PairingInv
    <2>1. /\ k \in DOMAIN pairings /\ k \in 1..MaxPairings /\ pairings'[k].client = pairings[k].client
          /\ pairings'[k].approved = pairings[k].approved /\ pairings'[k].vouched = pairings[k].vouched
      BY <1>2 DEF MobileInv, TablesOK, Fades
    <2>2. /\ screen[k] # "" => screen[k] = pairings[k].client
          /\ pairings[k].approved => pairings[k].client # "" /\ pairings[k].vouched = pairings[k].client
      BY <2>1 DEF MobileInv, PairingInv
    <2>3. screen'[k] # "" => screen'[k] = pairings[k].client
      BY <1>1, <1>6, <2>1, <2>2
    <2> QED BY <2>1, <2>2, <2>3
  <1> QED BY <1>3, <1>4, <1>5, <1>7, <1>8, Assembled

LEMMA ApproveKeeps ==
  ASSUME MobileInv, NEW p \in DOMAIN pairings, Approve(p)
  PROVE  MobileInv'
  <1>1. /\ LivePairing(pairings[p]) /\ screen[p] # "" /\ pairings[p].client # ""
        /\ pairings' = [Keep(pairings, LivePairing) EXCEPT ![p].approved = TRUE, ![p].vouched = screen[p]]
        /\ sessions' = Keep(sessions, LiveSession)
        /\ listener' = listener /\ busy' = busy /\ operator' = operator /\ screen' = screen /\ stream' = stream
    BY DEF Approve
  <1>2. DOMAIN sessions' \subseteq DOMAIN sessions /\ \A t \in DOMAIN sessions' : sessions'[t] = sessions[t]
    BY <1>1, PrunedSessions
  <1>3. PICK kept : kept = Keep(pairings, LivePairing)
    OBVIOUS
  <1>4. p \in DOMAIN kept /\ DOMAIN kept \subseteq DOMAIN pairings /\ \A k \in DOMAIN kept : kept[k] = pairings[k]
    BY <1>1, <1>3 DEF Keep
  <1>5. pairings' = [kept EXCEPT ![p] = [pairings[p] EXCEPT !.approved = TRUE, !.vouched = screen[p]]]
    BY <1>1, <1>3, <1>4
  <1>6. /\ DOMAIN pairings' = DOMAIN kept
        /\ pairings'[p] = [pairings[p] EXCEPT !.approved = TRUE, !.vouched = screen[p]]
        /\ \A k \in DOMAIN kept \ {p} : pairings'[k] = pairings[k]
    BY <1>4, <1>5
  <1>7. /\ DOMAIN pairings'[p] = PairingFields /\ pairings'[p].iface = pairings[p].iface
        /\ pairings'[p].client = pairings[p].client /\ pairings'[p].vouched = screen[p]
    BY <1>6 DEF MobileInv, TablesOK, PairingFields
  <1>8. TablesOK'
    <2>1. \A k \in DOMAIN pairings' : k \in 1..MaxPairings /\ DOMAIN pairings'[k] = PairingFields
      BY <1>4, <1>6, <1>7 DEF MobileInv, TablesOK
    <2> QED BY <1>1, <1>2, <2>1 DEF MobileInv, TablesOK
  <1>9. OpeningInv'
    BY <1>1 DEF MobileInv, OpeningInv
  <1>10. PairingInv'
    <2> SUFFICES ASSUME NEW k \in DOMAIN pairings'
                 PROVE  /\ screen'[k] # "" => screen'[k] = pairings'[k].client
                        /\ pairings'[k].approved => pairings'[k].client # "" /\ pairings'[k].vouched = pairings'[k].client
      BY DEF PairingInv
    <2>1. CASE k = p
      BY <1>1, <1>7, <2>1 DEF MobileInv, PairingInv
    <2>2. CASE k # p
      <3>1. k \in DOMAIN pairings /\ pairings'[k] = pairings[k]
        BY <1>4, <1>6, <2>2
      <3> QED BY <1>1, <3>1 DEF MobileInv, PairingInv
    <2> QED BY <2>1, <2>2
  <1>11. AccessIsVouched'
    <2>1. \A k \in DOMAIN pairings' : k \in DOMAIN pairings /\ pairings'[k].iface = pairings[k].iface
      BY <1>4, <1>6, <1>7
    <2> QED BY <1>1, <1>2, <2>1 DEF MobileInv, AccessIsVouched
  <1>12. StreamsOK'
    BY <1>1 DEF MobileInv, StreamsOK
  <1>13. CutInv'
    <2>1. DOMAIN pairings' \subseteq DOMAIN pairings
      BY <1>4, <1>6
    <2> QED BY <1>1, <1>2, <2>1 DEF MobileInv, CutInv, HasSession
  <1> QED BY <1>8, <1>9, <1>10, <1>11, <1>12, <1>13, Assembled

LEMMA KnockKeeps ==
  ASSUME MobileInv, NEW d \in Devices, NEW p \in DOMAIN pairings, Knock(d, p)
  PROVE  MobileInv'
  <1>1. /\ LivePairing(pairings[p])
        /\ pairings' = [Keep(pairings, LivePairing) EXCEPT ![p] = Described(@, d)]
        /\ sessions' = Keep(sessions, LiveSession)
        /\ listener' = listener /\ busy' = busy /\ operator' = operator /\ screen' = screen /\ stream' = stream
    BY DEF Knock
  <1>2. DOMAIN sessions' \subseteq DOMAIN sessions /\ \A t \in DOMAIN sessions' : sessions'[t] = sessions[t]
    BY <1>1, PrunedSessions
  <1>3. PICK kept : kept = Keep(pairings, LivePairing)
    OBVIOUS
  <1>4. p \in DOMAIN kept /\ DOMAIN kept \subseteq DOMAIN pairings /\ \A k \in DOMAIN kept : kept[k] = pairings[k]
    BY <1>1, <1>3 DEF Keep
  <1>5. pairings' = [kept EXCEPT ![p] = Described(pairings[p], d)]
    BY <1>1, <1>3, <1>4
  <1>6. /\ DOMAIN pairings' = DOMAIN kept
        /\ pairings'[p] = Described(pairings[p], d)
        /\ \A k \in DOMAIN kept \ {p} : pairings'[k] = pairings[k]
    BY <1>4, <1>5
  <1>7. DOMAIN pairings[p] = PairingFields
    BY DEF MobileInv, TablesOK
  <1>8. \/ pairings'[p] = pairings[p]
        \/ /\ pairings'[p] = [pairings[p] EXCEPT !.client = d]
           /\ ~pairings[p].approved /\ pairings[p].client = "" /\ screen[p] = ""
    BY <1>6 DEF MobileInv, PairingInv, Described
  <1>9. /\ DOMAIN pairings'[p] = PairingFields /\ pairings'[p].iface = pairings[p].iface
        /\ screen[p] # "" => screen[p] = pairings'[p].client
        /\ pairings'[p].approved => pairings'[p].client # "" /\ pairings'[p].vouched = pairings'[p].client
    BY <1>7, <1>8 DEF MobileInv, PairingInv, PairingFields
  <1>10. TablesOK'
    <2>1. \A k \in DOMAIN pairings' : k \in 1..MaxPairings /\ DOMAIN pairings'[k] = PairingFields
      BY <1>4, <1>6, <1>9 DEF MobileInv, TablesOK
    <2> QED BY <1>1, <1>2, <2>1 DEF MobileInv, TablesOK
  <1>11. OpeningInv'
    BY <1>1 DEF MobileInv, OpeningInv
  <1>12. PairingInv'
    <2> SUFFICES ASSUME NEW k \in DOMAIN pairings'
                 PROVE  /\ screen'[k] # "" => screen'[k] = pairings'[k].client
                        /\ pairings'[k].approved => pairings'[k].client # "" /\ pairings'[k].vouched = pairings'[k].client
      BY DEF PairingInv
    <2>1. CASE k = p
      BY <1>1, <1>9, <2>1
    <2>2. CASE k # p
      <3>1. k \in DOMAIN pairings /\ pairings'[k] = pairings[k]
        BY <1>4, <1>6, <2>2
      <3> QED BY <1>1, <3>1 DEF MobileInv, PairingInv
    <2> QED BY <2>1, <2>2
  <1>13. AccessIsVouched'
    <2>1. \A k \in DOMAIN pairings' : k \in DOMAIN pairings /\ pairings'[k].iface = pairings[k].iface
      BY <1>4, <1>6, <1>9
    <2> QED BY <1>1, <1>2, <2>1 DEF MobileInv, AccessIsVouched
  <1>14. StreamsOK'
    BY <1>1 DEF MobileInv, StreamsOK
  <1>15. CutInv'
    <2>1. DOMAIN pairings' \subseteq DOMAIN pairings
      BY <1>4, <1>6
    <2> QED BY <1>1, <1>2, <2>1 DEF MobileInv, CutInv, HasSession
  <1> QED BY <1>10, <1>11, <1>12, <1>13, <1>14, <1>15, Assembled


LEMMA VerifyKeeps ==
  ASSUME MobileInv, NEW d \in Devices, NEW p \in DOMAIN pairings, NEW right \in BOOLEAN, Verify(d, p, right)
  PROVE  MobileInv'
  <1>1. /\ pairings[p].approved /\ stream[d].st = "none"
        /\ listener' = listener /\ busy' = busy /\ operator' = operator /\ screen' = screen
    BY DEF Verify
  <1>2. UNCHANGED Desktop
    BY <1>1 DEF Desktop
  <1>3. CASE pairings[p].client = d /\ right
    <2>1. /\ sessions' = [t \in DOMAIN sessions \cup {p} |-> IF t # p THEN sessions[t]
                           ELSE [client |-> d, vouched |-> pairings[p].vouched, iface |-> pairings[p].iface,
                                 revoked |-> FALSE, old |-> FALSE]]
          /\ pairings' = [k \in DOMAIN pairings \ {p} |-> pairings[k]]
          /\ stream' = [stream EXCEPT ![d].tok = p]
      BY <1>3 DEF Verify
    <2>2. DOMAIN pairings' = DOMAIN pairings \ {p} /\ \A k \in DOMAIN pairings' : pairings'[k] = pairings[k]
      BY <2>1
    <2>3. /\ DOMAIN sessions' = DOMAIN sessions \cup {p} /\ \A t \in DOMAIN sessions \ {p} : sessions'[t] = sessions[t]
          /\ sessions'[p] = [client |-> d, vouched |-> pairings[p].vouched, iface |-> pairings[p].iface,
                             revoked |-> FALSE, old |-> FALSE]
      BY <2>1
    <2>4. pairings[p].vouched = d /\ pairings[p].iface \in {listener, ""}
      BY <1>1, <1>3 DEF MobileInv, PairingInv, AccessIsVouched
    <2>5. TablesOK'
      BY <1>1, <2>2, <2>3 DEF MobileInv, TablesOK, SessionFields
    <2>6. OpeningInv'
      BY <1>1 DEF MobileInv, OpeningInv
    <2>7. PairingInv'
      BY <1>1, <2>2 DEF MobileInv, PairingInv
    <2>8. AccessIsVouched'
      <3>1. \A t \in DOMAIN sessions' :
              sessions'[t].client = sessions'[t].vouched /\ (sessions'[t].revoked \/ sessions'[t].iface \in {listener, ""})
        <4>1. sessions'[p].client = d /\ sessions'[p].vouched = pairings[p].vouched /\ sessions'[p].iface = pairings[p].iface
          BY <2>3
        <4>2. sessions'[p].client = sessions'[p].vouched /\ sessions'[p].iface \in {listener, ""}
          BY <2>4, <4>1
        <4> QED BY <2>3, <4>2 DEF MobileInv, AccessIsVouched
      <3>2. \A k \in DOMAIN pairings' : pairings'[k].iface \in {listener, ""}
        BY <2>2 DEF MobileInv, AccessIsVouched
      <3> QED BY <1>1, <3>1, <3>2 DEF AccessIsVouched
    <2>9. /\ DOMAIN stream' = Devices /\ stream'[d] = [stream[d] EXCEPT !.tok = p]
          /\ \A e \in Devices \ {d} : stream'[e] = stream[e]
      BY <2>1 DEF MobileInv, StreamsOK
    <2>10. /\ DOMAIN stream'[d] = StreamFields /\ stream'[d].tok = p /\ stream'[d].st = "none"
           /\ stream'[d].after = stream[d].after
      BY <1>1, <2>9 DEF MobileInv, StreamsOK, StreamFields
    <2>11. StreamsOK'
      BY <2>9, <2>10 DEF MobileInv, StreamsOK
    <2>12. CutInv'
      <3> SUFFICES ASSUME NEW e \in Devices
                   PROVE  /\ stream'[e].tok \notin DOMAIN pairings'
                          /\ stream'[e].after \in {0, 1}
                          /\ stream'[e].after = 1 => stream'[e].st \in {"check", "leave"} /\ ~HasSession(e)'
        BY DEF CutInv
      <3>1. CASE e = d
        BY <1>1, <2>2, <2>10, <3>1 DEF MobileInv, CutInv
      <3>2. CASE e # d
        <4>1. stream'[e] = stream[e] /\ stream[e].tok \notin DOMAIN pairings /\ stream[e].tok # p
          BY <2>9, <3>2 DEF MobileInv, CutInv
        <4>2. HasSession(e)' => HasSession(e)
          BY <2>3, <4>1 DEF HasSession
        <4> QED BY <2>2, <4>1, <4>2 DEF MobileInv, CutInv
      <3> QED BY <3>1, <3>2
    <2> QED BY <2>5, <2>6, <2>7, <2>8, <2>11, <2>12, Assembled
  <1>4. CASE ~(pairings[p].client = d /\ right)
    <2>1. pairings' = [pairings EXCEPT ![p].failed = TRUE] /\ sessions' = sessions /\ stream' = stream
      BY <1>4 DEF Verify
    <2>2. Fades
      BY <2>1 DEF MobileInv, TablesOK, Fades, PairingFields
    <2> QED BY <1>2, <2>1, <2>2, StreamsStandStill, SteadyStep
  <1> QED BY <1>3, <1>4

LEMMA RevokeSessionKeeps ==
  ASSUME MobileInv, NEW t \in DOMAIN sessions, RevokeSession(t)
  PROVE  MobileInv'
  <1>1. /\ sessions' = [sessions EXCEPT ![t].revoked = TRUE]
        /\ stream' = [d \in Devices |-> IF stream[d].subbed /\ stream[d].tok = t
                                        THEN Enqueue(stream[d], <<Revoked>>) ELSE stream[d]]
        /\ pairings' = pairings /\ UNCHANGED Desktop
    BY DEF RevokeSession, Desktop
  <1>2. Fades
    BY <1>1 DEF MobileInv, TablesOK, Fades, SessionFields
  <1>3. Steady
    <2>1. \A d \in Devices : DOMAIN stream[d] = StreamFields
      BY DEF MobileInv, StreamsOK
    <2>2. \A d \in Devices : stream'[d] = Enqueue(stream[d], <<Revoked>>) \/ stream'[d] = stream[d]
      BY <1>1
    <2>3. DOMAIN stream' = Devices
      BY <1>1
    <2> QED BY <2>1, <2>2, <2>3, EnqueueSteady DEF Steady
  <1> QED BY <1>1, <1>2, <1>3, SteadyStep

LEMMA SessionAgesKeeps ==
  ASSUME MobileInv, NEW t \in DOMAIN sessions, SessionAges(t)
  PROVE  MobileInv'
  <1>1. sessions' = [sessions EXCEPT ![t].old = TRUE] /\ pairings' = pairings /\ stream' = stream /\ UNCHANGED Desktop
    BY DEF SessionAges, Desktop
  <1>2. Fades
    BY <1>1 DEF MobileInv, TablesOK, Fades, SessionFields
  <1> QED BY <1>1, <1>2, StreamsStandStill, SteadyStep

-----------------------------------------------------------------------------
(* Phones: the steps of a stream. *)

LEMMA StreamStep ==
  ASSUME MobileInv, Fades, UNCHANGED Desktop, NEW d \in Devices, NEW s, Becomes(d, s),
         DOMAIN s = StreamFields, s.tok \in {stream[d].tok, 0}, s.after \in {0, 1},
         s.after = 1 => s.st \in {"check", "leave"} /\ ~HasSession(d) /\ s.tok = stream[d].tok
  PROVE  MobileInv'
  <1>1. StreamsOK' /\ CutInv'
    BY OneStreamKeeps
  <1> QED BY <1>1, FadingKeeps, Assembled

LEMMA QuietStep ==
  ASSUME MobileInv, Fades, UNCHANGED Desktop, NEW d \in Devices, NEW s, Becomes(d, s),
         DOMAIN s = StreamFields, s.tok \in {stream[d].tok, 0}, s.after = 0
  PROVE  MobileInv'
  <1>1. s.after \in {0, 1} /\ ~(s.after = 1)
    OBVIOUS
  <1> QED BY <1>1, StreamStep

LEMMA FreshStream ==
  DOMAIN NoStream = StreamFields /\ NoStream.tok = 0 /\ NoStream.after = 0
  BY DEF NoStream, StreamFields

LEMMA StreamFacts ==
  ASSUME MobileInv, NEW d \in Devices
  PROVE  /\ DOMAIN stream[d] = StreamFields /\ stream[d].after \in {0, 1}
         /\ stream[d].after = 1 => stream[d].st \in {"check", "leave"} /\ ~HasSession(d)
  BY DEF MobileInv, StreamsOK, CutInv

LEMMA OpenStreamKeeps ==
  ASSUME MobileInv, NEW d \in Devices, NEW want \in 0..2, OpenStream(d, want)
  PROVE  MobileInv'
  <1>1. /\ sessions' = Keep(sessions, LiveSession) /\ pairings' = pairings /\ UNCHANGED Desktop
        /\ stream' = [stream EXCEPT ![d] = [NoStream EXCEPT !.st = "opened", !.tok = stream[d].tok, !.want = want]]
    BY DEF OpenStream, Desktop
  <1>2. PICK s : s = [NoStream EXCEPT !.st = "opened", !.tok = stream[d].tok, !.want = want]
    OBVIOUS
  <1>3. DOMAIN s = StreamFields /\ s.tok = stream[d].tok /\ s.after = 0
    BY <1>2, FreshStream DEF StreamFields
  <1>4. Becomes(d, s)
    BY <1>1, <1>2, BecomesIt
  <1>5. Fades
    BY <1>1, PruneFades
  <1> QED BY <1>1, <1>3, <1>4, <1>5, QuietStep

LEMMA StreamBeginsKeeps ==
  ASSUME MobileInv, NEW d \in Devices, StreamBegins(d)
  PROVE  MobileInv'
  <1>1. /\ sessions' = Keep(sessions, LiveSession) /\ pairings' = pairings /\ UNCHANGED Desktop
        /\ stream[d].st = "opened"
    BY DEF StreamBegins, Desktop
  <1>2. Fades
    BY <1>1, PruneFades
  <1>3. stream[d].after = 0
    BY <1>1, StreamFacts
  <1>4. DOMAIN stream = Devices /\ DOMAIN stream[d] = StreamFields
    BY DEF MobileInv, StreamsOK
  <1>5. PICK s : s = stream'[d]
    OBVIOUS
  <1>6. Becomes(d, s) /\ DOMAIN s = StreamFields /\ s.tok = stream[d].tok /\ s.after = stream[d].after
    <2>1. CASE HasSession(d)
      BY <1>4, <1>5, <2>1 DEF StreamBegins, Becomes, StreamFields
    <2>2. CASE ~HasSession(d)
      BY <1>4, <1>5, <2>2 DEF StreamBegins, Becomes, StreamFields
    <2> QED BY <2>1, <2>2
  <1> QED BY <1>1, <1>2, <1>3, <1>6, QuietStep

LEMMA ForgottenStreamKeeps ==
  ASSUME MobileInv, NEW d \in Devices, RefusalEnds(d) \/ StreamEnds(d)
  PROVE  MobileInv'
  <1>1. pairings' = pairings /\ sessions' = sessions /\ UNCHANGED Desktop
    BY DEF RefusalEnds, StreamEnds, Desktop
  <1>2. PICK s : stream' = [stream EXCEPT ![d] = s] /\ s \in {NoStream, [NoStream EXCEPT !.tok = stream[d].tok]}
    BY DEF RefusalEnds, StreamEnds
  <1>3. DOMAIN s = StreamFields /\ s.tok \in {stream[d].tok, 0} /\ s.after = 0
    BY <1>2, FreshStream DEF StreamFields
  <1>4. Becomes(d, s) /\ Fades
    BY <1>1, <1>2, BecomesIt, StandsStill
  <1> QED BY <1>1, <1>3, <1>4, QuietStep

LEMMA YieldBacklogKeeps ==
  ASSUME MobileInv, NEW d \in Devices, YieldBacklog(d)
  PROVE  MobileInv'
  <1>1. pairings' = pairings /\ sessions' = sessions /\ UNCHANGED Desktop /\ stream[d].st = "back"
    BY DEF YieldBacklog, Desktop
  <1>2. DOMAIN stream = Devices /\ DOMAIN stream[d] = StreamFields /\ stream[d].after = 0
    BY <1>1, StreamFacts DEF MobileInv, StreamsOK
  <1>3. PICK s : s = stream'[d]
    OBVIOUS
  <1>4. Becomes(d, s) /\ DOMAIN s = StreamFields /\ s.tok = stream[d].tok /\ s.after = stream[d].after
    BY <1>2, <1>3 DEF YieldBacklog, Becomes, StreamFields
  <1>5. Fades
    BY <1>1, StandsStill
  <1> QED BY <1>1, <1>2, <1>4, <1>5, QuietStep

LEMMA StreamChecksKeeps ==
  ASSUME MobileInv, NEW d \in Devices, StreamChecks(d)
  PROVE  MobileInv'
  <1>1. /\ sessions' = Keep(sessions, LiveSession) /\ pairings' = pairings /\ UNCHANGED Desktop
        /\ stream' = [stream EXCEPT ![d].st = IF HasSession(d) THEN "get" ELSE "leave"]
    BY DEF StreamChecks, Desktop, MayGo
  <1>2. PICK s : s = [stream[d] EXCEPT !.st = IF HasSession(d) THEN "get" ELSE "leave"]
    OBVIOUS
  <1>3. DOMAIN s = StreamFields /\ s.tok = stream[d].tok /\ s.after = stream[d].after
        /\ s.st = IF HasSession(d) THEN "get" ELSE "leave"
    BY <1>2, StreamFacts DEF StreamFields
  <1>4. s.after \in {0, 1} /\ (s.after = 1 => s.st \in {"check", "leave"} /\ ~HasSession(d))
    BY <1>3, StreamFacts
  <1>5. Becomes(d, s)
    BY <1>1, <1>2 DEF MobileInv, StreamsOK, Becomes
  <1>6. Fades
    BY <1>1, PruneFades
  <1> QED BY <1>1, <1>3, <1>4, <1>5, <1>6, StreamStep

LEMMA GotFacts ==
  ASSUME NEW d \in Devices, NEW event, DOMAIN stream[d] = StreamFields, stream[d].after = 0
  PROVE  /\ DOMAIN Got(stream[d], event) = StreamFields /\ Got(stream[d], event).tok = stream[d].tok
         /\ Got(stream[d], event).after \in {0, 1}
         /\ Got(stream[d], event).after = 1 => ~HasSession(d)
  BY DEF Got, StreamFields, HasSession

LEMMA StreamYieldsKeeps ==
  ASSUME MobileInv, NEW d \in Devices, StreamYields(d)
  PROVE  MobileInv'
  <1>1. pairings' = pairings /\ sessions' = sessions /\ UNCHANGED Desktop /\ stream[d].st = "get"
    BY DEF StreamYields, Desktop
  <1>2. DOMAIN stream = Devices /\ DOMAIN stream[d] = StreamFields /\ stream[d].after = 0
    BY <1>1, StreamFacts DEF MobileInv, StreamsOK
  <1>3. Fades
    BY <1>1, StandsStill
  <1>4. CASE stream[d].q = <<>>
    <2>1. PICK s : s = [stream[d] EXCEPT !.st = "check"]
      OBVIOUS
    <2>2. Becomes(d, s)
      BY <1>2, <1>4, <2>1 DEF StreamYields, Becomes
    <2>3. DOMAIN s = StreamFields /\ s.tok = stream[d].tok /\ s.after = 0
      BY <1>2, <2>1 DEF StreamFields
    <2> QED BY <1>1, <1>3, <2>2, <2>3, QuietStep
  <1>5. CASE stream[d].q # <<>>
    <2>1. PICK g : g = Got(stream[d], Head(stream[d].q))
      OBVIOUS
    <2>2. DOMAIN g = StreamFields /\ g.tok = stream[d].tok /\ g.after \in {0, 1} /\ (g.after = 1 => ~HasSession(d))
      BY <1>2, <2>1, GotFacts
    <2>3. PICK s : s = [g EXCEPT !.q = Tail(g.q), !.st = "check"]
      OBVIOUS
    <2>4. Becomes(d, s)
      <3>1. g.q = stream[d].q
        BY <1>2, <2>1 DEF Got, StreamFields
      <3>2. stream' = [stream EXCEPT ![d] = IF stream[d].q = <<>> THEN [stream[d] EXCEPT !.st = "check"] ELSE s]
        BY <1>2, <2>1, <2>3, <3>1 DEF StreamYields
      <3>3. stream' = [stream EXCEPT ![d] = s]
        BY <1>5, <3>2
      <3> QED BY <3>3, BecomesIt
    <2>5. DOMAIN s = StreamFields /\ s.tok = stream[d].tok /\ s.after = g.after /\ s.st = "check"
      BY <2>2, <2>3 DEF StreamFields
    <2>6. s.after \in {0, 1} /\ (s.after = 1 => s.st \in {"check", "leave"} /\ ~HasSession(d))
      BY <2>2, <2>5
    <2> QED BY <1>1, <1>3, <2>4, <2>5, <2>6, StreamStep
  <1> QED BY <1>4, <1>5

LEMMA PhoneLeavesKeeps ==
  ASSUME MobileInv, NEW d \in Devices, PhoneLeaves(d)
  PROVE  MobileInv'
  <1>1. pairings' = pairings /\ sessions' = sessions /\ UNCHANGED Desktop /\ stream' = [stream EXCEPT ![d].st = "leave"]
    BY DEF PhoneLeaves, Desktop
  <1>2. PICK s : s = [stream[d] EXCEPT !.st = "leave"]
    OBVIOUS
  <1>3. DOMAIN s = StreamFields /\ s.tok = stream[d].tok /\ s.after = stream[d].after /\ s.st = "leave"
    BY <1>2, StreamFacts DEF StreamFields
  <1>4. Becomes(d, s)
    BY <1>1, <1>2 DEF MobileInv, StreamsOK, Becomes
  <1>5. Fades
    BY <1>1, StandsStill
  <1>6. s.after \in {0, 1} /\ (s.after = 1 => s.st \in {"check", "leave"} /\ ~HasSession(d))
    BY <1>3, StreamFacts
  <1> QED BY <1>1, <1>3, <1>4, <1>5, <1>6, StreamStep

-----------------------------------------------------------------------------
(* Theorems about phones. *)

\* What access to the stream rests on holds through every pairing, reopening of the listener, revocation and stream.
THEOREM MobileInductive == MobileSpec => []MobileInv
  <1>1. ASSUME MobileInv, [MobileNext]_mobileVars PROVE MobileInv'
    <2>1. CASE RecordEvent \/ WriteLine \/ Rotate \/ Poll
      BY <1>1, <2>1, RecordEventKeeps, LogFileKeeps, PollKeeps
    <2>2. ASSUME NEW o \in Operators,
                 \/ OperatorListens(o) \/ OperatorStops(o) \/ CreatePairing(o)
                 \/ \E i \in Interfaces, pairing \in BOOLEAN : OperatorStarts(o, i, pairing)
          PROVE  MobileInv'
      BY <1>1, <2>2, OperatorListensKeeps, OperatorStopsKeeps, CreatePairingKeeps, OperatorStartsKeeps
    <2>3. ASSUME NEW p \in DOMAIN pairings, PairingExpires(p) \/ Show(p) \/ Approve(p)
          PROVE  MobileInv'
      BY <1>1, <2>3, PairingExpiresKeeps, ShowKeeps, ApproveKeeps
    <2>4. ASSUME NEW t \in DOMAIN sessions, RevokeSession(t) \/ SessionAges(t)
          PROVE  MobileInv'
      BY <1>1, <2>4, RevokeSessionKeeps, SessionAgesKeeps
    <2>5. ASSUME NEW d \in Devices,
                 \/ StreamBegins(d) \/ RefusalEnds(d) \/ YieldBacklog(d) \/ StreamChecks(d) \/ StreamYields(d)
                 \/ PhoneLeaves(d) \/ StreamEnds(d)
          PROVE  MobileInv'
      BY <1>1, <2>5, StreamBeginsKeeps, ForgottenStreamKeeps, YieldBacklogKeeps, StreamChecksKeeps, StreamYieldsKeeps,
         PhoneLeavesKeeps
    <2>6. ASSUME NEW d \in Devices, NEW want \in 0..2, OpenStream(d, want)
          PROVE  MobileInv'
      BY <1>1, <2>6, OpenStreamKeeps
    <2>7. ASSUME NEW d \in Devices, NEW p \in DOMAIN pairings, Knock(d, p) \/ \E right \in BOOLEAN : Verify(d, p, right)
          PROVE  MobileInv'
      BY <1>1, <2>7, KnockKeeps, VerifyKeeps
    <2>8. CASE UNCHANGED mobileVars
      <3>1. pairings' = pairings /\ sessions' = sessions /\ stream' = stream /\ UNCHANGED Desktop
        BY <2>8 DEF mobileVars, Desktop
      <3> QED BY <1>1, <3>1, StandsStill, StreamsStandStill, SteadyStep
    <2> QED BY <1>1, <2>1, <2>2, <2>3, <2>4, <2>5, <2>6, <2>7, <2>8 DEF MobileNext
  <1> QED BY <1>1, MobileBegins, PTL DEF MobileSpec

\* Only the phone the operator had on the screen when approving holds a session, nothing of an earlier listener
\* survives, and a phone whose session ended gets at most one more event: for any phones, operators and interfaces.
THEOREM AccessIsGrantedCorrect == MobileSpec => []AccessIsGranted
  <1>1. MobileInv => AccessIsGranted
    BY DEF MobileInv, CutInv, AccessIsGranted, RevokedIsCut
  <1> QED BY <1>1, MobileInductive, PTL

-----------------------------------------------------------------------------
(* Phones: the lines of the log, and what each phone has of them. *)

\* A list of line numbers that rises, up to r.
Ordered(x, r) == x \in Seq(Lines) /\ Rising(x) /\ \A i \in 1..Len(x) : x[i] <= r

\* No line of W is missing from x, up to r: neither above from, nor from its first one on. What is lost is not missing.
Covers(x, from, W, r, lost) ==
  \A n \in W : n <= r /\ n \notin lost /\ (n > from \/ (x # <<>> /\ n >= x[1])) => n \in Elems(x)

LogFields == {"file", "off", "moved", "ring", "n", "lost"}

LogOK(l) ==
  /\ DOMAIN l = LogFields
  /\ l.n \in Nat /\ l.off \in Nat /\ l.moved \in BOOLEAN
  /\ l.file \in Seq(Lines) /\ l.ring \in Seq(Lines) /\ Len(l.file) <= l.n
  /\ \A i \in 1..Len(l.file) : l.file[i] = (l.n - Len(l.file)) + i
  /\ ~l.moved => l.off <= Len(l.file)

\* What the ring holds has no gap, up to the last line read.
RingOK(l) == Ordered(l.ring, ReadOf(l)) /\ Covers(l.ring, ReadOf(l), Lines, ReadOf(l), l.lost)

\* What a queue holds.
Signals == Lines \cup {Data, Revoked}

StreamOK(s) ==
  /\ DOMAIN s = StreamFields
  /\ s.got \in Seq(Lines) /\ s.back \in Seq(Lines) /\ s.q \in Seq(Signals)
  /\ s.want \in Nat /\ s.from \in Nat /\ {s.subbed, s.logged, s.spilt} \subseteq BOOLEAN
  /\ s.st \in {"none", "opened", "refused"} =>
       ~s.subbed /\ ~s.spilt /\ s.got = <<>> /\ s.back = <<>> /\ s.q = <<>>
  /\ s.st \in {"check", "get"} => s.back = <<>>

Meets(s, l) ==
  /\ Ordered(Sent(s), ReadOf(l)) /\ s.from <= ReadOf(l)
  /\ s.spilt \/ Covers(Sent(s), s.from, Above(s.want), ReadOf(l), l.lost)

\* A stream that follows the log is short of nothing.
KeepsUp(s, l, f) == StreamOK(s) /\ (s.logged /\ s.subbed => f /\ Meets(s, l))

LinesInv ==
  /\ LogOK(log) /\ follows \in BOOLEAN
  /\ follows => RingOK(log)
  /\ DOMAIN stream = Devices
  /\ \A d \in Devices : KeepsUp(stream[d], log, follows)

-----------------------------------------------------------------------------
(* Lists of line numbers. *)

LEMMA LineFacts ==
  ASSUME NEW x \in Seq(Lines)
  PROVE  /\ Len(x) \in Nat /\ DOMAIN x = 1..Len(x)
         /\ \A i \in 1..Len(x) : x[i] \in Lines /\ x[i] \in Nat /\ x[i] > 0
         /\ Elems(x) = {x[i] : i \in 1..Len(x)}
         /\ (x = <<>>) <=> (Len(x) = 0)
  <1>1. Len(x) \in Nat /\ DOMAIN x = 1..Len(x) /\ \A i \in 1..Len(x) : x[i] \in Lines
    BY LenProperties, ElementOfSeq
  <1>2. (x = <<>>) <=> (Len(x) = 0)
    BY EmptySeq
  <1> QED BY <1>1, <1>2 DEF Lines, Elems

\* A list made of some items of a rising one, in their order, rises.
LEMMA PickedRises ==
  ASSUME NEW x \in Seq(Lines), NEW r \in Int, Ordered(x, r), NEW y \in Seq(Lines), NEW at \in [1..Len(y) -> 1..Len(x)],
         \A i \in 1..Len(y) : y[i] = x[at[i]],
         \A i, k \in 1..Len(y) : i < k => at[i] < at[k]
  PROVE  Ordered(y, r)
  <1>1. DOMAIN x = 1..Len(x) /\ DOMAIN y = 1..Len(y)
    BY LineFacts
  <1>2. /\ \A i, k \in 1..Len(x) : i < k => x[i] < x[k]
        /\ \A i \in 1..Len(x) : x[i] <= r
    BY <1>1 DEF Ordered, Rising
  <1>3. ASSUME NEW i \in 1..Len(y) PROVE y[i] <= r
    <2>1. at[i] \in 1..Len(x) /\ y[i] = x[at[i]]
      OBVIOUS
    <2> QED BY <1>2, <2>1
  <1>4. ASSUME NEW i \in 1..Len(y), NEW k \in 1..Len(y), i < k PROVE y[i] < y[k]
    <2>1. at[i] \in 1..Len(x) /\ at[k] \in 1..Len(x) /\ at[i] < at[k] /\ y[i] = x[at[i]] /\ y[k] = x[at[k]]
      BY <1>4
    <2> QED BY <1>2, <2>1
  <1>5. Rising(y)
    BY <1>1, <1>4 DEF Rising
  <1> QED BY <1>3, <1>5 DEF Ordered

LEMMA SizesPositive == RingSize \in Nat \ {0} /\ Backlog \in Nat \ {0} /\ QueueSize \in Nat \ {0}
  BY MobileAssumption, Zenon

LEMMA NoneOrdered ==
  ASSUME NEW r
  PROVE  Ordered(<<>>, r)
  <1>1. <<>> \in Seq(Lines) /\ Len(<<>>) = 0 /\ DOMAIN <<>> = {}
    OBVIOUS
  <1> QED BY <1>1 DEF Ordered, Rising

\* Higher lines go behind.
LEMMA OrderedConcat ==
  ASSUME NEW r \in Int, NEW r2 \in Int, r <= r2, NEW x, Ordered(x, r), NEW w, Ordered(w, r2),
         \A i \in 1..Len(w) : r < w[i]
  PROVE  Ordered(x \o w, r2)
  <1>1. x \in Seq(Lines) /\ w \in Seq(Lines)
    BY DEF Ordered
  <1>2. PICK y : y = x \o w
    OBVIOUS
  <1>3. y \in Seq(Lines) /\ Len(y) = Len(x) + Len(w) /\ Len(x) \in Nat /\ Len(w) \in Nat
    BY <1>1, <1>2, ConcatFacts, LineFacts
  <1>4. /\ \A i \in 1..Len(x) : y[i] = x[i] /\ x[i] \in Nat
        /\ \A i \in 1..Len(w) : y[Len(x) + i] = w[i] /\ w[i] \in Nat
    BY <1>1, <1>2, LineFacts
  <1>5. /\ DOMAIN x = 1..Len(x) /\ DOMAIN w = 1..Len(w) /\ DOMAIN y = 1..Len(y)
        /\ \A i, k \in 1..Len(x) : i < k => x[i] < x[k]
        /\ \A i, k \in 1..Len(w) : i < k => w[i] < w[k]
        /\ \A i \in 1..Len(x) : x[i] <= r
        /\ \A i \in 1..Len(w) : w[i] <= r2
    BY <1>1, <1>3, LineFacts DEF Ordered, Rising
  <1>6. ASSUME NEW i \in 1..Len(y) PROVE y[i] <= r2 /\ y[i] \in Nat /\ (i <= Len(x) => y[i] <= r) /\ (i > Len(x) => r < y[i])
    <2>1. CASE i <= Len(x)
      BY <2>1, <1>3, <1>4, <1>5
    <2>2. CASE i > Len(x)
      <3>1. PICK j \in 1..Len(w) : i = Len(x) + j
        <4>1. i - Len(x) \in 1..Len(w) /\ i = Len(x) + (i - Len(x))
          BY <2>2, <1>3
        <4> QED BY <4>1
      <3> QED BY <2>2, <3>1, <1>3, <1>4, <1>5
    <2> QED BY <2>1, <2>2, <1>3
  <1>7. ASSUME NEW i \in 1..Len(y), NEW k \in 1..Len(y), i < k PROVE y[i] < y[k]
    <2>1. CASE k <= Len(x)
      <3>1. i \in 1..Len(x) /\ k \in 1..Len(x)
        BY <1>7, <2>1, <1>3
      <3> QED BY <1>7, <3>1, <1>4, <1>5
    <2>2. CASE i <= Len(x) /\ k > Len(x)
      BY <1>6, <2>2
    <2>3. CASE i > Len(x)
      <3>1. PICK a \in 1..Len(w), b \in 1..Len(w) : i = Len(x) + a /\ k = Len(x) + b /\ a < b
        <4>1. /\ i - Len(x) \in 1..Len(w) /\ i = Len(x) + (i - Len(x))
              /\ k - Len(x) \in 1..Len(w) /\ k = Len(x) + (k - Len(x))
              /\ i - Len(x) < k - Len(x)
          BY <1>7, <2>3, <1>3
        <4> QED BY <4>1
      <3> QED BY <3>1, <1>4, <1>5
    <2> QED BY <2>1, <2>2, <2>3, <1>3
  <1>8. Ordered(y, r2)
    BY <1>3, <1>5, <1>6, <1>7 DEF Ordered, Rising
  <1> QED BY <1>2, <1>8

\* Nor does that leave a gap, when every line that is wanted above the old limit is among them.
LEMMA CoversConcat ==
  ASSUME NEW r \in Int, NEW r2 \in Int, NEW x, Ordered(x, r), NEW w \in Seq(Lines),
         \A i \in 1..Len(w) : r < w[i],
         NEW W \in SUBSET Lines, NEW from, NEW lost, NEW lost2, lost \subseteq lost2, Covers(x, from, W, r, lost),
         \A n \in W : r < n /\ n <= r2 /\ n \notin lost2 => n \in Elems(w)
  PROVE  Covers(x \o w, from, W, r2, lost2)
  <1>1. x \in Seq(Lines)
    BY DEF Ordered
  <1>2. PICK y : y = x \o w
    OBVIOUS
  <1>3. Len(y) = Len(x) + Len(w) /\ Elems(y) = Elems(x) \cup Elems(w) /\ Len(x) \in Nat /\ Len(w) \in Nat /\ y \in Seq(Lines)
    BY <1>1, <1>2, ConcatFacts, LineFacts
  <1>4. /\ x # <<>> => y[1] = x[1]
        /\ x = <<>> => y = w
    <2>1. CASE x = <<>>
      BY <1>2, <2>1
    <2>2. CASE x # <<>>
      <3>1. 1 \in 1..Len(x)
        BY <1>1, <2>2, LineFacts
      <3> QED BY <1>1, <1>2, <2>2, <3>1
    <2> QED BY <2>1, <2>2
  <1>5. ASSUME NEW n \in W, n <= r2, n \notin lost2, n > from \/ (y # <<>> /\ n >= y[1])
        PROVE  n \in Elems(y)
    <2>1. n \in Nat
      BY DEF Lines
    <2>2. CASE n > r
      BY <1>3, <1>5, <2>2
    <2>3. CASE n <= r
      <3>1. n \notin lost
        BY <1>5
      <3>2. CASE n > from \/ (x # <<>> /\ n >= x[1])
        BY <1>3, <2>3, <3>1, <3>2 DEF Covers
      <3>3. CASE x = <<>> /\ y # <<>> /\ n >= y[1]
        <4>1. 1 \in 1..Len(w) /\ w[1] \in Nat /\ y[1] = w[1]
          BY <1>4, <3>3, LineFacts
        <4> QED BY <2>1, <2>3, <3>3, <4>1
      <3> QED BY <1>4, <1>5, <3>2, <3>3
    <2> QED BY <2>1, <2>2, <2>3
  <1>6. Covers(y, from, W, r2, lost2)
    BY <1>5 DEF Covers
  <1> QED BY <1>2, <1>6

\* The newest lines have no gap either, from the first of them on.
LEMMA DropKeeps ==
  ASSUME NEW r \in Int, NEW x, Ordered(x, r), NEW d \in 0..Len(x), NEW W \in SUBSET Lines, NEW lost
  PROVE  /\ Ordered(Drop(x, d), r)
         /\ Covers(x, r, W, r, lost) => Covers(Drop(x, d), r, W, r, lost)
  <1>1. x \in Seq(Lines)
    BY DEF Ordered
  <1>2. PICK y : y = Drop(x, d)
    OBVIOUS
  <1>3. /\ y \in Seq(Lines) /\ Len(y) = Len(x) - d /\ Len(x) \in Nat /\ d \in Nat
        /\ \A i \in 1..(Len(x) - d) : y[i] = x[d + i]
    <2>1. Len(x) \in Nat /\ d \in Nat
      BY <1>1, LineFacts
    <2>2. /\ Drop(x, d) \in Seq(Lines) /\ Len(Drop(x, d)) = Len(x) - d
          /\ \A i \in 1..(Len(x) - d) : Drop(x, d)[i] = x[d + i]
      BY <1>1, DropFacts
    <2> QED BY <1>2, <2>1, <2>2
  <1>4. Ordered(y, r)
    <2> DEFINE at == [i \in 1..Len(y) |-> d + i]
    <2>1. at \in [1..Len(y) -> 1..Len(x)] /\ \A i \in 1..Len(y) : y[i] = x[at[i]]
      BY <1>3
    <2>2. \A i, k \in 1..Len(y) : i < k => at[i] < at[k]
      BY <1>3
    <2> HIDE DEF at
    <2> QED BY <1>1, <1>3, <2>1, <2>2, PickedRises
  <1>5. ASSUME Covers(x, r, W, r, lost), NEW n \in W, n <= r, n \notin lost, n > r \/ (y # <<>> /\ n >= y[1])
        PROVE  n \in Elems(y)
    <2>1. n \in Nat
      BY DEF Lines
    <2>2. y # <<>> /\ n >= y[1]
      BY <1>5, <2>1
    <2>3. 1 \in 1..Len(y) /\ y[1] = x[d + 1] /\ d + 1 \in 1..Len(x) /\ 1 \in 1..Len(x)
      BY <1>3, <2>2, LineFacts
    <2>4. DOMAIN x = 1..Len(x) /\ \A i \in 1..Len(x) : x[i] \in Nat
      BY <1>1, LineFacts
    <2>5. \A i, k \in 1..Len(x) : i < k => x[i] < x[k]
      BY <2>4 DEF Ordered, Rising
    <2> DEFINE j == d + 1
    <2>11. x[1] <= x[j]
      <3>1. j \in 1..Len(x) /\ x[j] \in Nat /\ x[1] \in Nat /\ (1 < j \/ 1 = j)
        BY <1>3, <2>3, <2>4
      <3> HIDE DEF j
      <3>2. 1 < j => x[1] < x[j]
        BY <2>3, <2>5, <3>1
      <3> QED BY <3>1, <3>2
    <2>6. n >= x[1] /\ x # <<>>
      BY <1>1, <2>1, <2>2, <2>3, <2>4, <2>11, LineFacts
    <2>7. n \in Elems(x)
      BY <1>5, <2>6 DEF Covers
    <2>8. PICK i \in 1..Len(x) : n = x[i]
      BY <1>1, <2>7, LineFacts
    <2>9. ~ (i < d + 1)
      <3>1. j \in 1..Len(x) /\ x[j] \in Nat /\ x[i] \in Nat /\ x[i] >= x[j] /\ j = d + 1
        BY <2>1, <2>2, <2>3, <2>4, <2>8
      <3> HIDE DEF j
      <3>2. i < j => x[i] < x[j]
        BY <2>5, <3>1
      <3> QED BY <3>1, <3>2
    <2>10. i - d \in 1..Len(y) /\ y[i - d] = x[i]
      BY <1>3, <2>8, <2>9
    <2> QED BY <1>3, <2>8, <2>10, LineFacts
  <1>6. Covers(x, r, W, r, lost) => Covers(y, r, W, r, lost)
    BY <1>5 DEF Covers
  <1> QED BY <1>2, <1>4, <1>6

\* What Newest leaves is what is dropped from none of the list or from a list that is too long.
LEMMA NewestFacts ==
  ASSUME NEW A, NEW x \in Seq(A), NEW k \in Nat \ {0}
  PROVE  \E d \in 0..Len(x) : Newest(x, k) = Drop(x, d) /\ (d # 0 <=> Len(x) > k) /\ (d = 0 => Newest(x, k) = x)
  <1>1. Len(x) \in Nat
    BY LenProperties
  <1>2. CASE Len(x) <= k
    <2>1. Newest(x, k) = x
      BY <1>2 DEF Newest
    <2>2. Drop(x, 0) = x
      <3>1. 0 \in 0..Len(x)
        BY <1>1
      <3>2. /\ Drop(x, 0) \in Seq(A) /\ Len(Drop(x, 0)) = Len(x)
            /\ \A i \in 1..Len(x) : Drop(x, 0)[i] = x[i]
        BY <1>1, <3>1, DropFacts
      <3> QED BY <1>1, <3>2, SeqEqual
    <2> QED BY <1>1, <1>2, <2>1, <2>2
  <1>3. CASE Len(x) > k
    BY <1>1, <1>3 DEF Newest
  <1> QED BY <1>1, <1>2, <1>3

LEMMA NewestKeeps ==
  ASSUME NEW r \in Int, NEW x, Ordered(x, r), NEW k \in Nat \ {0}, NEW W \in SUBSET Lines, NEW lost
  PROVE  /\ Ordered(Newest(x, k), r)
         /\ Covers(x, r, W, r, lost) => Covers(Newest(x, k), r, W, r, lost)
  <1>1. x \in Seq(Lines)
    BY DEF Ordered
  <1>2. PICK d \in 0..Len(x) : Newest(x, k) = Drop(x, d)
    BY <1>1, NewestFacts
  <1> QED BY <1>2, DropKeeps

\* What is cut out leaves a list that rises.
LEMMA MiddleCut ==
  ASSUME NEW r \in Int, NEW p \in Seq(Lines), NEW a \in Seq(Lines), NEW b \in Seq(Lines), Ordered(p \o (a \o b), r)
  PROVE  Ordered(p \o b, r)
  <1>1. PICK ab : ab = a \o b
    OBVIOUS
  <1>2. PICK x : x = p \o ab
    OBVIOUS
  <1>3. PICK y : y = p \o b
    OBVIOUS
  <1>4. /\ Len(p) \in Nat /\ Len(a) \in Nat /\ Len(b) \in Nat
        /\ ab \in Seq(Lines) /\ Len(ab) = Len(a) + Len(b)
    BY <1>1, ConcatFacts, LineFacts
  <1>5. /\ x \in Seq(Lines) /\ Len(x) = Len(p) + (Len(a) + Len(b))
        /\ y \in Seq(Lines) /\ Len(y) = Len(p) + Len(b)
    <2>1. p \o ab \in Seq(Lines) /\ Len(p \o ab) = Len(p) + Len(ab)
      BY <1>4, ConcatFacts
    <2>2. p \o b \in Seq(Lines) /\ Len(p \o b) = Len(p) + Len(b)
      BY <1>4, ConcatFacts
    <2> QED BY <1>2, <1>3, <1>4, <2>1, <2>2
  <1>6. /\ \A i \in 1..Len(p) : x[i] = p[i] /\ y[i] = p[i]
        /\ \A i \in 1..Len(b) : ab[Len(a) + i] = b[i] /\ y[Len(p) + i] = b[i]
        /\ \A i \in 1..(Len(a) + Len(b)) : x[Len(p) + i] = ab[i]
    <2>1. \A i \in 1..Len(p) : x[i] = p[i] /\ y[i] = p[i]
      BY <1>2, <1>3, <1>4
    <2>2. \A i \in 1..Len(b) : ab[Len(a) + i] = b[i]
      BY <1>1, <1>4
    <2>3. \A i \in 1..Len(b) : y[Len(p) + i] = b[i]
      BY <1>3, <1>4
    <2>4. \A i \in 1..Len(ab) : x[Len(p) + i] = ab[i]
      BY <1>2, <1>4
    <2> QED BY <1>4, <2>1, <2>2, <2>3, <2>4
  <1> DEFINE at == [i \in 1..Len(y) |-> IF i <= Len(p) THEN i ELSE Len(a) + i]
  <1>7. ASSUME NEW i \in 1..Len(y) PROVE y[i] = x[at[i]] /\ at[i] \in 1..Len(x)
    <2>1. CASE i <= Len(p)
      BY <1>4, <1>5, <1>6, <2>1
    <2>2. CASE i > Len(p)
      <3>1. PICK j \in 1..Len(b) : i = Len(p) + j
        <4>1. i - Len(p) \in 1..Len(b) /\ i = Len(p) + (i - Len(p))
          BY <1>4, <1>5, <2>2
        <4> QED BY <4>1
      <3>2. at[i] = Len(p) + (Len(a) + j) /\ Len(a) + j \in 1..(Len(a) + Len(b))
        BY <1>4, <2>2, <3>1
      <3>3. x[Len(p) + (Len(a) + j)] = ab[Len(a) + j] /\ ab[Len(a) + j] = b[j] /\ y[Len(p) + j] = b[j]
        BY <1>6, <3>1, <3>2
      <3> QED BY <1>4, <1>5, <3>1, <3>2, <3>3
    <2> QED BY <2>1, <2>2, <1>4
  <1>8. at \in [1..Len(y) -> 1..Len(x)]
    BY <1>7
  <1>9. \A i, k \in 1..Len(y) : i < k => at[i] < at[k]
    BY <1>4, <1>5
  <1> HIDE DEF at
  <1>10. Ordered(y, r)
    <2>1. Ordered(x, r) /\ x \in Seq(Lines) /\ y \in Seq(Lines)
      BY <1>1, <1>2, <1>5
    <2>2. \A i \in 1..Len(y) : y[i] = x[at[i]]
      BY <1>7
    <2> QED BY <1>8, <1>9, <2>1, <2>2, PickedRises
  <1> QED BY <1>3, <1>10

\* What is kept of a list that rises, rises.
LEMMA KeptRises ==
  ASSUME NEW x \in Seq(Lines), Rising(x), NEW S
  PROVE  Kept(x, S) \in Seq(Lines) /\ Rising(Kept(x, S))
  <1>1. /\ Len(x) \in Nat /\ DOMAIN x = 1..Len(x)
        /\ \A k \in 1..Len(x) : x[k] \in Lines /\ x[k] \in Nat
    BY LineFacts
  <1>2. \A i, k \in 1..Len(x) : i < k => x[i] < x[k]
    BY <1>1 DEF Rising
  <1>3. PICK g : Collects(g, x, S)
    BY <1>1, KeptSteps
  <1> DEFINE P(n) == n <= Len(x) =>
               /\ g[n] \in Seq(Lines) /\ Rising(g[n])
               /\ \A i \in 1..Len(g[n]) : \E k \in 1..n : g[n][i] = x[k]
             T == {n \in Nat : P(n)}
  <1>4. P(0)
    <2>1. g[0] = <<>>
      BY <1>3 DEF Collects
    <2>2. <<>> \in Seq(Lines) /\ Len(<<>>) = 0 /\ Rising(<<>>)
      BY NoneOrdered DEF Ordered
    <2> QED BY <2>1, <2>2
  <1>5. ASSUME NEW n \in Nat, P(n) PROVE P(n + 1)
    <2>1. SUFFICES ASSUME n + 1 <= Len(x)
                   PROVE  /\ g[n + 1] \in Seq(Lines) /\ Rising(g[n + 1])
                          /\ \A i \in 1..Len(g[n + 1]) : \E k \in 1..(n + 1) : g[n + 1][i] = x[k]
      OBVIOUS
    <2>2. PICK q : q = g[n]
      OBVIOUS
    <2>3. PICK e \in Lines : e = x[n + 1]
      BY <1>1, <2>1
    <2>4. /\ n \in 0..(Len(x) - 1) /\ n + 1 \in 1..Len(x)
          /\ q \in Seq(Lines) /\ Rising(q) /\ \A i \in 1..Len(q) : \E k \in 1..n : q[i] = x[k]
      BY <1>1, <1>5, <2>1, <2>2
    <2>5. CASE e \notin S
      <3>1. g[n + 1] = q
        BY <1>3, <2>2, <2>3, <2>4, <2>5 DEF Collects
      <3> QED BY <2>4, <3>1
    <2>6. CASE e \in S
      <3>1. g[n + 1] = Append(q, e)
        BY <1>3, <2>2, <2>3, <2>4, <2>6 DEF Collects
      <3>2. PICK t : t = Append(q, e)
        OBVIOUS
      <3>3. /\ t \in Seq(Lines) /\ Len(t) = Len(q) + 1 /\ Len(q) \in Nat /\ t[Len(q) + 1] = e
            /\ DOMAIN t = 1..Len(t) /\ DOMAIN q = 1..Len(q)
            /\ \A i \in 1..Len(q) : t[i] = q[i] /\ q[i] \in Nat
        BY <2>4, <3>2, AppendProperties, LineFacts
      <3>4. \A i \in 1..Len(q) : q[i] < e
        <4>1. ASSUME NEW i \in 1..Len(q) PROVE q[i] < e
          <5>1. PICK k \in 1..n : q[i] = x[k]
            BY <2>4
          <5>2. k \in 1..Len(x) /\ k < n + 1
            BY <1>1, <2>1
          <5> QED BY <1>2, <2>3, <2>4, <5>1, <5>2
        <4> QED BY <4>1
      <3>5. Rising(t)
        <4>1. \A i, k \in 1..Len(q) : i < k => q[i] < q[k]
          BY <2>4, <3>3 DEF Rising
        <4>2. ASSUME NEW i \in 1..Len(t), NEW k \in 1..Len(t), i < k PROVE t[i] < t[k]
          <5>1. CASE k = Len(q) + 1
            BY <3>3, <3>4, <4>2, <5>1
          <5>2. CASE k <= Len(q)
            <6>1. i \in 1..Len(q) /\ k \in 1..Len(q)
              BY <3>3, <4>2, <5>2
            <6> QED BY <3>3, <4>1, <4>2, <6>1
          <5> QED BY <3>3, <5>1, <5>2
        <4> QED BY <3>3, <4>2 DEF Rising
      <3>6. ASSUME NEW i \in 1..Len(t) PROVE \E k \in 1..(n + 1) : t[i] = x[k]
        <4>1. CASE i = Len(q) + 1
          BY <2>3, <2>4, <3>3, <4>1
        <4>2. CASE i # Len(q) + 1
          <5>1. i \in 1..Len(q) /\ t[i] = q[i]
            BY <3>3, <4>2
          <5>2. PICK k \in 1..n : q[i] = x[k]
            BY <2>4, <5>1
          <5> QED BY <5>1, <5>2
        <4> QED BY <4>1, <4>2
      <3> QED BY <3>1, <3>2, <3>3, <3>5, <3>6
    <2> QED BY <2>5, <2>6
  <1> HIDE DEF P
  <1>6. T = Nat
    <2>1. T \in SUBSET Nat /\ 0 \in T
      BY <1>4
    <2>2. \A n \in T : n + 1 \in T
      BY <1>5
    <2> HIDE DEF T
    <2> QED BY <2>1, <2>2, SetInduction
  <1>7. P(Len(x))
    BY <1>1, <1>6
  <1> QED BY <1>1, <1>3, <1>7 DEF P, Collects

\* What is kept of a list without a gap has none that matters.
LEMMA KeptKeeps ==
  ASSUME NEW r \in Int, NEW x, Ordered(x, r), NEW W \in SUBSET Lines, NEW lost
  PROVE  /\ Ordered(Kept(x, W), r) /\ \A i \in 1..Len(Kept(x, W)) : Kept(x, W)[i] \in W
         /\ Elems(Kept(x, W)) = Elems(x) \cap W
         /\ Covers(x, r, Lines, r, lost) => Covers(Kept(x, W), r, W, r, lost)
  <1>1. x \in Seq(Lines) /\ Rising(x)
    BY DEF Ordered
  <1>2. PICK y : y = Kept(x, W)
    OBVIOUS
  <1>3. y \in Seq(Lines) /\ Rising(y)
    BY <1>1, <1>2, KeptRises
  <1>4. /\ Len(x) \in Nat /\ DOMAIN x = 1..Len(x) /\ Elems(x) = {x[i] : i \in 1..Len(x)}
        /\ \A i \in 1..Len(x) : x[i] \in Nat
    BY <1>1, LineFacts
  <1>5. /\ Len(y) \in Nat /\ DOMAIN y = 1..Len(y) /\ Elems(y) = {y[i] : i \in 1..Len(y)}
        /\ \A i \in 1..Len(y) : y[i] \in Nat
    BY <1>3, LineFacts
  <1>6. /\ \A i \in 1..Len(y) : y[i] \in W /\ \E k \in 1..Len(x) : y[i] = x[k]
        /\ \A k \in 1..Len(x) : x[k] \in W => \E i \in 1..Len(y) : y[i] = x[k]
    <2>1. \A i \in DOMAIN Kept(x, W) : Kept(x, W)[i] \in W /\ \E k \in DOMAIN x : Kept(x, W)[i] = x[k]
      BY <1>1, KeptFacts
    <2>2. \A k \in DOMAIN x : x[k] \in W => \E i \in DOMAIN Kept(x, W) : Kept(x, W)[i] = x[k]
      BY <1>1, KeptFacts
    <2> QED BY <1>2, <1>4, <1>5, <2>1, <2>2
  <1>7. Elems(y) = Elems(x) \cap W
    BY <1>4, <1>5, <1>6
  <1>8. Ordered(y, r)
    <2>1. \A i \in 1..Len(x) : x[i] <= r
      BY DEF Ordered
    <2>2. \A i \in 1..Len(y) : y[i] <= r
      BY <1>6, <2>1
    <2> QED BY <1>3, <2>2 DEF Ordered
  <1>9. ASSUME Covers(x, r, Lines, r, lost), NEW n \in W, n <= r, n \notin lost, n > r \/ (y # <<>> /\ n >= y[1])
        PROVE  n \in Elems(y)
    <2>1. n \in Nat /\ n \in Lines
      BY DEF Lines
    <2>2. y # <<>> /\ n >= y[1]
      BY <1>9, <2>1
    <2>3. 1 \in 1..Len(y)
      BY <1>3, <2>2, LineFacts
    <2>4. PICK k \in 1..Len(x) : y[1] = x[k]
      BY <1>6, <2>3
    <2>5. 1 \in 1..Len(x) /\ (1 < k \/ 1 = k)
      BY <1>4
    <2>6. x[1] <= x[k]
      <3>1. 1 < k => x[1] < x[k]
        BY <1>1, <1>4, <2>5 DEF Rising
      <3>2. x[1] \in Nat /\ x[k] \in Nat
        BY <1>4, <2>5
      <3> QED BY <2>5, <3>1, <3>2
    <2>7. n >= x[1] /\ x # <<>>
      <3>1. x[1] \in Nat /\ x[k] \in Nat /\ y[1] \in Nat
        BY <1>4, <1>5, <2>3, <2>5
      <3>2. n >= x[1]
        BY <2>1, <2>2, <2>4, <2>6, <3>1
      <3>3. x # <<>>
        BY <1>1, <2>5, LineFacts
      <3> QED BY <3>2, <3>3
    <2>8. n \in Elems(x)
      BY <1>9, <2>1, <2>7 DEF Covers
    <2> QED BY <1>7, <2>8
  <1>10. Covers(x, r, Lines, r, lost) => Covers(y, r, W, r, lost)
    BY <1>9 DEF Covers
  <1> QED BY <1>2, <1>6, <1>7, <1>8, <1>10

-----------------------------------------------------------------------------
(* The log file and the ring. *)

\* Lines that follow one another.
LEMMA InARow ==
  ASSUME NEW x \in Seq(Lines), NEW b \in Nat, \A i \in 1..Len(x) : x[i] = b + i
  PROVE  /\ Ordered(x, b + Len(x)) /\ \A i \in 1..Len(x) : b < x[i]
         /\ \A n \in Lines : b < n /\ n <= b + Len(x) => n \in Elems(x)
         /\ \A lost : Covers(x, b + Len(x), Lines, b + Len(x), lost)
  <1>1. Len(x) \in Nat /\ DOMAIN x = 1..Len(x) /\ Elems(x) = {x[i] : i \in 1..Len(x)} /\ (x # <<>> => 1 \in 1..Len(x))
    BY LineFacts
  <1>2. Ordered(x, b + Len(x))
    <2>1. \A i \in 1..Len(x) : x[i] <= b + Len(x)
      BY <1>1
    <2>2. Rising(x)
      BY <1>1 DEF Rising
    <2> QED BY <2>1, <2>2 DEF Ordered
  <1>3. ASSUME NEW n \in Lines, b < n, n <= b + Len(x) PROVE n \in Elems(x)
    <2>1. n - b \in 1..Len(x) /\ b + (n - b) = n
      BY <1>1, <1>3 DEF Lines
    <2> QED BY <1>1, <2>1
  <1>4. ASSUME NEW lost PROVE Covers(x, b + Len(x), Lines, b + Len(x), lost)
    <2>1. ASSUME NEW n \in Lines, n <= b + Len(x), n > b + Len(x) \/ (x # <<>> /\ n >= x[1])
          PROVE  n \in Elems(x)
      <3>1. n \in Nat
        BY DEF Lines
      <3>2. x # <<>> /\ n >= x[1] /\ x[1] = b + 1
        BY <1>1, <2>1, <3>1
      <3>3. b < n
        BY <3>1, <3>2
      <3> QED BY <1>3, <2>1, <3>3
    <2> QED BY <2>1 DEF Covers
  <1> QED BY <1>1, <1>2, <1>3, <1>4

LEMMA LogFacts ==
  ASSUME NEW l, LogOK(l)
  PROVE  /\ ReadOf(l) \in Nat /\ ReadOf(l) <= l.n /\ l.n \in Nat /\ Len(l.file) \in Nat /\ l.off \in Nat
         /\ l.n - Len(l.file) \in Nat
         /\ l.moved => ReadOf(l) = l.n - Len(l.file)
         /\ ~l.moved => ReadOf(l) = (l.n - Len(l.file)) + l.off /\ l.off \in 0..Len(l.file)
  <1>1. Len(l.file) \in Nat
    BY LineFacts DEF LogOK
  <1>2. PICK len \in Nat : len = Len(l.file)
    BY <1>1
  <1>3. l.n \in Nat /\ l.off \in Nat /\ l.moved \in BOOLEAN /\ len <= l.n /\ (~l.moved => l.off <= len)
    BY <1>2 DEF LogOK
  <1>4. CASE l.moved
    <2>1. ReadOf(l) = l.n - len
      BY <1>2, <1>4 DEF ReadOf
    <2> QED BY <1>2, <1>3, <1>4, <2>1
  <1>5. CASE ~l.moved
    <2>1. ReadOf(l) = l.n - (len - l.off)
      BY <1>2, <1>5 DEF ReadOf
    <2>2. l.off <= len /\ l.n - (len - l.off) = (l.n - len) + l.off /\ l.n - len \in Nat
      BY <1>3, <1>5
    <2> QED BY <1>2, <1>3, <1>5, <2>1, <2>2
  <1> QED BY <1>3, <1>4, <1>5

\* What is still to be read of the file.
FreshOf(l) == IF l.moved THEN l.file ELSE Drop(l.file, l.off)

LEMMA FreshFacts ==
  ASSUME NEW l, LogOK(l)
  PROVE  /\ FreshOf(l) \in Seq(Lines) /\ Ordered(FreshOf(l), l.n)
         /\ \A i \in 1..Len(FreshOf(l)) : ReadOf(l) < FreshOf(l)[i]
         /\ \A n \in Lines : ReadOf(l) < n /\ n <= l.n => n \in Elems(FreshOf(l))
  <1>1. /\ l.file \in Seq(Lines) /\ l.n \in Nat /\ Len(l.file) \in Nat /\ l.n - Len(l.file) \in Nat
        /\ \A i \in 1..Len(l.file) : l.file[i] = (l.n - Len(l.file)) + i
    BY LogFacts DEF LogOK
  <1>2. \E b \in Nat : b = ReadOf(l)
    BY LogFacts
  <1>7. PICK b \in Nat : b = ReadOf(l)
    BY <1>2
  <1>8. PICK x : x = FreshOf(l)
    OBVIOUS
  <1>3. x \in Seq(Lines) /\ b + Len(x) = l.n /\ \A i \in 1..Len(x) : x[i] = b + i
    <2>1. CASE l.moved
      <3>1. x = l.file /\ b = l.n - Len(l.file)
        BY <1>7, <1>8, <2>1, LogFacts DEF FreshOf
      <3> QED BY <1>1, <3>1
    <2>2. CASE ~l.moved
      <3>1. /\ x = Drop(l.file, l.off) /\ l.off \in 0..Len(l.file) /\ l.off \in Nat
            /\ b = (l.n - Len(l.file)) + l.off
        BY <1>7, <1>8, <2>2, LogFacts DEF FreshOf
      <3>2. /\ Drop(l.file, l.off) \in Seq(Lines) /\ Len(Drop(l.file, l.off)) = Len(l.file) - l.off
            /\ \A i \in 1..(Len(l.file) - l.off) : Drop(l.file, l.off)[i] = l.file[l.off + i]
        BY <1>1, <3>1, DropFacts
      <3>3. b + Len(x) = l.n
        <4>1. PICK len \in Nat : len = Len(l.file)
          BY <1>1
        <4>2. PICK off \in Nat : off = l.off
          BY <3>1
        <4>3. PICK m \in Nat : m = l.n
          BY <1>1
        <4>4. b = (m - len) + off /\ Len(x) = len - off
          BY <3>1, <3>2, <4>1, <4>2, <4>3
        <4>5. ((m - len) + off) + (len - off) = m
          BY <4>1, <4>2, <4>3
        <4> QED BY <4>3, <4>4, <4>5
      <3>4. ASSUME NEW i \in 1..Len(x) PROVE x[i] = b + i
        <4>1. x[i] = l.file[l.off + i] /\ l.off + i \in 1..Len(l.file)
          <5>1. l.off + i \in 1..Len(l.file) /\ i \in 1..(Len(l.file) - l.off)
            <6>1. PICK off \in Nat : off = l.off
              BY <3>1
            <6>2. PICK len \in Nat : len = Len(l.file)
              BY <1>1
            <6>3. i \in 1..(len - off) /\ off <= len
              BY <3>1, <3>2, <6>1, <6>2
            <6>4. off + i \in 1..len
              BY <6>1, <6>2, <6>3
            <6> QED BY <6>1, <6>2, <6>3, <6>4
          <5> QED BY <3>1, <3>2, <5>1
        <4>2. l.file[l.off + i] = (l.n - Len(l.file)) + (l.off + i)
          BY <1>1, <4>1
        <4> QED BY <1>1, <3>1, <4>1, <4>2
      <3> QED BY <3>1, <3>2, <3>3, <3>4
    <2> QED BY <2>1, <2>2 DEF LogOK
  <1>4. Ordered(x, b + Len(x))
    BY <1>3, InARow
  <1>5. \A i \in 1..Len(x) : b < x[i]
    BY <1>3, InARow
  <1>6. \A n \in Lines : b < n /\ n <= b + Len(x) => n \in Elems(x)
    BY <1>3, InARow
  <1> QED BY <1>7, <1>8, <1>3, <1>4, <1>5, <1>6

\* The log is as a step leaves it: more is read, or lost.
Advances(l, l2) == LogOK(l2) /\ ReadOf(l) <= ReadOf(l2) /\ l.lost \subseteq l2.lost

LEMMA WrittenLog ==
  ASSUME LogOK(log), WriteLine
  PROVE  /\ LogOK(log') /\ ReadOf(log') = ReadOf(log) /\ log'.lost = log.lost /\ log'.ring = log.ring
  <1>1. /\ DOMAIN log = LogFields /\ log.file \in Seq(Lines) /\ log.n \in Nat /\ Len(log.file) \in Nat
        /\ log.off \in Nat /\ log.moved \in BOOLEAN /\ Len(log.file) <= log.n /\ (~log.moved => log.off <= Len(log.file))
        /\ log.ring \in Seq(Lines)
        /\ \A i \in 1..Len(log.file) : log.file[i] = (log.n - Len(log.file)) + i
    BY LogFacts DEF LogOK
  <1>2. PICK m \in Lines : m = log.n + 1
    BY <1>1 DEF Lines
  <1>3. log' = [log EXCEPT !.n = m, !.file = Append(log.file, m)]
    BY <1>1, <1>2 DEF WriteLine, LogFields
  <1>4. /\ DOMAIN log' = LogFields /\ log'.n = m /\ log'.file = Append(log.file, m) /\ log'.off = log.off
        /\ log'.moved = log.moved /\ log'.ring = log.ring /\ log'.lost = log.lost
    BY <1>1, <1>3 DEF LogFields
  <1>5. PICK f \in Seq(Lines) : f = Append(log.file, m)
    BY <1>1, AppendFacts
  <1>6. Len(f) = Len(log.file) + 1 /\ \A i \in 1..Len(log.file) : f[i] = log.file[i]
    BY <1>1, <1>5, AppendProperties
  <1>7. f[Len(log.file) + 1] = m
    BY <1>1, <1>5, AppendProperties
  <1>8. ASSUME NEW i \in 1..Len(f) PROVE f[i] = (m - Len(f)) + i
    <2>1. CASE i = Len(log.file) + 1
      BY <1>1, <1>2, <1>6, <1>7, <2>1
    <2>2. CASE i # Len(log.file) + 1
      <3>1. i \in 1..Len(log.file) /\ f[i] = log.file[i] /\ log.file[i] = (log.n - Len(log.file)) + i
        BY <1>1, <1>6, <2>2
      <3> QED BY <1>1, <1>2, <1>6, <3>1
    <2> QED BY <2>1, <2>2
  <1>9. LogOK(log')
    <2>1. m \in Nat /\ Len(f) <= m /\ (~log.moved => log.off <= Len(f))
      BY <1>1, <1>2, <1>6
    <2> QED BY <1>1, <1>4, <1>5, <1>8, <2>1 DEF LogOK
  <1>10. ReadOf(log') = ReadOf(log)
    <2>1. log'.n - Len(log'.file) = log.n - Len(log.file) /\ log'.moved = log.moved /\ log'.off = log.off
      BY <1>1, <1>2, <1>4, <1>5, <1>6
    <2>2. CASE log.moved
      BY <2>1, <2>2 DEF ReadOf
    <2>3. CASE ~log.moved
      <3>1. ReadOf(log) = (log.n - Len(log.file)) + log.off
        BY <2>3, LogFacts
      <3>2. ReadOf(log') = (log'.n - Len(log'.file)) + log'.off
        BY <1>9, <2>1, <2>3, LogFacts
      <3> QED BY <2>1, <3>1, <3>2
    <2> QED BY <2>2, <2>3
  <1> QED BY <1>4, <1>9, <1>10

\* Whatever was not read of the old file is lost.
LEMMA RotatedLog ==
  ASSUME LogOK(log), Rotate
  PROVE  /\ Advances(log, log') /\ log'.ring = log.ring
         /\ \A n \in Lines : ReadOf(log) < n /\ n <= ReadOf(log') => n \in log'.lost
  <1>1. /\ DOMAIN log = LogFields /\ log.file \in Seq(Lines) /\ log.n \in Nat /\ Len(log.file) \in Nat
        /\ log.off \in Nat /\ log.moved \in BOOLEAN /\ Len(log.file) <= log.n /\ (~log.moved => log.off <= Len(log.file))
        /\ log.ring \in Seq(Lines)
        /\ \A i \in 1..Len(log.file) : log.file[i] = (log.n - Len(log.file)) + i
    BY LogFacts DEF LogOK
  <1> DEFINE gone == {log.file[i] : i \in (IF log.moved THEN 1 ELSE log.off + 1)..Len(log.file)}
  <1>2. /\ DOMAIN log' = LogFields /\ log'.n = log.n /\ log'.file = <<>> /\ log'.off = log.off
        /\ log'.moved = TRUE /\ log'.ring = log.ring /\ log'.lost = log.lost \cup gone
    BY <1>1 DEF Rotate, LogFields
  <1>3. <<>> \in Seq(Lines) /\ Len(<<>>) = 0
    OBVIOUS
  <1>4. LogOK(log')
    <2>1. Len(log'.file) <= log'.n /\ \A i \in 1..Len(log'.file) : log'.file[i] = (log'.n - Len(log'.file)) + i
      BY <1>1, <1>2, <1>3
    <2>2. log'.file \in Seq(Lines)
      BY <1>2, <1>3
    <2> QED BY <1>1, <1>2, <2>1, <2>2 DEF LogOK
  <1>5. ReadOf(log') = log.n
    BY <1>1, <1>2, <1>3 DEF ReadOf
  <1>6. ASSUME NEW n \in Lines, ReadOf(log) < n, n <= log.n PROVE n \in gone
    <2>1. n \in Nat
      BY DEF Lines
    <2>5. log.n - Len(log.file) <= ReadOf(log) /\ ReadOf(log) \in Nat /\ log.n - Len(log.file) \in Nat
      <3>1. /\ ReadOf(log) \in Nat /\ log.n - Len(log.file) \in Nat
            /\ log.moved => ReadOf(log) = log.n - Len(log.file)
            /\ ~log.moved => ReadOf(log) = (log.n - Len(log.file)) + log.off
        BY LogFacts
      <3> QED BY <1>1, <3>1
    <2>7. PICK i \in 1..Len(log.file) : n = (log.n - Len(log.file)) + i
      <3>1. n - (log.n - Len(log.file)) \in 1..Len(log.file)
        <4>1. PICK b \in Nat, len \in Nat : b = log.n - Len(log.file) /\ len = Len(log.file)
          BY <1>1, <2>5
        <4>2. b < n /\ n <= b + len
          BY <1>1, <1>6, <2>1, <2>5, <4>1
        <4> QED BY <2>1, <4>1, <4>2
      <3> QED BY <1>1, <2>1, <3>1
    <2>2. i \in 1..Len(log.file) /\ n = (log.n - Len(log.file)) + i
      BY <2>7
    <2>3. log.file[i] = n
      BY <1>1, <2>2
    <2>4. ~log.moved => i >= log.off + 1
      <3>1. SUFFICES ASSUME ~log.moved PROVE i >= log.off + 1
        OBVIOUS
      <3>2. PICK b \in Nat : b = log.n - Len(log.file)
        BY <2>5
      <3>3. ReadOf(log) = b + log.off
        BY <3>1, <3>2, LogFacts
      <3>4. b + log.off < b + i
        BY <1>6, <2>7, <3>2, <3>3
      <3> QED BY <1>1, <2>7, <3>4
    <2>6. i \in (IF log.moved THEN 1 ELSE log.off + 1)..Len(log.file)
      BY <1>1, <2>2, <2>4
    <2> QED BY <2>3, <2>6
  <1> HIDE DEF gone
  <1>7. ReadOf(log) <= ReadOf(log')
    BY <1>5, LogFacts
  <1> QED BY <1>2, <1>4, <1>5, <1>6, <1>7 DEF Advances

\* The ring takes what is fresh, and drops its oldest lines.
LEMMA PolledLog ==
  ASSUME LogOK(log), RingOK(log),
         log' = [log EXCEPT !.off = Len(log.file), !.moved = FALSE, !.ring = Newest(log.ring \o FreshOf(log), RingSize)]
  PROVE  Advances(log, log') /\ ReadOf(log') = log.n /\ log'.lost = log.lost /\ RingOK(log')
  <1>1. /\ DOMAIN log = LogFields /\ log.file \in Seq(Lines) /\ log.n \in Nat /\ Len(log.file) \in Nat
        /\ log.moved \in BOOLEAN /\ Len(log.file) <= log.n
        /\ log.ring \in Seq(Lines)
        /\ \A i \in 1..Len(log.file) : log.file[i] = (log.n - Len(log.file)) + i
    BY LogFacts DEF LogOK
  <1>2. PICK ring : ring = Newest(log.ring \o FreshOf(log), RingSize)
    OBVIOUS
  <1>3. /\ DOMAIN log' = LogFields /\ log'.file = log.file /\ log'.n = log.n /\ log'.off = Len(log.file)
        /\ log'.moved = FALSE /\ log'.lost = log.lost /\ log'.ring = ring
    BY <1>1, <1>2 DEF LogFields
  <1>4. PICK r \in Nat : r = ReadOf(log)
    BY LogFacts
  <1>20. PICK m \in Nat : m = log.n
    BY <1>1
  <1>21. PICK len \in Nat : len = Len(log.file)
    BY <1>1
  <1>5. r <= m /\ r \in Int /\ m \in Int
    <2>1. ReadOf(log) <= log.n
      BY LogFacts
    <2> QED BY <1>4, <1>20, <2>1
  <1>6. PICK fresh \in Seq(Lines) : fresh = FreshOf(log)
    BY FreshFacts
  <1>7. /\ Ordered(fresh, m)
        /\ \A i \in 1..Len(fresh) : r < fresh[i]
        /\ \A n \in Lines : r < n /\ n <= m => n \in Elems(fresh)
    BY <1>4, <1>6, <1>20, FreshFacts
  <1>8. Ordered(log.ring, r) /\ Covers(log.ring, r, Lines, r, log.lost)
    BY <1>4 DEF RingOK
  <1>9. PICK all : all = log.ring \o fresh
    OBVIOUS
  <1>10. Ordered(all, m)
    BY <1>5, <1>7, <1>8, <1>9, OrderedConcat
  <1>11. Covers(all, r, Lines, m, log.lost)
    <2>1. Lines \in SUBSET Lines /\ \A n \in Lines : r < n /\ n <= m /\ n \notin log.lost => n \in Elems(fresh)
      BY <1>7
    <2> QED BY <1>5, <1>7, <1>8, <1>9, <2>1, CoversConcat
  <1>12. Covers(all, m, Lines, m, log.lost)
    <2>1. ASSUME NEW n \in Lines, n <= m, n > m \/ (all # <<>> /\ n >= all[1]), n \notin log.lost
          PROVE  n \in Elems(all)
      <3>1. n \in Nat
        BY DEF Lines
      <3>2. all # <<>> /\ n >= all[1]
        BY <1>20, <2>1, <3>1
      <3> QED BY <1>11, <2>1, <3>2 DEF Covers
    <2> QED BY <2>1 DEF Covers
  <1>13. Ordered(ring, m) /\ Covers(ring, m, Lines, m, log.lost)
    <2>1. RingSize \in Nat \ {0} /\ Lines \in SUBSET Lines /\ m \in Int
      BY <1>5, SizesPositive
    <2>2. ring = Newest(all, RingSize)
      BY <1>2, <1>6, <1>9
    <2>3. Ordered(Newest(all, RingSize), m)
      BY <1>10, <2>1, NewestKeeps
    <2>4. Covers(Newest(all, RingSize), m, Lines, m, log.lost)
      BY <1>10, <1>12, <2>1, NewestKeeps
    <2> QED BY <2>2, <2>3, <2>4
  <1>14. LogOK(log')
    <2>1. ring \in Seq(Lines)
      BY <1>13 DEF Ordered
    <2>2. DOMAIN log' = LogFields /\ Len(log.file) \in Nat /\ FALSE \in BOOLEAN
      BY <1>1, <1>3
    <2> QED BY <1>1, <1>3, <2>1, <2>2 DEF LogOK
  <1>15. ReadOf(log') = m
    <2>1. ReadOf(log') = m - (len - len)
      BY <1>3, <1>20, <1>21 DEF ReadOf
    <2> QED BY <1>20, <1>21, <2>1
  <1>16. RingOK(log')
    BY <1>3, <1>13, <1>15 DEF RingOK
  <1> QED BY <1>3, <1>4, <1>5, <1>14, <1>15, <1>16, <1>20 DEF Advances

\* The ring a follower starts with.
LEMMA SeededLog ==
  ASSUME LogOK(log)
  PROVE  LogOK(Seeded) /\ RingOK(Seeded)
  <1>1. /\ DOMAIN log = LogFields /\ log.file \in Seq(Lines) /\ log.n \in Nat /\ Len(log.file) \in Nat
        /\ Len(log.file) <= log.n
        /\ \A i \in 1..Len(log.file) : log.file[i] = (log.n - Len(log.file)) + i
    BY LogFacts DEF LogOK
  <1>2. PICK ring : ring = Newest(log.file, RingSize)
    OBVIOUS
  <1>3. PICK l : l = Seeded
    OBVIOUS
  <1>4. /\ DOMAIN l = LogFields /\ l.file = log.file /\ l.n = log.n /\ l.off = Len(log.file)
        /\ l.moved = FALSE /\ l.lost = log.lost /\ l.ring = ring
    BY <1>1, <1>2, <1>3 DEF Seeded, LogFields
  <1>5. PICK b \in Nat : b = log.n - Len(log.file)
    BY LogFacts
  <1>20. PICK m \in Nat : m = log.n
    BY <1>1
  <1>21. PICK len \in Nat : len = Len(log.file)
    BY <1>1
  <1>6. b + len = m /\ \A i \in 1..Len(log.file) : log.file[i] = b + i
    <2>1. b = m - len
      BY <1>5, <1>20, <1>21
    <2> QED BY <1>1, <1>5, <1>20, <1>21, <2>1
  <1>7. Ordered(log.file, m)
    BY <1>1, <1>6, <1>21, InARow
  <1>8. Covers(log.file, m, Lines, m, log.lost)
    BY <1>1, <1>6, <1>21, InARow
  <1>9. Ordered(ring, m) /\ Covers(ring, m, Lines, m, log.lost)
    <2>1. RingSize \in Nat \ {0} /\ Lines \in SUBSET Lines /\ m \in Int
      BY <1>20, SizesPositive
    <2>2. Ordered(Newest(log.file, RingSize), m)
      BY <1>7, <2>1, NewestKeeps
    <2>3. Covers(Newest(log.file, RingSize), m, Lines, m, log.lost)
      BY <1>7, <1>8, <2>1, NewestKeeps
    <2> QED BY <1>2, <2>2, <2>3
  <1>10. LogOK(l)
    <2>1. ring \in Seq(Lines)
      BY <1>9 DEF Ordered
    <2>2. DOMAIN l = LogFields /\ Len(log.file) \in Nat /\ FALSE \in BOOLEAN
      BY <1>1, <1>4
    <2>3. l.file \in Seq(Lines) /\ Len(l.file) <= l.n /\ l.off \in Nat /\ l.n \in Nat /\ l.moved \in BOOLEAN
      BY <1>1, <1>4
    <2>4. \A i \in 1..Len(l.file) : l.file[i] = (l.n - Len(l.file)) + i
      BY <1>1, <1>4
    <2>5. l.off <= Len(l.file) /\ l.ring \in Seq(Lines)
      BY <1>4, <2>1, <2>2
    <2> QED BY <2>2, <2>3, <2>4, <2>5 DEF LogOK
  <1>11. ReadOf(l) = m
    <2>1. ReadOf(l) = m - (len - len)
      BY <1>4, <1>20, <1>21 DEF ReadOf
    <2> QED BY <1>20, <1>21, <2>1
  <1>12. RingOK(l)
    BY <1>4, <1>9, <1>11 DEF RingOK
  <1> QED BY <1>3, <1>10, <1>12

-----------------------------------------------------------------------------
(* What a phone got or is to get. *)

LEMMA KeptLines ==
  ASSUME NEW q \in Seq(Signals)
  PROVE  Kept(q, Lines) \in Seq(Lines)
  <1>1. PICK k : k = Kept(q, Lines)
    OBVIOUS
  <1>2. k \in Seq(Signals)
    BY <1>1, KeptFacts
  <1>3. \A i \in DOMAIN k : k[i] \in Lines
    <2>1. \A i \in DOMAIN Kept(q, Lines) : Kept(q, Lines)[i] \in Lines /\ \E j \in DOMAIN q : Kept(q, Lines)[i] = q[j]
      BY KeptFacts
    <2> QED BY <1>1, <2>1
  <1>4. Len(k) \in Nat /\ DOMAIN k = 1..Len(k) /\ k = [i \in 1..Len(k) |-> k[i]]
    BY <1>2, LenProperties
  <1>5. k \in [1..Len(k) -> Lines]
    BY <1>3, <1>4
  <1>6. k \in Seq(Lines)
    <2>1. PICK n \in Nat : n = Len(k)
      BY <1>4
    <2>2. k \in [1..n -> Lines]
      BY <1>5, <2>1
    <2> QED BY <2>1, <2>2, SeqDef
  <1> QED BY <1>1, <1>6

LEMMA LinesJoined ==
  ASSUME NEW a \in Seq(Signals), NEW b \in Seq(Signals)
  PROVE  Kept(a \o b, Lines) = Kept(a, Lines) \o Kept(b, Lines)
  BY KeptConcat

LEMMA QueueSplit ==
  ASSUME NEW x \in Seq(Signals), NEW d \in 0..Len(x)
  PROVE  \E a \in Seq(Signals), b \in Seq(Signals) : b = Drop(x, d) /\ x = a \o b
  <1>1. Drop(x, d) \in Seq(Signals) /\ SubSeq(x, 1, d) \in Seq(Signals)
    BY SplitAt
  <1>2. x = SubSeq(x, 1, d) \o Drop(x, d)
    BY SplitAt
  <1> QED BY <1>1, <1>2

LEMMA LinesAssociate ==
  ASSUME NEW a \in Seq(Lines), NEW b \in Seq(Lines), NEW c \in Seq(Lines)
  PROVE  (a \o b) \o c = a \o (b \o c)
  BY ConcatAssociative

LEMMA SentFacts ==
  ASSUME NEW s, StreamOK(s)
  PROVE  /\ s.got \o s.back \in Seq(Lines) /\ Kept(s.q, Lines) \in Seq(Lines) /\ Sent(s) \in Seq(Lines)
         /\ Sent(s) = (s.got \o s.back) \o Kept(s.q, Lines)
  <1>1. s.got \in Seq(Lines) /\ s.back \in Seq(Lines) /\ s.q \in Seq(Signals)
    BY DEF StreamOK
  <1>2. PICK p \in Seq(Lines) : p = s.got \o s.back
    BY <1>1, ConcatFacts
  <1>3. PICK k \in Seq(Lines) : k = Kept(s.q, Lines)
    BY <1>1, KeptLines
  <1>4. p \o k \in Seq(Lines)
    BY <1>2, <1>3, ConcatFacts
  <1> QED BY <1>2, <1>3, <1>4 DEF Sent

\* The same of a stream and of what it becomes.
Alike(s, s2) == s2.want = s.want /\ s2.from = s.from /\ s2.spilt = s.spilt

LEMMA MeetsStill ==
  ASSUME NEW s, NEW s2, NEW l, Meets(s, l), Alike(s, s2), Sent(s2) = Sent(s)
  PROVE  Meets(s2, l)
  BY DEF Meets, Alike

\* The fresh lines that a phone wants reach it.
LEMMA MeetsMore ==
  ASSUME NEW l, NEW l2, LogOK(l), Advances(l, l2), NEW s, StreamOK(s), Meets(s, l), NEW s2, Alike(s, s2),
         NEW w, Ordered(w, ReadOf(l2)), \A i \in 1..Len(w) : ReadOf(l) < w[i],
         \A n \in Above(s.want) : ReadOf(l) < n /\ n <= ReadOf(l2) /\ n \notin l2.lost => n \in Elems(w),
         Sent(s2) = Sent(s) \o w
  PROVE  Meets(s2, l2)
  <1>1. PICK r \in Nat : r = ReadOf(l)
    BY LogFacts
  <1>2. PICK r2 \in Nat : r2 = ReadOf(l2)
    BY LogFacts DEF Advances
  <1>3. r <= r2 /\ l.lost \subseteq l2.lost /\ r \in Int /\ r2 \in Int
    BY <1>1, <1>2 DEF Advances
  <1>4. PICK x : x = Sent(s)
    OBVIOUS
  <1>5. Ordered(x, r) /\ s.from <= r /\ (s.spilt \/ Covers(x, s.from, Above(s.want), r, l.lost))
    BY <1>1, <1>4 DEF Meets
  <1>6. w \in Seq(Lines) /\ Ordered(w, r2) /\ \A i \in 1..Len(w) : r < w[i]
    BY <1>1, <1>2 DEF Ordered
  <1>7. Ordered(x \o w, r2)
    BY <1>3, <1>5, <1>6, OrderedConcat
  <1>8. PICK W : W = Above(s.want)
    OBVIOUS
  <1>9. W \in SUBSET Lines
    BY <1>8 DEF Above
  <1>10. \A n \in W : r < n /\ n <= r2 /\ n \notin l2.lost => n \in Elems(w)
    BY <1>1, <1>2, <1>8
  <1>11. Covers(x, s.from, W, r, l.lost) => Covers(x \o w, s.from, W, r2, l2.lost)
    BY <1>3, <1>5, <1>6, <1>9, <1>10, CoversConcat
  <1>12. s.from <= r2
    BY <1>1, <1>2, <1>3, <1>5 DEF StreamOK
  <1> QED BY <1>2, <1>4, <1>5, <1>7, <1>8, <1>11, <1>12 DEF Meets, Alike

\* Nothing but the queue changes when events are put, and what was in it is cut at its start.
LEMMA EnqueueFacts ==
  ASSUME NEW s, StreamOK(s), s.st \notin {"none", "opened", "refused"}, NEW events \in Seq(Signals), NEW s2, s2 = Enqueue(s, events)
  PROVE  /\ StreamOK(s2) /\ s2.got = s.got /\ s2.back = s.back /\ s2.want = s.want /\ s2.from = s.from
         /\ s2.logged = s.logged /\ s2.subbed = s.subbed
         /\ s.q \o events \in Seq(Signals)
         /\ \E d \in 0..Len(s.q \o events) :
              /\ s2.q = Drop(s.q \o events, d)
              /\ d = 0 => s2.q = s.q \o events /\ s2.spilt = s.spilt
              /\ d # 0 => s2.spilt
  <1>1. /\ DOMAIN s = StreamFields /\ s.got \in Seq(Lines) /\ s.back \in Seq(Lines) /\ s.q \in Seq(Signals)
        /\ s.want \in Nat /\ s.from \in Nat /\ s.subbed \in BOOLEAN /\ s.logged \in BOOLEAN /\ s.spilt \in BOOLEAN
        /\ s.st \in {"check", "get"} => s.back = <<>>
    BY DEF StreamOK
  <1>2. PICK all \in Seq(Signals) : all = s.q \o events
    BY <1>1, ConcatFacts
  <1>3. Len(all) = Len(s.q) + Len(events) /\ Len(all) \in Nat /\ Len(s.q) \in Nat /\ Len(events) \in Nat
    BY <1>1, <1>2, LenProperties
  <1>4. PICK q : q = Newest(all, QueueSize)
    OBVIOUS
  <1>5. PICK spilt \in BOOLEAN : spilt <=> (s.spilt \/ Len(s.q) + Len(events) > QueueSize)
    OBVIOUS
  <1>6. s2 = [s EXCEPT !.q = q, !.spilt = s.spilt \/ Len(s.q) + Len(events) > QueueSize]
    BY <1>1, <1>2, <1>4 DEF Enqueue, StreamFields
  <1>7. s2 = [s EXCEPT !.q = q, !.spilt = spilt]
    <2>1. spilt = (s.spilt \/ Len(s.q) + Len(events) > QueueSize)
      BY <1>1, <1>5
    <2> QED BY <1>6, <2>1
  <1>8. /\ DOMAIN s2 = StreamFields /\ s2.q = q /\ s2.spilt = spilt /\ s2.got = s.got /\ s2.back = s.back
        /\ s2.want = s.want /\ s2.from = s.from /\ s2.logged = s.logged /\ s2.subbed = s.subbed /\ s2.st = s.st
    BY <1>1, <1>7 DEF StreamFields
  <1>9. PICK d \in 0..Len(all) : q = Drop(all, d) /\ (d # 0 <=> Len(all) > QueueSize) /\ (d = 0 => q = all)
    BY <1>2, <1>4, SizesPositive, NewestFacts
  <1>10. Drop(all, d) \in Seq(Signals)
    BY <1>2, <1>9, DropFacts
  <1>11. StreamOK(s2)
    BY <1>1, <1>5, <1>8, <1>9, <1>10 DEF StreamOK
  <1>12. (d = 0 => s2.q = all /\ s2.spilt = s.spilt) /\ (d # 0 => s2.spilt)
    <2>1. CASE d = 0
      <3>1. ~ (Len(s.q) + Len(events) > QueueSize)
        BY <1>3, <1>9, <2>1
      <3> QED BY <1>1, <1>5, <1>8, <1>9, <2>1, <3>1
    <2>2. CASE d # 0
      <3>1. Len(s.q) + Len(events) > QueueSize
        BY <1>3, <1>9, <2>2
      <3> QED BY <1>5, <1>8, <2>2, <3>1
    <2> QED BY <2>1, <2>2
  <1> QED BY <1>2, <1>8, <1>9, <1>11, <1>12

LEMMA MeetsEnqueued ==
  ASSUME NEW l, NEW l2, LogOK(l), Advances(l, l2), NEW s, StreamOK(s), s.st \notin {"none", "opened", "refused"}, Meets(s, l),
         NEW events \in Seq(Signals), NEW w, w = Kept(events, Lines), Ordered(w, ReadOf(l2)),
         \A i \in 1..Len(w) : ReadOf(l) < w[i],
         \A n \in Above(s.want) : ReadOf(l) < n /\ n <= ReadOf(l2) /\ n \notin l2.lost => n \in Elems(w)
  PROVE  Meets(Enqueue(s, events), l2)
  <1>1. PICK s2 : s2 = Enqueue(s, events)
    OBVIOUS
  <1>2. /\ StreamOK(s2) /\ s2.got = s.got /\ s2.back = s.back /\ s2.want = s.want /\ s2.from = s.from
        /\ s.q \o events \in Seq(Signals)
    BY <1>1, EnqueueFacts
  <1>3. PICK all \in Seq(Signals) : all = s.q \o events
    BY <1>2
  <1>4. PICK d \in 0..Len(all) :
          /\ s2.q = Drop(all, d)
          /\ d = 0 => s2.q = all /\ s2.spilt = s.spilt
          /\ d # 0 => s2.spilt
    <2>1. \E d \in 0..Len(s.q \o events) :
            /\ s2.q = Drop(s.q \o events, d)
            /\ d = 0 => s2.q = s.q \o events /\ s2.spilt = s.spilt
            /\ d # 0 => s2.spilt
      BY <1>1, EnqueueFacts
    <2> QED BY <1>3, <2>1
  <1>5. PICK p \in Seq(Lines) : p = s.got \o s.back
    BY SentFacts
  <1>6. PICK k \in Seq(Lines) : k = Kept(s.q, Lines)
    BY SentFacts
  <1>7. Sent(s) = p \o k /\ w \in Seq(Lines) /\ s.q \in Seq(Signals)
    BY <1>5, <1>6, SentFacts DEF Ordered, StreamOK
  <1>8. Kept(all, Lines) = k \o w
    <2>1. Kept(s.q \o events, Lines) = Kept(s.q, Lines) \o Kept(events, Lines)
      BY <1>7, LinesJoined
    <2> QED BY <1>3, <1>6, <2>1
  <1>9. (p \o k) \o w = p \o (k \o w)
    <2>1. p \in Seq(Lines) /\ k \in Seq(Lines) /\ w \in Seq(Lines)
      BY <1>5, <1>6, <1>7
    <2> QED BY <2>1, LinesAssociate
  <1>10. Sent(s2) = p \o Kept(s2.q, Lines)
    BY <1>2, <1>5, SentFacts
  <1>11. CASE d = 0
    <2>1. Sent(s2) = Sent(s) \o w
      BY <1>4, <1>7, <1>8, <1>9, <1>10, <1>11
    <2>2. Alike(s, s2)
      BY <1>2, <1>4, <1>11 DEF Alike
    <2>3. Meets(s2, l2)
      BY <2>1, <2>2, MeetsMore
    <2> QED BY <1>1, <2>3
  <1>12. CASE d # 0
    <2>1. PICK r \in Int : r = ReadOf(l) /\ r \in Nat
      BY LogFacts
    <2>2. PICK r2 \in Int : r2 = ReadOf(l2) /\ r2 \in Nat
      BY LogFacts DEF Advances
    <2>3. r <= r2 /\ s.from <= r /\ Ordered(Sent(s), r) /\ s.from \in Nat
      BY <2>1, <2>2 DEF Advances, Meets, StreamOK
    <2>4. Ordered(Sent(s) \o w, r2)
      BY <2>1, <2>2, <2>3, OrderedConcat
    <2>5. PICK a \in Seq(Signals), b \in Seq(Signals) : b = Drop(all, d) /\ all = a \o b
      BY <1>3, <1>4, QueueSplit
    <2>6. PICK ka \in Seq(Lines) : ka = Kept(a, Lines)
      BY <2>5, KeptLines
    <2>7. PICK kb \in Seq(Lines) : kb = Kept(b, Lines)
      BY <2>5, KeptLines
    <2>8. Kept(all, Lines) = ka \o kb
      <3>1. a \in Seq(Signals) /\ b \in Seq(Signals)
        BY <2>5
      <3>2. Kept(a \o b, Lines) = Kept(a, Lines) \o Kept(b, Lines)
        BY <3>1, LinesJoined
      <3> QED BY <2>5, <2>6, <2>7, <3>2
    <2>9. Ordered(p \o (ka \o kb), r2)
      BY <1>7, <1>8, <1>9, <2>4, <2>8
    <2>10. Ordered(p \o kb, r2)
      BY <1>5, <2>2, <2>6, <2>7, <2>9, MiddleCut
    <2>11. Ordered(Sent(s2), r2)
      BY <1>4, <1>10, <2>5, <2>7, <2>10
    <2>12. s2.from <= r2 /\ s2.spilt
      BY <1>2, <1>4, <1>12, <2>1, <2>2, <2>3
    <2>13. Meets(s2, l2)
      BY <2>2, <2>11, <2>12 DEF Meets
    <2> QED BY <1>1, <2>13
  <1> QED BY <1>11, <1>12

-----------------------------------------------------------------------------
(* The lines: each action keeps the invariant. *)

LEMMA LinesBegin == MobileInit => LinesInv
  <1> SUFFICES ASSUME MobileInit PROVE LinesInv
    OBVIOUS
  <1>1. /\ log = [file |-> <<>>, off |-> 0, moved |-> FALSE, ring |-> <<>>, n |-> 0, lost |-> {}] /\ follows = FALSE
        /\ stream = [d \in Devices |-> NoStream]
    BY DEF MobileInit
  <1>2. <<>> \in Seq(Lines) /\ <<>> \in Seq(Signals) /\ Len(<<>>) = 0
    OBVIOUS
  <1>3. LogOK(log)
    BY <1>1, <1>2 DEF LogOK, LogFields
  <1>4. StreamOK(NoStream) /\ ~NoStream.subbed
    BY <1>2 DEF StreamOK, NoStream, StreamFields
  <1>5. \A d \in Devices : KeepsUp(stream[d], log, follows)
    BY <1>1, <1>4 DEF KeepsUp
  <1> QED BY <1>1, <1>3, <1>5 DEF LinesInv

LEMMA LinesStandStill ==
  ASSUME LinesInv, log' = log, follows' = follows, stream' = stream
  PROVE  LinesInv'
  BY DEF LinesInv

\* A step that neither reads nor writes the log.
LEMMA LinesStream ==
  ASSUME LinesInv, log' = log, follows' = follows, DOMAIN stream' = Devices,
         \A d \in Devices : KeepsUp(stream'[d], log, follows)
  PROVE  LinesInv'
  BY DEF LinesInv

LEMMA LinesOneStream ==
  ASSUME LinesInv, log' = log, follows' = follows, NEW d \in Devices, NEW s, KeepsUp(s, log, follows),
         stream' = [stream EXCEPT ![d] = s]
  PROVE  LinesInv'
  <1>1. DOMAIN stream' = Devices /\ stream'[d] = s /\ \A e \in Devices \ {d} : stream'[e] = stream[e]
    BY DEF LinesInv
  <1>2. ASSUME NEW e \in Devices PROVE KeepsUp(stream'[e], log, follows)
    BY <1>1 DEF LinesInv
  <1> QED BY <1>1, <1>2, LinesStream

LEMMA KeepsUpFacts ==
  ASSUME LinesInv, NEW d \in Devices
  PROVE  /\ StreamOK(stream[d]) /\ KeepsUp(stream[d], log, follows) /\ DOMAIN stream[d] = StreamFields
         /\ stream[d].subbed => stream[d].st \notin {"none", "opened", "refused"}
  BY DEF LinesInv, KeepsUp, StreamOK

LEMMA KeepsUpOut ==
  ASSUME NEW s, StreamOK(s), ~s.subbed, NEW l, NEW f
  PROVE  KeepsUp(s, l, f)
  BY DEF KeepsUp

LEMMA KeepsUpStill ==
  ASSUME NEW s, NEW s2, NEW l, NEW f, KeepsUp(s, l, f), StreamOK(s2), Alike(s, s2), Sent(s2) = Sent(s),
         s2.logged = s.logged, s2.subbed => s.subbed
  PROVE  KeepsUp(s2, l, f)
  BY MeetsStill DEF KeepsUp

\* A phone that is told nothing of the log is told all the same.
LEMMA EnqueueKeepsUp ==
  ASSUME LinesInv, NEW d \in Devices, stream[d].subbed, NEW e \in {Data, Revoked}
  PROVE  KeepsUp(Enqueue(stream[d], <<e>>), log, follows)
  <1>1. PICK s : s = stream[d]
    OBVIOUS
  <1>2. StreamOK(s) /\ KeepsUp(s, log, follows) /\ s.subbed /\ s.st \notin {"none", "opened", "refused"}
    BY <1>1, KeepsUpFacts
  <1>3. PICK events \in Seq(Signals) : events = <<e>>
    <2>1. e \in Signals
      BY DEF Signals
    <2>2. <<e>> \in Seq(Signals)
      BY <2>1
    <2> QED BY <2>2
  <1>4. Kept(events, Lines) = <<>>
    <2>1. /\ e \in Signals /\ e \notin Lines /\ <<>> \in Seq(Signals) /\ Append(<<>>, e) = <<e>>
          /\ Kept(<<>>, Lines) = <<>>
      BY NoneKept DEF Signals, Lines, Data, Revoked
    <2>2. Kept(Append(<<>>, e), Lines) = Kept(<<>>, Lines)
      BY <2>1, KeptAppend
    <2> QED BY <1>3, <2>1, <2>2
  <1>5. PICK s2 : s2 = Enqueue(s, events)
    OBVIOUS
  <1>6. StreamOK(s2) /\ s2.logged = s.logged /\ s2.subbed = s.subbed
    <2>1. StreamOK(s2)
      BY <1>2, <1>3, <1>5, EnqueueFacts
    <2>2. s2.logged = s.logged
      <3>1. s2 = [s EXCEPT !.q = Newest(s.q \o events, QueueSize), !.spilt = s.spilt \/ Len(s.q) + Len(events) > QueueSize]
        BY <1>2, <1>5 DEF Enqueue, StreamOK, StreamFields
      <3> QED BY <1>2, <3>1 DEF StreamOK, StreamFields
    <2>3. s2.subbed = s.subbed
      BY <1>2, <1>3, <1>5, EnqueueFacts
    <2> QED BY <2>1, <2>2, <2>3
  <1>7. ASSUME s.logged PROVE follows /\ Meets(s2, log)
    <2>1. follows /\ Meets(s, log) /\ LogOK(log)
      BY <1>2, <1>7 DEF KeepsUp, LinesInv
    <2>2. PICK r \in Nat : r = ReadOf(log)
      BY <2>1, LogFacts
    <2>3. Advances(log, log)
      BY <2>1, <2>2 DEF Advances
    <2>4. Ordered(<<>>, ReadOf(log))
      BY NoneOrdered
    <2>5. \A i \in 1..Len(<<>>) : ReadOf(log) < (<<>>)[i]
      OBVIOUS
    <2>6. \A n \in Above(s.want) : ~ (ReadOf(log) < n /\ n <= ReadOf(log))
      BY <2>2 DEF Above, Lines
    <2>7. PICK w : w = Kept(events, Lines) /\ w = <<>>
      BY <1>4
    <2>8. Meets(Enqueue(s, events), log)
      BY <1>2, <1>3, <2>1, <2>3, <2>4, <2>5, <2>6, <2>7, MeetsEnqueued
    <2> QED BY <1>5, <2>1, <2>8
  <1> QED BY <1>1, <1>3, <1>5, <1>6, <1>7 DEF KeepsUp

\* A subscriber that is forgotten.
LEMMA ForgottenKeepsUp ==
  ASSUME LinesInv, NEW d \in Devices, NEW l, NEW f
  PROVE  KeepsUp([stream[d] EXCEPT !.subbed = FALSE], l, f)
  <1>1. PICK s : s = stream[d]
    OBVIOUS
  <1>2. PICK s2 : s2 = [s EXCEPT !.subbed = FALSE]
    OBVIOUS
  <1>3. StreamOK(s)
    BY <1>1, KeepsUpFacts
  <1>4. StreamOK(s2) /\ ~s2.subbed
    BY <1>2, <1>3 DEF StreamOK, StreamFields
  <1> QED BY <1>1, <1>2, <1>4, KeepsUpOut

LEMMA NotifiedKeepsUp ==
  ASSUME LinesInv, NEW ss, NEW e \in {Data, Revoked}, NEW d \in Devices
  PROVE  KeepsUp(Notified(ss, e)[d], log, follows)
  <1>1. Notified(ss, e)[d] \in {stream[d], Enqueue(stream[d], <<e>>), [stream[d] EXCEPT !.subbed = FALSE]}
    BY DEF Notified
  <1>2. Notified(ss, e)[d] = Enqueue(stream[d], <<e>>) /\ ~stream[d].subbed => Notified(ss, e)[d] = stream[d]
    BY DEF Notified
  <1>3. CASE Notified(ss, e)[d] = stream[d]
    BY <1>3, KeepsUpFacts
  <1>4. CASE Notified(ss, e)[d] = Enqueue(stream[d], <<e>>) /\ stream[d].subbed
    BY <1>4, EnqueueKeepsUp
  <1>5. CASE Notified(ss, e)[d] = [stream[d] EXCEPT !.subbed = FALSE]
    BY <1>5, ForgottenKeepsUp
  <1> QED BY <1>1, <1>2, <1>3, <1>4, <1>5

LEMMA RecordEventLines ==
  ASSUME LinesInv, RecordEvent
  PROVE  LinesInv'
  <1>1. stream' = Notified(sessions, Data) /\ log' = log /\ follows' = follows
    BY DEF RecordEvent
  <1>2. DOMAIN stream' = Devices
    BY <1>1 DEF Notified
  <1>3. \A d \in Devices : KeepsUp(stream'[d], log, follows)
    BY <1>1, NotifiedKeepsUp
  <1> QED BY <1>1, <1>2, <1>3, LinesStream

LEMMA RevokeSessionLines ==
  ASSUME LinesInv, NEW t, RevokeSession(t)
  PROVE  LinesInv'
  <1>1. /\ stream' = [d \in Devices |-> IF stream[d].subbed /\ stream[d].tok = t
                                        THEN Enqueue(stream[d], <<Revoked>>) ELSE stream[d]]
        /\ log' = log /\ follows' = follows
    BY DEF RevokeSession
  <1>2. DOMAIN stream' = Devices
    BY <1>1
  <1>3. ASSUME NEW d \in Devices PROVE KeepsUp(stream'[d], log, follows)
    <2>1. CASE stream'[d] = stream[d]
      BY <2>1, KeepsUpFacts
    <2>2. CASE stream[d].subbed /\ stream'[d] = Enqueue(stream[d], <<Revoked>>)
      BY <2>2, EnqueueKeepsUp
    <2> QED BY <1>1, <2>1, <2>2
  <1> QED BY <1>1, <1>2, <1>3, LinesStream

\* stop() forgets every subscriber: none of their sessions is left.
LEMMA StopListenerLines ==
  ASSUME LinesInv, \A t \in DOMAIN sessions : "revoked" \in DOMAIN sessions[t], StopListener, log' = log
  PROVE  LinesInv'
  <1>1. PICK ss : ss = [t \in DOMAIN sessions |-> [sessions[t] EXCEPT !.revoked = TRUE]]
    OBVIOUS
  <1>2. stream' = Notified(ss, Revoked) /\ follows' = FALSE
    BY <1>1 DEF StopListener
  <1>3. \A t \in DOMAIN ss : ss[t].revoked
    BY <1>1
  <1>4. DOMAIN stream' = Devices
    BY <1>2 DEF Notified
  <1>5. ASSUME NEW d \in Devices PROVE KeepsUp(stream'[d], log', follows')
    <2>1. CASE ~stream[d].subbed
      <3>1. stream'[d] = stream[d]
        BY <1>2, <2>1 DEF Notified
      <3> QED BY <2>1, <3>1, KeepsUpFacts, KeepsUpOut
    <2>2. CASE stream[d].subbed
      <3>1. Wants(stream[d], Revoked)
        BY DEF Wants, Revoked, Lines
      <3>2. stream'[d] = [stream[d] EXCEPT !.subbed = FALSE]
        BY <1>2, <1>3, <2>2, <3>1 DEF Notified
      <3> QED BY <3>2, ForgottenKeepsUp
    <2> QED BY <2>1, <2>2
  <1> QED BY <1>2, <1>4, <1>5 DEF LinesInv

\* A stream that only moves on.
LEMMA StageKeepsUp ==
  ASSUME LinesInv, NEW d \in Devices, NEW st, st \notin {"none", "opened", "refused"}, stream[d].st \notin {"none", "opened", "refused"},
         st \in {"check", "get"} => stream[d].back = <<>>
  PROVE  KeepsUp([stream[d] EXCEPT !.st = st], log, follows)
  <1>1. PICK s : s = stream[d]
    OBVIOUS
  <1>2. PICK s2 : s2 = [s EXCEPT !.st = st]
    OBVIOUS
  <1>3. StreamOK(s) /\ KeepsUp(s, log, follows)
    BY <1>1, KeepsUpFacts
  <1>4. /\ DOMAIN s2 = StreamFields /\ s2.st = st /\ s2.got = s.got /\ s2.back = s.back /\ s2.q = s.q /\ s2.want = s.want
        /\ s2.from = s.from /\ s2.subbed = s.subbed /\ s2.logged = s.logged /\ s2.spilt = s.spilt
    BY <1>2, <1>3 DEF StreamOK, StreamFields
  <1>5. StreamOK(s2)
    BY <1>1, <1>3, <1>4 DEF StreamOK
  <1>6. Alike(s, s2) /\ Sent(s2) = Sent(s)
    BY <1>4 DEF Alike, Sent
  <1>7. KeepsUp(s2, log, follows)
    BY <1>3, <1>4, <1>5, <1>6, KeepsUpStill
  <1> QED BY <1>1, <1>2, <1>7

LEMMA StreamChecksLines ==
  ASSUME LinesInv, NEW d \in Devices, StreamChecks(d)
  PROVE  LinesInv'
  <1>1. log' = log /\ follows' = follows /\ stream[d].st = "check" /\ stream[d].back = <<>>
    BY KeepsUpFacts DEF StreamChecks, StreamOK
  <1>2. PICK st \in {"get", "leave"} : stream' = [stream EXCEPT ![d] = [stream[d] EXCEPT !.st = st]]
    <2>1. PICK st : st = IF MayGo(d) THEN "get" ELSE "leave"
      OBVIOUS
    <2>2. stream' = [stream EXCEPT ![d] = [stream[d] EXCEPT !.st = st]]
      BY <2>1 DEF StreamChecks, LinesInv
    <2> QED BY <2>1, <2>2
  <1>3. KeepsUp([stream[d] EXCEPT !.st = st], log, follows)
    BY <1>1, <1>2, StageKeepsUp
  <1> QED BY <1>1, <1>2, <1>3, LinesOneStream

LEMMA PhoneLeavesLines ==
  ASSUME LinesInv, NEW d \in Devices, PhoneLeaves(d)
  PROVE  LinesInv'
  <1>1. log' = log /\ follows' = follows /\ stream[d].st \in {"back", "check", "get"}
    BY DEF PhoneLeaves
  <1>2. stream' = [stream EXCEPT ![d] = [stream[d] EXCEPT !.st = "leave"]]
    BY DEF PhoneLeaves, LinesInv
  <1>3. KeepsUp([stream[d] EXCEPT !.st = "leave"], log, follows)
    BY <1>1, StageKeepsUp
  <1> QED BY <1>1, <1>2, <1>3, LinesOneStream

\* A token says nothing of the lines.
LEMMA VerifyLines ==
  ASSUME LinesInv, NEW d \in Devices, NEW p, NEW right, Verify(d, p, right)
  PROVE  LinesInv'
  <1>1. log' = log /\ follows' = follows /\ stream[d].st = "none"
    BY DEF Verify
  <1>2. CASE stream' = stream
    BY <1>1, <1>2, LinesStandStill
  <1>3. CASE stream' = [stream EXCEPT ![d].tok = p]
    <2>1. PICK s : s = stream[d]
      OBVIOUS
    <2>2. PICK s2 : s2 = [s EXCEPT !.tok = p]
      OBVIOUS
    <2>3. stream' = [stream EXCEPT ![d] = s2]
      BY <1>3, <2>1, <2>2 DEF LinesInv
    <2>4. StreamOK(s) /\ s.st = "none"
      BY <1>1, <2>1, KeepsUpFacts
    <2>5. StreamOK(s2) /\ ~s2.subbed
      BY <2>2, <2>4 DEF StreamOK, StreamFields
    <2>6. KeepsUp(s2, log, follows)
      BY <2>5, KeepsUpOut
    <2> QED BY <1>1, <2>3, <2>6, LinesOneStream
  <1> QED BY <1>2, <1>3 DEF Verify

\* A stream that is new or forgotten.
LEMMA NewStream ==
  ASSUME NEW s, DOMAIN s = StreamFields, s.got = <<>>, s.back = <<>>, s.q = <<>>, s.want \in Nat, s.from \in Nat,
         s.subbed = FALSE, s.logged = FALSE, s.spilt = FALSE, NEW l, NEW f
  PROVE  KeepsUp(s, l, f)
  <1>1. <<>> \in Seq(Lines) /\ <<>> \in Seq(Signals)
    OBVIOUS
  <1>2. StreamOK(s) /\ ~s.subbed
    BY <1>1 DEF StreamOK
  <1> QED BY <1>2, KeepsUpOut

LEMMA OpenStreamLines ==
  ASSUME LinesInv, NEW d \in Devices, NEW want \in 0..2, OpenStream(d, want)
  PROVE  LinesInv'
  <1>1. PICK s2 : s2 = [NoStream EXCEPT !.st = "opened", !.tok = stream[d].tok, !.want = want]
    OBVIOUS
  <1>2. log' = log /\ follows' = follows /\ stream' = [stream EXCEPT ![d] = s2]
    BY <1>1 DEF OpenStream
  <1>3. /\ DOMAIN s2 = StreamFields /\ s2.got = <<>> /\ s2.back = <<>> /\ s2.q = <<>> /\ s2.want \in Nat /\ s2.from \in Nat
        /\ s2.subbed = FALSE /\ s2.logged = FALSE /\ s2.spilt = FALSE
    BY <1>1 DEF NoStream, StreamFields
  <1>4. KeepsUp(s2, log, follows)
    BY <1>3, NewStream
  <1> QED BY <1>2, <1>4, LinesOneStream

LEMMA RefusalEndsLines ==
  ASSUME LinesInv, NEW d \in Devices, RefusalEnds(d)
  PROVE  LinesInv'
  <1>1. log' = log /\ follows' = follows /\ stream' = [stream EXCEPT ![d] = NoStream]
    BY DEF RefusalEnds
  <1>2. KeepsUp(NoStream, log, follows)
    BY NewStream DEF NoStream, StreamFields
  <1> QED BY <1>1, <1>2, LinesOneStream

\* The follower stays while another phone wants the log.
LEMMA StreamEndsLines ==
  ASSUME LinesInv, NEW d \in Devices, StreamEnds(d)
  PROVE  LinesInv'
  <1>1. PICK s2 : s2 = [NoStream EXCEPT !.tok = stream[d].tok]
    OBVIOUS
  <1>2. /\ log' = log /\ stream' = [stream EXCEPT ![d] = s2]
        /\ follows' = (follows /\ \E e \in Devices \ {d} : stream[e].logged)
    BY <1>1 DEF StreamEnds
  <1>3. /\ DOMAIN s2 = StreamFields /\ s2.got = <<>> /\ s2.back = <<>> /\ s2.q = <<>> /\ s2.want \in Nat /\ s2.from \in Nat
        /\ s2.subbed = FALSE /\ s2.logged = FALSE /\ s2.spilt = FALSE
    BY <1>1 DEF NoStream, StreamFields
  <1>4. DOMAIN stream' = Devices /\ stream'[d] = s2 /\ \A e \in Devices \ {d} : stream'[e] = stream[e]
    BY <1>2 DEF LinesInv
  <1>5. ASSUME NEW e \in Devices PROVE KeepsUp(stream'[e], log, follows')
    <2>1. CASE e = d
      BY <1>3, <1>4, <2>1, NewStream
    <2>2. CASE e # d
      <3>1. stream'[e] = stream[e] /\ KeepsUp(stream[e], log, follows)
        BY <1>4, <2>2, KeepsUpFacts
      <3>2. stream[e].logged /\ follows => follows'
        BY <1>2, <2>2
      <3> QED BY <3>1, <3>2 DEF KeepsUp
    <2> QED BY <2>1, <2>2
  <1>6. follows' \in BOOLEAN /\ (follows' => follows)
    BY <1>2
  <1> QED BY <1>2, <1>4, <1>5, <1>6 DEF LinesInv

\* From the backlog to the phone.
LEMMA YieldBacklogLines ==
  ASSUME LinesInv, NEW d \in Devices, YieldBacklog(d)
  PROVE  LinesInv'
  <1>1. log' = log /\ follows' = follows /\ stream[d].st = "back"
    BY DEF YieldBacklog
  <1>2. CASE stream[d].back = <<>>
    <2>1. stream' = [stream EXCEPT ![d] = [stream[d] EXCEPT !.st = "check"]]
      BY <1>2 DEF YieldBacklog, LinesInv
    <2>2. KeepsUp([stream[d] EXCEPT !.st = "check"], log, follows)
      BY <1>1, <1>2, StageKeepsUp
    <2> QED BY <1>1, <2>1, <2>2, LinesOneStream
  <1>3. CASE stream[d].back # <<>>
    <2>1. PICK s : s = stream[d]
      OBVIOUS
    <2>2. PICK got : got = Append(s.got, Head(s.back))
      OBVIOUS
    <2>3. PICK back : back = Tail(s.back)
      OBVIOUS
    <2>4. PICK s2 : s2 = [s EXCEPT !.got = got, !.back = back]
      OBVIOUS
    <2>5. stream' = [stream EXCEPT ![d] = s2]
      BY <1>3, <2>1, <2>2, <2>3, <2>4 DEF YieldBacklog, LinesInv
    <2>6. StreamOK(s) /\ KeepsUp(s, log, follows) /\ s.st = "back" /\ s.back # <<>>
      BY <1>1, <1>3, <2>1, KeepsUpFacts
    <2>7. s.got \in Seq(Lines) /\ s.back \in Seq(Lines)
      BY <2>6 DEF StreamOK
    <2>8. Head(s.back) \in Lines /\ back \in Seq(Lines)
      BY <2>3, <2>6, <2>7, HeadFirst
    <2>9. got \in Seq(Lines)
      BY <2>2, <2>7, <2>8, AppendFacts
    <2>10. got \o back = s.got \o s.back
      BY <2>2, <2>3, <2>6, <2>7, HeadMoves
    <2>11. /\ DOMAIN s2 = StreamFields /\ s2.st = s.st /\ s2.got = got /\ s2.back = back /\ s2.q = s.q /\ s2.want = s.want
           /\ s2.from = s.from /\ s2.subbed = s.subbed /\ s2.logged = s.logged /\ s2.spilt = s.spilt
      BY <2>4, <2>6 DEF StreamOK, StreamFields
    <2>12. StreamOK(s2)
      BY <2>6, <2>8, <2>9, <2>11 DEF StreamOK
    <2>13. Alike(s, s2) /\ Sent(s2) = Sent(s)
      <3>1. Sent(s2) = (got \o back) \o Kept(s.q, Lines)
        BY <2>11, <2>12, SentFacts
      <3>2. Sent(s) = (s.got \o s.back) \o Kept(s.q, Lines)
        BY <2>6, SentFacts
      <3> QED BY <2>10, <2>11, <3>1, <3>2 DEF Alike
    <2>14. KeepsUp(s2, log, follows)
      BY <2>6, <2>11, <2>12, <2>13, KeepsUpStill
    <2> QED BY <1>1, <2>5, <2>14, LinesOneStream
  <1> QED BY <1>2, <1>3

\* From the queue to the phone.
LEMMA StreamYieldsLines ==
  ASSUME LinesInv, NEW d \in Devices, StreamYields(d)
  PROVE  LinesInv'
  <1>1. log' = log /\ follows' = follows /\ stream[d].st = "get"
    BY DEF StreamYields
  <1>2. PICK s : s = stream[d]
    OBVIOUS
  <1>3. StreamOK(s) /\ KeepsUp(s, log, follows) /\ s.st = "get" /\ s.back = <<>>
    BY <1>1, <1>2, KeepsUpFacts DEF StreamOK
  <1>4. CASE s.q = <<>>
    <2>1. stream' = [stream EXCEPT ![d] = [stream[d] EXCEPT !.st = "check"]]
      BY <1>2, <1>4 DEF StreamYields
    <2>2. KeepsUp([stream[d] EXCEPT !.st = "check"], log, follows)
      BY <1>1, <1>2, <1>3, StageKeepsUp
    <2> QED BY <1>1, <2>1, <2>2, LinesOneStream
  <1>5. CASE s.q # <<>>
    <2>1. PICK e : e = Head(s.q)
      OBVIOUS
    <2>2. PICK q : q = Tail(s.q)
      OBVIOUS
    <2>3. PICK s2 : s2 = [Got(s, e) EXCEPT !.q = q, !.st = "check"]
      OBVIOUS
    <2>4. stream' = [stream EXCEPT ![d] = s2]
      BY <1>2, <1>5, <2>1, <2>2, <2>3 DEF StreamYields
    <2>5. PICK got : got = IF e \in Lines THEN Append(s.got, e) ELSE s.got
      OBVIOUS
    <2>6. DOMAIN s = StreamFields /\ s.got \in Seq(Lines) /\ s.q \in Seq(Signals)
      BY <1>3 DEF StreamOK
    <2>7. /\ DOMAIN s2 = StreamFields /\ s2.st = "check" /\ s2.got = got /\ s2.back = s.back /\ s2.q = q /\ s2.want = s.want
          /\ s2.from = s.from /\ s2.subbed = s.subbed /\ s2.logged = s.logged /\ s2.spilt = s.spilt
      BY <2>3, <2>5, <2>6 DEF Got, StreamFields
    <2>8. q \in Seq(Signals)
      BY <1>5, <2>2, <2>6, KeptTail
    <2>9. got \in Seq(Lines)
      BY <2>5, <2>6, AppendFacts
    <2>10. StreamOK(s2)
      BY <1>3, <2>7, <2>8, <2>9 DEF StreamOK
    <2>11. Sent(s2) = Sent(s)
      <3>1. PICK k \in Seq(Lines) : k = Kept(q, Lines)
        BY <2>8, KeptLines
      <3>2. PICK all \in Seq(Lines) : all = Kept(s.q, Lines)
        BY <2>6, KeptLines
      <3>3. Sent(s2) = (got \o <<>>) \o k /\ Sent(s) = (s.got \o <<>>) \o all
        BY <1>3, <2>7, <2>10, <3>1, <3>2, SentFacts
      <3>4. got \o <<>> = got /\ s.got \o <<>> = s.got
        BY <2>6, <2>9, ConcatEmptySeq
      <3>5. CASE e \in Lines
        <4>1. all = <<e>> \o k
          <5>1. Head(s.q) \in Lines => Kept(s.q, Lines) = <<Head(s.q)>> \o Kept(Tail(s.q), Lines)
            BY <1>5, <2>6, KeptTail
          <5> QED BY <2>1, <2>2, <3>1, <3>2, <3>5, <5>1
        <4>2. got = Append(s.got, e)
          BY <2>5, <3>5
        <4>3. Append(s.got, e) \o k = s.got \o (<<e>> \o k)
          <5>1. <<e>> \in Seq(Lines) /\ Append(s.got, e) = s.got \o <<e>>
            BY <2>6, <3>5, AppendIsConcat
          <5>2. (s.got \o <<e>>) \o k = s.got \o (<<e>> \o k)
            <6>1. PICK g \in Seq(Lines) : g = s.got
              BY <2>6
            <6>2. PICK one \in Seq(Lines) : one = <<e>>
              BY <5>1
            <6>3. k \in Seq(Lines)
              BY <3>1
            <6>4. (g \o one) \o k = g \o (one \o k)
              BY <6>1, <6>2, <6>3, LinesAssociate
            <6> QED BY <6>1, <6>2, <6>4
          <5> QED BY <5>1, <5>2
        <4> QED BY <3>3, <3>4, <4>1, <4>2, <4>3
      <3>6. CASE e \notin Lines
        <4>1. all = k
          <5>1. Head(s.q) \notin Lines => Kept(s.q, Lines) = Kept(Tail(s.q), Lines)
            BY <1>5, <2>6, KeptTail
          <5> QED BY <2>1, <2>2, <3>1, <3>2, <3>6, <5>1
        <4> QED BY <2>5, <3>3, <3>4, <3>6, <4>1
      <3> QED BY <3>5, <3>6
    <2>12. Alike(s, s2)
      BY <2>7 DEF Alike
    <2>13. KeepsUp(s2, log, follows)
      BY <1>3, <2>7, <2>10, <2>11, <2>12, KeepsUpStill
    <2> QED BY <1>1, <2>4, <2>13, LinesOneStream
  <1> QED BY <1>4, <1>5

\* Nothing is read: what was passed over is lost.
LEMMA LogMoves ==
  ASSUME LinesInv, Advances(log, log'), log'.ring = log.ring, stream' = stream, follows' = follows,
         \A n \in Lines : ReadOf(log) < n /\ n <= ReadOf(log') => n \in log'.lost
  PROVE  LinesInv'
  <1>1. LogOK(log) /\ LogOK(log') /\ DOMAIN stream = Devices /\ follows \in BOOLEAN
    BY DEF LinesInv, Advances
  <1>2. PICK r \in Nat : r = ReadOf(log)
    BY <1>1, LogFacts
  <1>3. PICK r2 \in Nat : r2 = ReadOf(log')
    BY <1>1, LogFacts
  <1>4. r <= r2 /\ r \in Int /\ r2 \in Int /\ log.lost \subseteq log'.lost
    BY <1>2, <1>3 DEF Advances
  <1>5. <<>> \in Seq(Lines) /\ Ordered(<<>>, r2) /\ \A i \in 1..Len(<<>>) : r < (<<>>)[i]
    BY NoneOrdered
  <1>6. ASSUME follows PROVE RingOK(log')
    <2>1. PICK ring : ring = log.ring
      OBVIOUS
    <2>2. Ordered(ring, r) /\ Covers(ring, r, Lines, r, log.lost) /\ ring \in Seq(Lines)
      BY <1>2, <1>6, <2>1 DEF LinesInv, RingOK, Ordered
    <2>3. ring \o <<>> = ring
      BY <2>2, ConcatEmptySeq
    <2>4. Ordered(ring \o <<>>, r2)
      BY <1>4, <1>5, <2>2, OrderedConcat
    <2>5. Lines \in SUBSET Lines /\ \A n \in Lines : r < n /\ n <= r2 /\ n \notin log'.lost => n \in Elems(<<>>)
      BY <1>2, <1>3
    <2>6. Covers(ring \o <<>>, r, Lines, r2, log'.lost)
      BY <1>4, <1>5, <2>2, <2>5, CoversConcat
    <2>7. Covers(ring, r2, Lines, r2, log'.lost)
      <3>1. ASSUME NEW n \in Lines, n <= r2, n \notin log'.lost, n > r2 \/ (ring # <<>> /\ n >= ring[1])
            PROVE  n \in Elems(ring)
        <4>1. n \in Nat
          BY DEF Lines
        <4>2. ring # <<>> /\ n >= ring[1]
          BY <1>3, <3>1, <4>1
        <4> QED BY <2>3, <2>6, <3>1, <4>2 DEF Covers
      <3> QED BY <3>1 DEF Covers
    <2> QED BY <1>3, <2>1, <2>3, <2>4, <2>7 DEF RingOK
  <1>7. ASSUME NEW d \in Devices PROVE KeepsUp(stream[d], log', follows)
    <2>1. PICK s : s = stream[d]
      OBVIOUS
    <2>2. StreamOK(s) /\ KeepsUp(s, log, follows)
      BY <2>1, KeepsUpFacts
    <2>3. ASSUME s.logged /\ s.subbed PROVE follows /\ Meets(s, log')
      <3>1. follows /\ Meets(s, log) /\ Alike(s, s)
        BY <2>2, <2>3 DEF KeepsUp, Alike
      <3>2. Sent(s) = Sent(s) \o <<>>
        <4>1. Sent(s) \in Seq(Lines)
          BY <2>2, SentFacts
        <4> QED BY <4>1, ConcatEmptySeq
      <3>3. \A n \in Above(s.want) : ReadOf(log) < n /\ n <= ReadOf(log') /\ n \notin log'.lost => n \in Elems(<<>>)
        BY DEF Above
      <3>4. Ordered(<<>>, ReadOf(log')) /\ \A i \in 1..Len(<<>>) : ReadOf(log) < (<<>>)[i]
        BY <1>2, <1>3, <1>5
      <3>5. PICK w : w = <<>>
        OBVIOUS
      <3>6. Meets(s, log')
        BY <1>1, <2>2, <3>1, <3>2, <3>3, <3>4, <3>5, MeetsMore
      <3> QED BY <3>1, <3>6
    <2> QED BY <2>1, <2>2, <2>3 DEF KeepsUp
  <1> QED BY <1>1, <1>6, <1>7 DEF LinesInv

LEMMA WriteLineLines ==
  ASSUME LinesInv, WriteLine
  PROVE  LinesInv'
  <1>1. LogOK(log) /\ stream' = stream /\ follows' = follows
    BY DEF LinesInv, WriteLine
  <1>2. LogOK(log') /\ ReadOf(log') = ReadOf(log) /\ log'.lost = log.lost /\ log'.ring = log.ring
    BY <1>1, WrittenLog
  <1>3. PICK r \in Nat : r = ReadOf(log)
    BY <1>1, LogFacts
  <1>4. Advances(log, log')
    BY <1>2, <1>3 DEF Advances
  <1>5. \A n \in Lines : ~ (ReadOf(log) < n /\ n <= ReadOf(log'))
    BY <1>2, <1>3 DEF Lines
  <1> QED BY <1>1, <1>2, <1>4, <1>5, LogMoves

LEMMA RotateLines ==
  ASSUME LinesInv, Rotate
  PROVE  LinesInv'
  <1>1. LogOK(log) /\ stream' = stream /\ follows' = follows
    BY DEF LinesInv, Rotate
  <1>2. Advances(log, log') /\ log'.ring = log.ring
    BY <1>1, RotatedLog
  <1>3. \A n \in Lines : ReadOf(log) < n /\ n <= ReadOf(log') => n \in log'.lost
    BY <1>1, RotatedLog
  <1> QED BY <1>1, <1>2, <1>3, LogMoves

\* The backlog a stream starts with ends at the last line read.
LEMMA BacklogMeets ==
  ASSUME NEW l, LogOK(l), RingOK(l), NEW s, StreamOK(s), s.got = <<>>, s.q = <<>>, s.from = ReadOf(l),
         s.back = Newest(Kept(l.ring, Above(s.want)), Backlog)
  PROVE  Meets(s, l)
  <1>1. PICK r \in Nat : r = ReadOf(l)
    BY LogFacts
  <1>2. r \in Int /\ Ordered(l.ring, r) /\ Covers(l.ring, r, Lines, r, l.lost)
    BY <1>1 DEF RingOK
  <1>3. PICK W : W = Above(s.want)
    OBVIOUS
  <1>4. W \in SUBSET Lines
    BY <1>3 DEF Above
  <1>5. PICK kept : kept = Kept(l.ring, W)
    OBVIOUS
  <1>6. Ordered(kept, r)
    BY <1>2, <1>4, <1>5, KeptKeeps
  <1>7. Covers(kept, r, W, r, l.lost)
    BY <1>2, <1>4, <1>5, KeptKeeps
  <1>8. PICK back : back = Newest(kept, Backlog)
    OBVIOUS
  <1>9. Ordered(back, r)
    BY <1>2, <1>4, <1>6, <1>8, SizesPositive, NewestKeeps
  <1>10. Covers(back, r, W, r, l.lost)
    BY <1>2, <1>4, <1>6, <1>7, <1>8, SizesPositive, NewestKeeps
  <1>11. Sent(s) = back
    <2>1. Kept(s.q, Lines) = <<>> /\ s.back = back /\ back \in Seq(Lines)
      BY <1>3, <1>5, <1>8, <1>9, NoneKept DEF Ordered
    <2>2. Sent(s) = (<<>> \o back) \o <<>>
      BY <2>1, SentFacts
    <2>3. <<>> \o back = back /\ back \o <<>> = back
      BY <2>1, ConcatEmptySeq
    <2> QED BY <2>2, <2>3
  <1>12. s.from = r /\ s.from <= r
    BY <1>1
  <1> QED BY <1>1, <1>3, <1>9, <1>10, <1>11, <1>12 DEF Meets

LEMMA StreamBeginsLines ==
  ASSUME LinesInv, NEW d \in Devices, StreamBegins(d)
  PROVE  LinesInv'
  <1>1. PICK s : s = stream[d]
    OBVIOUS
  <1>2. /\ StreamOK(s) /\ s.st = "opened" /\ ~s.subbed /\ ~s.spilt /\ s.got = <<>> /\ s.back = <<>> /\ s.q = <<>>
        /\ s.want \in Nat /\ DOMAIN s = StreamFields
    BY <1>1, KeepsUpFacts DEF StreamBegins, StreamOK
  <1>3. CASE ~HasSession(d)
    <2>1. PICK s2 : s2 = [s EXCEPT !.st = "refused"]
      OBVIOUS
    <2>2. log' = log /\ follows' = follows /\ stream' = [stream EXCEPT ![d] = s2]
      BY <1>1, <1>3, <2>1 DEF StreamBegins, LinesInv
    <2>3. StreamOK(s2) /\ ~s2.subbed
      BY <1>2, <2>1 DEF StreamOK, StreamFields
    <2>4. KeepsUp(s2, log, follows)
      BY <2>3, KeepsUpOut
    <2> QED BY <2>2, <2>4, LinesOneStream
  <1>4. CASE HasSession(d)
    <2>1. PICK wanted \in BOOLEAN : wanted = (s.want > 0)
      <3>1. (s.want > 0) \in BOOLEAN
        BY <1>2
      <3> QED BY <3>1, Zenon
    <2>2. PICK l : l = IF wanted /\ ~follows THEN Seeded ELSE log
      OBVIOUS
    <2>3. PICK back : back = IF wanted THEN Newest(Kept(l.ring, Above(s.want)), Backlog) ELSE <<>>
      OBVIOUS
    <2>4. PICK s2 : s2 = [s EXCEPT !.st = "back", !.subbed = TRUE, !.logged = wanted, !.from = ReadOf(l), !.back = back]
      OBVIOUS
    <2>5. log' = l /\ follows' = (follows \/ wanted) /\ stream' = [stream EXCEPT ![d] = s2]
      <3>1. log' = IF s.want > 0 /\ ~follows THEN Seeded ELSE log
        BY <1>1, <1>4 DEF StreamBegins
      <3>2. follows' = (follows \/ s.want > 0)
        BY <1>1, <1>4 DEF StreamBegins
      <3>3. l = IF s.want > 0 /\ ~follows THEN Seeded ELSE log
        BY <2>1, <2>2
      <3>4. stream' = [stream EXCEPT ![d].st = "back", ![d].subbed = TRUE, ![d].logged = (s.want > 0),
                         ![d].from = ReadOf(l),
                         ![d].back = IF s.want > 0 THEN Newest(Kept(l.ring, Above(s.want)), Backlog) ELSE <<>>]
        BY <1>1, <1>4, <3>3 DEF StreamBegins
      <3>5. stream' = [stream EXCEPT ![d] = [s EXCEPT !.st = "back", !.subbed = TRUE, !.logged = (s.want > 0),
                         !.from = ReadOf(l),
                         !.back = IF s.want > 0 THEN Newest(Kept(l.ring, Above(s.want)), Backlog) ELSE <<>>]]
        BY <1>1, <3>4 DEF LinesInv
      <3> QED BY <2>1, <2>3, <2>4, <3>1, <3>2, <3>3, <3>5
    <2>6. LogOK(log) /\ follows \in BOOLEAN /\ (follows => RingOK(log)) /\ DOMAIN stream = Devices
      BY DEF LinesInv
    <2>7. LogOK(l) /\ (wanted \/ follows => RingOK(l))
      BY <2>2, <2>6, SeededLog
    <2>8. /\ DOMAIN s2 = StreamFields /\ s2.st = "back" /\ s2.got = <<>> /\ s2.back = back /\ s2.q = <<>> /\ s2.want = s.want
          /\ s2.from = ReadOf(l) /\ s2.subbed = TRUE /\ s2.logged = wanted /\ s2.spilt = s.spilt
      BY <1>2, <2>4 DEF StreamFields
    <2>9. back \in Seq(Lines)
      <3>1. CASE ~wanted
        BY <2>3, <3>1
      <3>2. CASE wanted
        <4>1. PICK r \in Nat : r = ReadOf(l)
          BY <2>7, LogFacts
        <4>2. Ordered(l.ring, r) /\ r \in Int
          BY <2>7, <3>2, <4>1 DEF RingOK
        <4>3. PICK W \in SUBSET Lines : W = Above(s.want)
          BY DEF Above
        <4>4. PICK kept : kept = Kept(l.ring, W)
          OBVIOUS
        <4>5. Ordered(kept, r)
          BY <4>2, <4>3, <4>4, KeptKeeps
        <4>6. Ordered(Newest(kept, Backlog), r)
          BY <4>2, <4>3, <4>5, SizesPositive, NewestKeeps
        <4> QED BY <2>3, <3>2, <4>3, <4>4, <4>6 DEF Ordered
      <3> QED BY <3>1, <3>2
    <2>10. StreamOK(s2)
      <3>1. ReadOf(l) \in Nat /\ <<>> \in Seq(Lines) /\ <<>> \in Seq(Signals)
        BY <2>7, LogFacts
      <3> QED BY <1>2, <2>1, <2>8, <2>9, <3>1 DEF StreamOK
    <2>11. KeepsUp(s2, l, follows')
      <3>1. ASSUME wanted PROVE follows' /\ Meets(s2, l)
        <4>1. s2.back = Newest(Kept(l.ring, Above(s2.want)), Backlog)
          BY <2>3, <2>8, <3>1
        <4>2. Meets(s2, l)
          BY <2>7, <2>8, <2>10, <3>1, <4>1, BacklogMeets
        <4> QED BY <2>5, <3>1, <4>2
      <3> QED BY <2>8, <2>10, <3>1 DEF KeepsUp
    <2>12. DOMAIN stream' = Devices /\ stream'[d] = s2 /\ \A e \in Devices \ {d} : stream'[e] = stream[e]
      BY <2>5, <2>6
    <2>13. ASSUME NEW e \in Devices PROVE KeepsUp(stream'[e], l, follows')
      <3>1. CASE e = d
        BY <2>11, <2>12, <3>1
      <3>2. CASE e # d
        <4>1. stream'[e] = stream[e] /\ KeepsUp(stream[e], log, follows)
          BY <2>12, <3>2, KeepsUpFacts
        <4>2. CASE follows
          <5>1. l = log /\ follows'
            BY <2>2, <2>5, <4>2
          <5> QED BY <4>1, <4>2, <5>1 DEF KeepsUp
        <4>3. CASE ~follows
          BY <4>1, <4>3 DEF KeepsUp
        <4> QED BY <4>2, <4>3
      <3> QED BY <3>1, <3>2
    <2>14. follows' \in BOOLEAN /\ (follows' => RingOK(l))
      BY <2>5, <2>7
    <2> QED BY <2>5, <2>7, <2>12, <2>13, <2>14 DEF LinesInv
  <1> QED BY <1>3, <1>4

\* The fresh lines a phone wants are put behind what it has.
LEMMA PolledKeepsUp ==
  ASSUME LinesInv, NEW l, Advances(log, l), ReadOf(l) = log.n, follows,
         NEW d \in Devices, stream[d].subbed, stream[d].logged,
         NEW events, events = Kept(FreshOf(log), Above(stream[d].want))
  PROVE  /\ KeepsUp(Enqueue(stream[d], events), l, follows)
         /\ events = <<>> => KeepsUp(stream[d], l, follows)
  <1>1. PICK s : s = stream[d]
    OBVIOUS
  <1>2. /\ StreamOK(s) /\ KeepsUp(s, log, follows) /\ s.st \notin {"none", "opened", "refused"} /\ Meets(s, log)
        /\ s.subbed /\ s.logged /\ LogOK(log)
    BY <1>1, KeepsUpFacts DEF KeepsUp, LinesInv
  <1>3. PICK W : W = Above(s.want)
    OBVIOUS
  <1>4. W \in SUBSET Lines
    BY <1>3 DEF Above
  <1>5. PICK fresh \in Seq(Lines) : fresh = FreshOf(log)
    BY <1>2, FreshFacts
  <1>6. PICK m \in Nat : m = log.n
    BY <1>2, LogFacts
  <1>7. PICK r \in Nat : r = ReadOf(log)
    BY <1>2, LogFacts
  <1>8. Ordered(fresh, m)
    BY <1>2, <1>5, <1>6, FreshFacts
  <1>9. \A i \in 1..Len(fresh) : r < fresh[i]
    BY <1>2, <1>5, <1>7, FreshFacts
  <1>10. \A n \in Lines : r < n /\ n <= m => n \in Elems(fresh)
    BY <1>2, <1>5, <1>6, <1>7, FreshFacts
  <1>11. events = Kept(fresh, W) /\ m \in Int
    BY <1>1, <1>3, <1>5, <1>6
  <1>12. Ordered(events, m) /\ events \in Seq(Lines)
    <2>1. Ordered(Kept(fresh, W), m)
      BY <1>4, <1>8, <1>11, KeptKeeps
    <2> QED BY <1>11, <2>1 DEF Ordered
  <1>13. \A i \in 1..Len(events) : events[i] \in W
    BY <1>4, <1>8, <1>11, KeptKeeps
  <1>14. Elems(events) = Elems(fresh) \cap W
    BY <1>4, <1>8, <1>11, KeptKeeps
  <1>15. \A i \in 1..Len(events) : r < events[i]
    <2>1. ASSUME NEW i \in 1..Len(events) PROVE r < events[i]
      <3>1. events[i] \in Elems(events)
        BY <1>12, LineFacts
      <3>2. PICK k \in 1..Len(fresh) : events[i] = fresh[k]
        BY <1>5, <1>14, <3>1, LineFacts
      <3> QED BY <1>9, <3>2
    <2> QED BY <2>1
  <1>16. events \in Seq(Signals) /\ Kept(events, Lines) = events
    <2>1. \A i \in 1..Len(events) : events[i] \in Signals
      BY <1>12, LineFacts DEF Signals
    <2>2. PICK n \in Nat : n = Len(events)
      BY <1>12, LenProperties
    <2>3. events \in [1..n -> Lines]
      BY <1>12, <2>2, LenProperties
    <2>4. events \in [1..n -> Signals]
      BY <2>1, <2>2, <2>3
    <2>5. events \in Seq(Signals)
      BY <2>2, <2>4, SeqDef
    <2>6. Kept(events, W) = events
      BY <1>5, <1>11, KeptTwice
    <2>7. DOMAIN events = 1..Len(events) /\ \A i \in 1..Len(events) : events[i] \in Lines /\ events[i] \in W
      BY <1>12, <1>13, LineFacts
    <2>8. Kept(events, W) = Kept(events, Lines)
      BY <1>12, <2>7, KeptAgree
    <2> QED BY <2>5, <2>6, <2>8
  <1>17. \A n \in Above(s.want) : ReadOf(log) < n /\ n <= ReadOf(l) /\ n \notin l.lost => n \in Elems(events)
    <2>1. ASSUME NEW n \in W, r < n, n <= m PROVE n \in Elems(events)
      BY <1>4, <1>10, <1>14, <2>1
    <2> QED BY <1>3, <1>6, <1>7, <2>1
  <1>18. Ordered(events, ReadOf(l)) /\ \A i \in 1..Len(events) : ReadOf(log) < events[i]
    BY <1>6, <1>7, <1>12, <1>15
  <1>19. KeepsUp(Enqueue(s, events), l, follows)
    <2>1. Meets(Enqueue(s, events), l)
      BY <1>2, <1>16, <1>17, <1>18, MeetsEnqueued
    <2>2. StreamOK(Enqueue(s, events))
      BY <1>2, <1>16, EnqueueFacts
    <2> QED BY <2>1, <2>2 DEF KeepsUp
  <1>20. ASSUME events = <<>> PROVE KeepsUp(s, l, follows)
    <2>1. Sent(s) = Sent(s) \o events
      <3>1. Sent(s) \in Seq(Lines)
        BY <1>2, SentFacts
      <3> QED BY <1>20, <3>1, ConcatEmptySeq
    <2>2. Alike(s, s)
      BY DEF Alike
    <2>3. Meets(s, l)
      BY <1>2, <1>17, <1>18, <2>1, <2>2, MeetsMore
    <2> QED BY <1>2, <2>3 DEF KeepsUp
  <1> QED BY <1>1, <1>19, <1>20

LEMMA PollLines ==
  ASSUME LinesInv, Poll
  PROVE  LinesInv'
  <1>1. PICK fresh : fresh = FreshOf(log)
    OBVIOUS
  <1>2. follows /\ follows' = follows /\ LogOK(log) /\ RingOK(log) /\ DOMAIN stream = Devices
    BY DEF Poll, LinesInv
  <1>3. log' = [log EXCEPT !.off = Len(log.file), !.moved = FALSE, !.ring = Newest(log.ring \o FreshOf(log), RingSize)]
    BY DEF Poll, FreshOf
  <1>4. Advances(log, log') /\ ReadOf(log') = log.n
    BY <1>2, <1>3, PolledLog
  <1>5. RingOK(log') /\ LogOK(log')
    BY <1>2, <1>3, PolledLog DEF Advances
  <1> DEFINE wanted(s) == IF s.subbed /\ s.logged THEN Kept(fresh, Above(s.want)) ELSE <<>>
  <1>6. stream' = [d \in Devices |->
              IF wanted(stream[d]) = <<>> THEN stream[d]
              ELSE IF stream[d].tok \in DOMAIN sessions /\ ~sessions[stream[d].tok].revoked
                   THEN Enqueue(stream[d], wanted(stream[d])) ELSE [stream[d] EXCEPT !.subbed = FALSE]]
    BY <1>1 DEF Poll, FreshOf
  <1>7. ASSUME NEW d \in Devices PROVE KeepsUp(stream'[d], log', follows)
    <2>1. PICK events : events = wanted(stream[d])
      OBVIOUS
    <2>2. \/ events = <<>> /\ stream'[d] = stream[d]
          \/ events # <<>> /\ stream'[d] = Enqueue(stream[d], events)
          \/ stream'[d] = [stream[d] EXCEPT !.subbed = FALSE]
      BY <1>6, <2>1
    <2>3. CASE stream[d].subbed /\ stream[d].logged
      <3>1. events = Kept(FreshOf(log), Above(stream[d].want))
        BY <1>1, <2>1, <2>3
      <3>2. KeepsUp(Enqueue(stream[d], events), log', follows)
        BY <1>2, <1>4, <2>3, <3>1, PolledKeepsUp
      <3>3. events = <<>> => KeepsUp(stream[d], log', follows)
        BY <1>2, <1>4, <2>3, <3>1, PolledKeepsUp
      <3> QED BY <2>2, <3>2, <3>3, ForgottenKeepsUp
    <2>4. CASE ~(stream[d].subbed /\ stream[d].logged)
      <3>1. events = <<>> /\ KeepsUp(stream[d], log, follows)
        BY <2>1, <2>4, KeepsUpFacts
      <3>2. KeepsUp(stream[d], log', follows)
        BY <2>4, <3>1 DEF KeepsUp
      <3> QED BY <2>2, <3>1, <3>2, ForgottenKeepsUp
    <2> QED BY <2>3, <2>4
  <1>8. DOMAIN stream' = Devices
    BY <1>6
  <1> QED BY <1>2, <1>5, <1>7, <1>8 DEF LinesInv

\* The desktop's calls, pairings and ageing sessions say nothing of the log.
LEMMA DesktopLines ==
  ASSUME MobileInv, LinesInv, NEW o \in Operators,
         \/ OperatorListens(o) \/ OperatorStops(o) \/ CreatePairing(o)
         \/ \E i \in Interfaces, pairing \in BOOLEAN : OperatorStarts(o, i, pairing)
  PROVE  LinesInv'
  <1>1. log' = log
    BY DEF OperatorListens, OperatorStops, CreatePairing, OperatorStarts
  <1>2. CASE StopListener
    <2>1. \A t \in DOMAIN sessions : "revoked" \in DOMAIN sessions[t]
      BY DEF MobileInv, TablesOK, SessionFields
    <2> QED BY <1>1, <1>2, <2>1, StopListenerLines
  <1>3. CASE stream' = stream /\ follows' = follows
    BY <1>1, <1>3, LinesStandStill
  <1>4. StopListener \/ (stream' = stream /\ follows' = follows)
    BY DEF OperatorListens, OperatorStops, CreatePairing, OperatorStarts
  <1> QED BY <1>2, <1>3, <1>4

LEMMA QuietLines ==
  ASSUME LinesInv, \/ \E p \in DOMAIN pairings : PairingExpires(p) \/ Show(p) \/ Approve(p)
                   \/ \E t \in DOMAIN sessions : SessionAges(t)
                   \/ \E d \in Devices, p \in DOMAIN pairings : Knock(d, p)
                   \/ UNCHANGED mobileVars
  PROVE  LinesInv'
  <1>1. log' = log /\ follows' = follows /\ stream' = stream
    BY DEF PairingExpires, Show, Approve, SessionAges, Knock, mobileVars
  <1> QED BY <1>1, LinesStandStill

-----------------------------------------------------------------------------
(* Theorems about the lines. *)

\* The ring and every stream that follows the log keep up with it: through polls, rotations, full queues, listeners that
\* close, and phones that come and go.
THEOREM LinesInductive == MobileSpec => []LinesInv
  <1>1. ASSUME MobileInv, LinesInv, [MobileNext]_mobileVars PROVE LinesInv'
    <2>1. CASE RecordEvent \/ WriteLine \/ Rotate \/ Poll
      BY <1>1, <2>1, RecordEventLines, WriteLineLines, RotateLines, PollLines
    <2>2. ASSUME NEW o \in Operators,
                 \/ OperatorListens(o) \/ OperatorStops(o) \/ CreatePairing(o)
                 \/ \E i \in Interfaces, pairing \in BOOLEAN : OperatorStarts(o, i, pairing)
          PROVE  LinesInv'
      BY <1>1, <2>2, DesktopLines
    <2>3. CASE \/ \E p \in DOMAIN pairings : PairingExpires(p) \/ Show(p) \/ Approve(p)
               \/ \E t \in DOMAIN sessions : SessionAges(t)
               \/ \E d \in Devices, p \in DOMAIN pairings : Knock(d, p)
               \/ UNCHANGED mobileVars
      BY <1>1, <2>3, QuietLines
    <2>4. ASSUME NEW t \in DOMAIN sessions, RevokeSession(t)
          PROVE  LinesInv'
      BY <1>1, <2>4, RevokeSessionLines
    <2>5. ASSUME NEW d \in Devices,
                 \/ StreamBegins(d) \/ RefusalEnds(d) \/ YieldBacklog(d) \/ StreamChecks(d) \/ StreamYields(d)
                 \/ PhoneLeaves(d) \/ StreamEnds(d)
          PROVE  LinesInv'
      BY <1>1, <2>5, StreamBeginsLines, RefusalEndsLines, YieldBacklogLines, StreamChecksLines, StreamYieldsLines,
         PhoneLeavesLines, StreamEndsLines
    <2>6. ASSUME NEW d \in Devices, NEW want \in 0..2, OpenStream(d, want)
          PROVE  LinesInv'
      BY <1>1, <2>6, OpenStreamLines
    <2>7. ASSUME NEW d \in Devices, NEW p \in DOMAIN pairings, NEW right \in BOOLEAN, Verify(d, p, right)
          PROVE  LinesInv'
      BY <1>1, <2>7, VerifyLines
    <2> QED BY <1>1, <2>1, <2>2, <2>3, <2>4, <2>5, <2>6, <2>7 DEF MobileNext
  <1> QED BY <1>1, LinesBegin, MobileInductive, PTL DEF MobileSpec

\* To a phone that wants logs, every line read since it subscribed is on its way once, in order, behind a backlog that
\* leaves no gap: for any phones, queue, ring and backlog sizes, and any number of lines.
THEOREM LinesMeetCorrect == MobileSpec => []LinesMeet
  <1>1. ASSUME LinesInv PROVE LinesMeet
    <2>1. ASSUME NEW d \in Devices, stream[d].logged /\ stream[d].subbed
          PROVE  LET s     == stream[d]
                     lines == Sent(s)
                     Due(n) == Rank(n) >= s.want /\ n \notin log.lost
                 IN  /\ Rising(lines)
                     /\ s.spilt \/ \A n \in (s.from + 1)..ReadOf(log) : Due(n) => n \in Elems(lines)
                     /\ s.spilt \/ lines = <<>> \/ \A n \in lines[1]..s.from : Due(n) => n \in Elems(lines)
      <3>1. PICK s : s = stream[d]
        OBVIOUS
      <3>2. StreamOK(s) /\ Meets(s, log) /\ LogOK(log)
        BY <1>1, <2>1, <3>1 DEF LinesInv, KeepsUp
      <3>3. PICK r \in Nat : r = ReadOf(log)
        BY <3>2, LogFacts
      <3>4. PICK x \in Seq(Lines) : x = Sent(s)
        BY <3>2, SentFacts
      <3>5. Rising(x) /\ s.from <= r /\ s.from \in Nat
        BY <3>2, <3>3, <3>4 DEF Meets, Ordered, StreamOK
      <3>6. ASSUME ~s.spilt, NEW n \in Int, n <= r, Rank(n) >= s.want, n \notin log.lost,
                   (n > s.from /\ n > 0) \/ (x # <<>> /\ n >= x[1])
            PROVE  n \in Elems(x)
        <4>1. n \in Lines
          <5>1. x # <<>> => x[1] \in Nat /\ x[1] > 0
            BY <3>4, LineFacts
          <5> QED BY <3>6, <5>1 DEF Lines
        <4>2. n \in Above(s.want)
          BY <3>6, <4>1 DEF Above
        <4>3. Covers(x, s.from, Above(s.want), r, log.lost)
          BY <3>2, <3>3, <3>4, <3>6 DEF Meets
        <4> QED BY <3>6, <4>2, <4>3 DEF Covers
      <3>7. ASSUME ~s.spilt, NEW n \in (s.from + 1)..r, Rank(n) >= s.want, n \notin log.lost PROVE n \in Elems(x)
        <4>1. n \in Int /\ n <= r /\ n > s.from /\ n > 0
          BY <3>3, <3>5
        <4> QED BY <3>6, <3>7, <4>1
      <3>8. ASSUME ~s.spilt, x # <<>>, NEW n \in x[1]..s.from, Rank(n) >= s.want, n \notin log.lost PROVE n \in Elems(x)
        <4>1. x[1] \in Nat
          BY <3>4, <3>8, LineFacts
        <4>2. n \in Int /\ n <= r /\ n >= x[1]
          BY <3>3, <3>5, <4>1
        <4> QED BY <3>6, <3>8, <4>2
      <3> QED BY <3>1, <3>3, <3>4, <3>5, <3>7, <3>8
    <2> QED BY <2>1 DEF LinesMeet
  <1> QED BY <1>1, LinesInductive, PTL
=============================================================================
