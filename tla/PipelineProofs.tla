--------------------------- MODULE PipelineProofs ---------------------------
(***************************************************************************)
(* Proofs about PacketPipeline, for any number of packets, capture threads *)
(* and jobs, any cache limits, batch size and number of attempts.          *)
(*                                                                         *)
(* The totals are inductive only with the ownership of the packets: what   *)
(* waits is in the cache once, what is taken is in the batch of one job,   *)
(* what is deferred is to be written by one job, and the log knows which   *)
(* packets came through the cache.  The counts of the jobs are a sum over  *)
(* a set, so that part rests on lemmas about sums, proved by induction.    *)
(***************************************************************************)
EXTENDS PacketPipeline, ListProofs

\* s is how t ends.
IsEnd(s, t) ==
  /\ Len(s) <= Len(t)
  /\ \A i \in 1..Len(s) : s[i] = t[Len(t) - Len(s) + i]

\* The cache holds what waits, once each, and the hands what is on its way.
CacheInv ==
  /\ NoDup(items) /\ Elems(items) = With("waiting") /\ hands = With("hand")
  /\ Len(items) <= limit /\ Len(items) <= cached.peak
  /\ closed => items = <<>>
  /\ ~closed => IsEnd(items, log)

\* What a job has of a batch, by where it stands.
JobInv ==
  \A j \in Jobs :
    /\ NoDup(batch[j])
    /\ \A p \in Elems(batch[j]) : fate[p] = "taken"
    /\ \A p \in deferred[j] : fate[p] = "deferred"
    /\ place[j] \in {"more", "evaluate"} <=> batch[j] # <<>>
    /\ place[j] \notin {"evaluate", "flush"} => deferred[j] = {}

\* No packet is two jobs' business.
OwnInv ==
  \A i, j \in Jobs : i # j =>
    Elems(batch[i]) \cap Elems(batch[j]) = {} /\ deferred[i] \cap deferred[j] = {}

\* The ways of a packet through the cache.
LogInv ==
  \A p \in Packets :
    /\ p \in Elems(log) => fate[p] \notin {"new", "hand", "refused", "inline"}
    /\ fate[p] \in {"waiting", "evicted", "discarded", "taken", "deferred"} =>
         p \in Elems(log)

\* What is in the database.
RowInv ==
  \A p \in Packets :
    /\ fate[p] \notin {"stored", "lost"} => rows[p] = 0
    /\ p \in Elems(log) /\ fate[p] = "stored" => rows[p] = 1
    /\ p \in Elems(log) /\ fate[p] = "lost" => rows[p] = 0

\* What the cache has counted, over any number of resets.
TallyInv ==
  /\ cached.accepted + zeroed.accepted = Len(log)
  /\ cached.dropped + zeroed.dropped = Cardinality(With("evicted"))

IInv ==
  /\ TypeOK /\ CacheInv /\ JobInv /\ OwnInv /\ LogInv /\ RowInv /\ TallyInv
  /\ PipelineAddsUp

-----------------------------------------------------------------------------
(* The counts of the jobs. *)

Names == {"processed", "persisted", "errors", "write_errors"}

\* What the jobs of p have counted of n.
JobsTotal(p, n) == MapThenSumSet(LAMBDA j : p[j][n], Jobs)

\* g adds up the counts of n for the sets of jobs in D, one job after another.
SumStep(g, p, n, s) ==
  IF s = {} THEN 0 ELSE p[Pick(s)][n] + g[s \ {Pick(s)}]
Adds(g, p, n, D) == g = [s \in D |-> SumStep(g, p, n, s)]

\* The sets of at most k jobs.
Upto(k) == {s \in SUBSET Jobs : Cardinality(s) <= k}

LEMMA JobSets ==
  /\ IsFiniteSet(Jobs) /\ Cardinality(Jobs) \in Nat
  /\ \A s \in SUBSET Jobs : IsFiniteSet(s) /\ Cardinality(s) \in Nat
  /\ Upto(Cardinality(Jobs)) = SUBSET Jobs /\ Upto(0) = {{}}
  /\ \A s \in SUBSET Jobs : s # {} =>
       /\ Pick(s) \in s /\ s \ {Pick(s)} \in SUBSET Jobs
       /\ Cardinality(s \ {Pick(s)}) = Cardinality(s) - 1
  <1>1. IsFiniteSet(Jobs) /\ Cardinality(Jobs) \in Nat
    BY PipelineAssumption, FS_CardinalityType
  <1>2. ASSUME NEW s \in SUBSET Jobs
        PROVE  /\ IsFiniteSet(s) /\ Cardinality(s) \in Nat
               /\ Cardinality(s) <= Cardinality(Jobs)
               /\ Cardinality(s) = 0 <=> s = {}
    BY <1>1, FS_Subset, FS_CardinalityType, FS_EmptySet
  <1>3. Upto(Cardinality(Jobs)) = SUBSET Jobs
    BY <1>2 DEF Upto
  <1>4. Upto(0) = {{}}
    <2>1. \A s \in Upto(0) : s = {}
      BY <1>2 DEF Upto
    <2>2. {} \in Upto(0)
      BY FS_EmptySet DEF Upto
    <2> QED BY <2>1, <2>2
  <1>5. ASSUME NEW s \in SUBSET Jobs, s # {}
        PROVE  /\ Pick(s) \in s /\ s \ {Pick(s)} \in SUBSET Jobs
               /\ Cardinality(s \ {Pick(s)}) = Cardinality(s) - 1
    <2>1. Pick(s) \in s
      BY <1>5 DEF Pick
    <2> QED BY <1>2, <2>1, FS_RemoveElement
  <1> QED BY <1>1, <1>2, <1>3, <1>4, <1>5

LEMMA SumExists == ASSUME NEW p, NEW n PROVE \E g : Adds(g, p, n, SUBSET Jobs)
  <1> DEFINE T == {k \in Nat : \E g : Adds(g, p, n, Upto(k))}
  <1>1. 0 \in T
    <2>1. Adds([s \in Upto(0) |-> 0], p, n, Upto(0))
      BY JobSets DEF Adds, SumStep
    <2> QED BY <2>1
  <1>2. ASSUME NEW k \in T PROVE k + 1 \in T
    <2>1. PICK g : Adds(g, p, n, Upto(k))
      OBVIOUS
    <2> DEFINE h == [s \in Upto(k + 1) |-> SumStep(g, p, n, s)]
    <2>2. \A s \in Upto(k) : s \in Upto(k + 1) /\ h[s] = g[s]
      <3>1. \A s \in Upto(k) : s \in Upto(k + 1)
        BY JobSets DEF Upto
      <3>2. \A s \in Upto(k) : g[s] = SumStep(g, p, n, s)
        BY <2>1 DEF Adds
      <3> QED BY <3>1, <3>2
    <2>3. ASSUME NEW s \in Upto(k + 1) PROVE SumStep(g, p, n, s) = SumStep(h, p, n, s)
      <3>1. CASE s = {}
        BY <3>1 DEF SumStep
      <3>2. CASE s # {}
        <4>1. s \ {Pick(s)} \in Upto(k)
          BY <3>2, JobSets DEF Upto
        <4>2. h[s \ {Pick(s)}] = g[s \ {Pick(s)}]
          BY <2>2, <4>1
        <4> QED BY <4>2 DEF SumStep
      <3> QED BY <3>1, <3>2
    <2>4. h = [s \in Upto(k + 1) |-> SumStep(h, p, n, s)]
      BY <2>3
    <2>5. Adds(h, p, n, Upto(k + 1))
      BY <2>4 DEF Adds
    <2> QED BY <2>5
  <1> HIDE DEF T
  <1>3. T = Nat
    <2>1. T \in SUBSET Nat
      BY DEF T
    <2> QED BY <1>1, <1>2, <2>1, SetInduction
  <1>4. \E g : Adds(g, p, n, Upto(Cardinality(Jobs)))
    BY <1>3, JobSets DEF T
  <1> QED BY <1>4, JobSets

\* Such a g, one set at a time.
Sums(g, p, n) ==
  /\ g[{}] = 0
  /\ \A s \in SUBSET Jobs : s # {} => g[s] = p[Pick(s)][n] + g[s \ {Pick(s)}]

LEMMA SumOf ==
  ASSUME NEW p, NEW n PROVE \E g : Sums(g, p, n) /\ JobsTotal(p, n) = g[Jobs]
  <1> DEFINE g == CHOOSE f : Adds(f, p, n, SUBSET Jobs)
  <1>1. Adds(g, p, n, SUBSET Jobs)
    BY SumExists
  <1>2. JobsTotal(p, n) = g[Jobs]
    BY DEF JobsTotal, MapThenSumSet, MapThenFoldSet, Adds, SumStep, Pick
  <1> HIDE DEF g
  <1>3. \A s \in SUBSET Jobs : g[s] = SumStep(g, p, n, s)
    BY <1>1 DEF Adds
  <1>4. Sums(g, p, n)
    BY <1>3 DEF Sums, SumStep
  <1> QED BY <1>2, <1>4

\* When one job counts d more, so do all of them together.
LEMMA SumChanges ==
  ASSUME NEW p \in [Jobs -> Counts], NEW q \in [Jobs -> Counts], NEW n \in Names,
         NEW j \in Jobs, \A i \in Jobs \ {j} : q[i][n] = p[i][n]
  PROVE  /\ JobsTotal(p, n) \in Nat /\ JobsTotal(q, n) \in Nat
         /\ JobsTotal(q, n) = JobsTotal(p, n) + (q[j][n] - p[j][n])
  <1>1. PICK g : Sums(g, p, n) /\ JobsTotal(p, n) = g[Jobs]
    BY SumOf
  <1>2. PICK h : Sums(h, q, n) /\ JobsTotal(q, n) = h[Jobs]
    BY SumOf
  <1>3. \A i \in Jobs : p[i][n] \in Nat /\ q[i][n] \in Nat
    BY DEF Counts, Names
  <1> DEFINE Good(s) ==
               /\ g[s] \in Nat /\ h[s] \in Nat
               /\ h[s] = g[s] + (IF j \in s THEN q[j][n] - p[j][n] ELSE 0)
             T == {k \in Nat : \A s \in Upto(k) : Good(s)}
  <1>4. 0 \in T
    <2>1. g[{}] = 0 /\ h[{}] = 0 /\ \A s \in Upto(0) : s = {}
      BY <1>1, <1>2, JobSets DEF Sums
    <2>2. Good({})
      BY <2>1
    <2> QED BY <2>1, <2>2
  <1>5. ASSUME NEW k \in T PROVE k + 1 \in T
    <2>1. ASSUME NEW s \in Upto(k + 1) PROVE Good(s)
      <3>1. CASE s = {}
        BY <1>1, <1>2, <3>1 DEF Sums
      <3>2. CASE s # {}
        <4> DEFINE x == Pick(s)
        <4>1. /\ s \in SUBSET Jobs /\ x \in s /\ x \in Jobs
              /\ s \ {x} \in Upto(k) /\ s \ {x} \in SUBSET Jobs
          BY <3>2, JobSets DEF Upto
        <4>2. /\ g[s] = p[x][n] + g[s \ {x}]
              /\ h[s] = q[x][n] + h[s \ {x}]
          BY <1>1, <1>2, <3>2, <4>1 DEF Sums
        <4>3. Good(s \ {x})
          BY <4>1
        <4> HIDE DEF x
        <4>4. CASE x = j
          <5>1. j \in s /\ j \notin s \ {x}
            BY <4>1, <4>4
          <5> QED BY <1>3, <4>1, <4>2, <4>3, <4>4, <5>1
        <4>5. CASE x # j
          <5>1. q[x][n] = p[x][n] /\ (j \in s <=> j \in s \ {x})
            BY <4>1, <4>5
          <5> QED BY <1>3, <4>1, <4>2, <4>3, <5>1
        <4> QED BY <4>4, <4>5
      <3> QED BY <3>1, <3>2
    <2> QED BY <2>1
  <1> HIDE DEF T
  <1>6. T = Nat
    <2>1. T \in SUBSET Nat
      BY DEF T
    <2> QED BY <1>4, <1>5, <2>1, SetInduction
  <1>7. Good(Jobs)
    <2>1. Jobs \in Upto(Cardinality(Jobs)) /\ Cardinality(Jobs) \in T
      BY <1>6, JobSets
    <2> QED BY <2>1 DEF T
  <1> QED BY <1>1, <1>2, <1>7

\* Jobs that have counted nothing have counted nothing together.
LEMMA SumZero ==
  ASSUME NEW p, NEW n, \A i \in Jobs : p[i][n] = 0
  PROVE  JobsTotal(p, n) = 0
  <1>1. PICK g : Sums(g, p, n) /\ JobsTotal(p, n) = g[Jobs]
    BY SumOf
  <1> DEFINE T == {k \in Nat : \A s \in Upto(k) : g[s] = 0}
  <1>2. 0 \in T
    BY <1>1, JobSets DEF Sums
  <1>3. ASSUME NEW k \in T PROVE k + 1 \in T
    <2>1. ASSUME NEW s \in Upto(k + 1) PROVE g[s] = 0
      <3>1. CASE s = {}
        BY <1>1, <3>1 DEF Sums
      <3>2. CASE s # {}
        <4>1. s \in SUBSET Jobs /\ Pick(s) \in Jobs /\ s \ {Pick(s)} \in Upto(k)
          BY <3>2, JobSets DEF Upto
        <4>2. g[s] = p[Pick(s)][n] + g[s \ {Pick(s)}]
          BY <1>1, <3>2, <4>1 DEF Sums
        <4>3. p[Pick(s)][n] = 0 /\ g[s \ {Pick(s)}] = 0
          BY <4>1
        <4> QED BY <4>2, <4>3
      <3> QED BY <3>1, <3>2
    <2> QED BY <2>1
  <1> HIDE DEF T
  <1>4. T = Nat
    <2>1. T \in SUBSET Nat
      BY DEF T
    <2> QED BY <1>2, <1>3, <2>1, SetInduction
  <1>5. Jobs \in Upto(Cardinality(Jobs)) /\ Cardinality(Jobs) \in T
    BY <1>4, JobSets
  <1> QED BY <1>1, <1>5 DEF T

LEMMA SumIsNat ==
  ASSUME NEW p \in [Jobs -> Counts], NEW n \in Names PROVE JobsTotal(p, n) \in Nat
  <1>1. CASE Jobs = {}
    BY <1>1, SumZero
  <1>2. CASE Jobs # {}
    BY <1>2, SumChanges
  <1> QED BY <1>1, <1>2

LEMMA PlusFacts ==
  ASSUME NEW c \in Counts, NEW d \in Counts
  PROVE  Plus(c, d) \in Counts /\ \A n \in Names : Plus(c, d)[n] = c[n] + d[n]
  BY DEF Plus, Counts, Names

LEMMA ZeroFacts == Zero \in Counts /\ \A n \in Names : Zero[n] = 0
  BY DEF Zero, Counts, Names

\* The counts c, with a more of what is persisted and b more of n.
Counted(c, d, a, b, n) ==
  /\ d \in Counts
  /\ d["persisted"] = c["persisted"] + a
  /\ \A m \in Names \ {"persisted"} : d[m] = c[m] + (IF m = n THEN b ELSE 0)

\* The evaluation of one packet.
LEMMA OneMore ==
  ASSUME NEW p \in [Jobs -> Counts], NEW j \in Jobs, NEW n \in Names \ {"persisted"},
         NEW b \in Nat
  PROVE  LET q == [p EXCEPT ![j][n] = @ + b]
         IN  /\ q \in [Jobs -> Counts] /\ \A i \in Jobs \ {j} : q[i] = p[i]
             /\ Counted(p[j], q[j], 0, b, n)
  BY DEF Counts, Names, Counted

\* A packet stored on the capture thread.
LEMMA OnePersisted ==
  ASSUME NEW c \in Counts
  PROVE  Counted(c, [c EXCEPT !.persisted = @ + 1], 1, 0, "errors")
  BY DEF Counts, Names, Counted

\* The end of a batch.
LEMMA BatchMore ==
  ASSUME NEW p \in [Jobs -> Counts], NEW j \in Jobs, NEW a \in Nat, NEW b \in Nat
  PROVE  LET q == [p EXCEPT ![j].persisted = @ + a, ![j].write_errors = @ + b]
         IN  /\ q \in [Jobs -> Counts] /\ \A i \in Jobs \ {j} : q[i] = p[i]
             /\ Counted(p[j], q[j], a, b, "write_errors")
  <1> DEFINE e == [p EXCEPT ![j].persisted = @ + a]
             d == [e EXCEPT ![j].write_errors = @ + b]
  <1>1. [p EXCEPT ![j].persisted = @ + a, ![j].write_errors = @ + b] = d
    OBVIOUS
  <1>2. /\ e \in [Jobs -> Counts] /\ e[j]["persisted"] = p[j]["persisted"] + a
        /\ \A n \in Names \ {"persisted"} : e[j][n] = p[j][n]
        /\ \A i \in Jobs \ {j} : e[i] = p[i]
    BY DEF Counts, Names
  <1> HIDE DEF e
  <1>3. /\ d \in [Jobs -> Counts]
        /\ d[j]["write_errors"] = e[j]["write_errors"] + b
        /\ \A n \in Names \ {"write_errors"} : d[j][n] = e[j][n]
        /\ \A i \in Jobs \ {j} : d[i] = e[i]
    BY <1>2 DEF Counts, Names
  <1> HIDE DEF d
  <1>4. \A n \in Names : p[j][n] \in Nat
    BY DEF Counts, Names
  <1>5. Counted(p[j], d[j], a, b, "write_errors")
    BY <1>2, <1>3, <1>4 DEF Counted, Names
  <1> QED BY <1>1, <1>2, <1>3, <1>5

-----------------------------------------------------------------------------
(* The packets. *)

LEMMA PacketSets ==
  /\ IsFiniteSet(Packets)
  /\ \A S \in SUBSET Packets : IsFiniteSet(S) /\ Cardinality(S) \in Nat
  <1>1. IsFiniteSet(Packets)
    BY PipelineAssumption, FS_Interval DEF Packets
  <1> QED BY <1>1, FS_Subset, FS_CardinalityType

LEMMA JoinSets ==
  ASSUME NEW S \in SUBSET Packets, NEW T \in SUBSET Packets, S \cap T = {}
  PROVE  Cardinality(S \cup T) = Cardinality(S) + Cardinality(T)
  <1>1. /\ IsFiniteSet(S) /\ IsFiniteSet(T)
        /\ Cardinality(S) \in Nat /\ Cardinality(T) \in Nat
    BY PacketSets
  <1>2. Cardinality(S \cap T) = 0
    BY FS_EmptySet
  <1>3. Cardinality(S \cup T) =
          Cardinality(S) + Cardinality(T) - Cardinality(S \cap T)
    BY <1>1, FS_Union
  <1> QED BY <1>1, <1>2, <1>3

\* The end of the end is the end.
LEMMA EndOfEnd ==
  ASSUME NEW A, NEW s \in Seq(A), NEW t \in Seq(A), NEW u \in Seq(A),
         IsEnd(s, t), IsEnd(t, u)
  PROVE  IsEnd(s, u)
  <1>1. Len(s) \in Nat /\ Len(t) \in Nat /\ Len(u) \in Nat
    BY LenProperties
  <1>2. Len(s) <= Len(t) /\ Len(t) <= Len(u)
    BY DEF IsEnd
  <1>3. ASSUME NEW i \in 1..Len(s) PROVE s[i] = u[Len(u) - Len(s) + i]
    <2> DEFINE k == Len(t) - Len(s) + i
    <2>1. k \in 1..Len(t) /\ Len(u) - Len(t) + k = Len(u) - Len(s) + i
      BY <1>1, <1>2
    <2>2. s[i] = t[k]
      BY DEF IsEnd
    <2> HIDE DEF k
    <2>3. t[k] = u[Len(u) - Len(t) + k]
      BY <2>1 DEF IsEnd
    <2> QED BY <2>1, <2>2, <2>3
  <1> QED BY <1>1, <1>2, <1>3 DEF IsEnd

LEMMA EndAppend ==
  ASSUME NEW A, NEW s \in Seq(A), NEW t \in Seq(A), NEW e \in A, IsEnd(s, t)
  PROVE  IsEnd(Append(s, e), Append(t, e))
  <1> DEFINE a == Append(s, e)
             b == Append(t, e)
  <1>1. Len(s) \in Nat /\ Len(t) \in Nat /\ Len(s) <= Len(t)
    BY LenProperties DEF IsEnd
  <1>2. /\ Len(a) = Len(s) + 1 /\ a[Len(s) + 1] = e
        /\ \A i \in 1..Len(s) : a[i] = s[i]
        /\ Len(b) = Len(t) + 1 /\ b[Len(t) + 1] = e
        /\ \A i \in 1..Len(t) : b[i] = t[i]
    BY AppendProperties
  <1> HIDE DEF a, b
  <1>3. ASSUME NEW i \in 1..Len(a) PROVE a[i] = b[Len(b) - Len(a) + i]
    <2>1. Len(b) - Len(a) + i = Len(t) - Len(s) + i
      BY <1>1, <1>2
    <2>2. CASE i = Len(s) + 1
      <3>1. Len(t) - Len(s) + i = Len(t) + 1
        BY <1>1, <2>2
      <3> QED BY <1>2, <2>1, <2>2, <3>1
    <2>3. CASE i # Len(s) + 1
      <3>1. i \in 1..Len(s) /\ Len(t) - Len(s) + i \in 1..Len(t)
        BY <1>1, <1>2, <2>3
      <3>2. s[i] = t[Len(t) - Len(s) + i]
        BY <3>1 DEF IsEnd
      <3>3. a[i] = s[i] /\ b[Len(t) - Len(s) + i] = t[Len(t) - Len(s) + i]
        BY <1>2, <3>1
      <3> QED BY <2>1, <3>2, <3>3
    <2> QED BY <2>2, <2>3
  <1>4. Len(a) <= Len(b)
    BY <1>1, <1>2
  <1> QED BY <1>3, <1>4 DEF IsEnd, a, b

LEMMA EndDrop ==
  ASSUME NEW A, NEW s \in Seq(A), NEW n \in 0..Len(s)
  PROVE  IsEnd(Drop(s, n), s)
  <1>1. /\ Len(s) \in Nat /\ n \in Nat /\ Len(Drop(s, n)) = Len(s) - n
        /\ \A i \in 1..(Len(s) - n) : Drop(s, n)[i] = s[n + i]
    BY LenProperties, DropFacts
  <1>2. Len(s) - (Len(s) - n) = n /\ Len(s) - n <= Len(s)
    BY <1>1
  <1> QED BY <1>1, <1>2 DEF IsEnd

-----------------------------------------------------------------------------
(* What the steps do to the cache and the batches. *)

Fates ==
  {"new", "hand", "waiting", "evicted", "discarded", "refused", "inline", "taken",
   "clean", "deferred", "stored", "lost"}

LEMMA FateType ==
  ASSUME TypeOK, NEW S, NEW f \in Fates, Judge(S, f)
  PROVE  fate' \in [Packets -> Fates]
  BY DEF TypeOK, Judge, Fates

Tallies == [accepted : Nat, dropped : Nat, peak : Nat]
Losses == [total : Counts, accepted : Nat, dropped : Nat]

\* An eviction is counted.
LEMMA DroppedMore ==
  ASSUME NEW c \in Tallies, NEW n \in Nat
  PROVE  LET d == [c EXCEPT !.dropped = @ + n]
         IN  /\ d \in Tallies /\ d.dropped = c.dropped + n
             /\ d.accepted = c.accepted /\ d.peak = c.peak
  BY DEF Tallies

\* What a reset throws away is remembered.
LEMMA LostMore ==
  ASSUME NEW z \in Losses, NEW a \in Nat, NEW b \in Nat
  PROVE  LET y == [z EXCEPT !.accepted = @ + a, !.dropped = @ + b]
         IN  /\ y \in Losses /\ y.accepted = z.accepted + a
             /\ y.dropped = z.dropped + b /\ y.total = z.total
  <1> DEFINE x == [z EXCEPT !.accepted = @ + a]
             y == [x EXCEPT !.dropped = @ + b]
  <1>1. [z EXCEPT !.accepted = @ + a, !.dropped = @ + b] = y
    OBVIOUS
  <1>2. /\ x \in Losses /\ x.accepted = z.accepted + a
        /\ x.dropped = z.dropped /\ x.total = z.total
    BY DEF Losses
  <1> HIDE DEF x
  <1>3. /\ y \in Losses /\ y.accepted = x.accepted
        /\ y.dropped = x.dropped + b /\ y.total = x.total
    BY <1>2 DEF Losses
  <1> HIDE DEF y
  <1> QED BY <1>1, <1>2, <1>3

LEMMA LostTotal ==
  ASSUME NEW z \in Losses, NEW c \in Counts
  PROVE  LET y == [z EXCEPT !.total = c]
         IN  /\ y \in Losses /\ y.total = c
             /\ y.accepted = z.accepted /\ y.dropped = z.dropped
  BY DEF Losses

\* What an eviction leaves, and whom it costs.
Left(room) == Evict(items, Excess(room))
Gone(room) == Elems(items) \ Elems(Left(room))

LEMMA EvictFacts ==
  ASSUME IInv, NEW room \in Nat
  PROVE  /\ Excess(room) \in Nat /\ Left(room) \in Seq(Packets)
         /\ Len(Left(room)) \in Nat /\ Len(Left(room)) <= Len(items)
         /\ Len(Left(room)) <= room
         /\ NoDup(Left(room)) /\ IsEnd(Left(room), items)
         /\ Elems(Left(room)) = Elems(items) \ Gone(room)
         /\ Gone(room) \in SUBSET Packets /\ Gone(room) \subseteq With("waiting")
         /\ Cardinality(Gone(room)) = Excess(room)
  <1> DEFINE n == Excess(room)
  <1>1. items \in Seq(Packets) /\ NoDup(items) /\ Len(items) \in Nat
    BY LenProperties DEF IInv, TypeOK, CacheInv
  <1>2. n \in 0..Len(items) /\ Len(items) - n <= room /\ Len(items) - n \in Nat
        /\ Len(items) - n <= Len(items)
    BY <1>1 DEF Excess
  <1>3. Left(room) = Drop(items, n)
    BY DEF Left, Evict
  <1> HIDE DEF n
  <1>4. /\ Drop(items, n) \in Seq(Packets) /\ Len(Drop(items, n)) = Len(items) - n
        /\ NoDup(Drop(items, n)) /\ IsEnd(Drop(items, n), items)
    BY <1>1, <1>2, DropFacts, EndDrop
  <1>5. /\ Elems(Drop(items, n)) \subseteq Elems(items)
        /\ Cardinality(Elems(items) \ Elems(Drop(items, n))) = n
    BY <1>1, <1>2, LeadingFacts
  <1>6. Elems(items) = With("waiting") /\ With("waiting") \in SUBSET Packets
    BY DEF IInv, CacheInv, With
  <1>7. Gone(room) = Elems(items) \ Elems(Drop(items, n))
    BY <1>3 DEF Gone
  <1>8. Left(room) \in Seq(Packets) /\ NoDup(Left(room)) /\ IsEnd(Left(room), items)
    BY <1>3, <1>4
  <1>9. /\ Len(Left(room)) \in Nat /\ Len(Left(room)) <= Len(items)
        /\ Len(Left(room)) <= room
    BY <1>2, <1>3, <1>4
  <1>10. /\ Elems(Left(room)) = Elems(items) \ Gone(room)
         /\ Gone(room) \in SUBSET Packets /\ Gone(room) \subseteq With("waiting")
    BY <1>3, <1>5, <1>6, <1>7
  <1>11. Excess(room) \in Nat /\ Cardinality(Gone(room)) = Excess(room)
    BY <1>1, <1>2, <1>5, <1>7 DEF n
  <1> QED BY <1>8, <1>9, <1>10, <1>11

\* put() on an open cache.
Admits(p, room) ==
  /\ hands' = hands \ {p}
  /\ items' = Append(Left(room), p) /\ items' \in Seq(Packets)
  /\ Len(items') = Len(Left(room)) + 1 /\ NoDup(items')
  /\ Elems(items') = (Elems(items) \ Gone(room)) \cup {p}
  /\ log' = Append(log, p) /\ log' \in Seq(Packets)
  /\ Len(log') = Len(log) + 1 /\ Elems(log') = Elems(log) \cup {p}
  /\ cached' = [accepted |-> cached.accepted + 1,
                dropped |-> cached.dropped + Excess(room),
                peak |-> IF Len(Left(room)) + 1 > cached.peak
                         THEN Len(Left(room)) + 1 ELSE cached.peak]
  /\ fate' = [q \in Packets |->
                IF q = p THEN "waiting" ELSE IF q \in Gone(room) THEN "evicted"
                                             ELSE fate[q]]

LEMMA PutFacts ==
  ASSUME IInv, NEW p \in Packets, Put(p), ~closed
  PROVE  /\ limit - 1 \in Nat /\ Admits(p, limit - 1) /\ fate[p] = "hand"
         /\ p \notin Elems(log)
  <1>1. limit - 1 \in Nat
    BY PipelineAssumption DEF IInv, TypeOK
  <1>2. fate[p] = "hand" /\ p \notin Elems(items) /\ p \notin Elems(log)
    BY DEF Put, IInv, CacheInv, LogInv, With
  <1> DEFINE room == limit - 1
  <1> HIDE DEF room
  <1>3. /\ Left(room) \in Seq(Packets) /\ NoDup(Left(room))
        /\ Elems(Left(room)) = Elems(items) \ Gone(room)
    BY <1>1, EvictFacts DEF room
  <1>4. items' = Append(Left(room), p) /\ log' = Append(log, p)
    BY DEF Put, room, Left
  <1>5. /\ items' \in Seq(Packets) /\ Len(items') = Len(Left(room)) + 1
        /\ NoDup(items') /\ Elems(items') = (Elems(items) \ Gone(room)) \cup {p}
    <2>1. p \notin Elems(Left(room))
      BY <1>2, <1>3
    <2> QED BY <1>3, <1>4, <2>1, AppendFacts
  <1>6. /\ log' \in Seq(Packets) /\ Len(log') = Len(log) + 1
        /\ Elems(log') = Elems(log) \cup {p}
    BY <1>4, AppendFacts DEF IInv, TypeOK
  <1>7. /\ hands' = hands \ {p}
        /\ cached' = [accepted |-> cached.accepted + 1,
                      dropped |-> cached.dropped + Excess(room),
                      peak |-> IF Len(Left(room)) + 1 > cached.peak
                               THEN Len(Left(room)) + 1 ELSE cached.peak]
        /\ fate' = [q \in Packets |->
                      IF q = p THEN "waiting"
                      ELSE IF q \in Gone(room) THEN "evicted" ELSE fate[q]]
    BY DEF Put, room, Left, Gone
  <1> QED BY <1>1, <1>2, <1>4, <1>5, <1>6, <1>7 DEF Admits, room

\* get() and get_many(): job j takes the packets T off the cache.
Takes(j, T) ==
  /\ T \in SUBSET Elems(items)
  /\ fate' = [p \in Packets |-> IF p \in T THEN "taken" ELSE fate[p]]
  /\ items' \in Seq(Packets) /\ NoDup(items') /\ Elems(items') = Elems(items) \ T
  /\ Len(items') \in Nat /\ Len(items') <= Len(items) /\ IsEnd(items', items)
  /\ batch' \in [Jobs -> Seq(Packets)] /\ \A i \in Jobs \ {j} : batch'[i] = batch[i]
  /\ NoDup(batch'[j]) /\ Elems(batch'[j]) = Elems(batch[j]) \cup T
  /\ batch'[j] # <<>> /\ place[j] \in {"get", "more"}
  /\ place' \in [Jobs -> {"get", "more", "evaluate", "flush", "apply", "gone"}]
  /\ place'[j] \in {"more", "evaluate"} /\ \A i \in Jobs \ {j} : place'[i] = place[i]
  /\ UNCHANGED <<hands, limit, closed, cached, log, deferred, attempt, pending,
                 dbVars, tallyVars>>

LEMMA GetFacts ==
  ASSUME IInv, NEW j \in Jobs, Get(j) PROVE \E T : Takes(j, T)
  <1> DEFINE h == Head(items)
  <1>1. /\ items \in Seq(Packets) /\ NoDup(items) /\ items # <<>>
        /\ batch \in [Jobs -> Seq(Packets)] /\ batch[j] = <<>>
        /\ place \in [Jobs -> {"get", "more", "evaluate", "flush", "apply", "gone"}]
    BY DEF Get, IInv, TypeOK, CacheInv, JobInv
  <1>2. /\ h \in Elems(items) /\ Tail(items) \in Seq(Packets)
        /\ Len(Tail(items)) = Len(items) - 1 /\ Len(items) \in Nat \ {0}
        /\ \A i \in 1..(Len(items) - 1) : Tail(items)[i] = items[i + 1]
        /\ NoDup(Tail(items)) /\ Elems(Tail(items)) = Elems(items) \ {h}
    BY <1>1, TailFacts
  <1>3. h \in Packets
    BY <1>1, <1>2, ElemsFacts
  <1>4. IsEnd(Tail(items), items)
    <2>1. Len(items) - (Len(items) - 1) = 1 /\ Len(items) - 1 <= Len(items)
      BY <1>2
    <2>2. \A i \in 1..(Len(items) - 1) : 1 + i = i + 1
      BY <1>2
    <2> QED BY <1>2, <2>1, <2>2 DEF IsEnd
  <1>5. <<h>> \in Seq(Packets) /\ NoDup(<<h>>) /\ Elems(<<h>>) = {h} /\ <<h>> # <<>>
    <2>1. <<>> \in Seq(Packets) /\ Append(<<>>, h) = <<h>>
      BY EmptySeq
    <2>2. ASSUME NEW s \in Seq(Packets), NoDup(s), h \notin Elems(s)
          PROVE  /\ Append(s, h) \in Seq(Packets) /\ NoDup(Append(s, h))
                 /\ Elems(Append(s, h)) = Elems(s) \cup {h}
      BY <1>3, <2>2, AppendFacts
    <2> QED BY <2>1, <2>2, ElemsEmpty
  <1>6. /\ batch' = [batch EXCEPT ![j] = <<h>>] /\ items' = Tail(items)
        /\ fate' = [p \in Packets |-> IF p \in {h} THEN "taken" ELSE fate[p]]
        /\ place[j] = "get" /\ place' = [place EXCEPT ![j] = "more"]
        /\ UNCHANGED <<hands, limit, closed, cached, log, deferred, attempt, pending,
                       dbVars, tallyVars>>
    BY DEF Get, Judge, Goto
  <1> HIDE DEF h
  <1>7. /\ batch'[j] = <<h>> /\ batch' \in [Jobs -> Seq(Packets)]
        /\ \A i \in Jobs \ {j} : batch'[i] = batch[i]
    BY <1>1, <1>5, <1>6
  <1>8. /\ place' \in [Jobs -> {"get", "more", "evaluate", "flush", "apply", "gone"}]
        /\ place'[j] = "more" /\ \A i \in Jobs \ {j} : place'[i] = place[i]
    BY <1>1, <1>6
  <1>9. Elems(batch'[j]) = Elems(batch[j]) \cup {h}
    BY <1>1, <1>5, <1>7, ElemsEmpty
  <1>10. Len(items') \in Nat /\ Len(items') <= Len(items)
    BY <1>2, <1>6
  <1>11. Takes(j, {h})
    BY <1>2, <1>4, <1>5, <1>6, <1>7, <1>8, <1>9, <1>10 DEF Takes
  <1> QED BY <1>11

LEMMA GetManyFacts ==
  ASSUME IInv, NEW j \in Jobs, GetMany(j) PROVE \E T : Takes(j, T)
  <1> DEFINE n == IF Len(items) < BatchMax - 1 THEN Len(items) ELSE BatchMax - 1
             t == SubSeq(items, 1, n)
             T == Elems(items) \ Elems(Drop(items, n))
  <1>1. /\ items \in Seq(Packets) /\ NoDup(items) /\ Len(items) \in Nat
        /\ batch \in [Jobs -> Seq(Packets)] /\ batch[j] # <<>> /\ NoDup(batch[j])
        /\ place \in [Jobs -> {"get", "more", "evaluate", "flush", "apply", "gone"}]
    BY LenProperties DEF GetMany, IInv, TypeOK, CacheInv, JobInv
  <1>2. n \in 0..Len(items) /\ Len(items) - n \in Nat /\ Len(items) - n <= Len(items)
    BY <1>1, PipelineAssumption
  <1>3. /\ batch' = [batch EXCEPT ![j] = @ \o t] /\ items' = Drop(items, n)
        /\ fate' = [p \in Packets |-> IF p \in Elems(t) THEN "taken" ELSE fate[p]]
        /\ place[j] = "more" /\ place' = [place EXCEPT ![j] = "evaluate"]
        /\ UNCHANGED <<hands, limit, closed, cached, log, deferred, attempt, pending,
                       dbVars, tallyVars>>
    BY DEF GetMany, Judge, Goto
  <1> HIDE DEF n
  <1>4. t \in Seq(Packets) /\ NoDup(t) /\ Elems(t) = T
    BY <1>1, <1>2, PrefixFacts
  <1>5. /\ Drop(items, n) \in Seq(Packets) /\ NoDup(Drop(items, n))
        /\ Len(Drop(items, n)) = Len(items) - n /\ IsEnd(Drop(items, n), items)
        /\ Elems(Drop(items, n)) \subseteq Elems(items)
    BY <1>1, <1>2, DropFacts, EndDrop, LeadingFacts
  <1>6. Elems(batch[j]) \cap T = {}
    BY DEF IInv, CacheInv, JobInv, With
  <1> HIDE DEF t
  <1>7. /\ batch[j] \o t \in Seq(Packets) /\ NoDup(batch[j] \o t)
        /\ Elems(batch[j] \o t) = Elems(batch[j]) \cup T
    BY <1>1, <1>4, <1>6, ConcatFacts
  <1>8. batch[j] \o t # <<>>
    BY <1>1, <1>4, ConcatEqualIffEmpty
  <1>9. /\ batch'[j] = batch[j] \o t /\ batch' \in [Jobs -> Seq(Packets)]
        /\ \A i \in Jobs \ {j} : batch'[i] = batch[i]
    BY <1>1, <1>3, <1>7
  <1>10. /\ place' \in [Jobs -> {"get", "more", "evaluate", "flush", "apply", "gone"}]
         /\ place'[j] = "evaluate" /\ \A i \in Jobs \ {j} : place'[i] = place[i]
    BY <1>1, <1>3
  <1>11. /\ Elems(items') = Elems(items) \ T /\ T \in SUBSET Elems(items)
         /\ Len(items') \in Nat /\ Len(items') <= Len(items)
    BY <1>2, <1>3, <1>5
  <1>12. /\ fate' = [p \in Packets |-> IF p \in T THEN "taken" ELSE fate[p]]
         /\ items' \in Seq(Packets) /\ NoDup(items') /\ IsEnd(items', items)
    BY <1>3, <1>4, <1>5
  <1> HIDE DEF T
  <1>13. Takes(j, T)
    BY <1>3, <1>7, <1>8, <1>9, <1>10, <1>11, <1>12 DEF Takes
  <1> QED BY <1>13

\* One packet of a batch is evaluated.
Evaluates(j, p, defer, outcome) ==
  /\ place[j] = "evaluate" /\ p \in Elems(batch[j]) /\ p \in Packets
  /\ fate' = [q \in Packets |->
                IF q = p THEN (IF defer THEN "deferred" ELSE "clean") ELSE fate[q]]
  /\ deferred' = [deferred EXCEPT ![j] = IF defer THEN deferred[j] \cup {p}
                                                  ELSE deferred[j]]
  /\ batch' = [batch EXCEPT ![j] = Tail(@)] /\ Tail(batch[j]) \in Seq(Packets)
  /\ NoDup(Tail(batch[j])) /\ Elems(Tail(batch[j])) = Elems(batch[j]) \ {p}
  /\ pending' = [pending EXCEPT ![j][outcome] = @ + 1]
  /\ UNCHANGED <<hands, cacheVars, dbVars, tallyVars>>

LEMMA EvaluateFacts ==
  ASSUME IInv, NEW j \in Jobs, NEW v \in Verdicts, Evaluate(j, v.defer, v.outcome)
  PROVE  /\ Evaluates(j, Head(batch[j]), v.defer, v.outcome)
         /\ v.outcome \in Names \ {"persisted"} /\ v.defer \in BOOLEAN
  <1>1. batch[j] \in Seq(Packets) /\ NoDup(batch[j]) /\ batch[j] # <<>>
    BY DEF Evaluate, IInv, TypeOK, JobInv
  <1>2. /\ Head(batch[j]) \in Elems(batch[j]) /\ Tail(batch[j]) \in Seq(Packets)
        /\ NoDup(Tail(batch[j]))
        /\ Elems(Tail(batch[j])) = Elems(batch[j]) \ {Head(batch[j])}
        /\ Head(batch[j]) \in Packets
    BY <1>1, TailFacts, ElemsFacts
  <1>3. v.outcome \in Names \ {"persisted"} /\ v.defer \in BOOLEAN
    BY DEF Verdicts, Names
  <1> QED BY <1>2, <1>3 DEF Evaluate, Evaluates, Judge

-----------------------------------------------------------------------------
(* Every step keeps each part of IInv. *)

\* Packets that are no job's business change no batch.
LEMMA JobsKept ==
  ASSUME IInv, UNCHANGED jobVars,
         \A q \in Packets : fate[q] \in {"taken", "deferred"} => fate'[q] = fate[q]
  PROVE  JobInv'
  <1>1. \A i \in Jobs : /\ Elems(batch[i]) \subseteq Packets
                       /\ deferred[i] \subseteq Packets
    BY ElemsFacts DEF IInv, TypeOK
  <1>2. \A i \in Jobs : /\ \A p \in Elems(batch[i]) : fate'[p] = "taken"
                       /\ \A p \in deferred[i] : fate'[p] = "deferred"
    BY <1>1 DEF IInv, JobInv
  <1> QED BY <1>2 DEF IInv, JobInv, jobVars

\* A job takes from the cache: nobody else's packets are touched.
LEMMA JobsTake ==
  ASSUME IInv, NEW j \in Jobs, NEW T, Takes(j, T)
  PROVE  JobInv'
  <1>1. /\ JobInv /\ T \subseteq With("waiting") /\ deferred[j] = {}
        /\ \A i \in Jobs : Elems(batch[i]) \subseteq Packets /\ deferred[i] \subseteq Packets
    <2>1. TypeOK /\ CacheInv /\ JobInv
      BY DEF IInv
    <2>2. T \subseteq With("waiting") /\ deferred[j] = {}
      BY <2>1 DEF Takes, CacheInv, JobInv
    <2>3. \A i \in Jobs : Elems(batch[i]) \subseteq Packets /\ deferred[i] \subseteq Packets
      BY <2>1, ElemsFacts DEF TypeOK
    <2> QED BY <2>1, <2>2, <2>3
  <1>2. /\ \A q \in T : fate'[q] = "taken"
        /\ \A q \in Packets : fate[q] \in {"taken", "deferred"} => fate'[q] = fate[q]
    BY <1>1 DEF Takes, With
  <1>3. /\ deferred' = deferred
        /\ \A i \in Jobs \ {j} : batch'[i] = batch[i] /\ place'[i] = place[i]
        /\ NoDup(batch'[j]) /\ Elems(batch'[j]) = Elems(batch[j]) \cup T
        /\ batch'[j] # <<>> /\ place'[j] \in {"more", "evaluate"}
    BY DEF Takes
  <1>4. ASSUME NEW i \in Jobs
        PROVE  /\ NoDup(batch'[i]) /\ \A p \in Elems(batch'[i]) : fate'[p] = "taken"
               /\ \A p \in deferred'[i] : fate'[p] = "deferred"
               /\ place'[i] \in {"more", "evaluate"} <=> batch'[i] # <<>>
               /\ place'[i] \notin {"evaluate", "flush"} => deferred'[i] = {}
    <2>1. \A p \in deferred'[i] : fate'[p] = "deferred"
      BY <1>1, <1>2, <1>3 DEF JobInv
    <2>2. CASE i = j
      BY <1>1, <1>2, <1>3, <2>1, <2>2 DEF JobInv
    <2>3. CASE i # j
      <3>1. batch'[i] = batch[i] /\ place'[i] = place[i] /\ deferred'[i] = deferred[i]
        BY <1>3, <2>3
      <3>2. \A p \in Elems(batch'[i]) : fate'[p] = "taken"
        BY <1>1, <1>2, <3>1 DEF JobInv
      <3> QED BY <1>1, <2>1, <3>1, <3>2 DEF JobInv
    <2> QED BY <2>2, <2>3
  <1> QED BY <1>4 DEF JobInv

\* What a job takes is nobody else's business.
LEMMA OwnTake ==
  ASSUME IInv, NEW j \in Jobs, NEW T, Takes(j, T)
  PROVE  OwnInv'
  <1>1. JobInv /\ OwnInv /\ CacheInv
    BY DEF IInv
  <1>2. /\ deferred' = deferred /\ \A i \in Jobs \ {j} : batch'[i] = batch[i]
        /\ Elems(batch'[j]) = Elems(batch[j]) \cup T
    BY DEF Takes
  <1>3. \A q \in T : fate[q] = "waiting"
    BY <1>1 DEF Takes, CacheInv, With
  <1>4. ASSUME NEW i \in Jobs \ {j} PROVE Elems(batch'[i]) \cap Elems(batch'[j]) = {}
    <2>1. Elems(batch[i]) \cap T = {}
      BY <1>1, <1>3 DEF JobInv
    <2>2. Elems(batch[i]) \cap Elems(batch[j]) = {}
      BY <1>1 DEF OwnInv
    <2> QED BY <1>2, <2>1, <2>2
  <1> QED BY <1>1, <1>2, <1>4 DEF OwnInv

\* The types of what the steps below write.
LEMMA PutCounts ==
  ASSUME NEW c \in [accepted : Nat, dropped : Nat, peak : Nat], NEW e \in Nat, NEW n \in Nat
  PROVE  [accepted |-> c.accepted + 1, dropped |-> c.dropped + e,
          peak |-> IF n + 1 > c.peak THEN n + 1 ELSE c.peak]
         \in [accepted : Nat, dropped : Nat, peak : Nat]
  OBVIOUS

LEMMA RowCounts ==
  ASSUME NEW r \in [Packets -> Nat], NEW p \in Packets
  PROVE  [r EXCEPT ![p] = @ + 1] \in [Packets -> Nat]
  OBVIOUS

LEMMA AttemptCounts ==
  ASSUME NEW a \in [Jobs -> 0..MaxAttempts], NEW j \in Jobs, a[j] < MaxAttempts
  PROVE  [a EXCEPT ![j] = @ + 1] \in [Jobs -> 0..MaxAttempts]
  BY PipelineAssumption

LEMMA EvaluatedType ==
  ASSUME TypeOK, NEW j \in Jobs, NEW defer, NEW outcome, Evaluate(j, defer, outcome)
  PROVE  /\ place' \in [Jobs -> {"get", "more", "evaluate", "flush", "apply", "gone"}]
         /\ attempt' \in [Jobs -> 0..MaxAttempts]
  <1>1. /\ attempt \in [Jobs -> 0..MaxAttempts]
        /\ place \in [Jobs -> {"get", "more", "evaluate", "flush", "apply", "gone"}]
        /\ 0 \in 0..MaxAttempts /\ 1 \in 0..MaxAttempts
    BY PipelineAssumption DEF TypeOK
  <1>2. \E there \in {"evaluate", "flush", "apply"} : place' = [place EXCEPT ![j] = there]
    BY DEF Evaluate, Goto
  <1>3. \E n \in {0, 1} : attempt' = [attempt EXCEPT ![j] = n]
    BY DEF Evaluate
  <1>4. \A n \in {0, 1} : [attempt EXCEPT ![j] = n] \in [Jobs -> 0..MaxAttempts]
    BY <1>1
  <1>5. \A there \in {"evaluate", "flush", "apply"} : [place EXCEPT ![j] = there]
          \in [Jobs -> {"get", "more", "evaluate", "flush", "apply", "gone"}]
    BY <1>1
  <1> QED BY <1>2, <1>3, <1>4, <1>5

LEMMA FlushedType ==
  ASSUME TypeOK, NEW j \in Jobs, Goto(j, "apply"),
         deferred' = [deferred EXCEPT ![j] = {}], attempt' = [attempt EXCEPT ![j] = 0]
  PROVE  /\ deferred' \in [Jobs -> SUBSET Packets] /\ attempt' \in [Jobs -> 0..MaxAttempts]
         /\ place' \in [Jobs -> {"get", "more", "evaluate", "flush", "apply", "gone"}]
  <1>1. /\ deferred \in [Jobs -> SUBSET Packets] /\ attempt \in [Jobs -> 0..MaxAttempts]
        /\ place \in [Jobs -> {"get", "more", "evaluate", "flush", "apply", "gone"}]
        /\ MaxAttempts \in Nat
    BY PipelineAssumption DEF TypeOK
  <1> QED BY <1>1 DEF Goto

\* Every step keeps the types.
LEMMA StepType ==
  ASSUME IInv, [Next]_vars PROVE TypeOK'
  <1> USE PipelineAssumption DEF IInv, TypeOK
  <1>1. ASSUME NEW p \in Packets, Capture(p) PROVE TypeOK'
    BY <1>1 DEF Capture, Judge, cacheVars, jobVars, dbVars, tallyVars
  <1>2. ASSUME NEW p \in Packets, Put(p) PROVE TypeOK'
    <2>1. CASE closed
      BY <1>2, <2>1 DEF Put, Judge, cacheVars, jobVars, dbVars, tallyVars
    <2>2. CASE ~closed
      <3>1. limit - 1 \in Nat /\ Admits(p, limit - 1)
        BY <1>2, <2>2, PutFacts
      <3>2. Excess(limit - 1) \in Nat /\ Len(Left(limit - 1)) \in Nat
        BY <3>1, EvictFacts
      <3>3. cached' \in [accepted : Nat, dropped : Nat, peak : Nat]
        <4>1. cached \in [accepted : Nat, dropped : Nat, peak : Nat]
          OBVIOUS
        <4> QED BY <3>1, <3>2, <4>1, PutCounts DEF Admits
      <3>4. /\ items' \in Seq(Packets) /\ log' \in Seq(Packets) /\ hands' \subseteq Packets
            /\ fate' \in [Packets -> {"new", "hand", "waiting", "evicted", "discarded",
                                      "refused", "inline", "taken", "clean", "deferred",
                                      "stored", "lost"}]
        BY <3>1 DEF Admits
      <3> QED BY <1>2, <2>2, <3>3, <3>4 DEF Put, jobVars, dbVars, tallyVars
    <2> QED BY <2>1, <2>2
  <1>3. ASSUME NEW p \in Packets, InlineClean(p) PROVE TypeOK'
    BY <1>3 DEF InlineClean, InlineDone, dbVars, Judge, cacheVars, jobVars
  <1>4. ASSUME NEW p \in Packets, InlineStored(p) PROVE TypeOK'
    <2>1. count' \in Counts
      BY <1>4, OnePersisted DEF InlineStored, Counted
    <2>2. fate' \in [Packets -> Fates]
      BY <1>4, FateType DEF InlineStored, InlineDone, Fates
    <2>3. rows' \in [Packets -> Nat] /\ txn' \subseteq Packets /\ torn' \subseteq Packets
      <3>1. rows \in [Packets -> Nat] /\ rows' = [rows EXCEPT ![p] = @ + 1]
        BY <1>4 DEF InlineStored
      <3>2. txn' = {} /\ torn' = torn \cup txn
        BY <1>4 DEF InlineStored
      <3> QED BY <3>1, <3>2, RowCounts
    <2>4. UNCHANGED <<hands, cacheVars, jobVars, zeroed, resets, resetting>>
      BY <1>4 DEF InlineStored, InlineDone
    <2> QED BY <2>1, <2>2, <2>3, <2>4 DEF Fates, cacheVars, jobVars
  <1>5. ASSUME NEW p \in Packets, InlineFails(p) PROVE TypeOK'
    <2>1. fate' \in [Packets -> Fates]
      BY <1>5, FateType DEF InlineFails, InlineDone, Fates
    <2>2. rows' \in [Packets -> Nat] /\ txn' \subseteq Packets /\ torn' \subseteq Packets
      BY <1>5 DEF InlineFails
    <2>3. UNCHANGED <<hands, cacheVars, jobVars, tallyVars>>
      BY <1>5 DEF InlineFails, InlineDone, tallyVars
    <2> QED BY <2>1, <2>2, <2>3 DEF Fates, cacheVars, jobVars, tallyVars
  <1>6. ASSUME NEW p \in Packets, NEW n \in 1..2, InlineRecovered(p, n)
        PROVE  TypeOK'
    <2>1. count' \in Counts
      BY <1>6, OnePersisted DEF InlineRecovered, Counted
    <2>2. fate' \in [Packets -> Fates]
      BY <1>6, FateType DEF InlineRecovered, InlineDone, Fates
    <2>0. \A q \in Packets : rows[q] \in Nat /\ rows[q] + n \in Nat
      OBVIOUS
    <2>3. rows' \in [Packets -> Nat] /\ txn' \subseteq Packets /\ torn' \subseteq Packets
      BY <1>6, <2>0 DEF InlineRecovered
    <2>4. UNCHANGED <<hands, cacheVars, jobVars, zeroed, resets, resetting>>
      BY <1>6 DEF InlineRecovered, InlineDone
    <2> QED BY <2>1, <2>2, <2>3, <2>4 DEF Fates, cacheVars, jobVars
  <1>7. ASSUME NEW l \in CacheLimits, SetLimit(l) PROVE TypeOK'
    <2>1. /\ items' = Left(l) /\ limit' = l
          /\ cached' = [cached EXCEPT !.dropped = @ + Excess(l)]
          /\ Judge(Gone(l), "evicted")
          /\ UNCHANGED <<hands, closed, log, jobVars, dbVars, tallyVars>>
      BY <1>7 DEF SetLimit, Left, Gone
    <2>2. Left(l) \in Seq(Packets) /\ Excess(l) \in Nat
      BY EvictFacts
    <2>3. fate' \in [Packets -> Fates]
      BY <2>1, FateType DEF Fates
    <2>4. cached' \in Tallies
      <3>1. cached \in Tallies
        BY DEF Tallies
      <3> QED BY <2>1, <2>2, <3>1, DroppedMore
    <2> QED BY <2>1, <2>2, <2>3, <2>4 DEF Fates, Tallies, jobVars, dbVars, tallyVars
  <1>8. ASSUME NEW j \in Jobs, Get(j) PROVE TypeOK'
    <2>1. PICK T : Takes(j, T)
      BY <1>8, GetFacts
    <2> QED BY <2>1 DEF Takes, dbVars, tallyVars
  <1>9. ASSUME NEW j \in Jobs, JobEnds(j) PROVE TypeOK'
    BY <1>9 DEF JobEnds, Goto, cacheVars, dbVars, tallyVars
  <1>10. ASSUME NEW j \in Jobs, GetMany(j) PROVE TypeOK'
    <2>1. PICK T : Takes(j, T)
      BY <1>10, GetManyFacts
    <2> QED BY <2>1 DEF Takes, dbVars, tallyVars
  <1>11. ASSUME NEW j \in Jobs, NEW v \in Verdicts, Evaluate(j, v.defer, v.outcome)
         PROVE  TypeOK'
    <2>1. Evaluates(j, Head(batch[j]), v.defer, v.outcome)
      BY <1>11, EvaluateFacts
    <2>2. v.outcome \in Names \ {"persisted"} /\ v.defer \in BOOLEAN
      BY <1>11, EvaluateFacts
    <2>3. pending' \in [Jobs -> Counts]
      BY <2>1, <2>2, OneMore DEF Evaluates
    <2>4. batch' \in [Jobs -> Seq(Packets)] /\ deferred' \in [Jobs -> SUBSET Packets]
      BY <2>1 DEF Evaluates
    <2>5. /\ place' \in [Jobs -> {"get", "more", "evaluate", "flush", "apply", "gone"}]
          /\ attempt' \in [Jobs -> 0..MaxAttempts]
      BY <1>11, EvaluatedType
    <2>6. fate' \in [Packets -> {"new", "hand", "waiting", "evicted", "discarded",
                                 "refused", "inline", "taken", "clean", "deferred",
                                 "stored", "lost"}]
      BY <2>1, <2>2 DEF Evaluates
    <2> QED
      BY <2>1, <2>3, <2>4, <2>5, <2>6 DEF Evaluates, cacheVars, dbVars, tallyVars
  <1>12. ASSUME NEW j \in Jobs, NEW failed \in SUBSET deferred[j], FlushCommits(j, failed)
         PROVE  TypeOK'
    <2>1. Cardinality(deferred[j] \ failed) \in Nat /\ Cardinality(failed) \in Nat
      BY PacketSets
    <2>2. pending' \in [Jobs -> Counts]
      BY <1>12, <2>1, BatchMore DEF FlushCommits, BatchOutcome
    <2>3. fate' \in [Packets -> Fates] /\ rows' \in [Packets -> Nat]
      BY <1>12 DEF FlushCommits, Fates
    <2>4. /\ deferred' \in [Jobs -> SUBSET Packets] /\ attempt' \in [Jobs -> 0..MaxAttempts]
          /\ place' \in [Jobs -> {"get", "more", "evaluate", "flush", "apply", "gone"}]
      BY <1>12, FlushedType DEF FlushCommits
    <2> QED
      BY <1>12, <2>2, <2>3, <2>4 DEF FlushCommits, Fates, cacheVars, tallyVars
  <1>13. ASSUME NEW j \in Jobs, FlushLocked(j) PROVE TypeOK'
    <2>1. /\ attempt \in [Jobs -> 0..MaxAttempts] /\ attempt[j] < MaxAttempts
          /\ attempt' = [attempt EXCEPT ![j] = @ + 1]
      BY <1>13 DEF FlushLocked, MayRetry
    <2>2. attempt' \in [Jobs -> 0..MaxAttempts]
      BY <2>1, AttemptCounts
    <2> QED BY <1>13, <2>2 DEF FlushLocked, cacheVars, dbVars, tallyVars
  <1>14. ASSUME NEW j \in Jobs, FlushFails(j) PROVE TypeOK'
    <2>1. Cardinality(deferred[j]) \in Nat
      BY PacketSets
    <2>2. pending' = [pending EXCEPT ![j]["write_errors"] = @ + Cardinality(deferred[j])]
      BY <1>14 DEF FlushFails
    <2>3. pending' \in [Jobs -> Counts]
      BY <2>1, <2>2, OneMore DEF Names
    <2>4. fate' \in [Packets -> Fates]
      BY <1>14, FateType DEF FlushFails, Fates
    <2>5. /\ deferred' \in [Jobs -> SUBSET Packets] /\ attempt' \in [Jobs -> 0..MaxAttempts]
          /\ place' \in [Jobs -> {"get", "more", "evaluate", "flush", "apply", "gone"}]
      BY <1>14, FlushedType DEF FlushFails
    <2> QED
      BY <1>14, <2>3, <2>4, <2>5 DEF FlushFails, Fates, cacheVars, dbVars, tallyVars
  <1>15. ASSUME NEW j \in Jobs, Apply(j) PROVE TypeOK'
    <2>1. count' \in Counts /\ pending' \in [Jobs -> Counts]
      BY <1>15, PlusFacts, ZeroFacts DEF Apply, Tally
    <2> QED BY <1>15, <2>1 DEF Apply, Goto, cacheVars, dbVars
  <1>16. ASSUME Close PROVE TypeOK'
    <2>1. <<>> \in Seq(Packets)
      BY EmptySeq
    <2> QED BY <1>16, <2>1 DEF Close, Judge, jobVars, dbVars, tallyVars
  <1>17. ASSUME Reset PROVE TypeOK'
    <2>1. Plus(zeroed.total, count) \in Counts
      BY PlusFacts
    <2>2. count' \in Counts /\ zeroed' \in Losses
      <3>1. count' = Zero /\ zeroed' = [zeroed EXCEPT !.total = Plus(zeroed.total, count)]
        BY <1>17 DEF Reset
      <3>2. zeroed \in Losses
        BY DEF Losses
      <3> QED BY <2>1, <3>1, <3>2, ZeroFacts, LostTotal
    <2>3. resets' \in Nat /\ resetting' \in BOOLEAN
      <3>1. resets' = resets + 1 /\ resetting' = TRUE
        BY <1>17 DEF Reset
      <3>2. resets \in Nat
        OBVIOUS
      <3> HIDE DEF IInv, TypeOK
      <3> QED BY <3>1, <3>2
    <2> QED BY <1>17, <2>2, <2>3 DEF Reset, Losses, cacheVars, jobVars, dbVars
  <1>18. ASSUME ResetCache PROVE TypeOK'
    <2>1. Len(items) \in Nat
      BY LenProperties
    <2>2. cached' \in Tallies /\ zeroed' \in Losses
      <3>1. /\ cached' = [accepted |-> 0, dropped |-> 0, peak |-> Len(items)]
            /\ zeroed' = [zeroed EXCEPT !.accepted = @ + cached.accepted,
                                        !.dropped = @ + cached.dropped]
        BY <1>18 DEF ResetCache
      <3>2. cached.accepted \in Nat /\ cached.dropped \in Nat /\ zeroed \in Losses
        BY DEF Losses
      <3>3. cached' \in Tallies
        BY <2>1, <3>1 DEF Tallies
      <3> QED BY <3>1, <3>2, <3>3, LostMore
    <2> QED BY <1>18, <2>2 DEF ResetCache, Tallies, Losses, jobVars, dbVars
  <1>19. ASSUME OtherCommit PROVE TypeOK'
    BY <1>19 DEF OtherCommit, cacheVars, jobVars, tallyVars
  <1>20. ASSUME UNCHANGED vars PROVE TypeOK'
    BY <1>20 DEF vars, cacheVars, jobVars, dbVars, tallyVars
  <1> QED BY <1>1, <1>2, <1>3, <1>4, <1>5, <1>6, <1>7, <1>8, <1>9, <1>10,
      <1>11, <1>12, <1>13, <1>14, <1>15, <1>16, <1>17, <1>18, <1>19, <1>20 DEF
      Next, JobStep, Inline

\* The cache and the hands stay what the fates of the packets say.
LEMMA StepCache ==
  ASSUME IInv, [Next]_vars PROVE CacheInv'
  <1> USE PipelineAssumption DEF IInv, CacheInv, With
  <1>1. ASSUME NEW p \in Packets, Capture(p) PROVE CacheInv'
    <2>1. /\ UNCHANGED <<cacheVars>> /\ fate[p] = "new"
          /\ \/ Judge({p}, "inline") /\ UNCHANGED hands
             \/ Judge({p}, "hand") /\ hands' = hands \cup {p}
      BY <1>1 DEF Capture
    <2>2. With("waiting")' = With("waiting") /\ hands' = With("hand")'
      BY <2>1 DEF Judge
    <2> QED BY <2>1, <2>2 DEF cacheVars
  <1>2. ASSUME NEW p \in Packets, Put(p) PROVE CacheInv'
    <2>1. CASE closed
      <3>1. /\ UNCHANGED cacheVars /\ Judge({p}, "refused") /\ p \in hands
            /\ hands' = hands \ {p}
        BY <1>2, <2>1 DEF Put
      <3>2. With("waiting")' = With("waiting") /\ hands' = With("hand")'
        BY <3>1 DEF Judge
      <3> QED BY <3>1, <3>2 DEF cacheVars
    <2>2. CASE ~closed
      <3> DEFINE room == limit - 1
      <3>1. /\ room \in Nat /\ Admits(p, room) /\ fate[p] = "hand"
            /\ UNCHANGED <<limit, closed>>
        BY <1>2, <2>2, PutFacts DEF Put
      <3>2. limit \in Nat /\ cached.peak \in Nat
        BY DEF TypeOK
      <3> HIDE DEF room
      <3>3. /\ Left(room) \in Seq(Packets) /\ Len(Left(room)) \in Nat
            /\ Len(Left(room)) <= room /\ IsEnd(Left(room), items)
            /\ Gone(room) \subseteq With("waiting")
        BY <3>1, EvictFacts
      <3>4. Elems(items') = With("waiting")' /\ hands' = With("hand")'
        BY <3>1, <3>3 DEF Admits
      <3>5. Len(items') <= limit' /\ Len(items') <= cached'.peak
        <4>1. Len(Left(room)) + 1 <= limit
          BY <3>2, <3>3 DEF room
        <4> QED BY <3>1, <3>2, <3>3, <4>1 DEF Admits
      <3>6. IsEnd(items', log')
        <4>1. items \in Seq(Packets) /\ log \in Seq(Packets) /\ IsEnd(items, log)
          BY <2>2 DEF TypeOK
        <4>2. IsEnd(Left(room), log)
          BY <3>3, <4>1, EndOfEnd
        <4> QED BY <3>1, <3>3, <4>1, <4>2, EndAppend DEF Admits
      <3> QED BY <2>2, <3>1, <3>4, <3>5, <3>6 DEF Admits
    <2> QED BY <2>1, <2>2
  <1>3. ASSUME NEW p \in Packets, InlineClean(p) PROVE CacheInv'
    <2>1. /\ fate[p] = "inline" /\ UNCHANGED <<hands, cacheVars>>
          /\ \E f \in {"clean", "stored", "lost"} : Judge({p}, f)
      BY <1>3 DEF InlineClean, InlineDone
    <2>2. With("waiting")' = With("waiting") /\ With("hand")' = With("hand")
      BY <2>1 DEF Judge
    <2> QED BY <2>1, <2>2 DEF cacheVars
  <1>4. ASSUME NEW p \in Packets, InlineStored(p) PROVE CacheInv'
    <2>1. /\ fate[p] = "inline" /\ UNCHANGED <<hands, cacheVars>>
          /\ \E f \in {"clean", "stored", "lost"} : Judge({p}, f)
      BY <1>4 DEF InlineStored, InlineDone
    <2>2. With("waiting")' = With("waiting") /\ With("hand")' = With("hand")
      BY <2>1 DEF Judge
    <2> QED BY <2>1, <2>2 DEF cacheVars
  <1>5. ASSUME NEW p \in Packets, InlineFails(p) PROVE CacheInv'
    <2>1. /\ fate[p] = "inline" /\ UNCHANGED <<hands, cacheVars>>
          /\ \E f \in {"clean", "stored", "lost"} : Judge({p}, f)
      BY <1>5 DEF InlineFails, InlineDone
    <2>2. With("waiting")' = With("waiting") /\ With("hand")' = With("hand")
      BY <2>1 DEF Judge
    <2> QED BY <2>1, <2>2 DEF cacheVars
  <1>6. ASSUME NEW p \in Packets, NEW n \in 1..2, InlineRecovered(p, n)
        PROVE  CacheInv'
    <2>1. /\ fate[p] = "inline" /\ UNCHANGED <<hands, cacheVars>>
          /\ \E f \in {"clean", "stored", "lost"} : Judge({p}, f)
      BY <1>6 DEF InlineRecovered, InlineDone
    <2>2. With("waiting")' = With("waiting") /\ With("hand")' = With("hand")
      BY <2>1 DEF Judge
    <2> QED BY <2>1, <2>2 DEF cacheVars
  <1>7. ASSUME NEW l \in CacheLimits, SetLimit(l) PROVE CacheInv'
    <2>1. /\ items' = Left(l) /\ limit' = l /\ l \in Nat
          /\ cached' = [cached EXCEPT !.dropped = @ + Excess(l)]
          /\ Judge(Gone(l), "evicted") /\ UNCHANGED <<hands, closed, log>>
      BY <1>7 DEF SetLimit, Left, Gone
    <2>2. /\ Left(l) \in Seq(Packets) /\ Len(Left(l)) \in Nat
          /\ Len(Left(l)) <= Len(items) /\ Len(Left(l)) <= l
          /\ NoDup(Left(l)) /\ IsEnd(Left(l), items) /\ Excess(l) \in Nat
          /\ Elems(Left(l)) = Elems(items) \ Gone(l)
      BY <2>1, EvictFacts
    <2>3. Elems(items') = With("waiting")' /\ hands' = With("hand")'
      BY <2>1, <2>2 DEF Judge, Gone
    <2>4. cached'.peak = cached.peak /\ cached.peak \in Nat /\ Len(items) \in Nat
      BY <2>1, <2>2, DroppedMore, LenProperties DEF TypeOK, Tallies
    <2>5. Len(items') <= limit' /\ Len(items') <= cached'.peak
      BY <2>1, <2>2, <2>4
    <2>6. closed => items' = <<>>
      <3>1. ASSUME closed PROVE items' = <<>>
        <4>1. Len(items) = 0
          BY <3>1, EmptySeq
        <4>2. Len(Left(l)) = 0
          BY <2>2, <4>1
        <4> QED BY <2>1, <2>2, <4>2, EmptySeq
      <3> QED BY <3>1
    <2>7. ~closed => IsEnd(items', log')
      <3>1. items \in Seq(Packets) /\ log \in Seq(Packets)
        BY DEF TypeOK
      <3> QED BY <2>1, <2>2, <3>1, EndOfEnd
    <2> QED BY <2>1, <2>2, <2>3, <2>5, <2>6, <2>7
  <1>8. ASSUME NEW j \in Jobs, Get(j) PROVE CacheInv'
    <2>1. PICK T : Takes(j, T)
      BY <1>8, GetFacts
    <2>2. Elems(items') = With("waiting")' /\ hands' = With("hand")'
      BY <2>1 DEF Takes
    <2>3. /\ limit \in Nat /\ cached.peak \in Nat /\ Len(items) \in Nat
          /\ items \in Seq(Packets) /\ log \in Seq(Packets)
      BY LenProperties DEF TypeOK
    <2>4. Len(items') <= limit' /\ Len(items') <= cached'.peak
      BY <2>1, <2>3 DEF Takes
    <2>5. closed => items' = <<>>
      <3>1. ASSUME closed PROVE items' = <<>>
        <4>1. Len(items) = 0
          BY <3>1, EmptySeq
        <4>2. Len(items') = 0 /\ items' \in Seq(Packets)
          BY <2>1, <4>1 DEF Takes
        <4> QED BY <4>2, EmptySeq
      <3> QED BY <3>1
    <2>6. ~closed => IsEnd(items', log')
      BY <2>1, <2>3, EndOfEnd DEF Takes
    <2> QED BY <2>1, <2>2, <2>4, <2>5, <2>6 DEF Takes
  <1>9. ASSUME NEW j \in Jobs, JobEnds(j) PROVE CacheInv'
    BY <1>9 DEF JobEnds, Goto, cacheVars, dbVars, tallyVars
  <1>10. ASSUME NEW j \in Jobs, GetMany(j) PROVE CacheInv'
    <2>1. PICK T : Takes(j, T)
      BY <1>10, GetManyFacts
    <2>2. Elems(items') = With("waiting")' /\ hands' = With("hand")'
      BY <2>1 DEF Takes
    <2>3. /\ limit \in Nat /\ cached.peak \in Nat /\ Len(items) \in Nat
          /\ items \in Seq(Packets) /\ log \in Seq(Packets)
      BY LenProperties DEF TypeOK
    <2>4. Len(items') <= limit' /\ Len(items') <= cached'.peak
      BY <2>1, <2>3 DEF Takes
    <2>5. closed => items' = <<>>
      <3>1. ASSUME closed PROVE items' = <<>>
        <4>1. Len(items) = 0
          BY <3>1, EmptySeq
        <4>2. Len(items') = 0 /\ items' \in Seq(Packets)
          BY <2>1, <4>1 DEF Takes
        <4> QED BY <4>2, EmptySeq
      <3> QED BY <3>1
    <2>6. ~closed => IsEnd(items', log')
      BY <2>1, <2>3, EndOfEnd DEF Takes
    <2> QED BY <2>1, <2>2, <2>4, <2>5, <2>6 DEF Takes
  <1>11. ASSUME NEW j \in Jobs, NEW v \in Verdicts, Evaluate(j, v.defer, v.outcome)
         PROVE  CacheInv'
    <2>1. Evaluates(j, Head(batch[j]), v.defer, v.outcome)
      BY <1>11, EvaluateFacts
    <2>2. fate[Head(batch[j])] = "taken" /\ UNCHANGED <<hands, cacheVars>>
      BY <2>1 DEF Evaluates, JobInv
    <2>3. With("waiting")' = With("waiting") /\ With("hand")' = With("hand")
      BY <2>1, <2>2 DEF Evaluates
    <2> QED BY <2>2, <2>3 DEF cacheVars
  <1>12. ASSUME NEW j \in Jobs, NEW failed \in SUBSET deferred[j], FlushCommits(j, failed)
         PROVE  CacheInv'
    <2>1. \A p \in deferred[j] : p \in Packets /\ fate[p] = "deferred"
      BY DEF TypeOK, JobInv
    <2>2. With("waiting")' = With("waiting") /\ With("hand")' = With("hand")
      BY <1>12, <2>1 DEF FlushCommits
    <2> QED BY <1>12, <2>2 DEF FlushCommits, cacheVars
  <1>13. ASSUME NEW j \in Jobs, FlushLocked(j) PROVE CacheInv'
    BY <1>13 DEF FlushLocked, cacheVars, dbVars, tallyVars
  <1>14. ASSUME NEW j \in Jobs, FlushFails(j) PROVE CacheInv'
    <2>1. \A p \in deferred[j] : p \in Packets /\ fate[p] = "deferred"
      BY DEF TypeOK, JobInv
    <2>2. With("waiting")' = With("waiting") /\ With("hand")' = With("hand")
      BY <1>14, <2>1 DEF FlushFails, Judge
    <2> QED BY <1>14, <2>2 DEF FlushFails, cacheVars
  <1>15. ASSUME NEW j \in Jobs, Apply(j) PROVE CacheInv'
    BY <1>15 DEF Apply, Tally, Goto, cacheVars, dbVars
  <1>16. ASSUME Close PROVE CacheInv'
    <2>1. /\ closed' = TRUE /\ items' = <<>> /\ UNCHANGED <<hands, limit, cached>>
          /\ Judge(Elems(items), "discarded")
      BY <1>16 DEF Close
    <2>2. Elems(items') = With("waiting")' /\ hands' = With("hand")'
      BY <2>1, ElemsEmpty DEF Judge
    <2>3. Len(items') = 0 /\ NoDup(items') /\ limit \in Nat /\ cached.peak \in Nat
      BY <2>1, ElemsEmpty, EmptySeq DEF TypeOK
    <2>4. Len(items') <= limit' /\ Len(items') <= cached'.peak
      BY <2>1, <2>3
    <2> QED BY <2>1, <2>2, <2>3, <2>4
  <1>17. ASSUME Reset PROVE CacheInv'
    BY <1>17 DEF Reset, cacheVars, jobVars, dbVars
  <1>18. ASSUME ResetCache PROVE CacheInv'
    <2>1. /\ cached'.peak = Len(items) /\ Len(items) \in Nat
          /\ UNCHANGED <<fate, hands, items, limit, closed, log>>
      BY <1>18, LenProperties DEF ResetCache, TypeOK
    <2> QED BY <2>1
  <1>19. ASSUME OtherCommit PROVE CacheInv'
    BY <1>19 DEF OtherCommit, cacheVars, jobVars, tallyVars
  <1>20. ASSUME UNCHANGED vars PROVE CacheInv'
    BY <1>20 DEF vars, cacheVars, jobVars, dbVars, tallyVars
  <1> QED BY <1>1, <1>2, <1>3, <1>4, <1>5, <1>6, <1>7, <1>8, <1>9, <1>10,
      <1>11, <1>12, <1>13, <1>14, <1>15, <1>16, <1>17, <1>18, <1>19, <1>20 DEF
      Next, JobStep, Inline

\* A job has in its batch what it took, until it has dealt with it.
LEMMA StepJob ==
  ASSUME IInv, [Next]_vars PROVE JobInv'
  <1> USE PipelineAssumption DEF IInv, JobInv
  <1>1. ASSUME NEW p \in Packets, Capture(p) PROVE JobInv'
    <2>1. /\ fate[p] = "new" /\ UNCHANGED jobVars
          /\ \E f \in {"inline", "hand"} : Judge({p}, f)
      BY <1>1 DEF Capture
    <2>2. \A q \in Packets : fate[q] \in {"taken", "deferred"} => fate'[q] = fate[q]
      BY <2>1 DEF Judge
    <2> QED BY <2>1, <2>2, JobsKept DEF jobVars
  <1>2. ASSUME NEW p \in Packets, Put(p) PROVE JobInv'
    <2>1. CASE closed
      <3>1. Judge({p}, "refused") /\ fate[p] = "hand" /\ UNCHANGED jobVars
        BY <1>2, <2>1 DEF Put, CacheInv, With
      <3>2. \A q \in Packets : fate[q] \in {"taken", "deferred"} => fate'[q] = fate[q]
        BY <3>1 DEF Judge
      <3> QED BY <3>1, <3>2, JobsKept
    <2>2. CASE ~closed
      <3>1. /\ limit - 1 \in Nat /\ Admits(p, limit - 1) /\ fate[p] = "hand"
            /\ UNCHANGED jobVars
        BY <1>2, <2>2, PutFacts DEF Put
      <3>2. Gone(limit - 1) \subseteq With("waiting")
        BY <3>1, EvictFacts
      <3>3. \A q \in Packets : fate[q] \in {"taken", "deferred"} => fate'[q] = fate[q]
        BY <3>1, <3>2 DEF Admits, With
      <3> QED BY <3>1, <3>3, JobsKept
    <2> QED BY <2>1, <2>2
  <1>3. ASSUME NEW p \in Packets, InlineClean(p) PROVE JobInv'
    <2>1. /\ fate[p] = "inline" /\ UNCHANGED <<hands, cacheVars, jobVars>>
          /\ \E f \in {"clean", "stored", "lost"} : Judge({p}, f)
      BY <1>3 DEF InlineClean, InlineDone
    <2>2. \A q \in Packets : fate[q] \in {"taken", "deferred"} => fate'[q] = fate[q]
      BY <2>1 DEF Judge
    <2> QED BY <2>1, <2>2, JobsKept DEF jobVars
  <1>4. ASSUME NEW p \in Packets, InlineStored(p) PROVE JobInv'
    <2>1. /\ fate[p] = "inline" /\ UNCHANGED <<hands, cacheVars, jobVars>>
          /\ \E f \in {"clean", "stored", "lost"} : Judge({p}, f)
      BY <1>4 DEF InlineStored, InlineDone
    <2>2. \A q \in Packets : fate[q] \in {"taken", "deferred"} => fate'[q] = fate[q]
      BY <2>1 DEF Judge
    <2> QED BY <2>1, <2>2, JobsKept DEF jobVars
  <1>5. ASSUME NEW p \in Packets, InlineFails(p) PROVE JobInv'
    <2>1. /\ fate[p] = "inline" /\ UNCHANGED <<hands, cacheVars, jobVars>>
          /\ \E f \in {"clean", "stored", "lost"} : Judge({p}, f)
      BY <1>5 DEF InlineFails, InlineDone
    <2>2. \A q \in Packets : fate[q] \in {"taken", "deferred"} => fate'[q] = fate[q]
      BY <2>1 DEF Judge
    <2> QED BY <2>1, <2>2, JobsKept DEF jobVars
  <1>6. ASSUME NEW p \in Packets, NEW n \in 1..2, InlineRecovered(p, n)
        PROVE  JobInv'
    <2>1. /\ fate[p] = "inline" /\ UNCHANGED <<hands, cacheVars, jobVars>>
          /\ \E f \in {"clean", "stored", "lost"} : Judge({p}, f)
      BY <1>6 DEF InlineRecovered, InlineDone
    <2>2. \A q \in Packets : fate[q] \in {"taken", "deferred"} => fate'[q] = fate[q]
      BY <2>1 DEF Judge
    <2> QED BY <2>1, <2>2, JobsKept DEF jobVars
  <1>7. ASSUME NEW l \in CacheLimits, SetLimit(l) PROVE JobInv'
    <2>1. /\ Judge(Gone(l), "evicted") /\ l \in Nat /\ UNCHANGED jobVars
      BY <1>7 DEF SetLimit, Left, Gone
    <2>2. Gone(l) \subseteq With("waiting")
      BY <2>1, EvictFacts
    <2>3. \A q \in Packets : fate[q] \in {"taken", "deferred"} => fate'[q] = fate[q]
      BY <2>1, <2>2 DEF Judge, With
    <2> QED BY <2>1, <2>3, JobsKept
  <1>8. ASSUME NEW j \in Jobs, Get(j) PROVE JobInv'
    <2>1. PICK T : Takes(j, T)
      BY <1>8, GetFacts
    <2> QED BY <2>1, JobsTake
  <1>9. ASSUME NEW j \in Jobs, JobEnds(j) PROVE JobInv'
    BY <1>9 DEF JobEnds, Goto, cacheVars, dbVars, tallyVars, TypeOK
  <1>10. ASSUME NEW j \in Jobs, GetMany(j) PROVE JobInv'
    <2>1. PICK T : Takes(j, T)
      BY <1>10, GetManyFacts
    <2> QED BY <2>1, JobsTake
  <1>11. ASSUME NEW j \in Jobs, NEW v \in Verdicts, Evaluate(j, v.defer, v.outcome)
         PROVE  JobInv'
    <2>1. Evaluates(j, Head(batch[j]), v.defer, v.outcome)
      BY <1>11, EvaluateFacts
    <2>2. \A i \in Jobs : /\ Elems(batch[i]) \subseteq Packets
                         /\ deferred[i] \subseteq Packets
      BY ElemsFacts DEF TypeOK
    <2> DEFINE p == Head(batch[j])
    <2>3. fate[p] = "taken"
      BY <2>1 DEF Evaluates
    <2>a. /\ place \in [Jobs -> {"get", "more", "evaluate", "flush", "apply", "gone"}]
          /\ batch \in [Jobs -> Seq(Packets)] /\ deferred \in [Jobs -> SUBSET Packets]
      BY DEF TypeOK
    <2>b. deferred'[j] = IF v.defer THEN deferred[j] \cup {p} ELSE deferred[j]
      BY <2>1, <2>a DEF Evaluates
    <2>4. place' = [place EXCEPT ![j] =
                       IF Tail(batch[j]) # <<>> THEN "evaluate"
                       ELSE IF deferred'[j] = {} THEN "apply" ELSE "flush"]
      BY <1>11, <2>b DEF Evaluate, Goto
    <2> HIDE DEF p
    <2>5. ASSUME NEW i \in Jobs
          PROVE  /\ NoDup(batch'[i]) /\ \A q \in Elems(batch'[i]) : fate'[q] = "taken"
                 /\ \A q \in deferred'[i] : fate'[q] = "deferred"
                 /\ place'[i] \in {"more", "evaluate"} <=> batch'[i] # <<>>
                 /\ place'[i] \notin {"evaluate", "flush"} => deferred'[i] = {}
      <3>1. CASE i = j
        <4>a. v.defer \in BOOLEAN
          BY <1>11, EvaluateFacts
        <4>1. batch'[j] = Tail(batch[j]) /\ v.defer \in BOOLEAN
          BY <2>1, <2>a, <4>a DEF Evaluates
        <4>2. \A q \in Elems(batch'[j]) : fate'[q] = "taken"
          BY <2>1, <2>2, <4>1 DEF Evaluates, p
        <4>3. \A q \in deferred'[j] : fate'[q] = "deferred"
          BY <2>1, <2>2, <2>3, <2>b, <4>1 DEF Evaluates, p
        <4> QED BY <2>1, <2>4, <2>a, <3>1, <4>1, <4>2, <4>3 DEF Evaluates
      <3>2. CASE i # j
        <4>1. /\ batch'[i] = batch[i] /\ deferred'[i] = deferred[i]
              /\ place'[i] = place[i]
          BY <2>1, <2>4, <2>a, <3>2 DEF Evaluates
        <4>2. p \notin Elems(batch[i]) /\ p \notin deferred[i]
          BY <2>1, <2>3, <3>2 DEF Evaluates, OwnInv, p
        <4> QED BY <2>1, <2>2, <4>1, <4>2 DEF Evaluates, p
      <3> QED BY <3>1, <3>2
    <2> QED BY <2>5
  <1>12. ASSUME NEW j \in Jobs, NEW failed \in SUBSET deferred[j], FlushCommits(j, failed)
         PROVE  JobInv'
    <2>1. \A i \in Jobs : /\ Elems(batch[i]) \subseteq Packets
                         /\ deferred[i] \subseteq Packets
      BY ElemsFacts DEF TypeOK
    <2>2. /\ place[j] = "flush" /\ place' = [place EXCEPT ![j] = "apply"]
          /\ deferred' = [deferred EXCEPT ![j] = {}] /\ UNCHANGED batch
          /\ \A p \in Packets : p \notin deferred[j] => fate'[p] = fate[p]
      BY <1>12, <2>1 DEF FlushCommits, Goto
    <2>3. /\ place \in [Jobs -> {"get", "more", "evaluate", "flush", "apply", "gone"}]
          /\ deferred \in [Jobs -> SUBSET Packets]
      BY DEF TypeOK
    <2>4. ASSUME NEW i \in Jobs
          PROVE  /\ NoDup(batch'[i]) /\ \A p \in Elems(batch'[i]) : fate'[p] = "taken"
                 /\ \A p \in deferred'[i] : fate'[p] = "deferred"
                 /\ place'[i] \in {"more", "evaluate"} <=> batch'[i] # <<>>
                 /\ place'[i] \notin {"evaluate", "flush"} => deferred'[i] = {}
      <3>1. \A p \in Elems(batch[i]) : fate'[p] = "taken"
        BY <2>1, <2>2
      <3>2. \A p \in deferred'[i] : fate'[p] = "deferred"
        <4>1. CASE i = j
          BY <2>2, <2>3, <4>1
        <4>2. CASE i # j
          BY <2>1, <2>2, <2>3, <4>2 DEF OwnInv
        <4> QED BY <4>1, <4>2
      <3> QED BY <2>2, <2>3, <3>1, <3>2
    <2> QED BY <2>4
  <1>13. ASSUME NEW j \in Jobs, FlushLocked(j) PROVE JobInv'
    BY <1>13 DEF FlushLocked, cacheVars, dbVars, tallyVars
  <1>14. ASSUME NEW j \in Jobs, FlushFails(j) PROVE JobInv'
    <2>1. \A i \in Jobs : /\ Elems(batch[i]) \subseteq Packets
                         /\ deferred[i] \subseteq Packets
      BY ElemsFacts DEF TypeOK
    <2>2. /\ place[j] = "flush" /\ place' = [place EXCEPT ![j] = "apply"]
          /\ deferred' = [deferred EXCEPT ![j] = {}] /\ UNCHANGED batch
          /\ \A p \in Packets : p \notin deferred[j] => fate'[p] = fate[p]
      BY <1>14, <2>1 DEF FlushFails, Goto, Judge
    <2>3. /\ place \in [Jobs -> {"get", "more", "evaluate", "flush", "apply", "gone"}]
          /\ deferred \in [Jobs -> SUBSET Packets]
      BY DEF TypeOK
    <2>4. ASSUME NEW i \in Jobs
          PROVE  /\ NoDup(batch'[i]) /\ \A p \in Elems(batch'[i]) : fate'[p] = "taken"
                 /\ \A p \in deferred'[i] : fate'[p] = "deferred"
                 /\ place'[i] \in {"more", "evaluate"} <=> batch'[i] # <<>>
                 /\ place'[i] \notin {"evaluate", "flush"} => deferred'[i] = {}
      <3>1. \A p \in Elems(batch[i]) : fate'[p] = "taken"
        BY <2>1, <2>2
      <3>2. \A p \in deferred'[i] : fate'[p] = "deferred"
        <4>1. CASE i = j
          BY <2>2, <2>3, <4>1
        <4>2. CASE i # j
          BY <2>1, <2>2, <2>3, <4>2 DEF OwnInv
        <4> QED BY <4>1, <4>2
      <3> QED BY <2>2, <2>3, <3>1, <3>2
    <2> QED BY <2>4
  <1>15. ASSUME NEW j \in Jobs, Apply(j) PROVE JobInv'
    BY <1>15 DEF Apply, Tally, Goto, cacheVars, dbVars, TypeOK
  <1>16. ASSUME Close PROVE JobInv'
    <2>1. /\ Judge(With("waiting"), "discarded") /\ UNCHANGED jobVars
      BY <1>16 DEF Close, CacheInv
    <2>2. \A q \in Packets : fate[q] \in {"taken", "deferred"} => fate'[q] = fate[q]
      BY <2>1 DEF Judge, With
    <2> QED BY <2>1, <2>2, JobsKept
  <1>17. ASSUME Reset PROVE JobInv'
    BY <1>17 DEF Reset, cacheVars, jobVars, dbVars
  <1>18. ASSUME ResetCache PROVE JobInv'
    BY <1>18 DEF ResetCache, jobVars, dbVars
  <1>19. ASSUME OtherCommit PROVE JobInv'
    BY <1>19 DEF OtherCommit, cacheVars, jobVars, tallyVars
  <1>20. ASSUME UNCHANGED vars PROVE JobInv'
    BY <1>20 DEF vars, cacheVars, jobVars, dbVars, tallyVars
  <1> QED BY <1>1, <1>2, <1>3, <1>4, <1>5, <1>6, <1>7, <1>8, <1>9, <1>10,
      <1>11, <1>12, <1>13, <1>14, <1>15, <1>16, <1>17, <1>18, <1>19, <1>20 DEF
      Next, JobStep, Inline

\* No step makes a packet two jobs' business.
LEMMA StepOwn ==
  ASSUME IInv, [Next]_vars PROVE OwnInv'
  <1> USE PipelineAssumption DEF IInv, OwnInv
  <1>1. ASSUME NEW p \in Packets, Capture(p) PROVE OwnInv'
    BY <1>1 DEF Capture, Judge, cacheVars, jobVars, dbVars, tallyVars
  <1>2. ASSUME NEW p \in Packets, Put(p) PROVE OwnInv'
    BY <1>2 DEF Put, Judge, cacheVars, jobVars, dbVars, tallyVars
  <1>3. ASSUME NEW p \in Packets, InlineClean(p) PROVE OwnInv'
    BY <1>3 DEF InlineClean, InlineDone, dbVars, Judge, cacheVars, jobVars
  <1>4. ASSUME NEW p \in Packets, InlineStored(p) PROVE OwnInv'
    BY <1>4 DEF InlineStored, InlineDone, Judge, cacheVars, jobVars
  <1>5. ASSUME NEW p \in Packets, InlineFails(p) PROVE OwnInv'
    BY <1>5 DEF InlineFails, InlineDone, Judge, cacheVars, jobVars
  <1>6. ASSUME NEW p \in Packets, NEW n \in 1..2, InlineRecovered(p, n)
        PROVE  OwnInv'
    BY <1>6 DEF InlineRecovered, InlineDone, Judge, cacheVars, jobVars
  <1>7. ASSUME NEW l \in CacheLimits, SetLimit(l) PROVE OwnInv'
    BY <1>7 DEF SetLimit, Judge, jobVars, dbVars, tallyVars
  <1>8. ASSUME NEW j \in Jobs, Get(j) PROVE OwnInv'
    <2>1. PICK T : Takes(j, T)
      BY <1>8, GetFacts
    <2> QED BY <2>1, OwnTake
  <1>9. ASSUME NEW j \in Jobs, JobEnds(j) PROVE OwnInv'
    BY <1>9 DEF JobEnds, Goto, cacheVars, dbVars, tallyVars
  <1>10. ASSUME NEW j \in Jobs, GetMany(j) PROVE OwnInv'
    <2>1. PICK T : Takes(j, T)
      BY <1>10, GetManyFacts
    <2> QED BY <2>1, OwnTake
  <1>11. ASSUME NEW j \in Jobs, NEW v \in Verdicts, Evaluate(j, v.defer, v.outcome)
         PROVE  OwnInv'
    <2>1. Evaluates(j, Head(batch[j]), v.defer, v.outcome)
      BY <1>11, EvaluateFacts
    <2>2. /\ batch \in [Jobs -> Seq(Packets)] /\ deferred \in [Jobs -> SUBSET Packets]
          /\ fate[Head(batch[j])] = "taken"
      BY <2>1 DEF TypeOK, Evaluates, JobInv
    <2>3. /\ Elems(batch'[j]) \subseteq Elems(batch[j])
          /\ deferred'[j] \subseteq deferred[j] \cup {Head(batch[j])}
          /\ \A i \in Jobs \ {j} : batch'[i] = batch[i] /\ deferred'[i] = deferred[i]
      BY <2>1, <2>2 DEF Evaluates
    <2>4. \A i \in Jobs \ {j} : Head(batch[j]) \notin deferred[i]
      BY <2>2 DEF JobInv
    <2> QED BY <2>3, <2>4
  <1>12. ASSUME NEW j \in Jobs, NEW failed \in SUBSET deferred[j], FlushCommits(j, failed)
         PROVE  OwnInv'
    BY <1>12 DEF FlushCommits, BatchOutcome, Goto, cacheVars, tallyVars, TypeOK
  <1>13. ASSUME NEW j \in Jobs, FlushLocked(j) PROVE OwnInv'
    BY <1>13 DEF FlushLocked, cacheVars, dbVars, tallyVars
  <1>14. ASSUME NEW j \in Jobs, FlushFails(j) PROVE OwnInv'
    BY <1>14 DEF FlushFails, Judge, Goto, cacheVars, dbVars, tallyVars, TypeOK
  <1>15. ASSUME NEW j \in Jobs, Apply(j) PROVE OwnInv'
    BY <1>15 DEF Apply, Tally, Goto, cacheVars, dbVars
  <1>16. ASSUME Close PROVE OwnInv'
    BY <1>16 DEF Close, Judge, jobVars, dbVars, tallyVars
  <1>17. ASSUME Reset PROVE OwnInv'
    BY <1>17 DEF Reset, cacheVars, jobVars, dbVars
  <1>18. ASSUME ResetCache PROVE OwnInv'
    BY <1>18 DEF ResetCache, jobVars, dbVars
  <1>19. ASSUME OtherCommit PROVE OwnInv'
    BY <1>19 DEF OtherCommit, cacheVars, jobVars, tallyVars
  <1>20. ASSUME UNCHANGED vars PROVE OwnInv'
    BY <1>20 DEF vars, cacheVars, jobVars, dbVars, tallyVars
  <1> QED BY <1>1, <1>2, <1>3, <1>4, <1>5, <1>6, <1>7, <1>8, <1>9, <1>10,
      <1>11, <1>12, <1>13, <1>14, <1>15, <1>16, <1>17, <1>18, <1>19, <1>20 DEF
      Next, JobStep, Inline

\* The log knows who came through the cache.
LEMMA StepLog ==
  ASSUME IInv, [Next]_vars PROVE LogInv'
  <1> USE PipelineAssumption DEF IInv, LogInv
  <1>1. ASSUME NEW p \in Packets, Capture(p) PROVE LogInv'
    <2>1. /\ fate[p] = "new" /\ UNCHANGED log
          /\ \E f \in {"inline", "hand"} : Judge({p}, f)
      BY <1>1 DEF Capture, cacheVars
    <2> QED BY <2>1 DEF Judge
  <1>2. ASSUME NEW p \in Packets, Put(p) PROVE LogInv'
    <2>1. CASE closed
      <3>1. Judge({p}, "refused") /\ fate[p] = "hand" /\ UNCHANGED log
        BY <1>2, <2>1 DEF Put, CacheInv, With, cacheVars
      <3> QED BY <3>1 DEF Judge
    <2>2. CASE ~closed
      <3>1. limit - 1 \in Nat /\ Admits(p, limit - 1) /\ fate[p] = "hand"
        BY <1>2, <2>2, PutFacts
      <3>2. Gone(limit - 1) \subseteq With("waiting")
        BY <3>1, EvictFacts
      <3> QED BY <3>1, <3>2 DEF Admits, With
    <2> QED BY <2>1, <2>2
  <1>3. ASSUME NEW p \in Packets, InlineClean(p) PROVE LogInv'
    <2>1. /\ fate[p] = "inline" /\ UNCHANGED <<hands, cacheVars, jobVars>>
          /\ \E f \in {"clean", "stored", "lost"} : Judge({p}, f)
      BY <1>3 DEF InlineClean, InlineDone
    <2> QED BY <2>1 DEF Judge, cacheVars
  <1>4. ASSUME NEW p \in Packets, InlineStored(p) PROVE LogInv'
    <2>1. /\ fate[p] = "inline" /\ UNCHANGED <<hands, cacheVars, jobVars>>
          /\ \E f \in {"clean", "stored", "lost"} : Judge({p}, f)
      BY <1>4 DEF InlineStored, InlineDone
    <2> QED BY <2>1 DEF Judge, cacheVars
  <1>5. ASSUME NEW p \in Packets, InlineFails(p) PROVE LogInv'
    <2>1. /\ fate[p] = "inline" /\ UNCHANGED <<hands, cacheVars, jobVars>>
          /\ \E f \in {"clean", "stored", "lost"} : Judge({p}, f)
      BY <1>5 DEF InlineFails, InlineDone
    <2> QED BY <2>1 DEF Judge, cacheVars
  <1>6. ASSUME NEW p \in Packets, NEW n \in 1..2, InlineRecovered(p, n)
        PROVE  LogInv'
    <2>1. /\ fate[p] = "inline" /\ UNCHANGED <<hands, cacheVars, jobVars>>
          /\ \E f \in {"clean", "stored", "lost"} : Judge({p}, f)
      BY <1>6 DEF InlineRecovered, InlineDone
    <2> QED BY <2>1 DEF Judge, cacheVars
  <1>7. ASSUME NEW l \in CacheLimits, SetLimit(l) PROVE LogInv'
    <2>1. /\ Judge(Gone(l), "evicted") /\ l \in Nat /\ UNCHANGED log
      BY <1>7 DEF SetLimit, Left, Gone
    <2>2. Gone(l) \subseteq With("waiting")
      BY <2>1, EvictFacts
    <2> QED BY <2>1, <2>2 DEF Judge, With
  <1>8. ASSUME NEW j \in Jobs, Get(j) PROVE LogInv'
    <2>1. PICK T : Takes(j, T)
      BY <1>8, GetFacts
    <2> QED BY <2>1 DEF Takes, CacheInv, With
  <1>9. ASSUME NEW j \in Jobs, JobEnds(j) PROVE LogInv'
    BY <1>9 DEF JobEnds, Goto, cacheVars, dbVars, tallyVars
  <1>10. ASSUME NEW j \in Jobs, GetMany(j) PROVE LogInv'
    <2>1. PICK T : Takes(j, T)
      BY <1>10, GetManyFacts
    <2> QED BY <2>1 DEF Takes, CacheInv, With
  <1>11. ASSUME NEW j \in Jobs, NEW v \in Verdicts, Evaluate(j, v.defer, v.outcome)
         PROVE  LogInv'
    <2>1. Evaluates(j, Head(batch[j]), v.defer, v.outcome)
      BY <1>11, EvaluateFacts
    <2>2. fate[Head(batch[j])] = "taken" /\ UNCHANGED log
      BY <2>1 DEF Evaluates, JobInv, cacheVars
    <2> QED BY <2>1, <2>2 DEF Evaluates
  <1>12. ASSUME NEW j \in Jobs, NEW failed \in SUBSET deferred[j], FlushCommits(j, failed)
         PROVE  LogInv'
    <2>1. \A p \in deferred[j] : fate[p] = "deferred"
      BY DEF JobInv
    <2> QED BY <1>12, <2>1 DEF FlushCommits, cacheVars
  <1>13. ASSUME NEW j \in Jobs, FlushLocked(j) PROVE LogInv'
    BY <1>13 DEF FlushLocked, cacheVars, dbVars, tallyVars
  <1>14. ASSUME NEW j \in Jobs, FlushFails(j) PROVE LogInv'
    <2>1. \A p \in deferred[j] : fate[p] = "deferred"
      BY DEF JobInv
    <2> QED BY <1>14, <2>1 DEF FlushFails, Judge, cacheVars
  <1>15. ASSUME NEW j \in Jobs, Apply(j) PROVE LogInv'
    BY <1>15 DEF Apply, Tally, Goto, cacheVars, dbVars
  <1>16. ASSUME Close PROVE LogInv'
    <2>1. /\ Judge(With("waiting"), "discarded") /\ UNCHANGED log
      BY <1>16 DEF Close, CacheInv
    <2> QED BY <2>1 DEF Judge, With
  <1>17. ASSUME Reset PROVE LogInv'
    BY <1>17 DEF Reset, cacheVars, jobVars, dbVars
  <1>18. ASSUME ResetCache PROVE LogInv'
    BY <1>18 DEF ResetCache, jobVars, dbVars
  <1>19. ASSUME OtherCommit PROVE LogInv'
    BY <1>19 DEF OtherCommit, cacheVars, jobVars, tallyVars
  <1>20. ASSUME UNCHANGED vars PROVE LogInv'
    BY <1>20 DEF vars, cacheVars, jobVars, dbVars, tallyVars
  <1> QED BY <1>1, <1>2, <1>3, <1>4, <1>5, <1>6, <1>7, <1>8, <1>9, <1>10,
      <1>11, <1>12, <1>13, <1>14, <1>15, <1>16, <1>17, <1>18, <1>19, <1>20 DEF
      Next, JobStep, Inline

\* A job writes a packet once, or not at all.
LEMMA StepRow ==
  ASSUME IInv, [Next]_vars PROVE RowInv'
  <1> USE PipelineAssumption DEF IInv, RowInv
  <1>1. ASSUME NEW p \in Packets, Capture(p) PROVE RowInv'
    <2>1. /\ fate[p] = "new" /\ UNCHANGED <<log, rows>>
          /\ \E f \in {"inline", "hand"} : Judge({p}, f)
      BY <1>1 DEF Capture, cacheVars, dbVars
    <2> QED BY <2>1 DEF Judge
  <1>2. ASSUME NEW p \in Packets, Put(p) PROVE RowInv'
    <2>1. CASE closed
      <3>1. Judge({p}, "refused") /\ fate[p] = "hand" /\ UNCHANGED <<log, rows>>
        BY <1>2, <2>1 DEF Put, CacheInv, With, cacheVars, dbVars
      <3> QED BY <3>1 DEF Judge
    <2>2. CASE ~closed
      <3>1. /\ limit - 1 \in Nat /\ Admits(p, limit - 1) /\ fate[p] = "hand"
            /\ UNCHANGED rows
        BY <1>2, <2>2, PutFacts DEF Put, dbVars
      <3>2. Gone(limit - 1) \subseteq With("waiting")
        BY <3>1, EvictFacts
      <3> QED BY <3>1, <3>2 DEF Admits, With
    <2> QED BY <2>1, <2>2
  <1>3. ASSUME NEW p \in Packets, InlineClean(p) PROVE RowInv'
    BY <1>3 DEF InlineClean, InlineDone, Judge, cacheVars, dbVars
  <1>4. ASSUME NEW p \in Packets, InlineStored(p) PROVE RowInv'
    <2>1. /\ fate[p] = "inline" /\ UNCHANGED log
          /\ \E f \in {"stored", "lost"} : Judge({p}, f)
          /\ \A q \in Packets \ {p} : rows'[q] = rows[q]
      BY <1>4 DEF InlineStored, InlineDone, cacheVars, TypeOK
    <2> QED BY <2>1 DEF Judge, LogInv
  <1>5. ASSUME NEW p \in Packets, InlineFails(p) PROVE RowInv'
    <2>1. /\ fate[p] = "inline" /\ UNCHANGED log
          /\ \E f \in {"stored", "lost"} : Judge({p}, f)
          /\ \A q \in Packets \ {p} : rows'[q] = rows[q]
      BY <1>5 DEF InlineFails, InlineDone, cacheVars, TypeOK
    <2> QED BY <2>1 DEF Judge, LogInv
  <1>6. ASSUME NEW p \in Packets, NEW n \in 1..2, InlineRecovered(p, n)
        PROVE  RowInv'
    <2>1. /\ fate[p] = "inline" /\ UNCHANGED log
          /\ \E f \in {"stored", "lost"} : Judge({p}, f)
          /\ \A q \in Packets \ {p} : rows'[q] = rows[q]
      BY <1>6 DEF InlineRecovered, InlineDone, cacheVars, TypeOK
    <2> QED BY <2>1 DEF Judge, LogInv
  <1>7. ASSUME NEW l \in CacheLimits, SetLimit(l) PROVE RowInv'
    <2>1. /\ Judge(Gone(l), "evicted") /\ l \in Nat /\ UNCHANGED <<log, rows>>
      BY <1>7 DEF SetLimit, Left, Gone, dbVars
    <2>2. Gone(l) \subseteq With("waiting")
      BY <2>1, EvictFacts
    <2> QED BY <2>1, <2>2 DEF Judge, With
  <1>8. ASSUME NEW j \in Jobs, Get(j) PROVE RowInv'
    <2>1. PICK T : Takes(j, T)
      BY <1>8, GetFacts
    <2> QED BY <2>1 DEF Takes, CacheInv, With, dbVars
  <1>9. ASSUME NEW j \in Jobs, JobEnds(j) PROVE RowInv'
    BY <1>9 DEF JobEnds, Goto, cacheVars, dbVars, tallyVars
  <1>10. ASSUME NEW j \in Jobs, GetMany(j) PROVE RowInv'
    <2>1. PICK T : Takes(j, T)
      BY <1>10, GetManyFacts
    <2> QED BY <2>1 DEF Takes, CacheInv, With, dbVars
  <1>11. ASSUME NEW j \in Jobs, NEW v \in Verdicts, Evaluate(j, v.defer, v.outcome)
         PROVE  RowInv'
    <2>1. Evaluates(j, Head(batch[j]), v.defer, v.outcome)
      BY <1>11, EvaluateFacts
    <2>2. fate[Head(batch[j])] = "taken" /\ UNCHANGED <<log, rows>>
      BY <2>1 DEF Evaluates, JobInv, cacheVars, dbVars
    <2> QED BY <2>1, <2>2 DEF Evaluates
  <1>12. ASSUME NEW j \in Jobs, NEW failed \in SUBSET deferred[j], FlushCommits(j, failed)
         PROVE  RowInv'
    <2>1. \A p \in deferred[j] : fate[p] = "deferred"
      BY DEF JobInv
    <2>2. \A p \in Packets : p \in deferred[j] => rows[p] = 0
      BY <2>1
    <2> QED BY <1>12, <2>1, <2>2 DEF FlushCommits, cacheVars
  <1>13. ASSUME NEW j \in Jobs, FlushLocked(j) PROVE RowInv'
    BY <1>13 DEF FlushLocked, cacheVars, dbVars, tallyVars
  <1>14. ASSUME NEW j \in Jobs, FlushFails(j) PROVE RowInv'
    <2>1. \A p \in deferred[j] : fate[p] = "deferred"
      BY DEF JobInv
    <2> QED BY <1>14, <2>1 DEF FlushFails, Judge, cacheVars, dbVars
  <1>15. ASSUME NEW j \in Jobs, Apply(j) PROVE RowInv'
    BY <1>15 DEF Apply, Tally, Goto, cacheVars, dbVars
  <1>16. ASSUME Close PROVE RowInv'
    <2>1. /\ Judge(With("waiting"), "discarded") /\ UNCHANGED <<log, rows>>
      BY <1>16 DEF Close, CacheInv, dbVars
    <2> QED BY <2>1 DEF Judge, With
  <1>17. ASSUME Reset PROVE RowInv'
    BY <1>17 DEF Reset, cacheVars, jobVars, dbVars
  <1>18. ASSUME ResetCache PROVE RowInv'
    BY <1>18 DEF ResetCache, jobVars, dbVars
  <1>19. ASSUME OtherCommit PROVE RowInv'
    BY <1>19 DEF OtherCommit, cacheVars, jobVars, tallyVars
  <1>20. ASSUME UNCHANGED vars PROVE RowInv'
    BY <1>20 DEF vars, cacheVars, jobVars, dbVars, tallyVars
  <1> QED BY <1>1, <1>2, <1>3, <1>4, <1>5, <1>6, <1>7, <1>8, <1>9, <1>10,
      <1>11, <1>12, <1>13, <1>14, <1>15, <1>16, <1>17, <1>18, <1>19, <1>20 DEF
      Next, JobStep, Inline

-----------------------------------------------------------------------------
(* The totals. *)

\* Total, for the state the variables c, z and p describe.
Sum(c, z, p, n) == c[n] + z.total[n] + JobsTotal(p, n)

LEMMA TotalIs ==
  /\ \A n : Total(n) = Sum(count, zeroed, pending, n)
  /\ \A n : Total(n)' = Sum(count', zeroed', pending', n)
  <1>1. ASSUME NEW n PROVE Total(n) = Sum(count, zeroed, pending, n)
    BY DEF Total, Sum, JobsTotal, MapThenSumSet, MapThenFoldSet
  <1>2. ASSUME NEW n PROVE Total(n)' = Sum(count', zeroed', pending', n)
    BY DEF Total, Sum, JobsTotal, MapThenSumSet, MapThenFoldSet
  <1> QED BY <1>1, <1>2

LEMMA SumType ==
  ASSUME TypeOK, NEW n \in Names
  PROVE  /\ count[n] \in Nat /\ zeroed.total[n] \in Nat
         /\ JobsTotal(pending, n) \in Nat /\ Total(n) \in Nat
  <1>1. count[n] \in Nat /\ zeroed.total[n] \in Nat
    BY DEF TypeOK, Counts, Names
  <1>2. JobsTotal(pending, n) \in Nat
    BY SumIsNat DEF TypeOK
  <1> QED BY <1>1, <1>2, TotalIs DEF Sum

LEMMA SetType ==
  ASSUME TypeOK
  PROVE  /\ Evaluations \in SUBSET Packets /\ Unwritten \in SUBSET Packets
         /\ \A f : With(f) \in SUBSET Packets
         /\ Cardinality(Evaluations) \in Nat /\ Cardinality(Unwritten) \in Nat
         /\ \A f : Cardinality(With(f)) \in Nat
  <1>1. Elems(log) \subseteq Packets
    BY ElemsFacts DEF TypeOK
  <1>2. /\ Evaluations \in SUBSET Packets /\ Unwritten \in SUBSET Packets
        /\ \A f : With(f) \in SUBSET Packets
    BY <1>1 DEF Evaluations, Unwritten, With
  <1> QED BY <1>2, PacketSets

\* What a step adds to the totals: s to the packets stored, e and u to those
\* evaluated and those of them not written.
Adds2(s, e, u) ==
  /\ Total("persisted")' = Total("persisted") + s
  /\ (Total("processed") + Total("errors") + Total("write_errors"))' =
       (Total("processed") + Total("errors") + Total("write_errors")) + e + u
  /\ Cardinality(With("stored"))' = Cardinality(With("stored")) + s
  /\ Cardinality(Evaluations)' = Cardinality(Evaluations) + e
  /\ Cardinality(Unwritten)' = Cardinality(Unwritten) + u

LEMMA TotalsMove ==
  ASSUME IInv, NEW s \in Nat, NEW e \in Nat, NEW u \in Nat, Adds2(s, e, u)
  PROVE  PipelineAddsUp'
  <1>1. Cardinality(Evaluations) \in Nat /\ Cardinality(Unwritten) \in Nat
    BY SetType DEF IInv
  <1> QED BY <1>1 DEF IInv, PipelineAddsUp, Adds2

\* A step that counts nothing, stores nothing and evaluates nothing.
LEMMA TotalsKept ==
  ASSUME IInv, UNCHANGED <<count, pending>>, zeroed'.total = zeroed.total,
         With("stored")' = With("stored"), Evaluations' = Evaluations,
         Unwritten' = Unwritten
  PROVE  PipelineAddsUp'
  <1>1. \A n : Total(n)' = Total(n)
    BY TotalIs DEF Sum
  <1> QED BY <1>1 DEF IInv, PipelineAddsUp

\* The fates the counters tell apart.
Told == {"evicted", "clean", "deferred", "stored", "lost"}

\* A step on packets that are none of the counters' business yet.
LEMMA FatesKept ==
  ASSUME IInv, UNCHANGED log,
         \A q \in Packets : fate'[q] = fate[q] \/ (fate[q] \notin Told /\ fate'[q] \notin Told)
  PROVE  /\ With("evicted")' = With("evicted") /\ With("stored")' = With("stored")
         /\ Evaluations' = Evaluations /\ Unwritten' = Unwritten
  <1>1. Elems(log) \subseteq Packets
    BY ElemsFacts DEF IInv, TypeOK
  <1> QED BY <1>1 DEF With, Evaluations, Unwritten, Told

LEMMA TallyKept ==
  ASSUME IInv, UNCHANGED <<cached, log>>, zeroed'.accepted = zeroed.accepted,
         zeroed'.dropped = zeroed.dropped, With("evicted")' = With("evicted")
  PROVE  TallyInv'
  BY DEF IInv, TallyInv

\* The steps that count nothing.
Quiet ==
  \/ \E p \in Packets : Capture(p) \/ (closed /\ Put(p))
  \/ \E j \in Jobs : Get(j) \/ JobEnds(j) \/ GetMany(j) \/ FlushLocked(j)
  \/ Close \/ OtherCommit \/ UNCHANGED vars

LEMMA QuietStep ==
  ASSUME IInv, Quiet
  PROVE  /\ UNCHANGED <<cached, log, count, zeroed, pending>>
         /\ With("evicted")' = With("evicted") /\ With("stored")' = With("stored")
         /\ Evaluations' = Evaluations /\ Unwritten' = Unwritten
  <1> DEFINE Untold == \A q \in Packets : \/ fate'[q] = fate[q]
                                          \/ fate[q] \notin Told /\ fate'[q] \notin Told
             Still == UNCHANGED <<cached, log, count, zeroed, pending>>
  <1>1. ASSUME NEW p \in Packets, Capture(p) PROVE Untold /\ Still
    BY <1>1 DEF Capture, Judge, Told, cacheVars, jobVars, tallyVars
  <1>2. ASSUME NEW p \in Packets, closed, Put(p) PROVE Untold /\ Still
    <2>1. fate[p] = "hand" /\ Judge({p}, "refused")
      BY <1>2 DEF Put, IInv, CacheInv, With
    <2>2. Untold
      BY <2>1 DEF Judge, Told
    <2> QED BY <1>2, <2>2 DEF Put, cacheVars, jobVars, tallyVars
  <1>3. ASSUME NEW j \in Jobs, Get(j) \/ GetMany(j) PROVE Untold /\ Still
    <2>1. PICK T : Takes(j, T)
      BY <1>3, GetFacts, GetManyFacts
    <2>2. Untold
      BY <2>1 DEF Takes, IInv, CacheInv, With, Told
    <2> QED BY <2>1, <2>2 DEF Takes, tallyVars
  <1>4. ASSUME NEW j \in Jobs, JobEnds(j) \/ FlushLocked(j) PROVE Untold /\ Still
    BY <1>4 DEF JobEnds, FlushLocked, cacheVars, tallyVars
  <1>5. ASSUME Close PROVE Untold /\ Still
    <2>1. Untold
      BY <1>5 DEF Close, Judge, IInv, CacheInv, With, Told
    <2> QED BY <1>5, <2>1 DEF Close, jobVars, tallyVars
  <1>6. ASSUME OtherCommit \/ UNCHANGED vars PROVE Untold /\ Still
    BY <1>6 DEF OtherCommit, vars, cacheVars, jobVars, tallyVars
  <1>7. Untold /\ Still
    BY <1>1, <1>2, <1>3, <1>4, <1>5, <1>6 DEF Quiet
  <1> QED BY <1>7, FatesKept

\* What an eviction does to the sets that are counted.
LEMMA EvictedSets ==
  ASSUME IInv, NEW room \in Nat, Elems(log') \subseteq Packets,
         \A q \in Packets :
           /\ q \in Gone(room) => fate'[q] = "evicted"
           /\ q \notin Gone(room) =>
                \/ fate'[q] = fate[q] /\ (q \in Elems(log') <=> q \in Elems(log))
                \/ fate[q] \notin Told /\ fate'[q] \notin Told
           /\ q \in Elems(log) => q \in Elems(log')
  PROVE  /\ Cardinality(With("evicted"))' =
              Cardinality(With("evicted")) + Excess(room)
         /\ With("stored")' = With("stored")
         /\ Evaluations' = Evaluations /\ Unwritten' = Unwritten
  <1>1. /\ Gone(room) \in SUBSET Packets /\ Gone(room) \subseteq With("waiting")
        /\ Cardinality(Gone(room)) = Excess(room)
    BY EvictFacts
  <1>2. Elems(log) \subseteq Packets
    BY ElemsFacts DEF IInv, TypeOK
  <1>3. With("stored")' = With("stored")
    BY <1>1 DEF With, Told
  <1>4. Evaluations' = Evaluations /\ Unwritten' = Unwritten
    BY <1>1, <1>2 DEF With, Evaluations, Unwritten, Told
  <1>5. With("evicted")' = With("evicted") \cup Gone(room)
    BY <1>1 DEF With, Told
  <1>6. With("evicted") \cap Gone(room) = {} /\ With("evicted") \in SUBSET Packets
    BY <1>1 DEF With
  <1>7. Cardinality(With("evicted") \cup Gone(room)) =
          Cardinality(With("evicted")) + Cardinality(Gone(room))
    BY <1>1, <1>6, JoinSets
  <1> QED BY <1>1, <1>3, <1>4, <1>5, <1>7

\* put() on an open cache, and set_limit().
LEMMA EvictStep ==
  ASSUME IInv, \/ \E p \in Packets : ~closed /\ Put(p)
               \/ \E l \in CacheLimits : SetLimit(l)
  PROVE  TallyInv' /\ PipelineAddsUp'
  <1>1. /\ cached.accepted \in Nat /\ cached.dropped \in Nat /\ Len(log) \in Nat
        /\ zeroed.accepted \in Nat /\ zeroed.dropped \in Nat /\ cached \in Tallies
        /\ Cardinality(With("evicted")) \in Nat /\ Elems(log) \subseteq Packets
    BY SetType, LenProperties, ElemsFacts DEF IInv, TypeOK, Tallies
  <1>2. ASSUME NEW p \in Packets, ~closed, Put(p) PROVE TallyInv' /\ PipelineAddsUp'
    <2> DEFINE room == limit - 1
    <2>1. /\ room \in Nat /\ Admits(p, room) /\ fate[p] = "hand" /\ p \notin Elems(log)
      BY <1>2, PutFacts
    <2>2. UNCHANGED <<count, pending, zeroed>>
      BY <1>2 DEF Put, jobVars, tallyVars
    <2> HIDE DEF room
    <2>3. /\ Gone(room) \subseteq With("waiting") /\ Excess(room) \in Nat
      BY <2>1, EvictFacts
    <2>4. /\ Cardinality(With("evicted"))' =
               Cardinality(With("evicted")) + Excess(room)
          /\ With("stored")' = With("stored")
          /\ Evaluations' = Evaluations /\ Unwritten' = Unwritten
      <3>1. Elems(log') = Elems(log) \cup {p} /\ Elems(log') \subseteq Packets
        BY <1>1, <2>1 DEF Admits
      <3>2. p \notin Gone(room)
        BY <2>1, <2>3 DEF With
      <3>3. ASSUME NEW q \in Packets
            PROVE  /\ q \in Gone(room) => fate'[q] = "evicted"
                   /\ q \notin Gone(room) =>
                        \/ fate'[q] = fate[q] /\ (q \in Elems(log') <=> q \in Elems(log))
                        \/ fate[q] \notin Told /\ fate'[q] \notin Told
                   /\ q \in Elems(log) => q \in Elems(log')
        BY <2>1, <3>1, <3>2 DEF Admits, Told
      <3> QED BY <2>1, <3>1, <3>3, EvictedSets
    <2>5. /\ cached'.accepted = cached.accepted + 1 /\ Len(log') = Len(log) + 1
          /\ cached'.dropped = cached.dropped + Excess(room)
      BY <2>1 DEF Admits
    <2>6. TallyInv'
      <3>1. TallyInv /\ zeroed' = zeroed
        BY <2>2 DEF IInv
      <3>2. cached'.accepted + zeroed'.accepted = Len(log')
        BY <1>1, <2>5, <3>1 DEF TallyInv
      <3>3. cached'.dropped + zeroed'.dropped = Cardinality(With("evicted"))'
        BY <1>1, <2>3, <2>4, <2>5, <3>1 DEF TallyInv
      <3> QED BY <3>2, <3>3 DEF TallyInv
    <2> QED BY <2>2, <2>4, <2>6, TotalsKept
  <1>3. ASSUME NEW l \in CacheLimits, SetLimit(l) PROVE TallyInv' /\ PipelineAddsUp'
    <2>1. /\ Judge(Gone(l), "evicted") /\ cached' = [cached EXCEPT !.dropped = @ + Excess(l)]
          /\ UNCHANGED <<log, count, pending, zeroed>> /\ l \in Nat
      BY <1>3, PipelineAssumption DEF SetLimit, Left, Gone, jobVars, tallyVars
    <2>2. Excess(l) \in Nat
      BY <2>1, EvictFacts
    <2>3. /\ Cardinality(With("evicted"))' = Cardinality(With("evicted")) + Excess(l)
          /\ With("stored")' = With("stored")
          /\ Evaluations' = Evaluations /\ Unwritten' = Unwritten
      <3>1. \A q \in Packets : /\ q \in Gone(l) => fate'[q] = "evicted"
                               /\ q \notin Gone(l) => fate'[q] = fate[q]
        BY <2>1 DEF Judge
      <3> QED BY <1>1, <2>1, <3>1, EvictedSets
    <2>4. cached'.accepted = cached.accepted /\ cached'.dropped = cached.dropped + Excess(l)
      BY <1>1, <2>1, <2>2, DroppedMore
    <2>5. TallyInv'
      BY <1>1, <2>1, <2>2, <2>3, <2>4 DEF IInv, TallyInv
    <2> QED BY <2>1, <2>3, <2>5, TotalsKept
  <1> QED BY <1>2, <1>3

\* A packet evaluated on the capture thread is not the cache's.
LEMMA InlineStep ==
  ASSUME IInv, NEW p \in Packets, Inline(p)
  PROVE  TallyInv' /\ PipelineAddsUp'
  <1>1. /\ fate[p] = "inline" /\ p \notin Elems(log) /\ Elems(log) \subseteq Packets
        /\ UNCHANGED <<log, cached, pending, zeroed>>
    BY ElemsFacts
      DEF Inline, InlineClean, InlineStored, InlineFails, InlineRecovered, InlineDone,
        IInv, TypeOK, LogInv, cacheVars, jobVars
  <1>2. ASSUME NEW f \in {"clean", "stored", "lost"}, Judge({p}, f)
        PROVE  /\ With("evicted")' = With("evicted")
               /\ Evaluations' = Evaluations /\ Unwritten' = Unwritten
               /\ With("stored")' = IF f = "stored" THEN With("stored") \cup {p}
                                                    ELSE With("stored")
    <2>1. \A q \in Elems(log) : fate'[q] = fate[q]
      BY <1>1, <1>2 DEF Judge
    <2>2. Evaluations' = Evaluations /\ Unwritten' = Unwritten
      BY <1>1, <2>1 DEF Evaluations, Unwritten, With
    <2> QED BY <1>1, <1>2, <2>2 DEF Judge, With
  <1>3. CASE InlineClean(p) \/ InlineFails(p)
    <2>1. UNCHANGED count /\ \E f \in {"clean", "lost"} : Judge({p}, f)
      BY <1>3 DEF InlineClean, InlineFails, InlineDone
    <2> QED BY <1>1, <1>2, <2>1, TallyKept, TotalsKept
  <1>4. CASE InlineStored(p) \/ \E n \in 1..2 : InlineRecovered(p, n)
    <2>1. count' = [count EXCEPT !.persisted = @ + 1] /\ Judge({p}, "stored")
      BY <1>4 DEF InlineStored, InlineRecovered, InlineDone
    <2>2. Counted(count, count', 1, 0, "errors")
      BY <2>1, OnePersisted DEF IInv, TypeOK
    <2>3. /\ With("evicted")' = With("evicted")
          /\ Evaluations' = Evaluations /\ Unwritten' = Unwritten
          /\ With("stored")' = With("stored") \cup {p}
      BY <1>2, <2>1
    <2>4. Cardinality(With("stored"))' = Cardinality(With("stored")) + 1
      <3>1. p \notin With("stored") /\ IsFiniteSet(With("stored"))
        BY <1>1, PacketSets, SetType DEF With, IInv
      <3> QED BY <2>3, <3>1, FS_AddElement
    <2>5. \A n \in Names : /\ count[n] \in Nat /\ zeroed.total[n] \in Nat
                           /\ JobsTotal(pending, n) \in Nat
      BY SumType DEF IInv
    <2>6. /\ Total("persisted")' = Total("persisted") + 1
          /\ \A n \in Names \ {"persisted"} : Total(n)' = Total(n)
      BY <1>1, <2>2, <2>5, TotalIs DEF Sum, Counted, Names
    <2>7. \A n \in Names : Total(n) \in Nat
      BY SumType DEF IInv
    <2>8. Adds2(1, 0, 0)
      <3>1. /\ Cardinality(Evaluations) \in Nat /\ Cardinality(Unwritten) \in Nat
        BY SetType DEF IInv
      <3>2. /\ Total("processed")' = Total("processed") /\ Total("errors")' = Total("errors")
            /\ Total("write_errors")' = Total("write_errors")
            /\ Total("processed") \in Nat /\ Total("errors") \in Nat
            /\ Total("write_errors") \in Nat
        BY <2>6, <2>7 DEF Names
      <3> QED BY <2>3, <2>4, <2>6, <3>1, <3>2 DEF Adds2
    <2> QED BY <1>1, <2>3, <2>8, TallyKept, TotalsMove
  <1> QED BY <1>3, <1>4 DEF Inline

\* One job counts more: so does the total.
LEMMA PendingStep ==
  ASSUME IInv, NEW j \in Jobs, NEW a \in Nat, NEW b \in Nat,
         NEW m \in Names \ {"persisted"}, UNCHANGED <<count, zeroed>>,
         pending' \in [Jobs -> Counts], \A i \in Jobs \ {j} : pending'[i] = pending[i],
         Counted(pending[j], pending'[j], a, b, m)
  PROVE  /\ Total("persisted")' = Total("persisted") + a
         /\ (Total("processed") + Total("errors") + Total("write_errors"))' =
              (Total("processed") + Total("errors") + Total("write_errors")) + b
  <1>1. pending \in [Jobs -> Counts]
    BY DEF IInv, TypeOK
  <1>2. ASSUME NEW n \in Names
        PROVE  /\ Total(n) \in Nat
               /\ Total(n)' = Total(n) + (pending'[j][n] - pending[j][n])
               /\ pending[j][n] \in Nat
    <2>1. /\ count[n] \in Nat /\ zeroed.total[n] \in Nat /\ JobsTotal(pending, n) \in Nat
          /\ Total(n) \in Nat
      BY SumType DEF IInv
    <2>2. \A i \in Jobs \ {j} : pending'[i][n] = pending[i][n]
      OBVIOUS
    <2>3. JobsTotal(pending', n) =
            JobsTotal(pending, n) + (pending'[j][n] - pending[j][n])
      BY <1>1, <2>2, SumChanges
    <2>4. pending[j][n] \in Nat /\ pending'[j][n] \in Nat
      BY <1>1 DEF Counts, Names
    <2> QED BY <2>1, <2>3, <2>4, TotalIs DEF Sum
  <1>3. /\ pending'[j]["persisted"] = pending[j]["persisted"] + a
        /\ \A n \in Names \ {"persisted"} :
             pending'[j][n] = pending[j][n] + (IF n = m THEN b ELSE 0)
    BY DEF Counted
  <1>4. Total("persisted")' = Total("persisted") + a
    BY <1>2, <1>3 DEF Names
  <1>5. \A n \in Names \ {"persisted"} :
          Total(n) \in Nat /\ Total(n)' = Total(n) + (IF n = m THEN b ELSE 0)
    BY <1>2, <1>3
  <1> QED BY <1>4, <1>5 DEF Names

LEMMA EvaluateStep ==
  ASSUME IInv, NEW j \in Jobs, NEW v \in Verdicts, Evaluate(j, v.defer, v.outcome)
  PROVE  TallyInv' /\ PipelineAddsUp'
  <1> DEFINE p == Head(batch[j])
  <1>1. /\ Evaluates(j, p, v.defer, v.outcome)
        /\ v.outcome \in Names \ {"persisted"} /\ v.defer \in BOOLEAN
    BY EvaluateFacts
  <1>2. /\ fate[p] = "taken" /\ p \in Elems(log) /\ p \in Packets
        /\ UNCHANGED <<log, cached, count, zeroed>> /\ Elems(log) \subseteq Packets
    BY <1>1, ElemsFacts
      DEF Evaluates, IInv, TypeOK, JobInv, LogInv, cacheVars, tallyVars
  <1> HIDE DEF p
  <1>3. /\ With("evicted")' = With("evicted") /\ With("stored")' = With("stored")
        /\ Evaluations' = Evaluations \cup {p} /\ Unwritten' = Unwritten
        /\ p \notin Evaluations
    <2>1. fate'[p] \in {"clean", "deferred"} /\ \A q \in Packets \ {p} : fate'[q] = fate[q]
      BY <1>1, <1>2 DEF Evaluates
    <2> QED BY <1>2, <2>1 DEF With, Evaluations, Unwritten
  <1>4. /\ Cardinality(Evaluations)' = Cardinality(Evaluations) + 1
        /\ Cardinality(Evaluations) \in Nat /\ Cardinality(Unwritten) \in Nat
        /\ Cardinality(With("stored")) \in Nat
    <2>1. IsFiniteSet(Evaluations)
      BY SetType, PacketSets DEF IInv
    <2>2. Cardinality(Evaluations \cup {p}) = Cardinality(Evaluations) + 1
      BY <1>3, <2>1, FS_AddElement
    <2> QED BY <1>3, <2>2, SetType DEF IInv
  <1>5. /\ pending' \in [Jobs -> Counts] /\ \A i \in Jobs \ {j} : pending'[i] = pending[i]
        /\ Counted(pending[j], pending'[j], 0, 1, v.outcome)
    <2>1. pending' = [pending EXCEPT ![j][v.outcome] = @ + 1]
      BY <1>1 DEF Evaluates
    <2>2. pending \in [Jobs -> Counts] /\ v.outcome \in Names \ {"persisted"}
      BY <1>1 DEF IInv, TypeOK
    <2> QED BY <2>1, <2>2, OneMore
  <1>6. /\ Total("persisted")' = Total("persisted") + 0
        /\ (Total("processed") + Total("errors") + Total("write_errors"))' =
             (Total("processed") + Total("errors") + Total("write_errors")) + 1
    BY <1>1, <1>2, <1>5, PendingStep
  <1>7. Adds2(0, 1, 0)
    <2>1. \A n \in Names : Total(n) \in Nat
      BY SumType DEF IInv
    <2>2. (Total("processed") + Total("errors") + Total("write_errors")) \in Nat
      BY <2>1 DEF Names
    <2> QED BY <1>3, <1>4, <1>6, <2>2 DEF Adds2
  <1> QED BY <1>2, <1>3, <1>7, TallyKept, TotalsMove

\* The end of a batch: what failed is lost, the rest is stored.
LEMMA FlushStep ==
  ASSUME IInv, NEW j \in Jobs, NEW failed \in SUBSET deferred[j],
         UNCHANGED <<log, cached, count, zeroed>>,
         \A q \in Packets : fate'[q] = IF q \in failed THEN "lost"
                                       ELSE IF q \in deferred[j] THEN "stored" ELSE fate[q],
         pending' \in [Jobs -> Counts], \A i \in Jobs \ {j} : pending'[i] = pending[i],
         Counted(pending[j], pending'[j], Cardinality(deferred[j] \ failed),
                 Cardinality(failed), "write_errors")
  PROVE  TallyInv' /\ PipelineAddsUp'
  <1> DEFINE done == deferred[j] \ failed
  <1>1. /\ deferred[j] \in SUBSET Packets /\ Elems(log) \subseteq Packets
        /\ \A q \in deferred[j] : fate[q] = "deferred" /\ q \in Elems(log)
    BY ElemsFacts DEF IInv, TypeOK, JobInv, LogInv
  <1>2. /\ With("evicted")' = With("evicted") /\ With("stored")' = With("stored") \cup done
        /\ Evaluations' = Evaluations /\ Unwritten' = Unwritten \cup failed
        /\ With("stored") \cap done = {} /\ Unwritten \cap failed = {}
    BY <1>1 DEF With, Evaluations, Unwritten
  <1>3. /\ done \in SUBSET Packets /\ failed \in SUBSET Packets
        /\ Cardinality(done) \in Nat /\ Cardinality(failed) \in Nat
        /\ With("stored") \in SUBSET Packets /\ Unwritten \in SUBSET Packets
        /\ Cardinality(Evaluations) \in Nat
    BY <1>1, PacketSets, SetType DEF IInv
  <1> HIDE DEF done
  <1>4. /\ Cardinality(With("stored"))' = Cardinality(With("stored")) + Cardinality(done)
        /\ Cardinality(Unwritten)' = Cardinality(Unwritten) + Cardinality(failed)
    BY <1>2, <1>3, JoinSets
  <1>5. /\ Total("persisted")' = Total("persisted") + Cardinality(done)
        /\ (Total("processed") + Total("errors") + Total("write_errors"))' =
             (Total("processed") + Total("errors") + Total("write_errors"))
               + Cardinality(failed)
    <2>1. "write_errors" \in Names \ {"persisted"}
      BY DEF Names
    <2> QED BY <1>3, <2>1, PendingStep DEF done
  <1>6. Adds2(Cardinality(done), 0, Cardinality(failed))
    <2>1. \A n \in Names : Total(n) \in Nat
      BY SumType DEF IInv
    <2>2. (Total("processed") + Total("errors") + Total("write_errors")) \in Nat
      BY <2>1 DEF Names
    <2> QED BY <1>2, <1>3, <1>4, <1>5, <2>2 DEF Adds2
  <1> QED BY <1>2, <1>3, <1>6, TallyKept, TotalsMove

LEMMA FlushCommitsStep ==
  ASSUME IInv, NEW j \in Jobs, NEW failed \in SUBSET deferred[j],
         FlushCommits(j, failed)
  PROVE  TallyInv' /\ PipelineAddsUp'
  <1>1. /\ UNCHANGED <<log, cached, count, zeroed>>
        /\ \A q \in Packets : fate'[q] = IF q \in failed THEN "lost"
                                ELSE IF q \in deferred[j] THEN "stored" ELSE fate[q]
    BY DEF FlushCommits, cacheVars, tallyVars
  <1>2. /\ Cardinality(deferred[j] \ failed) \in Nat /\ Cardinality(failed) \in Nat
        /\ pending \in [Jobs -> Counts]
    BY PacketSets DEF IInv, TypeOK
  <1>3. /\ pending' \in [Jobs -> Counts] /\ \A i \in Jobs \ {j} : pending'[i] = pending[i]
        /\ Counted(pending[j], pending'[j], Cardinality(deferred[j] \ failed),
                   Cardinality(failed), "write_errors")
    BY <1>2, BatchMore DEF FlushCommits, BatchOutcome
  <1> QED BY <1>1, <1>3, FlushStep

LEMMA FlushFailsStep ==
  ASSUME IInv, NEW j \in Jobs, FlushFails(j) PROVE TallyInv' /\ PipelineAddsUp'
  <1> DEFINE all == deferred[j]
  <1>1. /\ UNCHANGED <<log, cached, count, zeroed>>
        /\ \A q \in Packets : fate'[q] = IF q \in all THEN "lost"
                                ELSE IF q \in deferred[j] THEN "stored" ELSE fate[q]
    BY DEF FlushFails, Judge, cacheVars, tallyVars
  <1>2. /\ Cardinality(deferred[j]) \in Nat /\ pending \in [Jobs -> Counts]
    BY PacketSets DEF IInv, TypeOK
  <1>3. /\ pending' \in [Jobs -> Counts] /\ \A i \in Jobs \ {j} : pending'[i] = pending[i]
        /\ Counted(pending[j], pending'[j], 0, Cardinality(deferred[j]), "write_errors")
    <2>1. pending' = [pending EXCEPT ![j]["write_errors"] = @ + Cardinality(deferred[j])]
      BY DEF FlushFails
    <2>2. "write_errors" \in Names \ {"persisted"}
      BY DEF Names
    <2> QED BY <1>2, <2>1, <2>2, OneMore
  <1>4. Cardinality(deferred[j] \ all) = 0
    BY FS_EmptySet
  <1> QED BY <1>1, <1>3, <1>4, FlushStep

\* The counts of a batch go to the engine, those of the engine to a reset.
LEMMA ApplyStep ==
  ASSUME IInv, NEW j \in Jobs, Apply(j) PROVE TallyInv' /\ PipelineAddsUp'
  <1>1. /\ UNCHANGED <<fate, log, cached, zeroed>> /\ count' = Plus(count, pending[j])
        /\ pending' = [pending EXCEPT ![j] = Zero] /\ pending \in [Jobs -> Counts]
        /\ count \in Counts
    BY DEF Apply, Tally, cacheVars, IInv, TypeOK
  <1>2. /\ pending' \in [Jobs -> Counts] /\ pending'[j] = Zero
        /\ \A i \in Jobs \ {j} : pending'[i] = pending[i]
    BY <1>1, ZeroFacts
  <1>3. ASSUME NEW n \in Names PROVE Total(n)' = Total(n)
    <2>1. /\ count[n] \in Nat /\ zeroed.total[n] \in Nat /\ JobsTotal(pending, n) \in Nat
      BY SumType DEF IInv
    <2>2. JobsTotal(pending', n) = JobsTotal(pending, n) + (0 - pending[j][n])
      <3>1. \A i \in Jobs \ {j} : pending'[i][n] = pending[i][n]
        BY <1>2
      <3>2. pending \in [Jobs -> Counts] /\ pending' \in [Jobs -> Counts]
        BY <1>1, <1>2
      <3>3. JobsTotal(pending', n) =
              JobsTotal(pending, n) + (pending'[j][n] - pending[j][n])
        BY <3>1, <3>2, SumChanges
      <3>4. pending'[j][n] = 0
        BY <1>2, ZeroFacts
      <3> QED BY <3>3, <3>4
    <2>3. count'[n] = count[n] + pending[j][n]
      BY <1>1, PlusFacts
    <2>4. pending[j][n] \in Nat
      BY <1>1 DEF Counts, Names
    <2>5. /\ Total(n) = count[n] + zeroed.total[n] + JobsTotal(pending, n)
          /\ Total(n)' = count'[n] + zeroed.total[n] + JobsTotal(pending', n)
      BY <1>1, TotalIs DEF Sum
    <2> QED BY <2>1, <2>2, <2>3, <2>4, <2>5
  <1>4. /\ With("evicted")' = With("evicted") /\ With("stored")' = With("stored")
        /\ Evaluations' = Evaluations /\ Unwritten' = Unwritten
    BY <1>1 DEF With, Evaluations, Unwritten
  <1>5. PipelineAddsUp'
    BY <1>3, <1>4 DEF IInv, PipelineAddsUp, Names
  <1> QED BY <1>1, <1>4, <1>5, TallyKept

LEMMA ResetStep ==
  ASSUME IInv, Reset PROVE TallyInv' /\ PipelineAddsUp'
  <1>1. /\ UNCHANGED <<fate, log, cached, pending>> /\ count' = Zero
        /\ zeroed' = [zeroed EXCEPT !.total = Plus(zeroed.total, count)]
        /\ count \in Counts /\ zeroed \in Losses /\ zeroed.total \in Counts
    BY DEF Reset, cacheVars, jobVars, IInv, TypeOK, Losses
  <1>2. /\ zeroed'.total = Plus(zeroed.total, count)
        /\ zeroed'.accepted = zeroed.accepted /\ zeroed'.dropped = zeroed.dropped
    BY <1>1, PlusFacts, LostTotal
  <1>3. ASSUME NEW n \in Names PROVE Total(n)' = Total(n)
    <2>1. /\ count[n] \in Nat /\ zeroed.total[n] \in Nat /\ JobsTotal(pending, n) \in Nat
      BY SumType DEF IInv
    <2>2. count'[n] = 0 /\ zeroed'.total[n] = zeroed.total[n] + count[n]
      BY <1>1, <1>2, ZeroFacts, PlusFacts
    <2> QED BY <1>1, <2>1, <2>2, TotalIs DEF Sum
  <1>4. /\ With("evicted")' = With("evicted") /\ With("stored")' = With("stored")
        /\ Evaluations' = Evaluations /\ Unwritten' = Unwritten
    BY <1>1 DEF With, Evaluations, Unwritten
  <1>5. PipelineAddsUp'
    BY <1>3, <1>4 DEF IInv, PipelineAddsUp, Names
  <1> QED BY <1>1, <1>2, <1>4, <1>5, TallyKept

LEMMA ResetCacheStep ==
  ASSUME IInv, ResetCache PROVE TallyInv' /\ PipelineAddsUp'
  <1>1. /\ UNCHANGED <<fate, log, count, pending>>
        /\ cached' = [accepted |-> 0, dropped |-> 0, peak |-> Len(items)]
        /\ zeroed' = [zeroed EXCEPT !.accepted = @ + cached.accepted,
                                    !.dropped = @ + cached.dropped]
        /\ zeroed \in Losses /\ cached.accepted \in Nat /\ cached.dropped \in Nat
        /\ zeroed.accepted \in Nat /\ zeroed.dropped \in Nat
    BY DEF ResetCache, jobVars, IInv, TypeOK, Losses
  <1>2. /\ zeroed'.accepted = zeroed.accepted + cached.accepted
        /\ zeroed'.dropped = zeroed.dropped + cached.dropped
        /\ zeroed'.total = zeroed.total
    <2> DEFINE a == cached.accepted
               b == cached.dropped
               x == [zeroed EXCEPT !.accepted = @ + a]
               y == [x EXCEPT !.dropped = @ + b]
    <2>1. zeroed' = y
      BY <1>1
    <2>2. zeroed \in Losses /\ a \in Nat /\ b \in Nat
      BY <1>1
    <2> HIDE DEF a, b
    <2>3. /\ x \in Losses /\ x.accepted = zeroed.accepted + a
          /\ x.dropped = zeroed.dropped /\ x.total = zeroed.total
      BY <2>2 DEF Losses
    <2> HIDE DEF x
    <2>4. /\ y.accepted = x.accepted /\ y.dropped = x.dropped + b
          /\ y.total = x.total
      BY <2>2, <2>3 DEF Losses
    <2> HIDE DEF y
    <2>5. /\ zeroed'.accepted = zeroed.accepted + a
          /\ zeroed'.dropped = zeroed.dropped + b /\ zeroed'.total = zeroed.total
      BY <2>1, <2>3, <2>4
    <2> QED BY <2>5 DEF a, b
  <1>3. /\ With("evicted")' = With("evicted") /\ With("stored")' = With("stored")
        /\ Evaluations' = Evaluations /\ Unwritten' = Unwritten
    BY <1>1 DEF With, Evaluations, Unwritten
  <1>4. TallyInv'
    BY <1>1, <1>2, <1>3 DEF IInv, TallyInv
  <1> QED BY <1>1, <1>2, <1>3, <1>4, TotalsKept

\* Every step keeps the totals.
LEMMA StepTotals ==
  ASSUME IInv, [Next]_vars PROVE TallyInv' /\ PipelineAddsUp'
  <1>1. CASE Quiet
    <2>1. TallyInv'
      BY <1>1, QuietStep, TallyKept
    <2> QED BY <1>1, <2>1, QuietStep, TotalsKept
  <1>2. CASE \/ \E p \in Packets : ~closed /\ Put(p)
             \/ \E l \in CacheLimits : SetLimit(l)
    BY <1>2, EvictStep
  <1>3. CASE \E p \in Packets : Inline(p)
    BY <1>3, InlineStep
  <1>4. CASE \E j \in Jobs : \E v \in Verdicts : Evaluate(j, v.defer, v.outcome)
    BY <1>4, EvaluateStep
  <1>5. CASE \E j \in Jobs : \E failed \in SUBSET deferred[j] : FlushCommits(j, failed)
    BY <1>5, FlushCommitsStep
  <1>6. CASE \E j \in Jobs : FlushFails(j) \/ Apply(j)
    BY <1>6, FlushFailsStep, ApplyStep
  <1>7. CASE Reset \/ ResetCache
    BY <1>7, ResetStep, ResetCacheStep
  <1> QED
    BY <1>1, <1>2, <1>3, <1>4, <1>5, <1>6, <1>7 DEF Next, JobStep, Quiet

-----------------------------------------------------------------------------
(* The invariant holds, and what follows from it. *)

LEMMA InitIInv == ASSUME Init PROVE IInv
  <1> USE PipelineAssumption DEF Init
  <1>1. <<>> \in Seq(Packets) /\ Len(<<>>) = 0 /\ Elems(<<>>) = {} /\ NoDup(<<>>)
    BY EmptySeq, ElemsEmpty
  <1>2. TypeOK
    <2>1. /\ items \in Seq(Packets) /\ log \in Seq(Packets)
          /\ batch \in [Jobs -> Seq(Packets)]
      BY <1>1
    <2>2. /\ pending \in [Jobs -> Counts] /\ count \in Counts
          /\ zeroed \in [total : Counts, accepted : Nat, dropped : Nat]
          /\ cached \in [accepted : Nat, dropped : Nat, peak : Nat]
      BY ZeroFacts
    <2>3. fate \in [Packets -> Fates] /\ rows \in [Packets -> Nat]
      BY DEF Fates
    <2>4. /\ place \in [Jobs -> {"get", "more", "evaluate", "flush", "apply", "gone"}]
          /\ deferred \in [Jobs -> SUBSET Packets] /\ attempt \in [Jobs -> 0..MaxAttempts]
      OBVIOUS
    <2>5. /\ hands \subseteq Packets /\ limit \in CacheLimits /\ closed \in BOOLEAN
          /\ txn \subseteq Packets /\ torn \subseteq Packets
          /\ resets \in Nat /\ resetting \in BOOLEAN
      OBVIOUS
    <2> HIDE DEF Init
    <2> QED BY <2>1, <2>2, <2>3, <2>4, <2>5 DEF TypeOK, Fates
  <1>3. CacheInv
    <2>1. With("waiting") = {} /\ With("hand") = {}
      BY DEF With
    <2>2. IsEnd(items, log)
      BY <1>1 DEF IsEnd
    <2>3. /\ limit \in Nat /\ cached.peak = 0 /\ items = <<>> /\ hands = {}
          /\ closed = FALSE
      OBVIOUS
    <2> HIDE DEF Init
    <2>4. Len(items) <= limit /\ Len(items) <= cached.peak
      BY <1>1, <2>3
    <2> QED BY <1>1, <2>1, <2>2, <2>3, <2>4 DEF CacheInv
  <1>4. JobInv /\ OwnInv
    BY <1>1 DEF JobInv, OwnInv
  <1>5. LogInv /\ RowInv
    BY <1>1 DEF LogInv, RowInv
  <1>6. /\ With("evicted") = {} /\ With("stored") = {} /\ Evaluations = {}
        /\ Unwritten = {} /\ Cardinality({}) = 0
    BY <1>1, FS_EmptySet DEF With, Evaluations, Unwritten
  <1>7. TallyInv
    <2>1. /\ cached.accepted = 0 /\ cached.dropped = 0 /\ Len(log) = 0
          /\ zeroed.accepted = 0 /\ zeroed.dropped = 0
      BY <1>1
    <2>2. Cardinality(With("evicted")) = 0
      BY <1>6
    <2> HIDE DEF Init
    <2>3. cached.accepted + zeroed.accepted = Len(log)
      BY <2>1
    <2>4. cached.dropped + zeroed.dropped = Cardinality(With("evicted"))
      BY <2>1, <2>2
    <2> QED BY <2>3, <2>4 DEF TallyInv
  <1>8. PipelineAddsUp
    <2>1. ASSUME NEW n \in Names PROVE Total(n) = 0
      <3>1. JobsTotal(pending, n) = 0
        BY SumZero, ZeroFacts
      <3>2. count[n] = 0 /\ zeroed.total[n] = 0
        BY ZeroFacts
      <3> QED BY <3>1, <3>2, TotalIs DEF Sum
    <2>2. /\ Total("persisted") = 0 /\ Total("processed") = 0
          /\ Total("errors") = 0 /\ Total("write_errors") = 0
      BY <2>1 DEF Names
    <2> HIDE DEF Init
    <2> QED BY <1>6, <2>2 DEF PipelineAddsUp
  <1> QED BY <1>2, <1>3, <1>4, <1>5, <1>7, <1>8 DEF IInv

\* The cache, the batches, the database and the counters stay tied to the fates
\* of the packets.
THEOREM Inductive == Spec => []IInv
  <1>1. Init => IInv
    BY InitIInv
  <1>2. IInv /\ [Next]_vars => IInv'
    <2> SUFFICES ASSUME IInv, [Next]_vars PROVE IInv'
      OBVIOUS
    <2>1. TypeOK' /\ CacheInv' /\ JobInv' /\ OwnInv'
      BY StepType, StepCache, StepJob, StepOwn
    <2>2. LogInv' /\ RowInv' /\ TallyInv' /\ PipelineAddsUp'
      BY StepLog, StepRow, StepTotals
    <2> QED BY <2>1, <2>2 DEF IInv
  <1> QED BY <1>1, <1>2, PTL DEF Spec

\* The types of the cache, the jobs, the database and the counters.
THEOREM TypeCorrect == Spec => []TypeOK
  <1>1. IInv => TypeOK
    BY DEF IInv
  <1> QED BY <1>1, Inductive, PTL

\* What a job wrote is in the database once, however often its batch was tried
\* again, and what it reported as a write error is not there.
THEOREM StoredOnceCorrect == Spec => []StoredOnce
  <1>1. IInv => StoredOnce
    <2> SUFFICES ASSUME IInv PROVE StoredOnce
      OBVIOUS
    <2>1. Elems(log) \subseteq Packets
      BY ElemsFacts DEF IInv, TypeOK
    <2> QED BY <2>1 DEF IInv, RowInv, StoredOnce
  <1> QED BY <1>1, Inductive, PTL

\* The cache keeps the newest packets, in order and within its limit, and from
\* the cache to the database no packet is forgotten or counted twice, through
\* any evictions, resets, stop() and batches that fail.
THEOREM EveryPacketCountsCorrect == Spec => []EveryPacketCounts
  <1>1. IInv => EveryPacketCounts
    <2> SUFFICES ASSUME IInv PROVE EveryPacketCounts
      OBVIOUS
    <2>1. ASSUME ~closed PROVE items = Drop(log, Len(log) - Len(items))
      <3> DEFINE n == Len(log) - Len(items)
      <3>1. /\ items \in Seq(Packets) /\ log \in Seq(Packets) /\ IsEnd(items, log)
            /\ Len(items) \in Nat /\ Len(log) \in Nat
        BY <2>1, LenProperties DEF IInv, TypeOK, CacheInv
      <3>2. n \in 0..Len(log) /\ Len(log) - n = Len(items)
        BY <3>1 DEF IsEnd
      <3>3. \A i \in 1..Len(items) : items[i] = log[n + i]
        BY <3>1 DEF IsEnd
      <3> HIDE DEF n
      <3>4. /\ Drop(log, n) \in Seq(Packets) /\ Len(Drop(log, n)) = Len(items)
            /\ \A i \in 1..Len(items) : Drop(log, n)[i] = log[n + i]
        BY <3>1, <3>2, DropFacts
      <3>5. items = Drop(log, n)
        BY <3>1, <3>3, <3>4, SeqEqual
      <3> QED BY <3>5 DEF n
    <2>2. NewestSurvive
      BY <2>1 DEF IInv, CacheInv, NewestSurvive
    <2>3. CacheAddsUp
      BY DEF IInv, CacheInv, TallyInv, CacheAddsUp
    <2> QED BY <2>2, <2>3 DEF IInv, EveryPacketCounts
  <1> QED BY <1>1, Inductive, PTL
=============================================================================
