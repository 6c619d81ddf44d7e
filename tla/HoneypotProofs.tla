--------------------------- MODULE HoneypotProofs ---------------------------
(***************************************************************************)
(* Proofs about the honeypot, for any listeners, threads, slots, batch     *)
(* size and bounds: nobody answers whom the next toggle or stop() cannot   *)
(* reach, and the status is the one the threads have.                      *)
(***************************************************************************)
EXTENDS Honeypot, ListProofs

Calls == {"idle", "spawn", "drain", "close", "register"}
Stages == {"none", "tls", "list", "loop", "register", "judge", "dead"}

Places == {"none", "new", "serving", "dead"}
States == {"stopped", "starting", "stopping", "ready", "failed"}
ThreadRec == [st : Places, id : Listeners \cup {None}]
StarterRec == [pc : Stages, todo : SUBSET Listeners, id : Listeners \cup {None}, saw : BOOLEAN]
WriterRec == [pc : {"none", "open", "loop", "dead"}, batch : Seq(Nat), conn : Runs \cup {None}]

EngineType ==
  /\ listed \subseteq Listeners /\ enabled \subseteq Listeners
  /\ session \in {"none", "active", "stopped"} /\ status \in States
  /\ stop \in BOOLEAN /\ running \in BOOLEAN /\ tls \in BOOLEAN /\ overlap \in BOOLEAN
CallType ==
  /\ call \in [op : Calls, id : Listeners \cup {None}]
  /\ starts \in Nat /\ toggles \in Nat /\ seen \in Nat
ThreadType ==
  /\ roster \in [Listeners -> Threads \cup {None}] /\ bound \subseteq Listeners
  /\ thread \in [Threads -> ThreadRec]
  /\ told \subseteq Threads /\ open \in [Threads -> Nat]
StarterType == starter \in [Runs -> StarterRec]
WriterType ==
  /\ writer \in [Runs -> WriterRec]
  /\ current \in Runs \cup {None} /\ eventDb \in Runs \cup {None}
  /\ queue \in Seq(Nat) /\ packets \subseteq Nat /\ lost \subseteq Nat

TypeOK == EngineType /\ CallType /\ ThreadType /\ StarterType /\ WriterType

\* Whoever lives, and whoever is about to be registered, is some listener's; a
\* call that spawns belongs to a run.
NameInv ==
  /\ \A t \in Threads : Alive(t) => thread[t].id \in Listeners
  /\ \A r \in Runs : At(r, "register") => starter[r].id \in Listeners
  /\ call.op = "register" => call.id \in Listeners
  /\ call.op = "spawn" => starts \in Runs

Active(r) == starter[r].pc \notin {"none", "dead"}

\* As long as nothing overlapped: a thread nobody told is the roster's, before
\* it is bound as well as after; and whoever is about to register a thread, a
\* call or the one starter there is, finds the place free and the listener on.
RosterInv ==
  overlap \/
    /\ \A t \in Threads : Alive(t) /\ t \notin told =>
         roster[thread[t].id] = t /\ thread[t].id \in enabled
    /\ \A r, q \in Runs : Active(r) /\ Active(q) => r = q
    /\ call.op \in {"spawn", "register"} => \A r \in Runs : ~Active(r)
    /\ call.op = "register" => ~Present(call.id) /\ call.id \in enabled
    /\ \A r \in Runs : starter[r].pc \in {"loop", "register"} => starter[r].todo \subseteq enabled
    /\ \A r \in Runs : At(r, "register") => ~Present(starter[r].id) /\ starter[r].id \in enabled

\* An engine that does not run was told to stop or never had a starter.
VerdictInv ==
  /\ StatusIsTrue
  /\ running \/ stop \/ (call.op # "spawn" /\ \A r \in Runs : starter[r].pc = "none")

\* No event is in two places of the queue q and the batches b.
Apart(q, b) ==
  /\ q \in Seq(Nat) /\ b \in [Runs -> Seq(Nat)]
  /\ NoDup(q) /\ \A r \in Runs : NoDup(b[r]) /\ Elems(b[r]) \cap Elems(q) = {}
  /\ \A r, p \in Runs : r # p => Elems(b[r]) \cap Elems(b[p]) = {}

\* The events in q and in the batches of s.
Inside(q, b, s) == Elems(q) \cup UNION {Elems(b[r]) : r \in s}

\* Each of n events is in one place at most: waiting, in P or in L.
Placed(q, b, P, L, n) ==
  /\ Apart(q, b) /\ P \cap L = {} /\ Inside(q, b, Runs) \cap (P \cup L) = {}
  /\ Inside(q, b, Runs) \cup P \cup L \subseteq 1..n

\* Those in none, whose conversations are still open.
Free(q, b, P, L, n) == (1..n) \ (Inside(q, b, Runs) \cup P \cup L)

FreeIs(q, b, P, L, n, F) == Free(q, b, P, L, n) = F

Batches == [r \in Runs |-> writer[r].batch]
EventInv == Placed(queue, Batches, packets, lost, seen)

Taken(f) == FoldFunction(+, 0, f)
SlotInv == Cardinality(Unheard) = Taken(open)

IInv ==
  /\ TypeOK /\ NameInv /\ RosterInv /\ VerdictInv
  /\ EventInv /\ SlotInv

-----------------------------------------------------------------------------
(* What a step does to a record. *)

LEMMA RegisterCall ==
  ASSUME NEW id PROVE [Idle EXCEPT !.op = "register", !.id = id] = [op |-> "register", id |-> id]
  <1> DEFINE x == [Idle EXCEPT !.op = "register"]
  <1>1. x = [op |-> "register", id |-> None]
    BY DEF Idle
  <1>2. [Idle EXCEPT !.op = "register", !.id = id] = [x EXCEPT !.id = id]
    OBVIOUS
  <1> HIDE DEF x
  <1> QED BY <1>1, <1>2

\* g is f but for starter r, which is at pc with the given todo and listener.
Moved(g, f, r, pc, todo, id) ==
  /\ g \in [Runs -> StarterRec]
  /\ g[r].pc = pc /\ g[r].todo = todo /\ g[r].id = id
  /\ \A q \in Runs \ {r} : g[q] = f[q]

LEMMA MovePc ==
  ASSUME NEW f \in [Runs -> StarterRec], NEW r \in Runs, NEW pc \in Stages
  PROVE  Moved([f EXCEPT ![r].pc = pc], f, r, pc, f[r].todo, f[r].id)
  BY DEF StarterRec, Moved

LEMMA MoveTodo ==
  ASSUME NEW f \in [Runs -> StarterRec], NEW r \in Runs, NEW todo \in SUBSET Listeners
  PROVE  Moved([f EXCEPT ![r].todo = todo], f, r, f[r].pc, todo, f[r].id)
  BY DEF StarterRec, Moved

LEMMA MoveId ==
  ASSUME NEW f \in [Runs -> StarterRec], NEW r \in Runs, NEW id \in Listeners \cup {None}
  PROVE  Moved([f EXCEPT ![r].id = id], f, r, f[r].pc, f[r].todo, id)
  BY DEF StarterRec, Moved

LEMMA MoveSaw ==
  ASSUME NEW f \in [Runs -> StarterRec], NEW r \in Runs, NEW saw \in BOOLEAN
  PROVE  Moved([f EXCEPT ![r].saw = saw], f, r, f[r].pc, f[r].todo, f[r].id)
  BY DEF StarterRec, Moved

LEMMA ListsFacts ==
  ASSUME IInv, NEW r \in Runs, StarterLists(r)
  PROVE  Moved(starter', starter, r, "loop", enabled, starter[r].id)
  <1> DEFINE x == [starter EXCEPT ![r].pc = "loop"]
             y == [x EXCEPT ![r].todo = enabled]
  <1>1. /\ starter' = y /\ starter \in [Runs -> StarterRec]
        /\ enabled \in SUBSET Listeners /\ "loop" \in Stages
    BY DEF StarterLists, IInv, TypeOK, StarterType, EngineType, Stages
  <1>2. Moved(x, starter, r, "loop", starter[r].todo, starter[r].id)
    BY <1>1, MovePc
  <1> HIDE DEF x
  <1>3. Moved(y, x, r, x[r].pc, enabled, x[r].id)
    BY <1>1, <1>2, MoveTodo DEF Moved
  <1> HIDE DEF y
  <1> QED BY <1>1, <1>2, <1>3 DEF Moved

LEMMA RegistersFacts ==
  ASSUME IInv, NEW r \in Runs, StarterRegisters(r)
  PROVE  Moved(starter', starter, r, "loop", starter[r].todo, None)
  <1> DEFINE x == [starter EXCEPT ![r].pc = "loop"]
             y == [x EXCEPT ![r].id = None]
  <1>1. /\ starter' = y /\ starter \in [Runs -> StarterRec] /\ "loop" \in Stages
    BY DEF StarterRegisters, IInv, TypeOK, StarterType, Stages
  <1>2. Moved(x, starter, r, "loop", starter[r].todo, starter[r].id)
    BY <1>1, MovePc
  <1> HIDE DEF x
  <1>3. Moved(y, x, r, x[r].pc, x[r].todo, None)
    BY <1>1, <1>2, MoveId DEF Moved
  <1> HIDE DEF y
  <1> QED BY <1>1, <1>2, <1>3 DEF Moved

LEMMA CountsFacts ==
  ASSUME IInv, NEW r \in Runs, StarterCounts(r)
  PROVE  Moved(starter', starter, r, "judge", {}, starter[r].id)
  <1> DEFINE x == [starter EXCEPT ![r].pc = "judge"]
             y == [x EXCEPT ![r].todo = {}]
             saw == (bound # {})
             z == [y EXCEPT ![r].saw = saw]
  <1>1. /\ starter' = z /\ starter \in [Runs -> StarterRec]
        /\ {} \in SUBSET Listeners /\ "judge" \in Stages /\ saw \in BOOLEAN
    BY DEF StarterCounts, IInv, TypeOK, StarterType, Stages
  <1> HIDE DEF saw
  <1>2. Moved(x, starter, r, "judge", starter[r].todo, starter[r].id)
    BY <1>1, MovePc
  <1> HIDE DEF x
  <1>3. Moved(y, x, r, x[r].pc, {}, x[r].id)
    BY <1>1, <1>2, MoveTodo DEF Moved
  <1> HIDE DEF y
  <1>4. Moved(z, y, r, y[r].pc, y[r].todo, y[r].id)
    BY <1>1, <1>3, MoveSaw DEF Moved
  <1> HIDE DEF z
  <1> QED BY <1>1, <1>2, <1>3, <1>4 DEF Moved

\* The starter passes over a listener, or goes to register it.
LEMMA TakesFacts ==
  ASSUME IInv, NEW r \in Runs, NEW id \in Listeners, StarterTakes(r, id)
  PROVE  \/ Moved(starter', starter, r, "loop", starter[r].todo \ {id}, None)
         \/ /\ ~Present(id)
            /\ Moved(starter', starter, r, "register", starter[r].todo \ {id}, id)
  <1> DEFINE c  == Present(id) \/ Refused(id)
             T  == starter[r].todo \ {id}
             i  == IF c THEN None ELSE id
             pc == IF c THEN "loop" ELSE "register"
             x  == [starter EXCEPT ![r].todo = T]
             y  == [x EXCEPT ![r].id = i]
             z  == [y EXCEPT ![r].pc = pc]
  <1>1. starter' = z /\ starter \in [Runs -> StarterRec]
    BY DEF StarterTakes, IInv, TypeOK, StarterType
  <1>2. T \in SUBSET Listeners /\ i \in Listeners \cup {None} /\ pc \in Stages
    BY <1>1 DEF StarterRec, Stages
  <1>3. (i = None /\ pc = "loop") \/ (~Present(id) /\ i = id /\ pc = "register")
    OBVIOUS
  <1> HIDE DEF T, i, pc
  <1>4. Moved(x, starter, r, starter[r].pc, T, starter[r].id)
    BY <1>1, <1>2, MoveTodo
  <1> HIDE DEF x
  <1>5. Moved(y, x, r, x[r].pc, x[r].todo, i)
    BY <1>2, <1>4, MoveId DEF Moved
  <1> HIDE DEF y
  <1>6. Moved(z, y, r, pc, y[r].todo, y[r].id)
    BY <1>2, <1>5, MovePc DEF Moved
  <1> HIDE DEF z
  <1>7. Moved(starter', starter, r, pc, T, i)
    BY <1>1, <1>4, <1>5, <1>6 DEF Moved
  <1> QED BY <1>3, <1>7 DEF T

\* g is f but for writer r, whose batch is the given one.
Wrote(g, f, r, batch) ==
  /\ g \in [Runs -> WriterRec] /\ g[r].batch = batch
  /\ g[r].pc = f[r].pc /\ g[r].conn = f[r].conn
  /\ \A q \in Runs \ {r} : g[q] = f[q]

LEMMA WriteBatch ==
  ASSUME NEW f \in [Runs -> WriterRec], NEW r \in Runs, NEW b \in Seq(Nat)
  PROVE  Wrote([f EXCEPT ![r].batch = b], f, r, b)
  BY DEF WriterRec, Wrote

LEMMA WriterMoves ==
  ASSUME NEW f \in [Runs -> WriterRec], NEW r \in Runs,
         NEW pc \in {"open", "loop"}, NEW c \in Runs \cup {None}
  PROVE  /\ [f EXCEPT ![r].pc = pc] \in [Runs -> WriterRec]
         /\ [f EXCEPT ![r].conn = c] \in [Runs -> WriterRec]
         /\ [f EXCEPT ![r].pc = pc, ![r].conn = c] \in [Runs -> WriterRec]
  <1> DEFINE x == [f EXCEPT ![r].pc = pc]
  <1>0. ASSUME NEW y \in [Runs -> WriterRec] PROVE [y EXCEPT ![r].conn = c] \in [Runs -> WriterRec]
    BY DEF WriterRec
  <1>1. x \in [Runs -> WriterRec] /\ [f EXCEPT ![r].conn = c] \in [Runs -> WriterRec]
    BY <1>0 DEF WriterRec
  <1>2. [f EXCEPT ![r].pc = pc, ![r].conn = c] = [x EXCEPT ![r].conn = c]
    OBVIOUS
  <1> HIDE DEF x
  <1>3. [x EXCEPT ![r].conn = c] \in [Runs -> WriterRec]
    BY <1>0, <1>1
  <1> QED BY <1>1, <1>2, <1>3 DEF x

\* Taking from the front leaves two sequences.
LEMMA SplitType ==
  ASSUME NEW s \in Seq(Nat), NEW n \in 0..Len(s)
  PROVE  SubSeq(s, 1, n) \in Seq(Nat) /\ SubSeq(s, n + 1, Len(s)) \in Seq(Nat)
  <1>1. Len(s) \in Nat /\ n \in Nat /\ \A i \in 1..Len(s) : s[i] \in Nat
    BY LenProperties, ElementOfSeq
  <1>2. (\A i \in 1..n : s[i] \in Nat) /\ (\A i \in (n + 1)..Len(s) : s[i] \in Nat)
    BY <1>1
  <1> QED BY <1>1, <1>2, SubSeqProperties

\* The event of the conversation that ends is the oldest one still open.
LEMMA SmallestUnheard ==
  ASSUME Unheard # {}, seen \in Nat
  PROVE  LET e == CHOOSE x \in Unheard : \A y \in Unheard : x <= y
         IN  e \in Unheard /\ e \in 1..seen /\ e \in Nat
  <1>1. Unheard \subseteq 1..seen
    BY DEF Unheard
  <1>2. PICK x \in Unheard : \A y \in Unheard : x <= y
    BY <1>1, LeastNumber
  <1> DEFINE e == CHOOSE y \in Unheard : \A z \in Unheard : y <= z
  <1>3. e \in Unheard
    BY <1>2
  <1> HIDE DEF e
  <1>4. e \in 1..seen /\ e \in Nat
    BY <1>1, <1>3
  <1> QED BY <1>3, <1>4 DEF e

-----------------------------------------------------------------------------
(* The two folds: the slots taken, and the events that wait. *)

\* The slots taken by a set of threads, one thread after another.
SlotStep(g, f, s) == IF s = {} THEN 0 ELSE f[Pick(s)] + g[s \ {Pick(s)}]
Slotted(g, f, D) == g = [s \in D |-> SlotStep(g, f, s)]

LEMMA SlottedExists ==
  ASSUME NEW f, NEW S, IsFiniteSet(S) PROVE \E g : Slotted(g, f, SUBSET S)
  <1> DEFINE T == {k \in Nat : \E g : Slotted(g, f, Small(S, k))}
  <1>1. 0 \in T
    <2>1. Small(S, 0) = {{}}
      BY SetSizes
    <2> DEFINE g == [s \in Small(S, 0) |-> 0]
    <2>2. g = [s \in Small(S, 0) |-> SlotStep(g, f, s)]
      BY <2>1 DEF SlotStep
    <2>3. Slotted(g, f, Small(S, 0))
      BY <2>2 DEF Slotted
    <2> QED BY <2>3
  <1>2. ASSUME NEW k \in T PROVE k + 1 \in T
    <2>1. PICK g : Slotted(g, f, Small(S, k))
      OBVIOUS
    <2> DEFINE h == [s \in Small(S, k + 1) |-> SlotStep(g, f, s)]
    <2>2. \A s \in Small(S, k) : h[s] = g[s]
      <3>1. \A s \in Small(S, k) : s \in Small(S, k + 1)
        BY SetSizes
      <3>2. \A s \in Small(S, k) : g[s] = SlotStep(g, f, s)
        BY <2>1 DEF Slotted
      <3> QED BY <3>1, <3>2
    <2>3. ASSUME NEW s \in Small(S, k + 1)
          PROVE  SlotStep(g, f, s) = SlotStep(h, f, s)
      <3>1. CASE s = {}
        BY <3>1 DEF SlotStep
      <3>2. CASE s # {}
        <4>1. s \ {Pick(s)} \in Small(S, k)
          BY <3>2, SetSizes
        <4>2. h[s \ {Pick(s)}] = g[s \ {Pick(s)}]
          BY <2>2, <4>1
        <4> HIDE DEF h
        <4> QED BY <4>2 DEF SlotStep
      <3> QED BY <3>1, <3>2
    <2>4. h = [s \in Small(S, k + 1) |-> SlotStep(h, f, s)]
      BY <2>3
    <2>5. Slotted(h, f, Small(S, k + 1))
      BY <2>4 DEF Slotted
    <2> QED BY <2>5
  <1> HIDE DEF T
  <1>3. T = Nat
    <2>1. T \in SUBSET Nat
      BY DEF T
    <2> QED BY <1>1, <1>2, <2>1, SetInduction
  <1>4. \E g : Slotted(g, f, Small(S, Cardinality(S)))
    BY <1>3, SetSizes DEF T
  <1>5. Small(S, Cardinality(S)) = SUBSET S
    BY SetSizes
  <1> QED BY <1>4, <1>5

\* The fold, as a function of the sets it went through.
TakenBy(g, f, S) ==
  /\ g[{}] = 0
  /\ \A s \in SUBSET S : s # {} => g[s] = f[Pick(s)] + g[s \ {Pick(s)}]

LEMMA SlottedOne ==
  ASSUME NEW S, IsFiniteSet(S), NEW f, DOMAIN f = S
  PROVE  \E g : Taken(f) = g[S] /\ TakenBy(g, f, S)
  <1> DEFINE D == DOMAIN f
             g == CHOOSE h : Slotted(h, f, SUBSET D)
  <1>1. Taken(f) = g[D]
    BY DEF Taken, FoldFunction, FoldFunctionOnSet, MapThenFoldSet, Slotted, SlotStep, Pick
  <1>2. Slotted(g, f, SUBSET D)
    BY SlottedExists
  <1> HIDE DEF g
  <1>3. D = S
    OBVIOUS
  <1> HIDE DEF D
  <1>4. \A s \in SUBSET S : g[s] = SlotStep(g, f, s)
    BY <1>2, <1>3 DEF Slotted
  <1>5. g[{}] = 0
    BY <1>4 DEF SlotStep
  <1>6. \A s \in SUBSET S : s # {} => g[s] = f[Pick(s)] + g[s \ {Pick(s)}]
    BY <1>4 DEF SlotStep
  <1>7. TakenBy(g, f, S)
    BY <1>5, <1>6 DEF TakenBy
  <1> QED BY <1>1, <1>3, <1>7

\* When one thread takes or gives back a slot, so does the honeypot.
LEMMA SlotsChange ==
  ASSUME NEW f \in [Threads -> Nat], NEW h \in [Threads -> Nat], NEW t \in Threads,
         \A u \in Threads \ {t} : h[u] = f[u]
  PROVE  Taken(f) \in Nat /\ Taken(h) \in Nat /\ Taken(h) = Taken(f) + (h[t] - f[t])
  <1>1. IsFiniteSet(Threads) /\ DOMAIN f = Threads /\ DOMAIN h = Threads
    BY FS_Interval, HoneypotAssumption DEF Threads
  <1>2. PICK x : Taken(f) = x[Threads] /\ TakenBy(x, f, Threads)
    BY <1>1, SlottedOne
  <1>3. PICK y : Taken(h) = y[Threads] /\ TakenBy(y, h, Threads)
    BY <1>1, SlottedOne
  <1> DEFINE Good(s) ==
               /\ x[s] \in Nat /\ y[s] \in Nat
               /\ y[s] = x[s] + (IF t \in s THEN h[t] - f[t] ELSE 0)
             T == {k \in Nat : \A s \in Small(Threads, k) : Good(s)}
  <1>4. 0 \in T
    <2>1. Small(Threads, 0) = {{}} /\ x[{}] = 0 /\ y[{}] = 0
      BY <1>1, <1>2, <1>3, SetSizes DEF TakenBy
    <2>2. Good({})
      BY <2>1
    <2> QED BY <2>1, <2>2
  <1>5. ASSUME NEW k \in T PROVE k + 1 \in T
    <2>1. ASSUME NEW s \in Small(Threads, k + 1) PROVE Good(s)
      <3>1. CASE s = {}
        BY <1>2, <1>3, <3>1 DEF TakenBy
      <3>2. CASE s # {}
        <4> DEFINE e == Pick(s)
        <4>1. /\ s \in SUBSET Threads /\ e \in s /\ e \in Threads
              /\ s \ {e} \in Small(Threads, k)
          BY <1>1, <3>2, SetSizes
        <4>2. x[s] = f[e] + x[s \ {e}] /\ y[s] = h[e] + y[s \ {e}]
          BY <1>2, <1>3, <3>2, <4>1 DEF TakenBy
        <4>3. Good(s \ {e}) /\ f[e] \in Nat /\ h[e] \in Nat
          BY <4>1
        <4> HIDE DEF e
        <4>4. CASE e = t
          <5>1. t \in s /\ t \notin s \ {e}
            BY <4>1, <4>4
          <5> QED BY <4>2, <4>3, <4>4, <5>1
        <4>5. CASE e # t
          <5>1. h[e] = f[e] /\ (t \in s <=> t \in s \ {e})
            BY <4>1, <4>5
          <5> QED BY <4>2, <4>3, <5>1
        <4> QED BY <4>4, <4>5
      <3> QED BY <3>1, <3>2
    <2> QED BY <2>1
  <1> HIDE DEF T
  <1>6. T = Nat
    <2>1. T \in SUBSET Nat
      BY DEF T
    <2> QED BY <1>4, <1>5, <2>1, SetInduction
  <1>7. Good(Threads)
    BY <1>1, <1>6, SetSizes DEF T
  <1> QED BY <1>2, <1>3, <1>7

\* Nobody talks when the honeypot is new.
LEMMA NoSlots ==
  ASSUME NEW f, DOMAIN f = Threads, \A t \in Threads : f[t] = 0
  PROVE  Taken(f) = 0
  <1>1. IsFiniteSet(Threads)
    BY FS_Interval, HoneypotAssumption DEF Threads
  <1>2. PICK x : Taken(f) = x[Threads] /\ TakenBy(x, f, Threads)
    BY <1>1, SlottedOne
  <1> DEFINE T == {k \in Nat : \A s \in Small(Threads, k) : x[s] = 0}
  <1>3. 0 \in T
    <2>1. Small(Threads, 0) = {{}} /\ x[{}] = 0
      BY <1>1, <1>2, SetSizes DEF TakenBy
    <2> QED BY <2>1
  <1>4. ASSUME NEW k \in T PROVE k + 1 \in T
    <2>1. ASSUME NEW s \in Small(Threads, k + 1) PROVE x[s] = 0
      <3>1. CASE s = {}
        BY <1>2, <3>1 DEF TakenBy
      <3>2. CASE s # {}
        <4>1. /\ s \in SUBSET Threads /\ Pick(s) \in Threads
              /\ s \ {Pick(s)} \in Small(Threads, k)
          BY <1>1, <3>2, SetSizes
        <4>2. x[s] = f[Pick(s)] + x[s \ {Pick(s)}]
          BY <1>2, <3>2, <4>1 DEF TakenBy
        <4>3. f[Pick(s)] = 0 /\ x[s \ {Pick(s)}] = 0
          BY <4>1
        <4> QED BY <4>2, <4>3
      <3> QED BY <3>1, <3>2
    <2> QED BY <2>1
  <1> HIDE DEF T
  <1>5. T = Nat
    <2>1. T \in SUBSET Nat
      BY DEF T
    <2> QED BY <1>3, <1>4, <2>1, SetInduction
  <1>6. x[Threads] = 0
    BY <1>1, <1>5, SetSizes DEF T
  <1> QED BY <1>2, <1>6

\* The events waiting in the queue q and in the batches b of a set of writers.
WaitStep(g, q, b, s) == IF s = {} THEN q ELSE b[Pick(s)] \o g[s \ {Pick(s)}]
Joins(g, q, b, D) == g = [s \in D |-> WaitStep(g, q, b, s)]

LEMMA JoinsExists ==
  ASSUME NEW q, NEW b, NEW S, IsFiniteSet(S) PROVE \E g : Joins(g, q, b, SUBSET S)
  <1> DEFINE T == {k \in Nat : \E g : Joins(g, q, b, Small(S, k))}
  <1>1. 0 \in T
    <2>1. Small(S, 0) = {{}}
      BY SetSizes
    <2> DEFINE g == [s \in Small(S, 0) |-> q]
    <2>2. g = [s \in Small(S, 0) |-> WaitStep(g, q, b, s)]
      BY <2>1 DEF WaitStep
    <2>3. Joins(g, q, b, Small(S, 0))
      BY <2>2 DEF Joins
    <2> QED BY <2>3
  <1>2. ASSUME NEW k \in T PROVE k + 1 \in T
    <2>1. PICK g : Joins(g, q, b, Small(S, k))
      OBVIOUS
    <2> DEFINE h == [s \in Small(S, k + 1) |-> WaitStep(g, q, b, s)]
    <2>2. \A s \in Small(S, k) : h[s] = g[s]
      <3>1. \A s \in Small(S, k) : s \in Small(S, k + 1)
        BY SetSizes
      <3>2. \A s \in Small(S, k) : g[s] = WaitStep(g, q, b, s)
        BY <2>1 DEF Joins
      <3> QED BY <3>1, <3>2
    <2>3. ASSUME NEW s \in Small(S, k + 1)
          PROVE  WaitStep(g, q, b, s) = WaitStep(h, q, b, s)
      <3>1. CASE s = {}
        BY <3>1 DEF WaitStep
      <3>2. CASE s # {}
        <4>1. s \ {Pick(s)} \in Small(S, k)
          BY <3>2, SetSizes
        <4>2. h[s \ {Pick(s)}] = g[s \ {Pick(s)}]
          BY <2>2, <4>1
        <4> HIDE DEF h
        <4> QED BY <4>2 DEF WaitStep
      <3> QED BY <3>1, <3>2
    <2>4. h = [s \in Small(S, k + 1) |-> WaitStep(h, q, b, s)]
      BY <2>3
    <2>5. Joins(h, q, b, Small(S, k + 1))
      BY <2>4 DEF Joins
    <2> QED BY <2>5
  <1> HIDE DEF T
  <1>3. T = Nat
    <2>1. T \in SUBSET Nat
      BY DEF T
    <2> QED BY <1>1, <1>2, <2>1, SetInduction
  <1>4. \E g : Joins(g, q, b, Small(S, Cardinality(S)))
    BY <1>3, SetSizes DEF T
  <1>5. Small(S, Cardinality(S)) = SUBSET S
    BY SetSizes
  <1> QED BY <1>4, <1>5

\* The fold, as a function of the sets it went through.
Waiting(q, b) == FoldFunction(\o, q, b)
WaitingIn(g, q, b, S) ==
  /\ g[{}] = q
  /\ \A s \in SUBSET S : s # {} => g[s] = b[Pick(s)] \o g[s \ {Pick(s)}]

LEMMA JoinsOne ==
  ASSUME NEW S, IsFiniteSet(S), NEW q, NEW b, DOMAIN b = S
  PROVE  \E g : Waiting(q, b) = g[S] /\ WaitingIn(g, q, b, S)
  <1> DEFINE D == DOMAIN b
             g == CHOOSE h : Joins(h, q, b, SUBSET D)
  <1>1. Waiting(q, b) = g[D]
    BY DEF Waiting, FoldFunction, FoldFunctionOnSet, MapThenFoldSet, Joins, WaitStep, Pick
  <1>2. Joins(g, q, b, SUBSET D)
    BY JoinsExists
  <1> HIDE DEF g
  <1>3. D = S
    OBVIOUS
  <1> HIDE DEF D
  <1>4. \A s \in SUBSET S : g[s] = WaitStep(g, q, b, s)
    BY <1>2, <1>3 DEF Joins
  <1>5. g[{}] = q
    BY <1>4 DEF WaitStep
  <1>6. \A s \in SUBSET S : s # {} => g[s] = b[Pick(s)] \o g[s \ {Pick(s)}]
    BY <1>4 DEF WaitStep
  <1>7. WaitingIn(g, q, b, S)
    BY <1>5, <1>6 DEF WaitingIn
  <1> QED BY <1>1, <1>3, <1>7

LEMMA JoinApart ==
  ASSUME NEW c \in Seq(Nat), NEW y \in Seq(Nat), NoDup(c), NoDup(y),
         Elems(c) \cap Elems(y) = {}
  PROVE  /\ c \o y \in Seq(Nat) /\ Elems(c \o y) = Elems(c) \cup Elems(y)
         /\ NoDup(c \o y)
  <1>1. /\ c \o y \in Seq(Nat) /\ Elems(c \o y) = Elems(c) \cup Elems(y)
        /\ NoDup(c) /\ NoDup(y) /\ Elems(c) \cap Elems(y) = {} => NoDup(c \o y)
    BY ConcatFacts
  <1> QED BY <1>1

\* Joined, they have every event once.
LEMMA WaitingFacts ==
  ASSUME NEW q, NEW b, Apart(q, b)
  PROVE  /\ Waiting(q, b) \in Seq(Nat) /\ NoDup(Waiting(q, b))
         /\ Elems(Waiting(q, b)) = Inside(q, b, Runs)
  <1>1. IsFiniteSet(Runs) /\ DOMAIN b = Runs
    BY FS_Interval, HoneypotAssumption DEF Runs, Apart
  <1>2. PICK x : Waiting(q, b) = x[Runs] /\ WaitingIn(x, q, b, Runs)
    BY <1>1, JoinsOne
  <1> DEFINE Good(s) ==
               x[s] \in Seq(Nat) /\ NoDup(x[s]) /\ Elems(x[s]) = Inside(q, b, s)
             T == {k \in Nat : \A s \in Small(Runs, k) : Good(s)}
  <1>3. Good({})
    BY <1>2 DEF Apart, Inside, WaitingIn
  <1>4. 0 \in T
    <2>1. Small(Runs, 0) = {{}}
      BY <1>1, SetSizes
    <2> QED BY <1>3, <2>1
  <1>5. ASSUME NEW k \in T PROVE k + 1 \in T
    <2>1. ASSUME NEW s \in Small(Runs, k + 1) PROVE Good(s)
      <3>1. CASE s = {}
        BY <1>3, <3>1
      <3>2. CASE s # {}
        <4> DEFINE e == Pick(s)
        <4>1. /\ s \in SUBSET Runs /\ e \in s /\ e \in Runs
              /\ s \ {e} \in Small(Runs, k) /\ s \ {e} \in SUBSET Runs
          <5> HIDE DEF Good
          <5> QED BY <1>1, <3>2, SetSizes
        <4>2. x[s] = b[e] \o x[s \ {e}]
          BY <1>2, <3>2, <4>1 DEF WaitingIn
        <4>3. Good(s \ {e})
          BY <4>1
        <4> HIDE DEF e
        <4>4. b[e] \in Seq(Nat) /\ NoDup(b[e])
          BY <4>1 DEF Apart
        <4>5. Elems(b[e]) \cap Inside(q, b, s \ {e}) = {}
          BY <4>1 DEF Apart, Inside
        <4>6. Inside(q, b, s) = Elems(b[e]) \cup Inside(q, b, s \ {e})
          BY <4>1 DEF Inside
        <4> DEFINE y == x[s \ {e}]
                   c == b[e]
        <4>7. y \in Seq(Nat) /\ NoDup(y) /\ Elems(y) = Inside(q, b, s \ {e})
          BY <4>3
        <4>8. c \in Seq(Nat) /\ NoDup(c) /\ x[s] = c \o y
          BY <4>2, <4>4
        <4>9. Elems(c) \cap Elems(y) = {} /\ Elems(c) \cup Elems(y) = Inside(q, b, s)
          BY <4>5, <4>6, <4>7
        <4> HIDE DEF c, y
        <4>10. /\ c \o y \in Seq(Nat) /\ Elems(c \o y) = Elems(c) \cup Elems(y)
               /\ NoDup(c \o y)
          BY <4>7, <4>8, <4>9, JoinApart
        <4> QED BY <4>8, <4>9, <4>10
      <3> QED BY <3>1, <3>2
    <2> QED BY <2>1
  <1> HIDE DEF T
  <1>6. T = Nat
    <2>1. T \in SUBSET Nat
      BY DEF T
    <2> QED BY <1>4, <1>5, <2>1, SetInduction
  <1>7. Good(Runs)
    BY <1>1, <1>6, SetSizes DEF T
  <1> QED BY <1>2, <1>7

-----------------------------------------------------------------------------
(* How events move. *)

\* A new event has no place yet.
LEMMA EventArrives ==
  ASSUME NEW q, NEW b, NEW P, NEW L, NEW n \in Nat, Placed(q, b, P, L, n)
  PROVE  /\ Placed(q, b, P, L, n + 1) /\ n + 1 \in Free(q, b, P, L, n + 1)
         /\ Free(q, b, P, L, n + 1) = Free(q, b, P, L, n) \cup {n + 1}
         /\ n + 1 \notin Free(q, b, P, L, n)
  <1> DEFINE K == Inside(q, b, Runs) \cup P \cup L
  <1>1. K \subseteq 1..n
    BY DEF Placed
  <1>2. /\ K \subseteq 1..(n + 1) /\ n + 1 \notin K /\ n + 1 \in 1..(n + 1)
        /\ 1..(n + 1) = (1..n) \cup {n + 1} /\ n + 1 \notin 1..n
    BY <1>1
  <1>3. /\ Free(q, b, P, L, n) = (1..n) \ K
        /\ Free(q, b, P, L, n + 1) = (1..(n + 1)) \ K
    BY DEF Free
  <1>4. Placed(q, b, P, L, n + 1)
    BY <1>2 DEF Placed
  <1> HIDE DEF K
  <1> QED BY <1>2, <1>3, <1>4

\* An event is queued or given up.
LEMMA EventQueued ==
  ASSUME NEW q, NEW b, NEW P, NEW L, NEW n \in Nat, Placed(q, b, P, L, n),
         NEW e \in Free(q, b, P, L, n)
  PROVE  /\ Placed(Append(q, e), b, P, L, n) /\ Placed(q, b, P, L \cup {e}, n)
         /\ FreeIs(Append(q, e), b, P, L, n, Free(q, b, P, L, n) \ {e})
         /\ FreeIs(q, b, P, L \cup {e}, n, Free(q, b, P, L, n) \ {e})
  <1>1. e \in 1..n /\ e \in Nat /\ e \notin Inside(q, b, Runs) \cup P \cup L
    BY DEF Free
  <1>2. q \in Seq(Nat) /\ NoDup(q) /\ e \notin Elems(q)
    BY <1>1 DEF Placed, Apart, Inside
  <1>3. /\ Append(q, e) \in Seq(Nat) /\ NoDup(Append(q, e))
        /\ Elems(Append(q, e)) = Elems(q) \cup {e}
    BY <1>1, <1>2, AppendFacts
  <1>4. \A r \in Runs : e \notin Elems(b[r])
    BY <1>1 DEF Inside
  <1>5. Apart(Append(q, e), b)
    BY <1>3, <1>4 DEF Placed, Apart
  <1>6. Inside(Append(q, e), b, Runs) = Inside(q, b, Runs) \cup {e}
    BY <1>3 DEF Inside
  <1>7. Placed(Append(q, e), b, P, L, n)
    BY <1>1, <1>5, <1>6 DEF Placed
  <1>8. Placed(q, b, P, L \cup {e}, n)
    BY <1>1 DEF Placed
  <1> QED BY <1>6, <1>7, <1>8 DEF Free, FreeIs

\* A writer takes the first k of the queue.
LEMMA EventsTaken ==
  ASSUME NEW q, NEW b, NEW P, NEW L, NEW n \in Nat, Placed(q, b, P, L, n),
         NEW r \in Runs, b[r] = <<>>, NEW k \in 0..Len(q),
         NEW c, c = [b EXCEPT ![r] = SubSeq(q, 1, k)]
  PROVE  /\ Placed(Drop(q, k), c, P, L, n)
         /\ FreeIs(Drop(q, k), c, P, L, n, Free(q, b, P, L, n))
  <1> DEFINE h == SubSeq(q, 1, k)
             d == Drop(q, k)
  <1>1. q \in Seq(Nat) /\ NoDup(q) /\ b \in [Runs -> Seq(Nat)]
    BY DEF Placed, Apart
  <1>2. h \in Seq(Nat) /\ NoDup(h) /\ Elems(h) = Elems(q) \ Elems(d)
    BY <1>1, PrefixFacts
  <1>3. d \in Seq(Nat) /\ NoDup(d) /\ Elems(d) \subseteq Elems(q)
    BY <1>1, DropFacts, LeadingFacts
  <1> HIDE DEF h, d
  <1>4. c \in [Runs -> Seq(Nat)] /\ c[r] = h /\ \A p \in Runs \ {r} : c[p] = b[p]
    BY <1>1, <1>2 DEF h
  <1>5. Elems(b[r]) = {}
    BY ElemsEmpty
  <1>6. \A p \in Runs : Elems(b[p]) \cap Elems(q) = {} /\ NoDup(b[p])
    BY DEF Placed, Apart
  <1>7. Apart(d, c)
    <2>1. \A p \in Runs : NoDup(c[p]) /\ Elems(c[p]) \cap Elems(d) = {}
      BY <1>2, <1>3, <1>4, <1>6
    <2>2. \A p, s \in Runs : p # s => Elems(c[p]) \cap Elems(c[s]) = {}
      <3>1. \A p, s \in Runs : p # s => Elems(b[p]) \cap Elems(b[s]) = {}
        BY DEF Placed, Apart
      <3> QED BY <1>2, <1>4, <1>6, <3>1
    <2> QED BY <1>3, <1>4, <2>1, <2>2 DEF Apart
  <1>8. Inside(d, c, Runs) = Inside(q, b, Runs)
    <2>1. \A x : x \in Inside(d, c, Runs) <=> x \in Elems(d) \/ \E p \in Runs : x \in Elems(c[p])
      BY DEF Inside
    <2>2. \A x : x \in Inside(q, b, Runs) <=> x \in Elems(q) \/ \E p \in Runs : x \in Elems(b[p])
      BY DEF Inside
    <2>3. \A x : x \in Elems(q) <=> x \in Elems(d) \/ x \in Elems(c[r])
      BY <1>2, <1>3, <1>4
    <2>4. \A x : (\E p \in Runs : x \in Elems(c[p])) <=>
                   x \in Elems(c[r]) \/ \E p \in Runs \ {r} : x \in Elems(b[p])
      BY <1>4
    <2>5. \A x : (\E p \in Runs : x \in Elems(b[p])) <=>
                   \E p \in Runs \ {r} : x \in Elems(b[p])
      BY <1>5
    <2> QED BY <2>1, <2>2, <2>3, <2>4, <2>5
  <1>9. Placed(d, c, P, L, n) /\ Free(d, c, P, L, n) = Free(q, b, P, L, n)
    BY <1>7, <1>8 DEF Placed, Free
  <1> QED BY <1>9 DEF d, FreeIs

\* What leaves a batch: G is what is gone of it, s what is left.
LEMMA EventsLeave ==
  ASSUME NEW q, NEW b, NEW P, NEW L, NEW n \in Nat, Placed(q, b, P, L, n),
         NEW r \in Runs, NEW s \in Seq(Nat), NoDup(s), NEW G,
         Elems(s) \cap G = {}, Elems(s) \cup G = Elems(b[r]),
         NEW c, c = [b EXCEPT ![r] = s]
  PROVE  /\ Placed(q, c, P \cup G, L, n) /\ Placed(q, c, P, L \cup G, n)
         /\ FreeIs(q, c, P \cup G, L, n, Free(q, b, P, L, n))
         /\ FreeIs(q, c, P, L \cup G, n, Free(q, b, P, L, n))
  <1>1. /\ q \in Seq(Nat) /\ NoDup(q) /\ b \in [Runs -> Seq(Nat)]
        /\ \A p \in Runs : NoDup(b[p]) /\ Elems(b[p]) \cap Elems(q) = {}
        /\ \A p, t \in Runs : p # t => Elems(b[p]) \cap Elems(b[t]) = {}
    BY DEF Placed, Apart
  <1>2. c \in [Runs -> Seq(Nat)] /\ c[r] = s /\ \A p \in Runs \ {r} : c[p] = b[p]
    BY <1>1
  <1>3. Elems(c[r]) \subseteq Elems(b[r])
    BY <1>2
  <1>4. Apart(q, c)
    <2>1. \A p \in Runs : Elems(c[p]) \subseteq Elems(b[p]) /\ NoDup(c[p])
      BY <1>1, <1>2, <1>3
    <2> QED BY <1>1, <1>2, <2>1 DEF Apart
  <1>5. \A x : x \in Inside(q, c, Runs) <=> x \in Elems(q) \/ \E p \in Runs : x \in Elems(c[p])
    BY DEF Inside
  <1>6. \A x : x \in Inside(q, b, Runs) <=> x \in Elems(q) \/ \E p \in Runs : x \in Elems(b[p])
    BY DEF Inside
  <1>7. Inside(q, b, Runs) = Inside(q, c, Runs) \cup G
    <2>1. \A x : (\E p \in Runs : x \in Elems(b[p])) <=>
                   (\E p \in Runs : x \in Elems(c[p])) \/ x \in G
      BY <1>2
    <2> QED BY <1>5, <1>6, <2>1
  <1>8. Inside(q, c, Runs) \cap G = {}
    <2>1. ASSUME NEW x \in G PROVE x \notin Inside(q, c, Runs)
      <3>1. x \in Elems(b[r]) /\ x \notin Elems(c[r])
        BY <1>2, <2>1
      <3>2. x \notin Elems(q) /\ \A p \in Runs \ {r} : x \notin Elems(b[p])
        BY <1>1, <3>1
      <3> QED BY <1>2, <1>5, <3>1, <3>2
    <2> QED BY <2>1
  <1>9. G \cap (P \cup L) = {} /\ Inside(q, c, Runs) \cap (P \cup L) = {} /\ P \cap L = {}
    BY <1>7 DEF Placed
  <1>10. Inside(q, c, Runs) \cup P \cup L \cup G \subseteq 1..n
    BY <1>7 DEF Placed
  <1>11. Placed(q, c, P \cup G, L, n) /\ Placed(q, c, P, L \cup G, n)
    BY <1>4, <1>8, <1>9, <1>10 DEF Placed
  <1>12. /\ Free(q, c, P \cup G, L, n) = Free(q, b, P, L, n)
         /\ Free(q, c, P, L \cup G, n) = Free(q, b, P, L, n)
    BY <1>7 DEF Free
  <1> QED BY <1>11, <1>12 DEF FreeIs

LEMMA UnheardIs ==
  /\ Unheard = Free(queue, Batches, packets, lost, seen)
  /\ Unheard' = Free(queue', Batches', packets', lost', seen')
  <1>1. \A s : Range(s) = Elems(s)
    BY DEF Range, Elems
  <1>2. UNION {Range(writer[r].batch) : r \in Runs} = UNION {Elems(Batches[r]) : r \in Runs}
    BY <1>1 DEF Batches
  <1>3. UNION {Range(writer'[r].batch) : r \in Runs} = UNION {Elems(Batches'[r]) : r \in Runs}
    BY <1>1 DEF Batches
  <1> QED BY <1>1, <1>2, <1>3 DEF Unheard, Free, Inside

\* A conversation begins, with an event of its own, or one ends.
LEMMA UnheardCount ==
  ASSUME IInv
  PROVE  /\ IsFiniteSet(Unheard) /\ Cardinality(Unheard) \in Nat
         /\ \A e : e \notin Unheard => Cardinality(Unheard \cup {e}) = Cardinality(Unheard) + 1
         /\ \A e \in Unheard : Cardinality(Unheard \ {e}) = Cardinality(Unheard) - 1
  <1>1. Unheard \subseteq 1..seen /\ seen \in Nat
    BY DEF Unheard, IInv, TypeOK, CallType
  <1>2. IsFiniteSet(Unheard) /\ Cardinality(Unheard) \in Nat
    <2>1. IsFiniteSet(1..seen)
      BY <1>1, FS_Interval
    <2>2. IsFiniteSet(Unheard)
      BY <1>1, <2>1, FS_Subset
    <2> QED BY <2>2, FS_CardinalityType
  <1> QED BY <1>2, FS_AddElement, FS_RemoveElement

\* A step that moves no event.
LEMMA EventsKept ==
  ASSUME IInv, UNCHANGED <<queue, packets, lost, seen, open>>,
         \A r \in Runs : writer'[r].batch = writer[r].batch
  PROVE  EventInv' /\ SlotInv'
  <1>1. Batches' = Batches
    BY DEF Batches
  <1>2. Unheard' = Unheard
    BY <1>1, UnheardIs
  <1>3. EventInv /\ SlotInv
    BY DEF IInv
  <1>4. EventInv'
    BY <1>1, <1>3 DEF EventInv
  <1> QED BY <1>2, <1>3, <1>4 DEF SlotInv

\* What is written of a batch.
LEMMA BatchIs ==
  ASSUME IInv, NEW r \in Runs, NEW s \in Seq(Nat), Wrote(writer', writer, r, s)
  PROVE  Batches' = [Batches EXCEPT ![r] = s]
  BY DEF Wrote, Batches

-----------------------------------------------------------------------------
(* One lemma per conjunct, one step per action. *)

\* Every step keeps the types of the rows and flags.
LEMMA StepEngineType ==
  ASSUME IInv, [Next]_vars PROVE EngineType'
  <1> USE HoneypotAssumption DEF IInv, TypeOK, EngineType, States
  <1>1. ASSUME StartBegins PROVE EngineType'
    BY <1>1 DEF StartBegins, Idle, Budget, Starting, storeVars, threadVars,
      writeVars
  <1>2. ASSUME StartSpawns PROVE EngineType'
    BY <1>2 DEF StartSpawns, Idle, flagVars, threadVars, countVars
  <1>3. ASSUME StopSignals PROVE EngineType'
    BY <1>3 DEF StopSignals, Idle, storeVars, threadVars, writeVars, countVars
  <1>4. ASSUME StopDrains PROVE EngineType'
    BY <1>4 DEF StopDrains, Joined, Idle, Present, storeVars, flagVars,
      writeVars, countVars, Alive
  <1>5. ASSUME StopCloses PROVE EngineType'
    BY <1>5 DEF StopCloses, Idle, threadVars, countVars
  <1>6. ASSUME CallRegisters PROVE EngineType'
    BY <1>6 DEF CallRegisters, Register, Idle, storeVars, flagVars, writeVars,
      countVars
  <1>7. ASSUME NEW id \in Listeners, EnableListener(id) PROVE EngineType'
    BY <1>7 DEF EnableListener, Idle, Toggles, SpawnFromCall, threadVars,
      writeVars, Budget, Starting, Leftover, Present, Refused, Alive
  <1>8. ASSUME NEW id \in Listeners, DisableListener(id) PROVE EngineType'
    BY <1>8 DEF DisableListener, Idle, Toggles, StopListener, flagVars,
      writeVars, Budget, Starting, Leftover, Present, Alive
  <1>9. ASSUME NEW id \in Listeners, CreateListener(id) PROVE EngineType'
    BY <1>9 DEF CreateListener, Idle, Toggles, SpawnFromCall, threadVars,
      writeVars, Budget, Starting, Leftover, Present, Refused, Alive
  <1>10. ASSUME NEW r \in Runs, StarterTls(r) PROVE EngineType'
    BY <1>10 DEF StarterTls, At, storeVars, threadVars, writeVars, countVars
  <1>11. ASSUME NEW r \in Runs, StarterLists(r) PROVE EngineType'
    BY <1>11 DEF StarterLists, At, storeVars, flagVars, threadVars, writeVars,
      countVars
  <1>12. ASSUME NEW r \in Runs, StarterRegisters(r) PROVE EngineType'
    BY <1>12 DEF StarterRegisters, At, Register, storeVars, flagVars,
      writeVars, countVars
  <1>13. ASSUME NEW r \in Runs, StarterCounts(r) PROVE EngineType'
    BY <1>13 DEF StarterCounts, At, storeVars, flagVars, threadVars, writeVars,
      countVars
  <1>14. ASSUME NEW r \in Runs, StarterJudges(r) PROVE EngineType'
    BY <1>14 DEF StarterJudges, At, Judges, NoStarter, storeVars, threadVars,
      writeVars, countVars
  <1>15. ASSUME NEW r \in Runs, NEW id \in Listeners, StarterTakes(r, id)
         PROVE  EngineType'
    BY <1>15 DEF StarterTakes, At, Present, Refused, storeVars, flagVars,
      threadVars, writeVars, countVars, Alive
  <1>16. ASSUME NEW t \in Threads, ListenerBinds(t) PROVE EngineType'
    BY <1>16 DEF ListenerBinds, Held, storeVars, flagVars, writeVars, countVars
  <1>17. ASSUME NEW t \in Threads, ListenerFails(t) PROVE EngineType'
    BY <1>17 DEF ListenerFails, Gone, storeVars, flagVars, writeVars, countVars
  <1>18. ASSUME NEW t \in Threads, ListenerLeaves(t) PROVE EngineType'
    BY <1>18 DEF ListenerLeaves, Stopping, Gone, storeVars, flagVars,
      writeVars, countVars
  <1>19. ASSUME NEW t \in Threads, ListenerAccepts(t) PROVE EngineType'
    BY <1>19 DEF ListenerAccepts, Arrives, storeVars, flagVars, Budget
  <1>20. ASSUME NEW t \in Threads, DatagramHandled(t) PROVE EngineType'
    BY <1>20 DEF DatagramHandled, Arrives, storeVars, flagVars, threadVars,
      Budget
  <1>21. ASSUME NEW t \in Threads, NEW ok \in BOOLEAN, ConversationEnds(t, ok)
         PROVE  EngineType'
    BY <1>21 DEF ConversationEnds, Ends, storeVars, flagVars, countVars
  <1>22. ASSUME NEW r \in Runs, NEW ok \in BOOLEAN, WriterOpens(r, ok)
         PROVE  EngineType'
    BY <1>22 DEF WriterOpens, storeVars, flagVars, threadVars, countVars
  <1>23. ASSUME NEW r \in Runs, WriterTakes(r) PROVE EngineType'
    BY <1>23 DEF WriterTakes, storeVars, flagVars, threadVars, countVars
  <1>24. ASSUME NEW r \in Runs, WriterStores(r) PROVE EngineType'
    BY <1>24 DEF WriterStores, Stale, storeVars, flagVars, threadVars,
      countVars
  <1>25. ASSUME NEW r \in Runs, WriterFails(r) PROVE EngineType'
    BY <1>25 DEF WriterFails, Drops, storeVars, flagVars, threadVars, countVars
  <1>26. ASSUME NEW r \in Runs, WriterLeaves(r) PROVE EngineType'
    BY <1>26 DEF WriterLeaves, NoWriter, storeVars, flagVars, threadVars,
      countVars
  <1>27. ASSUME UNCHANGED vars PROVE EngineType'
    BY <1>27 DEF vars, storeVars, flagVars, threadVars, writeVars, countVars
  <1> QED BY <1>1, <1>2, <1>3, <1>4, <1>5, <1>6, <1>7, <1>8, <1>9, <1>10,
      <1>11, <1>12, <1>13, <1>14, <1>15, <1>16, <1>17, <1>18, <1>19, <1>20,
      <1>21, <1>22, <1>23, <1>24, <1>25, <1>26, <1>27 DEF Next, CallStep,
      StarterStep, ListenerStep, WriterStep

\* Every step keeps the types of the calls.
LEMMA StepCallType ==
  ASSUME IInv, [Next]_vars PROVE CallType'
  <1> USE HoneypotAssumption DEF IInv, TypeOK, CallType, Calls
  <1>1. ASSUME StartBegins PROVE CallType'
    BY <1>1 DEF StartBegins, Idle, Budget, Starting, storeVars, threadVars,
      writeVars
  <1>2. ASSUME StartSpawns PROVE CallType'
    BY <1>2 DEF StartSpawns, Idle, flagVars, threadVars, countVars
  <1>3. ASSUME StopSignals PROVE CallType'
    BY <1>3 DEF StopSignals, Idle, storeVars, threadVars, writeVars, countVars
  <1>4. ASSUME StopDrains PROVE CallType'
    BY <1>4 DEF StopDrains, Joined, Idle, Present, storeVars, flagVars,
      writeVars, countVars, Alive
  <1>5. ASSUME StopCloses PROVE CallType'
    BY <1>5 DEF StopCloses, Idle, threadVars, countVars
  <1>6. ASSUME CallRegisters PROVE CallType'
    BY <1>6 DEF CallRegisters, Register, Idle, storeVars, flagVars, writeVars,
      countVars
  <1>7. ASSUME NEW id \in Listeners, EnableListener(id) PROVE CallType'
    <2>1. call' = Idle \/ call' = [op |-> "register", id |-> id]
      BY <1>7, RegisterCall DEF EnableListener, SpawnFromCall
    <2> QED BY <1>7, <2>1 DEF EnableListener, Toggles, Idle
  <1>8. ASSUME NEW id \in Listeners, DisableListener(id) PROVE CallType'
    BY <1>8 DEF DisableListener, Idle, Toggles, StopListener, flagVars,
      writeVars, Budget, Starting, Leftover, Present, Alive
  <1>9. ASSUME NEW id \in Listeners, CreateListener(id) PROVE CallType'
    <2>1. call' = Idle \/ call' = [op |-> "register", id |-> id]
      BY <1>9, RegisterCall DEF CreateListener, SpawnFromCall
    <2> QED BY <1>9, <2>1 DEF CreateListener, Toggles, Idle
  <1>10. ASSUME NEW r \in Runs, StarterTls(r) PROVE CallType'
    BY <1>10 DEF StarterTls, At, storeVars, threadVars, writeVars, countVars
  <1>11. ASSUME NEW r \in Runs, StarterLists(r) PROVE CallType'
    BY <1>11 DEF StarterLists, At, storeVars, flagVars, threadVars, writeVars,
      countVars
  <1>12. ASSUME NEW r \in Runs, StarterRegisters(r) PROVE CallType'
    BY <1>12 DEF StarterRegisters, At, Register, storeVars, flagVars,
      writeVars, countVars
  <1>13. ASSUME NEW r \in Runs, StarterCounts(r) PROVE CallType'
    BY <1>13 DEF StarterCounts, At, storeVars, flagVars, threadVars, writeVars,
      countVars
  <1>14. ASSUME NEW r \in Runs, StarterJudges(r) PROVE CallType'
    BY <1>14 DEF StarterJudges, At, Judges, NoStarter, storeVars, threadVars,
      writeVars, countVars
  <1>15. ASSUME NEW r \in Runs, NEW id \in Listeners, StarterTakes(r, id)
         PROVE  CallType'
    BY <1>15 DEF StarterTakes, At, Present, Refused, storeVars, flagVars,
      threadVars, writeVars, countVars, Alive
  <1>16. ASSUME NEW t \in Threads, ListenerBinds(t) PROVE CallType'
    BY <1>16 DEF ListenerBinds, Held, storeVars, flagVars, writeVars, countVars
  <1>17. ASSUME NEW t \in Threads, ListenerFails(t) PROVE CallType'
    BY <1>17 DEF ListenerFails, Gone, storeVars, flagVars, writeVars, countVars
  <1>18. ASSUME NEW t \in Threads, ListenerLeaves(t) PROVE CallType'
    BY <1>18 DEF ListenerLeaves, Stopping, Gone, storeVars, flagVars,
      writeVars, countVars
  <1>19. ASSUME NEW t \in Threads, ListenerAccepts(t) PROVE CallType'
    BY <1>19 DEF ListenerAccepts, Arrives, storeVars, flagVars, Budget
  <1>20. ASSUME NEW t \in Threads, DatagramHandled(t) PROVE CallType'
    BY <1>20 DEF DatagramHandled, Arrives, storeVars, flagVars, threadVars,
      Budget
  <1>21. ASSUME NEW t \in Threads, NEW ok \in BOOLEAN, ConversationEnds(t, ok)
         PROVE  CallType'
    BY <1>21 DEF ConversationEnds, Ends, storeVars, flagVars, countVars
  <1>22. ASSUME NEW r \in Runs, NEW ok \in BOOLEAN, WriterOpens(r, ok)
         PROVE  CallType'
    BY <1>22 DEF WriterOpens, storeVars, flagVars, threadVars, countVars
  <1>23. ASSUME NEW r \in Runs, WriterTakes(r) PROVE CallType'
    BY <1>23 DEF WriterTakes, storeVars, flagVars, threadVars, countVars
  <1>24. ASSUME NEW r \in Runs, WriterStores(r) PROVE CallType'
    BY <1>24 DEF WriterStores, Stale, storeVars, flagVars, threadVars,
      countVars
  <1>25. ASSUME NEW r \in Runs, WriterFails(r) PROVE CallType'
    BY <1>25 DEF WriterFails, Drops, storeVars, flagVars, threadVars, countVars
  <1>26. ASSUME NEW r \in Runs, WriterLeaves(r) PROVE CallType'
    BY <1>26 DEF WriterLeaves, NoWriter, storeVars, flagVars, threadVars,
      countVars
  <1>27. ASSUME UNCHANGED vars PROVE CallType'
    BY <1>27 DEF vars, storeVars, flagVars, threadVars, writeVars, countVars
  <1> QED BY <1>1, <1>2, <1>3, <1>4, <1>5, <1>6, <1>7, <1>8, <1>9, <1>10,
      <1>11, <1>12, <1>13, <1>14, <1>15, <1>16, <1>17, <1>18, <1>19, <1>20,
      <1>21, <1>22, <1>23, <1>24, <1>25, <1>26, <1>27 DEF Next, CallStep,
      StarterStep, ListenerStep, WriterStep

\* Every step keeps the types of the listener threads.
LEMMA StepThreadType ==
  ASSUME IInv, [Next]_vars PROVE ThreadType'
  <1> USE HoneypotAssumption DEF IInv, TypeOK, ThreadType, NameInv, ThreadRec,
      Places
  <1>1. ASSUME StartBegins PROVE ThreadType'
    BY <1>1 DEF StartBegins, Idle, Budget, Starting, storeVars, threadVars,
      writeVars
  <1>2. ASSUME StartSpawns PROVE ThreadType'
    BY <1>2 DEF StartSpawns, Idle, flagVars, threadVars, countVars
  <1>3. ASSUME StopSignals PROVE ThreadType'
    BY <1>3 DEF StopSignals, Idle, storeVars, threadVars, writeVars, countVars
  <1>4. ASSUME StopDrains PROVE ThreadType'
    BY <1>4 DEF StopDrains, Joined, Idle, Present, storeVars, flagVars,
      writeVars, countVars, Alive
  <1>5. ASSUME StopCloses PROVE ThreadType'
    BY <1>5 DEF StopCloses, Idle, threadVars, countVars
  <1>6. ASSUME CallRegisters PROVE ThreadType'
    BY <1>6 DEF CallRegisters, Register, Idle, storeVars, flagVars, writeVars,
      countVars
  <1>7. ASSUME NEW id \in Listeners, EnableListener(id) PROVE ThreadType'
    BY <1>7 DEF EnableListener, Idle, Toggles, SpawnFromCall, threadVars,
      writeVars, Budget, Starting, Leftover, Present, Refused, Alive
  <1>8. ASSUME NEW id \in Listeners, DisableListener(id) PROVE ThreadType'
    BY <1>8 DEF DisableListener, Idle, Toggles, StopListener, flagVars,
      writeVars, Budget, Starting, Leftover, Present, Alive
  <1>9. ASSUME NEW id \in Listeners, CreateListener(id) PROVE ThreadType'
    BY <1>9 DEF CreateListener, Idle, Toggles, SpawnFromCall, threadVars,
      writeVars, Budget, Starting, Leftover, Present, Refused, Alive
  <1>10. ASSUME NEW r \in Runs, StarterTls(r) PROVE ThreadType'
    BY <1>10 DEF StarterTls, At, storeVars, threadVars, writeVars, countVars
  <1>11. ASSUME NEW r \in Runs, StarterLists(r) PROVE ThreadType'
    BY <1>11 DEF StarterLists, At, storeVars, flagVars, threadVars, writeVars,
      countVars
  <1>12. ASSUME NEW r \in Runs, StarterRegisters(r) PROVE ThreadType'
    BY <1>12 DEF StarterRegisters, At, Register, storeVars, flagVars,
      writeVars, countVars
  <1>13. ASSUME NEW r \in Runs, StarterCounts(r) PROVE ThreadType'
    BY <1>13 DEF StarterCounts, At, storeVars, flagVars, threadVars, writeVars,
      countVars
  <1>14. ASSUME NEW r \in Runs, StarterJudges(r) PROVE ThreadType'
    BY <1>14 DEF StarterJudges, At, Judges, NoStarter, storeVars, threadVars,
      writeVars, countVars
  <1>15. ASSUME NEW r \in Runs, NEW id \in Listeners, StarterTakes(r, id)
         PROVE  ThreadType'
    BY <1>15 DEF StarterTakes, At, Present, Refused, storeVars, flagVars,
      threadVars, writeVars, countVars, Alive
  <1>16. ASSUME NEW t \in Threads, ListenerBinds(t) PROVE ThreadType'
    <2>1. /\ thread[t] \in ThreadRec /\ thread[t].id \in Listeners
          /\ [thread[t] EXCEPT !.st = "serving"] \in ThreadRec
      BY <1>16 DEF ListenerBinds, Alive
    <2>2. thread' = [thread EXCEPT ![t] = [@ EXCEPT !.st = "serving"]]
      BY <1>16 DEF ListenerBinds
    <2>3. thread' \in [Threads -> ThreadRec]
      BY <2>1, <2>2
    <2> HIDE DEF ThreadRec
    <2> QED BY <1>16, <2>1, <2>3 DEF ListenerBinds
  <1>17. ASSUME NEW t \in Threads, ListenerFails(t) PROVE ThreadType'
    BY <1>17 DEF ListenerFails, Gone, storeVars, flagVars, writeVars, countVars
  <1>18. ASSUME NEW t \in Threads, ListenerLeaves(t) PROVE ThreadType'
    BY <1>18 DEF ListenerLeaves, Stopping, Gone, storeVars, flagVars,
      writeVars, countVars
  <1>19. ASSUME NEW t \in Threads, ListenerAccepts(t) PROVE ThreadType'
    BY <1>19 DEF ListenerAccepts, Arrives, storeVars, flagVars, Budget
  <1>20. ASSUME NEW t \in Threads, DatagramHandled(t) PROVE ThreadType'
    BY <1>20 DEF DatagramHandled, Arrives, storeVars, flagVars, threadVars,
      Budget
  <1>21. ASSUME NEW t \in Threads, NEW ok \in BOOLEAN, ConversationEnds(t, ok)
         PROVE  ThreadType'
    BY <1>21 DEF ConversationEnds, Ends, storeVars, flagVars, countVars
  <1>22. ASSUME NEW r \in Runs, NEW ok \in BOOLEAN, WriterOpens(r, ok)
         PROVE  ThreadType'
    BY <1>22 DEF WriterOpens, storeVars, flagVars, threadVars, countVars
  <1>23. ASSUME NEW r \in Runs, WriterTakes(r) PROVE ThreadType'
    BY <1>23 DEF WriterTakes, storeVars, flagVars, threadVars, countVars
  <1>24. ASSUME NEW r \in Runs, WriterStores(r) PROVE ThreadType'
    BY <1>24 DEF WriterStores, Stale, storeVars, flagVars, threadVars,
      countVars
  <1>25. ASSUME NEW r \in Runs, WriterFails(r) PROVE ThreadType'
    BY <1>25 DEF WriterFails, Drops, storeVars, flagVars, threadVars, countVars
  <1>26. ASSUME NEW r \in Runs, WriterLeaves(r) PROVE ThreadType'
    BY <1>26 DEF WriterLeaves, NoWriter, storeVars, flagVars, threadVars,
      countVars
  <1>27. ASSUME UNCHANGED vars PROVE ThreadType'
    BY <1>27 DEF vars, storeVars, flagVars, threadVars, writeVars, countVars
  <1> QED BY <1>1, <1>2, <1>3, <1>4, <1>5, <1>6, <1>7, <1>8, <1>9, <1>10,
      <1>11, <1>12, <1>13, <1>14, <1>15, <1>16, <1>17, <1>18, <1>19, <1>20,
      <1>21, <1>22, <1>23, <1>24, <1>25, <1>26, <1>27 DEF Next, CallStep,
      StarterStep, ListenerStep, WriterStep

\* Every step keeps the types of the starters.
LEMMA StepStarterType ==
  ASSUME IInv, [Next]_vars PROVE StarterType'
  <1> USE HoneypotAssumption DEF IInv, TypeOK, StarterType, EngineType,
      NameInv, StarterRec, Stages
  <1>1. ASSUME StartBegins PROVE StarterType'
    BY <1>1 DEF StartBegins, Idle, Budget, Starting, storeVars, threadVars,
      writeVars
  <1>2. ASSUME StartSpawns PROVE StarterType'
    BY <1>2 DEF StartSpawns, Idle, flagVars, threadVars, countVars
  <1>3. ASSUME StopSignals PROVE StarterType'
    BY <1>3 DEF StopSignals, Idle, storeVars, threadVars, writeVars, countVars
  <1>4. ASSUME StopDrains PROVE StarterType'
    BY <1>4 DEF StopDrains, Joined, Idle, Present, storeVars, flagVars,
      writeVars, countVars, Alive
  <1>5. ASSUME StopCloses PROVE StarterType'
    BY <1>5 DEF StopCloses, Idle, threadVars, countVars
  <1>6. ASSUME CallRegisters PROVE StarterType'
    BY <1>6 DEF CallRegisters, Register, Idle, storeVars, flagVars, writeVars,
      countVars
  <1>7. ASSUME NEW id \in Listeners, EnableListener(id) PROVE StarterType'
    BY <1>7 DEF EnableListener, Idle, Toggles, SpawnFromCall, threadVars,
      writeVars, Budget, Starting, Leftover, Present, Refused, Alive
  <1>8. ASSUME NEW id \in Listeners, DisableListener(id) PROVE StarterType'
    BY <1>8 DEF DisableListener, Idle, Toggles, StopListener, flagVars,
      writeVars, Budget, Starting, Leftover, Present, Alive
  <1>9. ASSUME NEW id \in Listeners, CreateListener(id) PROVE StarterType'
    BY <1>9 DEF CreateListener, Idle, Toggles, SpawnFromCall, threadVars,
      writeVars, Budget, Starting, Leftover, Present, Refused, Alive
  <1>10. ASSUME NEW r \in Runs, StarterTls(r) PROVE StarterType'
    BY <1>10 DEF StarterTls, At, storeVars, threadVars, writeVars, countVars
  <1>11. ASSUME NEW r \in Runs, StarterLists(r) PROVE StarterType'
    BY <1>11, ListsFacts DEF Moved
  <1>12. ASSUME NEW r \in Runs, StarterRegisters(r) PROVE StarterType'
    BY <1>12 DEF StarterRegisters, At, Register, storeVars, flagVars,
      writeVars, countVars
  <1>13. ASSUME NEW r \in Runs, StarterCounts(r) PROVE StarterType'
    BY <1>13, CountsFacts DEF Moved
  <1>14. ASSUME NEW r \in Runs, StarterJudges(r) PROVE StarterType'
    BY <1>14 DEF StarterJudges, At, Judges, NoStarter, storeVars, threadVars,
      writeVars, countVars
  <1>15. ASSUME NEW r \in Runs, NEW id \in Listeners, StarterTakes(r, id)
         PROVE  StarterType'
    BY <1>15, TakesFacts DEF Moved
  <1>16. ASSUME NEW t \in Threads, ListenerBinds(t) PROVE StarterType'
    BY <1>16 DEF ListenerBinds, Held, storeVars, flagVars, writeVars, countVars
  <1>17. ASSUME NEW t \in Threads, ListenerFails(t) PROVE StarterType'
    BY <1>17 DEF ListenerFails, Gone, storeVars, flagVars, writeVars, countVars
  <1>18. ASSUME NEW t \in Threads, ListenerLeaves(t) PROVE StarterType'
    BY <1>18 DEF ListenerLeaves, Stopping, Gone, storeVars, flagVars,
      writeVars, countVars
  <1>19. ASSUME NEW t \in Threads, ListenerAccepts(t) PROVE StarterType'
    BY <1>19 DEF ListenerAccepts, Arrives, storeVars, flagVars, Budget
  <1>20. ASSUME NEW t \in Threads, DatagramHandled(t) PROVE StarterType'
    BY <1>20 DEF DatagramHandled, Arrives, storeVars, flagVars, threadVars,
      Budget
  <1>21. ASSUME NEW t \in Threads, NEW ok \in BOOLEAN, ConversationEnds(t, ok)
         PROVE  StarterType'
    BY <1>21 DEF ConversationEnds, Ends, storeVars, flagVars, countVars
  <1>22. ASSUME NEW r \in Runs, NEW ok \in BOOLEAN, WriterOpens(r, ok)
         PROVE  StarterType'
    BY <1>22 DEF WriterOpens, storeVars, flagVars, threadVars, countVars
  <1>23. ASSUME NEW r \in Runs, WriterTakes(r) PROVE StarterType'
    BY <1>23 DEF WriterTakes, storeVars, flagVars, threadVars, countVars
  <1>24. ASSUME NEW r \in Runs, WriterStores(r) PROVE StarterType'
    BY <1>24 DEF WriterStores, Stale, storeVars, flagVars, threadVars,
      countVars
  <1>25. ASSUME NEW r \in Runs, WriterFails(r) PROVE StarterType'
    BY <1>25 DEF WriterFails, Drops, storeVars, flagVars, threadVars, countVars
  <1>26. ASSUME NEW r \in Runs, WriterLeaves(r) PROVE StarterType'
    BY <1>26 DEF WriterLeaves, NoWriter, storeVars, flagVars, threadVars,
      countVars
  <1>27. ASSUME UNCHANGED vars PROVE StarterType'
    BY <1>27 DEF vars, storeVars, flagVars, threadVars, writeVars, countVars
  <1> QED BY <1>1, <1>2, <1>3, <1>4, <1>5, <1>6, <1>7, <1>8, <1>9, <1>10,
      <1>11, <1>12, <1>13, <1>14, <1>15, <1>16, <1>17, <1>18, <1>19, <1>20,
      <1>21, <1>22, <1>23, <1>24, <1>25, <1>26, <1>27 DEF Next, CallStep,
      StarterStep, ListenerStep, WriterStep

\* Every step keeps the types of the writers.
LEMMA StepWriterType ==
  ASSUME IInv, [Next]_vars PROVE WriterType'
  <1> USE HoneypotAssumption DEF IInv, TypeOK, WriterType, CallType, NameInv,
      WriterRec
  <1>1. ASSUME StartBegins PROVE WriterType'
    BY <1>1 DEF StartBegins, Idle, Budget, Starting, storeVars, threadVars,
      writeVars
  <1>2. ASSUME StartSpawns PROVE WriterType'
    <2>1. starts \in Runs
      BY <1>2 DEF StartSpawns
    <2>2. [writer EXCEPT ![starts].pc = "open"] \in [Runs -> WriterRec]
      BY <2>1, WriterMoves
    <2> HIDE DEF WriterRec
    <2> QED BY <1>2, <2>1, <2>2 DEF StartSpawns
  <1>3. ASSUME StopSignals PROVE WriterType'
    BY <1>3 DEF StopSignals, Idle, storeVars, threadVars, writeVars, countVars
  <1>4. ASSUME StopDrains PROVE WriterType'
    BY <1>4 DEF StopDrains, Joined, Idle, Present, storeVars, flagVars,
      writeVars, countVars, Alive
  <1>5. ASSUME StopCloses PROVE WriterType'
    BY <1>5 DEF StopCloses, Idle, threadVars, countVars
  <1>6. ASSUME CallRegisters PROVE WriterType'
    BY <1>6 DEF CallRegisters, Register, Idle, storeVars, flagVars, writeVars,
      countVars
  <1>7. ASSUME NEW id \in Listeners, EnableListener(id) PROVE WriterType'
    BY <1>7 DEF EnableListener, Idle, Toggles, SpawnFromCall, threadVars,
      writeVars, Budget, Starting, Leftover, Present, Refused, Alive
  <1>8. ASSUME NEW id \in Listeners, DisableListener(id) PROVE WriterType'
    BY <1>8 DEF DisableListener, Idle, Toggles, StopListener, flagVars,
      writeVars, Budget, Starting, Leftover, Present, Alive
  <1>9. ASSUME NEW id \in Listeners, CreateListener(id) PROVE WriterType'
    BY <1>9 DEF CreateListener, Idle, Toggles, SpawnFromCall, threadVars,
      writeVars, Budget, Starting, Leftover, Present, Refused, Alive
  <1>10. ASSUME NEW r \in Runs, StarterTls(r) PROVE WriterType'
    BY <1>10 DEF StarterTls, At, storeVars, threadVars, writeVars, countVars
  <1>11. ASSUME NEW r \in Runs, StarterLists(r) PROVE WriterType'
    BY <1>11 DEF StarterLists, At, storeVars, flagVars, threadVars, writeVars,
      countVars
  <1>12. ASSUME NEW r \in Runs, StarterRegisters(r) PROVE WriterType'
    BY <1>12 DEF StarterRegisters, At, Register, storeVars, flagVars,
      writeVars, countVars
  <1>13. ASSUME NEW r \in Runs, StarterCounts(r) PROVE WriterType'
    BY <1>13 DEF StarterCounts, At, storeVars, flagVars, threadVars, writeVars,
      countVars
  <1>14. ASSUME NEW r \in Runs, StarterJudges(r) PROVE WriterType'
    BY <1>14 DEF StarterJudges, At, Judges, NoStarter, storeVars, threadVars,
      writeVars, countVars
  <1>15. ASSUME NEW r \in Runs, NEW id \in Listeners, StarterTakes(r, id)
         PROVE  WriterType'
    BY <1>15 DEF StarterTakes, At, Present, Refused, storeVars, flagVars,
      threadVars, writeVars, countVars, Alive
  <1>16. ASSUME NEW t \in Threads, ListenerBinds(t) PROVE WriterType'
    BY <1>16 DEF ListenerBinds, Held, storeVars, flagVars, writeVars, countVars
  <1>17. ASSUME NEW t \in Threads, ListenerFails(t) PROVE WriterType'
    BY <1>17 DEF ListenerFails, Gone, storeVars, flagVars, writeVars, countVars
  <1>18. ASSUME NEW t \in Threads, ListenerLeaves(t) PROVE WriterType'
    BY <1>18 DEF ListenerLeaves, Stopping, Gone, storeVars, flagVars,
      writeVars, countVars
  <1>19. ASSUME NEW t \in Threads, ListenerAccepts(t) PROVE WriterType'
    BY <1>19 DEF ListenerAccepts, Arrives, storeVars, flagVars, Budget
  <1>20. ASSUME NEW t \in Threads, DatagramHandled(t) PROVE WriterType'
    BY <1>20 DEF DatagramHandled, Arrives, storeVars, flagVars, threadVars,
      Budget
  <1>21. ASSUME NEW t \in Threads, NEW ok \in BOOLEAN, ConversationEnds(t, ok)
         PROVE  WriterType'
    <2> DEFINE e == CHOOSE x \in Unheard : \A y \in Unheard : x <= y
    <2>1. (ok => queue' = Append(queue, e)) /\ (~ok => queue' = queue)
      BY <1>21 DEF ConversationEnds
    <2>2. /\ lost' = lost \/ lost' = lost \cup {e}
          /\ UNCHANGED <<writer, current, eventDb, packets>>
      BY <1>21 DEF ConversationEnds
    <2>3. e \in Nat
      BY <1>21, SmallestUnheard DEF ConversationEnds
    <2> HIDE DEF e, WriterRec
    <2>4. Append(queue, e) \in Seq(Nat)
      BY <2>3
    <2> QED BY <2>1, <2>2, <2>3, <2>4
  <1>22. ASSUME NEW r \in Runs, NEW ok \in BOOLEAN, WriterOpens(r, ok)
         PROVE  WriterType'
    <2>1. /\ eventDb' \in Runs \cup {None}
          /\ writer' = [writer EXCEPT ![r].pc = "loop",
                                     ![r].conn = IF ok THEN eventDb' ELSE None]
          /\ UNCHANGED <<current, queue, packets, lost>>
      BY <1>22 DEF WriterOpens
    <2> DEFINE c == IF ok THEN eventDb' ELSE None
    <2>2. c \in Runs \cup {None}
      BY <2>1
    <2>3. writer' = [writer EXCEPT ![r].pc = "loop", ![r].conn = c]
      BY <2>1
    <2> HIDE DEF c, WriterRec
    <2>4. writer' \in [Runs -> WriterRec]
      BY <2>2, <2>3, WriterMoves
    <2> QED BY <2>1, <2>4
  <1>23. ASSUME NEW r \in Runs, WriterTakes(r) PROVE WriterType'
    <2>1. PICK n \in 1..BatchSize :
            /\ n <= Len(queue) /\ queue' = SubSeq(queue, n + 1, Len(queue))
            /\ writer' = [writer EXCEPT ![r].batch = SubSeq(queue, 1, n)]
      BY <1>23 DEF WriterTakes
    <2>2. UNCHANGED <<current, eventDb, packets, lost>>
      BY <1>23 DEF WriterTakes
    <2> HIDE DEF WriterRec
    <2>3. n \in 0..Len(queue)
      BY <2>1
    <2>4. SubSeq(queue, 1, n) \in Seq(Nat) /\ queue' \in Seq(Nat)
      BY <2>1, <2>3, SplitType
    <2>5. writer' \in [Runs -> WriterRec]
      BY <2>1, <2>4, WriteBatch DEF Wrote
    <2> QED BY <2>2, <2>4, <2>5
  <1>24. ASSUME NEW r \in Runs, WriterStores(r) PROVE WriterType'
    <2>1. writer[r].batch \in Seq(Nat) /\ writer[r].batch # <<>>
      BY <1>24 DEF WriterStores
    <2>2. Tail(writer[r].batch) \in Seq(Nat) /\ Head(writer[r].batch) \in Nat
      BY <2>1
    <2> HIDE DEF WriterRec
    <2>3. /\ writer' = [writer EXCEPT ![r].batch = Tail(writer[r].batch)]
          /\ packets' = packets \cup {Head(writer[r].batch)}
          /\ UNCHANGED <<current, eventDb, queue, lost>>
      BY <1>24 DEF WriterStores
    <2>4. writer' \in [Runs -> WriterRec]
      BY <2>2, <2>3, WriteBatch DEF Wrote
    <2> QED BY <2>2, <2>3, <2>4
  <1>25. ASSUME NEW r \in Runs, WriterFails(r) PROVE WriterType'
    <2>1. writer[r].batch \in Seq(Nat)
      BY <1>25 DEF WriterFails
    <2>2. Range(writer[r].batch) \subseteq Nat /\ <<>> \in Seq(Nat)
      BY <2>1 DEF Range
    <2> HIDE DEF WriterRec
    <2>3. /\ writer' = [writer EXCEPT ![r].batch = <<>>]
          /\ lost' = lost \cup Range(writer[r].batch)
          /\ UNCHANGED <<current, eventDb, queue, packets>>
      BY <1>25 DEF WriterFails, Drops
    <2>4. writer' \in [Runs -> WriterRec]
      BY <2>2, <2>3, WriteBatch DEF Wrote
    <2> QED BY <2>2, <2>3, <2>4
  <1>26. ASSUME NEW r \in Runs, WriterLeaves(r) PROVE WriterType'
    BY <1>26 DEF WriterLeaves, NoWriter, storeVars, flagVars, threadVars,
      countVars
  <1>27. ASSUME UNCHANGED vars PROVE WriterType'
    BY <1>27 DEF vars, storeVars, flagVars, threadVars, writeVars, countVars
  <1> QED BY <1>1, <1>2, <1>3, <1>4, <1>5, <1>6, <1>7, <1>8, <1>9, <1>10,
      <1>11, <1>12, <1>13, <1>14, <1>15, <1>16, <1>17, <1>18, <1>19, <1>20,
      <1>21, <1>22, <1>23, <1>24, <1>25, <1>26, <1>27 DEF Next, CallStep,
      StarterStep, ListenerStep, WriterStep

\* Every thread has a name.
LEMMA StepName ==
  ASSUME IInv, [Next]_vars PROVE NameInv'
  <1> USE HoneypotAssumption DEF IInv, TypeOK, CallType, ThreadType,
      StarterType, ThreadRec, StarterRec, NameInv, Alive, At
  <1>1. ASSUME StartBegins PROVE NameInv'
    <2>1. starts' \in Runs
      BY <1>1 DEF StartBegins, Runs
    <2> QED BY <1>1, <2>1 DEF StartBegins, Idle, threadVars
  <1>2. ASSUME StartSpawns PROVE NameInv'
    BY <1>2 DEF StartSpawns, Idle, flagVars, threadVars, countVars
  <1>3. ASSUME StopSignals PROVE NameInv'
    BY <1>3 DEF StopSignals, Idle, storeVars, threadVars, writeVars, countVars
  <1>4. ASSUME StopDrains PROVE NameInv'
    BY <1>4 DEF StopDrains, Joined, Idle, Present, storeVars, flagVars,
      writeVars, countVars
  <1>5. ASSUME StopCloses PROVE NameInv'
    BY <1>5 DEF StopCloses, Idle, threadVars, countVars
  <1>6. ASSUME CallRegisters PROVE NameInv'
    BY <1>6 DEF CallRegisters, Register, Idle, storeVars, flagVars, writeVars,
      countVars
  <1>7. ASSUME NEW id \in Listeners, EnableListener(id) PROVE NameInv'
    BY ZenonT(60), <1>7 DEF EnableListener, Idle, Toggles, SpawnFromCall, threadVars,
      writeVars, Budget, Starting, Leftover, Present, Refused
  <1>8. ASSUME NEW id \in Listeners, DisableListener(id) PROVE NameInv'
    BY <1>8 DEF DisableListener, Idle, Toggles, StopListener, flagVars,
      writeVars, Budget, Starting, Leftover, Present
  <1>9. ASSUME NEW id \in Listeners, CreateListener(id) PROVE NameInv'
    BY ZenonT(60), <1>9 DEF CreateListener, Idle, Toggles, SpawnFromCall, threadVars,
      writeVars, Budget, Starting, Leftover, Present, Refused
  <1>10. ASSUME NEW r \in Runs, StarterTls(r) PROVE NameInv'
    BY <1>10 DEF StarterTls, storeVars, threadVars, writeVars, countVars
  <1>11. ASSUME NEW r \in Runs, StarterLists(r) PROVE NameInv'
    BY <1>11, ListsFacts DEF Moved, StarterLists, threadVars, countVars
  <1>12. ASSUME NEW r \in Runs, StarterRegisters(r) PROVE NameInv'
    BY <1>12 DEF StarterRegisters, Register, storeVars, flagVars, writeVars,
      countVars
  <1>13. ASSUME NEW r \in Runs, StarterCounts(r) PROVE NameInv'
    BY <1>13, CountsFacts DEF Moved, StarterCounts, threadVars, countVars
  <1>14. ASSUME NEW r \in Runs, StarterJudges(r) PROVE NameInv'
    BY <1>14 DEF StarterJudges, Judges, NoStarter, storeVars, threadVars,
      writeVars, countVars
  <1>15. ASSUME NEW r \in Runs, NEW id \in Listeners, StarterTakes(r, id)
         PROVE  NameInv'
    <2>1. UNCHANGED <<thread, call, starts>>
      BY <1>15 DEF StarterTakes, threadVars, countVars
    <2> HIDE DEF StarterRec, ThreadRec
    <2>2. \A q \in Runs : At(q, "register")' => starter'[q].id \in Listeners
      BY <1>15, TakesFacts DEF Moved
    <2> QED BY <2>1, <2>2
  <1>16. ASSUME NEW t \in Threads, ListenerBinds(t) PROVE NameInv'
    BY <1>16 DEF ListenerBinds, Held, storeVars, flagVars, writeVars, countVars
  <1>17. ASSUME NEW t \in Threads, ListenerFails(t) PROVE NameInv'
    BY <1>17 DEF ListenerFails, Gone, storeVars, flagVars, writeVars, countVars
  <1>18. ASSUME NEW t \in Threads, ListenerLeaves(t) PROVE NameInv'
    BY <1>18 DEF ListenerLeaves, Stopping, Gone, storeVars, flagVars,
      writeVars, countVars
  <1>19. ASSUME NEW t \in Threads, ListenerAccepts(t) PROVE NameInv'
    BY <1>19 DEF ListenerAccepts, Arrives, storeVars, flagVars, Budget
  <1>20. ASSUME NEW t \in Threads, DatagramHandled(t) PROVE NameInv'
    BY <1>20 DEF DatagramHandled, Arrives, storeVars, flagVars, threadVars,
      Budget
  <1>21. ASSUME NEW t \in Threads, NEW ok \in BOOLEAN, ConversationEnds(t, ok)
         PROVE  NameInv'
    BY <1>21 DEF ConversationEnds, Ends, storeVars, flagVars, countVars
  <1>22. ASSUME NEW r \in Runs, NEW ok \in BOOLEAN, WriterOpens(r, ok)
         PROVE  NameInv'
    BY <1>22 DEF WriterOpens, storeVars, flagVars, threadVars, countVars
  <1>23. ASSUME NEW r \in Runs, WriterTakes(r) PROVE NameInv'
    BY <1>23 DEF WriterTakes, storeVars, flagVars, threadVars, countVars
  <1>24. ASSUME NEW r \in Runs, WriterStores(r) PROVE NameInv'
    BY <1>24 DEF WriterStores, Stale, storeVars, flagVars, threadVars,
      countVars
  <1>25. ASSUME NEW r \in Runs, WriterFails(r) PROVE NameInv'
    BY <1>25 DEF WriterFails, Drops, storeVars, flagVars, threadVars, countVars
  <1>26. ASSUME NEW r \in Runs, WriterLeaves(r) PROVE NameInv'
    BY <1>26 DEF WriterLeaves, NoWriter, storeVars, flagVars, threadVars,
      countVars
  <1>27. ASSUME UNCHANGED vars PROVE NameInv'
    BY <1>27 DEF vars, storeVars, flagVars, threadVars, writeVars, countVars
  <1> QED BY <1>1, <1>2, <1>3, <1>4, <1>5, <1>6, <1>7, <1>8, <1>9, <1>10,
      <1>11, <1>12, <1>13, <1>14, <1>15, <1>16, <1>17, <1>18, <1>19, <1>20,
      <1>21, <1>22, <1>23, <1>24, <1>25, <1>26, <1>27 DEF Next, CallStep,
      StarterStep, ListenerStep, WriterStep

\* The roster is kept by a step that only moves, or ends, threads that live.
LEMMA RosterThreads ==
  ASSUME IInv, UNCHANGED <<overlap, roster, enabled, call, starter>>,
         \A u \in Threads : Alive(u)' =>
           Alive(u) /\ thread'[u].id = thread[u].id /\ (u \notin told' => u \notin told)
  PROVE  RosterInv'
  <1>1. /\ RosterInv /\ roster \in [Listeners -> Threads \cup {None}] /\ NameInv
    BY DEF IInv, TypeOK, ThreadType
  <1>2. \A id \in Listeners : Present(id)' => Present(id)
    BY <1>1 DEF Present, Alive
  <1>3. /\ \A r \in Runs : Active(r)' = Active(r) /\ At(r, "register")' = At(r, "register")
        /\ \A r \in Runs : At(r, "register") => starter[r].id \in Listeners
        /\ call.op = "register" => call.id \in Listeners
    BY <1>1 DEF Active, At, NameInv
  <1> SUFFICES ASSUME ~overlap' PROVE RosterInv'
    BY DEF RosterInv
  <1>4. \A t \in Threads : Alive(t)' /\ t \notin told' =>
          roster'[thread'[t].id] = t /\ thread'[t].id \in enabled'
    BY <1>1 DEF RosterInv
  <1>5. /\ \A r, q \in Runs : Active(r)' /\ Active(q)' => r = q
        /\ call'.op \in {"spawn", "register"} => \A r \in Runs : ~Active(r)'
        /\ \A r \in Runs : starter'[r].pc \in {"loop", "register"} => starter'[r].todo \subseteq enabled'
    BY <1>1, <1>3 DEF RosterInv
  <1>6. /\ call.op = "register" => ~Present(call.id)' /\ call.id \in enabled
        /\ \A r \in Runs : At(r, "register") => ~Present(starter[r].id)' /\ starter[r].id \in enabled
    <2>1. /\ call.op = "register" => ~Present(call.id) /\ call.id \in enabled
          /\ \A r \in Runs : At(r, "register") => ~Present(starter[r].id) /\ starter[r].id \in enabled
      BY <1>1 DEF RosterInv
    <2> QED BY <1>2, <1>3, <2>1
  <1> QED BY <1>3, <1>4, <1>5, <1>6 DEF RosterInv

\* And by one that only moves a starter that is active, outside of its loop.
LEMMA RosterStarter ==
  ASSUME IInv, UNCHANGED <<overlap, roster, thread, told, enabled, call>>,
         NEW r \in Runs, Active(r), starter'[r].pc \in {"list", "dead"},
         \A q \in Runs \ {r} : starter'[q] = starter[q]
  PROVE  RosterInv'
  <1>1. RosterInv
    BY DEF IInv
  <1>2. /\ \A t \in Threads : Alive(t)' = Alive(t)
        /\ \A id : Present(id)' = Present(id)
    BY DEF Alive, Present
  <1>3. \A q \in Runs : Active(q)' => Active(q)
    BY DEF Active
  <1>4. \A q \in Runs : starter'[q].pc \in {"loop", "register"} => starter'[q] = starter[q]
    OBVIOUS
  <1> QED BY <1>1, <1>2, <1>3, <1>4 DEF RosterInv, At

\* A row is switched on: nobody starts, and what was registered stays.
LEMMA RosterEnables ==
  ASSUME IInv, NEW id \in Listeners, call = Idle, Toggles, SpawnFromCall(id),
         enabled' = enabled \cup {id}, UNCHANGED <<threadVars, starter>>
  PROVE  RosterInv'
  <1> SUFFICES ASSUME ~overlap' PROVE RosterInv'
    BY DEF RosterInv
  <1>1. RosterInv /\ ~overlap /\ \A r \in Runs : ~Active(r)
    BY DEF IInv, Toggles, Starting, Active
  <1>2. /\ UNCHANGED <<roster, thread, told, starter>>
        /\ \A t \in Threads : Alive(t)' = Alive(t)
        /\ \A i : Present(i)' = Present(i)
        /\ \A r \in Runs : Active(r)' = Active(r)
    BY DEF threadVars, Alive, Present, Active
  <1>3. \A r \in Runs : starter'[r].pc \notin {"loop", "register"}
    BY <1>1, <1>2 DEF Active
  <1>4. \/ call' = [op |-> "register", id |-> id] /\ ~Present(id)
        \/ call'.op = "idle"
    <2>1. \/ call' = [Idle EXCEPT !.op = "register", !.id = id] /\ ~Present(id)
          \/ call' = Idle
      BY DEF SpawnFromCall
    <2>2. Idle.op = "idle"
      BY DEF Idle
    <2> QED BY <2>1, <2>2, RegisterCall
  <1>5. call'.op = "register" => ~Present(call'.id) /\ call'.id \in enabled'
    BY <1>4
  <1>6. \A t \in Threads : Alive(t) /\ t \notin told =>
          roster[thread[t].id] = t /\ thread[t].id \in enabled'
    BY <1>1 DEF RosterInv
  <1> QED BY <1>1, <1>2, <1>3, <1>5, <1>6 DEF RosterInv, At

\* A call registers its thread.
LEMMA RosterCall ==
  ASSUME IInv, CallRegisters PROVE RosterInv'
  <1> SUFFICES ASSUME ~overlap' PROVE RosterInv'
    BY DEF RosterInv
  <1>1. /\ UNCHANGED <<overlap, told, starter, enabled>> /\ call.op = "register"
        /\ call'.op = "idle"
    BY DEF CallRegisters, storeVars, countVars, Idle
  <1>2. RosterInv /\ NameInv
    BY DEF IInv
  <1> DEFINE id == call.id
  <1>3. id \in Listeners /\ id \in enabled /\ ~Present(id) /\ \A r \in Runs : ~Active(r)
    BY <1>1, <1>2 DEF RosterInv, NameInv
  <1>4. PICK t \in Threads :
          /\ thread[t].st = "none"
          /\ thread' = [thread EXCEPT ![t] = [st |-> "new", id |-> id]]
          /\ roster' = [roster EXCEPT ![id] = t]
    BY DEF CallRegisters, Register
  <1>5. /\ thread'[t].id = id /\ \A u \in Threads \ {t} : thread'[u] = thread[u]
        /\ roster'[id] = t /\ \A i \in Listeners \ {id} : roster'[i] = roster[i]
    BY <1>3, <1>4 DEF IInv, TypeOK, ThreadType
  <1>6. \A r \in Runs : starter'[r].pc \in {"none", "dead"}
    BY <1>1, <1>3 DEF Active
  <1>7. ASSUME NEW u \in Threads, Alive(u)', u \notin told'
        PROVE  roster'[thread'[u].id] = u /\ thread'[u].id \in enabled'
    <2>1. CASE u = t
      BY <1>1, <1>3, <1>5, <2>1
    <2>2. CASE u # t
      <3>1. Alive(u) /\ u \notin told /\ thread'[u] = thread[u]
        BY <1>1, <1>5, <1>7, <2>2 DEF Alive
      <3>2. roster[thread[u].id] = u /\ thread[u].id \in enabled /\ thread[u].id \in Listeners
        BY <1>1, <1>2, <3>1 DEF RosterInv, NameInv
      <3>3. thread[u].id # id
        BY <1>3, <3>1, <3>2, HoneypotAssumption DEF Present
      <3> QED BY <1>1, <1>5, <3>1, <3>2, <3>3
    <2> QED BY <2>1, <2>2
  <1> QED BY <1>1, <1>6, <1>7 DEF RosterInv, Active, At

\* Whoever is not told is the roster's.
LEMMA StepRoster ==
  ASSUME IInv, [Next]_vars PROVE RosterInv'
  <1> USE HoneypotAssumption DEF IInv, TypeOK, EngineType, CallType,
      ThreadType, StarterType, ThreadRec, StarterRec, NameInv, RosterInv,
      Alive, At, Active, Present
  <1>1. ASSUME StartBegins PROVE RosterInv'
    BY <1>1 DEF StartBegins, Idle, Budget, Starting, storeVars, threadVars,
      writeVars
  <1>2. ASSUME StartSpawns PROVE RosterInv'
    <2> SUFFICES ASSUME ~overlap' PROVE RosterInv'
      OBVIOUS
    <2>1. /\ UNCHANGED <<overlap, roster, thread, told, enabled>> /\ call.op = "spawn" /\ call'.op = "idle"
          /\ starter' = [starter EXCEPT ![starts].pc = "tls"] /\ starts \in Runs
      BY <1>2 DEF StartSpawns, Idle, threadVars, countVars
    <2>2. starter'[starts].pc = "tls" /\ \A q \in Runs \ {starts} : starter'[q] = starter[q]
      BY <2>1
    <2>3. \A q \in Runs : starter[q].pc \in {"none", "dead"}
      BY <2>1
    <2> HIDE DEF IInv, TypeOK, EngineType, CallType, ThreadType, StarterType, ThreadRec, StarterRec, NameInv
    <2>4. /\ \A t \in Threads : Alive(t)' = Alive(t)
          /\ \A r \in Runs : Active(r)' => r = starts
          /\ \A r \in Runs : starter'[r].pc \notin {"loop", "register"}
      BY <2>1, <2>2, <2>3
    <2>5. RosterInv
      BY DEF IInv
    <2> QED BY <2>1, <2>4, <2>5
  <1>3. ASSUME StopSignals PROVE RosterInv'
    BY <1>3 DEF StopSignals, Idle, storeVars, threadVars, writeVars, countVars
  <1>4. ASSUME StopDrains PROVE RosterInv'
    BY <1>4 DEF StopDrains, Joined, Idle, storeVars, flagVars, writeVars,
      countVars
  <1>5. ASSUME StopCloses PROVE RosterInv'
    BY <1>5 DEF StopCloses, Idle, threadVars, countVars
  <1>6. ASSUME CallRegisters PROVE RosterInv'
    BY <1>6, RosterCall
  <1>7. ASSUME NEW id \in Listeners, EnableListener(id) PROVE RosterInv'
    BY <1>7, RosterEnables DEF EnableListener
  <1>8. ASSUME NEW id \in Listeners, DisableListener(id) PROVE RosterInv'
    <2> HIDE DEF StarterRec, ThreadRec
    <2> SUFFICES ASSUME ~overlap' PROVE RosterInv'
      OBVIOUS
    <2>1. /\ ~overlap /\ ~Starting /\ ~Leftover /\ call = Idle
          /\ enabled' = enabled \ {id} /\ UNCHANGED <<thread, starter, call>>
      BY <1>8 DEF DisableListener, Toggles
    <2>2. \A r \in Runs : starter[r].pc \in {"none", "dead"}
      BY <2>1 DEF Starting
    <2>3. \A t \in Threads : Alive(t) /\ t \notin told => Present(thread[t].id)
      <3> TAKE t \in Threads
      <3> HAVE Alive(t) /\ t \notin told
      <3>1. roster[thread[t].id] = t /\ t # None
        BY <2>1
      <3> QED BY <3>1
    <2>4. ASSUME NEW t \in Threads, Alive(t), t \notin told'
          PROVE  roster'[thread[t].id] = t /\ thread[t].id \in enabled \ {id}
      <3>1. CASE running
        <4>1. /\ roster' = [roster EXCEPT ![id] = None]
              /\ told' = told \cup (IF Present(id) THEN {roster[id]} ELSE {})
          BY <1>8, <3>1 DEF DisableListener, StopListener
        <4>2. t \notin told /\ roster[thread[t].id] = t /\ thread[t].id \in enabled
          BY <2>1, <2>4, <4>1
        <4>3. thread[t].id # id
          BY <2>3, <2>4, <4>1, <4>2
        <4> QED BY <4>1, <4>2, <4>3
      <3>2. CASE ~running
        <4>1. UNCHANGED <<roster, told>>
          BY <1>8, <3>2 DEF DisableListener
        <4> QED BY <2>1, <2>3, <2>4, <3>2, <4>1 DEF Leftover
      <3> QED BY <3>1, <3>2
    <2>5. call'.op = "idle"
      BY <2>1 DEF Idle
    <2> QED BY <2>1, <2>2, <2>4, <2>5
  <1>9. ASSUME NEW id \in Listeners, CreateListener(id) PROVE RosterInv'
    BY <1>9, RosterEnables DEF CreateListener
  <1>10. ASSUME NEW r \in Runs, StarterTls(r) PROVE RosterInv'
    <2>1. /\ UNCHANGED <<overlap, roster, thread, told, enabled, call>> /\ Active(r)
          /\ starter' = [starter EXCEPT ![r].pc = "list"]
      BY <1>10 DEF StarterTls, storeVars, threadVars, countVars
    <2>2. starter'[r].pc = "list" /\ \A q \in Runs \ {r} : starter'[q] = starter[q]
      BY <2>1
    <2> QED BY <2>1, <2>2, RosterStarter
  <1>11. ASSUME NEW r \in Runs, StarterLists(r) PROVE RosterInv'
    <2>1. UNCHANGED <<overlap, thread, told, roster, enabled, call>>
      BY <1>11 DEF StarterLists, storeVars, threadVars, countVars
    <2>2. Moved(starter', starter, r, "loop", enabled, starter[r].id) /\ Active(r)
      BY <1>11, ListsFacts DEF StarterLists
    <2> HIDE DEF StarterRec, ThreadRec
    <2> QED BY <2>1, <2>2 DEF Moved
  <1>12. ASSUME NEW r \in Runs, StarterRegisters(r) PROVE RosterInv'
    <2> SUFFICES ASSUME ~overlap' PROVE RosterInv'
      OBVIOUS
    <2> DEFINE id == starter[r].id
    <2>1. PICK t \in Threads :
            /\ thread[t].st = "none" /\ thread' = [thread EXCEPT ![t] = [st |-> "new", id |-> id]]
            /\ roster' = [roster EXCEPT ![id] = t]
      BY <1>12 DEF StarterRegisters, Register
    <2>2. /\ UNCHANGED <<overlap, told, enabled, call>> /\ ~overlap
          /\ Active(r) /\ At(r, "register")
      BY <1>12 DEF StarterRegisters, storeVars, countVars
    <2>3. Moved(starter', starter, r, "loop", starter[r].todo, None)
      BY <1>12, RegistersFacts
    <2>4. id \in Listeners /\ ~Present(id) /\ id \in enabled
      BY <2>2
    <2> HIDE DEF StarterRec, ThreadRec, id
    <2>5. \A u \in Threads : Alive(u)' /\ u \notin told' =>
            roster'[thread'[u].id] = u /\ thread'[u].id \in enabled'
      <3> TAKE u \in Threads
      <3>1. CASE u = t
        BY <2>1, <2>2, <2>4, <3>1
      <3>2. CASE u # t
        <4> HAVE Alive(u)' /\ u \notin told'
        <4>1. thread'[u] = thread[u]
          BY <2>1, <3>2
        <4>2. roster[thread[u].id] = u /\ thread[u].id \in enabled /\ Alive(u)
          BY <2>2, <4>1
        <4>3. thread[u].id # id
          BY <2>4, <4>2
        <4> QED BY <2>1, <2>2, <4>1, <4>2, <4>3
      <3> QED BY <3>1, <3>2
    <2>6. \A q \in Runs : Active(q)' => q = r
      BY <2>2, <2>3 DEF Moved
    <2>7. call'.op \notin {"spawn", "register"}
      BY <2>2
    <2>8. starter'[r].pc = "loop" /\ starter'[r].todo \subseteq enabled'
      BY <2>2, <2>3 DEF Moved
    <2> HIDE DEF Present
    <2> QED BY <2>5, <2>6, <2>7, <2>8
  <1>13. ASSUME NEW r \in Runs, StarterCounts(r) PROVE RosterInv'
    <2>1. UNCHANGED <<overlap, thread, told, roster, enabled, call>> /\ Active(r)
      BY <1>13 DEF StarterCounts, storeVars, threadVars, countVars
    <2>2. Moved(starter', starter, r, "judge", {}, starter[r].id)
      BY <1>13, CountsFacts
    <2> HIDE DEF StarterRec, ThreadRec
    <2> QED BY <2>1, <2>2 DEF Moved
  <1>14. ASSUME NEW r \in Runs, StarterJudges(r) PROVE RosterInv'
    <2>1. /\ UNCHANGED <<overlap, roster, thread, told, enabled, call>> /\ Active(r)
          /\ starter' = [starter EXCEPT ![r] = [NoStarter EXCEPT !.pc = "dead"]]
      BY <1>14 DEF StarterJudges, storeVars, threadVars, countVars
    <2>2. starter'[r].pc = "dead" /\ \A q \in Runs \ {r} : starter'[q] = starter[q]
      BY <2>1 DEF NoStarter
    <2> QED BY <2>1, <2>2, RosterStarter
  <1>15. ASSUME NEW r \in Runs, NEW id \in Listeners, StarterTakes(r, id)
         PROVE  RosterInv'
    <2>1. /\ UNCHANGED <<overlap, thread, told, roster, enabled, call>>
          /\ Active(r) /\ At(r, "loop") /\ id \in starter[r].todo
      BY <1>15 DEF StarterTakes, storeVars, threadVars, countVars
    <2>2. CASE Moved(starter', starter, r, "loop", starter[r].todo \ {id}, None)
      <3> HIDE DEF StarterRec, ThreadRec
      <3> QED BY <2>1, <2>2 DEF Moved
    <2>3. CASE /\ ~Present(id)
               /\ Moved(starter', starter, r, "register", starter[r].todo \ {id}, id)
      <3> HIDE DEF StarterRec, ThreadRec
      <3> QED BY <2>1, <2>3 DEF Moved
    <2> QED BY <1>15, <2>2, <2>3, TakesFacts
  <1>16. ASSUME NEW t \in Threads, ListenerBinds(t) PROVE RosterInv'
    <2>1. /\ UNCHANGED <<overlap, roster, enabled, call, starter>>
          /\ told' = told /\ Alive(t)
          /\ \A u \in Threads \ {t} : thread'[u] = thread[u]
      BY <1>16 DEF ListenerBinds, storeVars, countVars
    <2>2. thread'[t].id = thread[t].id
      BY <1>16, <2>1 DEF ListenerBinds
    <2> QED BY <2>1, <2>2, RosterThreads
  <1>17. ASSUME NEW t \in Threads, ListenerFails(t) PROVE RosterInv'
    <2>1. /\ UNCHANGED <<overlap, roster, enabled, call, starter>>
          /\ told' = told \ {t} /\ Alive(t)
          /\ \A u \in Threads \ {t} : thread'[u] = thread[u]
      BY <1>17 DEF ListenerFails, Gone, storeVars, countVars
    <2>2. ~Alive(t)'
      BY <1>17, <2>1 DEF ListenerFails, Gone
    <2> QED BY <2>1, <2>2, RosterThreads
  <1>18. ASSUME NEW t \in Threads, ListenerLeaves(t) PROVE RosterInv'
    <2>1. /\ UNCHANGED <<overlap, roster, enabled, call, starter>>
          /\ told' = told \ {t} /\ Alive(t)
          /\ \A u \in Threads \ {t} : thread'[u] = thread[u]
      BY <1>18 DEF ListenerLeaves, Gone, storeVars, countVars
    <2>2. ~Alive(t)'
      BY <1>18, <2>1 DEF ListenerLeaves, Gone
    <2> QED BY <2>1, <2>2, RosterThreads
  <1>19. ASSUME NEW t \in Threads, ListenerAccepts(t) PROVE RosterInv'
    BY <1>19 DEF ListenerAccepts, Arrives, storeVars, flagVars, Budget
  <1>20. ASSUME NEW t \in Threads, DatagramHandled(t) PROVE RosterInv'
    BY <1>20 DEF DatagramHandled, Arrives, storeVars, flagVars, threadVars,
      Budget
  <1>21. ASSUME NEW t \in Threads, NEW ok \in BOOLEAN, ConversationEnds(t, ok)
         PROVE  RosterInv'
    BY <1>21 DEF ConversationEnds, Ends, storeVars, flagVars, countVars
  <1>22. ASSUME NEW r \in Runs, NEW ok \in BOOLEAN, WriterOpens(r, ok)
         PROVE  RosterInv'
    BY <1>22 DEF WriterOpens, storeVars, flagVars, threadVars, countVars
  <1>23. ASSUME NEW r \in Runs, WriterTakes(r) PROVE RosterInv'
    BY <1>23 DEF WriterTakes, storeVars, flagVars, threadVars, countVars
  <1>24. ASSUME NEW r \in Runs, WriterStores(r) PROVE RosterInv'
    BY <1>24 DEF WriterStores, Stale, storeVars, flagVars, threadVars,
      countVars
  <1>25. ASSUME NEW r \in Runs, WriterFails(r) PROVE RosterInv'
    BY <1>25 DEF WriterFails, Drops, storeVars, flagVars, threadVars, countVars
  <1>26. ASSUME NEW r \in Runs, WriterLeaves(r) PROVE RosterInv'
    BY <1>26 DEF WriterLeaves, NoWriter, storeVars, flagVars, threadVars,
      countVars
  <1>27. ASSUME UNCHANGED vars PROVE RosterInv'
    BY <1>27 DEF vars, storeVars, flagVars, threadVars, writeVars, countVars
  <1> HIDE DEF EngineType, CallType, ThreadType, StarterType, ThreadRec, StarterRec,
      NameInv, RosterInv, Alive, At, Active, Present, TypeOK, IInv
  <1> QED BY <1>1, <1>2, <1>3, <1>4, <1>5, <1>6, <1>7, <1>8, <1>9, <1>10,
      <1>11, <1>12, <1>13, <1>14, <1>15, <1>16, <1>17, <1>18, <1>19, <1>20,
      <1>21, <1>22, <1>23, <1>24, <1>25, <1>26, <1>27 DEF Next, CallStep,
      StarterStep, ListenerStep, WriterStep

\* The status follows the engine's events.
LEMMA StepVerdict ==
  ASSUME IInv, [Next]_vars PROVE VerdictInv'
  <1> USE HoneypotAssumption DEF IInv, TypeOK, EngineType, StarterType,
      StarterRec, VerdictInv, StatusIsTrue, At
  <1>1. ASSUME StartBegins PROVE VerdictInv'
    BY <1>1 DEF StartBegins, Idle, Budget, Starting, storeVars, threadVars,
      writeVars
  <1>2. ASSUME StartSpawns PROVE VerdictInv'
    BY <1>2 DEF StartSpawns, Idle, flagVars, threadVars, countVars
  <1>3. ASSUME StopSignals PROVE VerdictInv'
    BY <1>3 DEF StopSignals, Idle, storeVars, threadVars, writeVars, countVars
  <1>4. ASSUME StopDrains PROVE VerdictInv'
    BY <1>4 DEF StopDrains, Joined, Idle, Present, storeVars, flagVars,
      writeVars, countVars, Alive
  <1>5. ASSUME StopCloses PROVE VerdictInv'
    BY <1>5 DEF StopCloses, Idle, threadVars, countVars
  <1>6. ASSUME CallRegisters PROVE VerdictInv'
    BY <1>6 DEF CallRegisters, Register, Idle, storeVars, flagVars, writeVars,
      countVars
  <1>7. ASSUME NEW id \in Listeners, EnableListener(id) PROVE VerdictInv'
    BY <1>7 DEF EnableListener, Idle, Toggles, SpawnFromCall, threadVars,
      writeVars, Budget, Starting, Leftover, Present, Refused, Alive
  <1>8. ASSUME NEW id \in Listeners, DisableListener(id) PROVE VerdictInv'
    BY <1>8 DEF DisableListener, Idle, Toggles, StopListener, flagVars,
      writeVars, Budget, Starting, Leftover, Present, Alive
  <1>9. ASSUME NEW id \in Listeners, CreateListener(id) PROVE VerdictInv'
    BY <1>9 DEF CreateListener, Idle, Toggles, SpawnFromCall, threadVars,
      writeVars, Budget, Starting, Leftover, Present, Refused, Alive
  <1>10. ASSUME NEW r \in Runs, StarterTls(r) PROVE VerdictInv'
    BY <1>10 DEF StarterTls, storeVars, threadVars, writeVars, countVars
  <1>11. ASSUME NEW r \in Runs, StarterLists(r) PROVE VerdictInv'
    BY <1>11 DEF StarterLists, storeVars, flagVars, threadVars, writeVars,
      countVars
  <1>12. ASSUME NEW r \in Runs, StarterRegisters(r) PROVE VerdictInv'
    BY <1>12 DEF StarterRegisters, Register, storeVars, flagVars, writeVars,
      countVars
  <1>13. ASSUME NEW r \in Runs, StarterCounts(r) PROVE VerdictInv'
    BY <1>13 DEF StarterCounts, storeVars, flagVars, threadVars, writeVars,
      countVars
  <1>14. ASSUME NEW r \in Runs, StarterJudges(r) PROVE VerdictInv'
    BY <1>14 DEF StarterJudges, Judges, NoStarter, storeVars, threadVars,
      writeVars, countVars
  <1>15. ASSUME NEW r \in Runs, NEW id \in Listeners, StarterTakes(r, id)
         PROVE  VerdictInv'
    BY <1>15 DEF StarterTakes, Present, Refused, storeVars, flagVars,
      threadVars, writeVars, countVars, Alive
  <1>16. ASSUME NEW t \in Threads, ListenerBinds(t) PROVE VerdictInv'
    BY <1>16 DEF ListenerBinds, Held, storeVars, flagVars, writeVars, countVars
  <1>17. ASSUME NEW t \in Threads, ListenerFails(t) PROVE VerdictInv'
    BY <1>17 DEF ListenerFails, Gone, storeVars, flagVars, writeVars, countVars
  <1>18. ASSUME NEW t \in Threads, ListenerLeaves(t) PROVE VerdictInv'
    BY <1>18 DEF ListenerLeaves, Stopping, Gone, storeVars, flagVars,
      writeVars, countVars
  <1>19. ASSUME NEW t \in Threads, ListenerAccepts(t) PROVE VerdictInv'
    BY <1>19 DEF ListenerAccepts, Arrives, storeVars, flagVars, Budget
  <1>20. ASSUME NEW t \in Threads, DatagramHandled(t) PROVE VerdictInv'
    BY <1>20 DEF DatagramHandled, Arrives, storeVars, flagVars, threadVars,
      Budget
  <1>21. ASSUME NEW t \in Threads, NEW ok \in BOOLEAN, ConversationEnds(t, ok)
         PROVE  VerdictInv'
    BY <1>21 DEF ConversationEnds, Ends, storeVars, flagVars, countVars
  <1>22. ASSUME NEW r \in Runs, NEW ok \in BOOLEAN, WriterOpens(r, ok)
         PROVE  VerdictInv'
    BY <1>22 DEF WriterOpens, storeVars, flagVars, threadVars, countVars
  <1>23. ASSUME NEW r \in Runs, WriterTakes(r) PROVE VerdictInv'
    BY <1>23 DEF WriterTakes, storeVars, flagVars, threadVars, countVars
  <1>24. ASSUME NEW r \in Runs, WriterStores(r) PROVE VerdictInv'
    BY <1>24 DEF WriterStores, Stale, storeVars, flagVars, threadVars,
      countVars
  <1>25. ASSUME NEW r \in Runs, WriterFails(r) PROVE VerdictInv'
    BY <1>25 DEF WriterFails, Drops, storeVars, flagVars, threadVars, countVars
  <1>26. ASSUME NEW r \in Runs, WriterLeaves(r) PROVE VerdictInv'
    BY <1>26 DEF WriterLeaves, NoWriter, storeVars, flagVars, threadVars,
      countVars
  <1>27. ASSUME UNCHANGED vars PROVE VerdictInv'
    BY <1>27 DEF vars, storeVars, flagVars, threadVars, writeVars, countVars
  <1> QED BY <1>1, <1>2, <1>3, <1>4, <1>5, <1>6, <1>7, <1>8, <1>9, <1>10,
      <1>11, <1>12, <1>13, <1>14, <1>15, <1>16, <1>17, <1>18, <1>19, <1>20,
      <1>21, <1>22, <1>23, <1>24, <1>25, <1>26, <1>27 DEF Next, CallStep,
      StarterStep, ListenerStep, WriterStep

\* Every event keeps to one place, and every open conversation to one slot.
LEMMA StepEvents ==
  ASSUME IInv, [Next]_vars PROVE (EventInv /\ SlotInv)'
  <1>1. ASSUME StartBegins PROVE (EventInv /\ SlotInv)'
    <2>1. /\ UNCHANGED <<queue, packets, lost, seen, open>>
          /\ \A p \in Runs : writer'[p].batch = writer[p].batch
      BY <1>1 DEF StartBegins, threadVars, writeVars
    <2> QED BY <2>1, EventsKept
  <1>2. ASSUME StartSpawns PROVE (EventInv /\ SlotInv)'
    <2>1. writer \in [Runs -> WriterRec] /\ starts \in Runs
      BY <1>2 DEF StartSpawns, IInv, TypeOK, WriterType, NameInv
    <2>2. writer' = writer \/ writer' = [writer EXCEPT ![starts].pc = "open"]
      BY <1>2 DEF StartSpawns
    <2>3. \A p \in Runs : writer'[p].batch = writer[p].batch
      <3> TAKE p \in Runs
      <3>1. writer[p] \in WriterRec /\ (writer'[p] = writer[p] \/ writer'[p] = [writer[p] EXCEPT !.pc = "open"])
        BY <2>1, <2>2
      <3> QED BY <3>1 DEF WriterRec
    <2>4. UNCHANGED <<queue, packets, lost, seen, open>>
      BY <1>2 DEF StartSpawns, threadVars, countVars
    <2> QED BY <2>3, <2>4, EventsKept
  <1>3. ASSUME StopSignals PROVE (EventInv /\ SlotInv)'
    <2>1. /\ UNCHANGED <<queue, packets, lost, seen, open>>
          /\ \A p \in Runs : writer'[p].batch = writer[p].batch
      BY <1>3 DEF StopSignals, threadVars, writeVars, countVars
    <2> QED BY <2>1, EventsKept
  <1>4. ASSUME StopDrains PROVE (EventInv /\ SlotInv)'
    <2>1. /\ UNCHANGED <<queue, packets, lost, seen, open>>
          /\ \A p \in Runs : writer'[p].batch = writer[p].batch
      BY <1>4 DEF StopDrains, writeVars, countVars
    <2> QED BY <2>1, EventsKept
  <1>5. ASSUME StopCloses PROVE (EventInv /\ SlotInv)'
    <2>1. /\ UNCHANGED <<queue, packets, lost, seen, open>>
          /\ \A p \in Runs : writer'[p].batch = writer[p].batch
      BY <1>5 DEF StopCloses, threadVars, countVars
    <2> QED BY <2>1, EventsKept
  <1>6. ASSUME CallRegisters PROVE (EventInv /\ SlotInv)'
    <2>1. /\ UNCHANGED <<queue, packets, lost, seen, open>>
          /\ \A p \in Runs : writer'[p].batch = writer[p].batch
      BY <1>6 DEF CallRegisters, writeVars, countVars
    <2> QED BY <2>1, EventsKept
  <1>7. ASSUME NEW id \in Listeners, EnableListener(id)
        PROVE  (EventInv /\ SlotInv)'
    <2>1. /\ UNCHANGED <<queue, packets, lost, seen, open>>
          /\ \A p \in Runs : writer'[p].batch = writer[p].batch
      BY <1>7 DEF EnableListener, Toggles, threadVars, writeVars
    <2> QED BY <2>1, EventsKept
  <1>8. ASSUME NEW id \in Listeners, DisableListener(id)
        PROVE  (EventInv /\ SlotInv)'
    <2>1. /\ UNCHANGED <<queue, packets, lost, seen, open>>
          /\ \A p \in Runs : writer'[p].batch = writer[p].batch
      BY <1>8 DEF DisableListener, Toggles, writeVars
    <2> QED BY <2>1, EventsKept
  <1>9. ASSUME NEW id \in Listeners, CreateListener(id)
        PROVE  (EventInv /\ SlotInv)'
    <2>1. /\ UNCHANGED <<queue, packets, lost, seen, open>>
          /\ \A p \in Runs : writer'[p].batch = writer[p].batch
      BY <1>9 DEF CreateListener, Toggles, threadVars, writeVars
    <2> QED BY <2>1, EventsKept
  <1>10. ASSUME NEW r \in Runs, StarterTls(r) PROVE (EventInv /\ SlotInv)'
    <2>1. /\ UNCHANGED <<queue, packets, lost, seen, open>>
          /\ \A p \in Runs : writer'[p].batch = writer[p].batch
      BY <1>10 DEF StarterTls, threadVars, writeVars, countVars
    <2> QED BY <2>1, EventsKept
  <1>11. ASSUME NEW r \in Runs, StarterLists(r) PROVE (EventInv /\ SlotInv)'
    <2>1. /\ UNCHANGED <<queue, packets, lost, seen, open>>
          /\ \A p \in Runs : writer'[p].batch = writer[p].batch
      BY <1>11 DEF StarterLists, threadVars, writeVars, countVars
    <2> QED BY <2>1, EventsKept
  <1>12. ASSUME NEW r \in Runs, StarterRegisters(r)
         PROVE  (EventInv /\ SlotInv)'
    <2>1. /\ UNCHANGED <<queue, packets, lost, seen, open>>
          /\ \A p \in Runs : writer'[p].batch = writer[p].batch
      BY <1>12 DEF StarterRegisters, writeVars, countVars
    <2> QED BY <2>1, EventsKept
  <1>13. ASSUME NEW r \in Runs, StarterCounts(r) PROVE (EventInv /\ SlotInv)'
    <2>1. /\ UNCHANGED <<queue, packets, lost, seen, open>>
          /\ \A p \in Runs : writer'[p].batch = writer[p].batch
      BY <1>13 DEF StarterCounts, threadVars, writeVars, countVars
    <2> QED BY <2>1, EventsKept
  <1>14. ASSUME NEW r \in Runs, StarterJudges(r) PROVE (EventInv /\ SlotInv)'
    <2>1. /\ UNCHANGED <<queue, packets, lost, seen, open>>
          /\ \A p \in Runs : writer'[p].batch = writer[p].batch
      BY <1>14 DEF StarterJudges, threadVars, writeVars, countVars
    <2> QED BY <2>1, EventsKept
  <1>15. ASSUME NEW r \in Runs, NEW id \in Listeners, StarterTakes(r, id)
         PROVE  (EventInv /\ SlotInv)'
    <2>1. /\ UNCHANGED <<queue, packets, lost, seen, open>>
          /\ \A p \in Runs : writer'[p].batch = writer[p].batch
      BY <1>15 DEF StarterTakes, threadVars, writeVars, countVars
    <2> QED BY <2>1, EventsKept
  <1>16. ASSUME NEW t \in Threads, ListenerBinds(t)
         PROVE  (EventInv /\ SlotInv)'
    <2>1. /\ UNCHANGED <<queue, packets, lost, seen, open>>
          /\ \A p \in Runs : writer'[p].batch = writer[p].batch
      BY <1>16 DEF ListenerBinds, writeVars, countVars
    <2> QED BY <2>1, EventsKept
  <1>17. ASSUME NEW t \in Threads, ListenerFails(t)
         PROVE  (EventInv /\ SlotInv)'
    <2>1. /\ UNCHANGED <<queue, packets, lost, seen, open>>
          /\ \A p \in Runs : writer'[p].batch = writer[p].batch
      BY <1>17 DEF ListenerFails, writeVars, countVars
    <2> QED BY <2>1, EventsKept
  <1>18. ASSUME NEW t \in Threads, ListenerLeaves(t)
         PROVE  (EventInv /\ SlotInv)'
    <2>1. /\ UNCHANGED <<queue, packets, lost, seen, open>>
          /\ \A p \in Runs : writer'[p].batch = writer[p].batch
      BY <1>18 DEF ListenerLeaves, writeVars, countVars
    <2> QED BY <2>1, EventsKept
  <1>19. ASSUME NEW t \in Threads, ListenerAccepts(t)
         PROVE  (EventInv /\ SlotInv)'
    <2>1. /\ seen \in Nat /\ open \in [Threads -> Nat] /\ SlotInv
          /\ Placed(queue, Batches, packets, lost, seen)
      BY DEF IInv, TypeOK, CallType, ThreadType, EventInv
    <2>2. UNCHANGED <<queue, packets, writer>> /\ seen' = seen + 1 /\ Batches' = Batches
      BY <1>19 DEF ListenerAccepts, Arrives, Batches
    <2>3. /\ Placed(queue, Batches, packets, lost, seen + 1) /\ seen + 1 \notin Unheard
          /\ Free(queue, Batches, packets, lost, seen + 1) = Unheard \cup {seen + 1}
      BY <2>1, EventArrives, UnheardIs
    <2>4. CASE open[t] < Slots
      <3>1. lost' = lost /\ open' = [open EXCEPT ![t] = open[t] + 1]
        BY <1>19, <2>4 DEF ListenerAccepts
      <3>2. /\ open' \in [Threads -> Nat] /\ open'[t] = open[t] + 1
            /\ \A u \in Threads \ {t} : open'[u] = open[u]
        BY <2>1, <3>1
      <3>3. Taken(open') = Taken(open) + (open'[t] - open[t]) /\ Taken(open) \in Nat
        BY <2>1, <3>2, SlotsChange
      <3>4. Taken(open') = Taken(open) + 1
        BY <2>1, <3>2, <3>3
      <3>5. Unheard' = Unheard \cup {seen + 1}
        BY <2>2, <2>3, <3>1, UnheardIs
      <3>6. Cardinality(Unheard') = Cardinality(Unheard) + 1
        BY <2>3, <3>5, UnheardCount
      <3> QED BY <2>1, <2>2, <2>3, <3>1, <3>4, <3>6 DEF EventInv, SlotInv
    <2>5. CASE ~(open[t] < Slots)
      <3>1. lost' = lost \cup {seen + 1} /\ open' = open
        BY <1>19, <2>1, <2>5 DEF ListenerAccepts
      <3> DEFINE n == seen + 1
      <3>2. /\ n \in Nat /\ n \in Free(queue, Batches, packets, lost, n)
            /\ Free(queue, Batches, packets, lost, n) = Unheard \cup {n} /\ n \notin Unheard
            /\ seen' = n /\ lost' = lost \cup {n} /\ Placed(queue, Batches, packets, lost, n)
        BY <2>1, <2>2, <2>3, <3>1
      <3> HIDE DEF n
      <3>3. /\ Placed(queue, Batches, packets, lost \cup {n}, n)
            /\ FreeIs(queue, Batches, packets, lost \cup {n}, n,
                      Free(queue, Batches, packets, lost, n) \ {n})
        BY <3>2, EventQueued
      <3>4. Unheard' = Unheard
        BY <2>2, <3>2, <3>3, UnheardIs DEF FreeIs
      <3> QED BY <2>1, <2>2, <3>1, <3>2, <3>3, <3>4 DEF EventInv, SlotInv
    <2> QED BY <2>4, <2>5
  <1>20. ASSUME NEW t \in Threads, DatagramHandled(t)
         PROVE  (EventInv /\ SlotInv)'
    <2>1. /\ seen \in Nat /\ open \in [Threads -> Nat] /\ SlotInv
          /\ Placed(queue, Batches, packets, lost, seen)
      BY DEF IInv, TypeOK, CallType, ThreadType, EventInv
    <2>2. /\ UNCHANGED <<packets, lost, writer, open>> /\ seen' = seen + 1
          /\ Batches' = Batches /\ queue' = Append(queue, seen + 1)
      BY <1>20 DEF DatagramHandled, Arrives, Batches, threadVars
    <2>3. /\ Placed(queue, Batches, packets, lost, seen + 1) /\ seen + 1 \notin Unheard
          /\ Free(queue, Batches, packets, lost, seen + 1) = Unheard \cup {seen + 1}
      BY <2>1, EventArrives, UnheardIs
    <2> DEFINE n == seen + 1
    <2>4. /\ n \in Nat /\ n \in Free(queue, Batches, packets, lost, n)
          /\ Free(queue, Batches, packets, lost, n) = Unheard \cup {n} /\ n \notin Unheard
          /\ Placed(queue, Batches, packets, lost, n)
      BY <2>1, <2>3
    <2>7. seen' = n /\ queue' = Append(queue, n)
      BY <2>2
    <2> HIDE DEF n
    <2>5. /\ Placed(Append(queue, n), Batches, packets, lost, n)
          /\ FreeIs(Append(queue, n), Batches, packets, lost, n,
                    Free(queue, Batches, packets, lost, n) \ {n})
      BY <2>4, EventQueued
    <2>6. Unheard' = Unheard
      BY <2>2, <2>4, <2>5, <2>7, UnheardIs DEF FreeIs
    <2> QED BY <2>1, <2>2, <2>5, <2>6, <2>7 DEF EventInv, SlotInv
  <1>21. ASSUME NEW t \in Threads, NEW ok \in BOOLEAN, ConversationEnds(t, ok)
         PROVE  (EventInv /\ SlotInv)'
    <2>1. /\ seen \in Nat /\ open \in [Threads -> Nat] /\ SlotInv
          /\ Placed(queue, Batches, packets, lost, seen)
      BY DEF IInv, TypeOK, CallType, ThreadType, EventInv
    <2> DEFINE e == CHOOSE x \in Unheard : \A y \in Unheard : x <= y
    <2>2. /\ open[t] > 0 /\ Unheard # {} /\ open' = [open EXCEPT ![t] = open[t] - 1]
          /\ UNCHANGED <<packets, writer, seen>> /\ Batches' = Batches
          /\ \/ queue' = Append(queue, e) /\ lost' = lost
             \/ queue' = queue /\ lost' = lost \cup {e}
      BY <1>21 DEF ConversationEnds, Ends, Batches, countVars
    <2>3. e \in Unheard
      BY <2>1, <2>2, SmallestUnheard
    <2> HIDE DEF e
    <2>4. /\ open' \in [Threads -> Nat] /\ open'[t] = open[t] - 1
          /\ \A u \in Threads \ {t} : open'[u] = open[u]
      BY <2>1, <2>2
    <2>5. Taken(open') = Taken(open) + (open'[t] - open[t]) /\ Taken(open) \in Nat
      BY <2>1, <2>4, SlotsChange
    <2>6. Taken(open') = Taken(open) - 1
      BY <2>1, <2>4, <2>5
    <2>7. e \in Free(queue, Batches, packets, lost, seen)
      BY <2>3, UnheardIs
    <2>8. /\ Placed(Append(queue, e), Batches, packets, lost, seen)
          /\ Placed(queue, Batches, packets, lost \cup {e}, seen)
          /\ Free(Append(queue, e), Batches, packets, lost, seen) = Unheard \ {e}
          /\ Free(queue, Batches, packets, lost \cup {e}, seen) = Unheard \ {e}
      BY SMTT(30), <2>1, <2>7, EventQueued, UnheardIs DEF FreeIs
    <2>9. Unheard' = Unheard \ {e} /\ EventInv'
      BY <2>2, <2>8, UnheardIs DEF EventInv
    <2>10. Cardinality(Unheard') = Cardinality(Unheard) - 1
      BY <2>3, <2>9, UnheardCount
    <2> QED BY <2>1, <2>6, <2>9, <2>10 DEF SlotInv
  <1>22. ASSUME NEW r \in Runs, NEW ok \in BOOLEAN, WriterOpens(r, ok)
         PROVE  (EventInv /\ SlotInv)'
    <2>1. /\ UNCHANGED <<queue, packets, lost, seen, open>>
          /\ \A p \in Runs : writer'[p].batch = writer[p].batch
      BY <1>22 DEF WriterOpens, IInv, TypeOK, WriterType, WriterRec, threadVars, countVars
    <2> QED BY <2>1, EventsKept
  <1>23. ASSUME NEW r \in Runs, WriterTakes(r) PROVE (EventInv /\ SlotInv)'
    <2>1. /\ seen \in Nat /\ open \in [Threads -> Nat] /\ SlotInv
          /\ Placed(queue, Batches, packets, lost, seen)
      BY DEF IInv, TypeOK, CallType, ThreadType, EventInv
    <2>2. writer \in [Runs -> WriterRec] /\ writer[r].batch \in Seq(Nat) /\ Batches[r] = writer[r].batch
      BY DEF IInv, TypeOK, WriterType, WriterRec, Batches
    <2>3. PICK n \in 1..BatchSize :
            /\ n <= Len(queue) /\ queue' = Drop(queue, n)
            /\ writer' = [writer EXCEPT ![r].batch = SubSeq(queue, 1, n)]
      BY <1>23 DEF WriterTakes, Drop
    <2>4. UNCHANGED <<packets, lost, seen, open>> /\ Batches[r] = <<>>
      BY <1>23, <2>2 DEF WriterTakes, threadVars, countVars
    <2>5. queue \in Seq(Nat) /\ Len(queue) \in Nat
      BY <2>1 DEF Placed, Apart
    <2>6. n \in 0..Len(queue)
      BY <2>3, <2>5
    <2>7. SubSeq(queue, 1, n) \in Seq(Nat)
      BY <2>5, <2>6, SplitType
    <2>8. Batches' = [Batches EXCEPT ![r] = SubSeq(queue, 1, n)]
      BY <2>2, <2>3, <2>7, WriteBatch, BatchIs
    <2>9. /\ Placed(queue', Batches', packets, lost, seen)
          /\ Free(queue', Batches', packets, lost, seen) = Unheard
      <3> DEFINE c == Batches'
      <3>1. /\ Placed(queue, Batches, packets, lost, seen) /\ seen \in Nat
            /\ Batches[r] = <<>> /\ n \in 0..Len(queue)
            /\ c = [Batches EXCEPT ![r] = SubSeq(queue, 1, n)]
        BY <2>1, <2>4, <2>6, <2>8
      <3> HIDE DEF c
      <3>2. /\ Placed(Drop(queue, n), c, packets, lost, seen)
            /\ FreeIs(Drop(queue, n), c, packets, lost, seen,
                      Free(queue, Batches, packets, lost, seen))
        BY <3>1, EventsTaken
      <3> QED BY <2>3, <3>2, UnheardIs DEF c, FreeIs
    <2>10. Unheard' = Unheard
      BY <2>4, <2>9, UnheardIs
    <2> QED BY <2>1, <2>4, <2>9, <2>10 DEF EventInv, SlotInv
  <1>24. ASSUME NEW r \in Runs, WriterStores(r) PROVE (EventInv /\ SlotInv)'
    <2>1. /\ seen \in Nat /\ open \in [Threads -> Nat] /\ SlotInv
          /\ Placed(queue, Batches, packets, lost, seen)
      BY DEF IInv, TypeOK, CallType, ThreadType, EventInv
    <2>2. writer \in [Runs -> WriterRec] /\ writer[r].batch \in Seq(Nat) /\ Batches[r] = writer[r].batch
      BY DEF IInv, TypeOK, WriterType, WriterRec, Batches
    <2> DEFINE s == writer[r].batch
    <2>3. /\ s # <<>> /\ packets' = packets \cup {Head(s)}
          /\ writer' = [writer EXCEPT ![r].batch = Tail(s)]
          /\ UNCHANGED <<queue, lost, seen, open>>
      BY <1>24 DEF WriterStores, threadVars, countVars
    <2>4. s \in Seq(Nat) /\ NoDup(s)
      BY <2>1, <2>2 DEF Placed, Apart
    <2>5. /\ Head(s) \in Elems(s) /\ Tail(s) \in Seq(Nat) /\ NoDup(Tail(s))
          /\ Elems(Tail(s)) = Elems(s) \ {Head(s)}
      BY <2>3, <2>4, TailFacts
    <2>6. Batches' = [Batches EXCEPT ![r] = Tail(s)]
      BY <2>2, <2>3, <2>5, WriteBatch, BatchIs
    <2> DEFINE c == Tail(s)
               G == {Head(s)}
    <2>7. /\ c \in Seq(Nat) /\ NoDup(c) /\ Elems(c) \cap G = {}
          /\ Elems(c) \cup G = Elems(Batches[r])
      BY <2>2, <2>5
    <2>8. Batches' = [Batches EXCEPT ![r] = c] /\ packets' = packets \cup G
      BY <2>3, <2>6
    <2> HIDE DEF s, c, G
    <2>9. /\ Placed(queue, Batches', packets \cup G, lost, seen)
          /\ Free(queue, Batches', packets \cup G, lost, seen) = Unheard
      <3> DEFINE d == Batches'
      <3>1. d = [Batches EXCEPT ![r] = c]
        BY <2>8
      <3>2. Placed(queue, Batches, packets, lost, seen) /\ seen \in Nat
        BY <2>1
      <3> HIDE DEF d
      <3>3. /\ Placed(queue, d, packets \cup G, lost, seen)
            /\ FreeIs(queue, d, packets \cup G, lost, seen,
                      Free(queue, Batches, packets, lost, seen))
        BY <2>7, <3>1, <3>2, EventsLeave
      <3> QED BY <3>3, UnheardIs DEF d, FreeIs
    <2>10. Unheard' = Unheard
      BY <2>3, <2>8, <2>9, UnheardIs
    <2> QED BY <2>1, <2>3, <2>8, <2>9, <2>10 DEF EventInv, SlotInv
  <1>25. ASSUME NEW r \in Runs, WriterFails(r) PROVE (EventInv /\ SlotInv)'
    <2>1. /\ seen \in Nat /\ open \in [Threads -> Nat] /\ SlotInv
          /\ Placed(queue, Batches, packets, lost, seen)
      BY DEF IInv, TypeOK, CallType, ThreadType, EventInv
    <2>2. writer \in [Runs -> WriterRec] /\ writer[r].batch \in Seq(Nat) /\ Batches[r] = writer[r].batch
      BY DEF IInv, TypeOK, WriterType, WriterRec, Batches
    <2> DEFINE G == Elems(writer[r].batch)
               c == <<>>
    <2>3. /\ lost' = lost \cup G /\ writer' = [writer EXCEPT ![r].batch = c]
          /\ UNCHANGED <<queue, packets, seen, open>>
      BY <1>25 DEF WriterFails, Drops, threadVars, countVars, Elems, Range
    <2>4. /\ c \in Seq(Nat) /\ NoDup(c) /\ Elems(c) \cap G = {}
          /\ Elems(c) \cup G = Elems(Batches[r])
      BY <2>2, ElemsEmpty
    <2> HIDE DEF G, c
    <2>5. Batches' = [Batches EXCEPT ![r] = c]
      BY <2>2, <2>3, <2>4, WriteBatch, BatchIs
    <2>6. /\ Placed(queue, Batches', packets, lost \cup G, seen)
          /\ Free(queue, Batches', packets, lost \cup G, seen) = Unheard
      <3> DEFINE d == Batches'
      <3>1. d = [Batches EXCEPT ![r] = c]
        BY <2>5
      <3>2. Placed(queue, Batches, packets, lost, seen) /\ seen \in Nat
        BY <2>1
      <3> HIDE DEF d
      <3>3. /\ Placed(queue, d, packets, lost \cup G, seen)
            /\ FreeIs(queue, d, packets, lost \cup G, seen,
                      Free(queue, Batches, packets, lost, seen))
        BY <2>4, <3>1, <3>2, EventsLeave
      <3> QED BY <3>3, UnheardIs DEF d, FreeIs
    <2>7. Unheard' = Unheard
      BY <2>3, <2>6, UnheardIs
    <2> QED BY <2>1, <2>3, <2>6, <2>7 DEF EventInv, SlotInv
  <1>26. ASSUME NEW r \in Runs, WriterLeaves(r) PROVE (EventInv /\ SlotInv)'
    <2>1. /\ UNCHANGED <<queue, packets, lost, seen, open>>
          /\ \A p \in Runs : writer'[p].batch = writer[p].batch
      BY <1>26 DEF WriterLeaves, IInv, TypeOK, WriterType, WriterRec, NoWriter, threadVars, countVars
    <2> QED BY <2>1, EventsKept
  <1>27. ASSUME UNCHANGED vars PROVE (EventInv /\ SlotInv)'
    <2>1. /\ UNCHANGED <<queue, packets, lost, seen, open>>
          /\ \A p \in Runs : writer'[p].batch = writer[p].batch
      BY <1>27 DEF vars, writeVars, countVars, threadVars
    <2> QED BY <2>1, EventsKept
  <1> QED BY <1>1, <1>2, <1>3, <1>4, <1>5, <1>6, <1>7, <1>8, <1>9, <1>10,
      <1>11, <1>12, <1>13, <1>14, <1>15, <1>16, <1>17, <1>18, <1>19, <1>20,
      <1>21, <1>22, <1>23, <1>24, <1>25, <1>26, <1>27 DEF Next, CallStep,
      StarterStep, ListenerStep, WriterStep

-----------------------------------------------------------------------------
(* The theorems. *)

\* The engine before its first start(): no thread, no event.
LEMMA InitIInv == Init => IInv
  <1> SUFFICES ASSUME Init PROVE IInv
    OBVIOUS
  <1> USE HoneypotAssumption
  <1>1. TypeOK
    <2>1. EngineType
      BY DEF Init, EngineType, Listeners, States
    <2>2. CallType
      BY DEF Init, CallType, Idle, Calls
    <2>3. ThreadType
      BY DEF Init, ThreadType, ThreadRec, Places
    <2>4. StarterType
      BY DEF Init, StarterType, NoStarter, StarterRec, Stages
    <2>5. WriterType
      <3>1. NoWriter \in WriterRec
        BY DEF NoWriter, WriterRec
      <3> QED BY <3>1 DEF Init, WriterType
    <2> QED BY <2>1, <2>2, <2>3, <2>4, <2>5 DEF TypeOK
  <1>2. NameInv /\ RosterInv
    BY DEF Init, NameInv, RosterInv, Alive, At, Active, Present, Idle, NoStarter
  <1>3. VerdictInv
    BY DEF Init, VerdictInv, StatusIsTrue, Idle, NoStarter
  <1>4. \A r \in Runs : Batches[r] = <<>>
    BY DEF Init, Batches, NoWriter
  <1>5. EventInv
    <2>1. queue = <<>> /\ packets = {} /\ lost = {} /\ seen = 0
      BY DEF Init
    <2>2. Batches \in [Runs -> Seq(Nat)] /\ queue \in Seq(Nat)
      <3>1. <<>> \in Seq(Nat) /\ Batches = [r \in Runs |-> Batches[r]]
        BY DEF Batches
      <3> QED BY <1>4, <2>1, <3>1
    <2>3. Inside(queue, Batches, Runs) = {}
      BY <1>4, <2>1, ElemsEmpty DEF Inside
    <2>4. Apart(queue, Batches)
      BY <1>4, <2>1, <2>2, ElemsEmpty DEF Apart
    <2> QED BY <2>1, <2>3, <2>4 DEF EventInv, Placed
  <1>6. SlotInv
    <2>1. Unheard = {} /\ open = [t \in Threads |-> 0]
      BY DEF Init, Unheard
    <2>2. Taken(open) = 0
      BY <2>1, NoSlots
    <2> QED BY <2>1, <2>2, FS_EmptySet DEF SlotInv
  <1> QED BY <1>1, <1>2, <1>3, <1>5, <1>6 DEF IInv

\* Every step keeps the inductive invariant.
LEMMA StepIInv == IInv /\ [Next]_vars => IInv'
  <1> SUFFICES ASSUME IInv, [Next]_vars PROVE IInv'
    OBVIOUS
  <1>1. TypeOK'
    BY StepEngineType, StepCallType, StepThreadType, StepStarterType, StepWriterType DEF TypeOK
  <1> QED BY <1>1, StepName, StepRoster, StepVerdict, StepEvents DEF IInv

\* The inductive invariant holds in every state the engine reaches.
THEOREM Inductive == Spec => []IInv
  <1> QED BY InitIInv, StepIInv, PTL DEF Spec

\* Every row, flag, thread, queue and count of the engine keeps its type, for
\* any number of listeners, slots and runs.
THEOREM TypeCorrect == Spec => []TypeOK
  <1>1. IInv => TypeOK
    BY DEF IInv
  <1> QED BY <1>1, Inductive, PTL

\* A listener thread that answers and was not told to stop is the one the
\* roster holds for an enabled listener, where the next toggle or stop() finds
\* it (_spawn_listener(), _stop_listener_thread()), as long as no toggle or
\* start() met a starter at work.
THEOREM NobodyEscapesCorrect == Spec => []NobodyEscapes
  <1>1. IInv => NobodyEscapes
    BY DEF IInv, RosterInv, NobodyEscapes, Alive, Stopping
  <1> QED BY <1>1, Inductive, PTL

\* Every connection and datagram is in exactly one place, none is stored
\* twice whichever writers share the queue, the slots taken are the
\* conversations open (_event_writer(), the accept loop), and the status is
\* the one of the run (stop() against _start_listeners()).
THEOREM RunIsAccountedCorrect == Spec => []RunIsAccounted
  <1>1. ASSUME IInv PROVE RunIsAccounted
    <2>1. EventInv /\ SlotInv /\ StatusIsTrue
      BY <1>1 DEF IInv, VerdictInv
    <2>2. /\ Apart(queue, Batches) /\ packets \cap lost = {}
          /\ Inside(queue, Batches, Runs) \cap (packets \cup lost) = {}
      BY <2>1 DEF EventInv, Placed
    <2> DEFINE w == Waiting(queue, Batches)
    <2>3. w \in Seq(Nat) /\ NoDup(w) /\ Elems(w) = Inside(queue, Batches, Runs)
      BY <2>2, WaitingFacts
    <2>4. w = FoldFunction(\o, queue, [r \in Runs |-> writer[r].batch])
      BY DEF Waiting, Batches
    <2>5. Cardinality(Unheard) = FoldFunction(+, 0, open)
      BY <2>1 DEF SlotInv, Taken
    <2> HIDE DEF w
    <2>6. DOMAIN w = 1..Len(w)
      BY <2>3, ElemsFacts
    <2>7. IsInjective(w) /\ Range(w) = Elems(w)
      BY <2>3, <2>6 DEF IsInjective, NoDup, Range, Elems
    <2>8. IsInjective(w) /\ Range(w) \cap (packets \cup lost) = {}
      BY <2>2, <2>3, <2>7
    <2>9. EventsAddUp
      BY <2>2, <2>4, <2>5, <2>8 DEF EventsAddUp
    <2> QED BY <2>1, <2>9 DEF RunIsAccounted
  <1> QED BY <1>1, Inductive, PTL
=============================================================================
