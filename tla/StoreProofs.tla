----------------------------- MODULE StoreProofs -----------------------------
(***************************************************************************)
(* Proofs about what is kept on disk, for any addresses, limits, operators *)
(* and releases, any numbers of launches and keys, and any settings of the *)
(* logs: tags belong to their packet and alerts outlive the rest           *)
(* (Retention); what operators decided stays, the mirrors of the blacklist *)
(* are in step, and the sniffer's view of the monitors is the catalog as   *)
(* long as their stamps agree (Catalog); clients meet the certificates     *)
(* they were given (Certificates); no rotation costs a file that the       *)
(* settings let stay (Logs); nothing observed is told twice or vanishes    *)
(* uncounted (History).                                                    *)
(***************************************************************************)
EXTENDS Retention, Catalog, Certificates, Logs, History, ListProofs

-----------------------------------------------------------------------------
(* Retention. *)

Sources == {"sniffer", "honeypot"}
PacketRec ==
  [uid : Nat, host : Remotes, from : Sources, alert : BOOLEAN, day : Nat, sid : Nat]
TagRec == [pid : Nat, key : {"plain", "alert", "review"}, uid : Nat]

IsTable(f) == f = [k \in DOMAIN f |-> f[k]]

\* The packets table, and the sessions'.
PacketType ==
  /\ IsTable(stored) /\ IsFiniteSet(DOMAIN stored)
  /\ \A id \in DOMAIN stored : id \in Nat /\ stored[id] \in PacketRec
SessionType ==
  /\ DOMAIN sessions \subseteq Nat /\ IsFiniteSet(DOMAIN sessions)
  /\ last \in [packets : Nat, sessions : Nat]
  /\ trap.mine \in Nat /\ trap.saved \in Nat
TagType == tags \in Seq(TagRec) /\ excused \subseteq Nat /\ survivors \subseteq Nat /\ early \subseteq Nat
WaitingType ==
  /\ batch = None \/ batch \in [st : {"evaluated"}, uid : Nat, host : Remotes, alert : BOOLEAN]
  /\ trap.event = None \/ trap.event \in [st : {"event"}, uid : Nat, host : Remotes, sid : Nat]
RequestType ==
  /\ request.st \in {"none", "review", "clean", "forget"}
  /\ request.st = "review" => request.id \in Nat /\ request.uid \in Nat
CountType == day \in Nat /\ turns \in Nat /\ uids \in Nat

RetentionTypeOK ==
  /\ PacketType /\ SessionType /\ TagType
  /\ WaitingType /\ RequestType /\ CountType

\* Nobody has an id the sequence has not given out yet, but for what survived a
\* purge that reset it.
IdInv ==
  /\ \A id \in DOMAIN stored : id <= last.packets \/ stored[id].uid \in survivors
  /\ \A t \in Elems(tags) : t.pid <= last.packets \/ t.uid \in survivors
  /\ request.st = "review" => request.id <= last.packets \/ request.uid \in survivors

\* A tag, and a label about to be written, name the packet they were made for
\* if that packet is there.
OwnerInv ==
  /\ \A t \in Elems(tags) : t.pid \in DOMAIN stored => stored[t.pid].uid = t.uid \/ t.uid \in survivors
  /\ request.st = "review" /\ request.id \in DOMAIN stored =>
       stored[request.id].uid = request.uid \/ request.uid \in survivors

\* An alert still has the row it is told by, or is excused.
AlertInv ==
  \A id \in DOMAIN stored : stored[id].alert =>
    \/ stored[id].uid \in excused
    \/ \E t \in Elems(tags) : t.pid = id /\ t.key = "alert" /\ t.uid = stored[id].uid

RetentionInv ==
  /\ RetentionTypeOK /\ IdInv /\ OwnerInv /\ AlertInv /\ AlertsOutlive

\* What the writers, the sweep and the operators all change.
RowsInv == PacketType /\ TagType /\ IdInv /\ OwnerInv /\ AlertInv

LEMMA WithFacts ==
  ASSUME NEW f, NEW k, NEW v
  PROVE  /\ DOMAIN With(f, k, v) = DOMAIN f \cup {k} /\ With(f, k, v)[k] = v
         /\ \A x \in DOMAIN f \ {k} : With(f, k, v)[x] = f[x]
         /\ IsTable(With(f, k, v))
         /\ IsFiniteSet(DOMAIN f) => IsFiniteSet(DOMAIN With(f, k, v))
  <1>1. /\ DOMAIN With(f, k, v) = DOMAIN f \cup {k} /\ With(f, k, v)[k] = v
        /\ \A x \in DOMAIN f \ {k} : With(f, k, v)[x] = f[x]
        /\ IsTable(With(f, k, v))
    BY DEF With, IsTable
  <1>2. IsFiniteSet(DOMAIN f) => IsFiniteSet(DOMAIN f \cup {k})
    BY FS_AddElement
  <1> QED BY <1>1, <1>2

LEMMA WithoutFacts ==
  ASSUME NEW f, NEW ks
  PROVE  /\ DOMAIN Without(f, ks) = DOMAIN f \ ks
         /\ \A x \in DOMAIN f \ ks : Without(f, ks)[x] = f[x]
         /\ IsTable(Without(f, ks))
         /\ IsFiniteSet(DOMAIN f) => IsFiniteSet(DOMAIN Without(f, ks))
  <1>1. /\ DOMAIN Without(f, ks) = DOMAIN f \ ks
        /\ \A x \in DOMAIN f \ ks : Without(f, ks)[x] = f[x]
        /\ IsTable(Without(f, ks))
    BY DEF Without, IsTable
  <1>2. IsFiniteSet(DOMAIN f) => IsFiniteSet(DOMAIN f \ ks)
    BY FS_Subset
  <1> QED BY <1>1, <1>2

\* A filter keeps exactly what it names.
LEMMA KeptElems ==
  ASSUME NEW A, NEW s \in Seq(A), NEW S, S \subseteq Elems(s)
  PROVE  Kept(s, S) \in Seq(A) /\ Elems(Kept(s, S)) = S
  <1> DEFINE t == Kept(s, S)
  <1>1. /\ t \in Seq(A) /\ \A i \in DOMAIN t : t[i] \in S
        /\ \A k \in DOMAIN s : s[k] \in S => \E i \in DOMAIN t : t[i] = s[k]
    BY KeptFacts
  <1> HIDE DEF t
  <1>2. \A x \in S : \E k \in DOMAIN s : x = s[k]
    BY DEF Elems
  <1>3. Elems(t) = S
    BY <1>1, <1>2 DEF Elems
  <1> QED BY <1>1, <1>3 DEF t

\* The larger of two numbers.
LEMMA LargerOf ==
  ASSUME NEW a \in Nat, NEW b \in Nat
  PROVE  Max({a, b}) \in Nat /\ Max({a, b}) >= a /\ Max({a, b}) >= b /\ Max({a, b}) \in {a, b}
  <1>1. \E x \in {a, b} : \A y \in {a, b} : x >= y
    OBVIOUS
  <1> DEFINE m == CHOOSE x \in {a, b} : \A y \in {a, b} : x >= y
  <1>2. m \in {a, b} /\ \A y \in {a, b} : m >= y
    BY <1>1
  <1>3. Max({a, b}) = m
    BY DEF Max
  <1> HIDE DEF m
  <1> QED BY <1>2, <1>3

\* The number after the largest of a table's and of its sequence is none of the table's.
LEMMA NumberAfter ==
  ASSUME NEW a \in Nat, NEW S, S \subseteq Nat, IsFiniteSet(S)
  PROVE  /\ Max({a} \cup S) + 1 \in Nat /\ Max({a} \cup S) + 1 > a
         /\ \A x \in S : Max({a} \cup S) + 1 > x
  <1> DEFINE T == {a} \cup S
             m == CHOOSE x \in T : \A y \in T : x >= y
  <1>1. T \in SUBSET Nat /\ T # {} /\ a \in T
    OBVIOUS
  <1>2. IsFiniteSet(S \cup {a})
    BY FS_AddElement
  <1>3. IsFiniteSet(T)
    <2>1. S \cup {a} = T
      OBVIOUS
    <2> QED BY <1>2, <2>1
  <1> HIDE DEF T
  <1>4. \E x \in T : \A y \in T : x >= y
    BY <1>1, <1>3, GreatestNumber
  <1>5. m \in T /\ \A y \in T : m >= y
    BY <1>4
  <1>6. Max(T) = m
    BY DEF Max
  <1> HIDE DEF m
  <1>7. Max(T) \in Nat /\ \A x \in T : Max(T) + 1 > x
    BY <1>1, <1>5, <1>6
  <1>8. Max(T) + 1 \in Nat /\ Max(T) + 1 > a /\ \A x \in S : Max(T) + 1 > x
    BY <1>1, <1>7 DEF T
  <1> QED BY <1>8 DEF T

\* What is over the limit of a list is how it begins.
LEMMA OverflowFacts ==
  ASSUME NEW A, NEW s \in Seq(A), NEW limit \in Nat
  PROVE  /\ Cardinality(Overflow(DOMAIN s, limit)) \in 0..Len(s)
         /\ Overflow(DOMAIN s, limit) = 1..Cardinality(Overflow(DOMAIN s, limit))
  <1> DEFINE n == Len(s)
             over == Overflow(DOMAIN s, limit)
             k == IF limit <= n THEN n - limit ELSE 0
  <1>1. n \in Nat /\ DOMAIN s = 1..n
    BY ElemsFacts
  <1> HIDE DEF n
  <1>2. \A i \in 1..n : Cardinality({j \in 1..n : j > i}) = n - i
    <2> TAKE i \in 1..n
    <2>1. {j \in 1..n : j > i} = (i + 1)..n
      BY <1>1
    <2>2. i + 1 \in Int /\ n \in Int
      BY <1>1
    <2>3. Cardinality((i + 1)..n) = IF i + 1 > n THEN 0 ELSE n - (i + 1) + 1
      BY <2>2, FS_Interval
    <2>4. Cardinality((i + 1)..n) = n - i
      BY <1>1, <2>3
    <2> QED BY <2>1, <2>4
  <1>3. over = {i \in 1..n : n - i >= limit}
    BY <1>1, <1>2 DEF Overflow
  <1>4. over = 1..k /\ k \in 0..n
    <2>1. CASE limit <= n
      <3>1. k = n - limit /\ k \in 0..n
        BY <1>1, <2>1
      <3>2. \A i \in 1..n : n - i >= limit <=> i <= k
        BY <1>1, <3>1
      <3> HIDE DEF k, over
      <3> QED BY <1>1, <1>3, <3>1, <3>2
    <2>2. CASE ~(limit <= n)
      <3>1. k = 0 /\ over = {}
        BY <1>1, <1>3, <2>2
      <3> HIDE DEF k, over
      <3> QED BY <1>1, <3>1
    <2> QED BY <2>1, <2>2
  <1>5. Cardinality(1..k) = k
    <2>1. 1 \in Int /\ k \in Int /\ k \in Nat
      BY <1>1, <1>4
    <2> HIDE DEF k
    <2>2. Cardinality(1..k) = IF 1 > k THEN 0 ELSE k - 1 + 1
      BY <2>1, FS_Interval
    <2> QED BY <2>1, <2>2
  <1> QED BY <1>4, <1>5 DEF n

LEMMA RowsKept ==
  ASSUME RetentionInv, UNCHANGED <<stored, tags, excused, survivors, early>>, last'.packets = last.packets,
         request' = request \/ request'.st \in {"none", "clean", "forget"}
  PROVE  RowsInv'
  <1>1. RowsInv
    BY DEF RetentionInv, RetentionTypeOK, RowsInv
  <1>2. PacketType' /\ TagType' /\ AlertInv'
    BY <1>1 DEF RowsInv, PacketType, TagType, AlertInv
  <1>3. IdInv' /\ OwnerInv'
    BY <1>1 DEF RowsInv, IdInv, OwnerInv
  <1> QED BY <1>2, <1>3 DEF RowsInv

\* Packets X and some of the tags go; an alert that loses its own is excused.
LEMMA RowsGo ==
  ASSUME RetentionInv, NEW X, stored' = Without(stored, X),
         tags' \in Seq(TagRec), Elems(tags') \subseteq Elems(tags),
         excused \subseteq excused', excused' \subseteq Nat, early' \subseteq Nat,
         \A t \in Elems(tags) \ Elems(tags') :
           t.uid \in excused' \/ t.pid \notin DOMAIN stored' \/ t.key # "alert",
         UNCHANGED <<last, survivors>>, request' = request \/ request'.st \in {"none", "clean", "forget"}
  PROVE  RowsInv'
  <1>1. PacketType /\ TagType /\ IdInv /\ OwnerInv /\ AlertInv
    BY DEF RetentionInv, RetentionTypeOK
  <1>2. /\ DOMAIN stored' \subseteq DOMAIN stored /\ \A id \in DOMAIN stored' : stored'[id] = stored[id]
        /\ IsTable(stored)' /\ IsFiniteSet(DOMAIN stored')
    <2> DEFINE g == Without(stored, X)
    <2>1. /\ DOMAIN g = DOMAIN stored \ X /\ (\A id \in DOMAIN stored \ X : g[id] = stored[id]) /\ IsTable(g)
          /\ IsFiniteSet(DOMAIN g)
      BY <1>1, WithoutFacts DEF PacketType
    <2>2. stored' = g
      OBVIOUS
    <2> HIDE DEF g
    <2>3. IsTable(stored)'
      BY <2>1, <2>2 DEF IsTable
    <2> QED BY <2>1, <2>2, <2>3
  <1>3. PacketType' /\ TagType'
    BY <1>1, <1>2 DEF PacketType, TagType
  <1>4. IdInv'
    BY <1>1, <1>2 DEF IdInv
  <1>5. OwnerInv'
    BY <1>1, <1>2 DEF OwnerInv
  <1>6. AlertInv'
    <2> SUFFICES ASSUME NEW id \in DOMAIN stored', stored'[id].alert, stored'[id].uid \notin excused'
                 PROVE  \E t \in Elems(tags') : t.pid = id /\ t.key = "alert" /\ t.uid = stored'[id].uid
      BY DEF AlertInv
    <2>1. id \in DOMAIN stored /\ stored[id].alert /\ stored[id].uid \notin excused
      BY <1>2
    <2>2. PICK t \in Elems(tags) : t.pid = id /\ t.key = "alert" /\ t.uid = stored[id].uid
      BY <1>1, <2>1 DEF AlertInv
    <2> QED BY <1>2, <2>2
  <1> QED BY <1>3, <1>4, <1>5, <1>6 DEF RowsInv

\* What _insert_tag_rows() writes.
LEMMA TagRowsFacts ==
  ASSUME NEW n \in Nat, NEW uid \in Nat, NEW alert \in BOOLEAN
  PROVE  /\ TagRows(n, uid, alert) \in Seq(TagRec)
         /\ \A t \in Elems(TagRows(n, uid, alert)) : t.pid = n /\ t.uid = uid
         /\ alert => \E t \in Elems(TagRows(n, uid, alert)) : t.key = "alert"
  <1> DEFINE x == [pid |-> n, key |-> "plain", uid |-> uid]
             y == [pid |-> n, key |-> "alert", uid |-> uid]
  <1>1. x \in TagRec /\ y \in TagRec
    BY DEF TagRec
  <1>2. TagRows(n, uid, alert) = IF alert THEN <<x, y>> ELSE <<x>>
    BY DEF TagRows
  <1>3. /\ x.pid = n /\ x.uid = uid /\ y.pid = n /\ y.uid = uid /\ y.key = "alert"
    OBVIOUS
  <1> HIDE DEF x, y
  <1>4. <<x, y>> \in Seq(TagRec) /\ Elems(<<x, y>>) = {x, y}
    BY <1>1 DEF Elems
  <1>5. <<x>> \in Seq(TagRec) /\ Elems(<<x>>) = {x}
    BY <1>1 DEF Elems
  <1> QED BY <1>2, <1>3, <1>4, <1>5

\* The number a new session gets.
LEMMA NextSessionFacts ==
  ASSUME SessionType PROVE NextSession \in Nat
  BY NumberAfter DEF SessionType, NextSession

\* A session is found or made.
LEMMA SessionEnsured ==
  ASSUME RetentionInv, NEW sid \in Nat, NEW id \in Nat, EnsuresSession(sid, id)
  PROVE  /\ DOMAIN sessions' \subseteq Nat /\ IsFiniteSet(DOMAIN sessions')
         /\ last' \in [packets : Nat, sessions : Nat] /\ last'.packets = id
         /\ Session(sid) \in Nat
  <1>1. DOMAIN sessions \subseteq Nat /\ IsFiniteSet(DOMAIN sessions) /\ last.sessions \in Nat
    BY DEF RetentionInv, RetentionTypeOK, SessionType
  <1>2. NextSession \in Nat
    BY NextSessionFacts DEF RetentionInv, RetentionTypeOK
  <1>3. Session(sid) \in Nat
    BY <1>2 DEF Session
  <1> DEFINE s == Session(sid)
  <1>4. /\ sessions' = IF s \in DOMAIN sessions THEN sessions ELSE With(sessions, s, "packet")
        /\ last' = [packets |-> id, sessions |-> Max({last.sessions, s})]
    BY DEF EnsuresSession
  <1> HIDE DEF s
  <1>5. s \in Nat /\ Max({last.sessions, s}) \in Nat
    BY <1>1, <1>3, LargerOf DEF s
  <1>6. /\ DOMAIN With(sessions, s, "packet") = DOMAIN sessions \cup {s}
        /\ IsFiniteSet(DOMAIN With(sessions, s, "packet"))
    BY <1>1, WithFacts
  <1> QED BY <1>1, <1>3, <1>4, <1>5, <1>6

\* A packet is registered under the next id, with rows of tags of its own.
LEMMA RowsCome ==
  ASSUME RetentionInv, NEW uid \in Nat, NEW host \in Remotes, NEW from \in Sources,
         NEW alert \in BOOLEAN, NEW sid \in Nat, NEW rows,
         rows \in Seq(TagRec), \A t \in Elems(rows) : t.pid = NextId /\ t.uid = uid,
         Registers(uid, host, from, alert, sid, rows),
         excused \subseteq excused', excused' \subseteq Nat,
         alert => uid \in excused' \/ \E t \in Elems(rows) : t.key = "alert",
         UNCHANGED <<request, survivors, early>>
  PROVE  RowsInv'
  <1>1. /\ PacketType /\ TagType /\ IdInv /\ OwnerInv /\ AlertInv /\ SessionType
        /\ day \in Nat
    BY DEF RetentionInv, RetentionTypeOK, CountType
  <1> DEFINE n == NextId
             s == Session(sid)
             row == [uid |-> uid, host |-> host, from |-> from, alert |-> alert, day |-> day, sid |-> s]
  <1>2. n \in Nat /\ n > last.packets /\ last.packets \in Nat /\ \A id \in DOMAIN stored : n > id
    BY <1>1, NumberAfter DEF NextId, PacketType, SessionType
  <1>3. /\ stored' = With(stored, n, row) /\ tags' = tags \o rows /\ EnsuresSession(sid, n)
    BY DEF Registers
  <1> HIDE DEF n
  <1>s. last'.packets = n /\ s \in Nat
    BY <1>2, <1>3, SessionEnsured
  <1>4. row \in PacketRec /\ row.uid = uid /\ row.alert = alert
    BY <1>1, <1>s DEF PacketRec
  <1>5. \A t \in Elems(rows) : t.pid = n /\ t.uid = uid
    BY DEF n
  <1> HIDE DEF row, s
  <1>6. tags' \in Seq(TagRec) /\ Elems(tags') = Elems(tags) \cup Elems(rows)
    BY <1>1, <1>3, ConcatFacts DEF TagType
  <1>7. n \notin DOMAIN stored
    BY <1>1, <1>2 DEF PacketType
  <1>8. /\ DOMAIN stored' = DOMAIN stored \cup {n} /\ stored'[n] = row
        /\ \A id \in DOMAIN stored : stored'[id] = stored[id]
        /\ IsTable(stored)' /\ IsFiniteSet(DOMAIN stored')
    <2>1. stored' = With(stored, n, row) /\ IsFiniteSet(DOMAIN stored)
      BY <1>1, <1>3 DEF PacketType
    <2>2. DOMAIN With(stored, n, row) = DOMAIN stored \cup {n} /\ IsFiniteSet(DOMAIN With(stored, n, row))
      BY <2>1, WithFacts
    <2>3. With(stored, n, row)[n] = row
      BY DEF With
    <2>4. \A id \in DOMAIN stored \ {n} : With(stored, n, row)[id] = stored[id]
      BY DEF With
    <2>5. IsTable(With(stored, n, row))
      BY WithFacts
    <2>6. IsTable(stored)'
      BY <2>1, <2>5 DEF IsTable
    <2> QED BY <1>7, <2>1, <2>2, <2>3, <2>4, <2>6
  <1>9. PacketType' /\ TagType'
    BY <1>1, <1>2, <1>4, <1>6, <1>8 DEF PacketType, TagType
  <1>t. \A t \in Elems(tags) : t.pid \in Nat /\ (t.pid <= last.packets \/ t.uid \in survivors)
    <2>1. Elems(tags) \subseteq TagRec
      BY <1>1, ElemsFacts DEF TagType
    <2> QED BY <1>1, <2>1 DEF TagRec, IdInv
  <1>r. request.st = "review" => request.id \in Nat /\ (request.id <= last.packets \/ request.uid \in survivors)
    BY <1>1 DEF IdInv, RetentionInv, RetentionTypeOK, RequestType
  <1>10. IdInv'
    <2>1. \A id \in DOMAIN stored' : id <= n \/ stored'[id].uid \in survivors
      BY <1>1, <1>2, <1>8 DEF PacketType
    <2>2. \A t \in Elems(tags') : t.pid <= n \/ t.uid \in survivors
      BY <1>2, <1>5, <1>6, <1>t
    <2>3. request.st = "review" => request.id <= n \/ request.uid \in survivors
      BY <1>2, <1>r
    <2> QED BY <1>s, <2>1, <2>2, <2>3 DEF IdInv
  <1>11. OwnerInv'
    <2>1. \A t \in Elems(tags) : t.pid # n \/ t.uid \in survivors
      BY <1>2, <1>t
    <2>2. request.st = "review" => request.id # n \/ request.uid \in survivors
      BY <1>2, <1>r
    <2>3. \A t \in Elems(tags') : t.pid \in DOMAIN stored' => stored'[t.pid].uid = t.uid \/ t.uid \in survivors
      BY <1>1, <1>4, <1>5, <1>6, <1>8, <2>1 DEF OwnerInv
    <2> QED BY <1>1, <1>8, <2>2, <2>3 DEF OwnerInv
  <1>12. AlertInv'
    <2> SUFFICES ASSUME NEW id \in DOMAIN stored', stored'[id].alert, stored'[id].uid \notin excused'
                 PROVE  \E t \in Elems(tags') : t.pid = id /\ t.key = "alert" /\ t.uid = stored'[id].uid
      BY DEF AlertInv
    <2>1. CASE id = n
      BY <1>4, <1>5, <1>6, <1>8, <2>1
    <2>2. CASE id \in DOMAIN stored
      BY <1>1, <1>6, <1>8, <2>2 DEF AlertInv
    <2> QED BY <1>8, <2>1, <2>2
  <1> QED BY <1>9, <1>10, <1>11, <1>12 DEF RowsInv

\* A packet is written, or its write fails.
WriteOf(uid, host, from, alert, sid) ==
  \/ Registers(uid, host, from, alert, sid, TagRows(NextId, uid, alert)) /\ UNCHANGED <<excused, turns>>
  \/ WriteFails(uid, host, from, alert, sid)

LEMMA WriteGoes ==
  ASSUME RetentionInv, NEW uid \in Nat, NEW host \in Remotes, NEW from \in Sources,
         NEW alert \in BOOLEAN, NEW sid \in Nat, WriteOf(uid, host, from, alert, sid),
         UNCHANGED <<request, survivors, early>>
  PROVE  /\ RowsInv'
         /\ DOMAIN sessions' \subseteq Nat /\ IsFiniteSet(DOMAIN sessions')
         /\ last' \in [packets : Nat, sessions : Nat]
         /\ excused \subseteq excused' /\ turns' \in Nat
  <1>1. /\ PacketType /\ SessionType /\ excused \subseteq Nat /\ turns \in Nat
    BY DEF RetentionInv, RetentionTypeOK, TagType, CountType
  <1>2. NextId \in Nat
    BY <1>1, NumberAfter DEF NextId, PacketType, SessionType
  <1>3. ASSUME NEW rows, NEW a \in BOOLEAN, rows = TagRows(NextId, uid, a)
        PROVE  /\ rows \in Seq(TagRec) /\ \A t \in Elems(rows) : t.pid = NextId /\ t.uid = uid
               /\ a => \E t \in Elems(rows) : t.key = "alert"
    BY <1>2, <1>3, TagRowsFacts
  <1>4. <<>> \in Seq(TagRec) /\ Elems(<<>>) = {}
    BY EmptySeq, ElemsEmpty
  <1>5. ASSUME NEW rows, Registers(uid, host, from, alert, sid, rows)
        PROVE  /\ DOMAIN sessions' \subseteq Nat /\ IsFiniteSet(DOMAIN sessions')
               /\ last' \in [packets : Nat, sessions : Nat]
    <2>1. EnsuresSession(sid, NextId)
      BY <1>5 DEF Registers
    <2> QED BY <1>2, <2>1, SessionEnsured
  <1>6. CASE Registers(uid, host, from, alert, sid, TagRows(NextId, uid, alert)) /\ UNCHANGED <<excused, turns>>
    <2>1. PICK rows : rows = TagRows(NextId, uid, alert)
      OBVIOUS
    <2>2. Registers(uid, host, from, alert, sid, rows) /\ excused' = excused /\ turns' = turns
      BY <1>6, <2>1
    <2>3. RowsInv'
      BY <1>1, <1>3, <2>1, <2>2, RowsCome
    <2> QED BY <1>1, <1>5, <2>2, <2>3
  <1>7. CASE WriteFails(uid, host, from, alert, sid)
    <2>1. turns' \in Nat
      BY <1>1, <1>7 DEF WriteFails, Turn
    <2>2. CASE UNCHANGED <<stored, tags, sessions, last, excused>>
      <3>1. RowsInv'
        BY <2>2, RowsKept
      <3> QED BY <1>1, <2>1, <2>2, <3>1 DEF SessionType
    <2>3. CASE EnsuresSession(sid, last.packets) /\ UNCHANGED <<stored, tags, excused>>
      <3>1. last.packets \in Nat
        BY <1>1 DEF SessionType
      <3>2. /\ DOMAIN sessions' \subseteq Nat /\ IsFiniteSet(DOMAIN sessions')
            /\ last' \in [packets : Nat, sessions : Nat] /\ last'.packets = last.packets
        BY <2>3, <3>1, SessionEnsured
      <3>3. RowsInv'
        BY <2>3, <3>2, RowsKept
      <3> QED BY <2>1, <2>3, <3>2, <3>3
    <2>4. CASE /\ \E rows \in {<<>>, TagRows(NextId, uid, FALSE)} : Registers(uid, host, from, alert, sid, rows)
               /\ excused' = IF alert THEN excused \cup {uid} ELSE excused
      <3>1. PICK rows \in {<<>>, TagRows(NextId, uid, FALSE)} : Registers(uid, host, from, alert, sid, rows)
        BY <2>4
      <3>2. /\ rows \in Seq(TagRec) /\ \A t \in Elems(rows) : t.pid = NextId /\ t.uid = uid
        BY <1>3, <1>4, <3>1
      <3>3. excused \subseteq excused' /\ excused' \subseteq Nat /\ (alert => uid \in excused')
        BY <1>1, <2>4
      <3>4. RowsInv'
        BY <3>1, <3>2, <3>3, RowsCome
      <3> QED BY <1>5, <2>1, <3>1, <3>3, <3>4
    <2> QED BY <1>7, <2>2, <2>3, <2>4 DEF WriteFails
  <1> QED BY <1>6, <1>7 DEF WriteOf

\* The tags of some packets go, and their alerts are excused.
LEMMA TagsGo ==
  ASSUME RetentionInv, NEW ids, DropTags(ids)
  PROVE  /\ tags' \in Seq(TagRec) /\ Elems(tags') \subseteq Elems(tags)
         /\ excused \subseteq excused' /\ excused' \subseteq Nat
         /\ \A t \in Elems(tags) \ Elems(tags') : t.uid \in excused'
  <1> DEFINE S == {t \in Elems(tags) : t.pid \notin ids}
             G == {tags[i].uid : i \in {j \in DOMAIN tags : tags[j].pid \in ids}}
  <1>1. tags \in Seq(TagRec) /\ excused \subseteq Nat
    BY DEF RetentionInv, RetentionTypeOK, TagType
  <1>2. /\ Elems(tags) \subseteq TagRec /\ S \subseteq Elems(tags)
        /\ \A i \in DOMAIN tags : tags[i] \in TagRec
        /\ \A t \in Elems(tags) : \E i \in DOMAIN tags : tags[i] = t
    BY <1>1, ElemsFacts DEF Elems
  <1>3. tags' = Kept(tags, S) /\ excused' = excused \cup G
    BY DEF DropTags
  <1>4. G \subseteq Nat
    BY <1>2 DEF TagRec
  <1>5. \A t \in Elems(tags) \ S : t.uid \in G
    BY <1>2
  <1> HIDE DEF S, G
  <1>6. Kept(tags, S) \in Seq(TagRec) /\ Elems(Kept(tags, S)) = S
    BY <1>1, <1>2, KeptElems
  <1>7. tags' \in Seq(TagRec) /\ Elems(tags') = S
    BY <1>3, <1>6
  <1> QED BY <1>1, <1>2, <1>3, <1>4, <1>5, <1>7

\* An alert that age removes before its time has lost its tag before.
LEMMA EarlyIsExcused ==
  ASSUME RetentionInv, NEW id \in DOMAIN stored, Expired(id), stored[id].alert, ~Older(id, AlertDays)
  PROVE  stored[id].uid \in excused
  <1>1. /\ RetentionDays \in Nat /\ AlertDays \in Nat /\ day \in Nat /\ stored[id].day \in Nat
    BY RetentionAssumption DEF RetentionInv, RetentionTypeOK, CountType, PacketType, PacketRec
  <1> DEFINE m == Max({RetentionDays, AlertDays})
  <1>2. m \in Nat /\ m >= AlertDays
    BY <1>1, LargerOf
  <1>3. Older(id, m) \/ ~Flagged(id)
    BY DEF Expired
  <1> HIDE DEF m
  <1>4. ~Older(id, m)
    BY <1>1, <1>2 DEF Older
  <1>5. ~\E t \in Elems(tags) : t.pid = id /\ t.key = "alert" /\ t.uid = stored[id].uid
    BY <1>3, <1>4 DEF Flagged, Elems
  <1> QED BY <1>5 DEF RetentionInv, AlertInv

\* A label goes, and another may come.
LEMMA ReviewRows ==
  ASSUME RetentionInv, NEW label \in BOOLEAN, ReviewWrites(label)
  PROVE  RowsInv'
  <1> DEFINE S == {t \in Elems(tags) : ~(t.pid = request.id /\ t.key = "review")}
             new == [pid |-> request.id, key |-> "review", uid |-> request.uid]
             rest == Kept(tags, S)
  <1>1. /\ PacketType /\ TagType /\ IdInv /\ OwnerInv /\ AlertInv
        /\ request.st = "review" /\ request.id \in Nat /\ request.uid \in Nat
    BY DEF RetentionInv, RetentionTypeOK, RequestType, ReviewWrites
  <1>2. /\ UNCHANGED <<stored, last, excused, survivors, early>> /\ request'.st = "none"
        /\ tags' = IF label THEN Append(rest, new) ELSE rest
    BY DEF ReviewWrites, captureVars, None
  <1>3. new \in TagRec /\ new.pid = request.id /\ new.uid = request.uid
    BY <1>1 DEF TagRec
  <1>4. /\ \A t \in Elems(tags) : t.key = "alert" => t \in S
        /\ S \subseteq Elems(tags)
    OBVIOUS
  <1> HIDE DEF S, new
  <1>5. rest \in Seq(TagRec) /\ Elems(rest) = S
    BY <1>1, <1>4, KeptElems DEF TagType
  <1> HIDE DEF rest
  <1>6. Append(rest, new) \in Seq(TagRec) /\ Elems(Append(rest, new)) = S \cup {new}
    BY <1>3, <1>5, AppendFacts
  <1>7. /\ tags' \in Seq(TagRec) /\ S \subseteq Elems(tags') /\ Elems(tags') \subseteq S \cup {new}
    BY <1>2, <1>5, <1>6
  <1>8. PacketType' /\ TagType'
    BY <1>1, <1>2, <1>7 DEF PacketType, TagType, IsTable
  <1>9. IdInv'
    BY <1>1, <1>2, <1>3, <1>4, <1>7 DEF IdInv
  <1>10. OwnerInv'
    BY <1>1, <1>2, <1>3, <1>4, <1>7 DEF OwnerInv
  <1>11. AlertInv'
    BY <1>1, <1>2, <1>4, <1>7 DEF AlertInv
  <1> QED BY <1>8, <1>9, <1>10, <1>11 DEF RowsInv

\* Every step keeps the tables as they should be.
LEMMA StepRows ==
  ASSUME RetentionInv, [RetentionNext]_retentionVars PROVE RowsInv'
  <1>0. /\ PacketType /\ TagType /\ IdInv /\ OwnerInv /\ AlertInv
        /\ last \in [packets : Nat, sessions : Nat] /\ WaitingType /\ RequestType
    BY DEF RetentionInv, RetentionTypeOK, SessionType
  <1>t. /\ tags \in Seq(TagRec) /\ excused \subseteq Nat /\ early \subseteq Nat
        /\ Elems(tags) \subseteq TagRec /\ DOMAIN tags = 1..Len(tags) /\ Len(tags) \in Nat
    BY <1>0, ElemsFacts DEF TagType
  <1>w. stored = Without(stored, {})
    BY <1>0 DEF PacketType, IsTable, Without
  <1>1. ASSUME NEW host \in Remotes, NEW alert \in BOOLEAN, EvaluatePacket(host, alert) PROVE RowsInv'
    BY <1>1, RowsKept DEF EvaluatePacket
  <1>2. ASSUME NEW host \in Remotes, TrapSession(host) PROVE RowsInv'
    <2>1. last'.packets = last.packets
      BY <1>0, <1>2 DEF TrapSession
    <2> QED BY <1>2, <2>1, RowsKept DEF TrapSession
  <1>3. ASSUME NEW host \in Remotes, WhitelistIp(host) PROVE RowsInv'
    <2>1. request'.st = "forget"
      BY <1>3 DEF WhitelistIp
    <2> QED BY <1>3, <2>1, RowsKept DEF WhitelistIp, captureVars
  <1>4. ASSUME NEW host \in Remotes, Unlist(host) PROVE RowsInv'
    BY <1>4, RowsKept DEF Unlist, captureVars
  <1>5. ASSUME WritesBatch PROVE RowsInv'
    <2>1. batch.uid \in Nat /\ batch.host \in Remotes /\ batch.alert \in BOOLEAN
      BY <1>0, <1>5 DEF WritesBatch, WaitingType
    <2>2. WriteOf(batch.uid, batch.host, "sniffer", batch.alert, 0) /\ UNCHANGED <<request, survivors, early>>
      BY <1>5 DEF WritesBatch, WriteOf
    <2>3. "sniffer" \in Sources /\ 0 \in Nat
      BY DEF Sources
    <2> QED BY <2>1, <2>2, <2>3, WriteGoes
  <1>6. ASSUME TrapWrites PROVE RowsInv'
    <2>1. trap.event.uid \in Nat /\ trap.event.host \in Remotes /\ trap.event.sid \in Nat
      BY <1>0, <1>6 DEF TrapWrites, WaitingType
    <2>2. /\ WriteOf(trap.event.uid, trap.event.host, "honeypot", TRUE, trap.event.sid)
          /\ UNCHANGED <<request, survivors, early>>
      BY <1>6 DEF TrapWrites, WriteOf
    <2>3. "honeypot" \in Sources /\ TRUE \in BOOLEAN
      BY DEF Sources
    <2> QED BY <2>1, <2>2, <2>3, WriteGoes
  <1>7. ASSUME RefreshWhitelist PROVE RowsInv'
    BY <1>7, RowsKept DEF RefreshWhitelist
  <1>8. ASSUME DayPasses PROVE RowsInv'
    BY <1>8, RowsKept DEF DayPasses
  <1>9. ASSUME SweepAges PROVE RowsInv'
    <2> DEFINE leaving == {id \in DOMAIN stored : Expired(id)}
    <2>1. /\ stored' = Without(stored, leaving) /\ UNCHANGED <<tags, last, request, excused, survivors>>
          /\ early' = early \cup {stored[id].uid : id \in {g \in leaving : stored[g].alert /\ ~Older(g, AlertDays)}}
      BY <1>9 DEF SweepAges
    <2>2. \A id \in leaving : stored[id].uid \in Nat
      BY <1>0 DEF PacketType, PacketRec
    <2>3. early' \subseteq Nat
      BY <1>t, <2>1, <2>2
    <2> HIDE DEF leaving
    <2> QED BY <1>t, <2>1, <2>3, RowsGo
  <1>10. ASSUME SweepOrphans PROVE RowsInv'
    <2> DEFINE S == {t \in Elems(tags) : t.pid \in DOMAIN stored}
    <2>1. tags' = Kept(tags, S) /\ UNCHANGED <<stored, last, request, excused, survivors, early>>
      BY <1>10 DEF SweepOrphans
    <2>2. S \subseteq Elems(tags) /\ \A t \in Elems(tags) \ S : t.pid \notin DOMAIN stored
      OBVIOUS
    <2> HIDE DEF S
    <2>3. Kept(tags, S) \in Seq(TagRec) /\ Elems(Kept(tags, S)) = S
      BY <1>t, <2>2, KeptElems
    <2>4. tags' \in Seq(TagRec) /\ Elems(tags') = S /\ stored' = Without(stored, {})
      BY <1>w, <2>1, <2>3
    <2> QED BY <1>t, <2>1, <2>2, <2>4, RowsGo
  <1>11. ASSUME SweepPackets PROVE RowsInv'
    <2>1. /\ stored' = Without(stored, Overflow(DOMAIN stored, PacketLimit))
          /\ UNCHANGED <<tags, last, request, excused, survivors, early>>
      BY <1>11 DEF SweepPackets
    <2> QED BY <1>t, <2>1, RowsGo
  <1>12. ASSUME SweepTags PROVE RowsInv'
    <2> DEFINE over == Overflow(DOMAIN tags, TagLimit)
               n == Cardinality(over)
    <2>1. /\ tags' = Drop(tags, n) /\ excused' = excused \cup {tags[i].uid : i \in over}
          /\ UNCHANGED <<stored, last, request, survivors, early>>
      BY <1>12 DEF SweepTags
    <2>2. n \in 0..Len(tags) /\ over = 1..n
      BY <1>t, OverflowFacts, RetentionAssumption
    <2> HIDE DEF over, n
    <2>3. /\ Drop(tags, n) \in Seq(TagRec) /\ Len(Drop(tags, n)) = Len(tags) - n
          /\ \A i \in 1..(Len(tags) - n) : Drop(tags, n)[i] = tags[n + i]
      BY <1>t, <2>2, DropFacts
    <2> DEFINE s == Drop(tags, n)
    <2>4. Elems(s) = {s[i] : i \in 1..Len(s)} /\ Elems(tags) = {tags[i] : i \in 1..Len(tags)}
      BY <1>t, <2>3, ElemsFacts
    <2> HIDE DEF s
    <2>5. Elems(s) \subseteq Elems(tags)
      BY <1>t, <2>2, <2>3, <2>4 DEF s
    <2>6. ASSUME NEW t \in Elems(tags) \ Elems(s) PROVE t.uid \in {tags[i].uid : i \in over}
      <3>1. PICK k \in 1..Len(tags) : t = tags[k]
        BY <2>4
      <3>2. CASE k <= n
        BY <1>t, <2>2, <3>1, <3>2
      <3>3. CASE k > n
        <4>1. k - n \in 1..(Len(tags) - n) /\ n + (k - n) = k
          BY <1>t, <2>2, <3>3
        <4>2. s[k - n] = tags[k] /\ k - n \in 1..Len(s)
          BY <2>3, <4>1 DEF s
        <4> QED BY <2>4, <3>1, <4>2
      <3> QED BY <1>t, <2>2, <3>2, <3>3
    <2>7. {tags[i].uid : i \in over} \subseteq Nat
      <3>1. \A i \in over : tags[i] \in TagRec
        BY <1>t, <2>2, <2>4
      <3> QED BY <3>1 DEF TagRec
    <2>8. /\ tags' = s /\ s \in Seq(TagRec) /\ stored' = Without(stored, {})
          /\ excused \subseteq excused' /\ excused' \subseteq Nat
          /\ \A t \in Elems(tags) \ Elems(s) : t.uid \in excused'
      BY <1>t, <1>w, <2>1, <2>3, <2>6, <2>7 DEF s
    <2> QED BY <1>t, <2>1, <2>5, <2>8, RowsGo
  <1>13. ASSUME SweepSessions PROVE RowsInv'
    BY <1>13, RowsKept DEF SweepSessions
  <1>14. ASSUME NEW id \in DOMAIN stored, NEW clean \in BOOLEAN, DeletePacket(id, clean) PROVE RowsInv'
    <2>1. /\ stored' = Without(stored, {id}) /\ UNCHANGED <<last, request, survivors, early>>
          /\ IF clean THEN DropTags({id}) ELSE UNCHANGED <<tags, excused>>
      BY <1>14 DEF DeletePacket, DropPackets, captureVars
    <2>2. CASE clean
      BY <1>t, <2>1, <2>2, TagsGo, RowsGo
    <2>3. CASE ~clean
      BY <1>t, <2>1, <2>3, RowsGo
    <2> QED BY <2>2, <2>3
  <1>15. ASSUME NEW id \in DOMAIN stored, CleanPacket(id) PROVE RowsInv'
    <2>1. DropTags({id}) /\ stored' = Without(stored, {}) /\ UNCHANGED <<last, request, survivors, early>>
      BY <1>w, <1>15 DEF CleanPacket, captureVars
    <2> QED BY <1>t, <2>1, TagsGo, RowsGo
  <1>16. ASSUME NEW id \in DOMAIN stored, ReviewReads(id) PROVE RowsInv'
    <2>1. /\ UNCHANGED <<stored, tags, last, excused, survivors, early>>
          /\ request'.id = id /\ request'.uid = stored[id].uid
      BY <1>16 DEF ReviewReads, captureVars
    <2>2. PacketType' /\ TagType' /\ AlertInv'
      BY <1>0, <2>1 DEF PacketType, TagType, AlertInv, IsTable
    <2>3. IdInv' /\ OwnerInv'
      BY <1>0, <2>1 DEF IdInv, OwnerInv
    <2> QED BY <2>2, <2>3 DEF RowsInv
  <1>17. ASSUME NEW scope, ClearDetections(scope) PROVE RowsInv'
    <2>1. /\ stored' = Without(stored, InScope(scope)) /\ DropTags(InScope(scope))
          /\ UNCHANGED <<last, request, survivors, early>>
      BY <1>17 DEF ClearDetections, DropPackets, captureVars
    <2> QED BY <1>t, <2>1, TagsGo, RowsGo
  <1>18. ASSUME NEW cleared, Purge(cleared) PROVE RowsInv'
    <2>1. /\ stored' = (IF "packets" \in cleared THEN Empty ELSE stored)
          /\ tags' = (IF "tags" \in cleared THEN <<>> ELSE tags)
          /\ excused' = (IF "tags" \in cleared THEN excused \cup {tags[i].uid : i \in DOMAIN tags} ELSE excused)
          /\ request' = None /\ UNCHANGED early
      BY <1>18 DEF Purge, Acts
    <2>2. DOMAIN Empty = {} /\ IsTable(Empty) /\ IsFiniteSet(DOMAIN Empty) /\ None.st = "none"
      BY FS_EmptySet DEF Empty, IsTable, None
    <2>3. <<>> \in Seq(TagRec) /\ Elems(<<>>) = {}
      BY EmptySeq, ElemsEmpty
    <2>4. {tags[i].uid : i \in DOMAIN tags} \subseteq Nat /\ \A t \in Elems(tags) : t.uid \in {tags[i].uid : i \in DOMAIN tags}
      <3>1. \A i \in DOMAIN tags : tags[i] \in TagRec
        BY <1>t, ElemsFacts
      <3>2. \A t \in Elems(tags) : \E i \in DOMAIN tags : t = tags[i]
        BY DEF Elems
      <3> QED BY <3>1, <3>2 DEF TagRec
    <2>5. /\ tags' \in Seq(TagRec) /\ Elems(tags') \subseteq Elems(tags)
          /\ excused \subseteq excused' /\ excused' \subseteq Nat
          /\ \A t \in Elems(tags) \ Elems(tags') : t.uid \in excused'
      BY <1>t, <2>1, <2>3, <2>4
    <2>6. /\ DOMAIN stored' \subseteq DOMAIN stored /\ \A id \in DOMAIN stored' : stored'[id] = stored[id]
          /\ PacketType'
      BY <1>0, <2>1, <2>2 DEF PacketType, IsTable
    <2>7. AlertInv'
      <3> SUFFICES ASSUME NEW id \in DOMAIN stored', stored'[id].alert, stored'[id].uid \notin excused'
                   PROVE  \E t \in Elems(tags') : t.pid = id /\ t.key = "alert" /\ t.uid = stored'[id].uid
        BY DEF AlertInv
      <3>1. id \in DOMAIN stored /\ stored[id].alert /\ stored[id].uid \notin excused
        BY <2>5, <2>6
      <3>2. PICK t \in Elems(tags) : t.pid = id /\ t.key = "alert" /\ t.uid = stored[id].uid
        BY <1>0, <3>1 DEF AlertInv
      <3> QED BY <2>5, <2>6, <3>2
    <2>8. CASE "sequence" \in cleared
      <3>1. survivors' = survivors \cup {stored'[id].uid : id \in DOMAIN stored'} \cup {tags'[i].uid : i \in DOMAIN tags'}
        BY <1>18, <2>8 DEF Purge
      <3>2. \A t \in Elems(tags') : t \in TagRec /\ t.uid \in survivors'
        <4>1. \A t \in Elems(tags') : \E i \in DOMAIN tags' : t = tags'[i]
          BY DEF Elems
        <4> QED BY <1>t, <2>5, <3>1, <4>1
      <3>3. \A i \in DOMAIN tags' : tags'[i] \in TagRec
        BY <2>5, ElemsFacts
      <3>4. survivors' \subseteq Nat
        <4>1. \A id \in DOMAIN stored' : stored'[id].uid \in Nat
          BY <2>6 DEF PacketType, PacketRec
        <4>2. \A i \in DOMAIN tags' : tags'[i].uid \in Nat
          BY <3>3 DEF TagRec
        <4>3. survivors \subseteq Nat
          BY <1>0 DEF TagType
        <4> QED BY <3>1, <4>1, <4>2, <4>3
      <3>5. TagType'
        BY <1>0, <2>1, <2>5, <3>4 DEF TagType
      <3>6. \A id \in DOMAIN stored' : stored'[id].uid \in survivors'
        BY <3>1
      <3>7. IdInv' /\ OwnerInv'
        BY <2>1, <2>2, <3>2, <3>6 DEF IdInv, OwnerInv
      <3> QED BY <2>6, <2>7, <3>5, <3>7 DEF RowsInv
    <2>9. CASE "sequence" \notin cleared
      <3>1. survivors' = survivors /\ last' = last
        BY <1>18, <2>9 DEF Purge
      <3>2. TagType'
        BY <1>0, <2>1, <2>5, <3>1 DEF TagType
      <3>3. IdInv' /\ OwnerInv'
        BY <1>0, <2>1, <2>2, <2>5, <2>6, <3>1 DEF IdInv, OwnerInv
      <3> QED BY <2>6, <2>7, <3>2, <3>3 DEF RowsInv
    <2> QED BY <2>8, <2>9
  <1>19. ASSUME NEW label \in BOOLEAN, ReviewWrites(label) PROVE RowsInv'
    BY <1>19, ReviewRows
  <1>20. ASSUME NEW sid \in DOMAIN sessions, ClearSessionReads(sid) PROVE RowsInv'
    <2>1. request'.st = "clean"
      BY <1>20 DEF ClearSessionReads
    <2> QED BY <1>20, <2>1, RowsKept DEF ClearSessionReads, captureVars
  <1>21. ASSUME NEW sid \in DOMAIN sessions, DeleteSession(sid) PROVE RowsInv'
    BY <1>21, RowsKept DEF DeleteSession, captureVars
  <1>22. ASSUME ClearSessionWrites PROVE RowsInv'
    <2> DEFINE X == {id \in DOMAIN stored : stored[id].sid = request.sid}
    <2>1. /\ stored' = Without(stored, X) /\ DropTags(request.ids) /\ UNCHANGED <<last, survivors, early>>
          /\ request'.st = "none"
      BY <1>22 DEF ClearSessionWrites, DropPackets, captureVars, None
    <2> HIDE DEF X
    <2> QED BY <1>t, <2>1, TagsGo, RowsGo
  <1>23. ASSUME CreateSession PROVE RowsInv'
    <2>1. last'.packets = last.packets
      BY <1>0, <1>23 DEF CreateSession
    <2> QED BY <1>23, <2>1, RowsKept DEF CreateSession
  <1>24. ASSUME PurgeIp PROVE RowsInv'
    <2> DEFINE X == {id \in DOMAIN stored : stored[id].host = request.host}
    <2>1. /\ stored' = Without(stored, X) /\ DropTags(X) /\ UNCHANGED <<last, survivors, early>>
          /\ request'.st = "none"
      BY <1>24 DEF PurgeIp, DropPackets, captureVars, None
    <2> HIDE DEF X
    <2> QED BY <1>t, <2>1, TagsGo, RowsGo
  <1>26. ASSUME SweepFails PROVE RowsInv'
    BY <1>26, RowsKept DEF SweepFails
  <1>25. ASSUME UNCHANGED retentionVars PROVE RowsInv'
    BY <1>25, RowsKept DEF retentionVars
  <1> QED BY <1>1, <1>2, <1>3, <1>4, <1>5, <1>6, <1>7, <1>8, <1>9, <1>10, <1>11, <1>12, <1>13, <1>14,
             <1>15, <1>16, <1>17, <1>18, <1>19, <1>20, <1>21, <1>22, <1>23, <1>24, <1>25, <1>26 DEF RetentionNext

\* The sessions keep their types.
LEMMA StepSessions ==
  ASSUME RetentionInv, [RetentionNext]_retentionVars PROVE SessionType'
  <1>0. /\ DOMAIN sessions \subseteq Nat /\ last \in [packets : Nat, sessions : Nat]
        /\ IsFiniteSet(DOMAIN sessions) /\ trap.mine \in Nat /\ trap.saved \in Nat /\ NextSession \in Nat
    BY NextSessionFacts DEF RetentionInv, RetentionTypeOK, SessionType
  <1>1. ASSUME NEW host \in Remotes, NEW alert \in BOOLEAN, EvaluatePacket(host, alert) PROVE SessionType'
    BY <1>1, <1>0 DEF EvaluatePacket, SessionType
  <1>2. ASSUME NEW host \in Remotes, TrapSession(host) PROVE SessionType'
    <2> DEFINE trapped == {sid \in {trap.mine, trap.saved} : sid \in DOMAIN sessions}
               sid == IF trap.mine \in trapped THEN trap.mine
                      ELSE IF trapped # {} THEN trap.saved ELSE NextSession
    <2>1. /\ sessions' = IF trapped # {} THEN sessions ELSE With(sessions, sid, "honeypot")
          /\ last' = [last EXCEPT !.sessions = Max({@, sid})]
          /\ trap'.mine = sid /\ trap'.saved = IF trapped # {} THEN trap.saved ELSE sid
      BY <1>2 DEF TrapSession
    <2>2. sid \in Nat
      BY <1>0
    <2> HIDE DEF trapped, sid
    <2>3. Max({last.sessions, sid}) \in Nat
      BY <1>0, <2>2, LargerOf
    <2>4. /\ DOMAIN With(sessions, sid, "honeypot") = DOMAIN sessions \cup {sid}
          /\ IsFiniteSet(DOMAIN With(sessions, sid, "honeypot"))
      BY <1>0, WithFacts
    <2>5. last' \in [packets : Nat, sessions : Nat]
      BY <1>0, <2>1, <2>3
    <2> QED BY <1>0, <2>1, <2>2, <2>4, <2>5 DEF SessionType
  <1>3. ASSUME NEW host \in Remotes, WhitelistIp(host) PROVE SessionType'
    BY <1>3, <1>0 DEF WhitelistIp, captureVars, SessionType
  <1>4. ASSUME NEW host \in Remotes, Unlist(host) PROVE SessionType'
    BY <1>4, <1>0 DEF Unlist, captureVars, SessionType
  <1>5. ASSUME WritesBatch PROVE SessionType'
    <2>1. batch.uid \in Nat /\ batch.host \in Remotes /\ batch.alert \in BOOLEAN
      BY <1>5 DEF WritesBatch, RetentionInv, RetentionTypeOK, WaitingType
    <2>2. WriteOf(batch.uid, batch.host, "sniffer", batch.alert, 0) /\ UNCHANGED <<request, survivors, early, trap>>
      BY <1>5 DEF WritesBatch, WriteOf
    <2>3. "sniffer" \in Sources /\ 0 \in Nat
      BY DEF Sources
    <2>4. /\ DOMAIN sessions' \subseteq Nat /\ IsFiniteSet(DOMAIN sessions')
          /\ last' \in [packets : Nat, sessions : Nat]
      BY <2>1, <2>2, <2>3, WriteGoes
    <2> QED BY <1>0, <2>2, <2>4 DEF SessionType
  <1>6. ASSUME TrapWrites PROVE SessionType'
    <2>1. trap.event.uid \in Nat /\ trap.event.host \in Remotes /\ trap.event.sid \in Nat
      BY <1>6 DEF TrapWrites, RetentionInv, RetentionTypeOK, WaitingType
    <2>2. /\ WriteOf(trap.event.uid, trap.event.host, "honeypot", TRUE, trap.event.sid)
          /\ UNCHANGED <<request, survivors, early>>
      BY <1>6 DEF TrapWrites, WriteOf
    <2>5. trap'.mine = trap.mine /\ trap'.saved = trap.saved
      BY <1>6 DEF TrapWrites
    <2>3. "honeypot" \in Sources /\ TRUE \in BOOLEAN
      BY DEF Sources
    <2>4. /\ DOMAIN sessions' \subseteq Nat /\ IsFiniteSet(DOMAIN sessions')
          /\ last' \in [packets : Nat, sessions : Nat]
      BY <2>1, <2>2, <2>3, WriteGoes
    <2> QED BY <1>0, <2>4, <2>5 DEF SessionType
  <1>7. ASSUME RefreshWhitelist PROVE SessionType'
    BY <1>7, <1>0 DEF RefreshWhitelist, SessionType
  <1>8. ASSUME DayPasses PROVE SessionType'
    BY <1>8, <1>0 DEF DayPasses, SessionType
  <1>9. ASSUME SweepAges PROVE SessionType'
    BY <1>9, <1>0 DEF SweepAges, SessionType
  <1>10. ASSUME SweepOrphans PROVE SessionType'
    BY <1>10, <1>0 DEF SweepOrphans, SessionType
  <1>11. ASSUME SweepPackets PROVE SessionType'
    BY <1>11, <1>0 DEF SweepPackets, SessionType
  <1>12. ASSUME SweepTags PROVE SessionType'
    BY <1>12, <1>0 DEF SweepTags, SessionType
  <1>13. ASSUME SweepSessions PROVE SessionType'
    <2>1. sessions' = Without(sessions, Overflow(DOMAIN sessions, SessionLimit)) /\ UNCHANGED <<last, trap>>
      BY <1>13 DEF SweepSessions, captureVars
    <2>2. /\ DOMAIN Without(sessions, Overflow(DOMAIN sessions, SessionLimit)) \subseteq DOMAIN sessions
          /\ IsFiniteSet(DOMAIN Without(sessions, Overflow(DOMAIN sessions, SessionLimit)))
      <3> DEFINE over == Overflow(DOMAIN sessions, SessionLimit)
      <3> HIDE DEF over
      <3>1. /\ DOMAIN Without(sessions, over) = DOMAIN sessions \ over
            /\ IsFiniteSet(DOMAIN Without(sessions, over))
        BY <1>0, WithoutFacts
      <3> QED BY <3>1 DEF over
    <2> QED BY <1>0, <2>1, <2>2 DEF SessionType
  <1>14. ASSUME NEW id \in DOMAIN stored, NEW clean \in BOOLEAN, DeletePacket(id, clean) PROVE SessionType'
    BY <1>14, <1>0 DEF DeletePacket, captureVars, SessionType
  <1>15. ASSUME NEW id \in DOMAIN stored, CleanPacket(id) PROVE SessionType'
    BY <1>15, <1>0 DEF CleanPacket, captureVars, SessionType
  <1>16. ASSUME NEW id \in DOMAIN stored, ReviewReads(id) PROVE SessionType'
    BY <1>16, <1>0 DEF ReviewReads, captureVars, SessionType
  <1>17. ASSUME NEW scope, ClearDetections(scope) PROVE SessionType'
    BY <1>17, <1>0 DEF ClearDetections, captureVars, SessionType
  <1>18. ASSUME NEW cleared, Purge(cleared) PROVE SessionType'
    <2>1. DOMAIN Empty = {} /\ IsFiniteSet(DOMAIN Empty)
      BY FS_EmptySet DEF Empty
    <2>2. /\ sessions' = (IF "sessions" \in cleared THEN Empty ELSE sessions) /\ UNCHANGED trap
          /\ last' = (IF "sequence" \in cleared THEN [packets |-> 0, sessions |-> 0] ELSE last)
      BY <1>18 DEF Purge
    <2>3. DOMAIN sessions' \subseteq Nat /\ IsFiniteSet(DOMAIN sessions') /\ last' \in [packets : Nat, sessions : Nat]
      BY <1>0, <2>1, <2>2
    <2> QED BY <1>0, <2>2, <2>3 DEF SessionType
  <1>19. ASSUME NEW label \in BOOLEAN, ReviewWrites(label) PROVE SessionType'
    BY <1>19, <1>0 DEF ReviewWrites, captureVars, SessionType
  <1>20. ASSUME NEW sid \in DOMAIN sessions, ClearSessionReads(sid) PROVE SessionType'
    BY <1>20, <1>0 DEF ClearSessionReads, captureVars, SessionType
  <1>21. ASSUME NEW sid \in DOMAIN sessions, DeleteSession(sid) PROVE SessionType'
    <2>1. sessions' = Without(sessions, {sid}) /\ UNCHANGED <<last, trap>>
      BY <1>21 DEF DeleteSession, captureVars
    <2>2. DOMAIN Without(sessions, {sid}) = DOMAIN sessions \ {sid}
      BY WithoutFacts
    <2>3. IsFiniteSet(DOMAIN Without(sessions, {sid}))
      BY <1>0, WithoutFacts
    <2> QED BY <1>0, <2>1, <2>2, <2>3 DEF SessionType
  <1>22. ASSUME ClearSessionWrites PROVE SessionType'
    BY <1>22, <1>0 DEF ClearSessionWrites, captureVars, SessionType
  <1>23. ASSUME CreateSession PROVE SessionType'
    <2>1. /\ last' = [last EXCEPT !.sessions = NextSession] /\ UNCHANGED trap
          /\ sessions' = With(sessions, NextSession, "operator")
      BY <1>23 DEF CreateSession
    <2>2. /\ DOMAIN With(sessions, NextSession, "operator") = DOMAIN sessions \cup {NextSession}
          /\ IsFiniteSet(DOMAIN With(sessions, NextSession, "operator"))
      BY <1>0, WithFacts
    <2>3. last' \in [packets : Nat, sessions : Nat]
      BY <1>0, <2>1
    <2> QED BY <1>0, <2>1, <2>2, <2>3 DEF SessionType
  <1>24. ASSUME PurgeIp PROVE SessionType'
    BY <1>24, <1>0 DEF PurgeIp, captureVars, SessionType
  <1>26. ASSUME SweepFails PROVE SessionType'
    BY <1>26, <1>0 DEF SweepFails, SessionType
  <1>25. ASSUME UNCHANGED retentionVars PROVE SessionType'
    BY <1>25, <1>0 DEF retentionVars, SessionType
  <1> QED BY <1>1, <1>2, <1>3, <1>4, <1>5, <1>6, <1>7, <1>8, <1>9, <1>10, <1>11, <1>12, <1>13, <1>14, 
             <1>15, <1>16, <1>17, <1>18, <1>19, <1>20, <1>21, <1>22, <1>23, <1>24, <1>25, <1>26
      DEF RetentionNext

\* So does what waits and what is counted.
LEMMA StepTypes ==
  ASSUME RetentionInv, [RetentionNext]_retentionVars PROVE WaitingType' /\ RequestType' /\ CountType'
  <1>0. WaitingType /\ RequestType /\ CountType /\ PacketType /\ SessionType
    BY DEF RetentionInv, RetentionTypeOK
  <1>1. ASSUME NEW host \in Remotes, NEW alert \in BOOLEAN, EvaluatePacket(host, alert) PROVE WaitingType' /\ RequestType' /\ CountType'
    BY <1>1, <1>0 DEF EvaluatePacket, WaitingType, RequestType, CountType, Arrives, None
  <1>2. ASSUME NEW host \in Remotes, TrapSession(host) PROVE WaitingType' /\ RequestType' /\ CountType'
    <2>1. trap'.event.st = "event" /\ trap'.event \in [st : {"event"}, uid : Nat, host : Remotes, sid : Nat]
      <3>1. \E sid \in Nat : trap'.event = [st |-> "event", uid |-> uids', host |-> host, sid |-> sid]
        <4> DEFINE trapped == {s \in {trap.mine, trap.saved} : s \in DOMAIN sessions}
                   sid == IF trap.mine \in trapped THEN trap.mine
                          ELSE IF trapped # {} THEN trap.saved ELSE NextSession
        <4>1. trap'.event = [st |-> "event", uid |-> uids', host |-> host, sid |-> sid]
          BY <1>2 DEF TrapSession
        <4>2. sid \in Nat
          BY <1>0, NextSessionFacts DEF SessionType
        <4> QED BY <4>1, <4>2
      <3>2. uids' \in Nat
        BY <1>2, <1>0 DEF TrapSession, Arrives, CountType
      <3> QED BY <3>1, <3>2
    <2> QED BY <1>2, <1>0, <2>1 DEF TrapSession, Arrives, WaitingType, RequestType, CountType
  <1>3. ASSUME NEW host \in Remotes, WhitelistIp(host) PROVE WaitingType' /\ RequestType' /\ CountType'
    BY <1>3, <1>0 DEF WhitelistIp, captureVars, WaitingType, RequestType, CountType, Acts, Turn, None
  <1>4. ASSUME NEW host \in Remotes, Unlist(host) PROVE WaitingType' /\ RequestType' /\ CountType'
    BY <1>4, <1>0 DEF Unlist, captureVars, WaitingType, RequestType, CountType, Acts, Turn, None
  <1>5. ASSUME WritesBatch PROVE WaitingType' /\ RequestType' /\ CountType'
    <2>1. batch.uid \in Nat /\ batch.host \in Remotes /\ batch.alert \in BOOLEAN
      BY <1>5, <1>0 DEF WritesBatch, WaitingType
    <2>2. WriteOf(batch.uid, batch.host, "sniffer", batch.alert, 0) /\ UNCHANGED <<request, survivors, early>>
      BY <1>5 DEF WritesBatch, WriteOf
    <2>3. "sniffer" \in Sources /\ 0 \in Nat
      BY DEF Sources
    <2>4. turns' \in Nat
      BY <2>1, <2>2, <2>3, WriteGoes
    <2> QED BY <1>5, <1>0, <2>4 DEF WritesBatch, WaitingType, RequestType, CountType, None
  <1>6. ASSUME TrapWrites PROVE WaitingType' /\ RequestType' /\ CountType'
    <2>1. trap.event.uid \in Nat /\ trap.event.host \in Remotes /\ trap.event.sid \in Nat
      BY <1>6, <1>0 DEF TrapWrites, WaitingType
    <2>2. /\ WriteOf(trap.event.uid, trap.event.host, "honeypot", TRUE, trap.event.sid)
          /\ UNCHANGED <<request, survivors, early>>
      BY <1>6 DEF TrapWrites, WriteOf
    <2>3. "honeypot" \in Sources /\ TRUE \in BOOLEAN
      BY DEF Sources
    <2>4. turns' \in Nat
      BY <2>1, <2>2, <2>3, WriteGoes
    <2> QED BY <1>6, <1>0, <2>4 DEF TrapWrites, WaitingType, RequestType, CountType, None
  <1>7. ASSUME RefreshWhitelist PROVE WaitingType' /\ RequestType' /\ CountType'
    BY <1>7, <1>0 DEF RefreshWhitelist, WaitingType, RequestType, CountType
  <1>8. ASSUME DayPasses PROVE WaitingType' /\ RequestType' /\ CountType'
    BY <1>8, <1>0 DEF DayPasses, WaitingType, RequestType, CountType
  <1>9. ASSUME SweepAges PROVE WaitingType' /\ RequestType' /\ CountType'
    BY <1>9, <1>0 DEF SweepAges, Turn, WaitingType, RequestType, CountType
  <1>10. ASSUME SweepOrphans PROVE WaitingType' /\ RequestType' /\ CountType'
    BY <1>10, <1>0 DEF SweepOrphans, WaitingType, RequestType, CountType
  <1>11. ASSUME SweepPackets PROVE WaitingType' /\ RequestType' /\ CountType'
    BY <1>11, <1>0 DEF SweepPackets, WaitingType, RequestType, CountType
  <1>12. ASSUME SweepTags PROVE WaitingType' /\ RequestType' /\ CountType'
    BY <1>12, <1>0 DEF SweepTags, WaitingType, RequestType, CountType
  <1>13. ASSUME SweepSessions PROVE WaitingType' /\ RequestType' /\ CountType'
    BY <1>13, <1>0 DEF SweepSessions, WaitingType, RequestType, CountType
  <1>14. ASSUME NEW id \in DOMAIN stored, NEW clean \in BOOLEAN, DeletePacket(id, clean) PROVE WaitingType' /\ RequestType' /\ CountType'
    BY <1>14, <1>0 DEF DeletePacket, captureVars, WaitingType, RequestType, CountType, Acts, Turn, None
  <1>15. ASSUME NEW id \in DOMAIN stored, CleanPacket(id) PROVE WaitingType' /\ RequestType' /\ CountType'
    BY <1>15, <1>0 DEF CleanPacket, captureVars, WaitingType, RequestType, CountType, Acts, Turn, None
  <1>16. ASSUME NEW id \in DOMAIN stored, ReviewReads(id) PROVE WaitingType' /\ RequestType' /\ CountType'
    <2>1. id \in Nat /\ stored[id].uid \in Nat
      BY <1>0 DEF PacketType, PacketRec
    <2>2. request' = [st |-> "review", id |-> id, uid |-> stored[id].uid]
      BY <1>16 DEF ReviewReads
    <2>3. RequestType'
      BY <2>1, <2>2 DEF RequestType
    <2> QED BY <1>16, <1>0, <2>3 DEF ReviewReads, captureVars, Acts, Turn, WaitingType, CountType
  <1>17. ASSUME NEW scope, ClearDetections(scope) PROVE WaitingType' /\ RequestType' /\ CountType'
    BY <1>17, <1>0 DEF ClearDetections, captureVars, WaitingType, RequestType, CountType, Acts, Turn, None
  <1>18. ASSUME NEW cleared, Purge(cleared) PROVE WaitingType' /\ RequestType' /\ CountType'
    BY <1>18, <1>0 DEF Purge, captureVars, WaitingType, RequestType, CountType, Acts, Turn, None
  <1>19. ASSUME NEW label \in BOOLEAN, ReviewWrites(label) PROVE WaitingType' /\ RequestType' /\ CountType'
    BY <1>19, <1>0 DEF ReviewWrites, captureVars, WaitingType, RequestType, CountType, Acts, Turn, None
  <1>20. ASSUME NEW sid \in DOMAIN sessions, ClearSessionReads(sid) PROVE WaitingType' /\ RequestType' /\ CountType'
    BY <1>20, <1>0 DEF ClearSessionReads, captureVars, WaitingType, RequestType, CountType, Acts, Turn, None
  <1>21. ASSUME NEW sid \in DOMAIN sessions, DeleteSession(sid) PROVE WaitingType' /\ RequestType' /\ CountType'
    BY <1>21, <1>0 DEF DeleteSession, captureVars, WaitingType, RequestType, CountType, Acts, Turn, None
  <1>22. ASSUME ClearSessionWrites PROVE WaitingType' /\ RequestType' /\ CountType'
    BY <1>22, <1>0 DEF ClearSessionWrites, captureVars, WaitingType, RequestType, CountType, Acts, Turn, None
  <1>23. ASSUME CreateSession PROVE WaitingType' /\ RequestType' /\ CountType'
    BY <1>23, <1>0 DEF CreateSession, captureVars, WaitingType, RequestType, CountType, Acts, Turn, None
  <1>24. ASSUME PurgeIp PROVE WaitingType' /\ RequestType' /\ CountType'
    BY <1>24, <1>0 DEF PurgeIp, captureVars, WaitingType, RequestType, CountType, Acts, Turn, None
  <1>26. ASSUME SweepFails PROVE WaitingType' /\ RequestType' /\ CountType'
    BY <1>26, <1>0 DEF SweepFails, Turn, WaitingType, RequestType, CountType
  <1>25. ASSUME UNCHANGED retentionVars PROVE WaitingType' /\ RequestType' /\ CountType'
    BY <1>25, <1>0 DEF retentionVars, WaitingType, RequestType, CountType
  <1> QED BY <1>1, <1>2, <1>3, <1>4, <1>5, <1>6, <1>7, <1>8, <1>9, <1>10, <1>11, <1>12, <1>13, <1>14, 
             <1>15, <1>16, <1>17, <1>18, <1>19, <1>20, <1>21, <1>22, <1>23, <1>24, <1>25, <1>26
      DEF RetentionNext

\* Age takes no alert early that still has its tag.
LEMMA StepAlerts ==
  ASSUME RetentionInv, [RetentionNext]_retentionVars PROVE AlertsOutlive'
  <1>0. AlertsOutlive
    BY DEF RetentionInv
  <1>1. ASSUME NEW host \in Remotes, NEW alert \in BOOLEAN, EvaluatePacket(host, alert) PROVE AlertsOutlive'
    BY <1>1, <1>0 DEF EvaluatePacket, AlertsOutlive
  <1>2. ASSUME NEW host \in Remotes, TrapSession(host) PROVE AlertsOutlive'
    BY <1>2, <1>0 DEF TrapSession, AlertsOutlive
  <1>3. ASSUME NEW host \in Remotes, WhitelistIp(host) PROVE AlertsOutlive'
    BY <1>3, <1>0 DEF WhitelistIp, captureVars, AlertsOutlive
  <1>4. ASSUME NEW host \in Remotes, Unlist(host) PROVE AlertsOutlive'
    BY <1>4, <1>0 DEF Unlist, captureVars, AlertsOutlive
  <1>5. ASSUME WritesBatch PROVE AlertsOutlive'
    <2>1. batch.uid \in Nat /\ batch.host \in Remotes /\ batch.alert \in BOOLEAN
      BY <1>5 DEF WritesBatch, RetentionInv, RetentionTypeOK, WaitingType
    <2>2. WriteOf(batch.uid, batch.host, "sniffer", batch.alert, 0) /\ UNCHANGED <<request, survivors, early>>
      BY <1>5 DEF WritesBatch, WriteOf
    <2>3. "sniffer" \in Sources /\ 0 \in Nat
      BY DEF Sources
    <2>4. excused \subseteq excused'
      BY <2>1, <2>2, <2>3, WriteGoes
    <2> QED BY <1>0, <2>2, <2>4 DEF AlertsOutlive
  <1>6. ASSUME TrapWrites PROVE AlertsOutlive'
    <2>1. trap.event.uid \in Nat /\ trap.event.host \in Remotes /\ trap.event.sid \in Nat
      BY <1>6 DEF TrapWrites, RetentionInv, RetentionTypeOK, WaitingType
    <2>2. /\ WriteOf(trap.event.uid, trap.event.host, "honeypot", TRUE, trap.event.sid)
          /\ UNCHANGED <<request, survivors, early>>
      BY <1>6 DEF TrapWrites, WriteOf
    <2>3. "honeypot" \in Sources /\ TRUE \in BOOLEAN
      BY DEF Sources
    <2>4. excused \subseteq excused'
      BY <2>1, <2>2, <2>3, WriteGoes
    <2> QED BY <1>0, <2>2, <2>4 DEF AlertsOutlive
  <1>7. ASSUME RefreshWhitelist PROVE AlertsOutlive'
    BY <1>7, <1>0 DEF RefreshWhitelist, AlertsOutlive
  <1>8. ASSUME DayPasses PROVE AlertsOutlive'
    BY <1>8, <1>0 DEF DayPasses, AlertsOutlive
  <1>9. ASSUME SweepAges PROVE AlertsOutlive'
    <2>1. \A id \in DOMAIN stored : Expired(id) /\ stored[id].alert /\ ~Older(id, AlertDays) =>
            stored[id].uid \in excused
      BY EarlyIsExcused
    <2> QED BY <1>9, <1>0, <2>1 DEF SweepAges, AlertsOutlive
  <1>10. ASSUME SweepOrphans PROVE AlertsOutlive'
    BY <1>10, <1>0 DEF SweepOrphans, AlertsOutlive
  <1>11. ASSUME SweepPackets PROVE AlertsOutlive'
    BY <1>11, <1>0 DEF SweepPackets, AlertsOutlive
  <1>12. ASSUME SweepTags PROVE AlertsOutlive'
    BY <1>12, <1>0 DEF SweepTags, AlertsOutlive
  <1>13. ASSUME SweepSessions PROVE AlertsOutlive'
    BY <1>13, <1>0 DEF SweepSessions, AlertsOutlive
  <1>14. ASSUME NEW id \in DOMAIN stored, NEW clean \in BOOLEAN, DeletePacket(id, clean) PROVE AlertsOutlive'
    BY <1>14, <1>0 DEF DeletePacket, captureVars, AlertsOutlive, DropTags
  <1>15. ASSUME NEW id \in DOMAIN stored, CleanPacket(id) PROVE AlertsOutlive'
    BY <1>15, <1>0 DEF CleanPacket, captureVars, AlertsOutlive, DropTags
  <1>16. ASSUME NEW id \in DOMAIN stored, ReviewReads(id) PROVE AlertsOutlive'
    BY <1>16, <1>0 DEF ReviewReads, captureVars, AlertsOutlive
  <1>17. ASSUME NEW scope, ClearDetections(scope) PROVE AlertsOutlive'
    BY <1>17, <1>0 DEF ClearDetections, captureVars, AlertsOutlive, DropTags
  <1>18. ASSUME NEW cleared, Purge(cleared) PROVE AlertsOutlive'
    BY <1>18, <1>0 DEF Purge, captureVars, AlertsOutlive
  <1>19. ASSUME NEW label \in BOOLEAN, ReviewWrites(label) PROVE AlertsOutlive'
    BY <1>19, <1>0 DEF ReviewWrites, captureVars, AlertsOutlive
  <1>20. ASSUME NEW sid \in DOMAIN sessions, ClearSessionReads(sid) PROVE AlertsOutlive'
    BY <1>20, <1>0 DEF ClearSessionReads, captureVars, AlertsOutlive
  <1>21. ASSUME NEW sid \in DOMAIN sessions, DeleteSession(sid) PROVE AlertsOutlive'
    BY <1>21, <1>0 DEF DeleteSession, captureVars, AlertsOutlive
  <1>22. ASSUME ClearSessionWrites PROVE AlertsOutlive'
    BY <1>22, <1>0 DEF ClearSessionWrites, captureVars, AlertsOutlive, DropTags
  <1>23. ASSUME CreateSession PROVE AlertsOutlive'
    BY <1>23, <1>0 DEF CreateSession, captureVars, AlertsOutlive
  <1>24. ASSUME PurgeIp PROVE AlertsOutlive'
    BY <1>24, <1>0 DEF PurgeIp, captureVars, AlertsOutlive, DropTags
  <1>26. ASSUME SweepFails PROVE AlertsOutlive'
    BY <1>26, <1>0 DEF SweepFails, AlertsOutlive
  <1>25. ASSUME UNCHANGED retentionVars PROVE AlertsOutlive'
    BY <1>25, <1>0 DEF retentionVars, AlertsOutlive
  <1> QED BY <1>1, <1>2, <1>3, <1>4, <1>5, <1>6, <1>7, <1>8, <1>9, <1>10, <1>11, <1>12, <1>13, <1>14, 
             <1>15, <1>16, <1>17, <1>18, <1>19, <1>20, <1>21, <1>22, <1>23, <1>24, <1>25, <1>26
      DEF RetentionNext

\* The invariant that the properties rest on: nobody has an id that was not given
\* out, but for what survived a reset; whoever names a packet by its id means that packet, and an alert has its
\* tag unless it is excused.
THEOREM RetentionInductive == RetentionSpec => []RetentionInv
  <1>1. RetentionInit => RetentionInv
    <2> SUFFICES ASSUME RetentionInit PROVE RetentionInv
      OBVIOUS
    <2>1. DOMAIN Empty = {} /\ IsTable(Empty) /\ IsFiniteSet(DOMAIN Empty) /\ None.st = "none"
      BY FS_EmptySet DEF Empty, IsTable, None
    <2>2. <<>> \in Seq(TagRec) /\ Elems(<<>>) = {}
      BY EmptySeq, ElemsEmpty
    <2>3. PacketType /\ TagType /\ SessionType
      BY <2>1, <2>2 DEF RetentionInit, PacketType, TagType, SessionType
    <2>4. WaitingType /\ RequestType /\ CountType
      BY <2>1 DEF RetentionInit, WaitingType, RequestType, CountType
    <2>5. IdInv /\ OwnerInv /\ AlertInv /\ AlertsOutlive
      BY <2>1, <2>2 DEF RetentionInit, IdInv, OwnerInv, AlertInv, AlertsOutlive
    <2> QED BY <2>3, <2>4, <2>5 DEF RetentionInv, RetentionTypeOK
  <1>2. RetentionInv /\ [RetentionNext]_retentionVars => RetentionInv'
    BY StepRows, StepSessions, StepTypes, StepAlerts DEF RetentionInv, RetentionTypeOK, RowsInv
  <1> QED BY <1>1, <1>2, PTL DEF RetentionSpec

\* Packets, tags, sessions and whatever waits to become one keep their types.
THEOREM RetentionTypeCorrect == RetentionSpec => []RetentionTypeOK
  <1>1. RetentionInv => RetentionTypeOK
    BY DEF RetentionInv
  <1> QED BY <1>1, RetentionInductive, PTL

\* A tag whose packet is there was made for that packet, whatever two processes
\* delete, sweep, review and purge meanwhile, unless a purge reset the ids over it.
THEOREM TagsBelongCorrect == RetentionSpec => []TagsBelong
  <1>1. RetentionInv => TagsBelong
    BY DEF RetentionInv, OwnerInv, TagsBelong, Elems
  <1> QED BY <1>1, RetentionInductive, PTL

\* An alert that age removes before its own time had lost its tag to an operator,
\* to the cap on tags or to a write that failed.
THEOREM AlertsOutliveCorrect == RetentionSpec => []AlertsOutlive
  <1>1. RetentionInv => AlertsOutlive
    BY DEF RetentionInv
  <1> QED BY <1>1, RetentionInductive, PTL

-----------------------------------------------------------------------------
(* Catalog. *)

MonitorRec == [src : {"builtin", "custom", "blacklist"}, def : Criteria, on : BOOLEAN, at : Nat]
Tables == UNION {[D -> MonitorRec] : D \in {E \in SUBSET Ids : IsFiniteSet(E)}}
Triples == Nat \X Int \X Nat
CallRec ==
  [st : {"idle"}] \cup [st : {"read"}, id : EntryIds, alone : BOOLEAN]
    \cup [st : {"sync"}, id : EntryIds, on : BOOLEAN, alone : BOOLEAN]
StartRec ==
  [pc : {"idle"}] \cup [pc : {"seed"}, release : Releases, then : Tables]
    \cup [pc : {"flag", "reset", "mark"}, release : Releases]
SnifferRec ==
  [rows : Tables, n : Nat, stamp : {<<>>} \cup Triples, begun : BOOLEAN, inflight : BOOLEAN,
   torn : BOOLEAN, lost : BOOLEAN, mixed : BOOLEAN]
RefreshRec ==
  [pc : {"idle"}] \cup [pc : {"list"}, read : Triples] \cup [pc : {"index", "publish", "keep"}, next : Tables, n : Nat]

RowType ==
  /\ monitors \in Tables
  /\ IsTable(entries) /\ \A id \in DOMAIN entries : id \in EntryIds /\ entries[id] \in BOOLEAN
  /\ call \in [Operators -> CallRec] /\ apart \subseteq EntryIds
StartType ==
  /\ starting \in [Starters -> StartRec]
  /\ flag \in BOOLEAN /\ reset \in BOOLEAN /\ doubled \in BOOLEAN
ViewType ==
  /\ sniffer \in SnifferRec /\ refresh \in [Refreshers -> RefreshRec] /\ loads \in Nat
  /\ index = [sig |-> index.sig, ref |-> index.ref, content |-> index.content]
  /\ index.ref \in Nat /\ (index.sig = <<>> \/ \E t \in Tables : index.sig = <<t>>)
DecisionType ==
  /\ IsTable(choice) /\ IsTable(mine) /\ overrun \subseteq Ids
  /\ \A id \in DOMAIN choice : choice[id] \in BOOLEAN
  /\ \A id \in DOMAIN mine : mine[id] \in [def : Criteria, on : BOOLEAN]
ClockType == second \in Nat /\ wrote \in Nat /\ blurred \in BOOLEAN /\ edits \in Nat /\ seeds \in Nat

CatalogTypeOK == RowType /\ StartType /\ ViewType /\ DecisionType /\ ClockType

\* The catalog says who wrote a monitor: what operators decided about it is kept by that.
DecisionInv ==
  /\ \A id \in DOMAIN choice :
       /\ id \in DOMAIN monitors /\ monitors[id].src = "builtin"
       /\ id \notin overrun => monitors[id].on = choice[id]
  /\ \A id \in DOMAIN mine :
       /\ id \in DOMAIN monitors /\ monitors[id].src = "custom"
       /\ monitors[id].def = mine[id].def /\ monitors[id].on = mine[id].on
  /\ \A id \in EntryIds \cap DOMAIN monitors : monitors[id].src = "blacklist"

\* Unless two starters met between the flag's two ends, one resets the switches and that one only once.
Resetting(s) == starting[s].pc \in {"reset", "mark"}
ResetInv ==
  ~doubled =>
    /\ \A s, q \in Starters : Resetting(s) /\ Resetting(q) => s = q
    /\ \A s \in Starters : starting[s].pc = "reset" => ~reset
    /\ reset /\ ~flag => \E s \in Starters : starting[s].pc = "mark"

\* A call that has its entry to itself finds it as it left it; all calls in an entry that is in step are such.
InsideInv ==
  \A id \in EntryIds, o \in Operators :
    o \in Inside(id) =>
      /\ call[o].alone => /\ Inside(id) = {o} /\ id \in DOMAIN entries
                          /\ call[o].st = "sync" => call[o].on = entries[id]
      /\ id \notin apart => call[o].alone

\* Nothing is written, and no stamp was read, that is later than the last change.
ClockInv ==
  /\ wrote <= second
  /\ \A id \in DOMAIN monitors : monitors[id].at <= wrote
  /\ sniffer.stamp # <<>> => sniffer.stamp[2] <= wrote
  /\ \A r \in Refreshers : refresh[r].pc = "list" => refresh[r].read[2] <= wrote

StampOf(rows) ==
  <<Cardinality(DOMAIN rows), Max({-1} \cup {rows[k].at : k \in DOMAIN rows}),
    Cardinality({k \in DOMAIN rows : rows[k].on})>>

\* The catalog comes from these rows by changes that were made after the last of them.
Follows(rows) ==
  \E w \in 0..wrote :
    /\ \A id \in DOMAIN rows : rows[id].at <= w
    /\ \A id \in DOMAIN monitors :
         monitors[id].at > w \/ (id \in DOMAIN rows /\ monitors[id] = rows[id])

\* The list the stamp stands for.
Stands(rows) == StampOf(rows) = sniffer.stamp /\ Follows(rows)
Taken(r) == refresh[r].pc \in {"index", "publish"}

\* The stamp is of the list that was loaded with it, or the catalog's has left it behind.
StampInv ==
  ~blurred /\ ~sniffer.mixed /\ ~sniffer.lost /\ sniffer.stamp # <<>> =>
    IF sniffer.torn THEN Stamp # sniffer.stamp
    ELSE /\ \A r \in Refreshers : Taken(r) => Stands(refresh[r].next)
         /\ (\A r \in Refreshers : ~Taken(r)) => Stands(sniffer.rows)

\* One refresh runs, unless they are mixed.
OneInv ==
  ~sniffer.mixed =>
    /\ \A q, r \in Refreshers : ~Resting(q) /\ ~Resting(r) => q = r
    /\ \A r \in Refreshers : refresh[r].pc = "keep" => refresh[r].next = sniffer.rows

\* A list is known by its number, everywhere it is held.
Holds(r) == refresh[r].pc \in {"index", "publish", "keep"}
NumberInv ==
  /\ sniffer.n <= loads /\ index.ref <= loads
  /\ index.sig # <<>> /\ index.ref = sniffer.n => index.sig = <<sniffer.rows>>
  /\ \A r \in Refreshers : Holds(r) =>
       /\ refresh[r].n <= loads
       /\ refresh[r].n = sniffer.n => refresh[r].next = sniffer.rows
       /\ index.sig # <<>> /\ refresh[r].n = index.ref => index.sig = <<refresh[r].next>>
  /\ \A q, r \in Refreshers :
       Holds(q) /\ Holds(r) /\ refresh[q].n = refresh[r].n => refresh[q].next = refresh[r].next

\* The automaton is the list's, or is still being built.
IndexInv ==
  IF index.sig = <<>> THEN building = {} /\ index.content = <<>>
  ELSE index.sig[1] \in building \/ index.content = <<ContentOf(index.sig[1])>>

CatalogInv ==
  /\ CatalogTypeOK /\ DecisionInv /\ ResetInv /\ InsideInv /\ MirrorInStep
  /\ ClockInv /\ StampInv /\ OneInv /\ NumberInv /\ IndexInv

\* What a table of monitors is made of.
LEMMA TableFacts ==
  ASSUME NEW t \in Tables
  PROVE  /\ IsTable(t) /\ DOMAIN t \subseteq Ids /\ IsFiniteSet(DOMAIN t)
         /\ \A k \in DOMAIN t : t[k] \in MonitorRec
  <1>1. PICK D \in {E \in SUBSET Ids : IsFiniteSet(E)} : t \in [D -> MonitorRec]
    BY DEF Tables
  <1> HIDE DEF MonitorRec
  <1>2. DOMAIN t = D /\ t = [k \in D |-> t[k]] /\ \A k \in D : t[k] \in MonitorRec
    BY <1>1
  <1> QED BY <1>1, <1>2 DEF IsTable

LEMMA TableIs ==
  ASSUME NEW t, IsTable(t), DOMAIN t \subseteq Ids, IsFiniteSet(DOMAIN t),
         \A k \in DOMAIN t : t[k] \in MonitorRec
  PROVE  t \in Tables
  <1> HIDE DEF MonitorRec
  <1>1. t \in [DOMAIN t -> MonitorRec]
    BY DEF IsTable
  <1> QED BY <1>1 DEF Tables

LEMMA NoTable == Nothing \in Tables /\ DOMAIN Nothing = {} /\ IsTable(Nothing)
  <1>1. DOMAIN Nothing = {} /\ IsTable(Nothing) /\ IsFiniteSet({})
    BY FS_EmptySet DEF Nothing, IsTable
  <1> QED BY <1>1, TableIs

LEMMA SetFacts ==
  ASSUME NEW f, NEW k, NEW v
  PROVE  /\ DOMAIN Set(f, k, v) = DOMAIN f \cup {k} /\ IsTable(Set(f, k, v))
         /\ Set(f, k, v)[k] = v /\ \A x \in DOMAIN f \ {k} : Set(f, k, v)[x] = f[x]
  BY DEF Set, IsTable

LEMMA OmitFacts ==
  ASSUME NEW f, NEW ks
  PROVE  /\ DOMAIN Omit(f, ks) = DOMAIN f \ ks /\ IsTable(Omit(f, ks))
         /\ \A x \in DOMAIN f \ ks : Omit(f, ks)[x] = f[x]
  BY DEF Omit, IsTable

LEMMA SetTable ==
  ASSUME NEW t \in Tables, NEW id \in Ids, NEW row \in MonitorRec
  PROVE  Set(t, id, row) \in Tables
  <1>1. /\ DOMAIN t \subseteq Ids /\ IsFiniteSet(DOMAIN t) /\ \A k \in DOMAIN t : t[k] \in MonitorRec
    BY TableFacts
  <1>2. IsFiniteSet(DOMAIN t \cup {id})
    BY <1>1, FS_AddElement
  <1> DEFINE g == Set(t, id, row)
  <1>3. /\ DOMAIN g = DOMAIN t \cup {id} /\ IsTable(g) /\ g[id] = row
        /\ \A x \in DOMAIN t \ {id} : g[x] = t[x]
    BY DEF Set, IsTable
  <1> HIDE DEF g, MonitorRec
  <1>4. \A k \in DOMAIN g : g[k] \in MonitorRec
    BY <1>1, <1>3
  <1>5. g \in Tables
    BY <1>1, <1>2, <1>3, <1>4, TableIs
  <1> QED BY <1>5 DEF g

LEMMA OmitTable ==
  ASSUME NEW t \in Tables, NEW X
  PROVE  Omit(t, X) \in Tables
  <1>1. /\ DOMAIN t \subseteq Ids /\ IsFiniteSet(DOMAIN t) /\ \A k \in DOMAIN t : t[k] \in MonitorRec
    BY TableFacts
  <1>2. IsFiniteSet(DOMAIN t \ X)
    BY <1>1, FS_Subset
  <1> DEFINE g == Omit(t, X)
  <1>3. /\ DOMAIN g = DOMAIN t \ X /\ IsTable(g) /\ \A x \in DOMAIN t \ X : g[x] = t[x]
    BY OmitFacts
  <1> HIDE DEF g, MonitorRec
  <1>4. g \in Tables
    BY <1>1, <1>2, <1>3, TableIs
  <1> QED BY <1>4 DEF g

\* The last of some numbers, -1 if there is none.
LEMMA LastOf ==
  ASSUME NEW T \in SUBSET Nat, NEW b \in Nat, \A x \in T : x <= b
  PROVE  /\ Max({-1} \cup T) \in Int /\ Max({-1} \cup T) <= b
         /\ \A x \in T : x <= Max({-1} \cup T)
  <1>1. \E x \in {-1} \cup T : \A y \in {-1} \cup T : x >= y
    <2>1. CASE T = {}
      BY <2>1
    <2>2. CASE T # {}
      <3> DEFINE B == {n \in Nat : \A x \in T : x <= n}
      <3>1. PICK n \in B : \A k \in B : n <= k
        <4>1. B \in SUBSET Nat /\ b \in B
          OBVIOUS
        <4> HIDE DEF B
        <4> QED BY <4>1, LeastNumber
      <3>2. n \in T
        <4> SUFFICES ASSUME n \notin T PROVE FALSE
          OBVIOUS
        <4>1. \A x \in T : x < n
          OBVIOUS
        <4>2. n - 1 \in Nat
          <5>1. PICK x \in T : TRUE
            BY <2>2
          <5>2. x \in Nat /\ x < n /\ n \in Nat
            BY <4>1, <3>1
          <5> HIDE DEF B
          <5> QED BY <5>2
        <4>3. n - 1 \in B
          BY <4>1, <4>2
        <4> QED BY <3>1, <4>3
      <3> QED BY <3>2
    <2> QED BY <2>1, <2>2
  <1> DEFINE m == CHOOSE x \in {-1} \cup T : \A y \in {-1} \cup T : x >= y
  <1>2. m \in {-1} \cup T /\ \A y \in {-1} \cup T : m >= y
    BY <1>1
  <1>3. Max({-1} \cup T) = m
    BY DEF Max
  <1> HIDE DEF m
  <1>4. m \in Int /\ m <= b /\ \A x \in T : x <= m
    <2>1. \A y \in T : y \in Int /\ y <= b
      OBVIOUS
    <2>2. -1 \in Int /\ -1 <= b
      OBVIOUS
    <2> QED BY <1>2, <2>1, <2>2
  <1> QED BY <1>3, <1>4

\* The stamp of a list that was last written by the time w.
LEMMA StampFacts ==
  ASSUME NEW t \in Tables, NEW w \in Nat, \A id \in DOMAIN t : t[id].at <= w
  PROVE  /\ StampOf(t) \in Nat \X Int \X Nat /\ StampOf(t)[1] = Cardinality(DOMAIN t)
         /\ StampOf(t)[2] \in Int /\ StampOf(t)[2] <= w
         /\ \A id \in DOMAIN t : t[id].at <= StampOf(t)[2]
  <1> DEFINE T == {t[k].at : k \in DOMAIN t}
             c == Cardinality(DOMAIN t)
             on == Cardinality({k \in DOMAIN t : t[k].on})
             m == Max({-1} \cup T)
  <1>1. IsFiniteSet(DOMAIN t) /\ \A k \in DOMAIN t : t[k].at \in Nat
    BY TableFacts DEF MonitorRec
  <1>2. c \in Nat /\ on \in Nat
    <2>1. {k \in DOMAIN t : t[k].on} \in SUBSET DOMAIN t
      OBVIOUS
    <2> QED BY <1>1, <2>1, FS_Subset, FS_CardinalityType
  <1>3. T \in SUBSET Nat /\ \A x \in T : x <= w
    BY <1>1
  <1>4. m \in Int /\ m <= w /\ \A x \in T : x <= m
    <2> HIDE DEF T
    <2> QED BY <1>3, LastOf
  <1>5. \A id \in DOMAIN t : t[id].at <= m
    <2> HIDE DEF m
    <2> QED BY <1>4
  <1>6. StampOf(t) = <<c, m, on>>
    BY DEF StampOf
  <1> HIDE DEF c, m, on, T
  <1>7. <<c, m, on>>[1] = c /\ <<c, m, on>>[2] = m /\ <<c, m, on>> \in Nat \X Int \X Nat
    BY <1>2, <1>4
  <1> QED BY <1>4, <1>5, <1>6, <1>7 DEF c

\* Of what comes from a list by later changes, the stamp tells whether it is that list.
LEMMA StampTells ==
  ASSUME NEW t \in Tables, NEW s \in Tables, NEW w \in Nat, NEW b \in Nat,
         \A id \in DOMAIN s : s[id].at <= w, \A id \in DOMAIN t : t[id].at <= b,
         \A id \in DOMAIN t : t[id].at > w \/ (id \in DOMAIN s /\ t[id] = s[id])
  PROVE  /\ StampOf(t) = StampOf(s) => t = s
         /\ \/ t = s \/ \E id \in DOMAIN t : t[id].at > StampOf(s)[2]
            \/ Cardinality(DOMAIN t) < StampOf(s)[1]
  <1>1. /\ StampOf(s)[1] = Cardinality(DOMAIN s) /\ StampOf(s)[2] \in Int /\ StampOf(s)[2] <= w
    BY StampFacts
  <1>2. /\ StampOf(t)[1] = Cardinality(DOMAIN t) /\ StampOf(t)[2] \in Int
        /\ \A id \in DOMAIN t : t[id].at <= StampOf(t)[2]
    BY StampFacts
  <1>3. /\ \A id \in DOMAIN t : t[id].at \in Nat
        /\ IsTable(t) /\ IsTable(s) /\ IsFiniteSet(DOMAIN s)
    BY TableFacts DEF MonitorRec
  <1>4. CASE \E id \in DOMAIN t : t[id].at > w
    <2>1. PICK id \in DOMAIN t : t[id].at > w
      BY <1>4
    <2>2. t[id].at > StampOf(s)[2] /\ StampOf(t)[2] > StampOf(s)[2]
      BY <1>1, <1>2, <1>3, <2>1
    <2> QED BY <1>1, <1>2, <2>2
  <1>5. CASE \A id \in DOMAIN t : ~(t[id].at > w)
    <2>1. DOMAIN t \subseteq DOMAIN s /\ \A id \in DOMAIN t : t[id] = s[id]
      BY <1>5
    <2>2. CASE DOMAIN t = DOMAIN s
      <3>1. [k \in DOMAIN t |-> t[k]] = [k \in DOMAIN s |-> s[k]]
        BY <2>1, <2>2
      <3> QED BY <1>3, <3>1 DEF IsTable
    <2>3. CASE DOMAIN t # DOMAIN s
      <3>1. Cardinality(DOMAIN t) < Cardinality(DOMAIN s)
        <4>1. /\ IsFiniteSet(DOMAIN t) /\ Cardinality(DOMAIN t) <= Cardinality(DOMAIN s)
              /\ Cardinality(DOMAIN t) = Cardinality(DOMAIN s) => DOMAIN t = DOMAIN s
          BY <1>3, <2>1, FS_Subset
        <4>2. Cardinality(DOMAIN t) \in Nat /\ Cardinality(DOMAIN s) \in Nat
          BY <1>3, <4>1, FS_CardinalityType
        <4> QED BY <2>3, <4>1, <4>2
      <3> QED BY <1>1, <1>2, <3>1, <1>3, FS_CardinalityType
    <2> QED BY <2>2, <2>3
  <1> QED BY <1>4, <1>5


\* The catalog follows itself.
LEMMA FollowsItself ==
  ASSUME CatalogInv PROVE Follows(monitors)
  <1>1. wrote \in 0..wrote /\ \A id \in DOMAIN monitors : monitors[id].at <= wrote
    BY DEF CatalogInv, CatalogTypeOK, ClockType, ClockInv
  <1> QED BY <1>1 DEF Follows

\* A list the catalog comes from by later changes is the catalog when the stamps agree.
LEMMA StampOfRead ==
  ASSUME CatalogInv, NEW rows \in Tables, Follows(rows), StampOf(monitors) = StampOf(rows)
  PROVE  monitors = rows
  <1>1. /\ monitors \in Tables /\ wrote \in Nat /\ \A id \in DOMAIN monitors : monitors[id].at <= wrote
    BY DEF CatalogInv, CatalogTypeOK, RowType, ClockType, ClockInv
  <1>2. PICK w \in 0..wrote :
          /\ \A id \in DOMAIN rows : rows[id].at <= w
          /\ \A id \in DOMAIN monitors :
               monitors[id].at > w \/ (id \in DOMAIN rows /\ monitors[id] = rows[id])
    BY DEF Follows
  <1>3. w \in Nat
    BY <1>1
  <1> QED BY <1>1, <1>2, <1>3, StampTells

\* What a step that only writes the catalog does to it: unless it blurs the stamp, every row is the one it was
\* or later than all before, and a torn list is left by a row, not by a deletion.
Moved ==
  /\ monitors' \in Tables /\ wrote' \in Nat /\ wrote <= wrote' /\ wrote' <= second'
  /\ \A id \in DOMAIN monitors' : monitors'[id].at <= wrote'
  /\ UNCHANGED <<sniffer, refresh>>
  /\ blurred => blurred'
  /\ ~blurred' =>
       /\ \A id \in DOMAIN monitors' :
            monitors'[id].at > wrote \/ (id \in DOMAIN monitors /\ monitors'[id] = monitors[id])
       /\ sniffer.torn => monitors' = monitors \/ \E id \in DOMAIN monitors' : monitors'[id].at > wrote

LEMMA FollowsMoved ==
  ASSUME CatalogInv, Moved, ~blurred', NEW rows, Follows(rows)
  PROVE  \E w \in 0..wrote' :
           /\ \A id \in DOMAIN rows : rows[id].at <= w
           /\ \A id \in DOMAIN monitors' :
                monitors'[id].at > w \/ (id \in DOMAIN rows /\ monitors'[id] = rows[id])
  <1>1. PICK w \in 0..wrote :
          /\ \A id \in DOMAIN rows : rows[id].at <= w
          /\ \A id \in DOMAIN monitors :
               monitors[id].at > w \/ (id \in DOMAIN rows /\ monitors[id] = rows[id])
    BY DEF Follows
  <1>2. /\ wrote \in Nat /\ wrote' \in Nat /\ wrote <= wrote'
        /\ \A id \in DOMAIN monitors' :
             monitors'[id].at > wrote \/ (id \in DOMAIN monitors /\ monitors'[id] = monitors[id])
    BY DEF CatalogInv, CatalogTypeOK, ClockType, Moved
  <1>3. \A id \in DOMAIN monitors' : monitors'[id].at \in Nat
    <2>1. monitors' \in Tables
      BY DEF Moved
    <2> QED BY <2>1, TableFacts DEF MonitorRec
  <1>4. w \in 0..wrote'
    BY <1>2
  <1>5. \A id \in DOMAIN monitors' :
          monitors'[id].at > w \/ (id \in DOMAIN rows /\ monitors'[id] = rows[id])
    BY <1>1, <1>2, <1>3
  <1> QED BY <1>1, <1>4, <1>5

\* The stamp stays behind a catalog that goes on.
LEMMA MovedOn ==
  ASSUME CatalogInv, Moved, ~blurred', sniffer.torn, sniffer.stamp # <<>>, Stamp # sniffer.stamp
  PROVE  StampOf(monitors') # sniffer.stamp
  <1>1. CASE monitors' = monitors
    BY <1>1 DEF Stamp, StampOf
  <1>2. CASE monitors' # monitors
    <2>1. PICK id \in DOMAIN monitors' : monitors'[id].at > wrote
      BY <1>2 DEF Moved
    <2>2. /\ monitors' \in Tables /\ wrote' \in Nat /\ \A k \in DOMAIN monitors' : monitors'[k].at <= wrote'
      BY DEF Moved
    <2>3. /\ monitors'[id].at <= StampOf(monitors')[2] /\ StampOf(monitors')[2] \in Int
      BY <2>2, StampFacts
    <2>4. monitors'[id].at \in Nat
      BY <2>2, TableFacts DEF MonitorRec
    <2>5. wrote \in Nat /\ sniffer.stamp[2] <= wrote
      BY DEF CatalogInv, CatalogTypeOK, ClockType, ClockInv
    <2>6. sniffer.stamp[2] \in Int
      <3>1. sniffer.stamp \in Triples
        BY DEF CatalogInv, CatalogTypeOK, ViewType, SnifferRec
      <3> QED BY <3>1 DEF Triples
    <2>7. StampOf(monitors')[2] > sniffer.stamp[2]
      BY <2>1, <2>3, <2>4, <2>5, <2>6
    <2> QED BY <2>3, <2>6, <2>7
  <1> QED BY <1>1, <1>2

LEMMA MovedRows ==
  ASSUME CatalogInv, Moved PROVE ClockInv' /\ StampInv' /\ OneInv'
  <1>1. wrote \in Nat /\ wrote' \in Nat /\ wrote <= wrote' /\ UNCHANGED <<sniffer, refresh>>
    BY DEF CatalogInv, CatalogTypeOK, ClockType, Moved
  <1>2. ClockInv'
    <2>1. sniffer.stamp # <<>> => sniffer.stamp[2] <= wrote'
      <3>1. sniffer.stamp # <<>> => sniffer.stamp[2] \in Int
        <4>1. sniffer.stamp # <<>> => sniffer.stamp \in Triples
          BY DEF CatalogInv, CatalogTypeOK, ViewType, SnifferRec
        <4> QED BY <4>1 DEF Triples
      <3> QED BY <1>1, <3>1 DEF CatalogInv, ClockInv
    <2>2. ASSUME NEW r \in Refreshers, refresh[r].pc = "list" PROVE refresh[r].read[2] <= wrote'
      <3>1. refresh[r] \in RefreshRec
        BY DEF CatalogInv, CatalogTypeOK, ViewType
      <3>2. refresh[r].read \in Triples
        BY <2>2, <3>1 DEF RefreshRec
      <3>3. refresh[r].read[2] \in Int
        BY <3>2 DEF Triples
      <3> QED BY <1>1, <2>2, <3>3 DEF CatalogInv, ClockInv
    <2> QED BY <1>1, <2>1, <2>2 DEF Moved, ClockInv
  <1>3. OneInv'
    BY <1>1 DEF CatalogInv, OneInv, Resting
  <1>4. ASSUME ~blurred', ~sniffer.mixed, ~sniffer.lost, sniffer.stamp # <<>> PROVE StampInv'
    <2>1. ~blurred /\ StampInv
      BY <1>4 DEF Moved, CatalogInv
    <2>2. CASE sniffer.torn
      <3>1. Stamp # sniffer.stamp
        BY <1>4, <2>1, <2>2 DEF StampInv
      <3>2. StampOf(monitors') # sniffer.stamp
        BY <1>4, <2>2, <3>1, MovedOn
      <3>3. Stamp' = StampOf(monitors')
        BY DEF Stamp, StampOf
      <3> QED BY <1>1, <2>2, <3>2, <3>3 DEF StampInv
    <2>3. CASE ~sniffer.torn
      <3>1. ASSUME NEW rows, Stands(rows) 
            PROVE  /\ StampOf(rows) = sniffer.stamp
                   /\ \E w \in 0..wrote' :
                        /\ \A id \in DOMAIN rows : rows[id].at <= w
                        /\ \A id \in DOMAIN monitors' :
                             monitors'[id].at > w \/ (id \in DOMAIN rows /\ monitors'[id] = rows[id])
        BY <1>4, <3>1, FollowsMoved DEF Stands
      <3>2. ASSUME NEW rows, Stands(rows) PROVE Stands(rows)'
        BY <1>1, <3>1, <3>2 DEF Stands, Follows, StampOf
      <3>3. ASSUME NEW r \in Refreshers, Taken(r)' PROVE Stands(refresh[r].next)'
        <4>1. PICK t : t = refresh[r].next
          OBVIOUS
        <4>2. Stands(t)
          BY <1>1, <1>4, <2>1, <2>3, <3>3, <4>1 DEF StampInv, Taken
        <4>3. Stands(t)'
          BY <4>2, <3>2
        <4> QED BY <1>1, <4>1, <4>3
      <3>4. ASSUME \A r \in Refreshers : ~Taken(r)' PROVE Stands(sniffer.rows)'
        <4>1. PICK t : t = sniffer.rows
          OBVIOUS
        <4>2. Stands(t)
          BY <1>1, <1>4, <2>1, <2>3, <3>4, <4>1 DEF StampInv, Taken
        <4>3. Stands(t)'
          BY <4>2, <3>2
        <4> QED BY <1>1, <4>1, <4>3
      <3> QED BY <1>1, <2>3, <3>3, <3>4 DEF StampInv
    <2> QED BY <2>2, <2>3
  <1>5. StampInv'
    BY <1>1, <1>4 DEF StampInv
  <1> QED BY <1>2, <1>3, <1>5

\* Nothing is written.
LEMMA QuietRows ==
  ASSUME CatalogInv, UNCHANGED <<monitors, wrote, blurred, sniffer, refresh>>, second' = second \/ second' = second + 1
  PROVE  Moved
  BY DEF CatalogInv, CatalogTypeOK, RowType, ClockType, ClockInv, Moved

\* Rows go; the stamp may go back with them, which a list that is torn does not survive.
LEMMA DroppedRows ==
  ASSUME CatalogInv, NEW X, monitors' = Omit(monitors, X), Unstamped, UNCHANGED <<second, sniffer, refresh>>
  PROVE  Moved
  <1>1. monitors \in Tables /\ wrote \in Nat /\ wrote <= second /\ \A id \in DOMAIN monitors : monitors[id].at <= wrote
    BY DEF CatalogInv, CatalogTypeOK, RowType, ClockType, ClockInv
  <1>2. Omit(monitors, X) \in Tables
    BY <1>1, OmitTable
  <1>3. \A id \in DOMAIN monitors' : id \in DOMAIN monitors /\ monitors'[id] = monitors[id]
    BY DEF Omit
  <1>4. wrote' = wrote /\ (blurred => blurred') /\ (~blurred' => ~sniffer.torn)
    BY DEF Unstamped
  <1> QED BY <1>1, <1>2, <1>3, <1>4 DEF Moved

\* The row a toggle writes.
LEMMA ToggledRow ==
  ASSUME NEW row \in MonitorRec, NEW on \in BOOLEAN, NEW at \in Nat
  PROVE  /\ Toggled(row, on, at) \in MonitorRec /\ Toggled(row, on, at).on = on /\ Toggled(row, on, at).at = at
         /\ Toggled(row, on, at).src = row.src /\ Toggled(row, on, at).def = row.def
  <1> DEFINE x == [row EXCEPT !.on = on]
  <1>1. /\ x \in MonitorRec /\ x.on = on /\ x.src = row.src /\ x.def = row.def
    BY DEF MonitorRec
  <1>2. Toggled(row, on, at) = [x EXCEPT !.at = at]
    BY DEF Toggled
  <1> HIDE DEF x
  <1> QED BY <1>1, <1>2 DEF MonitorRec

\* One row is written, with a second that is not in the future.
Writes(id, src, def, on) ==
  /\ monitors' \in Tables /\ DOMAIN monitors' = DOMAIN monitors \cup {id}
  /\ monitors'[id].src = src /\ monitors'[id].def = def /\ monitors'[id].on = on
  /\ monitors'[id].at \in Waited /\ Stamped(monitors'[id].at)
  /\ \A k \in DOMAIN monitors \ {id} : monitors'[k] = monitors[k]

LEMMA SetWrites ==
  ASSUME CatalogInv, NEW id \in Ids, NEW src \in {"custom", "builtin", "blacklist"},
         NEW def \in Criteria, NEW on \in BOOLEAN, NEW at \in Waited, Stamped(at),
         monitors' = Set(monitors, id, [src |-> src, def |-> def, on |-> on, at |-> at])
  PROVE  Writes(id, src, def, on)
  <1> DEFINE row == [src |-> src, def |-> def, on |-> on, at |-> at]
  <1>1. monitors \in Tables /\ row \in MonitorRec
    BY DEF CatalogInv, CatalogTypeOK, RowType, ClockType, MonitorRec, Waited
  <1>2. row.src = src /\ row.def = def /\ row.on = on /\ row.at = at
    OBVIOUS
  <1>3. monitors' = Set(monitors, id, row)
    OBVIOUS
  <1> HIDE DEF row
  <1>4. monitors' \in Tables
    BY <1>1, <1>3, SetTable
  <1>5. /\ DOMAIN monitors' = DOMAIN monitors \cup {id} /\ monitors'[id] = row
        /\ \A k \in DOMAIN monitors \ {id} : monitors'[k] = monitors[k]
    BY <1>3 DEF Set
  <1> QED BY <1>2, <1>4, <1>5 DEF Writes

LEMMA ToggleWrites ==
  ASSUME CatalogInv, NEW id \in Ids, NEW on \in BOOLEAN, ToggleMonitor(id, on)
  PROVE  /\ Writes(id, monitors[id].src, monitors[id].def, on)
         /\ id \in DOMAIN monitors /\ monitors[id].src # "blacklist"
  <1>0. /\ monitors \in Tables /\ second \in Nat /\ id \in DOMAIN monitors /\ monitors[id].src # "blacklist"
    BY DEF CatalogInv, CatalogTypeOK, RowType, ClockType, ToggleMonitor
  <1>1. PICK at \in Waited : monitors' = [monitors EXCEPT ![id] = Toggled(@, on, at)] /\ Stamped(at)
    BY DEF ToggleMonitor
  <1>2. /\ \A k \in DOMAIN monitors : monitors[k] \in MonitorRec
        /\ DOMAIN monitors \subseteq Ids /\ IsFiniteSet(DOMAIN monitors) /\ at \in Nat
    BY <1>0, TableFacts DEF Waited
  <1> DEFINE row == Toggled(monitors[id], on, at)
  <1>3. /\ row \in MonitorRec /\ row.on = on /\ row.at = at
        /\ row.src = monitors[id].src /\ row.def = monitors[id].def
    BY <1>0, <1>2, ToggledRow
  <1>4. monitors' = [monitors EXCEPT ![id] = row]
    BY <1>1
  <1> HIDE DEF row, MonitorRec
  <1>5. /\ DOMAIN monitors' = DOMAIN monitors /\ monitors'[id] = row
        /\ \A k \in DOMAIN monitors \ {id} : monitors'[k] = monitors[k]
    BY <1>0, <1>4
  <1>6. IsTable(monitors)'
    BY <1>4 DEF IsTable
  <1>7. \A k \in DOMAIN monitors' : monitors'[k] \in MonitorRec
    BY <1>2, <1>3, <1>5
  <1>8. \A t : IsTable(t) /\ DOMAIN t \subseteq Ids /\ IsFiniteSet(DOMAIN t)
                /\ (\A k \in DOMAIN t : t[k] \in MonitorRec) => t \in Tables
    BY TableIs
  <1>9. monitors' \in Tables
    BY <1>2, <1>5, <1>6, <1>7, <1>8 DEF IsTable
  <1> QED BY <1>0, <1>1, <1>3, <1>5, <1>9 DEF Writes

LEMMA SaveWrites ==
  ASSUME CatalogInv, NEW id \in CustomIds, NEW src \in {"custom", "builtin"}, NEW def \in Defs, NEW on \in BOOLEAN,
         SaveMonitor(id, src, def, on)
  PROVE  Writes(id, src, def, on)
  <1>1. id \in Ids /\ def \in Criteria
    BY DEF Ids, Defs
  <1>2. PICK at \in Waited :
          monitors' = Set(monitors, id, [src |-> src, def |-> def, on |-> on, at |-> at]) /\ Stamped(at)
    BY DEF SaveMonitor
  <1> QED BY <1>1, <1>2, SetWrites

LEMMA SyncWrites ==
  ASSUME CatalogInv, NEW o \in Operators, SyncMirror(o)
  PROVE  /\ call[o].id \in EntryIds /\ call[o].on \in BOOLEAN
         /\ Writes(call[o].id, "blacklist", Listed, call[o].on)
  <1>1. call[o] \in CallRec /\ call[o].st = "sync"
    BY DEF CatalogInv, CatalogTypeOK, RowType, SyncMirror
  <1>2. call[o].id \in EntryIds /\ call[o].on \in BOOLEAN
    BY <1>1 DEF CallRec
  <1>3. call[o].id \in Ids /\ Listed \in Criteria
    BY <1>2 DEF Ids, Listed, Criteria
  <1>4. PICK at \in Waited :
          /\ monitors' = Set(monitors, call[o].id, [src |-> "blacklist", def |-> Listed, on |-> call[o].on, at |-> at])
          /\ Stamped(at)
    BY DEF SyncMirror
  <1> QED BY <1>2, <1>3, <1>4, SetWrites

LEMMA WritesStamped ==
  ASSUME CatalogInv, NEW id, NEW src, NEW def, NEW on, Writes(id, src, def, on), UNCHANGED <<second, sniffer, refresh>>
  PROVE  Moved
  <1>1. PICK at : at = monitors'[id].at
    OBVIOUS
  <1>2. at \in 0..second /\ blurred' = (blurred \/ at <= wrote) /\ wrote' = Max({wrote, at})
    BY <1>1 DEF Writes, Stamped, Waited
  <1>3. /\ wrote \in Nat /\ second \in Nat /\ wrote <= second /\ \A k \in DOMAIN monitors : monitors[k].at <= wrote
    BY DEF CatalogInv, CatalogTypeOK, ClockType, ClockInv
  <1>4. at \in Nat /\ wrote' \in {wrote, at} /\ wrote' \in Nat /\ wrote' >= wrote /\ wrote' >= at
    BY <1>2, <1>3, LargerOf
  <1>5. wrote' <= second'
    BY <1>2, <1>3, <1>4
  <1>6. /\ monitors' \in Tables /\ DOMAIN monitors' = DOMAIN monitors \cup {id}
        /\ \A k \in DOMAIN monitors \ {id} : monitors'[k] = monitors[k]
    BY DEF Writes
  <1>7. \A k \in DOMAIN monitors : monitors[k].at \in Nat
    BY TableFacts DEF CatalogInv, CatalogTypeOK, RowType, MonitorRec
  <1>8. ASSUME NEW k \in DOMAIN monitors' PROVE monitors'[k].at <= wrote'
    <2>1. CASE k = id
      BY <1>1, <1>4, <2>1
    <2>2. CASE k # id
      BY <1>3, <1>4, <1>6, <1>7, <2>2
    <2> QED BY <2>1, <2>2
  <1>9. ASSUME ~blurred' PROVE at > wrote
    <2>1. ~(at <= wrote)
      BY <1>2, <1>9
    <2> QED BY <1>3, <1>4, <2>1
  <1>10. blurred => blurred'
    BY <1>2
  <1> QED BY <1>1, <1>4, <1>5, <1>6, <1>8, <1>9, <1>10 DEF Moved

\* A process seeds the catalog.
SameRow(k) == k \in DOMAIN monitors /\ monitors'[k] = monitors[k]
Gone == DOMAIN monitors \ DOMAIN monitors'
Seeds(at) ==
  /\ monitors' \in Tables
  /\ \A id \in DOMAIN monitors' :
       \/ /\ id \in DOMAIN monitors /\ monitors'[id].src = monitors[id].src
          /\ monitors'[id].on = monitors[id].on
          /\ monitors[id].src # "builtin" => monitors'[id] = monitors[id]
          /\ monitors'[id] = monitors[id] \/ monitors'[id].at = at
       \/ /\ id \in BuiltinIds \ DOMAIN monitors
          /\ monitors'[id].src = "builtin" /\ monitors'[id].at = at
  /\ \A id \in Gone : monitors[id].src = "builtin"
  /\ choice' = Omit(choice, Gone) /\ overrun' = overrun \ Gone
  /\ IF \A id \in DOMAIN monitors' : SameRow(id)
     THEN IF Gone = {} THEN UNCHANGED clockVars ELSE Unstamped
     ELSE wrote' = Max({wrote, at}) /\ blurred' = (blurred \/ at <= wrote \/ (Gone # {} /\ sniffer.torn))

LEMMA ReleaseFacts ==
  ASSUME NEW release \in Releases
  PROVE  /\ DOMAIN release \subseteq BuiltinIds
         /\ \A id \in DOMAIN release : release[id].def \in Criteria /\ release[id].on \in BOOLEAN
  <1> DEFINE Shipped == {def \in Defs : def.contains = {} \/ def.port = 0}
             Item == [def : Shipped, on : BOOLEAN]
  <1>1. PICK S \in SUBSET BuiltinIds : release \in [S -> Item]
    BY DEF Releases
  <1>2. \A x \in Item : x.def \in Criteria /\ x.on \in BOOLEAN
    BY DEF Defs
  <1> HIDE DEF Item
  <1>3. DOMAIN release = S /\ \A id \in S : release[id] \in Item
    BY <1>1
  <1> QED BY <1>2, <1>3

\* A row of a release, written with a second.
LEMMA DefinedRow ==
  ASSUME NEW row \in MonitorRec, NEW d \in Criteria, NEW at \in Nat
  PROVE  /\ [row EXCEPT !.def = d, !.at = at] \in MonitorRec
         /\ [row EXCEPT !.def = d, !.at = at].src = row.src
         /\ [row EXCEPT !.def = d, !.at = at].on = row.on
         /\ [row EXCEPT !.def = d, !.at = at].at = at
  <1> DEFINE x == [row EXCEPT !.def = d]
             y == [x EXCEPT !.at = at]
  <1>1. [row EXCEPT !.def = d, !.at = at] = y
    OBVIOUS
  <1>2. x \in MonitorRec /\ x.src = row.src /\ x.on = row.on
    BY DEF MonitorRec
  <1> HIDE DEF x
  <1>3. y \in MonitorRec /\ y.src = x.src /\ y.on = x.on /\ y.at = at
    BY <1>2 DEF MonitorRec
  <1> HIDE DEF y
  <1> QED BY <1>1, <1>2, <1>3

LEMMA SeededRow ==
  ASSUME CatalogInv, NEW release \in Releases, NEW then \in Tables, NEW id \in Ids, NEW at \in Nat
  PROVE  /\ id \in DOMAIN monitors =>
              /\ Seeded(release, then, id, at) \in MonitorRec
              /\ Seeded(release, then, id, at).src = monitors[id].src
              /\ Seeded(release, then, id, at).on = monitors[id].on
              /\ monitors[id].src # "builtin" => Seeded(release, then, id, at) = monitors[id]
              /\ Seeded(release, then, id, at) = monitors[id] \/ Seeded(release, then, id, at).at = at
         /\ id \notin DOMAIN monitors /\ id \in DOMAIN release =>
              /\ Seeded(release, then, id, at) \in MonitorRec /\ Seeded(release, then, id, at).src = "builtin"
              /\ Seeded(release, then, id, at).at = at
  <1>1. /\ \A k \in DOMAIN monitors : monitors[k] \in MonitorRec
        /\ \A k \in DOMAIN release : release[k].def \in Criteria /\ release[k].on \in BOOLEAN
    BY TableFacts, ReleaseFacts DEF CatalogInv, CatalogTypeOK, RowType
  <1>4. CASE id \in DOMAIN monitors
    <2>1. \/ Seeded(release, then, id, at) = monitors[id]
          \/ /\ monitors[id].src = "builtin" /\ id \in DOMAIN release
             /\ Seeded(release, then, id, at) = [monitors[id] EXCEPT !.def = release[id].def, !.at = at]
      BY <1>4 DEF Seeded
    <2>2. PICK row \in MonitorRec : row = monitors[id]
      BY <1>1, <1>4
    <2>3. CASE /\ monitors[id].src = "builtin" /\ id \in DOMAIN release
               /\ Seeded(release, then, id, at) = [monitors[id] EXCEPT !.def = release[id].def, !.at = at]
      <3>1. PICK d \in Criteria : d = release[id].def
        BY <1>1, <2>3
      <3>2. Seeded(release, then, id, at) = [row EXCEPT !.def = d, !.at = at]
        BY <2>2, <2>3, <3>1
      <3> HIDE DEF MonitorRec
      <3>3. PICK x : x = [row EXCEPT !.def = d, !.at = at]
        OBVIOUS
      <3>4. x \in MonitorRec /\ x.src = row.src /\ x.on = row.on /\ x.at = at
        BY <3>3, DefinedRow
      <3> QED BY <1>4, <2>2, <2>3, <3>2, <3>3, <3>4
    <2> HIDE DEF MonitorRec
    <2> QED BY <1>1, <1>4, <2>1, <2>3
  <1>5. CASE id \notin DOMAIN monitors
    <2>1. Seeded(release, then, id, at)
            = [src |-> "builtin", def |-> release[id].def, on |-> release[id].on, at |-> at]
      BY <1>5 DEF Seeded
    <2>2. ASSUME id \in DOMAIN release
          PROVE  [src |-> "builtin", def |-> release[id].def, on |-> release[id].on, at |-> at] \in MonitorRec
      BY <1>1, <2>2 DEF MonitorRec
    <2> QED BY <1>5, <2>1, <2>2
  <1> QED BY <1>4, <1>5

LEMMA SeedFacts ==
  ASSUME CatalogInv, NEW s \in Starters, SeedWrites(s) PROVE \E at \in Waited : Seeds(at)
  <1>1. PICK release \in Releases, then \in Tables : release = starting[s].release /\ then = starting[s].then
    <2>1. starting[s] \in StartRec /\ starting[s].pc = "seed"
      BY DEF CatalogInv, CatalogTypeOK, StartType, SeedWrites
    <2> QED BY <2>1 DEF StartRec
  <1> DEFINE leaving == {id \in DOMAIN monitors : /\ monitors[id].src = "builtin" /\ id \notin DOMAIN release
                                              /\ id \in DOMAIN then /\ then[id].src = "builtin"}
             new == DOMAIN release \ DOMAIN then
             D == (DOMAIN monitors \cup new) \ leaving
  <1>2. /\ \E at \in Waited :
             /\ monitors' = [id \in D |-> Seeded(release, then, id, at)]
             /\ IF \A id \in DOMAIN monitors' : SameRow(id)
                THEN IF leaving = {} THEN UNCHANGED clockVars ELSE Unstamped
                ELSE wrote' = Max({wrote, at}) /\ blurred' = (blurred \/ at <= wrote \/ (leaving # {} /\ sniffer.torn))
        /\ choice' = Omit(choice, leaving) /\ overrun' = overrun \ leaving
    BY <1>1 DEF SeedWrites, SameRow
  <1>3. PICK at \in Waited :
             /\ monitors' = [id \in D |-> Seeded(release, then, id, at)]
             /\ IF \A id \in DOMAIN monitors' : SameRow(id)
                THEN IF leaving = {} THEN UNCHANGED clockVars ELSE Unstamped
                ELSE wrote' = Max({wrote, at}) /\ blurred' = (blurred \/ at <= wrote \/ (leaving # {} /\ sniffer.torn))
    BY <1>2
  <1>4. at \in Nat
    BY DEF Waited, CatalogInv, CatalogTypeOK, ClockType
  <1>5. monitors \in Tables /\ DOMAIN monitors \subseteq Ids /\ IsFiniteSet(DOMAIN monitors)
    BY TableFacts DEF CatalogInv, CatalogTypeOK, RowType
  <1>6. DOMAIN release \subseteq BuiltinIds /\ IsFiniteSet(DOMAIN release)
    BY ReleaseFacts, CatalogAssumption, FS_Subset
  <1>7. /\ leaving \subseteq DOMAIN monitors /\ new \subseteq DOMAIN release
        /\ \A id \in leaving : monitors[id].src = "builtin"
        /\ leaving \cap new = {}
    OBVIOUS
  <1> HIDE DEF leaving, new
  <1>8. IsFiniteSet(D)
    <2>1. new \in SUBSET DOMAIN release
      BY <1>7
    <2>2. IsFiniteSet(new)
      BY <1>6, <2>1, FS_Subset
    <2>3. IsFiniteSet(DOMAIN monitors \cup new)
      BY <1>5, <2>2, FS_Union
    <2> QED BY <2>3, FS_Subset
  <1>9. D \subseteq Ids
    BY <1>5, <1>6, <1>7 DEF Ids
  <1>10. DOMAIN monitors \ D = leaving
    BY <1>7
  <1>11. \A id \in D \ DOMAIN monitors : id \in DOMAIN release
    BY <1>7
  <1> HIDE DEF D
  <1>12. /\ DOMAIN monitors' = D /\ \A id \in D : monitors'[id] = Seeded(release, then, id, at)
    BY <1>3
  <1>13. \A id \in D : monitors'[id] \in MonitorRec
    BY <1>4, <1>9, <1>11, <1>12, SeededRow
  <1>14. monitors' \in Tables
    <2> DEFINE t == [id \in D |-> Seeded(release, then, id, at)]
    <2>1. DOMAIN t = D /\ IsTable(t) /\ \A id \in D : t[id] = Seeded(release, then, id, at)
      BY DEF IsTable
    <2>2. \A id \in D : t[id] \in MonitorRec
      BY <1>12, <1>13, <2>1
    <2>3. monitors' = t
      BY <1>3
    <2> HIDE DEF t, MonitorRec
    <2>4. t \in Tables
      BY <1>8, <1>9, <2>1, <2>2, TableIs
    <2> QED BY <2>3, <2>4
  <1>15. ASSUME NEW id \in DOMAIN monitors'
         PROVE  \/ /\ id \in DOMAIN monitors /\ monitors'[id].src = monitors[id].src
                   /\ monitors'[id].on = monitors[id].on
                   /\ monitors[id].src # "builtin" => monitors'[id] = monitors[id]
                   /\ monitors'[id] = monitors[id] \/ monitors'[id].at = at
                \/ /\ id \in BuiltinIds \ DOMAIN monitors
                   /\ monitors'[id].src = "builtin" /\ monitors'[id].at = at
    <2>1. id \in D /\ id \in Ids /\ monitors'[id] = Seeded(release, then, id, at)
      BY <1>9, <1>12
    <2>2. CASE id \in DOMAIN monitors
      BY <1>4, <2>1, <2>2, SeededRow
    <2>3. CASE id \notin DOMAIN monitors
      BY <1>4, <1>6, <1>11, <2>1, <2>3, SeededRow
    <2> QED BY <2>2, <2>3
  <1>16. Gone = leaving
    BY <1>10, <1>12 DEF Gone
  <1>17. Seeds(at)
    BY <1>2, <1>3, <1>7, <1>14, <1>15, <1>16 DEF Seeds
  <1> QED BY <1>17

LEMMA SeedsStamped ==
  ASSUME CatalogInv, NEW at \in Waited, Seeds(at), UNCHANGED <<second, sniffer, refresh>> PROVE Moved
  <1>1. /\ wrote \in Nat /\ second \in Nat /\ at \in Nat /\ at <= second /\ wrote <= second
        /\ \A k \in DOMAIN monitors : monitors[k].at <= wrote /\ monitors[k].at \in Nat
    <2>1. \A id \in DOMAIN monitors : monitors[id].at \in Nat
      BY TableFacts DEF CatalogInv, CatalogTypeOK, RowType, MonitorRec
    <2> QED BY <2>1 DEF CatalogInv, CatalogTypeOK, ClockType, ClockInv, Waited
  <1>2. monitors' \in Tables
    BY DEF Seeds
  <1>3. CASE \A id \in DOMAIN monitors' : SameRow(id)
    <2>1. wrote' = wrote /\ (blurred => blurred')
      BY <1>3 DEF Seeds, clockVars, Unstamped
    <2>2. ASSUME ~blurred', sniffer.torn PROVE monitors' = monitors
      <3>1. Gone = {}
        BY <1>3, <2>2 DEF Seeds, Unstamped
      <3>2. DOMAIN monitors' = DOMAIN monitors /\ \A id \in DOMAIN monitors : monitors'[id] = monitors[id]
        BY <1>3, <3>1 DEF Gone, SameRow
      <3>3. IsTable(monitors') /\ IsTable(monitors)
        BY <1>2, TableFacts DEF CatalogInv, CatalogTypeOK, RowType
      <3>4. [k \in DOMAIN monitors' |-> monitors'[k]] = [k \in DOMAIN monitors |-> monitors[k]]
        BY <3>2
      <3> QED BY <3>3, <3>4 DEF IsTable
    <2> QED BY <1>1, <1>2, <1>3, <2>1, <2>2 DEF Moved, SameRow
  <1>4. CASE ~\A id \in DOMAIN monitors' : SameRow(id)
    <2>1. wrote' = Max({wrote, at}) /\ blurred' = (blurred \/ at <= wrote \/ (Gone # {} /\ sniffer.torn))
      BY <1>4 DEF Seeds
    <2>2. wrote' \in Nat /\ wrote' >= wrote /\ wrote' >= at /\ wrote' \in {wrote, at}
      BY <1>1, <2>1, LargerOf
    <2>3. \A id \in DOMAIN monitors' : monitors'[id].at = at \/ SameRow(id)
      BY DEF Seeds, SameRow
    <2>4. (blurred => blurred') /\ (~blurred' => at > wrote)
      <3>1. (blurred => blurred') /\ (~blurred' => ~(at <= wrote))
        BY <2>1
      <3> QED BY <1>1, <3>1
    <2>5. \E id \in DOMAIN monitors' : monitors'[id].at = at
      BY <1>4, <2>3
    <2>6. \A id \in DOMAIN monitors' : monitors'[id].at <= wrote'
      BY <1>1, <2>2, <2>3 DEF SameRow
    <2>7. wrote' <= second'
      BY <1>1, <2>2
    <2> QED BY <1>2, <2>2, <2>3, <2>4, <2>5, <2>6, <2>7 DEF Moved, SameRow
  <1> QED BY <1>3, <1>4

\* The reset writes the switches of shipped monitors, and nothing else of them.
Switches(s) ==
  /\ monitors' \in Tables /\ DOMAIN monitors' = DOMAIN monitors
  /\ \A id \in DOMAIN monitors :
       /\ monitors'[id].src = monitors[id].src /\ monitors'[id].at = monitors[id].at
       /\ monitors'[id] = monitors[id] \/ (monitors[id].src = "builtin" /\ id \in DOMAIN starting[s].release)

LEMMA ResetFacts ==
  ASSUME CatalogInv, NEW s \in Starters, Resets(s) PROVE Switches(s)
  <1>1. PICK release \in Releases : release = starting[s].release
    <2>1. starting[s] \in StartRec /\ starting[s].pc = "reset"
      BY DEF CatalogInv, CatalogTypeOK, StartType, Resets
    <2> QED BY <2>1 DEF StartRec
  <1> DEFINE shipped == {id \in DOMAIN monitors \cap DOMAIN release : monitors[id].src = "builtin"}
             New(id) == IF id \in shipped THEN [monitors[id] EXCEPT !.on = release[id].on] ELSE monitors[id]
             t == [id \in DOMAIN monitors |-> New(id)]
  <1>2. monitors' = t
    BY <1>1 DEF Resets
  <1>3. /\ IsTable(monitors) /\ DOMAIN monitors \subseteq Ids /\ IsFiniteSet(DOMAIN monitors)
        /\ \A k \in DOMAIN monitors : monitors[k] \in MonitorRec
    BY TableFacts DEF CatalogInv, CatalogTypeOK, RowType
  <1>4. ASSUME NEW id \in DOMAIN monitors
        PROVE  /\ New(id) \in MonitorRec /\ New(id).src = monitors[id].src /\ New(id).at = monitors[id].at
               /\ New(id) = monitors[id] \/ (monitors[id].src = "builtin" /\ id \in DOMAIN release)
    <2>1. CASE id \in shipped
      <3>1. PICK on \in BOOLEAN, row \in MonitorRec : on = release[id].on /\ row = monitors[id]
        BY <1>3, <2>1, ReleaseFacts
      <3>2. New(id) = [row EXCEPT !.on = on]
        BY <2>1, <3>1
      <3>3. [row EXCEPT !.on = on] \in MonitorRec /\ [row EXCEPT !.on = on].src = row.src /\ [row EXCEPT !.on = on].at = row.at
        BY DEF MonitorRec
      <3> QED BY <2>1, <3>1, <3>2, <3>3
    <2>2. CASE id \notin shipped
      BY <1>3, <2>2
    <2> QED BY <2>1, <2>2
  <1>5. IsTable(t) /\ DOMAIN t = DOMAIN monitors /\ \A id \in DOMAIN monitors : t[id] = New(id)
    BY DEF IsTable
  <1> HIDE DEF t, New, MonitorRec
  <1>6. t \in Tables
    <2>1. \A k \in DOMAIN t : t[k] \in MonitorRec
      BY <1>4, <1>5
    <2> QED BY <1>3, <1>5, <2>1, TableIs
  <1> QED BY <1>1, <1>2, <1>4, <1>5, <1>6 DEF Switches

LEMMA ResetMoves ==
  ASSUME CatalogInv, NEW s \in Starters, Resets(s) PROVE Moved
  <1>1. Switches(s)
    BY ResetFacts
  <1>2. wrote' = wrote /\ UNCHANGED <<second, sniffer, refresh>> /\ (blurred => blurred') /\ (~blurred' => monitors' = monitors)
    BY DEF Resets, sniffVars
  <1>3. wrote \in Nat /\ wrote <= second /\ \A id \in DOMAIN monitors : monitors[id].at <= wrote
    BY DEF CatalogInv, CatalogTypeOK, ClockType, ClockInv
  <1> QED BY <1>1, <1>2, <1>3 DEF Moved, Switches

-----------------------------------------------------------------------------
(* The refreshers. *)

\* What each of a refresher's steps does to the sniffer's record and to its own.
LEMMA OwnStep ==
  ASSUME CatalogInv, NEW r \in Refreshers, NEW x, refresh' = [refresh EXCEPT ![r] = x], x \in RefreshRec
  PROVE  /\ refresh' \in [Refreshers -> RefreshRec]
         /\ refresh'[r] = x /\ \A q \in Refreshers \ {r} : refresh'[q] = refresh[q]
  BY DEF CatalogInv, CatalogTypeOK, ViewType

LEMMA StampsFacts ==
  ASSUME CatalogInv, NEW r \in Refreshers, RefreshStamps(r)
  PROVE  /\ refresh' \in [Refreshers -> RefreshRec] /\ \A q \in Refreshers \ {r} : refresh'[q] = refresh[q]
         /\ refresh[r].pc = "idle"
         /\ \/ refresh'[r].pc = "list" /\ refresh'[r].read = Stamp
            \/ refresh'[r].pc = "keep" /\ refresh'[r].next = sniffer.rows /\ refresh'[r].n = sniffer.n
         /\ sniffer' \in SnifferRec
         /\ sniffer'.rows = sniffer.rows /\ sniffer'.n = sniffer.n /\ sniffer'.stamp = sniffer.stamp
         /\ sniffer'.torn = sniffer.torn /\ sniffer'.lost = sniffer.lost
         /\ ~sniffer'.mixed => ~sniffer.mixed /\ OthersRest(r)
  <1>1. sniffer \in SnifferRec /\ monitors \in Tables /\ \A id \in DOMAIN monitors : monitors[id].at <= wrote
    BY DEF CatalogInv, CatalogTypeOK, ViewType, RowType, ClockInv
  <1>2. PICK x : x = IF Stamp # sniffer.stamp THEN [pc |-> "list", read |-> Stamp]
                     ELSE [pc |-> "keep", next |-> sniffer.rows, n |-> sniffer.n]
    OBVIOUS
  <1>3. Stamp \in Triples
    <2>1. Stamp = StampOf(monitors) /\ wrote \in Nat
      BY DEF Stamp, StampOf, CatalogInv, CatalogTypeOK, ClockType
    <2> QED BY <1>1, <2>1, StampFacts DEF Triples
  <1>4. x \in RefreshRec
    <2>1. sniffer.rows \in Tables /\ sniffer.n \in Nat
      BY <1>1 DEF SnifferRec
    <2> QED BY <1>2, <1>3, <2>1 DEF RefreshRec
  <1>5. refresh' = [refresh EXCEPT ![r] = x]
    BY <1>2 DEF RefreshStamps
  <1>6. \/ x.pc = "list" /\ x.read = Stamp
        \/ x.pc = "keep" /\ x.next = sniffer.rows /\ x.n = sniffer.n
    BY <1>2
  <1>7. /\ refresh' \in [Refreshers -> RefreshRec]
        /\ refresh'[r] = x /\ \A q \in Refreshers \ {r} : refresh'[q] = refresh[q]
    BY <1>4, <1>5, OwnStep
  <1>8. PICK m \in BOOLEAN : m = (sniffer.mixed \/ ~OthersRest(r))
    OBVIOUS
  <1>9. sniffer' = [sniffer EXCEPT !.begun = TRUE, !.inflight = sniffer.begun, !.mixed = m]
    BY <1>8 DEF RefreshStamps, Begins
  <1>10. /\ sniffer' \in SnifferRec
         /\ sniffer'.rows = sniffer.rows /\ sniffer'.n = sniffer.n /\ sniffer'.stamp = sniffer.stamp
         /\ sniffer'.torn = sniffer.torn /\ sniffer'.lost = sniffer.lost /\ sniffer'.mixed = m
    <2> DEFINE y == [sniffer EXCEPT !.begun = TRUE]
               z == [y EXCEPT !.inflight = sniffer.begun]
    <2>1. /\ y \in SnifferRec /\ y.rows = sniffer.rows /\ y.n = sniffer.n /\ y.stamp = sniffer.stamp
          /\ y.torn = sniffer.torn /\ y.lost = sniffer.lost
      BY <1>1 DEF SnifferRec
    <2>2. sniffer.begun \in BOOLEAN
      BY <1>1 DEF SnifferRec
    <2>3. sniffer' = [z EXCEPT !.mixed = m]
      BY <1>9
    <2> HIDE DEF y
    <2>4. /\ z \in SnifferRec /\ z.rows = y.rows /\ z.n = y.n /\ z.stamp = y.stamp
          /\ z.torn = y.torn /\ z.lost = y.lost
      BY <2>1, <2>2 DEF SnifferRec
    <2> HIDE DEF z
    <2>5. /\ sniffer' \in SnifferRec /\ sniffer'.rows = z.rows /\ sniffer'.n = z.n /\ sniffer'.stamp = z.stamp
          /\ sniffer'.torn = z.torn /\ sniffer'.lost = z.lost /\ sniffer'.mixed = m
      BY <2>3, <2>4 DEF SnifferRec
    <2> QED BY <2>1, <2>4, <2>5
  <1>11. refresh[r].pc = "idle"
    BY DEF RefreshStamps, Begins, Resting
  <1> QED BY <1>6, <1>7, <1>8, <1>10, <1>11

LEMMA ListsFacts ==
  ASSUME CatalogInv, NEW r \in Refreshers, RefreshLists(r)
  PROVE  /\ refresh' \in [Refreshers -> RefreshRec] /\ \A q \in Refreshers \ {r} : refresh'[q] = refresh[q]
         /\ refresh[r].pc = "list"
         /\ refresh'[r].pc = "index" /\ refresh'[r].next = monitors /\ refresh'[r].n = loads + 1
         /\ sniffer' \in SnifferRec /\ sniffer'.rows = sniffer.rows /\ sniffer'.n = sniffer.n
         /\ sniffer'.stamp = refresh[r].read /\ (sniffer'.torn <=> Stamp # refresh[r].read)
         /\ ~sniffer'.mixed => OthersRest(r)
  <1>1. sniffer \in SnifferRec /\ monitors \in Tables /\ loads \in Nat /\ refresh[r] \in RefreshRec
    BY DEF CatalogInv, CatalogTypeOK, ViewType, RowType
  <1>2. PICK x : x = [pc |-> "index", next |-> monitors, n |-> loads + 1]
    OBVIOUS
  <1>3. x \in RefreshRec
    BY <1>1, <1>2 DEF RefreshRec
  <1>4. refresh' = [refresh EXCEPT ![r] = x] /\ refresh[r].pc = "list"
    BY <1>2 DEF RefreshLists
  <1>5. /\ refresh' \in [Refreshers -> RefreshRec]
        /\ refresh'[r] = x /\ \A q \in Refreshers \ {r} : refresh'[q] = refresh[q]
    BY <1>3, <1>4, OwnStep
  <1>6. PICK m \in BOOLEAN, t \in BOOLEAN : m = ~OthersRest(r) /\ t = (Stamp # refresh[r].read)
    OBVIOUS
  <1>7. PICK s \in Triples : s = refresh[r].read
    BY <1>1, <1>4 DEF RefreshRec
  <1>8. sniffer' = [sniffer EXCEPT !.stamp = s, !.torn = t, !.lost = FALSE, !.mixed = m]
    BY <1>6, <1>7 DEF RefreshLists
  <1>9. /\ sniffer' \in SnifferRec /\ sniffer'.rows = sniffer.rows /\ sniffer'.n = sniffer.n
        /\ sniffer'.stamp = s /\ sniffer'.torn = t /\ sniffer'.mixed = m
    <2> HIDE DEF Triples, Tables
    <2> DEFINE y == [sniffer EXCEPT !.stamp = s]
               z == [y EXCEPT !.torn = t]
               w == [z EXCEPT !.lost = FALSE]
    <2>1. y \in SnifferRec /\ y.rows = sniffer.rows /\ y.n = sniffer.n /\ y.stamp = s
      BY <1>1 DEF SnifferRec
    <2>2. sniffer' = [w EXCEPT !.mixed = m]
      BY <1>8
    <2> HIDE DEF y
    <2>3. z \in SnifferRec /\ z.rows = y.rows /\ z.n = y.n /\ z.stamp = y.stamp /\ z.torn = t
      BY <2>1 DEF SnifferRec
    <2> HIDE DEF z
    <2>4. w \in SnifferRec /\ w.rows = z.rows /\ w.n = z.n /\ w.stamp = z.stamp /\ w.torn = z.torn
      BY <2>3 DEF SnifferRec
    <2> HIDE DEF w
    <2>5. /\ sniffer' \in SnifferRec /\ sniffer'.rows = w.rows /\ sniffer'.n = w.n /\ sniffer'.stamp = w.stamp
          /\ sniffer'.torn = w.torn /\ sniffer'.mixed = m
      BY <2>2, <2>4 DEF SnifferRec
    <2> QED BY <2>1, <2>3, <2>4, <2>5
  <1> QED BY <1>2, <1>4, <1>5, <1>6, <1>7, <1>9

\* A refresh ends, with the list it publishes or without one.
EndsWith(r, rows, n) ==
  /\ refresh' \in [Refreshers -> RefreshRec] /\ \A q \in Refreshers \ {r} : refresh'[q] = refresh[q]
  /\ refresh'[r].pc = "idle"
  /\ sniffer' \in SnifferRec /\ sniffer'.rows = rows /\ sniffer'.n = n
  /\ sniffer'.stamp = sniffer.stamp /\ sniffer'.torn = sniffer.torn /\ sniffer'.mixed = sniffer.mixed

LEMMA IdleAgain ==
  ASSUME CatalogInv, NEW r \in Refreshers, refresh' = [refresh EXCEPT ![r] = [pc |-> "idle"]]
  PROVE  /\ refresh' \in [Refreshers -> RefreshRec] /\ \A q \in Refreshers \ {r} : refresh'[q] = refresh[q]
         /\ refresh'[r].pc = "idle"
  <1>1. PICK x : x = [pc |-> "idle"]
    OBVIOUS
  <1>2. x \in RefreshRec
    BY <1>1 DEF RefreshRec
  <1>3. refresh' = [refresh EXCEPT ![r] = x]
    BY <1>1
  <1>4. x.pc = "idle"
    BY <1>1
  <1>5. /\ refresh' \in [Refreshers -> RefreshRec]
        /\ refresh'[r] = x /\ \A q \in Refreshers \ {r} : refresh'[q] = refresh[q]
    BY <1>2, <1>3, OwnStep
  <1> QED BY <1>4, <1>5

LEMMA EndedIs ==
  ASSUME CatalogInv
  PROVE  /\ Ended \in SnifferRec /\ Ended.rows = sniffer.rows /\ Ended.n = sniffer.n /\ Ended.stamp = sniffer.stamp
         /\ Ended.torn = sniffer.torn /\ Ended.mixed = sniffer.mixed /\ Ended.lost = sniffer.lost
  <1>1. sniffer \in SnifferRec
    BY DEF CatalogInv, CatalogTypeOK, ViewType
  <1> QED BY <1>1 DEF Ended, SnifferRec

LEMMA FailsFacts ==
  ASSUME CatalogInv, NEW r \in Refreshers, RefreshFails(r)
  PROVE  /\ EndsWith(r, sniffer.rows, sniffer.n)
         /\ refresh[r].pc \in {"list", "index", "keep"}
         /\ ~sniffer'.lost => ~sniffer.lost /\ refresh[r].pc # "index"
  <1>1. PICK lost \in BOOLEAN : lost = (sniffer.lost \/ refresh[r].pc = "index")
    OBVIOUS
  <1>2. sniffer' = [Ended EXCEPT !.lost = lost]
    BY <1>1, EndedIs DEF RefreshFails
  <1>3. PICK e \in SnifferRec : e = Ended
    BY EndedIs
  <1>4. /\ e.rows = sniffer.rows /\ e.n = sniffer.n /\ e.stamp = sniffer.stamp
        /\ e.torn = sniffer.torn /\ e.mixed = sniffer.mixed
    BY <1>3, EndedIs
  <1>5. sniffer' = [e EXCEPT !.lost = lost]
    BY <1>2, <1>3
  <1>6. /\ sniffer' \in SnifferRec /\ sniffer'.rows = e.rows /\ sniffer'.n = e.n /\ sniffer'.stamp = e.stamp
        /\ sniffer'.torn = e.torn /\ sniffer'.mixed = e.mixed /\ sniffer'.lost = lost
    BY <1>5 DEF SnifferRec
  <1>7. refresh' = [refresh EXCEPT ![r] = [pc |-> "idle"]] /\ refresh[r].pc \in {"list", "index", "keep"}
    BY DEF RefreshFails
  <1>8. /\ refresh' \in [Refreshers -> RefreshRec] /\ \A q \in Refreshers \ {r} : refresh'[q] = refresh[q]
        /\ refresh'[r].pc = "idle"
    BY <1>7, IdleAgain
  <1> QED BY <1>1, <1>4, <1>6, <1>7, <1>8 DEF EndsWith

LEMMA PublishesFacts ==
  ASSUME CatalogInv, NEW r \in Refreshers, Publishes(r)
  PROVE  /\ EndsWith(r, refresh[r].next, refresh[r].n) /\ sniffer'.lost = sniffer.lost
         /\ refresh[r].pc \in {"publish", "keep"} /\ refresh[r].next \in Tables /\ refresh[r].n \in Nat
  <1>1. refresh[r] \in RefreshRec /\ refresh[r].pc \in {"publish", "keep"}
    BY DEF CatalogInv, CatalogTypeOK, ViewType, Publishes
  <1>2. PICK t \in Tables, n \in Nat : t = refresh[r].next /\ n = refresh[r].n
    BY <1>1 DEF RefreshRec
  <1>3. PICK e \in SnifferRec : e = Ended
    BY EndedIs
  <1>4. e.stamp = sniffer.stamp /\ e.torn = sniffer.torn /\ e.mixed = sniffer.mixed /\ e.lost = sniffer.lost
    BY <1>3, EndedIs
  <1>5. sniffer' = [e EXCEPT !.rows = t, !.n = n]
    BY <1>2, <1>3 DEF Publishes
  <1>6. /\ sniffer' \in SnifferRec /\ sniffer'.rows = t /\ sniffer'.n = n /\ sniffer'.stamp = e.stamp
        /\ sniffer'.torn = e.torn /\ sniffer'.mixed = e.mixed /\ sniffer'.lost = e.lost
    <2> HIDE DEF Tables, Triples
    <2> DEFINE y == [e EXCEPT !.rows = t]
    <2>1. /\ y \in SnifferRec /\ y.rows = t /\ y.stamp = e.stamp /\ y.torn = e.torn /\ y.mixed = e.mixed /\ y.lost = e.lost
      BY DEF SnifferRec
    <2>2. sniffer' = [y EXCEPT !.n = n]
      BY <1>5
    <2> HIDE DEF y
    <2>3. /\ sniffer' \in SnifferRec /\ sniffer'.rows = y.rows /\ sniffer'.n = n /\ sniffer'.stamp = y.stamp
          /\ sniffer'.torn = y.torn /\ sniffer'.mixed = y.mixed /\ sniffer'.lost = y.lost
      BY <2>1, <2>2 DEF SnifferRec
    <2> QED BY <2>1, <2>3
  <1>7. refresh' = [refresh EXCEPT ![r] = [pc |-> "idle"]]
    BY DEF Publishes
  <1>8. /\ refresh' \in [Refreshers -> RefreshRec] /\ \A q \in Refreshers \ {r} : refresh'[q] = refresh[q]
        /\ refresh'[r].pc = "idle"
    BY <1>7, IdleAgain
  <1> QED BY <1>1, <1>2, <1>4, <1>6, <1>8 DEF EndsWith

LEMMA IndexesFacts ==
  ASSUME CatalogInv, NEW r \in Refreshers, Indexes(r)
  PROVE  /\ refresh' \in [Refreshers -> RefreshRec] /\ \A q \in Refreshers \ {r} : refresh'[q] = refresh[q]
         /\ refresh[r].pc = "index" /\ refresh'[r].pc = "publish"
         /\ refresh'[r].next = refresh[r].next /\ refresh'[r].n = refresh[r].n
         /\ refresh[r].next \in Tables /\ refresh[r].n \in Nat /\ sniffer' = sniffer
  <1>1. refresh[r] \in RefreshRec /\ refresh[r].pc = "index" /\ refresh' = [refresh EXCEPT ![r].pc = "publish"]
        /\ sniffer' = sniffer
    BY DEF CatalogInv, CatalogTypeOK, ViewType, Indexes
  <1>2. PICK x : x = [refresh[r] EXCEPT !.pc = "publish"]
    OBVIOUS
  <1>3. PICK y : y = refresh[r]
    OBVIOUS
  <1>4. y \in [pc : {"index", "publish", "keep"}, next : Tables, n : Nat]
    BY <1>1, <1>3 DEF RefreshRec
  <1>5. /\ x \in [pc : {"index", "publish", "keep"}, next : Tables, n : Nat]
        /\ x.pc = "publish" /\ x.next = y.next /\ x.n = y.n
    BY <1>2, <1>3, <1>4
  <1>6. x \in RefreshRec
    BY <1>5 DEF RefreshRec
  <1>7. refresh' = [refresh EXCEPT ![r] = x]
    BY <1>1, <1>2
  <1>8. /\ refresh' \in [Refreshers -> RefreshRec]
        /\ refresh'[r] = x /\ \A q \in Refreshers \ {r} : refresh'[q] = refresh[q]
    BY <1>6, <1>7, OwnStep
  <1> QED BY <1>1, <1>3, <1>4, <1>5, <1>8

\* Through a step of a refresher the catalog is as it was.
Untouched == UNCHANGED <<monitors, wrote, second>>

LEMMA RefreshClock ==
  ASSUME CatalogInv, NEW r \in Refreshers, Untouched,
         \A q \in Refreshers \ {r} : refresh'[q] = refresh[q],
         refresh'[r].pc = "list" => refresh'[r].read = Stamp,
         sniffer'.stamp = sniffer.stamp \/ (refresh[r].pc = "list" /\ sniffer'.stamp = refresh[r].read)
  PROVE  ClockInv'
  <1>1. ClockInv
    BY DEF CatalogInv
  <1>2. Stamp[2] <= wrote
    <2>1. Stamp = StampOf(monitors) /\ wrote \in Nat /\ monitors \in Tables /\ \A id \in DOMAIN monitors : monitors[id].at <= wrote
      BY <1>1 DEF Stamp, StampOf, CatalogInv, CatalogTypeOK, ClockType, RowType, ClockInv
    <2> QED BY <2>1, StampFacts
  <1> QED BY <1>1, <1>2 DEF ClockInv, Untouched

\* What stands for a stamp still does when neither it nor the catalog changes.
LEMMA StillStands ==
  ASSUME Untouched, sniffer'.stamp = sniffer.stamp, NEW rows, Stands(rows) PROVE Stands(rows)'
  BY DEF Untouched, Stands, Follows, StampOf

LEMMA RefreshStampsKeeps ==
  ASSUME CatalogInv, NEW r \in Refreshers, RefreshStamps(r)
  PROVE  ViewType' /\ ClockInv' /\ StampInv' /\ OneInv' /\ NumberInv' /\ IndexInv'
  <1>1. /\ refresh' \in [Refreshers -> RefreshRec] /\ \A q \in Refreshers \ {r} : refresh'[q] = refresh[q]
        /\ refresh[r].pc = "idle"
        /\ \/ refresh'[r].pc = "list" /\ refresh'[r].read = Stamp
           \/ refresh'[r].pc = "keep" /\ refresh'[r].next = sniffer.rows /\ refresh'[r].n = sniffer.n
        /\ sniffer' \in SnifferRec
        /\ sniffer'.rows = sniffer.rows /\ sniffer'.n = sniffer.n /\ sniffer'.stamp = sniffer.stamp
        /\ sniffer'.torn = sniffer.torn /\ sniffer'.lost = sniffer.lost
        /\ ~sniffer'.mixed => ~sniffer.mixed /\ OthersRest(r)
    BY StampsFacts
  <1>2. UNCHANGED <<index, building, loads, blurred>> /\ Untouched
    BY DEF RefreshStamps, dbVars, Untouched
  <1>3. ViewType'
    BY <1>1, <1>2 DEF ViewType, CatalogInv, CatalogTypeOK
  <1>4. ClockInv'
    BY <1>1, <1>2, RefreshClock
  <1>5. OneInv'
    BY <1>1 DEF OneInv, OthersRest, Resting, CatalogInv
  <1>6. \A q \in Refreshers : Taken(q)' <=> Taken(q)
    BY <1>1 DEF Taken
  <1>7. StampInv'
    <2> SUFFICES ASSUME ~blurred', ~sniffer'.mixed, ~sniffer'.lost, sniffer'.stamp # <<>>
                 PROVE  IF sniffer'.torn THEN Stamp' # sniffer'.stamp
                        ELSE /\ \A q \in Refreshers : Taken(q)' => Stands(refresh[q].next)'
                             /\ (\A q \in Refreshers : ~Taken(q)') => Stands(sniffer.rows)'
      BY DEF StampInv
    <2>1. /\ sniffer.torn => Stamp # sniffer.stamp
          /\ ~sniffer.torn => /\ \A q \in Refreshers : Taken(q) => Stands(refresh[q].next)
                              /\ (\A q \in Refreshers : ~Taken(q)) => Stands(sniffer.rows)
      BY <1>1, <1>2 DEF StampInv, CatalogInv
    <2>2. Stamp' = Stamp
      BY <1>2 DEF Stamp, Untouched
    <2>3. ASSUME NEW q \in Refreshers, Taken(q)', ~sniffer.torn PROVE Stands(refresh[q].next)'
      <3>1. q # r /\ refresh'[q].next = refresh[q].next
        BY <1>1, <2>3 DEF Taken
      <3>2. PICK t : t = refresh[q].next
        OBVIOUS
      <3>3. Stands(t)
        BY <1>6, <2>1, <2>3, <3>2
      <3>4. Stands(t)'
        BY <1>1, <1>2, <3>3, StillStands
      <3> QED BY <3>1, <3>2, <3>4
    <2>4. ASSUME \A q \in Refreshers : ~Taken(q)', ~sniffer.torn PROVE Stands(sniffer.rows)'
      <3>1. PICK t : t = sniffer.rows
        OBVIOUS
      <3>2. Stands(t)
        BY <1>6, <2>1, <2>4, <3>1
      <3>3. Stands(t)'
        BY <1>1, <1>2, <3>2, StillStands
      <3> QED BY <1>1, <3>1, <3>3
    <2> QED BY <1>1, <2>1, <2>2, <2>3, <2>4
  <1>8. NumberInv'
    <2>1. NumberInv
      BY DEF CatalogInv
    <2> QED BY <1>1, <1>2, <2>1 DEF NumberInv, Holds
  <1>9. IndexInv'
    BY <1>2 DEF CatalogInv, IndexInv, ContentOf
  <1> QED BY <1>3, <1>4, <1>5, <1>7, <1>8, <1>9

LEMMA RefreshListsKeeps ==
  ASSUME CatalogInv, NEW r \in Refreshers, RefreshLists(r)
  PROVE  ViewType' /\ ClockInv' /\ StampInv' /\ OneInv' /\ NumberInv' /\ IndexInv'
  <1>1. /\ refresh' \in [Refreshers -> RefreshRec] /\ \A q \in Refreshers \ {r} : refresh'[q] = refresh[q]
        /\ refresh[r].pc = "list"
        /\ refresh'[r].pc = "index" /\ refresh'[r].next = monitors /\ refresh'[r].n = loads + 1
        /\ sniffer' \in SnifferRec /\ sniffer'.rows = sniffer.rows /\ sniffer'.n = sniffer.n
        /\ sniffer'.stamp = refresh[r].read /\ (sniffer'.torn <=> Stamp # refresh[r].read)
        /\ ~sniffer'.mixed => OthersRest(r)
    BY ListsFacts
  <1>2. UNCHANGED <<index, building>> /\ Untouched /\ loads' = loads + 1 /\ loads \in Nat
    BY DEF RefreshLists, dbVars, Untouched, CatalogInv, CatalogTypeOK, ViewType
  <1>3. ViewType'
    BY <1>1, <1>2 DEF ViewType, CatalogInv, CatalogTypeOK
  <1>4. ClockInv'
    BY <1>1, <1>2, RefreshClock
  <1>5. OneInv'
    BY <1>1 DEF OneInv, OthersRest, Resting
  <1>7. StampInv'
    <2>1. Stamp' = Stamp /\ Stamp = StampOf(monitors)
      BY <1>2 DEF Stamp, StampOf, Untouched
    <2>2. ASSUME ~sniffer'.torn PROVE Stands(monitors)'
      <3>1. StampOf(monitors') = sniffer'.stamp
        BY <1>1, <1>2, <2>1, <2>2 DEF Untouched
      <3>2. Follows(monitors)'
        BY <1>2, FollowsItself DEF Untouched, Follows
      <3>3. StampOf(monitors)' = StampOf(monitors')
        BY DEF StampOf
      <3> QED BY <3>1, <3>2, <3>3 DEF Stands
    <2>3. ASSUME NEW q \in Refreshers, Taken(q)', ~sniffer'.mixed PROVE refresh'[q].next = monitors'
      <3>1. q = r
        BY <1>1, <2>3 DEF Taken, OthersRest, Resting
      <3> QED BY <1>1, <1>2, <3>1 DEF Untouched
    <2>4. Taken(r)'
      BY <1>1 DEF Taken
    <2> QED BY <1>1, <2>1, <2>2, <2>3, <2>4 DEF StampInv
  <1>8. NumberInv'
    <2>1. NumberInv /\ index.ref \in Nat /\ sniffer.n \in Nat /\ \A q \in Refreshers : Holds(q) => refresh[q].n \in Nat
      <3>1. sniffer \in SnifferRec /\ index.ref \in Nat /\ refresh \in [Refreshers -> RefreshRec]
        BY DEF CatalogInv, CatalogTypeOK, ViewType
      <3>2. sniffer.n \in Nat
        BY <3>1 DEF SnifferRec
      <3>3. ASSUME NEW q \in Refreshers, Holds(q) PROVE refresh[q].n \in Nat
        BY <3>1, <3>3 DEF RefreshRec, Holds
      <3> QED BY <3>1, <3>2, <3>3 DEF CatalogInv
    <2>2. \A q \in Refreshers : Holds(q)' => q = r \/ (Holds(q) /\ refresh'[q] = refresh[q])
      BY <1>1 DEF Holds
    <2> QED BY <1>1, <1>2, <2>1, <2>2 DEF NumberInv
  <1>9. IndexInv'
    BY <1>2 DEF CatalogInv, IndexInv, ContentOf
  <1> QED BY <1>3, <1>4, <1>5, <1>7, <1>8, <1>9

LEMMA RefreshFailsKeeps ==
  ASSUME CatalogInv, NEW r \in Refreshers, RefreshFails(r)
  PROVE  ViewType' /\ ClockInv' /\ StampInv' /\ OneInv' /\ NumberInv' /\ IndexInv'
  <1>1. /\ refresh' \in [Refreshers -> RefreshRec] /\ \A q \in Refreshers \ {r} : refresh'[q] = refresh[q]
        /\ refresh[r].pc \in {"list", "index", "keep"} /\ refresh'[r].pc = "idle"
        /\ sniffer' \in SnifferRec /\ sniffer'.rows = sniffer.rows /\ sniffer'.n = sniffer.n
        /\ sniffer'.stamp = sniffer.stamp /\ sniffer'.torn = sniffer.torn /\ sniffer'.mixed = sniffer.mixed
        /\ ~sniffer'.lost => ~sniffer.lost /\ refresh[r].pc # "index"
    BY FailsFacts DEF EndsWith
  <1>2. UNCHANGED <<index, building, loads, blurred>> /\ Untouched
    BY DEF RefreshFails, dbVars, Untouched
  <1>3. ViewType'
    BY <1>1, <1>2 DEF ViewType, CatalogInv, CatalogTypeOK
  <1>4. ClockInv'
    BY <1>1, <1>2, RefreshClock
  <1>5. OneInv'
    BY <1>1 DEF OneInv, Resting, CatalogInv
  <1>7. StampInv'
    <2> SUFFICES ASSUME ~blurred', ~sniffer'.mixed, ~sniffer'.lost, sniffer'.stamp # <<>>
                 PROVE  IF sniffer'.torn THEN Stamp' # sniffer'.stamp
                        ELSE /\ \A q \in Refreshers : Taken(q)' => Stands(refresh[q].next)'
                             /\ (\A q \in Refreshers : ~Taken(q)') => Stands(sniffer.rows)'
      BY DEF StampInv
    <2>0. \A q \in Refreshers : Taken(q)' <=> Taken(q)
      BY <1>1 DEF Taken
    <2>1. /\ sniffer.torn => Stamp # sniffer.stamp
          /\ ~sniffer.torn => /\ \A q \in Refreshers : Taken(q) => Stands(refresh[q].next)
                              /\ (\A q \in Refreshers : ~Taken(q)) => Stands(sniffer.rows)
      BY <1>1, <1>2 DEF StampInv, CatalogInv
    <2>2. Stamp' = Stamp
      BY <1>2 DEF Stamp, Untouched
    <2>3. ASSUME NEW q \in Refreshers, Taken(q)', ~sniffer.torn PROVE Stands(refresh[q].next)'
      <3>1. q # r /\ refresh'[q].next = refresh[q].next
        BY <1>1, <2>3 DEF Taken
      <3>2. PICK t : t = refresh[q].next
        OBVIOUS
      <3>3. Stands(t)
        BY <2>0, <2>1, <2>3, <3>2
      <3>4. Stands(t)'
        BY <1>1, <1>2, <3>3, StillStands
      <3> QED BY <3>1, <3>2, <3>4
    <2>4. ASSUME \A q \in Refreshers : ~Taken(q)', ~sniffer.torn PROVE Stands(sniffer.rows)'
      <3>1. PICK t : t = sniffer.rows
        OBVIOUS
      <3>2. Stands(t)
        BY <2>0, <2>1, <2>4, <3>1
      <3>3. Stands(t)'
        BY <1>1, <1>2, <3>2, StillStands
      <3> QED BY <1>1, <3>1, <3>3
    <2> QED BY <1>1, <2>1, <2>2, <2>3, <2>4
  <1>8. NumberInv'
    <2>1. NumberInv
      BY DEF CatalogInv
    <2> QED BY <1>1, <1>2, <2>1 DEF NumberInv, Holds
  <1>9. IndexInv'
    BY <1>2 DEF CatalogInv, IndexInv, ContentOf
  <1> QED BY <1>3, <1>4, <1>5, <1>7, <1>8, <1>9

LEMMA IndexesKeeps ==
  ASSUME CatalogInv, NEW r \in Refreshers, Indexes(r)
  PROVE  ViewType' /\ ClockInv' /\ StampInv' /\ OneInv' /\ NumberInv' /\ IndexInv'
  <1>1. /\ refresh' \in [Refreshers -> RefreshRec] /\ \A q \in Refreshers \ {r} : refresh'[q] = refresh[q]
        /\ refresh[r].pc = "index" /\ refresh'[r].pc = "publish"
        /\ refresh'[r].next = refresh[r].next /\ refresh'[r].n = refresh[r].n
        /\ refresh[r].next \in Tables /\ refresh[r].n \in Nat /\ sniffer' = sniffer
    BY IndexesFacts
  <1>2. UNCHANGED <<loads, blurred>> /\ Untouched
    BY DEF Indexes, dbVars, Untouched
  <1>3. PICK t \in Tables, n \in Nat : t = refresh[r].next /\ n = refresh[r].n
    BY <1>1
  <1>4. /\ index' = [index EXCEPT !.sig = <<t>>, !.ref = n]
        /\ building' = IF index.sig = <<t>> THEN building ELSE building \cup {t}
    BY <1>3 DEF Indexes
  <1>5. /\ index'.sig = <<t>> /\ index'.ref = n /\ index'.content = index.content
        /\ index' = [sig |-> index'.sig, ref |-> index'.ref, content |-> index'.content]
    <2>1. index = [sig |-> index.sig, ref |-> index.ref, content |-> index.content]
      BY DEF CatalogInv, CatalogTypeOK, ViewType
    <2> QED BY <1>4, <2>1
  <1>6. ViewType'
    BY <1>1, <1>2, <1>5 DEF ViewType, CatalogInv, CatalogTypeOK
  <1>7. ClockInv'
    BY <1>1, <1>2, RefreshClock
  <1>8. OneInv'
    BY <1>1 DEF OneInv, Resting, CatalogInv
  <1>9. StampInv'
    <2> SUFFICES ASSUME ~blurred', ~sniffer'.mixed, ~sniffer'.lost, sniffer'.stamp # <<>>
                 PROVE  IF sniffer'.torn THEN Stamp' # sniffer'.stamp
                        ELSE /\ \A q \in Refreshers : Taken(q)' => Stands(refresh[q].next)'
                             /\ (\A q \in Refreshers : ~Taken(q)') => Stands(sniffer.rows)'
      BY DEF StampInv
    <2>0. \A q \in Refreshers : (Taken(q)' <=> Taken(q)) /\ (Taken(q) => refresh'[q].next = refresh[q].next)
      BY <1>1 DEF Taken
    <2>1. /\ sniffer.torn => Stamp # sniffer.stamp
          /\ ~sniffer.torn => /\ \A q \in Refreshers : Taken(q) => Stands(refresh[q].next)
                              /\ (\A q \in Refreshers : ~Taken(q)) => Stands(sniffer.rows)
      BY <1>1, <1>2 DEF StampInv, CatalogInv
    <2>2. Stamp' = Stamp
      BY <1>2 DEF Stamp, Untouched
    <2>3. ASSUME NEW q \in Refreshers, Taken(q)', ~sniffer.torn PROVE Stands(refresh[q].next)'
      <3>1. refresh'[q].next = refresh[q].next
        BY <2>0, <2>3
      <3>2. PICK u : u = refresh[q].next
        OBVIOUS
      <3>3. Stands(u)
        BY <2>0, <2>1, <2>3, <3>2
      <3>4. Stands(u)'
        BY <1>1, <1>2, <3>3, StillStands
      <3> QED BY <3>1, <3>2, <3>4
    <2>4. ~\A q \in Refreshers : ~Taken(q)'
      BY <1>1 DEF Taken
    <2> QED BY <1>1, <2>1, <2>2, <2>3, <2>4
  <1>10. NumberInv'
    <2>1. NumberInv
      BY DEF CatalogInv
    <2>2. /\ \A q \in Refreshers : /\ Holds(q)' <=> Holds(q)
                                   /\ Holds(q) => refresh'[q].n = refresh[q].n /\ refresh'[q].next = refresh[q].next
          /\ Holds(r)
      BY <1>1 DEF Holds
    <2>3. /\ n <= loads /\ (n = sniffer.n => t = sniffer.rows)
          /\ \A q \in Refreshers : Holds(q) /\ refresh[q].n = n => refresh[q].next = t
      BY <1>3, <2>1, <2>2 DEF NumberInv
    <2> QED BY <1>1, <1>2, <1>5, <2>1, <2>2, <2>3 DEF NumberInv
  <1>11. IndexInv'
    <2>1. <<t>>[1] = t /\ <<t>> # <<>>
      OBVIOUS
    <2>2. t \in building' \/ index'.content = <<ContentOf(t)>>
      BY <1>4, <1>5, <2>1 DEF IndexInv, CatalogInv
    <2> QED BY <1>5, <2>1, <2>2 DEF IndexInv, ContentOf
  <1> QED BY <1>6, <1>7, <1>8, <1>9, <1>10, <1>11

LEMMA PublishesKeeps ==
  ASSUME CatalogInv, NEW r \in Refreshers, Publishes(r)
  PROVE  ViewType' /\ ClockInv' /\ StampInv' /\ OneInv' /\ NumberInv' /\ IndexInv'
  <1>1. /\ refresh' \in [Refreshers -> RefreshRec] /\ \A q \in Refreshers \ {r} : refresh'[q] = refresh[q]
        /\ refresh[r].pc \in {"publish", "keep"} /\ refresh'[r].pc = "idle"
        /\ sniffer' \in SnifferRec /\ sniffer'.rows = refresh[r].next /\ sniffer'.n = refresh[r].n
        /\ sniffer'.stamp = sniffer.stamp /\ sniffer'.torn = sniffer.torn /\ sniffer'.mixed = sniffer.mixed
        /\ sniffer'.lost = sniffer.lost
    BY PublishesFacts DEF EndsWith
  <1>2. UNCHANGED <<index, building, loads, blurred>> /\ Untouched
    BY DEF Publishes, dbVars, Untouched
  <1>3. ViewType'
    BY <1>1, <1>2 DEF ViewType, CatalogInv, CatalogTypeOK
  <1>4. ClockInv'
    BY <1>1, <1>2, RefreshClock
  <1>5. ~sniffer.mixed => \A q \in Refreshers : refresh'[q].pc = "idle"
    BY <1>1 DEF OneInv, Resting, CatalogInv
  <1>6. OneInv'
    BY <1>1, <1>5 DEF OneInv, Resting
  <1>7. StampInv'
    <2> SUFFICES ASSUME ~blurred', ~sniffer'.mixed, ~sniffer'.lost, sniffer'.stamp # <<>>
                 PROVE  IF sniffer'.torn THEN Stamp' # sniffer'.stamp
                        ELSE /\ \A q \in Refreshers : Taken(q)' => Stands(refresh[q].next)'
                             /\ (\A q \in Refreshers : ~Taken(q)') => Stands(sniffer.rows)'
      BY DEF StampInv
    <2>1. /\ sniffer.torn => Stamp # sniffer.stamp
          /\ ~sniffer.torn => /\ \A q \in Refreshers : Taken(q) => Stands(refresh[q].next)
                              /\ (\A q \in Refreshers : ~Taken(q)) => Stands(sniffer.rows)
      BY <1>1, <1>2 DEF StampInv, CatalogInv
    <2>2. Stamp' = Stamp
      BY <1>2 DEF Stamp, Untouched
    <2>3. \A q \in Refreshers : ~Taken(q)'
      BY <1>1, <1>5 DEF Taken
    <2>4. ASSUME ~sniffer.torn PROVE Stands(sniffer.rows)'
      <3>1. PICK t : t = refresh[r].next
        OBVIOUS
      <3>2. Stands(t)
        <4>1. CASE refresh[r].pc = "publish"
          BY <2>1, <2>4, <3>1, <4>1 DEF Taken
        <4>2. CASE refresh[r].pc = "keep"
          <5>1. t = sniffer.rows
            BY <1>1, <3>1, <4>2 DEF CatalogInv, OneInv
          <5>2. \A q \in Refreshers : ~Taken(q)
            BY <1>1, <4>2 DEF OneInv, Resting, CatalogInv, Taken
          <5> QED BY <2>1, <2>4, <5>1, <5>2
        <4> QED BY <1>1, <4>1, <4>2
      <3>3. Stands(t)'
        BY <1>1, <1>2, <3>2, StillStands
      <3> QED BY <1>1, <3>1, <3>3
    <2> QED BY <1>1, <2>1, <2>2, <2>3, <2>4
  <1>8. NumberInv'
    <2>1. NumberInv
      BY DEF CatalogInv
    <2>2. Holds(r) /\ ~Holds(r)' /\ \A q \in Refreshers \ {r} : Holds(q)' <=> Holds(q)
      BY <1>1 DEF Holds
    <2> QED BY <1>1, <1>2, <2>1, <2>2 DEF NumberInv
  <1>9. IndexInv'
    BY <1>2 DEF CatalogInv, IndexInv, ContentOf
  <1> QED BY <1>3, <1>4, <1>6, <1>7, <1>8, <1>9

LEMMA AutomatonKeeps ==
  ASSUME CatalogInv, AutomatonIsBuilt
  PROVE  ViewType' /\ ClockInv' /\ StampInv' /\ OneInv' /\ NumberInv' /\ IndexInv'
  <1>1. PICK t \in building : building' = building \ {t} /\ index' = [index EXCEPT !.content = Installed(t)]
    BY DEF AutomatonIsBuilt
  <1>2. UNCHANGED <<sniffer, refresh, loads, monitors, wrote, second, blurred>>
    BY DEF AutomatonIsBuilt, dbVars
  <1>3. /\ index = [sig |-> index.sig, ref |-> index.ref, content |-> index.content]
        /\ (index.sig = <<>> \/ \E u \in Tables : index.sig = <<u>>) /\ IndexInv
    BY DEF CatalogInv, CatalogTypeOK, ViewType
  <1>4. PICK c : c = Installed(t)
    OBVIOUS
  <1>5. /\ index'.sig = index.sig /\ index'.ref = index.ref /\ index'.content = c
        /\ index' = [sig |-> index'.sig, ref |-> index'.ref, content |-> index'.content]
    BY <1>1, <1>3, <1>4
  <1>6. ViewType' /\ NumberInv'
    BY <1>2, <1>5 DEF ViewType, NumberInv, Holds, CatalogInv, CatalogTypeOK
  <1>7. Moved
    BY <1>2, QuietRows
  <1>8. ClockInv' /\ StampInv' /\ OneInv'
    BY <1>7, MovedRows
  <1>9. index.sig # <<>>
    BY <1>1, <1>3 DEF IndexInv
  <1>10. PICK u \in Tables : index.sig = <<u>>
    BY <1>3, <1>9
  <1>11. <<u>>[1] = u /\ (<<u>> = <<t>> => u = t)
    OBVIOUS
  <1>12. u \in building' \/ c = <<ContentOf(u)>>
    <2>1. CASE u = t
      BY <1>4, <1>10, <2>1 DEF Installed
    <2>2. CASE u # t
      <3>1. c = index.content
        BY <1>4, <1>10, <1>11, <2>2 DEF Installed
      <3> QED BY <1>1, <1>3, <1>9, <1>10, <1>11, <2>2, <3>1 DEF IndexInv
    <2> QED BY <2>1, <2>2
  <1>13. index'.sig # <<>> /\ index'.sig[1] = u
    BY <1>5, <1>9, <1>10, <1>11
  <1>14. IndexInv'
    BY <1>5, <1>12, <1>13 DEF IndexInv, ContentOf
  <1> QED BY <1>6, <1>8, <1>14

\* A step that only writes the catalog leaves the view as it is.
LEMMA MovedView ==
  ASSUME CatalogInv, Moved, UNCHANGED <<index, building, loads>>
  PROVE  ViewType' /\ ClockInv' /\ StampInv' /\ OneInv' /\ NumberInv' /\ IndexInv'
  <1>1. UNCHANGED <<sniffer, refresh>>
    BY DEF Moved
  <1>2. ViewType' /\ NumberInv' /\ IndexInv'
    BY <1>1 DEF CatalogInv, CatalogTypeOK, ViewType, NumberInv, Holds, IndexInv, ContentOf
  <1> QED BY <1>2, MovedRows

LEMMA StepView ==
  ASSUME CatalogInv, [CatalogNext]_catalogVars
  PROVE  ViewType' /\ ClockInv' /\ StampInv' /\ OneInv' /\ NumberInv' /\ IndexInv'
  <1>1. ASSUME NEW id \in CustomIds, NEW src \in {"custom", "builtin"}, NEW def \in Defs, NEW on \in BOOLEAN,
               SaveMonitor(id, src, def, on)
        PROVE  Moved /\ UNCHANGED <<index, building, loads>>
    BY <1>1, SaveWrites, WritesStamped DEF SaveMonitor, sniffVars
  <1>2. ASSUME NEW id \in Ids, DeleteMonitor(id) PROVE Moved /\ UNCHANGED <<index, building, loads>>
    BY <1>2, DroppedRows DEF DeleteMonitor, sniffVars
  <1>3. ASSUME NEW id \in Ids, NEW on \in BOOLEAN, ToggleMonitor(id, on)
        PROVE  Moved /\ UNCHANGED <<index, building, loads>>
    BY <1>3, ToggleWrites, WritesStamped DEF ToggleMonitor, sniffVars
  <1>4. ASSUME NEW id \in EntryIds, DeleteEntry(id) PROVE Moved /\ UNCHANGED <<index, building, loads>>
    BY <1>4, DroppedRows DEF DeleteEntry, sniffVars
  <1>5. ASSUME NEW o \in Operators, SyncMirror(o) PROVE Moved /\ UNCHANGED <<index, building, loads>>
    BY <1>5, SyncWrites, WritesStamped DEF SyncMirror, sniffVars
  <1>6. ASSUME NEW s \in Starters, SeedWrites(s) PROVE Moved /\ UNCHANGED <<index, building, loads>>
    BY <1>6, SeedFacts, SeedsStamped DEF SeedWrites, sniffVars
  <1>7. ASSUME NEW s \in Starters, Resets(s) PROVE Moved /\ UNCHANGED <<index, building, loads>>
    BY <1>7, ResetMoves DEF Resets, sniffVars
  <1>8. ASSUME \/ \E o \in Operators, id \in EntryIds, on \in BOOLEAN : WriteEntry(o, id, on)
               \/ \E o \in Operators : ReadEntry(o) \/ CallFails(o)
               \/ \E s \in Starters, release \in Releases : SeedReads(s, release)
               \/ \E s \in Starters : ReadsFlag(s) \/ Marks(s) \/ StarterDies(s)
               \/ SecondPasses \/ UNCHANGED catalogVars
        PROVE  Moved /\ UNCHANGED <<index, building, loads>>
    <2>1. UNCHANGED <<monitors, wrote, blurred, sniffer, refresh, index, building, loads>>
      BY <1>8 DEF WriteEntry, ReadEntry, CallFails, SeedReads, ReadsFlag, Marks, StarterDies, SecondPasses,
                  catalogVars, sniffVars, clockVars
    <2>2. second' = second \/ second' = second + 1
      BY <1>8 DEF WriteEntry, ReadEntry, CallFails, SeedReads, ReadsFlag, Marks, StarterDies, SecondPasses, catalogVars
    <2> QED BY <2>1, <2>2, QuietRows
  <1>9. CASE Moved /\ UNCHANGED <<index, building, loads>>
    BY <1>9, MovedView
  <1>10. CASE Refreshes
    BY <1>10, RefreshStampsKeeps, RefreshListsKeeps, RefreshFailsKeeps, IndexesKeeps, PublishesKeeps, AutomatonKeeps
    DEF Refreshes
  <1> QED BY <1>1, <1>2, <1>3, <1>4, <1>5, <1>6, <1>7, <1>8, <1>9, <1>10 DEF CatalogNext, Edits, Starts

-----------------------------------------------------------------------------
(* What operators decided. *)

\* What is known of the rows an operator's request touches.
LEMMA IdsApart ==
  \A id \in EntryIds : id \notin CustomIds /\ id \notin BuiltinIds
  BY CatalogAssumption

\* A step that leaves every row and every decision alone.
LEMMA QuietDecisions ==
  ASSUME CatalogInv, UNCHANGED <<monitors, choice, overrun, mine>> PROVE DecisionInv'
  BY DEF CatalogInv, DecisionInv

\* A row of an entry is written or goes: no operator decided about it.
LEMMA EntryDecisions ==
  ASSUME CatalogInv, NEW e \in EntryIds, UNCHANGED <<choice, overrun, mine>>,
         \A k \in DOMAIN monitors \ {e} : k \in DOMAIN monitors' /\ monitors'[k] = monitors[k],
         DOMAIN monitors' \subseteq DOMAIN monitors \cup {e},
         e \in DOMAIN monitors' => monitors'[e].src = "blacklist"
  PROVE  DecisionInv'
  <1>1. e \notin DOMAIN choice /\ e \notin DOMAIN mine
    BY DEF CatalogInv, DecisionInv
  <1> QED BY <1>1 DEF CatalogInv, DecisionInv

LEMMA SaveDecides ==
  ASSUME CatalogInv, NEW id \in CustomIds, NEW src \in {"custom", "builtin"}, NEW def \in Defs, NEW on \in BOOLEAN,
         SaveMonitor(id, src, def, on)
  PROVE  DecisionInv'
  <1>1. Writes(id, src, def, on)
    BY SaveWrites
  <1>2. /\ id \in DOMAIN monitors => monitors[id].src \notin {"builtin", "blacklist"}
        /\ mine' = IF src = "custom" THEN Set(mine, id, [def |-> def, on |-> on]) ELSE Omit(mine, {id})
        /\ choice' = choice /\ overrun' = overrun
    BY DEF SaveMonitor
  <1>3. DecisionInv
    BY DEF CatalogInv
  <1>4. id \notin DOMAIN choice /\ id \notin EntryIds
    BY <1>2, <1>3, IdsApart DEF DecisionInv
  <1>5. ASSUME NEW k \in DOMAIN choice'
        PROVE  /\ k \in DOMAIN monitors' /\ monitors'[k].src = "builtin"
               /\ k \notin overrun' => monitors'[k].on = choice'[k]
    BY <1>1, <1>2, <1>3, <1>4 DEF DecisionInv, Writes
  <1>6. ASSUME NEW k \in DOMAIN mine'
        PROVE  /\ k \in DOMAIN monitors' /\ monitors'[k].src = "custom"
               /\ monitors'[k].def = mine'[k].def /\ monitors'[k].on = mine'[k].on
    <2>1. CASE k = id
      <3>1. src = "custom"
        BY <1>2, <1>6, <2>1 DEF Omit
      <3>2. mine'[k] = [def |-> def, on |-> on]
        BY <1>2, <2>1, <3>1 DEF Set
      <3> QED BY <1>1, <2>1, <3>1, <3>2 DEF Writes
    <2>2. CASE k # id
      <3>1. k \in DOMAIN mine /\ mine'[k] = mine[k]
        BY <1>2, <1>6, <2>2 DEF Omit, Set
      <3> QED BY <1>1, <1>3, <2>2, <3>1 DEF Writes, DecisionInv
    <2> QED BY <2>1, <2>2
  <1>7. ASSUME NEW k \in EntryIds \cap DOMAIN monitors' PROVE monitors'[k].src = "blacklist"
    BY <1>1, <1>3, <1>4 DEF Writes, DecisionInv
  <1> QED BY <1>5, <1>6, <1>7 DEF DecisionInv

LEMMA DeleteDecides ==
  ASSUME CatalogInv, NEW id \in Ids, DeleteMonitor(id) PROVE DecisionInv'
  <1>1. /\ id \in DOMAIN monitors /\ monitors[id].src \notin {"builtin", "blacklist"}
        /\ monitors' = Omit(monitors, {id}) /\ mine' = Omit(mine, {id}) /\ choice' = choice /\ overrun' = overrun
    BY DEF DeleteMonitor
  <1>2. DecisionInv /\ id \notin DOMAIN choice
    BY <1>1 DEF CatalogInv, DecisionInv
  <1>3. /\ DOMAIN monitors' = DOMAIN monitors \ {id} /\ DOMAIN mine' = DOMAIN mine \ {id}
        /\ \A k \in DOMAIN monitors \ {id} : monitors'[k] = monitors[k]
        /\ \A k \in DOMAIN mine \ {id} : mine'[k] = mine[k]
    <2>1. monitors' = Omit(monitors, {id})
      BY <1>1
    <2>2. mine' = Omit(mine, {id})
      BY <1>1
    <2>3. DOMAIN monitors' = DOMAIN monitors \ {id} /\ \A k \in DOMAIN monitors \ {id} : monitors'[k] = monitors[k]
      BY <2>1 DEF Omit
    <2>4. DOMAIN mine' = DOMAIN mine \ {id} /\ \A k \in DOMAIN mine \ {id} : mine'[k] = mine[k]
      BY <2>2 DEF Omit
    <2> QED BY <2>3, <2>4
  <1>4. ASSUME NEW k \in DOMAIN choice'
        PROVE  /\ k \in DOMAIN monitors' /\ monitors'[k].src = "builtin"
               /\ k \notin overrun' => monitors'[k].on = choice'[k]
    BY <1>1, <1>2, <1>3 DEF DecisionInv
  <1>5. ASSUME NEW k \in DOMAIN mine'
        PROVE  /\ k \in DOMAIN monitors' /\ monitors'[k].src = "custom"
               /\ monitors'[k].def = mine'[k].def /\ monitors'[k].on = mine'[k].on
    <2>1. k \in DOMAIN mine /\ k # id /\ mine'[k] = mine[k]
      BY <1>3
    <2> QED BY <1>2, <1>3, <2>1 DEF DecisionInv
  <1>6. ASSUME NEW k \in EntryIds \cap DOMAIN monitors' PROVE monitors'[k].src = "blacklist"
    BY <1>2, <1>3 DEF DecisionInv
  <1> QED BY <1>4, <1>5, <1>6 DEF DecisionInv

LEMMA ToggleDecides ==
  ASSUME CatalogInv, NEW id \in Ids, NEW on \in BOOLEAN, ToggleMonitor(id, on) PROVE DecisionInv'
  <1>1. /\ Writes(id, monitors[id].src, monitors[id].def, on)
        /\ id \in DOMAIN monitors /\ monitors[id].src # "blacklist"
    BY ToggleWrites
  <1>2. /\ choice' = IF monitors[id].src = "builtin" THEN Set(choice, id, on) ELSE choice
        /\ mine' = IF id \in DOMAIN mine THEN [mine EXCEPT ![id].on = on] ELSE mine
        /\ overrun' = overrun \ {id}
    BY DEF ToggleMonitor
  <1>3. DecisionInv /\ \A k \in DOMAIN mine : mine[k] \in [def : Criteria, on : BOOLEAN]
    BY DEF CatalogInv, CatalogTypeOK, DecisionType
  <1>4. /\ DOMAIN monitors' = DOMAIN monitors
        /\ monitors'[id].src = monitors[id].src /\ monitors'[id].def = monitors[id].def /\ monitors'[id].on = on
        /\ \A k \in DOMAIN monitors \ {id} : monitors'[k] = monitors[k]
    BY <1>1 DEF Writes
  <1>5. ASSUME NEW k \in DOMAIN choice'
        PROVE  /\ k \in DOMAIN monitors' /\ monitors'[k].src = "builtin"
               /\ k \notin overrun' => monitors'[k].on = choice'[k]
    <2>1. CASE k = id
      <3>1. monitors[id].src = "builtin"
        BY <1>2, <1>3, <1>5, <2>1 DEF DecisionInv
      <3>2. choice'[k] = on
        BY <1>2, <2>1, <3>1 DEF Set
      <3> QED BY <1>1, <1>4, <2>1, <3>1, <3>2
    <2>2. CASE k # id
      <3>1. k \in DOMAIN choice /\ choice'[k] = choice[k]
        BY <1>2, <1>5, <2>2 DEF Set
      <3> QED BY <1>2, <1>3, <1>4, <2>2, <3>1 DEF DecisionInv
    <2> QED BY <2>1, <2>2
  <1>6. ASSUME NEW k \in DOMAIN mine'
        PROVE  /\ k \in DOMAIN monitors' /\ monitors'[k].src = "custom"
               /\ monitors'[k].def = mine'[k].def /\ monitors'[k].on = mine'[k].on
    <2>0. DOMAIN mine' = DOMAIN mine
      BY <1>2
    <2>1. CASE k = id
      <3>1. mine[id] \in [def : Criteria, on : BOOLEAN] /\ id \in DOMAIN mine
        BY <1>3, <1>6, <2>0, <2>1
      <3>2. mine'[k].def = mine[k].def /\ mine'[k].on = on
        BY <1>2, <2>1, <3>1
      <3> QED BY <1>3, <1>4, <2>1, <3>1, <3>2 DEF DecisionInv
    <2>2. CASE k # id
      <3>1. k \in DOMAIN mine /\ mine'[k] = mine[k]
        BY <1>2, <1>6, <2>2
      <3> QED BY <1>3, <1>4, <2>2, <3>1 DEF DecisionInv
    <2> QED BY <2>1, <2>2
  <1>7. ASSUME NEW k \in EntryIds \cap DOMAIN monitors' PROVE monitors'[k].src = "blacklist"
    BY <1>1, <1>3, <1>4 DEF DecisionInv
  <1> QED BY <1>5, <1>6, <1>7 DEF DecisionInv

LEMMA SeedsDecide ==
  ASSUME CatalogInv, NEW at, Seeds(at), mine' = mine PROVE DecisionInv'
  <1>1. DecisionInv
    BY DEF CatalogInv
  <1>2. /\ DOMAIN choice' = DOMAIN choice \ Gone /\ overrun' = overrun \ Gone
        /\ \A k \in DOMAIN choice' : choice'[k] = choice[k]
    <2>1. choice' = Omit(choice, Gone) /\ overrun' = overrun \ Gone
      BY DEF Seeds
    <2> QED BY <2>1 DEF Omit
  <1>3. ASSUME NEW k \in DOMAIN choice'
        PROVE  /\ k \in DOMAIN monitors' /\ monitors'[k].src = "builtin"
               /\ k \notin overrun' => monitors'[k].on = choice'[k]
    <2>1. k \in DOMAIN monitors /\ k \in DOMAIN monitors' /\ choice'[k] = choice[k] /\ k \notin Gone
      BY <1>1, <1>2 DEF DecisionInv, Gone
    <2>2. monitors'[k].src = monitors[k].src /\ monitors'[k].on = monitors[k].on
      BY <2>1 DEF Seeds
    <2> QED BY <1>1, <1>2, <2>1, <2>2 DEF DecisionInv
  <1>4. ASSUME NEW k \in DOMAIN mine'
        PROVE  /\ k \in DOMAIN monitors' /\ monitors'[k].src = "custom"
               /\ monitors'[k].def = mine'[k].def /\ monitors'[k].on = mine'[k].on
    <2>2. k \in DOMAIN monitors /\ monitors[k].src = "custom"
      BY <1>1 DEF DecisionInv
    <2>3. k \in DOMAIN monitors' /\ monitors'[k] = monitors[k]
      BY <2>2 DEF Seeds, Gone
    <2> QED BY <1>1, <2>3 DEF DecisionInv
  <1>5. ASSUME NEW k \in EntryIds \cap DOMAIN monitors' PROVE monitors'[k].src = "blacklist"
    BY <1>1, IdsApart DEF Seeds, DecisionInv
  <1> QED BY <1>3, <1>4, <1>5 DEF DecisionInv

\* The reset takes back what was chosen before it; what was chosen since, only in a second one.
LEMMA ResetDecides ==
  ASSUME CatalogInv, NEW s \in Starters, Resets(s) PROVE DecisionInv'
  <1>1. Switches(s) /\ DecisionInv
    BY ResetFacts DEF CatalogInv
  <1>2. PICK shipped : shipped = {id \in DOMAIN monitors \cap DOMAIN starting[s].release : monitors[id].src = "builtin"}
    OBVIOUS
  <1>3. /\ choice' = IF reset THEN choice ELSE Omit(choice, shipped)
        /\ overrun' = IF reset /\ doubled THEN overrun \cup (shipped \cap DOMAIN choice) ELSE overrun
        /\ mine' = mine
    BY <1>2 DEF Resets
  <1>4. reset => doubled
    BY DEF Resets, CatalogInv, ResetInv
  <1>5. /\ DOMAIN monitors' = DOMAIN monitors /\ \A id \in DOMAIN monitors : monitors'[id].src = monitors[id].src
        /\ \A id \in DOMAIN monitors \ shipped : monitors'[id] = monitors[id]
        /\ \A id \in DOMAIN monitors : monitors[id].src # "builtin" => monitors'[id] = monitors[id]
    BY <1>1, <1>2 DEF Switches
  <1>6. ASSUME NEW k \in DOMAIN choice'
        PROVE  /\ k \in DOMAIN monitors' /\ monitors'[k].src = "builtin"
               /\ k \notin overrun' => monitors'[k].on = choice'[k]
    <2>1. CASE reset
      <3>1. choice' = choice /\ overrun' = overrun \cup (shipped \cap DOMAIN choice)
        BY <1>3, <1>4, <2>1
      <3> QED BY <1>1, <1>5, <3>1 DEF DecisionInv
    <2>2. CASE ~reset
      <3>1. choice' = Omit(choice, shipped) /\ overrun' = overrun
        BY <1>3, <2>2
      <3>2. k \in DOMAIN choice /\ k \notin shipped /\ choice'[k] = choice[k]
        BY <3>1 DEF Omit
      <3> QED BY <1>1, <1>5, <3>1, <3>2 DEF DecisionInv
    <2> QED BY <2>1, <2>2
  <1>7. ASSUME NEW k \in DOMAIN mine'
        PROVE  /\ k \in DOMAIN monitors' /\ monitors'[k].src = "custom"
               /\ monitors'[k].def = mine'[k].def /\ monitors'[k].on = mine'[k].on
    BY <1>1, <1>3, <1>5 DEF DecisionInv
  <1>8. ASSUME NEW k \in EntryIds \cap DOMAIN monitors' PROVE monitors'[k].src = "blacklist"
    BY <1>1, <1>5 DEF DecisionInv
  <1> QED BY <1>6, <1>7, <1>8 DEF DecisionInv

LEMMA StepDecisions ==
  ASSUME CatalogInv, [CatalogNext]_catalogVars PROVE DecisionInv'
  <1>1. ASSUME NEW o \in Operators, SyncMirror(o) PROVE DecisionInv'
    <2>1. call[o].id \in EntryIds /\ Writes(call[o].id, "blacklist", Listed, call[o].on)
      BY <1>1, SyncWrites
    <2>2. UNCHANGED <<choice, overrun, mine>>
      BY <1>1 DEF SyncMirror, ghosts
    <2> QED BY <2>1, <2>2, EntryDecisions DEF Writes
  <1>2. ASSUME NEW id \in EntryIds, DeleteEntry(id) PROVE DecisionInv'
    <2>1. monitors' = Omit(monitors, {id}) /\ UNCHANGED <<choice, overrun, mine>>
      BY <1>2 DEF DeleteEntry, ghosts
    <2>2. /\ DOMAIN monitors' = DOMAIN monitors \ {id}
          /\ \A k \in DOMAIN monitors \ {id} : monitors'[k] = monitors[k]
      BY <2>1 DEF Omit
    <2> QED BY <2>1, <2>2, EntryDecisions
  <1>3. ASSUME NEW s \in Starters, SeedWrites(s) PROVE DecisionInv'
    BY <1>3, SeedFacts, SeedsDecide DEF SeedWrites
  <1>4. CASE \/ \E o \in Operators, id \in EntryIds, on \in BOOLEAN : WriteEntry(o, id, on)
             \/ \E o \in Operators : ReadEntry(o) \/ CallFails(o)
             \/ \E s \in Starters, release \in Releases : SeedReads(s, release)
             \/ \E s \in Starters : ReadsFlag(s) \/ Marks(s) \/ StarterDies(s)
             \/ SecondPasses
    BY <1>4, QuietDecisions
    DEF WriteEntry, ReadEntry, CallFails, SeedReads, ReadsFlag, Marks, StarterDies, SecondPasses, ghosts
  <1>5. CASE Refreshes
    BY <1>5, QuietDecisions
    DEF Refreshes, RefreshStamps, RefreshLists, RefreshFails, Indexes, Publishes, AutomatonIsBuilt, dbVars, ghosts
  <1>6. CASE UNCHANGED catalogVars
    BY <1>6, QuietDecisions DEF catalogVars, ghosts
  <1> QED BY <1>1, <1>2, <1>3, <1>4, <1>5, <1>6, SaveDecides, DeleteDecides, ToggleDecides, ResetDecides
           DEF CatalogNext, Edits, Starts

-----------------------------------------------------------------------------
(* The reset of the switches. *)

\* A starter goes on; the others are where they were.
LEMMA StarterGoesOn ==
  ASSUME CatalogInv, NEW s \in Starters, NEW x, starting' = [starting EXCEPT ![s] = x]
  PROVE  starting'[s] = x /\ \A q \in Starters \ {s} : starting'[q] = starting[q]
  BY DEF CatalogInv, CatalogTypeOK, StartType

LEMMA StepReset ==
  ASSUME CatalogInv, [CatalogNext]_catalogVars PROVE ResetInv'
  <1>0. ResetInv
    BY DEF CatalogInv
  <1>1. ASSUME UNCHANGED <<flag, reset, doubled, starting>> PROVE ResetInv'
    BY <1>0, <1>1 DEF ResetInv, Resetting
  <1>2. ASSUME NEW s \in Starters, NEW release \in Releases, SeedReads(s, release) PROVE ResetInv'
    <2>1. PICK x : x = [pc |-> "seed", release |-> release, then |-> monitors]
      OBVIOUS
    <2>2. x.pc = "seed"
      BY <2>1
    <2>3. starting[s].pc = "idle" /\ starting' = [starting EXCEPT ![s] = x] /\ UNCHANGED <<flag, reset, doubled>>
      BY <1>2, <2>1 DEF SeedReads
    <2>4. starting'[s] = x /\ \A q \in Starters \ {s} : starting'[q] = starting[q]
      BY <2>3, StarterGoesOn
    <2> QED BY <1>0, <2>2, <2>3, <2>4 DEF ResetInv, Resetting
  <1>3. ASSUME NEW s \in Starters, SeedWrites(s) PROVE ResetInv'
    <2>1. starting[s].pc = "seed" /\ starting' = [starting EXCEPT ![s] = At(s, "flag")] /\ UNCHANGED <<flag, reset, doubled>>
      BY <1>3 DEF SeedWrites
    <2>2. starting'[s].pc = "flag" /\ \A q \in Starters \ {s} : starting'[q] = starting[q]
      <3>1. PICK x : x = At(s, "flag")
        OBVIOUS
      <3>2. x.pc = "flag"
        BY <3>1 DEF At
      <3>3. starting'[s] = x /\ \A q \in Starters \ {s} : starting'[q] = starting[q]
        BY <2>1, <3>1, StarterGoesOn
      <3> QED BY <3>2, <3>3
    <2> QED BY <1>0, <2>1, <2>2 DEF ResetInv, Resetting
  <1>4. ASSUME NEW s \in Starters, ReadsFlag(s) PROVE ResetInv'
    <2>1. PICK x : x = IF flag THEN [pc |-> "idle"] ELSE At(s, "reset")
      OBVIOUS
    <2>2. /\ starting[s].pc = "flag" /\ starting' = [starting EXCEPT ![s] = x] /\ UNCHANGED <<flag, reset>>
          /\ doubled' = (doubled \/ (~flag /\ \E q \in Starters \ {s} : starting[q].pc \in {"reset", "mark"}))
      BY <1>4, <2>1 DEF ReadsFlag
    <2>3. starting'[s] = x /\ \A q \in Starters \ {s} : starting'[q] = starting[q]
      BY <2>2, StarterGoesOn
    <2>4. (flag => x.pc = "idle") /\ (~flag => x.pc = "reset")
      BY <2>1 DEF At
    <2>5. CASE flag
      BY <1>0, <2>2, <2>3, <2>4, <2>5 DEF ResetInv, Resetting
    <2>6. CASE ~flag
      <3> SUFFICES ASSUME ~doubled' PROVE ResetInv'
        BY DEF ResetInv
      <3>1. ~doubled /\ \A q \in Starters \ {s} : starting[q].pc \notin {"reset", "mark"}
        BY <2>2, <2>6
      <3>2. ~reset
        BY <1>0, <2>2, <2>6, <3>1 DEF ResetInv
      <3> QED BY <2>2, <2>3, <2>4, <2>6, <3>1, <3>2 DEF ResetInv, Resetting
    <2> QED BY <2>5, <2>6
  <1>5. ASSUME NEW s \in Starters, Resets(s) PROVE ResetInv'
    <2>1. starting[s].pc = "reset" /\ starting' = [starting EXCEPT ![s] = At(s, "mark")] /\ UNCHANGED <<flag, doubled>> /\ reset'
      BY <1>5 DEF Resets
    <2>2. starting'[s].pc = "mark" /\ \A q \in Starters \ {s} : starting'[q] = starting[q]
      <3>1. PICK x : x = At(s, "mark")
        OBVIOUS
      <3>2. x.pc = "mark"
        BY <3>1 DEF At
      <3>3. starting'[s] = x /\ \A q \in Starters \ {s} : starting'[q] = starting[q]
        BY <2>1, <3>1, StarterGoesOn
      <3> QED BY <3>2, <3>3
    <2> QED BY <1>0, <2>1, <2>2 DEF ResetInv, Resetting
  <1>6. ASSUME NEW s \in Starters, Marks(s) PROVE ResetInv'
    <2>1. starting[s].pc = "mark" /\ starting' = [starting EXCEPT ![s] = [pc |-> "idle"]] /\ UNCHANGED <<reset, doubled>> /\ flag'
      BY <1>6 DEF Marks
    <2>2. starting'[s].pc = "idle" /\ \A q \in Starters \ {s} : starting'[q] = starting[q]
      <3>1. PICK x : x = [pc |-> "idle"]
        OBVIOUS
      <3>2. x.pc = "idle"
        BY <3>1
      <3>3. starting'[s] = x /\ \A q \in Starters \ {s} : starting'[q] = starting[q]
        BY <2>1, <3>1, StarterGoesOn
      <3> QED BY <3>2, <3>3
    <2> QED BY <1>0, <2>1, <2>2 DEF ResetInv, Resetting
  <1>7. ASSUME NEW s \in Starters, StarterDies(s) PROVE ResetInv'
    <2>1. /\ starting' = [starting EXCEPT ![s] = [pc |-> "idle"]] /\ UNCHANGED <<flag, reset>>
          /\ doubled' = (doubled \/ starting[s].pc = "mark")
      BY <1>7 DEF StarterDies
    <2>2. starting'[s].pc = "idle" /\ \A q \in Starters \ {s} : starting'[q] = starting[q]
      <3>1. PICK x : x = [pc |-> "idle"]
        OBVIOUS
      <3>2. x.pc = "idle"
        BY <3>1
      <3>3. starting'[s] = x /\ \A q \in Starters \ {s} : starting'[q] = starting[q]
        BY <2>1, <3>1, StarterGoesOn
      <3> QED BY <3>2, <3>3
    <2> SUFFICES ASSUME ~doubled' PROVE ResetInv'
      BY DEF ResetInv
    <2>3. ~doubled /\ starting[s].pc # "mark"
      BY <2>1
    <2> QED BY <1>0, <2>1, <2>2, <2>3 DEF ResetInv, Resetting
  <1>8. CASE Edits \/ SecondPasses
    BY <1>1, <1>8 DEF Edits, SaveMonitor, DeleteMonitor, ToggleMonitor, WriteEntry, DeleteEntry, ReadEntry, SyncMirror,
                      CallFails, SecondPasses, startVars
  <1>9. CASE Refreshes
    BY <1>1, <1>9 DEF Refreshes, RefreshStamps, RefreshLists, RefreshFails, Indexes, Publishes, AutomatonIsBuilt,
                      dbVars, startVars
  <1>10. CASE UNCHANGED catalogVars
    BY <1>1, <1>10 DEF catalogVars, startVars
  <1> QED BY <1>2, <1>3, <1>4, <1>5, <1>6, <1>7, <1>8, <1>9, <1>10 DEF CatalogNext, Starts

-----------------------------------------------------------------------------
(* The mirrors of the blacklist. *)

\* A step that leaves the calls alone, and the rows of the mirrors as they are.
LEMMA QuietMirrors ==
  ASSUME CatalogInv, UNCHANGED <<entries, call, apart>>,
         \A e \in EntryIds :
           /\ e \in DOMAIN monitors' <=> e \in DOMAIN monitors
           /\ e \in DOMAIN monitors => monitors'[e].on = monitors[e].on
  PROVE  InsideInv' /\ MirrorInStep'
  <1>1. InsideInv /\ MirrorInStep
    BY DEF CatalogInv
  <1>2. \A e : Inside(e)' = Inside(e)
    BY DEF Inside
  <1>3. InsideInv'
    BY <1>1, <1>2 DEF InsideInv
  <1>4. ASSUME NEW e \in EntryIds \ apart', Inside(e)' = {} PROVE InStep(e)'
    BY <1>1, <1>2, <1>4 DEF MirrorInStep, InStep
  <1> QED BY <1>3, <1>4 DEF MirrorInStep

\* A step that concerns one entry, e: those that are inside another one, that entry and its mirror stay as they are.
LEMMA OtherMirrors ==
  ASSUME CatalogInv, NEW e \in EntryIds,
         \A d \in EntryIds \ {e} :
           /\ Inside(d)' = Inside(d) /\ \A o \in Inside(d) : call'[o] = call[o]
           /\ d \in apart' <=> d \in apart
           /\ d \in DOMAIN entries' <=> d \in DOMAIN entries
           /\ d \in DOMAIN entries => entries'[d] = entries[d]
           /\ d \in DOMAIN monitors' <=> d \in DOMAIN monitors
           /\ d \in DOMAIN monitors => monitors'[d] = monitors[d],
         \A o \in Inside(e)' :
           /\ call'[o].alone => /\ Inside(e)' = {o} /\ e \in DOMAIN entries'
                                /\ call'[o].st = "sync" => call'[o].on = entries'[e]
           /\ e \notin apart' => call'[o].alone,
         e \notin apart' /\ Inside(e)' = {} => InStep(e)'
  PROVE  InsideInv' /\ MirrorInStep'
  <1>1. InsideInv /\ MirrorInStep
    BY DEF CatalogInv
  <1>2. ASSUME NEW d \in EntryIds, NEW o \in Operators, o \in Inside(d)'
        PROVE  /\ call'[o].alone => /\ Inside(d)' = {o} /\ d \in DOMAIN entries'
                                    /\ call'[o].st = "sync" => call'[o].on = entries'[d]
               /\ d \notin apart' => call'[o].alone
    <2>1. CASE d = e
      BY <1>2, <2>1
    <2>2. CASE d # e
      BY <1>1, <1>2, <2>2 DEF InsideInv
    <2> QED BY <2>1, <2>2
  <1>3. ASSUME NEW d \in EntryIds \ apart', Inside(d)' = {} PROVE InStep(d)'
    <2>1. CASE d = e
      BY <1>3, <2>1
    <2>2. CASE d # e
      <3>1. InStep(d)
        BY <1>1, <1>3, <2>2 DEF MirrorInStep
      <3> QED BY <2>2, <3>1 DEF InStep
    <2> QED BY <2>1, <2>2
  <1>4. InsideInv'
    BY <1>2 DEF InsideInv
  <1>5. MirrorInStep'
    BY <1>3 DEF MirrorInStep
  <1> QED BY <1>4, <1>5

\* What a call that met another one is.
LEMMA MetIs ==
  ASSUME CatalogInv, NEW id \in EntryIds
  PROVE  /\ Met(id) \in [Operators -> CallRec]
         /\ \A p \in Operators \ Inside(id) : Met(id)[p] = call[p]
         /\ \A p \in Inside(id) : /\ Met(id)[p].st = call[p].st /\ Met(id)[p].st # "idle"
                                  /\ Met(id)[p].id = id /\ ~Met(id)[p].alone
  <1>1. call \in [Operators -> CallRec]
    BY DEF CatalogInv, CatalogTypeOK, RowType
  <1>2. ASSUME NEW p \in Inside(id)
        PROVE  /\ [call[p] EXCEPT !.alone = FALSE] \in CallRec
               /\ [call[p] EXCEPT !.alone = FALSE].st = call[p].st /\ call[p].st # "idle"
               /\ [call[p] EXCEPT !.alone = FALSE].id = id /\ ~[call[p] EXCEPT !.alone = FALSE].alone
    <2>1. call[p] \in CallRec /\ call[p].st # "idle" /\ call[p].id = id /\ p \in Operators
      BY <1>1, <1>2 DEF Inside
    <2>2. PICK c : c = call[p]
      OBVIOUS
    <2>3. c \in [st : {"read"}, id : EntryIds, alone : BOOLEAN] \/ c \in [st : {"sync"}, id : EntryIds, on : BOOLEAN, alone : BOOLEAN]
      BY <2>1, <2>2 DEF CallRec
    <2>4. CASE c \in [st : {"read"}, id : EntryIds, alone : BOOLEAN]
      BY <2>1, <2>2, <2>4 DEF CallRec
    <2>5. CASE c \in [st : {"sync"}, id : EntryIds, on : BOOLEAN, alone : BOOLEAN]
      BY <2>1, <2>2, <2>5 DEF CallRec
    <2> QED BY <2>3, <2>4, <2>5
  <1>3. Inside(id) \subseteq Operators
    BY DEF Inside
  <1>4. \A p \in Operators : Met(id)[p] = IF p \in Inside(id) THEN [call[p] EXCEPT !.alone = FALSE] ELSE call[p]
    BY DEF Met
  <1>5. \A p \in Operators : Met(id)[p] \in CallRec
    BY <1>1, <1>2, <1>4
  <1>6. Met(id) \in [Operators -> CallRec]
    BY <1>5 DEF Met
  <1> QED BY <1>2, <1>3, <1>4, <1>6

LEMMA WriteEntryMirrors ==
  ASSUME CatalogInv, NEW o \in Operators, NEW id \in EntryIds, NEW on \in BOOLEAN, WriteEntry(o, id, on)
  PROVE  InsideInv' /\ MirrorInStep' /\ call' \in [Operators -> CallRec] /\ apart' \subseteq EntryIds
  <1>0. PICK x : x = [st |-> "read", id |-> id, alone |-> Inside(id) = {}]
    OBVIOUS
  <1>1. /\ call[o].st = "idle" /\ entries' = Set(entries, id, on) /\ monitors' = monitors
        /\ call' = [Met(id) EXCEPT ![o] = x]
        /\ apart' = IF Inside(id) # {} THEN apart \cup {id} ELSE apart
    BY <1>0 DEF WriteEntry, Served
  <1>2. x.st = "read" /\ x.id = id /\ x.alone = (Inside(id) = {}) /\ x \in CallRec
    BY <1>0 DEF CallRec
  <1>3. o \notin Inside(id)
    BY <1>1 DEF Inside
  <1>4. PICK m \in [Operators -> CallRec] : m = Met(id)
    BY MetIs
  <1>5. /\ \A p \in Operators \ Inside(id) : m[p] = call[p]
        /\ \A p \in Inside(id) : m[p].st # "idle" /\ m[p].id = id /\ ~m[p].alone
    BY <1>4, MetIs
  <1>6. /\ call' \in [Operators -> CallRec] /\ call'[o] = x /\ \A p \in Operators \ {o} : call'[p] = m[p]
    BY <1>1, <1>2, <1>4
  <1>7. ASSUME NEW d \in EntryIds \ {id}
        PROVE  Inside(d)' = Inside(d) /\ \A p \in Inside(d) : call'[p] = call[p]
    <2>1. \A p \in Inside(d) : p \in Operators \ Inside(id) /\ p # o
      BY <1>1, <1>7 DEF Inside
    <2>2. \A p \in Inside(d) : call'[p] = call[p]
      BY <1>5, <1>6, <2>1
    <2>3. \A p \in Operators : p \in Inside(d)' => p \in Inside(d)
      BY <1>2, <1>5, <1>6, <1>7 DEF Inside
    <2>4. \A p \in Inside(d) : p \in Inside(d)'
      BY <2>1, <2>2 DEF Inside
    <2>5. Inside(d)' \subseteq Operators
      BY DEF Inside
    <2> QED BY <2>2, <2>3, <2>4, <2>5
  <1>8. Inside(id)' = Inside(id) \cup {o}
    <2>1. \A p \in Inside(id) : p \in Operators /\ p # o
      BY <1>3 DEF Inside
    <2>2. \A p \in Inside(id) : p \in Inside(id)'
      BY <1>5, <1>6, <2>1 DEF Inside
    <2>3. o \in Inside(id)'
      BY <1>2, <1>6 DEF Inside
    <2>4. \A p \in Operators \ {o} : p \in Inside(id)' => p \in Inside(id)
      BY <1>5, <1>6 DEF Inside
    <2>5. Inside(id)' \subseteq Operators
      BY DEF Inside
    <2> QED BY <2>2, <2>3, <2>4, <2>5
  <1>9. /\ id \in DOMAIN entries' /\ DOMAIN entries' = DOMAIN entries \cup {id}
        /\ \A d \in DOMAIN entries \ {id} : entries'[d] = entries[d]
    BY <1>1 DEF Set
  <1>10. ASSUME NEW p \in Inside(id)'
         PROVE  /\ call'[p].alone => /\ Inside(id)' = {p} /\ id \in DOMAIN entries'
                                     /\ call'[p].st = "sync" => call'[p].on = entries'[id]
                /\ id \notin apart' => call'[p].alone
    <2>1. CASE p = o
      BY <1>1, <1>2, <1>6, <1>8, <1>9, <2>1
    <2>2. CASE p # o
      <3>1. p \in Inside(id) /\ p \in Operators
        BY <1>8, <2>2 DEF Inside
      <3> QED BY <1>1, <1>5, <1>6, <2>2, <3>1
    <2> QED BY <2>1, <2>2
  <1>11. apart' \subseteq EntryIds /\ \A d \in EntryIds \ {id} : d \in apart' <=> d \in apart
    BY <1>1 DEF CatalogInv, CatalogTypeOK, RowType
  <1>12. Inside(id)' # {}
    BY <1>8
  <1>13. InsideInv' /\ MirrorInStep'
    BY <1>1, <1>7, <1>9, <1>10, <1>11, <1>12, OtherMirrors
  <1> QED BY <1>6, <1>11, <1>13

\* One call goes on to x, inside its entry or out of it.
GoesOn(o, x, id) ==
  /\ call' \in [Operators -> CallRec] /\ id \in EntryIds
  /\ call'[o] = x /\ \A p \in Operators \ {o} : call'[p] = call[p]
  /\ \A d \in EntryIds \ {id} : Inside(d)' = Inside(d) /\ \A p \in Inside(d) : call'[p] = call[p]
  /\ o \in Inside(id)
  /\ x.st = "idle" => Inside(id)' = Inside(id) \ {o}
  /\ x.st # "idle" => Inside(id)' = Inside(id)

LEMMA CallGoesOn ==
  ASSUME CatalogInv, NEW o \in Operators, ~Served(o), NEW x \in CallRec, call' = [call EXCEPT ![o] = x],
         NEW id, id = call[o].id, x.st = "idle" \/ x.id = id
  PROVE  GoesOn(o, x, id)
  <1>1. call \in [Operators -> CallRec]
    BY DEF CatalogInv, CatalogTypeOK, RowType
  <1>2. id \in EntryIds /\ call[o].st # "idle"
    BY <1>1 DEF CallRec, Served
  <1>3. call' \in [Operators -> CallRec] /\ call'[o] = x /\ \A p \in Operators \ {o} : call'[p] = call[p]
    BY <1>1
  <1>4. o \in Inside(id)
    BY <1>2 DEF Inside
  <1>6. ASSUME NEW d \in EntryIds \ {id}
        PROVE  Inside(d)' = Inside(d) /\ \A p \in Inside(d) : call'[p] = call[p]
    BY <1>3, <1>6 DEF Inside
  <1>7. x.st = "idle" => Inside(id)' = Inside(id) \ {o}
    BY <1>2, <1>3 DEF Inside
  <1>8. x.st # "idle" => Inside(id)' = Inside(id)
    BY <1>2, <1>3 DEF Inside
  <1> QED BY <1>2, <1>3, <1>4, <1>6, <1>7, <1>8 DEF GoesOn

LEMMA ReadEntryMirrors ==
  ASSUME CatalogInv, NEW o \in Operators, ReadEntry(o)
  PROVE  InsideInv' /\ MirrorInStep' /\ call' \in [Operators -> CallRec]
  <1>0. PICK id : id = call[o].id
    OBVIOUS
  <1>1. PICK x : x = IF id \in DOMAIN entries
                     THEN [st |-> "sync", id |-> id, on |-> entries[id], alone |-> call[o].alone] ELSE [st |-> "idle"]
    OBVIOUS
  <1>2. call[o].st = "read" /\ UNCHANGED <<monitors, entries, apart>> /\ call' = [call EXCEPT ![o] = x] /\ ~Served(o)
    BY <1>0, <1>1 DEF ReadEntry, Served
  <1>3. /\ call[o] \in CallRec /\ \A d \in DOMAIN entries : d \in EntryIds /\ entries[d] \in BOOLEAN
    BY DEF CatalogInv, CatalogTypeOK, RowType
  <1>4. call[o].alone \in BOOLEAN /\ id \in EntryIds
    BY <1>0, <1>2, <1>3 DEF CallRec
  <1>5. x \in CallRec /\ (x.st = "idle" \/ x.id = id)
    BY <1>0, <1>1, <1>3, <1>4 DEF CallRec
  <1>6. /\ id \in DOMAIN entries => x.st = "sync" /\ x.on = entries[id] /\ x.alone = call[o].alone
        /\ id \notin DOMAIN entries => x.st = "idle"
    BY <1>1
  <1>7. /\ call' \in [Operators -> CallRec] /\ id \in EntryIds
        /\ call'[o] = x /\ \A p \in Operators \ {o} : call'[p] = call[p]
        /\ \A d \in EntryIds \ {id} : Inside(d)' = Inside(d) /\ \A p \in Inside(d) : call'[p] = call[p]
        /\ o \in Inside(id)
        /\ x.st = "idle" => Inside(id)' = Inside(id) \ {o}
        /\ x.st # "idle" => Inside(id)' = Inside(id)
    <2>1. GoesOn(o, x, id)
      BY <1>0, <1>2, <1>5, CallGoesOn
    <2> QED BY <1>5, <2>1 DEF GoesOn
  <1>8. InsideInv /\ Inside(id) \subseteq Operators
    BY DEF CatalogInv, Inside
  <1>9. ASSUME NEW p \in Inside(id)'
        PROVE  /\ call'[p].alone => /\ Inside(id)' = {p} /\ id \in DOMAIN entries'
                                    /\ call'[p].st = "sync" => call'[p].on = entries'[id]
               /\ id \notin apart' => call'[p].alone
    <2>1. p \in Inside(id)
      BY <1>7
    <2>2. CASE p = o
      <3>1. id \in DOMAIN entries
        BY <1>6, <1>7, <2>2
      <3> QED BY <1>2, <1>4, <1>6, <1>7, <1>8, <2>1, <2>2, <3>1 DEF InsideInv
    <2>3. CASE p # o
      <3>1. ~call[p].alone
        BY <1>4, <1>7, <1>8, <2>1, <2>3 DEF InsideInv
      <3> QED BY <1>2, <1>4, <1>7, <1>8, <2>1, <2>3, <3>1 DEF InsideInv
    <2> QED BY <2>2, <2>3
  <1>10. ASSUME id \notin apart', Inside(id)' = {} PROVE FALSE
    <2>1. id \notin apart /\ id \notin DOMAIN entries
      BY <1>2, <1>6, <1>7, <1>10
    <2> QED BY <1>4, <1>7, <1>8, <2>1 DEF InsideInv
  <1>11. InsideInv' /\ MirrorInStep'
    BY <1>2, <1>4, <1>7, <1>9, <1>10, OtherMirrors
  <1> QED BY <1>7, <1>11

LEMMA SyncMirrors ==
  ASSUME CatalogInv, NEW o \in Operators, SyncMirror(o)
  PROVE  InsideInv' /\ MirrorInStep' /\ call' \in [Operators -> CallRec] /\ apart' \subseteq EntryIds
  <1>0. PICK id : id = call[o].id
    OBVIOUS
  <1>1. PICK x : x = [st |-> "idle"]
    OBVIOUS
  <1>2. /\ call[o].st = "sync" /\ entries' = entries /\ call' = [call EXCEPT ![o] = x] /\ ~Served(o)
        /\ apart' = IF call[o].alone THEN apart \ {id} ELSE apart
    BY <1>0, <1>1 DEF SyncMirror, Served
  <1>3. x \in CallRec /\ x.st = "idle"
    BY <1>1 DEF CallRec
  <1>4. /\ call' \in [Operators -> CallRec] /\ call'[o] = x /\ \A p \in Operators \ {o} : call'[p] = call[p]
        /\ \A d \in EntryIds \ {id} : Inside(d)' = Inside(d) /\ \A p \in Inside(d) : call'[p] = call[p]
        /\ o \in Inside(id) /\ Inside(id)' = Inside(id) \ {o}
    <2>1. GoesOn(o, x, id)
      BY <1>0, <1>2, <1>3, CallGoesOn
    <2> QED BY <1>3, <2>1 DEF GoesOn
  <1>5. /\ id \in EntryIds /\ DOMAIN monitors' = DOMAIN monitors \cup {id} /\ monitors'[id].on = call[o].on
        /\ \A d \in DOMAIN monitors \ {id} : monitors'[d] = monitors[d]
    BY <1>0, SyncWrites DEF Writes
  <1>6. InsideInv /\ Inside(id) \subseteq Operators /\ apart \subseteq EntryIds
    BY DEF CatalogInv, Inside, CatalogTypeOK, RowType
  <1>7. ASSUME NEW p \in Inside(id)'
        PROVE  ~call'[p].alone /\ id \in apart'
    <2>1. p \in Inside(id) /\ p # o /\ call'[p] = call[p]
      BY <1>4, <1>6
    <2>2. ~call[p].alone /\ ~call[o].alone
      BY <1>4, <1>5, <1>6, <2>1 DEF InsideInv
    <2>3. id \in apart
      BY <1>5, <1>6, <2>1, <2>2 DEF InsideInv
    <2> QED BY <1>2, <2>1, <2>2, <2>3
  <1>8. ASSUME id \notin apart' PROVE InStep(id)'
    <2>1. call[o].alone
      BY <1>2, <1>4, <1>5, <1>6, <1>8 DEF InsideInv
    <2>2. id \in DOMAIN entries /\ call[o].on = entries[id]
      BY <1>2, <1>4, <1>5, <1>6, <2>1 DEF InsideInv
    <2> QED BY <1>2, <1>5, <2>2 DEF InStep
  <1>9. apart' \subseteq EntryIds /\ \A d \in EntryIds \ {id} : d \in apart' <=> d \in apart
    BY <1>2, <1>6
  <1>10. InsideInv' /\ MirrorInStep'
    BY <1>2, <1>4, <1>5, <1>7, <1>8, <1>9, OtherMirrors
  <1> QED BY <1>4, <1>9, <1>10

LEMMA CallFailsMirrors ==
  ASSUME CatalogInv, NEW o \in Operators, CallFails(o)
  PROVE  InsideInv' /\ MirrorInStep' /\ call' \in [Operators -> CallRec] /\ apart' \subseteq EntryIds
  <1>0. PICK id : id = call[o].id
    OBVIOUS
  <1>1. PICK x : x = [st |-> "idle"]
    OBVIOUS
  <1>2. /\ UNCHANGED <<entries, monitors>> /\ call' = [call EXCEPT ![o] = x] /\ ~Served(o) /\ apart' = apart \cup {id}
    BY <1>0, <1>1 DEF CallFails
  <1>3. x \in CallRec /\ x.st = "idle"
    BY <1>1 DEF CallRec
  <1>4. /\ call' \in [Operators -> CallRec]
        /\ call'[o] = x /\ \A p \in Operators \ {o} : call'[p] = call[p]
        /\ \A d \in EntryIds \ {id} : Inside(d)' = Inside(d) /\ \A p \in Inside(d) : call'[p] = call[p]
        /\ o \in Inside(id) /\ Inside(id)' = Inside(id) \ {o}
    <2>1. GoesOn(o, x, id)
      BY <1>0, <1>2, <1>3, CallGoesOn
    <2> QED BY <1>3, <2>1 DEF GoesOn
  <1>5. InsideInv /\ Inside(id) \subseteq Operators /\ apart \subseteq EntryIds /\ id \in EntryIds
    <2>1. call[o] \in CallRec /\ call[o].st # "idle"
      BY <1>2 DEF CatalogInv, CatalogTypeOK, RowType, Served
    <2>2. id \in EntryIds
      BY <1>0, <2>1 DEF CallRec
    <2> QED BY <2>2 DEF CatalogInv, Inside, CatalogTypeOK, RowType
  <1>6. ASSUME NEW p \in Inside(id)' PROVE ~call'[p].alone
    <2>1. p \in Inside(id) /\ p # o /\ call'[p] = call[p]
      BY <1>4, <1>5
    <2> QED BY <1>4, <1>5, <2>1 DEF InsideInv
  <1>7. id \in apart' /\ apart' \subseteq EntryIds /\ \A d \in EntryIds \ {id} : d \in apart' <=> d \in apart
    BY <1>2, <1>5
  <1>8. InsideInv' /\ MirrorInStep'
    BY <1>2, <1>4, <1>6, <1>7, OtherMirrors
  <1> QED BY <1>4, <1>7, <1>8

LEMMA DeleteEntryMirrors ==
  ASSUME CatalogInv, NEW id \in EntryIds, DeleteEntry(id)
  PROVE  InsideInv' /\ MirrorInStep' /\ call' \in [Operators -> CallRec] /\ apart' \subseteq EntryIds
  <1>1. /\ entries' = Omit(entries, {id}) /\ monitors' = Omit(monitors, {id}) /\ call' = Met(id)
        /\ apart' = IF Inside(id) = {} THEN apart \ {id} ELSE apart \cup {id}
    BY DEF DeleteEntry, Leaves
  <1>2. /\ DOMAIN entries' = DOMAIN entries \ {id} /\ DOMAIN monitors' = DOMAIN monitors \ {id}
        /\ \A d \in DOMAIN entries \ {id} : entries'[d] = entries[d]
        /\ \A d \in DOMAIN monitors \ {id} : monitors'[d] = monitors[d]
    BY <1>1 DEF Omit
  <1>3. /\ call' \in [Operators -> CallRec]
        /\ \A p \in Operators \ Inside(id) : call'[p] = call[p]
        /\ \A p \in Inside(id) : call'[p].st # "idle" /\ call'[p].id = id /\ ~call'[p].alone
    BY <1>1, MetIs
  <1>4. ASSUME NEW d \in EntryIds \ {id}
        PROVE  Inside(d)' = Inside(d) /\ \A p \in Inside(d) : call'[p] = call[p]
    <2>1. \A p \in Inside(d) : p \in Operators \ Inside(id)
      BY <1>4 DEF Inside
    <2>2. \A p \in Inside(d) : call'[p] = call[p]
      BY <1>3, <2>1
    <2>3. \A p \in Operators : p \in Inside(d)' => p \in Inside(d)
      BY <1>3, <1>4 DEF Inside
    <2>4. \A p \in Inside(d) : p \in Inside(d)'
      BY <2>1, <2>2 DEF Inside
    <2>5. Inside(d)' \subseteq Operators
      BY DEF Inside
    <2> QED BY <2>2, <2>3, <2>4, <2>5
  <1>5. Inside(id)' = Inside(id)
    <2>1. Inside(id) \subseteq Operators /\ Inside(id)' \subseteq Operators
      BY DEF Inside
    <2>2. \A p \in Inside(id) : p \in Inside(id)'
      BY <1>3, <2>1 DEF Inside
    <2>3. \A p \in Operators : p \in Inside(id)' => p \in Inside(id)
      BY <1>3 DEF Inside
    <2> QED BY <2>1, <2>2, <2>3
  <1>6. apart' \subseteq EntryIds /\ \A d \in EntryIds \ {id} : d \in apart' <=> d \in apart
    BY <1>1 DEF CatalogInv, CatalogTypeOK, RowType
  <1>7. Inside(id)' # {} => id \in apart'
    BY <1>1, <1>5
  <1>8. InStep(id)'
    BY <1>2 DEF InStep
  <1>9. InsideInv' /\ MirrorInStep'
    BY <1>2, <1>3, <1>4, <1>5, <1>6, <1>7, <1>8, OtherMirrors
  <1> QED BY <1>3, <1>6, <1>9

LEMMA StepMirrors ==
  ASSUME CatalogInv, [CatalogNext]_catalogVars PROVE InsideInv' /\ MirrorInStep'
  <1>0. \A e \in EntryIds : e \in DOMAIN monitors => monitors[e].src = "blacklist"
    BY DEF CatalogInv, DecisionInv
  <1>1. ASSUME NEW id \in CustomIds, NEW src \in {"custom", "builtin"}, NEW def \in Defs, NEW on \in BOOLEAN,
               SaveMonitor(id, src, def, on)
        PROVE  InsideInv' /\ MirrorInStep'
    <2>1. Writes(id, src, def, on) /\ id \notin EntryIds
      BY <1>1, SaveWrites, IdsApart
    <2>2. UNCHANGED <<entries, call, apart>>
      BY <1>1 DEF SaveMonitor
    <2> QED BY <2>1, <2>2, QuietMirrors DEF Writes
  <1>2. ASSUME NEW id \in Ids, DeleteMonitor(id) PROVE InsideInv' /\ MirrorInStep'
    <2>1. /\ id \in DOMAIN monitors /\ monitors[id].src # "blacklist" /\ monitors' = Omit(monitors, {id})
          /\ UNCHANGED <<entries, call, apart>>
      BY <1>2 DEF DeleteMonitor
    <2>2. id \notin EntryIds
      BY <1>0, <2>1
    <2>3. /\ DOMAIN monitors' = DOMAIN monitors \ {id}
          /\ \A k \in DOMAIN monitors \ {id} : monitors'[k] = monitors[k]
      BY <2>1 DEF Omit
    <2> QED BY <2>1, <2>2, <2>3, QuietMirrors
  <1>3. ASSUME NEW id \in Ids, NEW on \in BOOLEAN, ToggleMonitor(id, on) PROVE InsideInv' /\ MirrorInStep'
    <2>1. /\ Writes(id, monitors[id].src, monitors[id].def, on)
          /\ id \in DOMAIN monitors /\ monitors[id].src # "blacklist"
      BY <1>3, ToggleWrites
    <2>2. UNCHANGED <<entries, call, apart>> /\ id \notin EntryIds
      BY <1>0, <1>3, <2>1 DEF ToggleMonitor
    <2> QED BY <2>1, <2>2, QuietMirrors DEF Writes
  <1>4. ASSUME NEW s \in Starters, SeedWrites(s) PROVE InsideInv' /\ MirrorInStep'
    <2>1. PICK at \in Waited : Seeds(at)
      BY <1>4, SeedFacts
    <2>2. ASSUME NEW e \in EntryIds
          PROVE  /\ e \in DOMAIN monitors' <=> e \in DOMAIN monitors
                 /\ e \in DOMAIN monitors => monitors'[e].on = monitors[e].on
      BY <1>0, <2>1, IdsApart DEF Seeds, Gone
    <2>3. UNCHANGED <<entries, call, apart>>
      BY <1>4 DEF SeedWrites
    <2> QED BY <2>2, <2>3, QuietMirrors
  <1>5. ASSUME NEW s \in Starters, Resets(s) PROVE InsideInv' /\ MirrorInStep'
    <2>1. Switches(s) /\ UNCHANGED <<entries, call, apart>>
      BY <1>5, ResetFacts DEF Resets
    <2>2. ASSUME NEW e \in EntryIds
          PROVE  /\ e \in DOMAIN monitors' <=> e \in DOMAIN monitors
                 /\ e \in DOMAIN monitors => monitors'[e].on = monitors[e].on
      BY <1>0, <2>1 DEF Switches
    <2> QED BY <2>1, <2>2, QuietMirrors
  <1>6. CASE \/ \E s \in Starters, release \in Releases : SeedReads(s, release)
             \/ \E s \in Starters : ReadsFlag(s) \/ Marks(s) \/ StarterDies(s)
             \/ SecondPasses
    BY <1>6, QuietMirrors DEF SeedReads, ReadsFlag, Marks, StarterDies, SecondPasses
  <1>7. CASE Refreshes
    BY <1>7, QuietMirrors
    DEF Refreshes, RefreshStamps, RefreshLists, RefreshFails, Indexes, Publishes, AutomatonIsBuilt, dbVars
  <1>8. CASE UNCHANGED catalogVars
    BY <1>8, QuietMirrors DEF catalogVars
  <1> QED BY <1>1, <1>2, <1>3, <1>4, <1>5, <1>6, <1>7, <1>8,
             WriteEntryMirrors, ReadEntryMirrors, SyncMirrors, CallFailsMirrors, DeleteEntryMirrors
           DEF CatalogNext, Edits, Starts

-----------------------------------------------------------------------------
(* Types, and the theorems of the catalog. *)

\* Each part of the type invariant, of a step that leaves its variables alone.
LEMMA QuietRowType ==
  ASSUME CatalogInv, UNCHANGED <<monitors, entries, call, apart>> PROVE RowType'
  BY DEF CatalogInv, CatalogTypeOK, RowType, IsTable

LEMMA QuietDecisionType ==
  ASSUME CatalogInv, UNCHANGED <<choice, overrun, mine>> PROVE DecisionType'
  BY DEF CatalogInv, CatalogTypeOK, DecisionType, IsTable

LEMMA RowsType ==
  ASSUME CatalogInv, monitors' \in Tables, UNCHANGED <<entries, call, apart>> PROVE RowType'
  BY DEF CatalogInv, CatalogTypeOK, RowType, IsTable

LEMMA EntriesType ==
  ASSUME CatalogInv, monitors' \in Tables, IsTable(entries'),
         \A id \in DOMAIN entries' : id \in EntryIds /\ entries'[id] \in BOOLEAN,
         call' \in [Operators -> CallRec], apart' \subseteq EntryIds
  PROVE  RowType'
  <1>1. IsTable(entries)'
    BY DEF IsTable
  <1> QED BY <1>1 DEF RowType

LEMMA StepRowType ==
  ASSUME CatalogInv, [CatalogNext]_catalogVars PROVE RowType'
  <1>0. /\ monitors \in Tables /\ call \in [Operators -> CallRec] /\ IsTable(entries) /\ apart \subseteq EntryIds
        /\ \A id \in DOMAIN entries : id \in EntryIds /\ entries[id] \in BOOLEAN
    BY DEF CatalogInv, CatalogTypeOK, RowType
  <1>1. ASSUME NEW id \in CustomIds, NEW src \in {"custom", "builtin"}, NEW def \in Defs, NEW on \in BOOLEAN,
               SaveMonitor(id, src, def, on)
        PROVE  RowType'
    BY <1>1, SaveWrites, RowsType DEF Writes, SaveMonitor
  <1>2. ASSUME NEW id \in Ids, DeleteMonitor(id) PROVE RowType'
    <2>1. monitors' = Omit(monitors, {id}) /\ UNCHANGED <<entries, call, apart>>
      BY <1>2 DEF DeleteMonitor
    <2>2. Omit(monitors, {id}) \in Tables
      BY <1>0, OmitTable
    <2> QED BY <2>1, <2>2, RowsType
  <1>3. ASSUME NEW id \in Ids, NEW on \in BOOLEAN, ToggleMonitor(id, on) PROVE RowType'
    BY <1>3, ToggleWrites, RowsType DEF Writes, ToggleMonitor
  <1>4. ASSUME NEW o \in Operators, NEW id \in EntryIds, NEW on \in BOOLEAN, WriteEntry(o, id, on) PROVE RowType'
    <2>1. /\ monitors' = monitors /\ entries' = Set(entries, id, on)
          /\ call' \in [Operators -> CallRec] /\ apart' \subseteq EntryIds
      BY <1>4, WriteEntryMirrors DEF WriteEntry
    <2>2. IsTable(entries') /\ \A k \in DOMAIN entries' : k \in EntryIds /\ entries'[k] \in BOOLEAN
      BY <1>0, <2>1 DEF Set, IsTable
    <2> QED BY <1>0, <2>1, <2>2, EntriesType
  <1>5. ASSUME NEW id \in EntryIds, DeleteEntry(id) PROVE RowType'
    <2>1. /\ monitors' = Omit(monitors, {id}) /\ entries' = Omit(entries, {id})
          /\ call' \in [Operators -> CallRec] /\ apart' \subseteq EntryIds
      BY <1>5, DeleteEntryMirrors DEF DeleteEntry
    <2>2. monitors' \in Tables
      <3>1. Omit(monitors, {id}) \in Tables
        BY <1>0, OmitTable
      <3> QED BY <2>1, <3>1
    <2>3. IsTable(entries') /\ \A k \in DOMAIN entries' : k \in EntryIds /\ entries'[k] \in BOOLEAN
      BY <1>0, <2>1 DEF Omit, IsTable
    <2> QED BY <2>1, <2>2, <2>3, EntriesType
  <1>6. ASSUME NEW o \in Operators, ReadEntry(o) PROVE RowType'
    BY <1>0, <1>6, ReadEntryMirrors, EntriesType DEF ReadEntry
  <1>7. ASSUME NEW o \in Operators, SyncMirror(o) PROVE RowType'
    <2>1. monitors' \in Tables
      BY <1>7, SyncWrites DEF Writes
    <2>2. entries' = entries
      BY <1>7 DEF SyncMirror
    <2>3. call' \in [Operators -> CallRec] /\ apart' \subseteq EntryIds
      BY <1>7, SyncMirrors
    <2> QED BY <1>0, <2>1, <2>2, <2>3, EntriesType
  <1>8. ASSUME NEW o \in Operators, CallFails(o) PROVE RowType'
    BY <1>0, <1>8, CallFailsMirrors, EntriesType DEF CallFails
  <1>9. ASSUME NEW s \in Starters, SeedWrites(s) PROVE RowType'
    <2>1. monitors' \in Tables
      BY <1>9, SeedFacts DEF Seeds
    <2> QED BY <1>9, <2>1, RowsType DEF SeedWrites
  <1>10. ASSUME NEW s \in Starters, Resets(s) PROVE RowType'
    BY <1>10, ResetFacts, RowsType DEF Resets, Switches
  <1>11. CASE \/ \E s \in Starters, release \in Releases : SeedReads(s, release)
              \/ \E s \in Starters : ReadsFlag(s) \/ Marks(s) \/ StarterDies(s)
              \/ SecondPasses
    BY <1>11, QuietRowType DEF SeedReads, ReadsFlag, Marks, StarterDies, SecondPasses
  <1>12. CASE Refreshes
    BY <1>12, QuietRowType
    DEF Refreshes, RefreshStamps, RefreshLists, RefreshFails, Indexes, Publishes, AutomatonIsBuilt, dbVars
  <1>13. CASE UNCHANGED catalogVars
    BY <1>13, QuietRowType DEF catalogVars
  <1> QED BY <1>1, <1>2, <1>3, <1>4, <1>5, <1>6, <1>7, <1>8, <1>9, <1>10, <1>11, <1>12, <1>13
           DEF CatalogNext, Edits, Starts

LEMMA StepStartType ==
  ASSUME CatalogInv, [CatalogNext]_catalogVars PROVE StartType'
  <1>0. starting \in [Starters -> StartRec] /\ flag \in BOOLEAN /\ reset \in BOOLEAN /\ doubled \in BOOLEAN /\ monitors \in Tables
    BY DEF CatalogInv, CatalogTypeOK, StartType, RowType
  <1>1. ASSUME NEW s \in Starters, NEW x \in StartRec, starting' = [starting EXCEPT ![s] = x],
               flag' \in BOOLEAN, reset' \in BOOLEAN, doubled' \in BOOLEAN
        PROVE  StartType'
    BY <1>0, <1>1 DEF StartType
  <1>2. PICK idle \in StartRec : idle = [pc |-> "idle"]
    BY DEF StartRec
  <1>3. ASSUME NEW s \in Starters, starting[s].pc \in {"seed", "flag", "reset"}, NEW pc \in {"flag", "reset", "mark"}
        PROVE  At(s, pc) \in StartRec
    <2>1. starting[s] \in StartRec
      BY <1>0
    <2>2. starting[s].release \in Releases
      BY <1>3, <2>1 DEF StartRec
    <2> QED BY <2>2 DEF At, StartRec
  <1>4. ASSUME NEW s \in Starters, NEW release \in Releases, SeedReads(s, release) PROVE StartType'
    <2>1. PICK x \in StartRec : x = [pc |-> "seed", release |-> release, then |-> monitors]
      BY <1>0 DEF StartRec
    <2> QED BY <1>0, <1>1, <1>4, <2>1 DEF SeedReads
  <1>5. ASSUME NEW s \in Starters, SeedWrites(s) PROVE StartType'
    <2>1. PICK x \in StartRec : x = At(s, "flag")
      BY <1>3, <1>5 DEF SeedWrites
    <2> QED BY <1>0, <1>1, <1>5, <2>1 DEF SeedWrites
  <1>6. ASSUME NEW s \in Starters, ReadsFlag(s) PROVE StartType'
    <2>1. PICK x \in StartRec : x = IF flag THEN [pc |-> "idle"] ELSE At(s, "reset")
      BY <1>2, <1>3, <1>6 DEF ReadsFlag
    <2> QED BY <1>0, <1>1, <1>6, <2>1 DEF ReadsFlag
  <1>7. ASSUME NEW s \in Starters, Resets(s) PROVE StartType'
    <2>1. PICK x \in StartRec : x = At(s, "mark")
      BY <1>3, <1>7 DEF Resets
    <2> QED BY <1>0, <1>1, <1>7, <2>1 DEF Resets
  <1>8. ASSUME NEW s \in Starters, Marks(s) \/ StarterDies(s) PROVE StartType'
    <2>1. starting' = [starting EXCEPT ![s] = idle] /\ flag' \in BOOLEAN /\ reset' \in BOOLEAN /\ doubled' \in BOOLEAN
      BY <1>0, <1>2, <1>8 DEF Marks, StarterDies
    <2> QED BY <1>1, <2>1
  <1>9. ASSUME UNCHANGED startVars PROVE StartType'
    BY <1>0, <1>9 DEF StartType, startVars
  <1>10. CASE Edits \/ SecondPasses
    BY <1>9, <1>10 DEF Edits, SaveMonitor, DeleteMonitor, ToggleMonitor, WriteEntry, DeleteEntry, ReadEntry, SyncMirror,
                       CallFails, SecondPasses
  <1>11. CASE Refreshes
    BY <1>9, <1>11 DEF Refreshes, RefreshStamps, RefreshLists, RefreshFails, Indexes, Publishes, AutomatonIsBuilt, dbVars
  <1>12. CASE UNCHANGED catalogVars
    BY <1>9, <1>12 DEF catalogVars
  <1> QED BY <1>4, <1>5, <1>6, <1>7, <1>8, <1>10, <1>11, <1>12 DEF CatalogNext, Starts

LEMMA StepDecisionType ==
  ASSUME CatalogInv, [CatalogNext]_catalogVars PROVE DecisionType'
  <1> DEFINE Kind == [def : Criteria, on : BOOLEAN]
  <1>0. /\ IsTable(choice) /\ \A k \in DOMAIN choice : choice[k] \in BOOLEAN
        /\ IsTable(mine) /\ \A k \in DOMAIN mine : mine[k] \in Kind
        /\ overrun \subseteq Ids /\ DOMAIN monitors \subseteq Ids
    BY TableFacts DEF CatalogInv, CatalogTypeOK, DecisionType, RowType
  <1>1. ASSUME IsTable(choice'), \A k \in DOMAIN choice' : choice'[k] \in BOOLEAN,
               IsTable(mine'), \A k \in DOMAIN mine' : mine'[k] \in Kind, overrun' \subseteq Ids
        PROVE  DecisionType'
    BY <1>1 DEF DecisionType, IsTable
  <1>2. ASSUME NEW id \in CustomIds, NEW src \in {"custom", "builtin"}, NEW def \in Defs, NEW on \in BOOLEAN,
               SaveMonitor(id, src, def, on)
        PROVE  DecisionType'
    <2>1. /\ mine' = IF src = "custom" THEN Set(mine, id, [def |-> def, on |-> on]) ELSE Omit(mine, {id})
          /\ choice' = choice /\ overrun' \subseteq Ids
      BY <1>0, <1>2 DEF SaveMonitor
    <2>2. PICK row \in Kind : row = [def |-> def, on |-> on]
      BY DEF Defs
    <2> HIDE DEF Kind
    <2>3. CASE src = "custom"
      <3>1. mine' = Set(mine, id, row)
        BY <2>1, <2>2, <2>3
      <3>2. IsTable(mine') /\ \A k \in DOMAIN mine' : mine'[k] \in Kind
        BY <1>0, <3>1 DEF Set, IsTable
      <3> QED BY <1>0, <1>1, <2>1, <3>2
    <2>4. CASE src # "custom"
      <3>1. mine' = Omit(mine, {id})
        BY <2>1, <2>4
      <3>2. IsTable(mine') /\ \A k \in DOMAIN mine' : mine'[k] \in Kind
        BY <1>0, <3>1 DEF Omit, IsTable
      <3> QED BY <1>0, <1>1, <2>1, <3>2
    <2> QED BY <2>3, <2>4
  <1>3. ASSUME NEW id \in Ids, DeleteMonitor(id) PROVE DecisionType'
    <2>1. mine' = Omit(mine, {id}) /\ choice' = choice /\ overrun' \subseteq Ids
      BY <1>0, <1>3 DEF DeleteMonitor
    <2> HIDE DEF Kind
    <2>2. IsTable(mine') /\ \A k \in DOMAIN mine' : mine'[k] \in Kind
      BY <1>0, <2>1 DEF Omit, IsTable
    <2> QED BY <1>0, <1>1, <2>1, <2>2
  <1>4. ASSUME NEW id \in Ids, NEW on \in BOOLEAN, ToggleMonitor(id, on) PROVE DecisionType'
    <2>1. /\ choice' = IF monitors[id].src = "builtin" THEN Set(choice, id, on) ELSE choice
          /\ mine' = IF id \in DOMAIN mine THEN [mine EXCEPT ![id].on = on] ELSE mine
          /\ overrun' \subseteq Ids
      BY <1>0, <1>4 DEF ToggleMonitor
    <2>2. IsTable(choice') /\ \A k \in DOMAIN choice' : choice'[k] \in BOOLEAN
      <3>1. CASE monitors[id].src = "builtin"
        <4>1. choice' = Set(choice, id, on)
          BY <2>1, <3>1
        <4> QED BY <1>0, <4>1 DEF Set, IsTable
      <3>2. CASE monitors[id].src # "builtin"
        BY <1>0, <2>1, <3>2
      <3> QED BY <3>1, <3>2
    <2>3. IsTable(mine') /\ \A k \in DOMAIN mine' : mine'[k] \in Kind
      <3>1. CASE id \in DOMAIN mine
        <4>1. PICK row : row = [mine[id] EXCEPT !.on = on]
          OBVIOUS
        <4>2. row \in Kind
          BY <1>0, <3>1, <4>1
        <4>3. mine' = [mine EXCEPT ![id] = row]
          BY <2>1, <3>1, <4>1
        <4> HIDE DEF Kind
        <4>4. /\ DOMAIN mine' = DOMAIN mine /\ IsTable(mine')
              /\ \A k \in DOMAIN mine' : mine'[k] = IF k = id THEN row ELSE mine[k]
          BY <4>3 DEF IsTable
        <4> QED BY <1>0, <4>2, <4>4
      <3>2. CASE id \notin DOMAIN mine
        BY <1>0, <2>1, <3>2
      <3> QED BY <3>1, <3>2
    <2> HIDE DEF Kind
    <2> QED BY <1>1, <2>1, <2>2, <2>3
  <1>5. ASSUME NEW leaving, choice' = Omit(choice, leaving), mine' = mine, overrun' \subseteq Ids PROVE DecisionType'
    <2> HIDE DEF Kind
    <2>1. IsTable(choice') /\ \A k \in DOMAIN choice' : choice'[k] \in BOOLEAN
      BY <1>0, <1>5 DEF Omit, IsTable
    <2> QED BY <1>0, <1>1, <1>5, <2>1
  <1>6. ASSUME NEW s \in Starters, SeedWrites(s) PROVE DecisionType'
    <2>1. PICK at \in Waited : Seeds(at)
      BY <1>6, SeedFacts
    <2>2. choice' = Omit(choice, Gone) /\ overrun' = overrun \ Gone /\ mine' = mine
      BY <1>6, <2>1 DEF Seeds, SeedWrites
    <2> QED BY <1>0, <1>5, <2>2
  <1>7. ASSUME NEW s \in Starters, Resets(s) PROVE DecisionType'
    <2>1. PICK shipped : shipped = {id \in DOMAIN monitors \cap DOMAIN starting[s].release : monitors[id].src = "builtin"}
      OBVIOUS
    <2>2. /\ choice' = IF reset THEN choice ELSE Omit(choice, shipped)
          /\ overrun' = IF reset /\ doubled THEN overrun \cup (shipped \cap DOMAIN choice) ELSE overrun
          /\ mine' = mine
      BY <1>7, <2>1 DEF Resets
    <2>3. overrun' \subseteq Ids
      BY <1>0, <2>1, <2>2
    <2> HIDE DEF Kind
    <2>4. CASE reset
      BY <1>0, <1>1, <2>2, <2>3, <2>4
    <2>5. CASE ~reset
      BY <1>5, <2>2, <2>3, <2>5
    <2> QED BY <2>4, <2>5
  <1>8. CASE UNCHANGED ghosts
    BY <1>8, QuietDecisionType DEF ghosts
  <1>9. CASE Refreshes
    BY <1>8, <1>9 DEF Refreshes, RefreshStamps, RefreshLists, RefreshFails, Indexes, Publishes, AutomatonIsBuilt, dbVars
  <1>10. CASE \/ \E o \in Operators, id \in EntryIds, on \in BOOLEAN : WriteEntry(o, id, on)
              \/ \E id \in EntryIds : DeleteEntry(id)
              \/ \E o \in Operators : ReadEntry(o) \/ SyncMirror(o) \/ CallFails(o)
              \/ \E s \in Starters, release \in Releases : SeedReads(s, release)
              \/ \E s \in Starters : ReadsFlag(s) \/ Marks(s) \/ StarterDies(s)
              \/ SecondPasses \/ UNCHANGED catalogVars
    BY <1>8, <1>10 DEF WriteEntry, DeleteEntry, ReadEntry, SyncMirror, CallFails, SeedReads, ReadsFlag, Marks, StarterDies,
                       SecondPasses, catalogVars
  <1> QED BY <1>2, <1>3, <1>4, <1>6, <1>7, <1>9, <1>10 DEF CatalogNext, Edits, Starts

LEMMA StepClockType ==
  ASSUME CatalogInv, [CatalogNext]_catalogVars PROVE ClockType'
  <1>0. second \in Nat /\ wrote \in Nat /\ blurred \in BOOLEAN /\ edits \in Nat /\ seeds \in Nat
    BY DEF CatalogInv, CatalogTypeOK, ClockType
  <1>1. ASSUME NEW at \in Waited, Stamped(at) PROVE wrote' \in Nat /\ blurred' \in BOOLEAN
    BY <1>0, <1>1, LargerOf DEF Stamped, Waited
  <1>2. ASSUME Unstamped PROVE wrote' \in Nat /\ blurred' \in BOOLEAN
    BY <1>0, <1>2 DEF Unstamped
  <1>3. ASSUME Edit PROVE edits' \in Nat
    BY <1>0, <1>3 DEF Edit
  <1>4. CASE Edits
    <2>1. UNCHANGED <<second, seeds>> /\ edits' \in Nat
      BY <1>0, <1>3, <1>4 DEF Edits, SaveMonitor, DeleteMonitor, ToggleMonitor, WriteEntry, DeleteEntry, ReadEntry,
                              SyncMirror, CallFails, startVars
    <2>2. \/ \E at \in Waited : Stamped(at)
          \/ Unstamped \/ UNCHANGED clockVars
      BY <1>4 DEF Edits, SaveMonitor, DeleteMonitor, ToggleMonitor, WriteEntry, DeleteEntry, ReadEntry, SyncMirror, CallFails
    <2>3. wrote' \in Nat /\ blurred' \in BOOLEAN
      BY <1>0, <1>1, <1>2, <2>2 DEF clockVars
    <2> QED BY <1>0, <2>1, <2>3 DEF ClockType
  <1>5. ASSUME NEW s \in Starters, SeedWrites(s) PROVE ClockType'
    <2>1. UNCHANGED <<second, edits, seeds>>
      BY <1>5 DEF SeedWrites
    <2>2. PICK at \in Waited : Seeds(at)
      BY <1>5, SeedFacts
    <2>3. \/ UNCHANGED <<wrote, blurred>> \/ Unstamped
          \/ /\ wrote' = Max({wrote, at})
             /\ blurred' = (blurred \/ at <= wrote \/ (Gone # {} /\ sniffer.torn))
      BY <2>2 DEF Seeds, clockVars
    <2>4. at \in Nat
      BY <1>0 DEF Waited
    <2> QED BY <1>0, <1>2, <2>1, <2>3, <2>4, LargerOf DEF ClockType
  <1>6. ASSUME NEW s \in Starters, NEW release \in Releases, SeedReads(s, release) PROVE ClockType'
    BY <1>0, <1>6 DEF SeedReads, clockVars, ClockType
  <1>7. ASSUME NEW s \in Starters, ReadsFlag(s) \/ Resets(s) \/ Marks(s) \/ StarterDies(s) PROVE ClockType'
    BY <1>0, <1>7 DEF ReadsFlag, Resets, Marks, StarterDies, clockVars, ClockType
  <1>8. CASE SecondPasses \/ UNCHANGED catalogVars
    BY <1>0, <1>8 DEF SecondPasses, catalogVars, clockVars, startVars, ClockType
  <1>9. CASE Refreshes
    BY <1>0, <1>9 DEF Refreshes, RefreshStamps, RefreshLists, RefreshFails, Indexes, Publishes, AutomatonIsBuilt, dbVars,
                      startVars, ClockType
  <1> QED BY <1>4, <1>5, <1>6, <1>7, <1>8, <1>9 DEF CatalogNext, Starts

LEMMA CatalogStep ==
  CatalogInv /\ [CatalogNext]_catalogVars => CatalogInv'
  <1> SUFFICES ASSUME CatalogInv, [CatalogNext]_catalogVars PROVE CatalogInv'
    OBVIOUS
  <1>1. CatalogTypeOK'
    BY StepRowType, StepStartType, StepView, StepDecisionType, StepClockType DEF CatalogTypeOK
  <1>2. DecisionInv' /\ ResetInv' /\ InsideInv' /\ MirrorInStep'
    BY StepDecisions, StepReset, StepMirrors
  <1>3. ClockInv' /\ StampInv' /\ OneInv' /\ NumberInv' /\ IndexInv'
    BY StepView
  <1> QED BY <1>1, <1>2, <1>3 DEF CatalogInv

LEMMA CatalogStart == CatalogInit => CatalogInv
  <1> SUFFICES ASSUME CatalogInit PROVE CatalogInv
    OBVIOUS
  <1>1. PICK release \in Releases :
          monitors = [id \in DOMAIN release |->
                        [src |-> "builtin", def |-> release[id].def, on |-> release[id].on, at |-> 0]]
    BY DEF CatalogInit
  <1>2. /\ entries = Nothing /\ flag \in BOOLEAN /\ reset = flag /\ doubled = FALSE
        /\ call = [o \in Operators |-> [st |-> "idle"]] /\ starting = [s \in Starters |-> [pc |-> "idle"]]
        /\ second = 0
        /\ sniffer = [rows |-> Nothing, n |-> 0, stamp |-> <<>>, begun |-> FALSE, inflight |-> FALSE,
                      torn |-> FALSE, lost |-> FALSE, mixed |-> FALSE]
        /\ refresh = [r \in Refreshers |-> [pc |-> "idle"]]
        /\ index = [sig |-> <<>>, ref |-> 0, content |-> <<>>] /\ building = {}
        /\ edits = 0 /\ seeds = 0 /\ loads = 0
        /\ choice = Nothing /\ overrun = {} /\ mine = Nothing /\ apart = {} /\ wrote = 0 /\ blurred = FALSE
    BY DEF CatalogInit
  <1>3. /\ DOMAIN release \subseteq BuiltinIds
        /\ \A id \in DOMAIN release : release[id].def \in Criteria /\ release[id].on \in BOOLEAN
    BY ReleaseFacts
  <1>4. /\ DOMAIN monitors = DOMAIN release
        /\ \A id \in DOMAIN monitors :
             monitors[id] \in MonitorRec /\ monitors[id].src = "builtin" /\ monitors[id].at = 0
    BY <1>1, <1>3 DEF MonitorRec
  <1>5. monitors \in Tables
    <2> DEFINE t == [id \in DOMAIN release |->
                       [src |-> "builtin", def |-> release[id].def, on |-> release[id].on, at |-> 0]]
    <2>1. IsTable(t) /\ DOMAIN t \subseteq Ids
      BY <1>3 DEF IsTable, Ids
    <2>2. IsFiniteSet(DOMAIN t)
      <3>1. IsFiniteSet(DOMAIN release)
        BY <1>3, CatalogAssumption, FS_Subset
      <3> QED BY <3>1
    <2>3. monitors = t /\ \A k \in DOMAIN t : t[k] \in MonitorRec
      BY <1>1, <1>4
    <2> HIDE DEF t, MonitorRec
    <2> QED BY <2>1, <2>2, <2>3, TableIs
  <1>6. Nothing \in Tables /\ DOMAIN Nothing = {} /\ IsTable(Nothing)
    BY NoTable
  <1>7. RowType
    <2>1. [st |-> "idle"] \in CallRec
      BY DEF CallRec
    <2> QED BY <1>2, <1>5, <1>6, <2>1 DEF RowType
  <1>8. ViewType
    <2>1. sniffer \in SnifferRec
      BY <1>2, <1>6 DEF SnifferRec
    <2>2. refresh \in [Refreshers -> RefreshRec]
      <3>1. [pc |-> "idle"] \in RefreshRec
        BY DEF RefreshRec
      <3> QED BY <1>2, <3>1
    <2> QED BY <1>2, <2>1, <2>2 DEF ViewType
  <1>9. StartType
    <2>1. [pc |-> "idle"] \in StartRec
      BY DEF StartRec
    <2> QED BY <1>2, <2>1 DEF StartType
  <1>10. CatalogTypeOK
    BY <1>2, <1>6, <1>7, <1>8, <1>9 DEF CatalogTypeOK, DecisionType, ClockType
  <1>11. DecisionInv
    BY <1>2, <1>3, <1>4, <1>6, IdsApart DEF DecisionInv
  <1>12. InsideInv /\ MirrorInStep
    <2>1. \A e : Inside(e) = {}
      BY <1>2 DEF Inside
    <2> QED BY <1>2, <1>3, <1>4, <1>6, <2>1, IdsApart DEF InsideInv, MirrorInStep, InStep
  <1>13. ClockInv /\ ResetInv
    BY <1>2, <1>4 DEF ClockInv, ResetInv, Resetting
  <1>14. StampInv /\ OneInv /\ NumberInv /\ IndexInv
    BY <1>2 DEF StampInv, OneInv, NumberInv, IndexInv, Resting, Holds
  <1> QED BY <1>10, <1>11, <1>12, <1>13, <1>14 DEF CatalogInv

\* The invariant of the catalog is inductive: what an operator decided, the reset of the switches, the calls inside
\* an entry, the stamp the sniffer goes by and its index, through every step of operators, starters and reloads.
THEOREM CatalogInductive == CatalogSpec => []CatalogInv
  BY CatalogStart, CatalogStep, PTL DEF CatalogSpec

\* The tables and the sniffer's view of them keep their types (store.py, monitors.py).
THEOREM CatalogTypeCorrect == CatalogSpec => []CatalogTypeOK
  <1>1. CatalogInv => CatalogTypeOK
    BY DEF CatalogInv
  <1> QED BY <1>1, CatalogInductive, PTL

\* What an operator decided about a monitor stays, through any number of processes that seed the catalog and reset
\* its switches, the choices of before the first reset and those a doubled one ran over excepted
\* (_seed_new_builtin_monitors, _apply_new_monitor_defaults_once).
THEOREM DecisionsStayCorrect == CatalogSpec => []DecisionsStay
  <1>1. CatalogInv => DecisionsStay
    BY DEF CatalogInv, DecisionInv, DecisionsStay
  <1> QED BY <1>1, CatalogInductive, PTL

\* An entry of the blacklist and its mirror agree once the calls in it are over, for any number of operators, unless
\* the last of them failed half way or two met in it (_sync_blacklist_monitor).
THEOREM MirrorInStepCorrect == CatalogSpec => []MirrorInStep
  <1>1. CatalogInv => MirrorInStep
    BY DEF CatalogInv
  <1> QED BY <1>1, CatalogInductive, PTL

\* When no refresh runs, the stamp is of the list the sniffer has.
LEMMA TheStampTells ==
  ASSUME CatalogInv PROVE StampTellsChanges
  <1> SUFFICES ASSUME ~blurred, ~sniffer.lost, ~sniffer.mixed, \A r \in Refreshers : Resting(r), sniffer.stamp = Stamp
               PROVE  sniffer.rows = monitors
    BY DEF StampTellsChanges
  <1>1. sniffer.rows \in Tables
    BY DEF CatalogInv, CatalogTypeOK, ViewType, SnifferRec
  <1>2. Stamp = StampOf(monitors)
    BY DEF Stamp, StampOf
  <1>3. sniffer.stamp # <<>>
    <2>1. \A a, b, c : <<a, b, c>> # <<>>
      OBVIOUS
    <2> QED BY <2>1 DEF Stamp
  <1>4. \A r \in Refreshers : ~Taken(r)
    BY DEF Taken, Resting
  <1>5. StampInv
    BY DEF CatalogInv
  <1>6. Stands(sniffer.rows)
    BY <1>3, <1>4, <1>5 DEF StampInv
  <1> QED BY <1>1, <1>2, <1>6, StampOfRead DEF Stands

\* What the automaton and the two maps leave out does not match.
LEMMA TheIndexCovers ==
  ASSUME CatalogInv, NEW p \in Packets, Indexed, building = {},
         NEW id \in DOMAIN sniffer.rows, Matches(sniffer.rows[id], p)
  PROVE  id \in Candidates(p)
  <1> DEFINE rows == sniffer.rows
             def == rows[id].def
  <1>1. index.sig = <<rows>> /\ index.content = <<ContentOf(rows)>>
    <2>1. IndexInv /\ NumberInv
      BY DEF CatalogInv
    <2>2. index.sig # <<>> /\ index.ref = sniffer.n
      BY <2>1 DEF IndexInv, Indexed
    <2>3. index.sig = <<rows>>
      BY <2>1, <2>2 DEF NumberInv
    <2>4. <<rows>>[1] = rows /\ <<rows>> # <<>>
      OBVIOUS
    <2> QED BY <2>1, <2>3, <2>4 DEF IndexInv
  <1>2. rows \in Tables
    BY DEF CatalogInv, CatalogTypeOK, ViewType, SnifferRec
  <1>3. def.contains \in SUBSET Literals /\ def.port \in {0, 1} /\ p.port \in 0..2
    <2>1. def \in Criteria
      BY <1>2, TableFacts DEF MonitorRec
    <2> QED BY <2>1 DEF Criteria, Packets
  <1>4. (def.port # 0 => def.port = p.port) /\ (def.contains # {} => def.contains \cap p.text # {})
    BY DEF Matches, FieldsMatch, TextMatches
  <1>5. index.sig[1] = rows /\ index.content[1] = ContentOf(rows)
    BY <1>1
  <1>6. CASE def.contains # {}
    <2>1. PICK l \in def.contains : l \in p.text
      BY <1>4, <1>6
    <2>2. <<l, id>> \in ContentOf(rows)
      BY <1>3, <2>1 DEF ContentOf
    <2>3. <<l, id>> \in index.content[1]
      BY <1>5, <2>2
    <2>4. id \in {k \in DOMAIN index.sig[1] : \E m \in p.text : <<m, k>> \in index.content[1]}
      BY <1>5, <2>1, <2>3
    <2> QED BY <2>4 DEF Candidates
  <1>7. CASE def.contains = {} /\ def.port # 0
    <2>1. id \in {k \in DOMAIN index.sig[1] :
                    /\ index.sig[1][k].def.contains = {} /\ index.sig[1][k].def.port # 0
                    /\ (p.port = 0 \/ p.port = index.sig[1][k].def.port)}
      BY <1>4, <1>5, <1>7
    <2> QED BY <2>1 DEF Candidates
  <1>8. CASE def.contains = {} /\ def.port = 0
    <2>1. id \in {k \in DOMAIN index.sig[1] : index.sig[1][k].def.contains = {} /\ index.sig[1][k].def.port = 0}
      BY <1>5, <1>8
    <2> QED BY <2>1 DEF Candidates
  <1> QED BY <1>6, <1>7, <1>8

LEMMA TheIndexIsHonest ==
  ASSUME CatalogInv PROVE IndexIsHonest
  <1> SUFFICES ASSUME NEW p \in Packets
               PROVE  LET all == {id \in DOMAIN sniffer.rows : Matches(sniffer.rows[id], p)}
                      IN  Hits(p) \subseteq all /\ (building = {} => Hits(p) = all)
    BY DEF IndexIsHonest
  <1> DEFINE all == {id \in DOMAIN sniffer.rows : Matches(sniffer.rows[id], p)}
  <1>1. CASE ~Indexed
    BY <1>1 DEF Hits
  <1>2. CASE Indexed
    <2>1. index.sig = <<sniffer.rows>>
      <3>1. IndexInv /\ NumberInv
        BY DEF CatalogInv
      <3>2. index.sig # <<>> /\ index.ref = sniffer.n
        BY <1>2, <3>1 DEF IndexInv, Indexed
      <3> QED BY <3>1, <3>2 DEF NumberInv
    <2>2. index.sig[1] = sniffer.rows
      BY <2>1
    <2>3. Hits(p) = {id \in Candidates(p) : Matches(sniffer.rows[id], p)}
      BY <1>2, <2>2 DEF Hits
    <2>4. Candidates(p) \subseteq DOMAIN sniffer.rows
      BY <2>2 DEF Candidates
    <2>5. building = {} => all \subseteq Candidates(p)
      BY <1>2, TheIndexCovers
    <2> HIDE DEF Matches
    <2> QED BY <2>3, <2>4, <2>5
  <1> QED BY <1>1, <1>2

\* The view the sniffer evaluates packets with is the catalog, while its stamp is the catalog's, no change came with
\* an earlier second and no two refreshes ran at once; and the index answers as the list would
\* (_refresh_monitor_cache, ensure_monitor_index).
THEOREM CacheIsHonestCorrect == CatalogSpec => []CacheIsHonest
  <1>1. CatalogInv => CacheIsHonest
    BY TheStampTells, TheIndexIsHonest DEF CacheIsHonest
  <1> QED BY <1>1, CatalogInductive, PTL
-----------------------------------------------------------------------------
(* Keys and certificates. *)

Stages == {"check", "unlink key", "unlink cert", "unlink serial", "ca key", "ca cert", "key", "request", "sign", "load", "pin"}
CertRec == [key : Int, ca : Int]
FilesRec == [caKey : Int, caCert : Int, serial : Int, key : Int, csr : Int, cert : CertRec]
LaunchRec == [st : Stages \cup {"off"}, role : {"mobile", "prepare", "runtime"}, made : BOOLEAN, alone : BOOLEAN]
ServeRec ==
  [st : {"serves"}, role : {"mobile", "prepare", "runtime"}, alone : BOOLEAN, got : CertRec,
   from : {"files", "scratch"}, asked : CertRec, last : BOOLEAN]

CertificatesTypeOK ==
  /\ family \in {"runtime", "mobile"} /\ files \in FilesRec /\ due \subseteq Int
  /\ launcher \in [Launchers -> LaunchRec \cup ServeRec]
  /\ known \in CertRec /\ keys \in Nat /\ launches \in Nat

\* A launch that had the files to itself has them; after one that had not, clients are promised nothing.
AloneInv ==
  \A p \in Launchers : Busy(p) =>
    /\ launcher[p].alone => \A q \in Launchers \ {p} : ~Busy(q)
    /\ ~launcher[p].alone => known = Stranger

\* The CA can sign.
Paired == files.caKey > 0 /\ files.caCert = files.caKey

\* What a launch that has the files to itself has made of them when it gets to a command.
Prepared(st) ==
  /\ st = "ca cert" => files.caKey > 0
  /\ st \in {"key", "request", "pin", "sign", "load"} => Paired
  /\ st \in {"request", "pin", "sign", "load"} => files.key > 0
  /\ st = "sign" => files.csr = files.key
  /\ st = "load" => files.cert = [key |-> files.key, ca |-> files.caCert]

PreparedInv == \A p \in Launchers : Busy(p) /\ launcher[p].alone => Prepared(launcher[p].st)

\* What clients were given is what the files hold, and no launch is making a CA.
KnownInv ==
  known # Stranger =>
    /\ Paired /\ known.ca = files.caCert /\ known.ca \notin due
    /\ family = "runtime" => known.key = files.key /\ files.key > 0
    /\ \A p \in Launchers : Busy(p) =>
         ~launcher[p].made /\ launcher[p].st \in {"check", "key", "request", "pin", "sign", "load"}

\* Before another launch begins, the files are as the one that serves left them.
ServedInv ==
  \A p \in Launchers :
    launcher[p].st = "serves" /\ launcher[p].alone /\ launcher[p].from = "files" =>
      /\ launcher[p].last => files.caCert = launcher[p].got.ca /\ \A q \in Launchers : ~Busy(q)
      /\ launcher[p].asked # Stranger =>
           /\ launcher[p].got.ca = launcher[p].asked.ca
           /\ family = "runtime" => launcher[p].got.key = launcher[p].asked.key

CertInv ==
  /\ CertificatesTypeOK /\ AloneInv /\ PreparedInv /\ KnownInv /\ ServedInv
  /\ stranded \subseteq {"serial"}

\* What is known of a launch by where it stands.
LEMMA LauncherIs ==
  ASSUME CertificatesTypeOK, NEW p \in Launchers
  PROVE  /\ Busy(p) \/ launcher[p].st = "off" => launcher[p] \in LaunchRec
         /\ launcher[p].st = "serves" => launcher[p] \in ServeRec
         /\ launcher[p].alone \in BOOLEAN
  BY DEF CertificatesTypeOK, LaunchRec, ServeRec, Busy, Stages

\* A launch that is at a command goes on to another, or ends without having come through.
LEMMA LaunchGoesOn ==
  ASSUME CertInv, NEW p \in Launchers, Busy(p), NEW r \in LaunchRec,
         r.st = "off" \/ r.alone = launcher[p].alone,
         launcher' = [launcher EXCEPT ![p] = r],
         family' = family, due' = due, stranded' \subseteq {"serial"},
         files' \in FilesRec, keys' \in Nat, launches' \in Nat,
         known' \in {known, Stranger},
         r.st # "off" /\ r.alone => Prepared(r.st)',
         known' # Stranger =>
           /\ Paired' /\ files'.caCert = files.caCert
           /\ family = "runtime" => files'.key = files.key
           /\ r.st # "off" => ~r.made /\ r.st \in {"check", "key", "request", "pin", "sign", "load"}
  PROVE  CertInv'
  <1>1. launcher \in [Launchers -> LaunchRec \cup ServeRec] /\ known \in CertRec /\ Stranger \in CertRec
    BY DEF CertInv, CertificatesTypeOK, Stranger, CertRec, Missing
  <1>2. launcher'[p] = r /\ \A q \in Launchers \ {p} : launcher'[q] = launcher[q]
    BY <1>1
  <1>3. r.st \in Stages \cup {"off"} /\ r.st # "serves" /\ r.alone \in BOOLEAN
    BY DEF LaunchRec, Stages
  <1>4. \A q \in Launchers \ {p} : Busy(q)' <=> Busy(q)
    BY <1>2 DEF Busy
  <1>5. Busy(p)' <=> r.st # "off"
    BY <1>2, <1>3 DEF Busy
  <1>6. CertificatesTypeOK'
    <2>1. launcher' \in [Launchers -> LaunchRec \cup ServeRec]
      BY <1>1
    <2>2. known' \in CertRec
      BY <1>1
    <2> QED BY <2>1, <2>2 DEF CertInv, CertificatesTypeOK
  <1>7. AloneInv /\ PreparedInv /\ KnownInv /\ ServedInv /\ launcher[p].alone \in BOOLEAN
    BY LauncherIs DEF CertInv
  <1>8. ASSUME NEW q \in Launchers \ {p}, Busy(q) PROVE ~launcher[q].alone /\ known = Stranger
    BY <1>7, <1>8 DEF AloneInv
  <1>9. AloneInv'
    <2> SUFFICES ASSUME NEW q \in Launchers, Busy(q)'
                 PROVE  /\ launcher'[q].alone => \A o \in Launchers \ {q} : ~Busy(o)'
                        /\ ~launcher'[q].alone => known' = Stranger
      BY DEF AloneInv
    <2>1. CASE q = p
      BY <1>2, <1>4, <1>5, <1>7, <2>1 DEF AloneInv
    <2>2. CASE q # p
      BY <1>2, <1>4, <1>8, <2>2
    <2> QED BY <2>1, <2>2
  <1>10. PreparedInv'
    <2> SUFFICES ASSUME NEW q \in Launchers, Busy(q)', launcher'[q].alone
                 PROVE  Prepared(launcher[q].st)'
      BY DEF PreparedInv, Prepared
    <2>1. q = p
      BY <1>2, <1>4, <1>8
    <2>2. r.st # "off" /\ r.alone
      BY <2>1, <1>2, <1>5
    <2>3. launcher'[q].st = r.st
      BY <2>1, <1>2
    <2> QED BY <2>2, <2>3 DEF Prepared
  <1>11. KnownInv'
    <2> SUFFICES ASSUME known' # Stranger
                 PROVE  /\ Paired' /\ known'.ca = files'.caCert /\ known'.ca \notin due'
                        /\ family' = "runtime" => known'.key = files'.key /\ files'.key > 0
                        /\ \A q \in Launchers : Busy(q)' =>
                             /\ ~launcher'[q].made
                             /\ launcher'[q].st \in {"check", "key", "request", "pin", "sign", "load"}
      BY DEF KnownInv, Stranger, Missing
    <2>1. known' = known /\ known # Stranger
      OBVIOUS
    <2>2. /\ known.ca = files.caCert /\ known.ca \notin due
          /\ family = "runtime" => known.key = files.key /\ files.key > 0
      BY <1>7, <2>1 DEF KnownInv
    <2>3. ASSUME NEW q \in Launchers, Busy(q)'
          PROVE  /\ ~launcher'[q].made
                 /\ launcher'[q].st \in {"check", "key", "request", "pin", "sign", "load"}
      <3>1. q = p
        BY <2>1, <2>3, <1>4, <1>8
      <3> QED BY <3>1, <2>3, <1>2, <1>5
    <2>4. Paired' /\ files'.caCert = files.caCert /\ (family = "runtime" => files'.key = files.key)
      OBVIOUS
    <2> QED BY <2>1, <2>2, <2>3, <2>4
  <1>12. ServedInv'
    <2> SUFFICES ASSUME NEW q \in Launchers, launcher'[q].st = "serves", launcher'[q].alone,
                        launcher'[q].from = "files"
                 PROVE  /\ launcher'[q].last => files'.caCert = launcher'[q].got.ca /\ \A o \in Launchers : ~Busy(o)'
                        /\ launcher'[q].asked # Stranger =>
                             /\ launcher'[q].got.ca = launcher'[q].asked.ca
                             /\ family' = "runtime" => launcher'[q].got.key = launcher'[q].asked.key
      BY DEF ServedInv, Stranger, Missing
    <2>1. q # p /\ launcher'[q] = launcher[q]
      BY <1>2, <1>3
    <2>2. ~launcher[q].last
      BY <2>1, <1>7 DEF ServedInv
    <2> QED BY <2>1, <2>2, <1>7 DEF ServedInv
  <1> QED BY <1>6, <1>9, <1>10, <1>11, <1>12 DEF CertInv

\* A launch comes through.
LEMMA LaunchSettles ==
  ASSUME CertInv, NEW p \in Launchers, Busy(p), NEW s \in ServeRec,
         s.alone = launcher[p].alone, s.asked = known, s.last = TRUE,
         launcher' = [launcher EXCEPT ![p] = s],
         UNCHANGED <<family, files, due, stranded, launches>>, keys' \in Nat,
         known' = IF s.from = "files" /\ launcher[p].alone /\ s.got.ca \notin due THEN s.got ELSE known,
         s.from = "files" /\ launcher[p].alone =>
           /\ Paired /\ s.got.ca = files.caCert
           /\ family = "runtime" => s.got.key = files.key /\ files.key > 0
  PROVE  CertInv'
  <1>1. launcher \in [Launchers -> LaunchRec \cup ServeRec] /\ known \in CertRec /\ s.got \in CertRec
    BY DEF CertInv, CertificatesTypeOK, ServeRec
  <1>2. launcher'[p] = s /\ \A q \in Launchers \ {p} : launcher'[q] = launcher[q]
    BY <1>1
  <1>3. s.st = "serves"
    BY DEF ServeRec
  <1>4. \A q \in Launchers \ {p} : Busy(q)' <=> Busy(q)
    BY <1>2 DEF Busy
  <1>5. ~Busy(p)'
    BY <1>2, <1>3 DEF Busy
  <1>6. CertificatesTypeOK'
    <2>1. launcher' \in [Launchers -> LaunchRec \cup ServeRec]
      BY <1>1
    <2>2. known' \in CertRec
      BY <1>1
    <2> QED BY <2>1, <2>2 DEF CertInv, CertificatesTypeOK
  <1>7. AloneInv /\ PreparedInv /\ KnownInv /\ ServedInv /\ launcher[p].alone \in BOOLEAN
    BY LauncherIs DEF CertInv
  <1>8. ASSUME NEW q \in Launchers \ {p}, Busy(q)
        PROVE  ~launcher[q].alone /\ ~launcher[p].alone /\ known = Stranger
    BY <1>7, <1>8 DEF AloneInv
  <1>9. AloneInv'
    <2> SUFFICES ASSUME NEW q \in Launchers, Busy(q)'
                 PROVE  ~launcher'[q].alone /\ known' = Stranger
      BY DEF AloneInv, Stranger, Missing
    <2>1. q # p
      BY <1>5
    <2> QED BY <2>1, <1>2, <1>4, <1>8
  <1>10. PreparedInv'
    <2> SUFFICES ASSUME NEW q \in Launchers, Busy(q)', launcher'[q].alone
                 PROVE  FALSE
      BY DEF PreparedInv, Prepared
    <2> QED BY <1>2, <1>4, <1>5, <1>8
  <1>11. KnownInv'
    <2> SUFFICES ASSUME known' # Stranger
                 PROVE  /\ Paired' /\ known'.ca = files'.caCert /\ known'.ca \notin due'
                        /\ family' = "runtime" => known'.key = files'.key /\ files'.key > 0
                        /\ \A q \in Launchers : Busy(q)' => FALSE
      BY DEF KnownInv, Stranger, Missing
    <2>1. \A q \in Launchers : ~Busy(q)'
      BY <1>4, <1>5, <1>8
    <2>2. CASE s.from = "files" /\ launcher[p].alone /\ s.got.ca \notin due
      BY <2>1, <2>2 DEF Paired
    <2>3. CASE ~ (s.from = "files" /\ launcher[p].alone /\ s.got.ca \notin due)
      BY <2>1, <2>3, <1>7 DEF KnownInv, Paired
    <2> QED BY <2>2, <2>3
  <1>12. ServedInv'
    <2> SUFFICES ASSUME NEW q \in Launchers, launcher'[q].st = "serves", launcher'[q].alone,
                        launcher'[q].from = "files"
                 PROVE  /\ launcher'[q].last => files'.caCert = launcher'[q].got.ca /\ \A o \in Launchers : ~Busy(o)'
                        /\ launcher'[q].asked # Stranger =>
                             /\ launcher'[q].got.ca = launcher'[q].asked.ca
                             /\ family' = "runtime" => launcher'[q].got.key = launcher'[q].asked.key
      BY DEF ServedInv, Stranger, Missing
    <2>1. CASE q = p
      <3>1. s.from = "files" /\ launcher[p].alone /\ launcher'[q] = s
        BY <1>2, <2>1
      <3>2. files'.caCert = s.got.ca /\ \A o \in Launchers : ~Busy(o)'
        BY <3>1, <1>4, <1>5, <1>8
      <3>3. ASSUME s.asked # Stranger
            PROVE  s.got.ca = s.asked.ca /\ (family = "runtime" => s.got.key = s.asked.key)
        BY <3>1, <3>3, <1>7 DEF KnownInv
      <3> QED BY <3>1, <3>2, <3>3
    <2>2. CASE q # p
      <3>1. launcher'[q] = launcher[q]
        BY <1>2, <2>2
      <3>2. ~launcher[q].last
        BY <3>1, <1>7 DEF ServedInv
      <3> QED BY <3>1, <3>2, <1>7 DEF ServedInv
    <2> QED BY <2>1, <2>2
  <1> QED BY <1>6, <1>9, <1>10, <1>11, <1>12 DEF CertInv

\* The same for a command, told by the files it leaves and where the launch goes on.
LEMMA StepGoesOn ==
  ASSUME CertInv, NEW p \in Launchers, NEW from \in Stages, NEW to \in Stages, NEW changed \in FilesRec,
         Step(p, from, changed, to), keys' \in Nat,
         launcher[p].alone => Prepared(to)',
         known # Stranger =>
           /\ Paired' /\ changed.caCert = files.caCert
           /\ family = "runtime" => changed.key = files.key
           /\ to \in {"check", "key", "request", "pin", "sign", "load"}
  PROVE  CertInv'
  <1>1. /\ Busy(p) /\ files' = changed /\ launcher' = [launcher EXCEPT ![p].st = to]
        /\ family' = family /\ due' = due /\ known' = known /\ stranded' = stranded /\ launches' = launches
    BY DEF Step, Busy, Stages
  <1>2. launcher[p] \in LaunchRec /\ CertificatesTypeOK
    BY <1>1, LauncherIs DEF CertInv
  <1>3. PICK r \in LaunchRec : r = [launcher[p] EXCEPT !.st = to]
    BY <1>2 DEF LaunchRec
  <1>4. r.st = to /\ r.alone = launcher[p].alone /\ r.made = launcher[p].made
    BY <1>2, <1>3 DEF LaunchRec
  <1>5. launcher' = [launcher EXCEPT ![p] = r]
    BY <1>1, <1>3
  <1>6. known' # Stranger => ~r.made
    BY <1>1, <1>4 DEF CertInv, KnownInv
  <1>7. stranded' \subseteq {"serial"} /\ launches' \in Nat /\ known' \in {known, Stranger}
    BY <1>1, <1>2 DEF CertInv, CertificatesTypeOK
  <1>8. r.st # "off" /\ r.alone => Prepared(r.st)'
    BY <1>4
  <1>9. known' # Stranger =>
           /\ Paired' /\ files'.caCert = files.caCert
           /\ family = "runtime" => files'.key = files.key
           /\ r.st # "off" => ~r.made /\ r.st \in {"check", "key", "request", "pin", "sign", "load"}
    BY <1>1, <1>4, <1>6
  <1>10. r.st = "off" \/ r.alone = launcher[p].alone
    BY <1>4
  <1>11. files' \in FilesRec
    BY <1>1
  <1> QED BY <1>1, <1>5, <1>7, <1>8, <1>9, <1>10, <1>11, LaunchGoesOn

\* What holds at a command of a launch.
LEMMA AtCommand ==
  ASSUME CertInv, NEW p \in Launchers, Busy(p)
  PROVE  /\ files \in FilesRec /\ keys \in Nat /\ launcher[p] \in LaunchRec
         /\ launcher[p].alone => Prepared(launcher[p].st)
         /\ known # Stranger =>
              /\ launcher[p].alone
              /\ Paired /\ (family = "runtime" => files.key > 0)
              /\ ~launcher[p].made /\ launcher[p].st \in {"check", "key", "request", "pin", "sign", "load"}
              /\ known.ca \notin due /\ known.ca = files.caCert
  <1>1. launcher[p].alone \in BOOLEAN /\ launcher[p] \in LaunchRec
    BY LauncherIs DEF CertInv
  <1> QED BY <1>1 DEF CertInv, CertificatesTypeOK, AloneInv, PreparedInv, KnownInv

LEMMA LaunchCommands ==
  ASSUME CertInv, NEW p \in Launchers,
         \/ Checks(p) \/ UnlinksKey(p) \/ UnlinksCert(p) \/ UnlinksSerial(p) \/ MakesCaKey(p) \/ MakesCaCert(p)
         \/ FindsKey(p) \/ MakesKey(p) \/ Requests(p) \/ Signs(p)
  PROVE  CertInv'
  <1>1. Busy(p)
    BY DEF Checks, UnlinksKey, UnlinksCert, UnlinksSerial, MakesCaKey, MakesCaCert, FindsKey, MakesKey, Requests, Signs, Step, Busy
  <1>2. /\ files \in FilesRec /\ keys \in Nat /\ launcher[p] \in LaunchRec
        /\ launcher[p].alone => Prepared(launcher[p].st)
        /\ known # Stranger =>
              /\ launcher[p].alone
              /\ Paired /\ (family = "runtime" => files.key > 0)
              /\ ~launcher[p].made /\ launcher[p].st \in {"check", "key", "request", "pin", "sign", "load"}
              /\ known.ca \notin due /\ known.ca = files.caCert
    BY <1>1, AtCommand
  <1>3. CASE Checks(p)
    <2>1. PICK to : to = (IF Reusable(files) THEN "key" ELSE "unlink key")
      OBVIOUS
    <2>2. Step(p, "check", files, to) /\ UNCHANGED keys
      BY <1>3, <2>1 DEF Checks
    <2>3. files' = files /\ to \in Stages /\ "check" \in Stages
      BY <2>1, <2>2 DEF Step, Stages
    <2>4. launcher[p].alone => Prepared(to)'
      BY <2>1, <2>3 DEF Prepared, Paired, Reusable
    <2>5. known # Stranger => to = "key" /\ Paired'
      BY <1>2, <2>1, <2>3 DEF Paired, Reusable
    <2> QED BY <1>2, <2>2, <2>3, <2>4, <2>5, StepGoesOn
  <1>4. CASE UnlinksKey(p)
    <2>1. PICK f : f = [files EXCEPT !.caKey = Missing]
      OBVIOUS
    <2>2. Step(p, "unlink key", f, "unlink cert") /\ UNCHANGED keys
      BY <1>4, <2>1 DEF UnlinksKey
    <2>4. f \in FilesRec
      BY <1>2, <2>1 DEF FilesRec, Missing
    <2>3. Prepared("unlink cert")' /\ {"unlink key", "unlink cert"} \subseteq Stages /\ known = Stranger
      BY <1>2, <2>2 DEF Prepared, Stages, Step
    <2> QED BY <1>2, <2>2, <2>3, <2>4, StepGoesOn
  <1>5. CASE UnlinksCert(p)
    <2>1. PICK f : f = [files EXCEPT !.caCert = Missing]
      OBVIOUS
    <2>2. Step(p, "unlink cert", f, "unlink serial") /\ UNCHANGED keys
      BY <1>5, <2>1 DEF UnlinksCert
    <2>4. f \in FilesRec
      BY <1>2, <2>1 DEF FilesRec, Missing
    <2>3. Prepared("unlink serial")' /\ {"unlink cert", "unlink serial"} \subseteq Stages /\ known = Stranger
      BY <1>2, <2>2 DEF Prepared, Stages, Step
    <2> QED BY <1>2, <2>2, <2>3, <2>4, StepGoesOn
  <1>12. CASE UnlinksSerial(p)
    <2>1. PICK f : f = [files EXCEPT !.serial = Missing]
      OBVIOUS
    <2>2. Step(p, "unlink serial", f, "ca key") /\ UNCHANGED keys
      BY <1>12, <2>1 DEF UnlinksSerial
    <2>4. f \in FilesRec
      BY <1>2, <2>1 DEF FilesRec, Missing
    <2>3. Prepared("ca key")' /\ {"unlink serial", "ca key"} \subseteq Stages /\ known = Stranger
      BY <1>2, <2>2 DEF Prepared, Stages, Step
    <2> QED BY <1>2, <2>2, <2>3, <2>4, StepGoesOn
  <1>6. CASE MakesCaKey(p)
    <2>1. PICK f : f = [files EXCEPT !.caKey = keys']
      OBVIOUS
    <2>2. Step(p, "ca key", f, "ca cert") /\ keys' = keys + 1
      BY <1>6, <2>1 DEF MakesCaKey, NewKey
    <2>5. keys' \in Nat /\ keys' > 0
      <3>1. keys \in Nat /\ keys' = keys + 1
        BY <1>2, <2>2
      <3> QED BY <3>1
    <2>3. f \in FilesRec /\ f.caKey > 0 /\ files' = f
      <3>1. f \in FilesRec /\ f.caKey = keys'
        BY <1>2, <2>1, <2>5 DEF FilesRec
      <3> QED BY <3>1, <2>2, <2>5 DEF Step
    <2>4. Prepared("ca cert")' /\ {"ca key", "ca cert"} \subseteq Stages /\ known = Stranger
      BY <1>2, <2>2, <2>3 DEF Prepared, Stages, Step
    <2> QED BY <1>2, <2>2, <2>3, <2>4, <2>5, StepGoesOn
  <1>7. CASE MakesCaCert(p)
    <2>1. /\ launcher[p].st = "ca cert" /\ files.caKey > 0
          /\ files' = [files EXCEPT !.caCert = files.caKey]
          /\ launcher' = [launcher EXCEPT ![p].st = "key", ![p].made = TRUE]
          /\ UNCHANGED <<family, due, known, stranded, keys, launches>>
      BY <1>7 DEF MakesCaCert
    <2>2. PICK r \in LaunchRec : r = [launcher[p] EXCEPT !.st = "key", !.made = TRUE]
      BY <1>2 DEF LaunchRec, Stages
    <2>3. r.st = "key" /\ r.alone = launcher[p].alone
      BY <1>2, <2>2 DEF LaunchRec
    <2>4. launcher' = [launcher EXCEPT ![p] = r]
      BY <2>1, <2>2 DEF CertInv, CertificatesTypeOK
    <2>5. files' \in FilesRec /\ Paired'
      BY <1>2, <2>1 DEF FilesRec, Paired
    <2>6. Prepared(r.st)' /\ known = Stranger
      BY <1>2, <2>1, <2>3, <2>5 DEF Prepared
    <2>7. stranded' \subseteq {"serial"} /\ keys' \in Nat /\ launches' \in Nat
      BY <2>1 DEF CertInv, CertificatesTypeOK
    <2> QED BY <1>1, <2>1, <2>3, <2>4, <2>5, <2>6, <2>7, LaunchGoesOn
  <1>8. CASE FindsKey(p)
    <2>1. PICK to : to = AfterKey(p)
      OBVIOUS
    <2>2. Step(p, "key", files, to) /\ UNCHANGED keys /\ files.key > 0 /\ to \in {"pin", "request"}
      BY <1>8, <2>1 DEF FindsKey, KeepsKey, AfterKey
    <2>3. files' = files /\ launcher[p].st = "key" /\ {"key", "pin", "request"} \subseteq Stages
      BY <2>2 DEF Step, Stages
    <2>4. launcher[p].alone => Prepared(to)'
      BY <1>2, <2>2, <2>3 DEF Prepared, Paired
    <2>5. known # Stranger => Paired'
      BY <1>2, <2>3 DEF Paired
    <2> QED BY <1>2, <2>2, <2>3, <2>4, <2>5, StepGoesOn
  <1>9. CASE MakesKey(p)
    <2>1. PICK f : f = [files EXCEPT !.key = keys']
      OBVIOUS
    <2>2. PICK to : to = AfterKey(p)
      OBVIOUS
    <2>3. Step(p, "key", f, to) /\ keys' = keys + 1 /\ to \in {"pin", "request"} /\ ~KeepsKey(p)
      BY <1>9, <2>1, <2>2 DEF MakesKey, NewKey, AfterKey
    <2>4. /\ f \in FilesRec /\ keys' \in Nat /\ f.key > 0 /\ f.caKey = files.caKey /\ f.caCert = files.caCert
          /\ files' = f /\ launcher[p].st = "key" /\ {"key", "pin", "request"} \subseteq Stages
      BY <1>2, <2>1, <2>3 DEF FilesRec, Step, Stages
    <2>5. launcher[p].alone => Prepared(to)'
      BY <1>2, <2>3, <2>4 DEF Prepared, Paired
    <2>6. known # Stranger => family # "runtime" /\ Paired'
      BY <1>2, <2>3, <2>4 DEF KeepsKey, Paired
    <2> QED BY <1>2, <2>3, <2>4, <2>5, <2>6, StepGoesOn
  <1>10. CASE Requests(p)
    <2>1. PICK f : f = [files EXCEPT !.csr = files.key, !.cert = Unsigned]
      OBVIOUS
    <2>2. Step(p, "request", f, "sign") /\ UNCHANGED keys /\ files.key > 0
      BY <1>10, <2>1 DEF Requests
    <2>3. Unsigned \in CertRec
      BY DEF Unsigned, CertRec, Missing
    <2>4. f \in FilesRec /\ f.csr = files.key /\ f.key = files.key /\ f.caKey = files.caKey /\ f.caCert = files.caCert
      BY <1>2, <2>1, <2>3 DEF FilesRec
    <2>5. files' = f /\ launcher[p].st = "request" /\ {"request", "sign"} \subseteq Stages
      BY <2>2 DEF Step, Stages
    <2>6. (launcher[p].alone => Prepared("sign")') /\ (known # Stranger => Paired')
      BY <1>2, <2>4, <2>5 DEF Prepared, Paired
    <2> QED BY <1>2, <2>2, <2>4, <2>5, <2>6, StepGoesOn
  <1>11. CASE Signs(p)
    <2>1. PICK f : f = [files EXCEPT !.cert = [key |-> files.csr, ca |-> files.caCert], !.serial = Numbered]
      OBVIOUS
    <2>2. Step(p, "sign", f, "load") /\ UNCHANGED keys
      BY <1>11, <2>1 DEF Signs
    <2>a. PICK c : c = [key |-> files.csr, ca |-> files.caCert]
      OBVIOUS
    <2>b. c \in CertRec /\ Numbered \in Int
      BY <1>2, <2>a DEF FilesRec, CertRec, Numbered
    <2>c. f = [files EXCEPT !.cert = c, !.serial = Numbered]
      BY <2>1, <2>a
    <2>3. /\ f \in FilesRec /\ f.key = files.key /\ f.caKey = files.caKey /\ f.caCert = files.caCert
          /\ f.cert = [key |-> files.csr, ca |-> files.caCert]
      BY <1>2, <2>a, <2>b, <2>c DEF FilesRec
    <2>4. files' = f /\ launcher[p].st = "sign" /\ {"sign", "load"} \subseteq Stages
      BY <2>2 DEF Step, Stages
    <2>5. (launcher[p].alone => Prepared("load")') /\ (known # Stranger => Paired')
      BY <1>2, <2>3, <2>4 DEF Prepared, Paired
    <2> QED BY <1>2, <2>2, <2>3, <2>4, <2>5, StepGoesOn
  <1> QED BY <1>3, <1>4, <1>5, <1>6, <1>7, <1>8, <1>9, <1>10, <1>11, <1>12

LEMMA LaunchComesThrough ==
  ASSUME CertInv, NEW p \in Launchers, Pins(p) \/ Loads(p) \/ FallsBack(p)
  PROVE  CertInv'
  <1>1. Busy(p)
    BY DEF Pins, Loads, FallsBack, Busy
  <1>2. /\ files \in FilesRec /\ keys \in Nat /\ launcher[p] \in LaunchRec
        /\ launcher[p].alone => Prepared(launcher[p].st)
    BY <1>1, AtCommand
  <1>3. known \in CertRec /\ launcher[p].role \in {"mobile", "prepare", "runtime"} /\ launcher[p].alone \in BOOLEAN
    BY <1>2 DEF LaunchRec, CertInv, CertificatesTypeOK
  <1>4. ASSUME NEW got \in CertRec, NEW from \in {"files", "scratch"}, Settles(p, got, from),
               family' = family, files' = files, due' = due, stranded' = stranded, launches' = launches, keys' \in Nat,
               from = "files" /\ launcher[p].alone =>
                 /\ Paired /\ got.ca = files.caCert
                 /\ family = "runtime" => got.key = files.key /\ files.key > 0
        PROVE  CertInv'
    <2>1. PICK s : s = [st |-> "serves", role |-> launcher[p].role, alone |-> launcher[p].alone,
                        got |-> got, from |-> from, asked |-> known, last |-> TRUE]
      OBVIOUS
    <2>2. s \in ServeRec
      BY <1>3, <1>4, <2>1 DEF ServeRec
    <2>3. s.alone = launcher[p].alone /\ s.asked = known /\ s.last = TRUE /\ s.got = got /\ s.from = from
      BY <2>1
    <2>4. launcher' = [launcher EXCEPT ![p] = s]
      BY <1>4, <2>1 DEF Settles
    <2>5. known' = IF s.from = "files" /\ launcher[p].alone /\ s.got.ca \notin due THEN s.got ELSE known
      BY <1>4, <2>3 DEF Settles
    <2> QED BY <1>1, <1>4, <2>2, <2>3, <2>4, <2>5, LaunchSettles
  <1>5. CASE Pins(p)
    <2>1. /\ launcher[p].st = "pin" /\ files.key > 0
          /\ Settles(p, [key |-> files.key, ca |-> files.caCert], "files")
          /\ UNCHANGED <<family, files, due, stranded, keys, launches>>
      BY <1>5 DEF Pins
    <2>2. PICK got : got = [key |-> files.key, ca |-> files.caCert]
      OBVIOUS
    <2>3. got \in CertRec
      BY <1>2, <2>2 DEF FilesRec, CertRec
    <2>4. got.ca = files.caCert /\ got.key = files.key /\ Settles(p, got, "files")
      BY <2>1, <2>2
    <2>5. launcher[p].alone => Paired
      BY <1>2, <2>1 DEF Prepared
    <2> QED BY <1>2, <1>4, <2>1, <2>3, <2>4, <2>5
  <1>6. CASE Loads(p)
    <2>1. /\ launcher[p].st = "load" /\ files.key > 0
          /\ Settles(p, files.cert, "files")
          /\ UNCHANGED <<family, files, due, stranded, keys, launches>>
      BY <1>6 DEF Loads, MayLoad
    <2>2. PICK got : got = files.cert
      OBVIOUS
    <2>3. got \in CertRec
      BY <1>2, <2>2 DEF FilesRec
    <2>4. Settles(p, got, "files")
      BY <2>1, <2>2
    <2>5. launcher[p].alone => Paired /\ got.ca = files.caCert /\ got.key = files.key
      BY <1>2, <2>1, <2>2 DEF Prepared
    <2> QED BY <1>2, <1>4, <2>1, <2>3, <2>4, <2>5
  <1>7. CASE FallsBack(p)
    <2>1. /\ keys' = keys + 2
          /\ Settles(p, [key |-> keys + 2, ca |-> keys + 1], "scratch")
          /\ UNCHANGED <<family, files, due, stranded, launches>>
      BY <1>7 DEF FallsBack
    <2>2. PICK got : got = [key |-> keys + 2, ca |-> keys + 1]
      OBVIOUS
    <2>3. keys \in Nat
      BY <1>2
    <2>4. got \in CertRec /\ keys' \in Nat
      BY <2>1, <2>2, <2>3 DEF CertRec
    <2> QED BY <1>4, <2>1, <2>2, <2>4
  <1> QED BY <1>5, <1>6, <1>7

\* A launch that fails was disturbed, or met half a serial file: alone at the files, it finds all else it needs.
LEMMA LaunchEnds ==
  ASSUME CertInv, NEW p \in Launchers, LaunchFails(p) \/ Dies(p)
  PROVE  CertInv'
  <1>1. Busy(p)
    BY DEF LaunchFails, Refused, Dies, Busy
  <1>2. /\ files \in FilesRec /\ keys \in Nat /\ launcher[p] \in LaunchRec
        /\ launcher[p].alone => Prepared(launcher[p].st)
        /\ known # Stranger =>
              /\ launcher[p].alone
              /\ Paired /\ (family = "runtime" => files.key > 0)
              /\ ~launcher[p].made /\ launcher[p].st \in {"check", "key", "request", "pin", "sign", "load"}
              /\ known.ca \notin due /\ known.ca = files.caCert
    BY <1>1, AtCommand
  <1>3. Off \in LaunchRec /\ Off.st = "off"
    BY DEF Off, LaunchRec
  <1>4. CASE LaunchFails(p)
    <2>1. /\ Refused(p)
          /\ stranded' = IF launcher[p].alone THEN stranded \cup {Cause(p)} ELSE stranded
          /\ launcher' = [launcher EXCEPT ![p] = Off]
          /\ UNCHANGED <<family, files, due, known, keys, launches>>
      BY <1>4 DEF LaunchFails
    <2>2. ~launcher[p].alone \/ (launcher[p].st = "sign" /\ files.serial = Torn)
      <3> SUFFICES ASSUME launcher[p].alone, ~(launcher[p].st = "sign" /\ files.serial = Torn) PROVE FALSE
        OBVIOUS
      <3>1. files.caKey \in Int /\ files.key \in Int
        BY <1>2 DEF FilesRec
      <3>2. Prepared(launcher[p].st)
        BY <1>2
      <3>3. CASE launcher[p].st = "ca cert" /\ files.caKey <= 0
        <4>1. files.caKey > 0
          BY <3>2, <3>3 DEF Prepared
        <4>2. files.caKey <= 0
          BY <3>3
        <4> QED BY <3>1, <4>1, <4>2
      <3>4. CASE launcher[p].st \in {"request", "pin"} /\ files.key <= 0
        <4>1. files.key > 0
          BY <3>2, <3>4 DEF Prepared
        <4> QED BY <3>1, <3>4, <4>1
      <3>5. CASE launcher[p].st = "sign" /\ ~MaySign(files)
        BY <3>1, <3>2, <3>5 DEF Prepared, MaySign, Paired
      <3>6. CASE launcher[p].st = "load" /\ ~MayLoad(files)
        BY <3>1, <3>2, <3>6 DEF Prepared, MayLoad
      <3> QED BY <2>1, <3>3, <3>4, <3>5, <3>6 DEF Refused
    <2>3. stranded' \subseteq {"serial"}
      BY <2>1, <2>2 DEF CertInv, Cause
    <2>4. launches' \in Nat
      BY <2>1 DEF CertInv, CertificatesTypeOK
    <2>5. known # Stranger => Paired'
      BY <1>2, <2>1 DEF Paired
    <2> QED BY <1>1, <1>2, <1>3, <2>1, <2>3, <2>4, <2>5, LaunchGoesOn
  <1>5. CASE Dies(p)
    <2>1. PICK left \in Remains(p) :
            /\ files' = left
            /\ known' = IF family = "runtime" /\ left.key = Torn THEN Stranger ELSE known
      BY <1>5 DEF Dies
    <2>2. /\ launcher' = [launcher EXCEPT ![p] = Off]
          /\ UNCHANGED <<family, due, stranded, keys, launches>>
      BY <1>5 DEF Dies
    <2>3. /\ left \in FilesRec
          /\ known # Stranger => left.caKey = files.caKey /\ left.caCert = files.caCert
          /\ known # Stranger /\ family = "runtime" => left.key = files.key
      <3> DEFINE st == launcher[p].st
      <3>0. files.csr \in Int /\ Torn \in Int /\ Unsigned \in CertRec
        BY <1>2 DEF Torn, Unsigned, CertRec, Missing, FilesRec
      <3>1. CASE left = files
        BY <1>2, <3>1
      <3>2. CASE st = "ca key" /\ left = [files EXCEPT !.caKey = Torn]
        BY <1>2, <3>0, <3>2 DEF FilesRec
      <3>3. CASE st = "ca cert" /\ left = [files EXCEPT !.caCert = Torn]
        BY <1>2, <3>0, <3>3 DEF FilesRec
      <3>4. CASE st = "key" /\ ~KeepsKey(p) /\ left = [files EXCEPT !.key = Torn]
        <4>1. left \in FilesRec /\ left.caKey = files.caKey /\ left.caCert = files.caCert
          BY <1>2, <3>0, <3>4 DEF FilesRec
        <4>2. known # Stranger => family # "runtime"
          BY <1>2, <3>4 DEF KeepsKey
        <4> QED BY <4>1, <4>2
      <3>5. CASE \E csr \in {Torn, files.csr} : left = [files EXCEPT !.csr = csr, !.cert = Unsigned]
        <4>1. PICK csr \in {Torn, files.csr} : left = [files EXCEPT !.csr = csr, !.cert = Unsigned]
          BY <3>5
        <4>2. csr \in Int
          BY <3>0
        <4> QED BY <1>2, <3>0, <4>1, <4>2 DEF FilesRec
      <3>6. st = "ca key" /\ left # files => left = [files EXCEPT !.caKey = Torn]
        BY <2>1 DEF Remains
      <3>7. st = "ca cert" /\ left # files => left = [files EXCEPT !.caCert = Torn]
        BY <2>1 DEF Remains
      <3>8. st = "key" /\ left # files => ~KeepsKey(p) /\ left = [files EXCEPT !.key = Torn]
        BY <2>1 DEF Remains
      <3>9. st = "request" /\ left # files =>
              \E csr \in {Torn, files.csr} : left = [files EXCEPT !.csr = csr, !.cert = Unsigned]
        BY <2>1 DEF Remains
      <3>10. st \notin {"ca key", "ca cert", "key", "request", "sign"} => left = files
        BY <2>1 DEF Remains
      <3>11. st = "sign" /\ left # files => \E serial \in {Torn, Numbered} : left = [files EXCEPT !.serial = serial]
        BY <2>1 DEF Remains
      <3>12. CASE \E serial \in {Torn, Numbered} : left = [files EXCEPT !.serial = serial]
        <4>1. PICK serial \in {Torn, Numbered} : left = [files EXCEPT !.serial = serial]
          BY <3>12
        <4>2. serial \in Int
          BY DEF Torn, Numbered
        <4> QED BY <1>2, <4>1, <4>2 DEF FilesRec
      <3> QED BY <3>1, <3>2, <3>3, <3>4, <3>5, <3>6, <3>7, <3>8, <3>9, <3>10, <3>11, <3>12
    <2>4. known' # Stranger => Paired' /\ files'.caCert = files.caCert /\ (family = "runtime" => files'.key = files.key)
      BY <1>2, <2>1, <2>3 DEF Paired
    <2>5. known' \in {known, Stranger} /\ files' \in FilesRec
      BY <2>1, <2>3
    <2>6. launches' \in Nat /\ keys' \in Nat /\ stranded' \subseteq {"serial"}
      BY <2>2 DEF CertInv, CertificatesTypeOK
    <2> QED BY <1>1, <1>3, <2>2, <2>4, <2>5, <2>6, LaunchGoesOn
  <1> QED BY <1>4, <1>5

LEMMA LaunchBegun ==
  ASSUME CertInv, NEW p \in Launchers, NEW role \in Roles, LaunchBegins(p, role)
  PROVE  CertInv'
  <1>1. /\ launcher[p] = Off /\ launches' = launches + 1
        /\ UNCHANGED <<family, files, due, stranded, keys>>
    BY DEF LaunchBegins
  <1>2. /\ CertificatesTypeOK /\ AloneInv /\ PreparedInv /\ KnownInv /\ ServedInv /\ stranded \subseteq {"serial"}
        /\ launcher \in [Launchers -> LaunchRec \cup ServeRec] /\ known \in CertRec /\ launches \in Nat
    BY DEF CertInv, CertificatesTypeOK
  <1>3. PICK rivals : rivals = {q \in Rivals(p) : Busy(q)}
    OBVIOUS
  <1>4. /\ launcher' = [q \in Launchers |->
              IF q = p THEN [st |-> "check", role |-> role, made |-> FALSE, alone |-> rivals = {}]
              ELSE IF q \in rivals THEN [launcher[q] EXCEPT !.alone = FALSE]
              ELSE IF q \in Rivals(p) THEN [launcher[q] EXCEPT !.last = FALSE]
              ELSE launcher[q]]
        /\ known' = IF rivals # {} THEN Stranger ELSE known
    BY <1>3 DEF LaunchBegins
  <1>5. rivals = {q \in Launchers \ {p} : Busy(q)}
    BY <1>3 DEF Rivals, Busy
  <1>6. role \in {"mobile", "prepare", "runtime"} /\ Stranger \in CertRec
    BY DEF Roles, Stranger, CertRec, Missing
  <1>7. PICK one : one = [st |-> "check", role |-> role, made |-> FALSE, alone |-> rivals = {}]
    OBVIOUS
  <1>8. /\ launcher'[p] = one /\ one \in LaunchRec /\ one.st = "check" /\ ~one.made
        /\ one.alone <=> rivals = {}
    <2>1. launcher'[p] = one
      BY <1>4, <1>7
    <2>2. one \in LaunchRec
      BY <1>6, <1>7 DEF LaunchRec, Stages
    <2>3. one.st = "check" /\ ~one.made /\ (one.alone <=> rivals = {})
      BY <1>7
    <2> QED BY <2>1, <2>2, <2>3
  <1>9. ASSUME NEW q \in Launchers \ {p}, Busy(q)
        PROVE  /\ launcher'[q] \in LaunchRec /\ launcher'[q].st = launcher[q].st
               /\ ~launcher'[q].alone /\ known' = Stranger
    <2>1. q \in rivals
      BY <1>5, <1>9
    <2>2. launcher'[q] = [launcher[q] EXCEPT !.alone = FALSE] /\ known' = Stranger
      BY <1>4, <2>1
    <2>3. launcher[q] \in LaunchRec
      BY <1>2, <1>9, LauncherIs
    <2> QED BY <2>2, <2>3 DEF LaunchRec
  <1>10. ASSUME NEW q \in Launchers \ {p}, launcher[q].st = "serves"
         PROVE  /\ launcher'[q] \in ServeRec /\ launcher'[q].st = "serves"
                /\ ~launcher'[q].last /\ launcher'[q].alone = launcher[q].alone
                /\ launcher'[q].from = launcher[q].from /\ launcher'[q].got = launcher[q].got
                /\ launcher'[q].asked = launcher[q].asked
    <2>1. q \notin rivals /\ q \in Rivals(p)
      BY <1>5, <1>10 DEF Busy, Rivals
    <2>2. launcher'[q] = [launcher[q] EXCEPT !.last = FALSE]
      BY <1>4, <2>1
    <2>3. launcher[q] \in ServeRec
      BY <1>2, <1>10, LauncherIs
    <2> QED BY <2>2, <2>3 DEF ServeRec
  <1>11. ASSUME NEW q \in Launchers \ {p}, launcher[q].st = "off"
         PROVE  launcher'[q] = launcher[q]
    <2>1. q \notin rivals /\ q \notin Rivals(p)
      BY <1>5, <1>11 DEF Busy, Rivals
    <2> QED BY <1>4, <2>1
  <1>12. \A q \in Launchers : Busy(q) \/ launcher[q].st = "serves" \/ launcher[q].st = "off"
    BY DEF Busy
  <1>13. \A q \in Launchers \ {p} : launcher'[q].st = launcher[q].st
    BY <1>9, <1>10, <1>11, <1>12
  <1>14. (\A q \in Launchers \ {p} : Busy(q)' <=> Busy(q)) /\ Busy(p)' /\ ~Busy(p)
    BY <1>1, <1>8, <1>13 DEF Busy, Off
  <1>15. CertificatesTypeOK'
    <2>1. \A q \in Launchers \ {p} : launcher'[q] \in LaunchRec \cup ServeRec
      BY <1>2, <1>9, <1>10, <1>11, <1>12
    <2>2. launcher' \in [Launchers -> LaunchRec \cup ServeRec]
      BY <1>4, <1>8, <2>1
    <2>3. known' \in CertRec /\ launches' \in Nat
      BY <1>1, <1>2, <1>4, <1>6
    <2> QED BY <1>1, <1>2, <2>2, <2>3 DEF CertificatesTypeOK
  <1>16. AloneInv'
    <2> SUFFICES ASSUME NEW q \in Launchers, Busy(q)'
                 PROVE  /\ launcher'[q].alone => \A o \in Launchers \ {q} : ~Busy(o)'
                        /\ ~launcher'[q].alone => known' = Stranger
      BY DEF AloneInv, Stranger, Missing
    <2>1. CASE q = p
      <3>1. launcher'[p].alone => \A o \in Launchers \ {p} : ~Busy(o)'
        BY <1>5, <1>8, <1>14
      <3>2. ~launcher'[p].alone => known' = Stranger
        BY <1>4, <1>8
      <3> QED BY <2>1, <3>1, <3>2
    <2>2. CASE q # p
      BY <1>9, <1>14, <2>2
    <2> QED BY <2>1, <2>2
  <1>17. PreparedInv'
    <2> SUFFICES ASSUME NEW q \in Launchers, Busy(q)', launcher'[q].alone
                 PROVE  Prepared(launcher[q].st)'
      BY DEF PreparedInv
    <2>1. q = p
      BY <1>9, <1>14
    <2>2. launcher'[q].st = "check"
      BY <1>8, <2>1
    <2> QED BY <2>2 DEF Prepared
  <1>18. KnownInv'
    <2> SUFFICES ASSUME known' # Stranger
                 PROVE  /\ Paired' /\ known'.ca = files'.caCert /\ known'.ca \notin due'
                        /\ family' = "runtime" => known'.key = files'.key /\ files'.key > 0
                        /\ \A q \in Launchers : Busy(q)' => ~launcher'[q].made /\ launcher'[q].st = "check"
      BY DEF KnownInv, Stranger, Missing
    <2>1. known' = known
      BY <1>4
    <2>2. \A q \in Launchers : Busy(q)' => ~launcher'[q].made /\ launcher'[q].st = "check"
      BY <1>8, <1>9, <1>14
    <2>3. /\ Paired /\ known.ca = files.caCert /\ known.ca \notin due
          /\ family = "runtime" => known.key = files.key /\ files.key > 0
      BY <1>2, <2>1 DEF KnownInv
    <2> QED BY <1>1, <2>1, <2>2, <2>3 DEF Paired
  <1>19. ServedInv'
    <2> SUFFICES ASSUME NEW q \in Launchers, launcher'[q].st = "serves", launcher'[q].alone,
                        launcher'[q].from = "files"
                 PROVE  /\ ~launcher'[q].last
                        /\ launcher'[q].asked # Stranger =>
                             /\ launcher'[q].got.ca = launcher'[q].asked.ca
                             /\ family' = "runtime" => launcher'[q].got.key = launcher'[q].asked.key
      BY DEF ServedInv, Stranger, Missing
    <2>1. q # p /\ launcher[q].st = "serves"
      BY <1>8, <1>13
    <2>2. /\ ~launcher'[q].last /\ launcher[q].alone /\ launcher[q].from = "files"
          /\ launcher'[q].got = launcher[q].got /\ launcher'[q].asked = launcher[q].asked
      BY <1>10, <2>1
    <2>3. launcher[q].asked # Stranger =>
            /\ launcher[q].got.ca = launcher[q].asked.ca
            /\ family = "runtime" => launcher[q].got.key = launcher[q].asked.key
      BY <1>2, <2>1, <2>2 DEF ServedInv
    <2> QED BY <1>1, <2>2, <2>3
  <1> QED BY <1>1, <1>2, <1>15, <1>16, <1>17, <1>18, <1>19 DEF CertInv

LEMMA ServerEnds ==
  ASSUME CertInv, NEW p \in Launchers, Ends(p)
  PROVE  CertInv'
  <1>1. /\ launcher[p].st = "serves" /\ launcher' = [launcher EXCEPT ![p] = Off]
        /\ UNCHANGED <<family, files, due, known, stranded, keys, launches>>
    BY DEF Ends
  <1>2. /\ CertificatesTypeOK /\ AloneInv /\ PreparedInv /\ KnownInv /\ ServedInv /\ stranded \subseteq {"serial"}
        /\ launcher \in [Launchers -> LaunchRec \cup ServeRec]
    BY DEF CertInv, CertificatesTypeOK
  <1>3. Off \in LaunchRec /\ Off.st = "off"
    BY DEF Off, LaunchRec
  <1>4. launcher'[p] = Off /\ \A q \in Launchers \ {p} : launcher'[q] = launcher[q]
    BY <1>1, <1>2
  <1>5. \A q \in Launchers : Busy(q)' <=> Busy(q)
    BY <1>1, <1>3, <1>4 DEF Busy
  <1>6. \A q \in Launchers : Busy(q) => launcher'[q] = launcher[q]
    BY <1>1, <1>4 DEF Busy
  <1>7. launcher' \in [Launchers -> LaunchRec \cup ServeRec]
    BY <1>1, <1>2, <1>3
  <1>8. CertificatesTypeOK'
    BY <1>1, <1>2, <1>7 DEF CertificatesTypeOK
  <1>9. AloneInv'
    BY <1>1, <1>2, <1>5, <1>6 DEF AloneInv, Stranger, Missing
  <1>10. PreparedInv'
    BY <1>1, <1>2, <1>5, <1>6 DEF PreparedInv, Prepared, Paired
  <1>11. KnownInv'
    BY <1>1, <1>2, <1>5, <1>6 DEF KnownInv, Paired, Stranger, Missing
  <1>12. ServedInv'
    <2>1. \A q \in Launchers : launcher'[q].st = "serves" => launcher'[q] = launcher[q]
      BY <1>3, <1>4
    <2> QED BY <1>1, <1>2, <1>5, <2>1 DEF ServedInv, Stranger, Missing
  <1> QED BY <1>1, <1>2, <1>8, <1>9, <1>10, <1>11, <1>12 DEF CertInv

LEMMA CaComesDue ==
  ASSUME CertInv, ComesDue
  PROVE  CertInv'
  <1>1. /\ due' = due \cup {files.caCert} /\ known' = Stranger
        /\ UNCHANGED <<family, files, launcher, stranded, keys, launches>>
    BY DEF ComesDue
  <1>2. /\ CertificatesTypeOK /\ AloneInv /\ PreparedInv /\ ServedInv /\ stranded \subseteq {"serial"}
    BY DEF CertInv
  <1>3. Stranger \in CertRec /\ files.caCert \in Int
    BY <1>2 DEF Stranger, CertRec, Missing, CertificatesTypeOK, FilesRec
  <1>4. CertificatesTypeOK'
    BY <1>1, <1>2, <1>3 DEF CertificatesTypeOK
  <1>5. \A q \in Launchers : Busy(q)' <=> Busy(q)
    BY <1>1 DEF Busy
  <1>6. AloneInv'
    BY <1>1, <1>2, <1>5 DEF AloneInv, Stranger, Missing
  <1>7. PreparedInv'
    BY <1>1, <1>2, <1>5 DEF PreparedInv, Prepared, Paired
  <1>8. KnownInv'
    BY <1>1 DEF KnownInv, Stranger, Missing
  <1>9. ServedInv'
    BY <1>1, <1>2, <1>5 DEF ServedInv, Stranger, Missing
  <1> QED BY <1>1, <1>2, <1>4, <1>6, <1>7, <1>8, <1>9 DEF CertInv

\* The files, what clients know and where every launch stands agree, in every step of every launch.
THEOREM CertificatesInductive == CertificatesSpec => []CertInv
  <1>1. CertificatesInit => CertInv
    <2> SUFFICES ASSUME CertificatesInit PROVE CertInv
      OBVIOUS
    <2> USE DEF CertificatesInit
    <2>1. Off \in LaunchRec /\ Off.st = "off"
      BY DEF Off, LaunchRec
    <2>2. \A p \in Launchers : ~Busy(p) /\ launcher[p].st # "serves"
      BY <2>1 DEF Busy
    <2>3. CertificatesTypeOK
      <3>1. Stranger \in CertRec /\ Unsigned \in CertRec /\ Missing \in Int
        BY DEF Stranger, Unsigned, CertRec, Missing
      <3>2. files \in FilesRec
        BY <3>1 DEF FilesRec
      <3> QED BY <2>1, <3>1, <3>2 DEF CertificatesTypeOK
    <2> QED BY <2>2, <2>3 DEF CertInv, AloneInv, PreparedInv, KnownInv, ServedInv
  <1>2. CertInv /\ [CertificatesNext]_certVars => CertInv'
    <2> SUFFICES ASSUME CertInv, [CertificatesNext]_certVars PROVE CertInv'
      OBVIOUS
    <2>1. CASE UNCHANGED certVars
      BY <2>1 DEF certVars, CertInv, CertificatesTypeOK, AloneInv, PreparedInv, KnownInv, ServedInv, Prepared,
                  Paired, Busy, Stranger, Missing
    <2>2. CASE ComesDue
      BY <2>2, CaComesDue
    <2>3. ASSUME NEW p \in Launchers, NEW role \in Roles, LaunchBegins(p, role) PROVE CertInv'
      BY <2>3, LaunchBegun
    <2>4. ASSUME NEW p \in Launchers,
                 \/ Checks(p) \/ UnlinksKey(p) \/ UnlinksCert(p) \/ UnlinksSerial(p) \/ MakesCaKey(p) \/ MakesCaCert(p)
                 \/ FindsKey(p) \/ MakesKey(p) \/ Requests(p) \/ Signs(p)
          PROVE  CertInv'
      BY <2>4, LaunchCommands
    <2>5. ASSUME NEW p \in Launchers, Pins(p) \/ Loads(p) \/ FallsBack(p) PROVE CertInv'
      BY <2>5, LaunchComesThrough
    <2>6. ASSUME NEW p \in Launchers, LaunchFails(p) \/ Dies(p) PROVE CertInv'
      BY <2>6, LaunchEnds
    <2>7. ASSUME NEW p \in Launchers, Ends(p) PROVE CertInv'
      BY <2>7, ServerEnds
    <2> QED BY <2>1, <2>2, <2>3, <2>4, <2>5, <2>6, <2>7 DEF CertificatesNext
  <1> QED BY <1>1, <1>2, PTL DEF CertificatesSpec

\* tls.py: whatever crashes, renewals and launches at the same time do to the files, the next launch that has them to
\* itself comes up unless it finds half a serial file, clients go on meeting the CA and the key they trust, and the CA handed out is the one that signed.
THEOREM TrustSurvivesCorrect == CertificatesSpec => []TrustSurvives
  <1>1. CertInv => TrustSurvives
    <2> SUFFICES ASSUME CertInv PROVE TrustSurvives
      OBVIOUS
    <2>1. LaunchesRecover
      BY DEF LaunchesRecover, CertInv
    <2>2. TrustIsStable
      BY DEF TrustIsStable, CertInv, ServedInv
    <2>3. HandedOutVerifies
      BY DEF HandedOutVerifies, CertInv, ServedInv
    <2> QED BY <2>1, <2>2, <2>3 DEF TrustSurvives
  <1> QED BY <1>1, CertificatesInductive, PTL
-----------------------------------------------------------------------------
(* Log files. *)

FileRec == [gen : Nat, day : Nat]
Configs == [backups : Backups, age : Ages]
SinkRec ==
  [st : {"unlocked", "append", "shifted"}] \cup [st : {"shift"}, n : Nat \ {0}]
    \cup [st : {"prune"}, left : SUBSET (Indices \ {0}), then : {"unlock", "append"}]

LogsTypeOK ==
  /\ logs \in [Indices -> FileRec] /\ asked \in Configs /\ inForce \in Configs
  /\ sink \in SinkRec /\ reloading \in BOOLEAN
  /\ {today, generations, writes, breaks} \subseteq Nat /\ owed \subseteq Nat \ {0}

\* A file has the number of its generation, the one being written the last one given.
GenInv ==
  /\ \A i \in Indices : There(i) => logs[i].gen \in 1..generations
  /\ There(0) => logs[0].gen = generations

\* The settings in force let the file of this number stay.
Stays(i) == i <= inForce.backups /\ (inForce.age > 0 => today - logs[i].day <= inForce.age)

\* What is owed is let stay; the file that a rotation has just let go of is judged when the rotation is over.
OwedInv == sink.st # "shifted" => \A i \in Indices \ {0} : logs[i].gen \in owed => Stays(i)

\* A rename overwrites nothing that is owed.
ShiftInv == sink.st = "shift" => sink.n <= inForce.backups /\ logs[Target(sink.n)].gen \notin owed

\* What is to be removed is not owed.
PruneInv == sink.st = "prune" => \A i \in sink.left : logs[i].gen \notin owed

LogsInv ==
  /\ LogsTypeOK /\ GenInv /\ OwedInv /\ ShiftInv /\ PruneInv
  /\ NoLogIsLost /\ LogsAreInOrder

-----------------------------------------------------------------------------
(* Lemmas about the files of the log. *)

LEMMA TopBackup == Max(Backups) \in Backups /\ \A b \in Backups : b \in Nat /\ b <= Max(Backups)
  <1>1. IsFiniteSet(Backups) /\ Backups # {} /\ Backups \in SUBSET Nat
    BY LogsAssumption
  <1>2. PICK top \in Backups : \A b \in Backups : top >= b
    BY <1>1, GreatestNumber
  <1>3. Max(Backups) \in Backups /\ \A b \in Backups : Max(Backups) >= b
    BY <1>2 DEF Max
  <1> QED BY <1>1, <1>3

LEMMA IndexFacts ==
  /\ Indices \subseteq Nat /\ 0 \in Indices
  /\ \A b \in Backups : b \in Indices /\ 0..b \subseteq Indices
  BY TopBackup DEF Indices

LEMMA LargerOfTwo ==
  ASSUME NEW a \in Int, NEW b \in Int
  PROVE  Max({a, b}) \in Int /\ Max({a, b}) >= a /\ Max({a, b}) >= b
  <1>1. \E x \in {a, b} : \A y \in {a, b} : x >= y
    <2>1. CASE a >= b
      BY <2>1
    <2>2. CASE b >= a
      BY <2>2
    <2> QED BY <2>1, <2>2
  <1>2. Max({a, b}) \in {a, b} /\ \A y \in {a, b} : Max({a, b}) >= y
    BY <1>1 DEF Max
  <1> QED BY <1>2

LEMMA SettingsAreNumbers ==
  ASSUME NEW config \in Configs
  PROVE  config.backups \in Backups /\ config.backups \in Nat /\ config.age \in Nat
  BY LogsAssumption DEF Configs

\* A file of this generation is in the directory, and the settings let it stay where the move takes it.
Allowed(fs, config, now, move, i) ==
  i = 0 \/ (i + move <= config.backups /\ (config.age > 0 => now - fs[i].day <= config.age))
Found(fs, config, now, move, g) == \E i \in Indices : fs[i].gen = g /\ Allowed(fs, config, now, move, i)

\* What stays owed is such a file.
LEMMA OwedIsThere ==
  ASSUME NEW fs \in [Indices -> FileRec], NEW config \in Configs, NEW now \in Nat, NEW move \in {0, 1},
         owed \subseteq Nat \ {0}, generations \in Nat,
         NEW g \in StillOwed(fs, config, now, move)
  PROVE  g \in owed /\ Found(fs, config, now, move, g)
  <1>1. g \in owed /\ g \in Nat
    BY DEF StillOwed
  <1>2. PICK i \in Indices :
          fs[i].gen = g /\ (i = 0 \/ Entitled(Max({Writing + move - g, i + move}), fs[i].day, config, now))
    BY DEF StillOwed
  <1>3. i \in Nat /\ config.backups \in Nat /\ Writing + move - g \in Int /\ i + move \in Int
    BY <1>1, IndexFacts, SettingsAreNumbers DEF Writing
  <1>4. Max({Writing + move - g, i + move}) \in Int /\ Max({Writing + move - g, i + move}) >= i + move
    BY <1>3, LargerOfTwo
  <1>5. CASE i = 0
    BY <1>1, <1>2, <1>5 DEF Allowed, Found
  <1>6. CASE Entitled(Max({Writing + move - g, i + move}), fs[i].day, config, now)
    <2>1. PICK m \in Int : m = Max({Writing + move - g, i + move})
      BY <1>4
    <2>2. m <= config.backups /\ (config.age > 0 => now - fs[i].day <= config.age)
      BY <1>6, <2>1 DEF Entitled
    <2>3. i + move <= config.backups
      BY <1>3, <1>4, <2>1, <2>2
    <2> QED BY <1>1, <1>2, <2>2, <2>3 DEF Allowed, Found
  <1> QED BY <1>2, <1>5, <1>6

InOrder(fs) == \A i, j \in Indices : i < j /\ fs[i] # NoFile /\ fs[j] # NoFile => fs[i].gen > fs[j].gen

\* No two files are of one generation.
LEMMA OneFileEach ==
  ASSUME NEW fs \in [Indices -> FileRec], InOrder(fs), NEW i \in Indices, NEW j \in Indices,
         fs[i].gen = fs[j].gen, fs[i].gen # 0
  PROVE  i = j
  <1>1. i \in Nat /\ j \in Nat /\ fs[i].gen \in Nat
    BY IndexFacts DEF FileRec
  <1>2. fs[i] # NoFile /\ fs[j] # NoFile
    BY DEF NoFile
  <1>3. ~(i < j) /\ ~(j < i)
    BY <1>1, <1>2 DEF InOrder
  <1> QED BY <1>1, <1>3

\* An older file that is owed is one the settings let stay.
LEMMA Judged ==
  ASSUME NEW fs \in [Indices -> FileRec], InOrder(fs), NEW config \in Configs, NEW now \in Nat, NEW move \in {0, 1},
         owed \subseteq Nat \ {0}, generations \in Nat,
         NEW i \in Indices \ {0}, fs[i].gen \in StillOwed(fs, config, now, move)
  PROVE  i + move <= config.backups /\ (config.age > 0 => now - fs[i].day <= config.age)
  <1>1. PICK g : g = fs[i].gen /\ g \in StillOwed(fs, config, now, move)
    OBVIOUS
  <1>2. g \in owed /\ g # 0 /\ Found(fs, config, now, move, g)
    BY <1>1, OwedIsThere
  <1>3. PICK j \in Indices : fs[j].gen = g /\ Allowed(fs, config, now, move, j)
    BY <1>2 DEF Found
  <1>4. i = j
    BY <1>1, <1>2, <1>3, OneFileEach
  <1> QED BY <1>3, <1>4 DEF Allowed

\* What is owed and found in the directory is not lost.
LEMMA NothingLost ==
  ASSUME NEW fs \in [Indices -> FileRec], NEW config \in Configs, NEW now \in Nat, NEW move \in {0, 1},
         owed \subseteq Nat \ {0}, generations \in Nat
  PROVE  /\ StillOwed(fs, config, now, move) \subseteq owed
         /\ StillOwed(fs, config, now, move) \subseteq {fs[i].gen : i \in Indices}
  <1> SUFFICES ASSUME NEW g \in StillOwed(fs, config, now, move)
               PROVE  g \in owed /\ \E i \in Indices : fs[i].gen = g
    OBVIOUS
  <1>1. g \in owed
    BY OwedIsThere
  <1>2. Found(fs, config, now, move, g)
    BY OwedIsThere
  <1> QED BY <1>1, <1>2 DEF Found

LEMMA OrderOfLogs == LogsAreInOrder <=> InOrder(logs)
  BY DEF LogsAreInOrder, InOrder, There

-----------------------------------------------------------------------------
(* Each action keeps the invariant. *)

LEMMA LogsBegin == LogsInit => LogsInv
  <1> SUFFICES ASSUME LogsInit PROVE LogsInv
    OBVIOUS
  <1>1. NoFile \in FileRec /\ logs = [i \in Indices |-> NoFile]
    BY DEF NoFile, FileRec, LogsInit
  <1>2. LogsTypeOK
    <2>1. logs \in [Indices -> FileRec]
      BY <1>1
    <2>2. sink \in SinkRec
      BY DEF LogsInit, SinkRec, Unlocked
    <2>3. asked \in Configs /\ inForce \in Configs /\ reloading \in BOOLEAN
      BY DEF LogsInit, Configs
    <2>4. {today, generations, writes, breaks} \subseteq Nat /\ owed \subseteq Nat \ {0}
      BY DEF LogsInit
    <2> QED BY <2>1, <2>2, <2>3, <2>4 DEF LogsTypeOK
  <1>3. ~There(0) /\ \A i \in Indices : ~There(i) /\ logs[i].gen \notin owed
    BY <1>1, IndexFacts DEF LogsInit, There
  <1>4. GenInv /\ OwedInv /\ LogsAreInOrder
    BY <1>3 DEF GenInv, OwedInv, LogsAreInOrder
  <1>5. ShiftInv /\ PruneInv /\ NoLogIsLost
    BY DEF ShiftInv, PruneInv, NoLogIsLost, LogsInit, Unlocked
  <1> QED BY <1>2, <1>4, <1>5 DEF LogsInv

LEMMA WriteSettingKeeps ==
  ASSUME LogsInv, NEW field \in {"backups", "age"}, NEW value \in (IF field = "backups" THEN Backups ELSE Ages),
         WriteSetting(field, value)
  PROVE  LogsInv'
  <1>1. asked' \in Configs
    BY DEF LogsInv, LogsTypeOK, Configs, WriteSetting
  <1>2. LogsTypeOK'
    BY <1>1 DEF LogsInv, LogsTypeOK, WriteSetting, SinkRec, FileRec
  <1>3. logs' = logs /\ inForce' = inForce /\ sink' = sink /\ today' = today /\ generations' = generations /\ owed' = owed
    BY DEF WriteSetting
  <1> QED BY <1>2, <1>3 DEF LogsInv, GenInv, OwedInv, ShiftInv, PruneInv, NoLogIsLost, LogsAreInOrder, There, Stays, Target

\* What an action that judges the files by settings and a day leaves.
LEMMA JudgingKeeps ==
  ASSUME LogsInv, NEW config \in Configs, NEW now \in Nat,
         logs' = logs, inForce' = config, today' = now, generations' = generations,
         owed' = StillOwed(logs, config, now, 0)
  PROVE  /\ owed' \subseteq owed
         /\ GenInv' /\ NoLogIsLost' /\ LogsAreInOrder'
         /\ OwedInv' /\ \A i \in Indices \ {0} : logs[i].gen \in owed' => Stays(i)'
  <1>1. /\ logs \in [Indices -> FileRec] /\ InOrder(logs) /\ owed \subseteq Nat \ {0} /\ generations \in Nat
        /\ GenInv /\ LogsAreInOrder
    BY OrderOfLogs DEF LogsInv, LogsTypeOK
  <1>2. owed' \subseteq owed /\ owed' \subseteq {logs[i].gen : i \in Indices}
    BY <1>1, NothingLost
  <1>3. \A i \in Indices \ {0} : logs[i].gen \in owed' => Stays(i)'
    <2> SUFFICES ASSUME NEW i \in Indices \ {0}, logs[i].gen \in StillOwed(logs, config, now, 0)
                 PROVE  Stays(i)'
      OBVIOUS
    <2>1. i + 0 <= config.backups /\ (config.age > 0 => now - logs[i].day <= config.age)
      BY <1>1, Judged
    <2>2. i + 0 = i
      BY IndexFacts
    <2> QED BY <2>1, <2>2 DEF Stays
  <1>4. NoLogIsLost' /\ OwedInv'
    BY <1>2, <1>3 DEF NoLogIsLost, OwedInv
  <1>5. GenInv' /\ LogsAreInOrder'
    BY <1>1 DEF GenInv, LogsAreInOrder, There
  <1> QED BY <1>2, <1>3, <1>4, <1>5

LEMMA ReloadsKeeps ==
  ASSUME LogsInv, Reloads
  PROVE  LogsInv'
  <1>1. asked \in Configs /\ today \in Nat
    BY DEF LogsInv, LogsTypeOK
  <1>2. owed' \subseteq owed /\ GenInv' /\ NoLogIsLost' /\ LogsAreInOrder' /\ OwedInv'
    BY <1>1, JudgingKeeps DEF Reloads
  <1>3. LogsTypeOK'
    BY <1>1, <1>2 DEF LogsInv, LogsTypeOK, Reloads, SinkRec, FileRec
  <1>4. ShiftInv' /\ PruneInv'
    BY DEF Reloads, ShiftInv, PruneInv, Unlocked
  <1> QED BY <1>2, <1>3, <1>4 DEF LogsInv

LEMMA DiesLoggingKeeps ==
  ASSUME LogsInv, DiesLogging
  PROVE  LogsInv'
  <1>1. asked \in Configs /\ today \in Nat
    BY DEF LogsInv, LogsTypeOK
  <1>2. owed' \subseteq owed /\ GenInv' /\ NoLogIsLost' /\ LogsAreInOrder' /\ OwedInv'
    BY <1>1, JudgingKeeps DEF DiesLogging
  <1>3. Unlocked \in SinkRec
    BY DEF Unlocked, SinkRec
  <1>4. LogsTypeOK'
    <2>1. sink' = Unlocked /\ reloading' = FALSE /\ inForce' = asked /\ breaks' = breaks + 1
      BY DEF DiesLogging
    <2>2. logs' = logs /\ asked' = asked /\ today' = today /\ generations' = generations /\ writes' = writes
      BY DEF DiesLogging
    <2>3. LogsTypeOK
      BY DEF LogsInv
    <2>4. owed' \subseteq Nat \ {0}
      BY <1>2, <2>3 DEF LogsTypeOK
    <2>5. {today', generations', writes', breaks'} \subseteq Nat
      BY <2>1, <2>2, <2>3 DEF LogsTypeOK
    <2> QED BY <1>3, <2>1, <2>2, <2>3, <2>4, <2>5 DEF LogsTypeOK
  <1>5. ShiftInv' /\ PruneInv'
    BY DEF DiesLogging, ShiftInv, PruneInv, Unlocked
  <1> QED BY <1>2, <1>4, <1>5 DEF LogsInv

LEMMA DayEndsKeeps ==
  ASSUME LogsInv, DayEnds
  PROVE  LogsInv'
  <1>1. inForce \in Configs /\ today + 1 \in Nat /\ today' = today + 1
    BY DEF LogsInv, LogsTypeOK, DayEnds
  <1>2. logs' = logs /\ inForce' = inForce /\ generations' = generations /\ sink' = sink
    BY DEF DayEnds
  <1>3. owed' = StillOwed(logs, inForce, today + 1, 0)
    BY <1>1 DEF DayEnds
  <1>4. owed' \subseteq owed /\ GenInv' /\ NoLogIsLost' /\ LogsAreInOrder' /\ OwedInv'
    BY <1>1, <1>2, <1>3, JudgingKeeps
  <1>5. LogsTypeOK'
    BY <1>1, <1>4 DEF LogsInv, LogsTypeOK, DayEnds
  <1>6. ShiftInv' /\ PruneInv'
    BY <1>2, <1>4 DEF LogsInv, ShiftInv, PruneInv, Target
  <1> QED BY <1>4, <1>5, <1>6 DEF LogsInv

\* What is to be pruned may not stay.
LEMMA PrunableGoes ==
  ASSUME LogsTypeOK, NEW i \in Prunable
  PROVE  i \in Indices \ {0} /\ ~Stays(i)
  <1>1. i \in Nat /\ inForce.backups \in Nat /\ inForce.age \in Nat /\ today \in Nat /\ logs[i].day \in Nat
    BY IndexFacts, SettingsAreNumbers DEF LogsTypeOK, Prunable, FileRec
  <1> QED BY <1>1 DEF Prunable, TooMany, TooOld, Stays

LEMMA PrunesType ==
  ASSUME NEW then \in {"unlock", "append"}
  PROVE  Prunes(then) \in SinkRec
  BY DEF Prunes, Prunable, SinkRec

LEMMA MaintainsKeeps ==
  ASSUME LogsInv, Maintains
  PROVE  LogsInv'
  <1>1. logs' = logs /\ inForce' = inForce /\ today' = today /\ generations' = generations /\ owed' = owed
    BY DEF Maintains
  <1>2. LogsTypeOK'
    BY PrunesType DEF LogsInv, LogsTypeOK, Maintains
  <1>3. sink.st = "unlocked" /\ sink'.st = "prune" /\ sink'.left = Prunable
    BY DEF Maintains, Prunes, Unlocked
  <1>4. \A i \in Prunable : logs[i].gen \notin owed
    BY <1>3, PrunableGoes DEF LogsInv, OwedInv
  <1>5. GenInv' /\ OwedInv' /\ NoLogIsLost' /\ LogsAreInOrder'
    BY <1>1, <1>3 DEF LogsInv, GenInv, OwedInv, NoLogIsLost, LogsAreInOrder, There, Stays
  <1>6. ShiftInv' /\ PruneInv'
    BY <1>1, <1>3, <1>4 DEF ShiftInv, PruneInv
  <1> QED BY <1>2, <1>5, <1>6 DEF LogsInv

LEMMA RemovesKeeps ==
  ASSUME LogsInv, NEW k \in Indices, Removes(k)
  PROVE  LogsInv'
  <1>1. /\ sink.st = "prune" /\ k \in sink.left /\ logs[k].gen \notin owed
        /\ logs \in [Indices -> FileRec] /\ owed \subseteq Nat \ {0} /\ sink \in SinkRec
    BY DEF LogsInv, LogsTypeOK, PruneInv, Removes
  <1>2. sink.left \subseteq Indices \ {0} /\ sink.then \in {"unlock", "append"}
    BY <1>1 DEF SinkRec
  <1>3. sink' = [st |-> "prune", left |-> sink.left \ {k}, then |-> sink.then]
    BY <1>1 DEF Removes, SinkRec
  <1>4. logs' \in [Indices -> FileRec] /\ logs'[k] = NoFile /\ \A i \in Indices \ {k} : logs'[i] = logs[i]
    BY <1>1 DEF Removes, FileRec, NoFile
  <1>5. inForce' = inForce /\ today' = today /\ generations' = generations /\ owed' = owed
    BY DEF Removes
  <1>6. LogsTypeOK'
    <2>1. sink' \in SinkRec
      BY <1>2, <1>3 DEF SinkRec
    <2> QED BY <1>4, <2>1 DEF LogsInv, LogsTypeOK, Removes
  <1>7. GenInv'
    BY <1>2, <1>1, <1>4, <1>5, IndexFacts DEF LogsInv, GenInv, There
  <1>8. LogsAreInOrder'
    BY <1>4 DEF LogsInv, LogsAreInOrder, There
  <1>9. logs'[k].gen \notin owed
    BY <1>1, <1>4 DEF NoFile
  <1>10. OwedInv'
    BY <1>1, <1>4, <1>5, <1>9 DEF LogsInv, OwedInv, Stays
  <1>11. ShiftInv'
    BY <1>3 DEF ShiftInv
  <1>12. PruneInv'
    BY <1>1, <1>2, <1>3, <1>4, <1>5 DEF LogsInv, PruneInv
  <1>13. NoLogIsLost'
    <2> SUFFICES ASSUME NEW g \in owed PROVE \E i \in Indices : g = logs'[i].gen
      BY <1>5 DEF NoLogIsLost
    <2>1. PICK i \in Indices : g = logs[i].gen
      BY DEF LogsInv, NoLogIsLost
    <2> QED BY <1>1, <1>4, <2>1
  <1> QED BY <1>6, <1>7, <1>8, <1>10, <1>11, <1>12, <1>13 DEF LogsInv

LEMMA EndsPruningKeeps ==
  ASSUME LogsInv, EndsPruning
  PROVE  LogsInv'
  <1>1. logs' = logs /\ inForce' = inForce /\ today' = today /\ generations' = generations /\ owed' = owed
    BY DEF EndsPruning
  <1>2. sink.st = "prune" /\ sink' \in {[st |-> "append"], [st |-> "unlocked"]}
    BY DEF EndsPruning, Unlocked
  <1>3. sink' \in SinkRec
    BY <1>2 DEF SinkRec
  <1>4. LogsTypeOK'
    BY <1>3 DEF LogsInv, LogsTypeOK, EndsPruning
  <1>5. GenInv' /\ OwedInv' /\ NoLogIsLost' /\ LogsAreInOrder'
    BY <1>1, <1>2 DEF LogsInv, GenInv, OwedInv, NoLogIsLost, LogsAreInOrder, There, Stays
  <1>6. ShiftInv' /\ PruneInv'
    BY <1>2 DEF ShiftInv, PruneInv
  <1> QED BY <1>4, <1>5, <1>6 DEF LogsInv

LEMMA FailsKeeps ==
  ASSUME LogsInv, Fails
  PROVE  LogsInv'
  <1>1. logs' = logs /\ inForce' = inForce /\ today' = today /\ generations' = generations /\ owed' = owed
    BY DEF Fails
  <1>2. sink.st \in {"prune", "shift"} /\ sink' = [st |-> "unlocked"]
    BY DEF Fails, Unlocked
  <1>3. sink' \in SinkRec
    BY <1>2 DEF SinkRec
  <1>4. LogsTypeOK'
    BY <1>3 DEF LogsInv, LogsTypeOK, Fails
  <1>5. GenInv' /\ OwedInv' /\ NoLogIsLost' /\ LogsAreInOrder'
    BY <1>1, <1>2 DEF LogsInv, GenInv, OwedInv, NoLogIsLost, LogsAreInOrder, There, Stays
  <1>6. ShiftInv' /\ PruneInv'
    BY <1>2 DEF ShiftInv, PruneInv
  <1> QED BY <1>4, <1>5, <1>6 DEF LogsInv

LEMMA PrunesAfterwardsKeeps ==
  ASSUME LogsInv, PrunesAfterwards
  PROVE  LogsInv'
  <1>1. logs' = logs /\ inForce' = inForce /\ today' = today /\ generations' = generations
        /\ inForce \in Configs /\ today \in Nat /\ owed' = StillOwed(logs, inForce, today, 0)
    BY DEF LogsInv, LogsTypeOK, PrunesAfterwards
  <1>2. /\ owed' \subseteq owed /\ GenInv' /\ NoLogIsLost' /\ LogsAreInOrder' /\ OwedInv'
        /\ \A i \in Indices \ {0} : logs[i].gen \in owed' => Stays(i)'
    BY <1>1, JudgingKeeps
  <1>3. sink' = Prunes("append")
    BY DEF PrunesAfterwards
  <1>4. sink' \in SinkRec
    BY <1>3, PrunesType
  <1>5. LogsTypeOK'
    BY <1>2, <1>4 DEF LogsInv, LogsTypeOK, PrunesAfterwards
  <1>6. \A i : Stays(i)' <=> Stays(i)
    BY <1>1 DEF Stays
  <1>7. \A i \in Prunable : logs[i].gen \notin owed'
    BY <1>2, <1>6, PrunableGoes DEF LogsInv
  <1>8. sink'.st = "prune" /\ sink'.left = Prunable
    BY <1>3 DEF Prunes
  <1>9. ShiftInv' /\ PruneInv'
    BY <1>1, <1>7, <1>8 DEF ShiftInv, PruneInv
  <1> QED BY <1>2, <1>5, <1>9 DEF LogsInv

\* A file that is not there is of no generation.
LEMMA NoneThere == \A i \in Indices : ~There(i) => logs[i].gen = 0
  BY DEF There, NoFile

LEMMA BeginsRotationKeeps ==
  ASSUME LogsInv, BeginsRotation
  PROVE  LogsInv'
  <1>1. /\ LogsTypeOK /\ GenInv /\ LogsAreInOrder /\ InOrder(logs)
        /\ logs \in [Indices -> FileRec] /\ owed \subseteq Nat \ {0} /\ generations \in Nat
        /\ inForce \in Configs /\ today \in Nat
    BY OrderOfLogs DEF LogsInv, LogsTypeOK
  <1>2. inForce' = inForce /\ today' = today /\ generations' = generations
    BY DEF BeginsRotation
  <1>3. inForce.backups \in Nat /\ inForce.backups \in Indices
    BY <1>1, SettingsAreNumbers, IndexFacts
  <1>4. CASE inForce.backups = 0
    <2>1. logs' = [logs EXCEPT ![0] = NoFile] /\ sink' = [st |-> "shifted"] /\ owed' = StillOwed(logs', inForce, today, 1)
      BY <1>4 DEF BeginsRotation
    <2>2. PICK fs : fs = logs'
      OBVIOUS
    <2>3. fs \in [Indices -> FileRec] /\ fs[0] = NoFile /\ \A i \in Indices \ {0} : fs[i] = logs[i]
      BY <1>1, <2>1, <2>2, IndexFacts DEF NoFile, FileRec
    <2>4. owed' \subseteq owed /\ owed' \subseteq {fs[i].gen : i \in Indices}
      BY <1>1, <2>1, <2>2, <2>3, NothingLost
    <2>5. LogsTypeOK'
      <3>1. sink' \in SinkRec
        BY <2>1 DEF SinkRec
      <3> QED BY <1>1, <2>2, <2>3, <2>4, <3>1 DEF LogsTypeOK, BeginsRotation
    <2>6. GenInv' /\ LogsAreInOrder'
      BY <1>1, <1>2, <2>2, <2>3 DEF GenInv, LogsAreInOrder, There
    <2>7. OwedInv' /\ ShiftInv' /\ PruneInv'
      BY <2>1 DEF OwedInv, ShiftInv, PruneInv
    <2>8. NoLogIsLost'
      BY <2>2, <2>4 DEF NoLogIsLost
    <2> QED BY <2>5, <2>6, <2>7, <2>8 DEF LogsInv
  <1>5. CASE inForce.backups # 0
    <2>1. logs' = logs /\ sink' = [st |-> "shift", n |-> 1] /\ owed' = StillOwed(logs, inForce, today, 1)
      BY <1>5 DEF BeginsRotation
    <2>2. owed' \subseteq owed /\ owed' \subseteq {logs[i].gen : i \in Indices}
      BY <1>1, <2>1, NothingLost
    <2>3. ASSUME NEW i \in Indices \ {0}, logs[i].gen \in owed'
          PROVE  i + 1 <= inForce.backups /\ (inForce.age > 0 => today - logs[i].day <= inForce.age)
      BY <1>1, <2>1, <2>3, Judged
    <2>4. LogsTypeOK'
      <3>1. sink' \in SinkRec
        BY <2>1 DEF SinkRec
      <3> QED BY <1>1, <2>1, <2>2, <3>1 DEF LogsTypeOK, BeginsRotation
    <2>5. GenInv' /\ LogsAreInOrder'
      BY <1>1, <1>2, <2>1 DEF GenInv, LogsAreInOrder, There
    <2>6. OwedInv'
      <3> SUFFICES ASSUME NEW i \in Indices \ {0}, logs[i].gen \in owed'
                   PROVE  Stays(i)'
        BY <2>1 DEF OwedInv
      <3>1. i \in Nat
        BY IndexFacts
      <3>2. i <= inForce.backups
        BY <1>3, <2>3, <3>1
      <3> QED BY <1>2, <2>1, <2>3, <3>2 DEF Stays
    <2>7. ShiftInv'
      <3>1. logs[inForce.backups].gen \notin owed'
        <4>1. ~(inForce.backups + 1 <= inForce.backups)
          BY <1>3
        <4> QED BY <1>3, <1>5, <2>3, <4>1
      <3>2. inForce.backups + 1 - 1 = inForce.backups /\ 1 <= inForce.backups
        BY <1>3, <1>5
      <3> QED BY <1>2, <2>1, <3>1, <3>2 DEF ShiftInv, Target
    <2>8. PruneInv' /\ NoLogIsLost'
      BY <2>1, <2>2 DEF PruneInv, NoLogIsLost
    <2> QED BY <2>4, <2>5, <2>6, <2>7, <2>8 DEF LogsInv
  <1> QED BY <1>4, <1>5

LEMMA ShiftsKeeps ==
  ASSUME LogsInv, Shifts
  PROVE  LogsInv'
  <1>1. /\ LogsTypeOK /\ GenInv /\ LogsAreInOrder /\ OwedInv /\ ShiftInv /\ NoLogIsLost
        /\ logs \in [Indices -> FileRec] /\ owed \subseteq Nat \ {0} /\ generations \in Nat
        /\ inForce \in Configs /\ sink \in SinkRec /\ sink.st = "shift"
    BY DEF LogsInv, LogsTypeOK, Shifts
  <1>2. inForce' = inForce /\ today' = today /\ generations' = generations /\ owed' = owed
    BY DEF Shifts
  <1>3. inForce.backups \in Nat /\ inForce.backups \in Backups /\ sink.n \in Nat \ {0} /\ sink.n <= inForce.backups
    BY <1>1, SettingsAreNumbers DEF SinkRec, ShiftInv
  <1>4. PICK to : to = Target(sink.n)
    OBVIOUS
  <1>5. to \in 1..inForce.backups /\ to = inForce.backups + 1 - sink.n
    BY <1>3, <1>4 DEF Target
  <1>6. to \in Indices \ {0} /\ to - 1 \in Indices /\ to \in Nat /\ to - 1 \in Nat
    <2>1. to \in 0..inForce.backups /\ to - 1 \in 0..inForce.backups
      BY <1>3, <1>5
    <2> QED BY <1>3, <1>5, <2>1, IndexFacts
  <1>7. logs[to].gen \notin owed
    BY <1>1, <1>4 DEF ShiftInv
  <1>8. sink' = IF sink.n = inForce.backups THEN [st |-> "shifted"] ELSE [st |-> "shift", n |-> sink.n + 1]
    <2>1. sink = [st |-> "shift", n |-> sink.n]
      BY <1>1 DEF SinkRec
    <2> QED BY <2>1 DEF Shifts
  <1>9. sink' \in SinkRec /\ sink'.st \in {"shift", "shifted"}
    BY <1>3, <1>8 DEF SinkRec
  <1>10. sink'.st = "shift" => sink'.n = sink.n + 1 /\ sink.n < inForce.backups /\ to - 1 # 0
    BY <1>3, <1>5, <1>8
  <1>11. PruneInv'
    BY <1>9 DEF PruneInv
  <1>12. ASSUME sink'.st = "shift" PROVE Target(sink.n)' = to - 1 /\ sink'.n <= inForce.backups
    BY <1>2, <1>3, <1>5, <1>10, <1>12 DEF Target
  <1>13. CASE There(to - 1)
    <2>1. logs' = [logs EXCEPT ![to] = logs[to - 1], ![to - 1] = NoFile]
      BY <1>4, <1>13 DEF Shifts
    <2>2. PICK fs : fs = logs'
      OBVIOUS
    <2>3. to # to - 1
      BY <1>6
    <2>4. /\ fs \in [Indices -> FileRec] /\ fs[to] = logs[to - 1] /\ fs[to - 1] = NoFile
          /\ \A i \in Indices \ {to, to - 1} : fs[i] = logs[i]
      BY <1>1, <1>6, <2>1, <2>2, <2>3 DEF NoFile, FileRec
    <2>5. LogsTypeOK'
      BY <1>1, <1>9, <2>2, <2>4 DEF LogsTypeOK, Shifts
    <2>6. GenInv'
      <3>1. ASSUME NEW i \in Indices, fs[i] # NoFile PROVE fs[i].gen \in 1..generations
        <4>1. CASE i = to
          BY <1>1, <1>6, <1>13, <2>4, <4>1 DEF GenInv
        <4>2. CASE i \notin {to, to - 1}
          BY <1>1, <2>4, <3>1, <4>2 DEF GenInv, There
        <4> QED BY <2>4, <3>1, <4>1, <4>2
      <3>2. fs[0] # NoFile => fs[0].gen = generations
        BY <1>1, <1>6, <2>4, IndexFacts DEF GenInv, There
      <3> QED BY <1>2, <2>2, <3>1, <3>2 DEF GenInv, There
    <2>7. LogsAreInOrder'
      <3>1. ASSUME NEW i \in Indices, NEW j \in Indices, i < j, fs[i] # NoFile, fs[j] # NoFile
            PROVE  fs[i].gen > fs[j].gen
        <4>0. i # to - 1 /\ j # to - 1 /\ i \in Nat /\ j \in Nat
          BY <2>4, <3>1, IndexFacts
        <4>1. CASE i = to
          <5>1. to - 1 < j /\ fs[j] = logs[j]
            BY <1>6, <2>4, <3>1, <4>0, <4>1
          <5> QED BY <1>1, <1>6, <1>13, <2>4, <3>1, <4>1, <5>1 DEF LogsAreInOrder, There
        <4>2. CASE j = to
          <5>1. i < to - 1 /\ fs[i] = logs[i]
            BY <1>6, <2>4, <3>1, <4>0, <4>2
          <5> QED BY <1>1, <1>6, <1>13, <2>4, <3>1, <4>2, <5>1 DEF LogsAreInOrder, There
        <4>3. CASE i # to /\ j # to
          BY <1>1, <2>4, <3>1, <4>0, <4>3 DEF LogsAreInOrder, There
        <4> QED BY <4>1, <4>2, <4>3
      <3> QED BY <2>2, <3>1 DEF LogsAreInOrder, There
    <2>8. fs[to - 1].gen \notin owed
      BY <1>1, <2>4 DEF NoFile
    <2>9. OwedInv'
      <3> SUFFICES ASSUME sink'.st # "shifted", NEW i \in Indices \ {0}, fs[i].gen \in owed
                   PROVE  Stays(i)'
        BY <1>2, <2>2 DEF OwedInv
      <3>1. CASE i = to
        <4>1. to - 1 \in Indices \ {0} /\ logs[to - 1].gen \in owed
          BY <1>6, <1>9, <1>10, <2>4, <3>1
        <4>2. Stays(to - 1)
          BY <1>1, <4>1 DEF OwedInv
        <4> QED BY <1>2, <1>5, <2>2, <2>4, <3>1, <4>2 DEF Stays
      <3>2. CASE i # to
        <4>1. fs[i] = logs[i]
          BY <2>4, <2>8, <3>2
        <4>2. Stays(i)
          BY <1>1, <4>1 DEF OwedInv
        <4> QED BY <1>2, <2>2, <4>1, <4>2 DEF Stays
      <3> QED BY <3>1, <3>2
    <2>10. ShiftInv'
      BY <1>2, <1>12, <2>2, <2>8 DEF ShiftInv
    <2>11. NoLogIsLost'
      <3> SUFFICES ASSUME NEW g \in owed PROVE \E i \in Indices : g = fs[i].gen
        BY <1>2, <2>2 DEF NoLogIsLost
      <3>1. PICK i \in Indices : g = logs[i].gen
        BY <1>1 DEF NoLogIsLost
      <3>2. i # to
        BY <1>7, <3>1
      <3>3. CASE i = to - 1
        BY <1>6, <2>4, <3>1, <3>3
      <3>4. CASE i # to - 1
        BY <2>4, <3>1, <3>2, <3>4
      <3> QED BY <3>3, <3>4
    <2> QED BY <1>11, <2>5, <2>6, <2>7, <2>9, <2>10, <2>11 DEF LogsInv
  <1>14. CASE ~There(to - 1)
    <2>1. logs' = logs
      BY <1>4, <1>14 DEF Shifts
    <2>2. LogsTypeOK'
      BY <1>1, <1>9, <2>1 DEF LogsTypeOK, Shifts
    <2>3. GenInv' /\ LogsAreInOrder' /\ NoLogIsLost'
      BY <1>1, <1>2, <2>1 DEF GenInv, LogsAreInOrder, NoLogIsLost, There
    <2>4. OwedInv'
      BY <1>1, <1>2, <2>1 DEF OwedInv, Stays
    <2>5. logs[to - 1].gen \notin owed
      BY <1>1, <1>6, <1>14, NoneThere
    <2>6. ShiftInv'
      BY <1>2, <1>12, <2>1, <2>5 DEF ShiftInv
    <2> QED BY <1>11, <2>2, <2>3, <2>4, <2>6 DEF LogsInv
  <1> QED BY <1>13, <1>14

LEMMA AppendsKeeps ==
  ASSUME LogsInv, Appends
  PROVE  LogsInv'
  <1>1. /\ LogsTypeOK /\ GenInv /\ LogsAreInOrder
        /\ logs \in [Indices -> FileRec] /\ owed \subseteq Nat \ {0} /\ generations \in Nat
        /\ inForce \in Configs /\ today \in Nat
    BY DEF LogsInv, LogsTypeOK
  <1>2. inForce' = inForce /\ today' = today /\ generations' = Writing /\ sink' = Unlocked
    BY DEF Appends
  <1>3. PICK fs : fs = logs'
    OBVIOUS
  <1>4. PICK w : w = Writing
    OBVIOUS
  <1>5. w \in Nat \ {0} /\ w >= generations
    BY <1>1, <1>4, IndexFacts DEF Writing, GenInv
  <1>6. fs \in [Indices -> FileRec] /\ fs[0] = [gen |-> w, day |-> today] /\ \A i \in Indices \ {0} : fs[i] = logs[i]
    <2>1. CASE There(0)
      <3>1. fs = [logs EXCEPT ![0].day = today] /\ logs[0].gen = w
        BY <1>1, <1>3, <1>4, <2>1 DEF Appends, Appended, GenInv, Writing
      <3>2. PICK first \in FileRec : first = logs[0]
        BY <1>1, IndexFacts
      <3>3. [first EXCEPT !.day = today] = [gen |-> w, day |-> today]
        BY <3>1, <3>2 DEF FileRec
      <3>4. [gen |-> w, day |-> today] \in FileRec
        BY <1>1, <1>5 DEF FileRec
      <3>5. fs = [logs EXCEPT ![0] = [gen |-> w, day |-> today]]
        BY <3>1, <3>2, <3>3
      <3> QED BY <1>1, <3>4, <3>5, IndexFacts
    <2>2. CASE ~There(0)
      <3>1. fs = [logs EXCEPT ![0] = [gen |-> w, day |-> today]]
        BY <1>3, <1>4, <2>2 DEF Appends, Appended
      <3>2. [gen |-> w, day |-> today] \in FileRec
        BY <1>1, <1>5 DEF FileRec
      <3> QED BY <1>1, <3>1, <3>2, IndexFacts
    <2> QED BY <2>1, <2>2
  <1>7. \A i \in Indices \ {0} : There(i) => logs[i].gen < w /\ logs[i].gen \in 1..w
    <2> SUFFICES ASSUME NEW i \in Indices \ {0}, There(i) PROVE logs[i].gen < w /\ logs[i].gen \in 1..w
      OBVIOUS
    <2>1. logs[i].gen \in 1..generations /\ 0 < i /\ i \in Nat
      BY <1>1, IndexFacts DEF GenInv
    <2>2. CASE There(0)
      <3>1. logs[0].gen > logs[i].gen /\ logs[0].gen = generations /\ w = generations
        BY <1>1, <1>4, <2>1, <2>2, IndexFacts DEF LogsAreInOrder, GenInv, Writing
      <3> QED BY <1>1, <2>1, <3>1
    <2>3. CASE ~There(0)
      <3>1. w = generations + 1
        BY <1>4, <2>3 DEF Writing
      <3> QED BY <1>1, <2>1, <3>1
    <2> QED BY <2>2, <2>3
  <1>8. owed' = StillOwed(fs, inForce, today, 0) \cup {w}
    BY <1>3, <1>4 DEF Appends
  <1>9. InOrder(fs)
    <2> SUFFICES ASSUME NEW i \in Indices, NEW j \in Indices, i < j, fs[i] # NoFile, fs[j] # NoFile
                 PROVE  fs[i].gen > fs[j].gen
      BY DEF InOrder
    <2>1. i \in Nat /\ j \in Nat /\ j # 0 /\ fs[j] = logs[j] /\ There(j)
      BY <1>6, IndexFacts DEF There
    <2>2. CASE i = 0
      <3>1. fs[i].gen = w /\ logs[j].gen < w /\ logs[j].gen \in 1..w
        BY <1>6, <1>7, <2>1, <2>2
      <3> QED BY <1>5, <2>1, <3>1
    <2>3. CASE i # 0
      BY <1>1, <1>6, <2>1, <2>3 DEF LogsAreInOrder, There
    <2> QED BY <2>2, <2>3
  <1>10. LogsAreInOrder'
    BY <1>3, <1>9 DEF LogsAreInOrder, InOrder, There
  <1>11. StillOwed(fs, inForce, today, 0) \subseteq owed /\ StillOwed(fs, inForce, today, 0) \subseteq {fs[i].gen : i \in Indices}
    BY <1>1, <1>6, NothingLost
  <1>12. LogsTypeOK'
    <2>1. Unlocked \in SinkRec
      BY DEF Unlocked, SinkRec
    <2>2. owed' \subseteq Nat \ {0}
      BY <1>1, <1>5, <1>8, <1>11
    <2>3. asked' = asked /\ reloading' = reloading /\ writes' = writes /\ breaks' = breaks
      BY DEF Appends
    <2>4. logs' \in [Indices -> FileRec] /\ inForce' \in Configs /\ sink' \in SinkRec /\ generations' \in Nat /\ today' \in Nat
      BY <1>1, <1>2, <1>3, <1>4, <1>5, <1>6, <2>1
    <2> QED BY <1>1, <2>2, <2>3, <2>4 DEF LogsTypeOK
  <1>13. GenInv'
    <2>1. fs[0].gen = w /\ w \in 1..w
      BY <1>5, <1>6
    <2>2. \A i \in Indices \ {0} : fs[i] # NoFile => fs[i].gen \in 1..w
      BY <1>6, <1>7 DEF There
    <2>3. logs' = fs /\ generations' = w
      BY <1>2, <1>3, <1>4
    <2> QED BY <2>1, <2>2, <2>3 DEF GenInv, There
  <1>14. OwedInv'
    <2> SUFFICES ASSUME NEW i \in Indices \ {0}, fs[i].gen \in owed'
                 PROVE  Stays(i)'
      BY <1>3 DEF OwedInv
    <2>1. fs[i].gen # w
      <3>1. fs[i].gen # 0
        BY <1>1, <1>5, <1>8, <1>11
      <3>2. There(i) /\ fs[i] = logs[i]
        BY <1>6, <3>1 DEF There, NoFile
      <3>3. logs[i].gen < w /\ logs[i].gen \in 1..w
        BY <1>7, <3>2
      <3> QED BY <1>5, <3>2, <3>3
    <2>2. fs[i].gen \in StillOwed(fs, inForce, today, 0)
      BY <1>8, <2>1
    <2>3. i + 0 <= inForce.backups /\ (inForce.age > 0 => today - fs[i].day <= inForce.age)
      BY <1>1, <1>6, <1>9, <2>2, Judged
    <2>4. i + 0 = i
      BY IndexFacts
    <2> QED BY <1>2, <1>3, <2>3, <2>4 DEF Stays
  <1>15. ShiftInv' /\ PruneInv'
    BY <1>2 DEF ShiftInv, PruneInv, Unlocked
  <1>16. NoLogIsLost'
    <2>1. w \in {fs[i].gen : i \in Indices}
      BY <1>6, IndexFacts
    <2> QED BY <1>3, <1>8, <1>11, <2>1 DEF NoLogIsLost
  <1> QED BY <1>10, <1>12, <1>13, <1>14, <1>15, <1>16 DEF LogsInv

LEMMA LogsStutter ==
  ASSUME LogsInv, UNCHANGED logVars
  PROVE  LogsInv'
  <1>1. /\ logs' = logs /\ asked' = asked /\ inForce' = inForce /\ sink' = sink /\ reloading' = reloading
        /\ today' = today /\ generations' = generations /\ writes' = writes /\ breaks' = breaks /\ owed' = owed
    BY DEF logVars
  <1>2. LogsTypeOK'
    BY <1>1 DEF LogsInv, LogsTypeOK
  <1> QED BY <1>1, <1>2 DEF LogsInv, GenInv, OwedInv, ShiftInv, PruneInv, NoLogIsLost, LogsAreInOrder, There, Stays, Target

-----------------------------------------------------------------------------
(* Theorems about the log files. *)

\* The invariant of the log's directory holds through every change of the settings, rotation, failure and crash.
THEOREM LogsInductive == LogsSpec => []LogsInv
  <1>1. ASSUME LogsInv, [LogsNext]_logVars PROVE LogsInv'
    <2>1. ASSUME NEW n \in Backups, WriteSetting("backups", n) PROVE LogsInv'
      BY <1>1, <2>1, WriteSettingKeeps
    <2>2. ASSUME NEW n \in Ages, WriteSetting("age", n) PROVE LogsInv'
      BY <1>1, <2>2, WriteSettingKeeps
    <2>3. ASSUME NEW i \in Indices, Removes(i) PROVE LogsInv'
      BY <1>1, <2>3, RemovesKeeps
    <2>4. CASE Reloads
      BY <1>1, <2>4, ReloadsKeeps
    <2>5. CASE Maintains
      BY <1>1, <2>5, MaintainsKeeps
    <2>6. CASE EndsPruning
      BY <1>1, <2>6, EndsPruningKeeps
    <2>7. CASE BeginsRotation
      BY <1>1, <2>7, BeginsRotationKeeps
    <2>8. CASE Shifts
      BY <1>1, <2>8, ShiftsKeeps
    <2>9. CASE PrunesAfterwards
      BY <1>1, <2>9, PrunesAfterwardsKeeps
    <2>10. CASE Appends
      BY <1>1, <2>10, AppendsKeeps
    <2>11. CASE Fails
      BY <1>1, <2>11, FailsKeeps
    <2>12. CASE DiesLogging
      BY <1>1, <2>12, DiesLoggingKeeps
    <2>13. CASE DayEnds
      BY <1>1, <2>13, DayEndsKeeps
    <2>14. CASE UNCHANGED logVars
      BY <1>1, <2>14, LogsStutter
    <2> QED
      BY <1>1, <2>1, <2>2, <2>3, <2>4, <2>5, <2>6, <2>7, <2>8, <2>9, <2>10, <2>11, <2>12, <2>13, <2>14 DEF LogsNext
  <1> QED BY <1>1, LogsBegin, PTL DEF LogsSpec

\* No rotation, complete or cut short at any rename, costs a file the settings entitle to stay, and read from the
\* highest number down the files are in the order they were written, for any numbers and ages operators may ask for.
THEOREM LogsAreKeptCorrect == LogsSpec => []LogsAreKept
  <1>1. LogsInv => LogsAreKept
    BY DEF LogsInv, LogsAreKept
  <1> QED BY <1>1, LogsInductive, PTL

-----------------------------------------------------------------------------
(* History: the invariant. *)

RowsOf(K) == [k : K, n : Nat, at : Nat]
EventRec == [kind : {"new_device", "mac_new_ip", "ip_mac_changed", "mac_mismatch"}, pair : Pairs, at : Nat]
BatchRec == [dns : Seq(RowsOf(Names)), arp : Seq(RowsOf(Pairs)), ev : Seq(EventRec)]
IsMemory(m) == DOMAIN m = {"ready", "pairs", "owner"} /\ m.ready \in BOOLEAN /\ m.pairs \subseteq Pairs

\* A table has a key once, and a dictionary of pending rows too.
Distinct(rows) == \A i, k \in DOMAIN rows : rows[i].k = rows[k].k => i = k

\* How often a place announces a binding.
Said(b, p) == Len(Kept(b.ev, News(p)))

\* A place that has an announcement has the binding too, or its record was given up.
Recorded(b, lost) == \A p \in Pairs \ lost : Said(b, p) > 0 => p \in Keys(b.arp)

\* The bindings on their way to the table.
Waiting(f, r, w) == Keys(f.arp) \cup Keys(r.arp) \cup Keys(w.arp)

\* The tables t, the running flush f, what is kept for a retry r and what is pending w, with the memory m of the
\* recorder and the bindings given up: a recorder that has loaded its memory knows every other binding, one that
\* has not has none on its way, and none is announced twice.
Sound(t, f, r, w, m, lost) ==
  /\ {t, f, r, w} \subseteq BatchRec /\ IsMemory(m) /\ lost \subseteq Pairs
  /\ Distinct(t.dns) /\ Distinct(w.dns)
  /\ \A b \in {t, f, r, w} : Recorded(b, lost)
  /\ m.ready => Keys(t.arp) \cup Waiting(f, r, w) \subseteq m.pairs \cup lost
  /\ ~m.ready => Waiting(f, r, w) = {}
  /\ \A p \in Pairs \ lost : Said(t, p) + Said(f, p) + Said(r, p) + Said(w, p) <= 1

\* While a flush runs, nothing is kept for the next one.
FlightInv ==
  /\ flight = <<>> \/ \E b \in BatchRec : flight = <<b>>
  /\ flight # <<>> => retry = NoRows

\* The pairs the recorder has not, or not any more, on its record.
Excepted == forgot \cup unread

HistoryInv ==
  /\ told \in [Names -> Int] /\ gone \in [Names -> Int]
  /\ seen \in Nat /\ Len(pending.ev) <= MaxPending
  /\ FlightInv
  /\ Sound(tables, Flying, retry, pending, memory, Excepted)
  /\ HistoryAddsUp


-----------------------------------------------------------------------------
(* History: what rows count. *)

Amount(r, key) == IF r.k = key THEN r.n ELSE 0

\* One step of the recursion of Tally.
TallyAt(g, rows, key, n) == IF n = 0 THEN 0 ELSE g[n - 1] + IF rows[n].k = key THEN rows[n].n ELSE 0

LEMMA TallyExists ==
  ASSUME NEW rows, NEW key, NEW m \in Nat
  PROVE  \E g : g = [n \in 0..m |-> TallyAt(g, rows, key, n)]
  <1> DEFINE P(k) == \E g : g = [n \in 0..k |-> TallyAt(g, rows, key, n)]
             T == {k \in Nat : P(k)}
  <1>1. P(0)
    <2>1. [n \in 0..0 |-> 0] = [n \in 0..0 |-> TallyAt([i \in 0..0 |-> 0], rows, key, n)]
      BY DEF TallyAt
    <2> QED BY <2>1
  <1>2. ASSUME NEW k \in Nat, P(k) PROVE P(k + 1)
    <2>1. PICK g : g = [n \in 0..k |-> TallyAt(g, rows, key, n)]
      BY <1>2
    <2> DEFINE h == [n \in 0..(k + 1) |-> IF n <= k THEN g[n] ELSE TallyAt(g, rows, key, k + 1)]
    <2>2. ASSUME NEW n \in 0..(k + 1) PROVE h[n] = TallyAt(h, rows, key, n)
      <3>1. \A i \in 0..k : h[i] = g[i]
        OBVIOUS
      <3>2. n # 0 => n - 1 \in 0..k
        OBVIOUS
      <3>3. TallyAt(g, rows, key, n) = TallyAt(h, rows, key, n)
        BY <3>1, <3>2 DEF TallyAt
      <3>4. h[n] = TallyAt(g, rows, key, n)
        <4>1. CASE n <= k
          BY <4>1, <2>1
        <4>2. CASE n = k + 1
          BY <4>2
        <4> QED BY <4>1, <4>2
      <3> QED BY <3>3, <3>4
    <2>3. h = [n \in 0..(k + 1) |-> TallyAt(h, rows, key, n)]
      BY <2>2
    <2> HIDE DEF h
    <2> QED BY <2>3
  <1> HIDE DEF P
  <1>3. T = Nat
    <2>1. T \in SUBSET Nat /\ 0 \in T
      BY <1>1
    <2>2. \A n \in T : n + 1 \in T
      BY <1>2
    <2> HIDE DEF T
    <2> QED BY <2>1, <2>2, SetInduction
  <1>4. P(m)
    BY <1>3
  <1> QED BY <1>4 DEF P

\* g adds up the rows one by one, and ends with what they count.
Counts(g, rows, key) ==
  /\ g[0] = 0 /\ g[Len(rows)] = Tally(rows, key)
  /\ \A n \in 0..(Len(rows) - 1) : g[n + 1] = g[n] + Amount(rows[n + 1], key)

LEMMA TallySteps ==
  ASSUME NEW rows, NEW key, Len(rows) \in Nat PROVE \E g : Counts(g, rows, key)
  <1> DEFINE tally == CHOOSE g : g = [n \in 0..Len(rows) |-> TallyAt(g, rows, key, n)]
  <1>1. tally = [n \in 0..Len(rows) |-> TallyAt(tally, rows, key, n)]
    BY TallyExists
  <1>2. Tally(rows, key) = tally[Len(rows)]
    BY DEF Tally, TallyAt
  <1> HIDE DEF tally
  <1>3. ASSUME NEW n \in 0..Len(rows) PROVE tally[n] = TallyAt(tally, rows, key, n)
    BY <1>1
  <1>4. tally[0] = 0
    BY <1>3 DEF TallyAt
  <1>5. ASSUME NEW n \in 0..(Len(rows) - 1) PROVE tally[n + 1] = tally[n] + Amount(rows[n + 1], key)
    <2>1. n + 1 \in 0..Len(rows) /\ n + 1 # 0 /\ (n + 1) - 1 = n
      OBVIOUS
    <2> QED BY <1>3, <2>1 DEF TallyAt, Amount
  <1> QED BY <1>2, <1>4, <1>5 DEF Counts

\* Rows that differ in one place count as much the more as that place does; those that come later do not matter.
LEMMA CountsDiffer ==
  ASSUME NEW K, NEW s \in Seq(RowsOf(K)), NEW t \in Seq(RowsOf(K)), NEW key, NEW g, NEW h,
         Len(s) <= Len(t), NEW d \in Int, NEW c \in 0..Len(s),
         \A k \in 1..Len(s) : k # c => Amount(t[k], key) = Amount(s[k], key),
         c # 0 => Amount(t[c], key) = Amount(s[c], key) + d,
         Counts(g, s, key), Counts(h, t, key)
  PROVE  g[Len(s)] \in Int /\ (c = 0 => h[Len(s)] = g[Len(s)]) /\ (c # 0 => h[Len(s)] = g[Len(s)] + d)
  <1>1. /\ Len(s) \in Nat /\ Len(t) \in Nat
        /\ \A k \in 1..Len(s) : s[k] \in RowsOf(K)
    BY LenProperties, ElementOfSeq
  <1>2. ASSUME NEW k \in 1..Len(s) PROVE Amount(s[k], key) \in Int
    <2>1. s[k] \in RowsOf(K)
      BY <1>1
    <2>2. s[k].n \in Int
      BY <2>1 DEF RowsOf
    <2> QED BY <2>2 DEF Amount
  <1> DEFINE P(n) == n <= Len(s) => g[n] \in Int /\ h[n] = g[n] + IF c # 0 /\ c <= n THEN d ELSE 0
             U == {n \in Nat : P(n)}
  <1>3. P(0)
    BY DEF Counts
  <1>4. ASSUME NEW n \in Nat, P(n) PROVE P(n + 1)
    <2>1. SUFFICES ASSUME n + 1 <= Len(s)
                   PROVE  g[n + 1] \in Int /\ h[n + 1] = g[n + 1] + IF c # 0 /\ c <= n + 1 THEN d ELSE 0
      OBVIOUS
    <2>2. n \in 0..(Len(s) - 1) /\ n \in 0..(Len(t) - 1) /\ n + 1 \in 1..Len(s)
      BY <1>1, <2>1
    <2>3. g[n] \in Int /\ h[n] = g[n] + IF c # 0 /\ c <= n THEN d ELSE 0
      BY <1>4, <2>1
    <2>4. g[n + 1] = g[n] + Amount(s[n + 1], key) /\ h[n + 1] = h[n] + Amount(t[n + 1], key)
      BY <2>2 DEF Counts
    <2>5. Amount(s[n + 1], key) \in Int
      BY <1>2, <2>2
    <2>6. CASE n + 1 = c
      <3>1. c # 0 /\ Amount(t[n + 1], key) = Amount(s[n + 1], key) + d
        BY <2>6
      <3> QED BY <2>3, <2>4, <2>5, <2>6, <3>1
    <2>7. CASE n + 1 # c
      <3>1. Amount(t[n + 1], key) = Amount(s[n + 1], key)
        BY <2>2, <2>7
      <3> QED BY <2>3, <2>4, <2>5, <2>7, <3>1
    <2> QED BY <2>6, <2>7
  <1> HIDE DEF P
  <1>5. U = Nat
    <2>1. U \in SUBSET Nat /\ 0 \in U
      BY <1>3
    <2>2. \A n \in U : n + 1 \in U
      BY <1>4
    <2> HIDE DEF U
    <2> QED BY <2>1, <2>2, SetInduction
  <1>6. P(Len(s))
    BY <1>1, <1>5
  <1> QED BY <1>1, <1>6 DEF P

LEMMA TallyIsInt ==
  ASSUME NEW K, NEW s \in Seq(RowsOf(K)), NEW key PROVE Tally(s, key) \in Int
  <1>1. Len(s) \in Nat
    BY LenProperties
  <1>2. PICK g : Counts(g, s, key)
    BY <1>1, TallySteps
  <1>3. PICK c \in 0..Len(s), d \in Int : c = 0 /\ d = 0
    BY <1>1
  <1>4. g[Len(s)] \in Int
    BY <1>1, <1>2, <1>3, CountsDiffer
  <1> QED BY <1>2, <1>4 DEF Counts

LEMMA TallyAppend ==
  ASSUME NEW K, NEW s \in Seq(RowsOf(K)), NEW r \in RowsOf(K), NEW key
  PROVE  Tally(Append(s, r), key) = Tally(s, key) + Amount(r, key)
  <1>1. PICK t : t = Append(s, r)
    OBVIOUS
  <1>2. /\ Len(s) \in Nat /\ t \in Seq(RowsOf(K)) /\ Len(t) = Len(s) + 1 /\ Len(t) \in Nat
        /\ t[Len(s) + 1] = r /\ \A k \in 1..Len(s) : t[k] = s[k]
    BY <1>1, AppendProperties, LenProperties
  <1>3. PICK g : Counts(g, s, key)
    BY <1>2, TallySteps
  <1>4. PICK h : Counts(h, t, key)
    BY <1>2, TallySteps
  <1>5. \A k \in 1..Len(s) : Amount(t[k], key) = Amount(s[k], key)
    BY <1>2
  <1>6. g[Len(s)] \in Int /\ h[Len(s)] = g[Len(s)]
    <2>1. PICK c \in 0..Len(s), d \in Int : c = 0 /\ d = 0
      BY <1>2
    <2>2. Len(s) <= Len(t)
      BY <1>2
    <2>3. g[Len(s)] \in Int /\ h[Len(s)] = g[Len(s)]
      BY <1>2, <1>3, <1>4, <1>5, <2>1, <2>2, CountsDiffer
    <2> QED BY <2>1, <2>3
  <1>7. h[Len(s) + 1] = h[Len(s)] + Amount(t[Len(s) + 1], key)
    <2>1. Len(s) \in 0..(Len(t) - 1)
      BY <1>2
    <2> QED BY <1>4, <2>1 DEF Counts
  <1>8. h[Len(s) + 1] = Tally(t, key) /\ g[Len(s)] = Tally(s, key)
    BY <1>2, <1>3, <1>4 DEF Counts
  <1> QED BY <1>1, <1>2, <1>6, <1>7, <1>8

LEMMA TallyEmpty ==
  ASSUME NEW key PROVE Tally(<<>>, key) = 0
  <1>1. PICK s : s = <<>> /\ Len(s) = 0
    OBVIOUS
  <1>2. PICK g : Counts(g, s, key)
    BY <1>1, TallySteps
  <1> QED BY <1>1, <1>2 DEF Counts

LEMMA TallyConcat ==
  ASSUME NEW K, NEW s \in Seq(RowsOf(K)), NEW t \in Seq(RowsOf(K)), NEW key
  PROVE  Tally(s \o t, key) = Tally(s, key) + Tally(t, key)
  <1>1. Len(t) \in Nat /\ \A k \in 1..Len(t) : t[k] \in RowsOf(K)
    BY LenProperties, ElementOfSeq
  <1> DEFINE u(n) == SubSeq(t, 1, n)
             P(n) == n <= Len(t) => u(n) \in Seq(RowsOf(K)) /\ Tally(s \o u(n), key) = Tally(s, key) + Tally(u(n), key)
             U == {n \in Nat : P(n)}
  <1>2. P(0)
    <2>1. u(0) = <<>> /\ <<>> \in Seq(RowsOf(K))
      BY EmptySeq
    <2>2. s \o <<>> = s
      BY ConcatEmptySeq
    <2>3. Tally(s, key) \in Int
      BY TallyIsInt
    <2>4. Tally(s \o <<>>, key) = Tally(s, key) + Tally(<<>>, key)
      BY <2>2, <2>3, TallyEmpty
    <2> QED BY <2>1, <2>4
  <1>3. ASSUME NEW n \in Nat, P(n) PROVE P(n + 1)
    <2>1. SUFFICES ASSUME n + 1 <= Len(t)
                   PROVE  /\ u(n + 1) \in Seq(RowsOf(K))
                          /\ Tally(s \o u(n + 1), key) = Tally(s, key) + Tally(u(n + 1), key)
      OBVIOUS
    <2>2. PICK e \in RowsOf(K) : e = t[n + 1]
      BY <1>1, <2>1
    <2>3. PICK q \in Seq(RowsOf(K)) : q = u(n) /\ Tally(s \o q, key) = Tally(s, key) + Tally(q, key)
      <3>1. n <= Len(t)
        BY <1>1, <2>1
      <3> HIDE DEF u
      <3> QED BY <1>3, <3>1
    <2>4. u(n + 1) = Append(q, e)
      <3>1. 1 \in 1..Len(t) /\ n + 1 \in 1..Len(t) /\ (n + 1) - 1 = n
        BY <1>1, <2>1
      <3>2. u(n + 1) = SubSeq(t, 1, (n + 1) - 1) \o <<t[n + 1]>>
        BY <3>1, SubSeqRecursiveSecond
      <3>3. Append(q, e) = q \o <<e>>
        BY AppendIsConcat
      <3> QED BY <2>2, <2>3, <3>1, <3>2, <3>3
    <2>5. Append(q, e) \in Seq(RowsOf(K)) /\ s \o q \in Seq(RowsOf(K))
      BY AppendProperties, ConcatProperties
    <2>6. s \o Append(q, e) = Append(s \o q, e)
      BY ConcatAppend
    <2>7. /\ Tally(Append(s \o q, e), key) = Tally(s \o q, key) + Amount(e, key)
          /\ Tally(Append(q, e), key) = Tally(q, key) + Amount(e, key)
      BY <2>5, TallyAppend
    <2>8. Tally(s, key) \in Int /\ Tally(q, key) \in Int
      BY <2>3, TallyIsInt
    <2>9. Amount(e, key) \in Int
      BY <2>2 DEF Amount, RowsOf
    <2> HIDE DEF u
    <2>10. Tally(s \o u(n + 1), key) = Tally(s, key) + Tally(u(n + 1), key)
      <3>1. Tally(Append(s \o q, e), key) = Tally(s, key) + Tally(Append(q, e), key)
        BY <2>3, <2>7, <2>8, <2>9
      <3> QED BY <2>4, <2>6, <3>1
    <2> QED BY <2>4, <2>5, <2>10
  <1>4. u(Len(t)) = t
    BY SubSeqFull
  <1> HIDE DEF P
  <1>5. U = Nat
    <2>1. U \in SUBSET Nat /\ 0 \in U
      BY <1>2
    <2>2. \A n \in U : n + 1 \in U
      BY <1>3
    <2> HIDE DEF U
    <2> QED BY <2>1, <2>2, SetInduction
  <1>6. P(Len(t))
    BY <1>1, <1>5
  <1>7. Tally(s \o u(Len(t)), key) = Tally(s, key) + Tally(u(Len(t)), key)
    <2>1. Len(t) <= Len(t)
      BY <1>1
    <2> HIDE DEF u
    <2> QED BY <1>6, <2>1 DEF P
  <1> QED BY <1>1, <1>4, <1>7

\* A row merged into those of its key adds what it counts, and makes no second row of a key.
LEMMA MergeFacts ==
  ASSUME NEW K, NEW s \in Seq(RowsOf(K)), NEW r \in RowsOf(K)
  PROVE  /\ Merge(s, r) \in Seq(RowsOf(K))
         /\ Keys(Merge(s, r)) = Keys(s) \cup {r.k}
         /\ Distinct(s) => /\ Distinct(Merge(s, r))
                           /\ \A key : Tally(Merge(s, r), key) = Tally(s, key) + Amount(r, key)
  <1>1. Len(s) \in Nat /\ DOMAIN s = 1..Len(s) /\ \A i \in 1..Len(s) : s[i] \in RowsOf(K)
    BY LenProperties, ElementOfSeq
  <1>2. PICK t : t = Merge(s, r)
    OBVIOUS
  <1>3. CASE r.k \notin Keys(s)
    <2>1. t = Append(s, r)
      BY <1>2, <1>3 DEF Merge
    <2>2. /\ t \in Seq(RowsOf(K)) /\ Len(t) = Len(s) + 1 /\ t[Len(s) + 1] = r /\ DOMAIN t = 1..(Len(s) + 1)
          /\ \A i \in 1..Len(s) : t[i] = s[i]
      BY <1>1, <2>1, AppendProperties, LenProperties
    <2>3. Keys(t) = Keys(s) \cup {r.k}
      <3>1. ASSUME NEW k \in Keys(t) PROVE k \in Keys(s) \cup {r.k}
        <4>1. PICK i \in 1..(Len(s) + 1) : k = t[i].k
          BY <2>2 DEF Keys
        <4>2. CASE i = Len(s) + 1
          BY <2>2, <4>1, <4>2
        <4>3. CASE i # Len(s) + 1
          <5>1. i \in 1..Len(s)
            BY <1>1, <4>3
          <5> QED BY <1>1, <2>2, <4>1, <5>1 DEF Keys
        <4> QED BY <4>2, <4>3
      <3>2. ASSUME NEW k \in Keys(s) PROVE k \in Keys(t)
        <4>1. PICK i \in 1..Len(s) : k = s[i].k
          BY <1>1 DEF Keys
        <4>2. i \in DOMAIN t /\ t[i] = s[i]
          BY <1>1, <2>2
        <4> QED BY <4>1, <4>2 DEF Keys
      <3>3. r.k \in Keys(t)
        <4>1. Len(s) + 1 \in DOMAIN t
          BY <1>1, <2>2
        <4> QED BY <2>2, <4>1 DEF Keys
      <3> QED BY <3>1, <3>2, <3>3
    <2>4. ASSUME Distinct(s) PROVE Distinct(t)
      <3>1. SUFFICES ASSUME NEW i \in 1..(Len(s) + 1), NEW k \in 1..(Len(s) + 1), t[i].k = t[k].k PROVE i = k
        BY <2>2 DEF Distinct
      <3>2. \A j \in 1..Len(s) : s[j].k # r.k
        BY <1>1, <1>3 DEF Keys
      <3>3. CASE i \in 1..Len(s) /\ k \in 1..Len(s)
        BY <1>1, <2>2, <2>4, <3>1, <3>3 DEF Distinct
      <3>4. CASE i = Len(s) + 1 \/ k = Len(s) + 1
        BY <1>1, <2>2, <3>1, <3>2, <3>4
      <3> QED BY <1>1, <3>3, <3>4
    <2>5. \A key : Tally(t, key) = Tally(s, key) + Amount(r, key)
      BY <2>1, TallyAppend
    <2> QED BY <1>2, <2>2, <2>3, <2>4, <2>5
  <1>4. CASE r.k \in Keys(s)
    <2>1. t = [i \in DOMAIN s |-> IF s[i].k # r.k THEN s[i]
                ELSE [k |-> r.k, n |-> s[i].n + r.n, at |-> IF r.at > s[i].at THEN r.at ELSE s[i].at]]
      BY <1>2, <1>4 DEF Merge
    <2>2. \A i \in 1..Len(s) :
            /\ t[i] \in RowsOf(K) /\ t[i].k = s[i].k
            /\ t[i].n = s[i].n + IF s[i].k = r.k THEN r.n ELSE 0
      BY <1>1, <2>1 DEF RowsOf
    <2>3. t \in Seq(RowsOf(K)) /\ Len(t) = Len(s) /\ DOMAIN t = 1..Len(s)
      <3>1. t = [i \in 1..Len(s) |-> t[i]]
        BY <1>1, <2>1
      <3>2. t \in [1..Len(s) -> RowsOf(K)]
        BY <2>2, <3>1
      <3>3. t \in Seq(RowsOf(K))
        BY <1>1, <3>2, IsASeq
      <3> QED BY <1>1, <3>1, <3>3, LenProperties
    <2>4. Keys(t) = Keys(s) \cup {r.k}
      BY <1>1, <1>4, <2>2, <2>3 DEF Keys
    <2>5. ASSUME Distinct(s) PROVE Distinct(t)
      BY <1>1, <2>2, <2>3, <2>5 DEF Distinct
    <2>6. ASSUME Distinct(s), NEW key PROVE Tally(t, key) = Tally(s, key) + Amount(r, key)
      <3>1. PICK c \in 1..Len(s) : s[c].k = r.k /\ \A i \in 1..Len(s) : s[i].k = r.k => i = c
        BY <1>1, <1>4, <2>6 DEF Keys, Distinct
      <3>2. PICK d \in Int : d = Amount(r, key)
        BY DEF Amount, RowsOf
      <3>3. /\ \A i \in 1..Len(s) : i # c => Amount(t[i], key) = Amount(s[i], key)
            /\ Amount(t[c], key) = Amount(s[c], key) + d
        <4>1. ASSUME NEW i \in 1..Len(s), i # c PROVE Amount(t[i], key) = Amount(s[i], key)
          <5>1. s[i].n \in Nat /\ s[i].k # r.k /\ t[i].k = s[i].k /\ t[i].n = s[i].n + IF s[i].k = r.k THEN r.n ELSE 0
            BY <1>1, <2>2, <3>1, <4>1 DEF RowsOf
          <5> QED BY <5>1 DEF Amount
        <4>2. Amount(t[c], key) = Amount(s[c], key) + d
          <5>1. s[c].n \in Nat /\ r.n \in Nat /\ s[c].k = r.k /\ t[c].k = s[c].k /\ t[c].n = s[c].n + r.n
            BY <1>1, <2>2, <3>1 DEF RowsOf
          <5> QED BY <3>2, <5>1 DEF Amount
        <4> QED BY <4>1, <4>2
      <3>4. PICK g : Counts(g, s, key)
        BY <1>1, TallySteps
      <3>5. PICK h : Counts(h, t, key)
        BY <1>1, <2>3, TallySteps
      <3>6. c \in 0..Len(s) /\ c # 0 /\ Len(s) <= Len(t)
        BY <1>1, <2>3
      <3>7. h[Len(s)] = g[Len(s)] + d
        <4>1. t \in Seq(RowsOf(K)) /\ d \in Int
          BY <2>3, <3>2
        <4> QED BY <3>3, <3>4, <3>5, <3>6, <4>1, CountsDiffer
      <3> QED BY <2>3, <3>2, <3>4, <3>5, <3>6, <3>7 DEF Counts
    <2> QED BY <1>2, <2>3, <2>4, <2>5, <2>6
  <1> QED BY <1>3, <1>4

\* The keys of rows, by their elements.
LEMMA KeysFacts ==
  ASSUME NEW K, NEW s \in Seq(RowsOf(K))
  PROVE  /\ Keys(s) = {r.k : r \in Elems(s)} /\ Keys(s) \subseteq K
         /\ \A r \in RowsOf(K) : Keys(Append(s, r)) = Keys(s) \cup {r.k}
  <1>1. Len(s) \in Nat /\ DOMAIN s = 1..Len(s) /\ \A i \in 1..Len(s) : s[i] \in RowsOf(K)
    BY LenProperties, ElementOfSeq
  <1>2. Keys(s) = {r.k : r \in Elems(s)}
    BY DEF Keys, Elems
  <1>3. Keys(s) \subseteq K
    BY <1>1 DEF Keys, RowsOf
  <1>4. ASSUME NEW r \in RowsOf(K) PROVE Keys(Append(s, r)) = Keys(s) \cup {r.k}
    <2>1. Append(s, r) \in Seq(RowsOf(K)) /\ Elems(Append(s, r)) = Elems(s) \cup {r}
      BY AppendFacts
    <2>2. Keys(Append(s, r)) = {e.k : e \in Elems(Append(s, r))}
      BY DEF Keys, Elems
    <2> QED BY <1>2, <2>1, <2>2
  <1> QED BY <1>2, <1>3, <1>4

\* One step of the recursion of Merged.
MergedAt(g, rows, new, n) == IF n = 0 THEN rows ELSE Merge(g[n - 1], new[n])

LEMMA MergedExists ==
  ASSUME NEW rows, NEW new, NEW m \in Nat
  PROVE  \E g : g = [n \in 0..m |-> MergedAt(g, rows, new, n)]
  <1> DEFINE P(k) == \E g : g = [n \in 0..k |-> MergedAt(g, rows, new, n)]
             T == {k \in Nat : P(k)}
  <1>1. P(0)
    <2>1. [n \in 0..0 |-> rows] = [n \in 0..0 |-> MergedAt([i \in 0..0 |-> rows], rows, new, n)]
      BY DEF MergedAt
    <2> QED BY <2>1
  <1>2. ASSUME NEW k \in Nat, P(k) PROVE P(k + 1)
    <2>1. PICK g : g = [n \in 0..k |-> MergedAt(g, rows, new, n)]
      BY <1>2
    <2> DEFINE h == [n \in 0..(k + 1) |-> IF n <= k THEN g[n] ELSE MergedAt(g, rows, new, k + 1)]
    <2>2. ASSUME NEW n \in 0..(k + 1) PROVE h[n] = MergedAt(h, rows, new, n)
      <3>1. \A i \in 0..k : h[i] = g[i]
        OBVIOUS
      <3>2. n # 0 => n - 1 \in 0..k
        OBVIOUS
      <3>3. MergedAt(g, rows, new, n) = MergedAt(h, rows, new, n)
        BY <3>1, <3>2 DEF MergedAt
      <3>4. h[n] = MergedAt(g, rows, new, n)
        <4>1. CASE n <= k
          BY <4>1, <2>1
        <4>2. CASE n = k + 1
          BY <4>2
        <4> QED BY <4>1, <4>2
      <3> QED BY <3>3, <3>4
    <2>3. h = [n \in 0..(k + 1) |-> MergedAt(h, rows, new, n)]
      BY <2>2
    <2> HIDE DEF h
    <2> QED BY <2>3
  <1> HIDE DEF P
  <1>3. T = Nat
    <2>1. T \in SUBSET Nat /\ 0 \in T
      BY <1>1
    <2>2. \A n \in T : n + 1 \in T
      BY <1>2
    <2> HIDE DEF T
    <2> QED BY <2>1, <2>2, SetInduction
  <1>4. P(m)
    BY <1>3
  <1> QED BY <1>4 DEF P

\* g merges the rows one by one.
Accumulates(g, rows, new) ==
  /\ g[0] = rows /\ g[Len(new)] = Merged(rows, new)
  /\ \A n \in 0..(Len(new) - 1) : g[n + 1] = Merge(g[n], new[n + 1])

LEMMA MergedSteps ==
  ASSUME NEW rows, NEW new, Len(new) \in Nat PROVE \E g : Accumulates(g, rows, new)
  <1> DEFINE merged == CHOOSE g : g = [n \in 0..Len(new) |-> MergedAt(g, rows, new, n)]
  <1>1. merged = [n \in 0..Len(new) |-> MergedAt(merged, rows, new, n)]
    BY MergedExists
  <1>2. Merged(rows, new) = merged[Len(new)]
    BY DEF Merged, MergedAt
  <1> HIDE DEF merged
  <1>3. ASSUME NEW n \in 0..Len(new) PROVE merged[n] = MergedAt(merged, rows, new, n)
    BY <1>1
  <1>4. merged[0] = rows
    BY <1>3 DEF MergedAt
  <1>5. ASSUME NEW n \in 0..(Len(new) - 1) PROVE merged[n + 1] = Merge(merged[n], new[n + 1])
    <2>1. n + 1 \in 0..Len(new) /\ n + 1 # 0 /\ (n + 1) - 1 = n
      OBVIOUS
    <2> QED BY <1>3, <2>1 DEF MergedAt
  <1> QED BY <1>2, <1>4, <1>5 DEF Accumulates

\* q is s with the rows of t merged into it.
Merges(K, q, s, t) ==
  /\ q \in Seq(RowsOf(K)) /\ Keys(q) = Keys(s) \cup Keys(t)
  /\ Distinct(s) => Distinct(q) /\ \A key : Tally(q, key) = Tally(s, key) + Tally(t, key)

\* Rows merged one after the other: the keys of both, and what they count together.
LEMMA MergedFacts ==
  ASSUME NEW K, NEW s \in Seq(RowsOf(K)), NEW t \in Seq(RowsOf(K))
  PROVE  Merges(K, Merged(s, t), s, t)
  <1>1. Len(t) \in Nat /\ \A k \in 1..Len(t) : t[k] \in RowsOf(K)
    BY LenProperties, ElementOfSeq
  <1>2. PICK merged : Accumulates(merged, s, t)
    BY <1>1, MergedSteps
  <1>3. Merged(s, t) = merged[Len(t)] /\ merged[0] = s
    BY <1>2 DEF Accumulates
  <1>6. ASSUME NEW n \in Nat, n + 1 <= Len(t) PROVE merged[n + 1] = Merge(merged[n], t[n + 1])
    <2>1. n \in 0..(Len(t) - 1)
      BY <1>1, <1>6
    <2> QED BY <1>2, <2>1 DEF Accumulates
  <1> DEFINE u(n) == SubSeq(t, 1, n)
             P(n) == n <= Len(t) => u(n) \in Seq(RowsOf(K)) /\ Merges(K, merged[n], s, u(n))
             U == {n \in Nat : P(n)}
  <1>7. P(0)
    <2>1. u(0) = <<>> /\ <<>> \in Seq(RowsOf(K))
      BY SubSeqEmpty, EmptySeq
    <2>2. Keys(<<>>) = {}
      BY DEF Keys
    <2>3. \A key : Tally(s, key) \in Int /\ Tally(<<>>, key) = 0
      BY TallyIsInt, TallyEmpty
    <2>4. Merges(K, s, s, <<>>)
      BY <2>2, <2>3 DEF Merges
    <2> QED BY <1>3, <2>1, <2>4
  <1>8. ASSUME NEW n \in Nat, P(n) PROVE P(n + 1)
    <2>1. SUFFICES ASSUME n + 1 <= Len(t)
                   PROVE  u(n + 1) \in Seq(RowsOf(K)) /\ Merges(K, merged[n + 1], s, u(n + 1))
      OBVIOUS
    <2>2. PICK v \in Seq(RowsOf(K)) : v = u(n) /\ Merges(K, merged[n], s, v)
      <3>1. n <= Len(t)
        BY <1>1, <2>1
      <3>2. u(n) \in Seq(RowsOf(K)) /\ Merges(K, merged[n], s, u(n))
        BY <1>8, <3>1
      <3> HIDE DEF u
      <3> QED BY <3>2
    <2>3. PICK e \in RowsOf(K) : e = t[n + 1]
      BY <1>1, <2>1
    <2>4. u(n + 1) = Append(v, e)
      <3>1. 1 \in 1..Len(t) /\ n + 1 \in 1..Len(t) /\ (n + 1) - 1 = n
        BY <1>1, <2>1
      <3>2. u(n + 1) = SubSeq(t, 1, (n + 1) - 1) \o <<t[n + 1]>>
        BY <3>1, SubSeqRecursiveSecond
      <3>3. Append(v, e) = v \o <<e>>
        BY AppendIsConcat
      <3> QED BY <2>2, <2>3, <3>1, <3>2, <3>3
    <2>5. PICK q \in Seq(RowsOf(K)) : q = merged[n] /\ Merges(K, q, s, v)
      BY <2>2 DEF Merges
    <2>6. merged[n + 1] = Merge(q, e)
      BY <1>6, <2>1, <2>3, <2>5
    <2>7. /\ Merge(q, e) \in Seq(RowsOf(K)) /\ Keys(Merge(q, e)) = Keys(q) \cup {e.k}
          /\ Distinct(q) => Distinct(Merge(q, e)) /\ \A key : Tally(Merge(q, e), key) = Tally(q, key) + Amount(e, key)
      BY MergeFacts
    <2>8. Append(v, e) \in Seq(RowsOf(K)) /\ Keys(Append(v, e)) = Keys(v) \cup {e.k}
      BY KeysFacts, AppendProperties
    <2>9. ASSUME NEW key
          PROVE  /\ Tally(Append(v, e), key) = Tally(v, key) + Amount(e, key)
                 /\ Tally(s, key) \in Int /\ Tally(v, key) \in Int /\ Amount(e, key) \in Int
      <3>1. Tally(Append(v, e), key) = Tally(v, key) + Amount(e, key)
        BY TallyAppend
      <3>2. Tally(s, key) \in Int /\ Tally(v, key) \in Int
        BY TallyIsInt
      <3>3. Amount(e, key) \in Int
        BY DEF Amount, RowsOf
      <3> QED BY <3>1, <3>2, <3>3
    <2>10. ASSUME Distinct(s), NEW key PROVE Tally(Merge(q, e), key) = Tally(s, key) + Tally(Append(v, e), key)
      <3>1. Tally(q, key) = Tally(s, key) + Tally(v, key) /\ Tally(Merge(q, e), key) = Tally(q, key) + Amount(e, key)
        BY <2>5, <2>7, <2>10 DEF Merges
      <3> QED BY <2>9, <3>1
    <2>11. Merges(K, Merge(q, e), s, Append(v, e))
      BY <2>5, <2>7, <2>8, <2>10 DEF Merges
    <2> HIDE DEF u
    <2> QED BY <2>4, <2>6, <2>8, <2>11
  <1> HIDE DEF P
  <1>9. U = Nat
    <2>1. U \in SUBSET Nat /\ 0 \in U
      BY <1>7
    <2>2. \A n \in U : n + 1 \in U
      BY <1>8
    <2> HIDE DEF U
    <2> QED BY <2>1, <2>2, SetInduction
  <1>10. P(Len(t))
    BY <1>1, <1>9
  <1>11. u(Len(t)) = t
    BY SubSeqFull
  <1>12. Merges(K, merged[Len(t)], s, u(Len(t)))
    <2>1. Len(t) <= Len(t)
      BY <1>1
    <2> HIDE DEF u
    <2> QED BY <1>10, <2>1 DEF P
  <1> HIDE DEF u
  <1> QED BY <1>3, <1>11, <1>12

-----------------------------------------------------------------------------
(* History: parts of lists. *)

\* The last items of a list: those before them are gone.
LEMMA LastsFacts ==
  ASSUME NEW A, NEW s \in Seq(A), NEW n \in Nat
  PROVE  /\ Lasts(s, n) \in Seq(A) /\ Elems(Lasts(s, n)) \subseteq Elems(s)
         /\ \A e \in Elems(s) \ Elems(Lasts(s, n)) : \E i \in 1..(Len(s) - n) : s[i] = e
         /\ \A S : Len(Kept(Lasts(s, n), S)) <= Len(Kept(s, S))
  <1>1. Len(s) \in Nat
    BY LenProperties
  <1>2. CASE Len(s) <= n
    <2>1. Lasts(s, n) = s
      BY <1>2 DEF Lasts
    <2>2. \A S : Len(Kept(s, S)) \in Nat
      BY KeptSizes
    <2> QED BY <2>1, <2>2
  <1>3. CASE ~(Len(s) <= n)
    <2>1. PICK d \in 0..Len(s) : d = Len(s) - n
      BY <1>1, <1>3
    <2>2. Lasts(s, n) = Drop(s, d)
      BY <1>3, <2>1 DEF Lasts
    <2>3. PICK a \in Seq(A), b \in Seq(A) :
            b = Drop(s, d) /\ s = a \o b /\ Len(a) = d /\ \A i \in 1..d : a[i] = s[i]
      BY SplitAt
    <2>4. Elems(s) = Elems(a) \cup Elems(b) /\ Elems(a) = {a[i] : i \in 1..Len(a)}
      <3>1. Elems(a \o b) = Elems(a) \cup Elems(b)
        BY <2>3, ConcatFacts
      <3>2. Elems(a) = {a[i] : i \in 1..Len(a)}
        BY <2>3, ElemsFacts
      <3> QED BY <2>3, <3>1, <3>2
    <2>5. ASSUME NEW e \in Elems(s) \ Elems(b) PROVE \E i \in 1..d : s[i] = e
      BY <2>3, <2>4, <2>5
    <2>6. ASSUME NEW S PROVE Len(Kept(b, S)) <= Len(Kept(s, S))
      <3>1. Len(Kept(a \o b, S)) = Len(Kept(a, S)) + Len(Kept(b, S)) /\ Len(Kept(a, S)) \in Nat /\ Len(Kept(b, S)) \in Nat
        BY <2>3, KeptCounts
      <3>2. Len(Kept(b, S)) <= Len(Kept(a \o b, S))
        BY <3>1
      <3> QED BY <2>3, <3>2
    <2> QED BY <2>1, <2>2, <2>3, <2>4, <2>5, <2>6
  <1> QED BY <1>2, <1>3

\* What a condition keeps of rows with distinct keys has distinct keys.
LEMMA KeptDistinct ==
  ASSUME NEW K, NEW s \in Seq(RowsOf(K)), NEW S, Distinct(s)
  PROVE  Distinct(Kept(s, S))
  <1>1. Len(s) \in Nat /\ DOMAIN s = 1..Len(s) /\ \A k \in 1..Len(s) : s[k] \in RowsOf(K)
    BY LenProperties, ElementOfSeq
  <1>2. PICK g : Collects(g, s, S)
    BY <1>1, KeptSteps
  <1> DEFINE P(n) == n <= Len(s) => /\ g[n] \in Seq(RowsOf(K)) /\ Distinct(g[n])
                                    /\ \A x \in Keys(g[n]) : \E i \in 1..n : s[i].k = x
             U == {n \in Nat : P(n)}
  <1>3. P(0)
    <2>1. g[0] = <<>> /\ <<>> \in Seq(RowsOf(K))
      BY <1>2, EmptySeq DEF Collects
    <2>2. Distinct(<<>>) /\ Keys(<<>>) = {}
      BY DEF Distinct, Keys
    <2> QED BY <2>1, <2>2
  <1>4. ASSUME NEW n \in Nat, P(n) PROVE P(n + 1)
    <2>1. SUFFICES ASSUME n + 1 <= Len(s)
                   PROVE  /\ g[n + 1] \in Seq(RowsOf(K)) /\ Distinct(g[n + 1])
                          /\ \A x \in Keys(g[n + 1]) : \E i \in 1..(n + 1) : s[i].k = x
      OBVIOUS
    <2>2. n \in 0..(Len(s) - 1) /\ n + 1 \in 1..Len(s) /\ s[n + 1] \in RowsOf(K)
      BY <1>1, <2>1
    <2>3. PICK q \in Seq(RowsOf(K)) : q = g[n] /\ Distinct(q) /\ \A x \in Keys(q) : \E i \in 1..n : s[i].k = x
      BY <1>1, <1>4, <2>1
    <2>4. CASE s[n + 1] \notin S
      <3>1. g[n + 1] = q
        BY <1>2, <2>2, <2>3, <2>4 DEF Collects
      <3> QED BY <2>3, <3>1
    <2>5. CASE s[n + 1] \in S
      <3>1. PICK e \in RowsOf(K) : e = s[n + 1] /\ g[n + 1] = Append(q, e)
        BY <1>2, <2>2, <2>3, <2>5 DEF Collects
      <3>2. e.k \notin Keys(q)
        <4>1. SUFFICES ASSUME e.k \in Keys(q) PROVE FALSE
          OBVIOUS
        <4>2. PICK i \in 1..n : s[i].k = s[n + 1].k
          BY <2>3, <3>1, <4>1
        <4>3. i \in DOMAIN s /\ n + 1 \in DOMAIN s /\ i # n + 1
          BY <1>1, <2>1
        <4> QED BY <4>2, <4>3 DEF Distinct
      <3>3. Merge(q, e) = Append(q, e)
        BY <3>2 DEF Merge
      <3>4. Append(q, e) \in Seq(RowsOf(K)) /\ Distinct(Append(q, e)) /\ Keys(Append(q, e)) = Keys(q) \cup {e.k}
        <4>1. Merge(q, e) \in Seq(RowsOf(K)) /\ Keys(Merge(q, e)) = Keys(q) \cup {e.k}
          BY MergeFacts
        <4>2. Distinct(q) => Distinct(Merge(q, e))
          BY MergeFacts
        <4> QED BY <2>3, <3>3, <4>1, <4>2
      <3>5. \A x \in Keys(Append(q, e)) : \E i \in 1..(n + 1) : s[i].k = x
        BY <2>2, <2>3, <3>1, <3>4
      <3> QED BY <3>1, <3>4, <3>5
    <2> QED BY <2>4, <2>5
  <1> HIDE DEF P
  <1>5. U = Nat
    <2>1. U \in SUBSET Nat /\ 0 \in U
      BY <1>3
    <2>2. \A n \in U : n + 1 \in U
      BY <1>4
    <2> HIDE DEF U
    <2> QED BY <2>1, <2>2, SetInduction
  <1>6. P(Len(s))
    BY <1>1, <1>5
  <1> QED BY <1>1, <1>2, <1>6 DEF P, Collects

\* What is pruned and what is old: no key comes in by leaving rows out.
LEMMA PrunedFacts ==
  ASSUME NEW K, NEW s \in Seq(RowsOf(K)), NEW cutoff
  PROVE  /\ Pruned(s, cutoff) \in Seq(RowsOf(K)) /\ Keys(Pruned(s, cutoff)) \subseteq Keys(s)
         /\ Distinct(s) => Distinct(Pruned(s, cutoff))
  <1>1. PICK S, T : Pruned(s, cutoff) = Kept(Kept(s, S), T)
    BY DEF Pruned, Since
  <1>2. PICK young \in Seq(RowsOf(K)) : young = Kept(s, S)
    BY KeptFacts
  <1>3. Distinct(s) => Distinct(young)
    BY <1>2, KeptDistinct
  <1>4. Kept(young, T) \in Seq(RowsOf(K)) /\ (Distinct(young) => Distinct(Kept(young, T)))
    BY KeptFacts, KeptDistinct
  <1>5. /\ \A i \in DOMAIN young : \E k \in DOMAIN s : young[i] = s[k]
        /\ \A i \in DOMAIN Kept(young, T) : \E k \in DOMAIN young : Kept(young, T)[i] = young[k]
    BY <1>2, KeptFacts
  <1>6. Keys(Kept(young, T)) \subseteq Keys(s)
    BY <1>5 DEF Keys
  <1> QED BY <1>1, <1>2, <1>3, <1>4, <1>6

-----------------------------------------------------------------------------
(* History: announcements. *)

\* Only a binding that the recorder does not know is announced, and once.
LEMMA EventsFacts ==
  ASSUME NEW m, NEW pair \in Pairs, NEW mismatch, seen' \in Nat
  PROVE  /\ Events(m, pair, mismatch) \in Seq(EventRec)
         /\ \A p : Len(Kept(Events(m, pair, mismatch), News(p))) <= 1
         /\ \A p : p # pair \/ pair \in m.pairs => Len(Kept(Events(m, pair, mismatch), News(p))) = 0
  <1> DEFINE ips == {p \in m.pairs : p[2] = pair[2]}
             was == m.owner[pair[1]]
             e(kind) == [kind |-> kind, pair |-> pair, at |-> seen']
  <1>1. PICK a, b, c, d :
          /\ a = If(ips = {}, "new_device", pair) /\ b = If(ips # {} /\ pair \notin ips, "mac_new_ip", pair)
          /\ c = If(was # "" /\ was # pair[2], "ip_mac_changed", pair)
          /\ d = If(mismatch /\ pair \notin quiet, "mac_mismatch", pair)
    OBVIOUS
  <1>2. Events(m, pair, mismatch) = a \o b \o c \o d
    BY <1>1 DEF Events
  <1>3. /\ a \in {<<e("new_device")>>, <<>>} /\ b \in {<<e("mac_new_ip")>>, <<>>}
        /\ c \in {<<e("ip_mac_changed")>>, <<>>} /\ d \in {<<e("mac_mismatch")>>, <<>>}
        /\ a = <<>> \/ b = <<>>
        /\ pair \in m.pairs => a = <<>> /\ b = <<>>
    BY <1>1 DEF If
  <1>4. ASSUME NEW kind \in {"new_device", "mac_new_ip", "ip_mac_changed", "mac_mismatch"}, NEW p
        PROVE  /\ <<e(kind)>> \in Seq(EventRec)
               /\ Len(Kept(<<e(kind)>>, News(p))) <= 1
               /\ kind \notin {"new_device", "mac_new_ip"} \/ p # pair => Len(Kept(<<e(kind)>>, News(p))) = 0
    <2>1. PICK x \in EventRec : x = e(kind)
      BY DEF EventRec
    <2>2. PICK s \in Seq(EventRec) : s = <<x>> /\ Len(s) = 1 /\ s[1] = x /\ DOMAIN s = 1..1
      <3>1. <<x>> \in Seq(EventRec) /\ Len(<<x>>) = 1 /\ <<x>>[1] = x /\ DOMAIN <<x>> = 1..1
        OBVIOUS
      <3> QED BY <3>1
    <2>3. Len(Kept(s, News(p))) <= 1
      BY <2>2, KeptFacts
    <2>4. ASSUME kind \notin {"new_device", "mac_new_ip"} \/ p # pair PROVE Len(Kept(s, News(p))) = 0
      <3>1. x \notin News(p)
        BY <2>1, <2>4 DEF News
      <3>2. \A k \in DOMAIN s : s[k] \notin News(p)
        BY <2>2, <3>1
      <3>3. Kept(s, News(p)) = <<>>
        BY <2>2, <3>2, KeptSizes
      <3> QED BY <3>3
    <2> HIDE DEF e
    <2> QED BY <2>1, <2>2, <2>3, <2>4
  <1>5. ASSUME NEW p
        PROVE  /\ <<>> \in Seq(EventRec) /\ Len(Kept(<<>>, News(p))) = 0
    <2>1. <<>> \in Seq(EventRec) /\ \A k \in DOMAIN <<>> : FALSE
      BY EmptySeq
    <2>2. Kept(<<>>, News(p)) = <<>>
      BY <2>1, KeptSizes
    <2> QED BY <2>1, <2>2
  <1> HIDE DEF ips, was, e
  <1>6. ASSUME NEW p
        PROVE  /\ Events(m, pair, mismatch) \in Seq(EventRec)
               /\ Len(Kept(Events(m, pair, mismatch), News(p))) <= 1
               /\ p # pair \/ pair \in m.pairs => Len(Kept(Events(m, pair, mismatch), News(p))) = 0
    <2>1. a \in Seq(EventRec) /\ b \in Seq(EventRec) /\ c \in Seq(EventRec) /\ d \in Seq(EventRec)
      BY <1>3, <1>4, <1>5
    <2>2. /\ Len(Kept(a, News(p))) <= 1 /\ Len(Kept(b, News(p))) <= 1
          /\ p # pair => Len(Kept(a, News(p))) = 0 /\ Len(Kept(b, News(p))) = 0
          /\ Len(Kept(c, News(p))) = 0 /\ Len(Kept(d, News(p))) = 0
          /\ a = <<>> => Len(Kept(a, News(p))) = 0
          /\ b = <<>> => Len(Kept(b, News(p))) = 0
      BY <1>3, <1>4, <1>5
    <2>3. a \o b \in Seq(EventRec) /\ a \o b \o c \in Seq(EventRec) /\ a \o b \o c \o d \in Seq(EventRec)
      BY <2>1, ConcatProperties
    <2>4. /\ Len(Kept(a \o b, News(p))) = Len(Kept(a, News(p))) + Len(Kept(b, News(p)))
          /\ Len(Kept(a, News(p))) \in Nat /\ Len(Kept(b, News(p))) \in Nat
      BY <2>1, KeptCounts
    <2>5. Len(Kept(a \o b \o c, News(p))) = Len(Kept(a \o b, News(p))) + Len(Kept(c, News(p)))
      BY <2>1, <2>3, KeptCounts
    <2>6. Len(Kept(a \o b \o c \o d, News(p))) = Len(Kept(a \o b \o c, News(p))) + Len(Kept(d, News(p)))
      BY <2>1, <2>3, KeptCounts
    <2>7. Len(Kept(a \o b \o c \o d, News(p))) = Len(Kept(a, News(p))) + Len(Kept(b, News(p)))
      BY <2>2, <2>4, <2>5, <2>6
    <2> QED BY <1>2, <1>3, <2>2, <2>3, <2>4, <2>7
  <1> QED BY <1>6

\* What is queued of new events: those that were, and of the new ones the first.
LEMMA QueuedFacts ==
  ASSUME NEW ev \in Seq(EventRec), NEW new \in Seq(EventRec), Len(ev) <= MaxPending
  PROVE  /\ Queued(ev, new) \in Seq(EventRec) /\ Len(Queued(ev, new)) <= MaxPending
         /\ \A S : Len(Kept(Queued(ev, new), S)) <= Len(Kept(ev, S)) + Len(Kept(new, S))
  <1>1. Len(ev) \in Nat /\ Len(new) \in Nat /\ MaxPending \in Nat
    BY LenProperties, HistoryAssumption
  <1>2. PICK room \in Nat : room = MaxPending - Len(ev)
    <2>1. MaxPending - Len(ev) \in Nat
      BY <1>1
    <2> QED BY <2>1
  <1>3. PICK first \in Seq(EventRec), rest \in Seq(EventRec) :
          /\ new = first \o rest /\ Len(first) <= room
          /\ first = IF Len(new) <= room THEN new ELSE SubSeq(new, 1, room)
    <2>1. CASE Len(new) <= room
      <3>1. <<>> \in Seq(EventRec) /\ new \o <<>> = new
        BY EmptySeq, ConcatEmptySeq
      <3> QED BY <2>1, <3>1
    <2>2. CASE ~(Len(new) <= room)
      <3>1. room \in 0..Len(new)
        BY <1>1, <1>2, <2>2
      <3>2. /\ SubSeq(new, 1, room) \in Seq(EventRec) /\ Drop(new, room) \in Seq(EventRec)
            /\ new = SubSeq(new, 1, room) \o Drop(new, room) /\ Len(SubSeq(new, 1, room)) = room
        BY <3>1, SplitAt
      <3>3. Len(SubSeq(new, 1, room)) <= room
        BY <3>2
      <3> QED BY <2>2, <3>2, <3>3
    <2> QED BY <2>1, <2>2
  <1>4. Queued(ev, new) = ev \o first
    BY <1>2, <1>3 DEF Queued
  <1>5. ev \o first \in Seq(EventRec) /\ Len(ev \o first) = Len(ev) + Len(first) /\ Len(first) \in Nat
    BY <1>3, ConcatProperties, LenProperties
  <1>6. ASSUME NEW S PROVE Len(Kept(ev \o first, S)) <= Len(Kept(ev, S)) + Len(Kept(new, S))
    <2>1. /\ Len(Kept(ev \o first, S)) = Len(Kept(ev, S)) + Len(Kept(first, S))
          /\ Len(Kept(ev, S)) \in Nat /\ Len(Kept(first, S)) \in Nat
      <3>1. first \in Seq(EventRec)
        BY <1>3
      <3> QED BY <3>1, KeptCounts
    <2>2. /\ Len(Kept(first \o rest, S)) = Len(Kept(first, S)) + Len(Kept(rest, S))
          /\ Len(Kept(rest, S)) \in Nat
      <3>1. first \in Seq(EventRec) /\ rest \in Seq(EventRec)
        BY <1>3
      <3>2. Len(Kept(first \o rest, S)) = Len(Kept(first, S)) + Len(Kept(rest, S))
        BY <3>1, KeptCounts
      <3>3. Len(Kept(rest, S)) \in Nat
        BY <3>1, KeptSizes
      <3> QED BY <3>2, <3>3
    <2>3. Len(Kept(ev \o first, S)) <= Len(Kept(ev, S)) + Len(Kept(first \o rest, S))
      BY <2>1, <2>2
    <2> QED BY <1>3, <2>3
  <1>7. Len(ev \o first) <= MaxPending
    BY <1>1, <1>2, <1>3, <1>5
  <1> QED BY <1>4, <1>5, <1>6, <1>7

-----------------------------------------------------------------------------
(* History: what the steps do to the places. *)

\* A place and what it has.
LEMMA BatchFacts ==
  ASSUME NEW b \in BatchRec
  PROVE  /\ b.dns \in Seq(RowsOf(Names)) /\ b.arp \in Seq(RowsOf(Pairs)) /\ b.ev \in Seq(EventRec)
         /\ \A p : Said(b, p) \in Nat
         /\ \A n : Tally(b.dns, n) \in Int
         /\ Keys(b.arp) \subseteq Pairs
  <1>1. b.dns \in Seq(RowsOf(Names)) /\ b.arp \in Seq(RowsOf(Pairs)) /\ b.ev \in Seq(EventRec)
    BY DEF BatchRec
  <1>2. ASSUME NEW p PROVE Said(b, p) \in Nat
    BY <1>1, KeptSizes DEF Said
  <1>3. ASSUME NEW n PROVE Tally(b.dns, n) \in Int
    BY <1>1, TallyIsInt
  <1>4. Keys(b.arp) \subseteq Pairs
    BY <1>1, KeysFacts
  <1> QED BY <1>1, <1>2, <1>3, <1>4

LEMMA NoRowsFacts ==
  /\ NoRows \in BatchRec /\ Distinct(NoRows.dns) /\ Keys(NoRows.arp) = {}
  /\ \A p : Said(NoRows, p) = 0
  /\ \A n : Tally(NoRows.dns, n) = 0
  /\ \A lost : Recorded(NoRows, lost)
  <1>1. NoRows.dns = <<>> /\ NoRows.arp = <<>> /\ NoRows.ev = <<>>
    BY DEF NoRows
  <1>2. NoRows \in BatchRec
    <2>1. <<>> \in Seq(RowsOf(Names)) /\ <<>> \in Seq(RowsOf(Pairs)) /\ <<>> \in Seq(EventRec)
      BY EmptySeq
    <2> QED BY <2>1 DEF NoRows, BatchRec
  <1>3. Distinct(<<>>) /\ Keys(<<>>) = {}
    BY DEF Distinct, Keys
  <1>4. ASSUME NEW p PROVE Said(NoRows, p) = 0
    <2>1. NoRows.ev \in Seq(EventRec) /\ \A k \in DOMAIN NoRows.ev : NoRows.ev[k] \notin News(p)
      BY <1>1, EmptySeq
    <2>2. Kept(NoRows.ev, News(p)) = <<>>
      BY <2>1, KeptSizes
    <2> QED BY <2>2 DEF Said
  <1>5. ASSUME NEW n PROVE Tally(NoRows.dns, n) = 0
    BY <1>1, TallyEmpty
  <1>6. ASSUME NEW lost PROVE Recorded(NoRows, lost)
    BY <1>4 DEF Recorded
  <1> QED BY <1>1, <1>2, <1>3, <1>4, <1>5, <1>6

\* One list of each kind after another.
LEMMA ConcatKeys ==
  ASSUME NEW K, NEW s \in Seq(RowsOf(K)), NEW t \in Seq(RowsOf(K))
  PROVE  s \o t \in Seq(RowsOf(K)) /\ Keys(s \o t) = Keys(s) \cup Keys(t)
  <1>1. s \o t \in Seq(RowsOf(K)) /\ Elems(s \o t) = Elems(s) \cup Elems(t)
    BY ConcatFacts, ConcatProperties
  <1>2. Keys(s \o t) = {r.k : r \in Elems(s \o t)} /\ Keys(s) = {r.k : r \in Elems(s)} /\ Keys(t) = {r.k : r \in Elems(t)}
    BY <1>1, KeysFacts
  <1> QED BY <1>1, <1>2

\* A flush takes what was kept for a retry and what is pending.
LEMMA SoundStarts ==
  ASSUME NEW t, NEW r, NEW w, NEW m, NEW lost, Sound(t, NoRows, r, w, m, lost), NEW b,
         b = [dns |-> r.dns \o w.dns, arp |-> r.arp \o w.arp, ev |-> r.ev \o w.ev]
  PROVE  Sound(t, b, NoRows, NoRows, m, lost)
  <1>1. t \in BatchRec /\ r \in BatchRec /\ w \in BatchRec
    BY DEF Sound
  <1>2. /\ r.dns \in Seq(RowsOf(Names)) /\ r.arp \in Seq(RowsOf(Pairs)) /\ r.ev \in Seq(EventRec)
        /\ w.dns \in Seq(RowsOf(Names)) /\ w.arp \in Seq(RowsOf(Pairs)) /\ w.ev \in Seq(EventRec)
    BY <1>1, BatchFacts
  <1>3. r.dns \o w.dns \in Seq(RowsOf(Names)) /\ r.arp \o w.arp \in Seq(RowsOf(Pairs)) /\ r.ev \o w.ev \in Seq(EventRec)
    BY <1>2, ConcatProperties
  <1>4. b \in BatchRec /\ b.dns = r.dns \o w.dns /\ b.arp = r.arp \o w.arp /\ b.ev = r.ev \o w.ev
    BY <1>3 DEF BatchRec
  <1>5. Keys(b.arp) = Keys(r.arp) \cup Keys(w.arp)
    BY <1>2, <1>4, ConcatKeys
  <1>6. ASSUME NEW p PROVE Said(b, p) = Said(r, p) + Said(w, p)
    BY <1>2, <1>4, KeptCounts DEF Said
  <1>7. \A p : Said(t, p) \in Nat /\ Said(r, p) \in Nat /\ Said(w, p) \in Nat
    BY <1>1, BatchFacts
  <1>8. Recorded(b, lost)
    <2>1. Recorded(r, lost) /\ Recorded(w, lost)
      BY DEF Sound
    <2>2. ASSUME NEW p \in Pairs \ lost, Said(b, p) > 0 PROVE p \in Keys(b.arp)
      <3>1. Said(r, p) > 0 \/ Said(w, p) > 0
        BY <1>6, <1>7, <2>2
      <3> QED BY <1>5, <2>1, <3>1 DEF Recorded
    <2> QED BY <2>2 DEF Recorded
  <1>9. \A p \in Pairs \ lost : Said(t, p) + Said(b, p) + Said(NoRows, p) + Said(NoRows, p) <= 1
    <2>1. SUFFICES ASSUME NEW p \in Pairs \ lost
                   PROVE  Said(t, p) + Said(b, p) + Said(NoRows, p) + Said(NoRows, p) <= 1
      OBVIOUS
    <2>2. Said(t, p) + Said(NoRows, p) + Said(r, p) + Said(w, p) <= 1 /\ Said(NoRows, p) = 0
      BY NoRowsFacts DEF Sound
    <2>3. /\ Said(t, p) \in Nat /\ Said(r, p) \in Nat /\ Said(w, p) \in Nat
          /\ Said(b, p) = Said(r, p) + Said(w, p)
      BY <1>6, <1>7
    <2> QED BY <2>2, <2>3
  <1>10. Waiting(b, NoRows, NoRows) = Waiting(NoRows, r, w)
    BY <1>5, NoRowsFacts DEF Waiting
  <1>11. {t, b, NoRows, NoRows} \subseteq BatchRec /\ Distinct(t.dns) /\ Distinct(NoRows.dns)
    BY <1>1, <1>4, NoRowsFacts DEF Sound
  <1>12. \A x \in {t, b, NoRows, NoRows} : Recorded(x, lost)
    BY <1>8, NoRowsFacts DEF Sound
  <1> QED BY <1>9, <1>10, <1>11, <1>12 DEF Sound

\* A flush that succeeds is in the tables.
LEMMA SoundWrites ==
  ASSUME NEW t, NEW f, NEW r, NEW w, NEW m, NEW lost, Sound(t, f, r, w, m, lost)
  PROVE  /\ Sound(Written(t, f), NoRows, r, w, m, lost)
         /\ \A n : Tally(Written(t, f).dns, n) = Tally(t.dns, n) + Tally(f.dns, n)
  <1>1. t \in BatchRec /\ f \in BatchRec /\ r \in BatchRec /\ w \in BatchRec
    BY DEF Sound
  <1>2. /\ t.dns \in Seq(RowsOf(Names)) /\ t.arp \in Seq(RowsOf(Pairs)) /\ t.ev \in Seq(EventRec)
        /\ f.dns \in Seq(RowsOf(Names)) /\ f.arp \in Seq(RowsOf(Pairs)) /\ f.ev \in Seq(EventRec)
    BY <1>1, BatchFacts
  <1>3. Merges(Names, Merged(t.dns, f.dns), t.dns, f.dns) /\ Merges(Pairs, Merged(t.arp, f.arp), t.arp, f.arp)
    BY <1>2, MergedFacts
  <1>4. t.ev \o f.ev \in Seq(EventRec)
    BY <1>2, ConcatProperties
  <1>5. PICK b \in BatchRec : b = Written(t, f)
    BY <1>3, <1>4 DEF Written, BatchRec, Merges
  <1>6. b.dns = Merged(t.dns, f.dns) /\ b.arp = Merged(t.arp, f.arp) /\ b.ev = t.ev \o f.ev
    BY <1>5 DEF Written
  <1>7. Keys(b.arp) = Keys(t.arp) \cup Keys(f.arp)
    BY <1>3, <1>6 DEF Merges
  <1>8. Distinct(b.dns) /\ \A n : Tally(b.dns, n) = Tally(t.dns, n) + Tally(f.dns, n)
    BY <1>3, <1>6 DEF Merges, Sound
  <1>9. ASSUME NEW p PROVE Said(b, p) = Said(t, p) + Said(f, p)
    <2>1. PICK x \in Seq(EventRec), y \in Seq(EventRec) : x = t.ev /\ y = f.ev
      BY <1>2
    <2>2. Len(Kept(x \o y, News(p))) = Len(Kept(x, News(p))) + Len(Kept(y, News(p)))
      BY KeptCounts
    <2> QED BY <1>6, <2>1, <2>2 DEF Said
  <1>10. \A p : Said(t, p) \in Nat /\ Said(f, p) \in Nat /\ Said(r, p) \in Nat /\ Said(w, p) \in Nat
    BY <1>1, BatchFacts
  <1>11. Recorded(b, lost)
    <2>1. Recorded(t, lost) /\ Recorded(f, lost)
      BY DEF Sound
    <2>2. ASSUME NEW p \in Pairs \ lost, Said(b, p) > 0 PROVE p \in Keys(b.arp)
      <3>1. Said(t, p) > 0 \/ Said(f, p) > 0
        BY <1>9, <1>10, <2>2
      <3> QED BY <1>7, <2>1, <3>1 DEF Recorded
    <2> QED BY <2>2 DEF Recorded
  <1>12. \A p \in Pairs \ lost : Said(b, p) + Said(NoRows, p) + Said(r, p) + Said(w, p) <= 1
    BY <1>9, <1>10, NoRowsFacts DEF Sound
  <1>13. Keys(b.arp) \cup Waiting(NoRows, r, w) = Keys(t.arp) \cup Waiting(f, r, w)
    BY <1>7, NoRowsFacts DEF Waiting
  <1>14. Waiting(NoRows, r, w) \subseteq Waiting(f, r, w)
    BY NoRowsFacts DEF Waiting
  <1>15. {b, NoRows, r, w} \subseteq BatchRec /\ Distinct(w.dns) /\ IsMemory(m) /\ lost \subseteq Pairs
    BY <1>1, NoRowsFacts DEF Sound
  <1>16. \A x \in {b, NoRows, r, w} : Recorded(x, lost)
    BY <1>11, NoRowsFacts DEF Sound
  <1>17. Sound(b, NoRows, r, w, m, lost)
    <2>1. /\ m.ready => Keys(b.arp) \cup Waiting(NoRows, r, w) \subseteq m.pairs \cup lost
          /\ ~m.ready => Waiting(NoRows, r, w) = {}
      BY <1>13, <1>14 DEF Sound
    <2> QED BY <1>8, <1>12, <1>15, <1>16, <2>1 DEF Sound
  <1> QED BY <1>5, <1>8, <1>17

\* A flush that fails keeps the newest of each list, and the bindings before them are given up.
LEMMA SoundFails ==
  ASSUME NEW t, NEW f, NEW w, NEW m, NEW lost, Sound(t, f, NoRows, w, m, lost), NEW given,
         given = {f.arp[i].k : i \in 1..(Len(f.arp) - MaxPending * KeepFactor)}
  PROVE  Sound(t, NoRows, Retained(f), w, m, lost \cup given)
  <1>1. t \in BatchRec /\ f \in BatchRec /\ w \in BatchRec
    BY DEF Sound
  <1>2. f.dns \in Seq(RowsOf(Names)) /\ f.arp \in Seq(RowsOf(Pairs)) /\ f.ev \in Seq(EventRec)
    BY <1>1, BatchFacts
  <1>3. PICK n \in Nat : n = MaxPending * KeepFactor
    <2>1. MaxPending \in Nat /\ KeepFactor \in Nat
      BY HistoryAssumption
    <2> QED BY <2>1
  <1>4. /\ Lasts(f.dns, n) \in Seq(RowsOf(Names)) /\ Lasts(f.arp, n) \in Seq(RowsOf(Pairs))
        /\ Lasts(f.ev, n) \in Seq(EventRec)
    BY <1>2, LastsFacts
  <1>5. PICK r \in BatchRec : r = Retained(f)
    BY <1>3, <1>4 DEF Retained, BatchRec
  <1>6. r.arp = Lasts(f.arp, n) /\ r.ev = Lasts(f.ev, n)
    BY <1>3, <1>5 DEF Retained
  <1>7. Keys(f.arp) \subseteq Keys(r.arp) \cup given /\ Keys(r.arp) \subseteq Keys(f.arp)
    <2>1. Keys(f.arp) = {x.k : x \in Elems(f.arp)} /\ Keys(r.arp) = {x.k : x \in Elems(r.arp)}
      BY <1>2, <1>4, <1>6, KeysFacts
    <2>2. /\ Elems(r.arp) \subseteq Elems(f.arp)
          /\ \A x \in Elems(f.arp) \ Elems(r.arp) : \E i \in 1..(Len(f.arp) - n) : f.arp[i] = x
      <3>1. PICK rows \in Seq(RowsOf(Pairs)) : rows = f.arp
        BY <1>2
      <3>2. Elems(Lasts(rows, n)) \subseteq Elems(rows)
        BY LastsFacts
      <3>3. ASSUME NEW x \in Elems(rows) \ Elems(Lasts(rows, n)) PROVE \E i \in 1..(Len(rows) - n) : rows[i] = x
        BY LastsFacts
      <3> QED BY <1>6, <3>1, <3>2, <3>3
    <2>3. ASSUME NEW x \in Elems(f.arp) PROVE x.k \in Keys(r.arp) \cup given
      BY <1>3, <2>1, <2>2
    <2>4. Keys(f.arp) \subseteq Keys(r.arp) \cup given
      BY <2>1, <2>3
    <2>5. Keys(r.arp) \subseteq Keys(f.arp)
      BY <2>1, <2>2
    <2> QED BY <2>4, <2>5
  <1>8. given \subseteq Keys(f.arp)
    <2>1. Len(f.arp) \in Nat /\ DOMAIN f.arp = 1..Len(f.arp)
      BY <1>2, LenProperties
    <2>2. \A i \in 1..(Len(f.arp) - n) : i \in DOMAIN f.arp
      BY <1>3, <2>1
    <2> QED BY <1>3, <2>2 DEF Keys
  <1>9. Keys(f.arp) \subseteq Pairs
    BY <1>1, BatchFacts
  <1>10. \A p : Said(r, p) <= Said(f, p)
    BY <1>2, <1>6, LastsFacts DEF Said
  <1>11. \A p : Said(t, p) \in Nat /\ Said(f, p) \in Nat /\ Said(r, p) \in Nat /\ Said(w, p) \in Nat
    BY <1>1, <1>5, BatchFacts
  <1>12. Recorded(r, lost \cup given)
    <2>1. ASSUME NEW p \in Pairs \ (lost \cup given), Said(r, p) > 0 PROVE p \in Keys(r.arp)
      <3>1. Said(f, p) > 0
        BY <1>10, <1>11, <2>1
      <3>2. p \in Keys(f.arp)
        BY <3>1 DEF Sound, Recorded
      <3> QED BY <1>7, <3>2
    <2> QED BY <2>1 DEF Recorded
  <1>13. \A p \in Pairs \ (lost \cup given) : Said(t, p) + Said(NoRows, p) + Said(r, p) + Said(w, p) <= 1
    <2>1. SUFFICES ASSUME NEW p \in Pairs \ (lost \cup given)
                   PROVE  Said(t, p) + Said(NoRows, p) + Said(r, p) + Said(w, p) <= 1
      OBVIOUS
    <2>2. Said(t, p) + Said(f, p) + Said(NoRows, p) + Said(w, p) <= 1
      BY DEF Sound
    <2>3. Said(NoRows, p) = 0 /\ Said(r, p) <= Said(f, p)
      BY <1>10, NoRowsFacts
    <2> QED BY <1>11, <2>2, <2>3
  <1>14. Recorded(t, lost \cup given) /\ Recorded(w, lost \cup given) /\ Recorded(NoRows, lost \cup given)
    BY NoRowsFacts DEF Sound, Recorded
  <1>15. Waiting(NoRows, r, w) \subseteq Waiting(f, NoRows, w)
    BY <1>7, NoRowsFacts DEF Waiting
  <1>16. {t, NoRows, r, w} \subseteq BatchRec /\ IsMemory(m) /\ lost \cup given \subseteq Pairs
    BY <1>1, <1>8, <1>9, NoRowsFacts DEF Sound
  <1>17. /\ m.ready => Keys(t.arp) \cup Waiting(NoRows, r, w) \subseteq m.pairs \cup (lost \cup given)
         /\ ~m.ready => Waiting(NoRows, r, w) = {}
    BY <1>15 DEF Sound
  <1>18. Distinct(t.dns) /\ Distinct(w.dns)
    BY DEF Sound
  <1> QED BY <1>5, <1>12, <1>13, <1>14, <1>16, <1>17, <1>18 DEF Sound

\* Retention and deletion: a binding that leaves the table is given up.
LEMMA SoundKeeps ==
  ASSUME NEW t, NEW f, NEW r, NEW w, NEW m, NEW lost, Sound(t, f, r, w, m, lost), NEW u \in BatchRec,
         Distinct(u.dns), Keys(u.arp) \subseteq Keys(t.arp), \A p : Said(u, p) <= Said(t, p)
  PROVE  Sound(u, f, r, w, m, lost \cup (Keys(t.arp) \ Keys(u.arp)))
  <1>1. PICK given : given = Keys(t.arp) \ Keys(u.arp)
    OBVIOUS
  <1>2. t \in BatchRec /\ f \in BatchRec /\ r \in BatchRec /\ w \in BatchRec
    BY DEF Sound
  <1>3. /\ \A p : Said(t, p) \in Nat /\ Said(f, p) \in Nat /\ Said(r, p) \in Nat /\ Said(w, p) \in Nat /\ Said(u, p) \in Nat
        /\ Keys(t.arp) \subseteq Pairs
    BY <1>2, BatchFacts
  <1>4. Recorded(u, lost \cup given)
    <2>1. ASSUME NEW p \in Pairs \ (lost \cup given), Said(u, p) > 0 PROVE p \in Keys(u.arp)
      <3>1. Said(u, p) <= Said(t, p)
        OBVIOUS
      <3>2. Said(t, p) > 0
        BY <1>3, <2>1, <3>1
      <3>3. p \in Keys(t.arp)
        BY <3>2 DEF Sound, Recorded
      <3> QED BY <1>1, <3>3
    <2> QED BY <2>1 DEF Recorded
  <1>5. \A p \in Pairs \ (lost \cup given) : Said(u, p) + Said(f, p) + Said(r, p) + Said(w, p) <= 1
    <2>1. SUFFICES ASSUME NEW p \in Pairs \ (lost \cup given)
                   PROVE  Said(u, p) + Said(f, p) + Said(r, p) + Said(w, p) <= 1
      OBVIOUS
    <2>2. Said(t, p) + Said(f, p) + Said(r, p) + Said(w, p) <= 1 /\ Said(u, p) <= Said(t, p)
      BY DEF Sound
    <2> QED BY <1>3, <2>2
  <1>6. \A x \in {u, f, r, w} : Recorded(x, lost \cup given)
    BY <1>4 DEF Sound, Recorded
  <1>7. {u, f, r, w} \subseteq BatchRec /\ IsMemory(m) /\ lost \cup given \subseteq Pairs /\ Distinct(w.dns)
    BY <1>1, <1>3 DEF Sound
  <1>8. /\ m.ready => Keys(u.arp) \cup Waiting(f, r, w) \subseteq m.pairs \cup (lost \cup given)
        /\ ~m.ready => Waiting(f, r, w) = {}
    BY DEF Sound
  <1>9. Sound(u, f, r, w, m, lost \cup given)
    BY <1>5, <1>6, <1>7, <1>8 DEF Sound
  <1> QED BY <1>1, <1>9

\* A process that starts has its tables and nothing else.
LEMMA SoundRestarts ==
  ASSUME NEW t, NEW f, NEW r, NEW w, NEW m, NEW lost, Sound(t, f, r, w, m, lost)
  PROVE  Sound(t, NoRows, NoRows, NoRows, NoMemory, lost)
  <1>1. t \in BatchRec /\ f \in BatchRec /\ r \in BatchRec /\ w \in BatchRec
    BY DEF Sound
  <1>2. \A p : Said(t, p) \in Nat /\ Said(f, p) \in Nat /\ Said(r, p) \in Nat /\ Said(w, p) \in Nat
    BY <1>1, BatchFacts
  <1>3. \A p \in Pairs \ lost : Said(t, p) + Said(NoRows, p) + Said(NoRows, p) + Said(NoRows, p) <= 1
    BY <1>2, NoRowsFacts DEF Sound
  <1>4. IsMemory(NoMemory) /\ ~NoMemory.ready
    BY DEF IsMemory, NoMemory
  <1>5. Waiting(NoRows, NoRows, NoRows) = {}
    BY NoRowsFacts DEF Waiting
  <1>6. {t, NoRows, NoRows, NoRows} \subseteq BatchRec /\ lost \subseteq Pairs /\ Distinct(t.dns) /\ Distinct(NoRows.dns)
    BY <1>1, NoRowsFacts DEF Sound
  <1>7. \A x \in {t, NoRows, NoRows, NoRows} : Recorded(x, lost)
    BY NoRowsFacts DEF Sound
  <1> QED BY <1>3, <1>4, <1>5, <1>6, <1>7 DEF Sound

\* The recorder reads its memory from the table: what it did not read is given up.
LEMMA SoundLoads ==
  ASSUME NEW t, NEW f, NEW r, NEW w, NEW m, NEW lost, Sound(t, f, r, w, m, lost), ~m.ready,
         NEW n, IsMemory(n), n.ready
  PROVE  Sound(t, f, r, w, n, lost \cup (Keys(t.arp) \ n.pairs))
  <1>1. PICK given : given = Keys(t.arp) \ n.pairs
    OBVIOUS
  <1>2. t \in BatchRec
    BY DEF Sound
  <1>3. lost \cup given \subseteq Pairs
    BY <1>1, <1>2, BatchFacts DEF Sound
  <1>4. \A b \in {t, f, r, w} : Recorded(b, lost \cup given)
    BY DEF Sound, Recorded
  <1>5. \A p \in Pairs \ (lost \cup given) : Said(t, p) + Said(f, p) + Said(r, p) + Said(w, p) <= 1
    BY DEF Sound
  <1>6. Keys(t.arp) \cup Waiting(f, r, w) \subseteq n.pairs \cup (lost \cup given)
    BY <1>1 DEF Sound
  <1>7. {t, f, r, w} \subseteq BatchRec /\ Distinct(t.dns) /\ Distinct(w.dns)
    BY DEF Sound
  <1>8. Sound(t, f, r, w, n, lost \cup given)
    BY <1>3, <1>4, <1>5, <1>6, <1>7 DEF Sound
  <1> QED BY <1>1, <1>8

\* A DNS observation that is counted.
LEMMA SoundCounts ==
  ASSUME NEW t, NEW f, NEW r, NEW w, NEW m, NEW lost, Sound(t, f, r, w, m, lost), NEW row \in RowsOf(Names)
  PROVE  /\ Sound(t, f, r, [w EXCEPT !.dns = Merge(@, row)], m, lost)
         /\ \A n : Tally(Merge(w.dns, row), n) = Tally(w.dns, n) + Amount(row, n)
  <1>1. w \in BatchRec
    BY DEF Sound
  <1>2. w.dns \in Seq(RowsOf(Names)) /\ w.arp \in Seq(RowsOf(Pairs)) /\ w.ev \in Seq(EventRec)
    BY <1>1, BatchFacts
  <1>3. PICK rows \in Seq(RowsOf(Names)) : rows = w.dns /\ Distinct(rows)
    BY <1>2 DEF Sound
  <1>4. /\ Merge(rows, row) \in Seq(RowsOf(Names))
        /\ Distinct(Merge(rows, row)) /\ \A n : Tally(Merge(rows, row), n) = Tally(rows, n) + Amount(row, n)
    BY <1>3, MergeFacts
  <1>5. PICK v \in BatchRec : v = [w EXCEPT !.dns = Merge(@, row)]
    BY <1>1, <1>3, <1>4 DEF BatchRec
  <1>6. v.dns = Merge(rows, row) /\ v.arp = w.arp /\ v.ev = w.ev
    BY <1>1, <1>3, <1>5 DEF BatchRec
  <1>7. \A p : Said(v, p) = Said(w, p)
    BY <1>6 DEF Said
  <1>8. Waiting(f, r, v) = Waiting(f, r, w)
    BY <1>6 DEF Waiting
  <1>9. Recorded(v, lost)
    BY <1>6, <1>7 DEF Recorded, Sound
  <1>10. Sound(t, f, r, v, m, lost)
    BY <1>4, <1>6, <1>7, <1>8, <1>9 DEF Sound
  <1> QED BY <1>3, <1>4, <1>5, <1>10

\* An ARP claim that is recorded: a binding that is announced was nowhere, unless its record was given up.
LEMMA SoundClaims ==
  ASSUME NEW t, NEW f, NEW r, NEW w, NEW m, NEW lost, Sound(t, f, r, w, m, lost), m.ready,
         Len(w.ev) <= MaxPending,
         NEW row \in RowsOf(Pairs), NEW new \in Seq(EventRec), NEW n, IsMemory(n), n.ready,
         n.pairs = m.pairs \cup {row.k},
         \A p : Len(Kept(new, News(p))) <= 1,
         \A p : p # row.k \/ row.k \in m.pairs => Len(Kept(new, News(p))) = 0,
         NEW v, v = [w EXCEPT !.arp = Merge(@, row), !.ev = Queued(@, new)]
  PROVE  Sound(t, f, r, v, n, lost)
  <1>1. t \in BatchRec /\ f \in BatchRec /\ r \in BatchRec /\ w \in BatchRec
    BY DEF Sound
  <1>2. w.dns \in Seq(RowsOf(Names)) /\ w.arp \in Seq(RowsOf(Pairs)) /\ w.ev \in Seq(EventRec)
    BY <1>1, BatchFacts
  <1>3. PICK rows \in Seq(RowsOf(Pairs)), ev \in Seq(EventRec) : rows = w.arp /\ ev = w.ev
    BY <1>2
  <1>4. Merge(rows, row) \in Seq(RowsOf(Pairs)) /\ Keys(Merge(rows, row)) = Keys(rows) \cup {row.k}
    BY MergeFacts
  <1>5. /\ Queued(ev, new) \in Seq(EventRec) /\ Len(Queued(ev, new)) <= MaxPending
        /\ \A S : Len(Kept(Queued(ev, new), S)) <= Len(Kept(ev, S)) + Len(Kept(new, S))
    BY <1>3, QueuedFacts
  <1>6. v \in BatchRec /\ v.dns = w.dns /\ v.arp = Merge(rows, row) /\ v.ev = Queued(ev, new)
    BY <1>1, <1>3, <1>4, <1>5 DEF BatchRec
  <1> DEFINE news(p) == Len(Kept(new, News(p)))
  <1>7. \A p : Said(v, p) <= Said(w, p) + news(p)
    BY <1>3, <1>5, <1>6 DEF Said
  <1>8. \A p : news(p) \in Nat /\ news(p) <= 1 /\ (p # row.k \/ row.k \in m.pairs => news(p) = 0)
    BY KeptSizes
  <1> HIDE DEF news
  <1>9. /\ \A p : Said(t, p) \in Nat /\ Said(f, p) \in Nat /\ Said(r, p) \in Nat
        /\ \A p : Said(w, p) \in Nat /\ Said(v, p) \in Nat
    BY <1>1, <1>6, BatchFacts
  <1>10. Keys(v.arp) = Keys(w.arp) \cup {row.k}
    BY <1>3, <1>4, <1>6
  <1>11. Recorded(v, lost)
    <2>1. ASSUME NEW p \in Pairs \ lost, Said(v, p) > 0 PROVE p \in Keys(v.arp)
      <3>1. CASE p = row.k
        BY <1>10, <3>1
      <3>2. CASE p # row.k
        <4>1. Said(v, p) <= Said(w, p) + news(p) /\ news(p) = 0 /\ Said(w, p) \in Nat /\ Said(v, p) \in Nat
          BY <1>7, <1>8, <1>9, <3>2
        <4>2. Said(w, p) > 0
          BY <2>1, <4>1
        <4>3. p \in Keys(w.arp)
          BY <4>2 DEF Sound, Recorded
        <4> QED BY <1>10, <4>3
      <3> QED BY <3>1, <3>2
    <2> QED BY <2>1 DEF Recorded
  <1>12. ASSUME NEW p \in Pairs \ lost PROVE Said(t, p) + Said(f, p) + Said(r, p) + Said(v, p) <= 1
    <2>1. /\ Said(t, p) + Said(f, p) + Said(r, p) + Said(w, p) <= 1
          /\ Said(v, p) <= Said(w, p) + news(p) /\ news(p) \in Nat /\ news(p) <= 1
          /\ Said(t, p) \in Nat /\ Said(f, p) \in Nat /\ Said(r, p) \in Nat /\ Said(w, p) \in Nat /\ Said(v, p) \in Nat
      BY <1>7, <1>8, <1>9 DEF Sound
    <2>2. CASE p # row.k \/ row.k \in m.pairs
      <3>1. news(p) = 0
        BY <1>8, <2>2
      <3> QED BY <2>1, <3>1
    <2>3. CASE p = row.k /\ row.k \notin m.pairs
      <3>1. p \notin Keys(t.arp) /\ p \notin Waiting(f, r, w)
        BY <2>3 DEF Sound
      <3>2. p \notin Keys(t.arp) /\ p \notin Keys(f.arp) /\ p \notin Keys(r.arp) /\ p \notin Keys(w.arp)
        BY <3>1 DEF Waiting
      <3>3. ~(Said(t, p) > 0) /\ ~(Said(f, p) > 0) /\ ~(Said(r, p) > 0) /\ ~(Said(w, p) > 0)
        BY <3>2 DEF Sound, Recorded
      <3>4. Said(t, p) = 0 /\ Said(f, p) = 0 /\ Said(r, p) = 0 /\ Said(w, p) = 0
        BY <2>1, <3>3
      <3> QED BY <2>1, <3>4
    <2> QED BY <2>2, <2>3
  <1>13. Waiting(f, r, v) = Waiting(f, r, w) \cup {row.k}
    BY <1>10 DEF Waiting
  <1>14. Keys(t.arp) \cup Waiting(f, r, v) \subseteq n.pairs \cup lost
    BY <1>13 DEF Sound
  <1>15. {t, f, r, v} \subseteq BatchRec /\ lost \subseteq Pairs /\ Distinct(t.dns) /\ Distinct(v.dns)
    BY <1>6 DEF Sound
  <1>16. \A b \in {t, f, r, v} : Recorded(b, lost)
    BY <1>11 DEF Sound
  <1> QED BY <1>12, <1>14, <1>15, <1>16 DEF Sound

-----------------------------------------------------------------------------
(* History: the steps. *)

\* What the invariant says of the places, at hand.
LEMMA PlaceFacts ==
  ASSUME HistoryInv
  PROVE  /\ tables \in BatchRec /\ Flying \in BatchRec /\ retry \in BatchRec /\ pending \in BatchRec
         /\ Sound(tables, Flying, retry, pending, memory, Excepted)
         /\ \A n \in Names :
              /\ told[n] \in Int /\ gone[n] \in Int
              /\ Tally(tables.dns, n) \in Int /\ Tally(Flying.dns, n) \in Int
              /\ Tally(retry.dns, n) \in Int /\ Tally(pending.dns, n) \in Int
              /\ told[n] = gone[n] + Tally(tables.dns, n) + Tally(Flying.dns, n) + Tally(retry.dns, n) + Tally(pending.dns, n)
  <1>1. Sound(tables, Flying, retry, pending, memory, Excepted)
    BY DEF HistoryInv
  <1>2. tables \in BatchRec /\ Flying \in BatchRec /\ retry \in BatchRec /\ pending \in BatchRec
    BY <1>1 DEF Sound
  <1>3. ASSUME NEW n \in Names
        PROVE  /\ told[n] \in Int /\ gone[n] \in Int
               /\ Tally(tables.dns, n) \in Int /\ Tally(Flying.dns, n) \in Int
               /\ Tally(retry.dns, n) \in Int /\ Tally(pending.dns, n) \in Int
    <2>1. told[n] \in Int /\ gone[n] \in Int
      BY DEF HistoryInv
    <2>2. Tally(tables.dns, n) \in Int /\ Tally(Flying.dns, n) \in Int
      BY <1>2, BatchFacts
    <2>3. Tally(retry.dns, n) \in Int /\ Tally(pending.dns, n) \in Int
      BY <1>2, BatchFacts
    <2> QED BY <2>1, <2>2, <2>3
  <1> QED BY <1>1, <1>2, <1>3 DEF HistoryInv, HistoryAddsUp

LEMMA HistoryInitInv == HistoryInit => HistoryInv
  <1> SUFFICES ASSUME HistoryInit PROVE HistoryInv
    OBVIOUS
  <1>1. tables = NoRows /\ Flying = NoRows /\ retry = NoRows /\ pending = NoRows /\ memory = NoMemory /\ Excepted = {}
    BY DEF HistoryInit, Flying, Excepted
  <1>2. Sound(NoRows, NoRows, NoRows, NoRows, NoMemory, {})
    <2>1. \A p \in Pairs \ {} : Said(NoRows, p) + Said(NoRows, p) + Said(NoRows, p) + Said(NoRows, p) <= 1
      BY NoRowsFacts
    <2>2. IsMemory(NoMemory) /\ ~NoMemory.ready
      BY DEF IsMemory, NoMemory
    <2>3. Waiting(NoRows, NoRows, NoRows) = {}
      BY NoRowsFacts DEF Waiting
    <2>4. \A b \in {NoRows, NoRows, NoRows, NoRows} : Recorded(b, {})
      BY NoRowsFacts
    <2>5. {NoRows, NoRows, NoRows, NoRows} \subseteq BatchRec /\ {} \subseteq Pairs /\ Distinct(NoRows.dns)
      BY NoRowsFacts
    <2> QED BY <2>1, <2>2, <2>3, <2>4, <2>5 DEF Sound
  <1>3. HistoryAddsUp
    <2>1. ASSUME NEW n \in Names PROVE told[n] = 0 /\ gone[n] = 0 /\ Tally(NoRows.dns, n) = 0
      BY NoRowsFacts DEF HistoryInit
    <2> QED BY <1>1, <2>1 DEF HistoryAddsUp
  <1>4. Len(pending.ev) <= MaxPending
    <2>1. pending.ev = <<>>
      BY <1>1 DEF NoRows
    <2>2. Len(pending.ev) = 0 /\ MaxPending \in Nat
      BY <2>1, HistoryAssumption
    <2> QED BY <2>2
  <1>5. told \in [Names -> Int] /\ gone \in [Names -> Int] /\ seen \in Nat /\ FlightInv
    BY DEF HistoryInit, FlightInv
  <1> QED BY <1>1, <1>2, <1>3, <1>4, <1>5 DEF HistoryInv

\* Steps that touch nothing of what is recorded.
LEMMA HistoryStutters ==
  ASSUME HistoryInv, seen' \in Nat, UNCHANGED <<memory, pending, retry, flight, tables, told, gone, Excepted>>
  PROVE  HistoryInv'
  <1>1. Flying' = Flying
    BY DEF Flying
  <1> QED BY <1>1 DEF HistoryInv, FlightInv, HistoryAddsUp

LEMMA ObserveDnsInv ==
  ASSUME HistoryInv, NEW name \in Names, ObserveDns(name), seen' \in Nat, UNCHANGED <<retry, flight, tables, forgot>>
  PROVE  HistoryInv'
  <1>1. Flying' = Flying /\ memory' = memory /\ Excepted' = Excepted
    BY DEF Flying, ObserveDns, Excepted
  <1>2. told \in [Names -> Int] /\ gone \in [Names -> Int] /\ FlightInv /\ FlightInv'
    BY DEF HistoryInv, FlightInv
  <1>3. told' \in [Names -> Int] /\ \A n \in Names : told'[n] = told[n] + IF n = name THEN 1 ELSE 0
    BY <1>2 DEF ObserveDns
  <1>4. CASE Full(pending.dns, name)
    <2>1. pending' = pending /\ gone' = [gone EXCEPT ![name] = @ + 1]
      BY <1>4 DEF ObserveDns
    <2>2. gone' \in [Names -> Int] /\ \A n \in Names : gone'[n] = gone[n] + IF n = name THEN 1 ELSE 0
      BY <1>2, <2>1
    <2>3. Sound(tables', Flying', retry', pending', memory', Excepted')
      BY <1>1, <2>1, PlaceFacts
    <2>4. HistoryAddsUp'
      <3>1. SUFFICES ASSUME NEW n \in Names
                     PROVE  told'[n] = gone'[n] + Tally(tables.dns, n) + Tally(Flying.dns, n) + Tally(retry.dns, n) + Tally(pending.dns, n)
        BY <1>1, <2>1 DEF HistoryAddsUp
      <3> QED BY <1>3, <2>2, PlaceFacts
    <2> QED BY <1>2, <1>3, <2>1, <2>2, <2>3, <2>4 DEF HistoryInv
  <1>5. CASE ~Full(pending.dns, name)
    <2>1. PICK row \in RowsOf(Names) : row = [k |-> name, n |-> 1, at |-> seen']
      BY DEF RowsOf
    <2>2. gone' = gone /\ pending' = [pending EXCEPT !.dns = Merge(@, row)]
      BY <1>5, <2>1 DEF ObserveDns
    <2>3. /\ Sound(tables, Flying, retry, [pending EXCEPT !.dns = Merge(@, row)], memory, Excepted)
          /\ \A n : Tally(Merge(pending.dns, row), n) = Tally(pending.dns, n) + Amount(row, n)
      BY PlaceFacts, SoundCounts
    <2>4. pending'.dns = Merge(pending.dns, row) /\ pending'.ev = pending.ev
      BY <2>2, PlaceFacts DEF BatchRec
    <2>5. Sound(tables', Flying', retry', pending', memory', Excepted')
      BY <1>1, <2>2, <2>3
    <2>6. HistoryAddsUp'
      <3>1. SUFFICES ASSUME NEW n \in Names
                     PROVE  told'[n] = gone[n] + Tally(tables.dns, n) + Tally(Flying.dns, n) + Tally(retry.dns, n) + Tally(pending'.dns, n)
        BY <1>1, <2>2 DEF HistoryAddsUp
      <3>2. Tally(pending'.dns, n) = Tally(pending.dns, n) + IF n = name THEN 1 ELSE 0
        BY <2>1, <2>3, <2>4 DEF Amount
      <3>3. /\ told[n] \in Int /\ gone[n] \in Int /\ Tally(tables.dns, n) \in Int /\ Tally(Flying.dns, n) \in Int
            /\ Tally(retry.dns, n) \in Int /\ Tally(pending.dns, n) \in Int
            /\ told[n] = gone[n] + Tally(tables.dns, n) + Tally(Flying.dns, n) + Tally(retry.dns, n) + Tally(pending.dns, n)
        BY PlaceFacts
      <3>4. told'[n] = told[n] + IF n = name THEN 1 ELSE 0
        BY <1>3
      <3> QED BY <3>2, <3>3, <3>4
    <2>7. Len(pending'.ev) <= MaxPending
      BY <2>4 DEF HistoryInv
    <2> QED BY <1>2, <1>3, <2>2, <2>5, <2>6, <2>7 DEF HistoryInv
  <1> QED BY <1>4, <1>5

\* The memory an ARP observation works with.
LEMMA LoadsFacts ==
  ASSUME HistoryInv, NEW m \in LoadsTo, NEW lost,
         lost = Excepted \cup (IF memory.ready THEN {} ELSE Keys(tables.arp) \ m.pairs)
  PROVE  m.ready /\ IsMemory(m) /\ Sound(tables, Flying, retry, pending, m, lost)
  <1>1. Sound(tables, Flying, retry, pending, memory, Excepted) /\ IsMemory(memory)
    BY PlaceFacts DEF Sound
  <1>2. CASE memory.ready
    BY <1>1, <1>2 DEF LoadsTo
  <1>3. CASE ~memory.ready
    <2>1. m.ready /\ IsMemory(m)
      <3>1. CASE m = [NoMemory EXCEPT !.ready = TRUE]
        BY <3>1 DEF NoMemory, IsMemory
      <3>2. CASE m = Loaded
        <4>1. Loaded.pairs \subseteq Keys(tables.arp) /\ Loaded.ready /\ DOMAIN Loaded = {"ready", "pairs", "owner"}
          BY DEF Loaded, Keys
        <4>2. Keys(tables.arp) \subseteq Pairs
          BY PlaceFacts, BatchFacts
        <4> QED BY <3>2, <4>1, <4>2 DEF IsMemory, Loaded
      <3> QED BY <1>3, <3>1, <3>2 DEF LoadsTo
    <2> QED BY <1>1, <1>3, <2>1, SoundLoads
  <1> QED BY <1>2, <1>3

LEMMA ObserveArpInv ==
  ASSUME HistoryInv, NEW pair \in Pairs, NEW mismatch \in BOOLEAN, ObserveArp(pair, mismatch), seen' \in Nat,
         UNCHANGED <<retry, flight, tables, forgot>>
  PROVE  HistoryInv'
  <1>1. Flying' = Flying /\ told' = told /\ gone' = gone
    BY DEF Flying, ObserveArp
  <1>2. told \in [Names -> Int] /\ gone \in [Names -> Int] /\ FlightInv /\ FlightInv'
    BY DEF HistoryInv, FlightInv
  <1>3. PICK m \in LoadsTo :
          /\ Excepted' = Excepted \cup (IF memory.ready THEN {} ELSE Keys(tables.arp) \ m.pairs)
          /\ Full(pending.arp, pair) => memory' = m /\ pending' = pending
          /\ ~Full(pending.arp, pair) =>
               /\ pending' = [pending EXCEPT !.arp = Merge(@, [k |-> pair, n |-> 1, at |-> seen']),
                                             !.ev = Queued(@, Events(m, pair, mismatch))]
               /\ memory' = [m EXCEPT !.pairs = @ \cup {pair}, !.owner[pair[1]] = pair[2]]
    BY DEF ObserveArp, Excepted
  <1>4. m.ready /\ IsMemory(m) /\ Sound(tables, Flying, retry, pending, m, Excepted')
    BY <1>3, LoadsFacts
  <1>5. /\ Sound(tables, Flying, retry, pending', memory', Excepted')
        /\ Len(pending'.ev) <= MaxPending /\ pending'.dns = pending.dns
    <2>1. CASE Full(pending.arp, pair)
      BY <1>3, <1>4, <2>1 DEF HistoryInv
    <2>2. CASE ~Full(pending.arp, pair)
      <3>1. PICK row \in RowsOf(Pairs) : row = [k |-> pair, n |-> 1, at |-> seen']
        BY DEF RowsOf
      <3>2. PICK new \in Seq(EventRec) :
              /\ new = Events(m, pair, mismatch)
              /\ \A p : Len(Kept(new, News(p))) <= 1
              /\ \A p : p # pair \/ pair \in m.pairs => Len(Kept(new, News(p))) = 0
        <4>1. Events(m, pair, mismatch) \in Seq(EventRec)
          BY EventsFacts
        <4>2. ASSUME NEW p PROVE Len(Kept(Events(m, pair, mismatch), News(p))) <= 1
          BY EventsFacts
        <4>3. ASSUME NEW p, p # pair \/ pair \in m.pairs PROVE Len(Kept(Events(m, pair, mismatch), News(p))) = 0
          BY <4>3, EventsFacts
        <4> QED BY <4>1, <4>2, <4>3
      <3>3. PICK n : n = [m EXCEPT !.pairs = @ \cup {pair}, !.owner[pair[1]] = pair[2]]
        OBVIOUS
      <3>4. IsMemory(n) /\ n.ready /\ n.pairs = m.pairs \cup {pair}
        BY <1>4, <3>3 DEF IsMemory
      <3>5. row.k = pair /\ Len(pending.ev) <= MaxPending
        BY <3>1 DEF HistoryInv
      <3>6. PICK v : v = [pending EXCEPT !.arp = Merge(@, row), !.ev = Queued(@, new)]
        OBVIOUS
      <3>7. Sound(tables, Flying, retry, v, n, Excepted') /\ Len(v.ev) <= MaxPending /\ v.dns = pending.dns
        <4>1. /\ n.pairs = m.pairs \cup {row.k}
              /\ \A p : Len(Kept(new, News(p))) <= 1
              /\ \A p : p # row.k \/ row.k \in m.pairs => Len(Kept(new, News(p))) = 0
          BY <3>2, <3>4, <3>5
        <4>2. PICK t, f, r, w, lost : t = tables /\ f = Flying /\ r = retry /\ w = pending /\ lost = Excepted'
          OBVIOUS
        <4>3. Sound(t, f, r, w, m, lost) /\ v = [w EXCEPT !.arp = Merge(@, row), !.ev = Queued(@, new)]
          BY <1>4, <3>6, <4>2
        <4>4. m.ready /\ IsMemory(n) /\ n.ready /\ Len(w.ev) <= MaxPending
          BY <1>4, <3>4, <3>5, <4>2
        <4>5. Sound(t, f, r, v, n, lost)
          BY <4>1, <4>3, <4>4, SoundClaims
        <4>6. v.ev = Queued(pending.ev, new) /\ v.dns = pending.dns
          BY <3>6, PlaceFacts DEF BatchRec
        <4>7. pending.ev \in Seq(EventRec)
          BY PlaceFacts, BatchFacts
        <4>8. Len(Queued(pending.ev, new)) <= MaxPending
          BY <3>5, <4>7, QueuedFacts
        <4> QED BY <4>2, <4>5, <4>6, <4>8
      <3>8. pending' = v /\ memory' = n
        BY <1>3, <2>2, <3>1, <3>2, <3>3, <3>6
      <3> QED BY <3>7, <3>8
    <2> QED BY <2>1, <2>2
  <1>6. HistoryAddsUp'
    <2>1. HistoryAddsUp
      BY DEF HistoryInv
    <2> QED BY <1>1, <1>5, <2>1 DEF HistoryAddsUp
  <1> QED BY <1>1, <1>2, <1>5, <1>6 DEF HistoryInv

LEMMA ObserveInv == HistoryInv /\ Observe => HistoryInv'
  <1> SUFFICES ASSUME HistoryInv, Observe PROVE HistoryInv'
    OBVIOUS
  <1>1. seen' \in Nat /\ UNCHANGED <<retry, flight, tables, forgot>>
    BY DEF Observe, HistoryInv
  <1>2. ASSUME NEW n \in Names, ObserveDns(n) PROVE HistoryInv'
    BY <1>1, <1>2, ObserveDnsInv
  <1>3. ASSUME NEW p \in Pairs, NEW mismatch \in BOOLEAN, ObserveArp(p, mismatch) PROVE HistoryInv'
    BY <1>1, <1>3, ObserveArpInv
  <1>4. ASSUME UNCHANGED <<memory, quiet, pending, told, gone, unread>> PROVE HistoryInv'
    BY <1>1, <1>4, HistoryStutters DEF Excepted
  <1> QED BY <1>2, <1>3, <1>4 DEF Observe

LEMMA FlushStartsInv == HistoryInv /\ FlushStarts => HistoryInv'
  <1> SUFFICES ASSUME HistoryInv, FlushStarts PROVE HistoryInv'
    OBVIOUS
  <1>1. PICK b : b = [dns |-> retry.dns \o pending.dns, arp |-> retry.arp \o pending.arp, ev |-> retry.ev \o pending.ev]
    OBVIOUS
  <1>2. /\ flight = <<>> /\ flight' = <<b>> /\ pending' = NoRows /\ retry' = NoRows
        /\ UNCHANGED <<memory, tables, seen, told, gone, Excepted>>
    BY <1>1 DEF FlushStarts, Excepted
  <1>3. Flying = NoRows /\ Flying' = b
    BY <1>2 DEF Flying
  <1>4. /\ Sound(tables, b, NoRows, NoRows, memory, Excepted)
        /\ \A n : Tally(b.dns, n) = Tally(retry.dns, n) + Tally(pending.dns, n)
    <2>1. PICK t, r, w : t = tables /\ r = retry /\ w = pending
      OBVIOUS
    <2>2. Sound(t, NoRows, r, w, memory, Excepted) /\ b = [dns |-> r.dns \o w.dns, arp |-> r.arp \o w.arp, ev |-> r.ev \o w.ev]
      BY <1>1, <1>3, <2>1, PlaceFacts
    <2>3. Sound(t, b, NoRows, NoRows, memory, Excepted)
      BY <2>2, SoundStarts
    <2>4. ASSUME NEW n PROVE Tally(b.dns, n) = Tally(r.dns, n) + Tally(w.dns, n)
      <3>1. r.dns \in Seq(RowsOf(Names)) /\ w.dns \in Seq(RowsOf(Names)) /\ b.dns = r.dns \o w.dns
        BY <2>1, <2>2, PlaceFacts, BatchFacts
      <3> QED BY <3>1, TallyConcat
    <2> QED BY <2>1, <2>3, <2>4
  <1>5. b \in BatchRec
    BY <1>4 DEF Sound
  <1>6. HistoryAddsUp'
    <2>1. SUFFICES ASSUME NEW n \in Names
                   PROVE  told[n] = gone[n] + Tally(tables.dns, n) + Tally(b.dns, n) + Tally(NoRows.dns, n) + Tally(NoRows.dns, n)
      BY <1>2, <1>3 DEF HistoryAddsUp
    <2>2. Tally(NoRows.dns, n) = 0 /\ Tally(b.dns, n) = Tally(retry.dns, n) + Tally(pending.dns, n)
      BY <1>4, NoRowsFacts
    <2>3. /\ told[n] \in Int /\ gone[n] \in Int /\ Tally(tables.dns, n) \in Int
          /\ Tally(retry.dns, n) \in Int /\ Tally(pending.dns, n) \in Int
          /\ told[n] = gone[n] + Tally(tables.dns, n) + Tally(NoRows.dns, n) + Tally(retry.dns, n) + Tally(pending.dns, n)
      BY <1>3, PlaceFacts
    <2> QED BY <2>2, <2>3
  <1>7. Len(pending'.ev) <= MaxPending
    <2>1. Len(pending'.ev) = 0 /\ MaxPending \in Nat
      BY <1>2, HistoryAssumption DEF NoRows
    <2> QED BY <2>1
  <1>8. Sound(tables', Flying', retry', pending', memory', Excepted')
    BY <1>2, <1>3, <1>4
  <1>9. FlightInv'
    BY <1>2, <1>5 DEF FlightInv
  <1>10. told' \in [Names -> Int] /\ gone' \in [Names -> Int] /\ seen' \in Nat
    BY <1>2 DEF HistoryInv
  <1> QED BY <1>6, <1>7, <1>8, <1>9, <1>10 DEF HistoryInv

LEMMA FlushWritesInv == HistoryInv /\ FlushWrites => HistoryInv'
  <1> SUFFICES ASSUME HistoryInv, FlushWrites PROVE HistoryInv'
    OBVIOUS
  <1>1. /\ flight # <<>> /\ flight' = <<>> /\ tables' = Written(tables, flight[1])
        /\ UNCHANGED <<memory, pending, retry, seen, told, gone, Excepted>>
    BY DEF FlushWrites, Excepted
  <1>2. Flying = flight[1] /\ Flying' = NoRows
    BY <1>1 DEF Flying
  <1>3. PICK f : f = Flying
    OBVIOUS
  <1>4. /\ Sound(Written(tables, f), NoRows, retry, pending, memory, Excepted)
        /\ \A n : Tally(Written(tables, f).dns, n) = Tally(tables.dns, n) + Tally(f.dns, n)
    <2>1. Sound(tables, f, retry, pending, memory, Excepted)
      BY <1>3, PlaceFacts
    <2>2. ASSUME NEW n PROVE Tally(Written(tables, f).dns, n) = Tally(tables.dns, n) + Tally(f.dns, n)
      BY <2>1, SoundWrites
    <2>3. Sound(Written(tables, f), NoRows, retry, pending, memory, Excepted)
      BY <2>1, SoundWrites
    <2> QED BY <2>2, <2>3
  <1>5. tables' = Written(tables, f)
    BY <1>1, <1>2, <1>3
  <1>6. HistoryAddsUp'
    <2>1. SUFFICES ASSUME NEW n \in Names
                   PROVE  told[n] = gone[n] + Tally(tables'.dns, n) + Tally(NoRows.dns, n) + Tally(retry.dns, n) + Tally(pending.dns, n)
      BY <1>1, <1>2 DEF HistoryAddsUp
    <2>2. Tally(NoRows.dns, n) = 0 /\ Tally(tables'.dns, n) = Tally(tables.dns, n) + Tally(Flying.dns, n)
      BY <1>3, <1>4, <1>5, NoRowsFacts
    <2>3. /\ told[n] \in Int /\ gone[n] \in Int /\ Tally(tables.dns, n) \in Int /\ Tally(Flying.dns, n) \in Int
          /\ Tally(retry.dns, n) \in Int /\ Tally(pending.dns, n) \in Int
          /\ told[n] = gone[n] + Tally(tables.dns, n) + Tally(Flying.dns, n) + Tally(retry.dns, n) + Tally(pending.dns, n)
      BY PlaceFacts
    <2> QED BY <2>2, <2>3
  <1>7. Sound(tables', Flying', retry', pending', memory', Excepted')
    BY <1>1, <1>2, <1>4, <1>5
  <1>8. FlightInv' /\ told' \in [Names -> Int] /\ gone' \in [Names -> Int] /\ seen' \in Nat /\ Len(pending'.ev) <= MaxPending
    BY <1>1 DEF HistoryInv, FlightInv
  <1> QED BY <1>6, <1>7, <1>8 DEF HistoryInv

LEMMA FlushFailsInv == HistoryInv /\ FlushFails => HistoryInv'
  <1> SUFFICES ASSUME HistoryInv, FlushFails PROVE HistoryInv'
    OBVIOUS
  <1>1. PICK f : f = Flying
    OBVIOUS
  <1>2. /\ flight # <<>> /\ flight' = <<>> /\ f = flight[1] /\ Flying' = NoRows
        /\ UNCHANGED <<memory, pending, tables, seen, told>>
    BY <1>1 DEF FlushFails, Flying
  <1>3. PICK given : given = {f.arp[i].k : i \in 1..(Len(f.arp) - MaxPending * KeepFactor)}
    OBVIOUS
  <1>4. /\ retry' = Retained(f) /\ Excepted' = Excepted \cup given
        /\ gone' = [n \in Names |-> gone[n] + Tally(f.dns, n) - Tally(Retained(f).dns, n)]
    BY <1>2, <1>3 DEF FlushFails, Retained, Excepted
  <1>5. retry = NoRows
    BY <1>2 DEF HistoryInv, FlightInv
  <1>6. Sound(tables, NoRows, Retained(f), pending, memory, Excepted \cup given)
    <2>1. Sound(tables, f, NoRows, pending, memory, Excepted)
      BY <1>1, <1>5, PlaceFacts
    <2> QED BY <1>3, <2>1, SoundFails
  <1>7. Retained(f) \in BatchRec
    BY <1>6 DEF Sound
  <1>8. \A n : Tally(Retained(f).dns, n) \in Int
    BY <1>7, BatchFacts
  <1>9. ASSUME NEW n \in Names
        PROVE  /\ gone[n] + Tally(f.dns, n) - Tally(Retained(f).dns, n) \in Int
               /\ told'[n] = gone'[n] + Tally(tables'.dns, n) + Tally(Flying'.dns, n) + Tally(retry'.dns, n) + Tally(pending'.dns, n)
    <2>1. /\ told[n] \in Int /\ gone[n] \in Int /\ Tally(tables.dns, n) \in Int /\ Tally(f.dns, n) \in Int
          /\ Tally(NoRows.dns, n) = 0 /\ Tally(pending.dns, n) \in Int
          /\ told[n] = gone[n] + Tally(tables.dns, n) + Tally(f.dns, n) + Tally(NoRows.dns, n) + Tally(pending.dns, n)
      BY <1>1, <1>5, PlaceFacts, NoRowsFacts
    <2>2. Tally(Retained(f).dns, n) \in Int
      BY <1>8
    <2>3. gone'[n] = gone[n] + Tally(f.dns, n) - Tally(Retained(f).dns, n)
      BY <1>4
    <2>4. told[n] = gone'[n] + Tally(tables.dns, n) + Tally(NoRows.dns, n) + Tally(Retained(f).dns, n) + Tally(pending.dns, n)
      BY <2>1, <2>2, <2>3
    <2> QED BY <1>2, <1>4, <2>1, <2>2, <2>4
  <1>10. HistoryAddsUp' /\ gone' \in [Names -> Int]
    BY <1>4, <1>9 DEF HistoryAddsUp
  <1>11. Sound(tables', Flying', retry', pending', memory', Excepted')
    BY <1>2, <1>4, <1>6
  <1>12. FlightInv' /\ told' \in [Names -> Int] /\ seen' \in Nat /\ Len(pending'.ev) <= MaxPending
    BY <1>2 DEF HistoryInv, FlightInv
  <1> QED BY <1>10, <1>11, <1>12 DEF HistoryInv

\* The tables keep some of their rows.
LEMMA KeepsInv ==
  ASSUME HistoryInv, NEW dns \in Seq(RowsOf(Names)), NEW arp \in Seq(RowsOf(Pairs)), NEW ev \in Seq(EventRec),
         Distinct(dns), Keys(arp) \subseteq Keys(tables.arp),
         \A S : Len(Kept(ev, S)) <= Len(Kept(tables.ev, S)), Keeps(dns, arp, ev)
  PROVE  HistoryInv'
  <1>1. PICK u \in BatchRec : u = [dns |-> dns, arp |-> arp, ev |-> ev]
    BY DEF BatchRec
  <1>2. /\ tables' = u /\ Excepted' = Excepted \cup (Keys(tables.arp) \ Keys(u.arp))
        /\ gone' = [n \in Names |-> gone[n] + Tally(tables.dns, n) - Tally(u.dns, n)]
        /\ UNCHANGED <<memory, pending, retry, flight, seen, told>>
    BY <1>1 DEF Keeps, Excepted
  <1>3. Flying' = Flying
    BY <1>2 DEF Flying
  <1>4. Distinct(u.dns) /\ Keys(u.arp) \subseteq Keys(tables.arp) /\ \A p : Said(u, p) <= Said(tables, p)
    BY <1>1 DEF Said
  <1>5. Sound(u, Flying, retry, pending, memory, Excepted \cup (Keys(tables.arp) \ Keys(u.arp)))
    BY <1>4, PlaceFacts, SoundKeeps
  <1>6. ASSUME NEW n \in Names
        PROVE  /\ gone[n] + Tally(tables.dns, n) - Tally(u.dns, n) \in Int
               /\ told[n] = gone'[n] + Tally(u.dns, n) + Tally(Flying.dns, n) + Tally(retry.dns, n) + Tally(pending.dns, n)
    <2>1. /\ told[n] \in Int /\ gone[n] \in Int /\ Tally(tables.dns, n) \in Int /\ Tally(Flying.dns, n) \in Int
          /\ Tally(retry.dns, n) \in Int /\ Tally(pending.dns, n) \in Int
          /\ told[n] = gone[n] + Tally(tables.dns, n) + Tally(Flying.dns, n) + Tally(retry.dns, n) + Tally(pending.dns, n)
      BY PlaceFacts
    <2>2. Tally(u.dns, n) \in Int
      BY BatchFacts
    <2>3. gone'[n] = gone[n] + Tally(tables.dns, n) - Tally(u.dns, n)
      BY <1>2
    <2> QED BY <2>1, <2>2, <2>3
  <1>7. HistoryAddsUp' /\ gone' \in [Names -> Int]
    BY <1>2, <1>3, <1>6 DEF HistoryAddsUp
  <1>8. Sound(tables', Flying', retry', pending', memory', Excepted')
    BY <1>2, <1>3, <1>5
  <1>9. FlightInv' /\ told' \in [Names -> Int] /\ seen' \in Nat /\ Len(pending'.ev) <= MaxPending
    BY <1>2 DEF HistoryInv, FlightInv
  <1> QED BY <1>7, <1>8, <1>9 DEF HistoryInv

LEMMA PruneHistoryInv == HistoryInv /\ Prune => HistoryInv'
  <1> SUFFICES ASSUME HistoryInv, Prune PROVE HistoryInv'
    OBVIOUS
  <1>1. PICK cutoff \in 0..seen :
          Keeps(Pruned(tables.dns, cutoff), Pruned(tables.arp, cutoff), Lasts(Since(tables.ev, cutoff), MaxRows))
    BY DEF Prune
  <1>2. /\ tables.dns \in Seq(RowsOf(Names)) /\ tables.arp \in Seq(RowsOf(Pairs)) /\ tables.ev \in Seq(EventRec)
        /\ Distinct(tables.dns)
    BY PlaceFacts, BatchFacts DEF Sound
  <1>3. Pruned(tables.dns, cutoff) \in Seq(RowsOf(Names)) /\ Distinct(Pruned(tables.dns, cutoff))
    BY <1>2, PrunedFacts
  <1>4. Pruned(tables.arp, cutoff) \in Seq(RowsOf(Pairs)) /\ Keys(Pruned(tables.arp, cutoff)) \subseteq Keys(tables.arp)
    BY <1>2, PrunedFacts
  <1>5. MaxRows \in Nat
    BY HistoryAssumption
  <1>6. PICK ev \in Seq(EventRec) : ev = tables.ev
    BY <1>2
  <1>7. PICK T : Since(ev, cutoff) = Kept(ev, T)
    BY DEF Since
  <1>8. PICK young \in Seq(EventRec) : young = Kept(ev, T)
    BY KeptFacts
  <1>9. Lasts(young, MaxRows) \in Seq(EventRec) /\ \A S : Len(Kept(Lasts(young, MaxRows), S)) <= Len(Kept(young, S))
    BY <1>5, LastsFacts
  <1>10. ASSUME NEW S PROVE Len(Kept(Lasts(young, MaxRows), S)) <= Len(Kept(ev, S))
    <2>1. Kept(young, S) = Kept(ev, S \cap T)
      <3>1. \A k \in DOMAIN young : young[k] \in T
        BY <1>8, KeptFacts
      <3>2. Kept(young, S) = Kept(young, S \cap T)
        BY <3>1, KeptAgree
      <3>3. Kept(Kept(ev, T), S \cap T) = Kept(ev, S \cap T)
        BY KeptTwice
      <3> QED BY <1>8, <3>2, <3>3
    <2>2. Len(Kept(ev, S \cap T)) <= Len(Kept(ev, S))
      BY KeptSizes
    <2>3. Kept(ev, S) \in Seq(EventRec) /\ Kept(young, S) \in Seq(EventRec) /\ Kept(Lasts(young, MaxRows), S) \in Seq(EventRec)
      BY <1>9, KeptFacts
    <2>4. Len(Kept(ev, S)) \in Nat /\ Len(Kept(young, S)) \in Nat /\ Len(Kept(Lasts(young, MaxRows), S)) \in Nat
      BY <2>3, LenProperties
    <2>5. Len(Kept(Lasts(young, MaxRows), S)) <= Len(Kept(young, S))
      BY <1>9
    <2> QED BY <1>8, <2>1, <2>2, <2>4, <2>5
  <1>11. Since(tables.ev, cutoff) = young
    BY <1>6, <1>7, <1>8
  <1> QED BY <1>1, <1>3, <1>4, <1>6, <1>9, <1>10, <1>11, KeepsInv

LEMMA ClearInv ==
  ASSUME HistoryInv, NEW scope, Clear(scope) PROVE HistoryInv'
  <1>1. PICK dns, arp, ev :
          /\ Keeps(dns, arp, ev)
          /\ dns = tables.dns \/ dns = <<>>
          /\ arp = tables.arp \/ arp = <<>>
          /\ ev = tables.ev \/ ev = <<>>
    BY DEF Clear
  <1>2. /\ tables.dns \in Seq(RowsOf(Names)) /\ tables.arp \in Seq(RowsOf(Pairs)) /\ tables.ev \in Seq(EventRec)
        /\ Distinct(tables.dns)
    BY PlaceFacts, BatchFacts DEF Sound
  <1>3. <<>> \in Seq(RowsOf(Names)) /\ <<>> \in Seq(RowsOf(Pairs)) /\ <<>> \in Seq(EventRec)
    BY EmptySeq
  <1>4. Distinct(<<>>) /\ Keys(<<>>) = {}
    BY DEF Distinct, Keys
  <1>5. dns \in Seq(RowsOf(Names)) /\ arp \in Seq(RowsOf(Pairs)) /\ ev \in Seq(EventRec)
    BY <1>1, <1>2, <1>3
  <1>6. Distinct(dns) /\ Keys(arp) \subseteq Keys(tables.arp)
    BY <1>1, <1>2, <1>4
  <1>7. ASSUME NEW S PROVE Len(Kept(ev, S)) <= Len(Kept(tables.ev, S))
    <2>1. Len(Kept(tables.ev, S)) \in Nat
      BY <1>2, KeptSizes
    <2>2. CASE ev = <<>>
      <3>1. Kept(ev, S) = <<>>
        <4>1. \A k \in DOMAIN ev : ev[k] \notin S
          BY <2>2
        <4> QED BY <1>5, <4>1, KeptSizes
      <3>2. Len(Kept(ev, S)) = 0
        BY <3>1
      <3> QED BY <2>1, <3>2
    <2>3. CASE ev = tables.ev
      BY <2>1, <2>3
    <2> QED BY <1>1, <2>2, <2>3
  <1> QED BY <1>1, <1>5, <1>6, <1>7, KeepsInv

LEMMA RestartInv == HistoryInv /\ Restart => HistoryInv'
  <1> SUFFICES ASSUME HistoryInv, Restart PROVE HistoryInv'
    OBVIOUS
  <1>1. /\ gone' = [n \in Names |-> gone[n] + Tally(Flying.dns, n) + Tally(retry.dns, n) + Tally(pending.dns, n)]
        /\ memory' = NoMemory /\ pending' = NoRows /\ retry' = NoRows /\ flight' = <<>>
        /\ UNCHANGED <<tables, seen, told, Excepted>>
    BY DEF Restart, Excepted
  <1>2. Flying' = NoRows
    BY <1>1 DEF Flying
  <1>3. Sound(tables, NoRows, NoRows, NoRows, NoMemory, Excepted)
    BY PlaceFacts, SoundRestarts
  <1>4. ASSUME NEW n \in Names
        PROVE  /\ gone[n] + Tally(Flying.dns, n) + Tally(retry.dns, n) + Tally(pending.dns, n) \in Int
               /\ told[n] = gone'[n] + Tally(tables.dns, n) + Tally(NoRows.dns, n) + Tally(NoRows.dns, n) + Tally(NoRows.dns, n)
    <2>1. /\ told[n] \in Int /\ gone[n] \in Int /\ Tally(tables.dns, n) \in Int /\ Tally(Flying.dns, n) \in Int
          /\ Tally(retry.dns, n) \in Int /\ Tally(pending.dns, n) \in Int
          /\ told[n] = gone[n] + Tally(tables.dns, n) + Tally(Flying.dns, n) + Tally(retry.dns, n) + Tally(pending.dns, n)
      BY PlaceFacts
    <2>2. Tally(NoRows.dns, n) = 0
      BY NoRowsFacts
    <2>3. gone'[n] = gone[n] + Tally(Flying.dns, n) + Tally(retry.dns, n) + Tally(pending.dns, n)
      BY <1>1
    <2> QED BY <2>1, <2>2, <2>3
  <1>5. HistoryAddsUp' /\ gone' \in [Names -> Int]
    BY <1>1, <1>2, <1>4 DEF HistoryAddsUp
  <1>6. Sound(tables', Flying', retry', pending', memory', Excepted')
    BY <1>1, <1>2, <1>3
  <1>7. Len(pending'.ev) <= MaxPending
    <2>1. Len(pending'.ev) = 0 /\ MaxPending \in Nat
      BY <1>1, HistoryAssumption DEF NoRows
    <2> QED BY <2>1
  <1>8. FlightInv' /\ told' \in [Names -> Int] /\ seen' \in Nat
    BY <1>1 DEF HistoryInv, FlightInv
  <1> QED BY <1>5, <1>6, <1>7, <1>8 DEF HistoryInv

-----------------------------------------------------------------------------
(* History: the theorems. *)

LEMMA HistoryStep == HistoryInv /\ [HistoryNext]_historyVars => HistoryInv'
  <1> SUFFICES ASSUME HistoryInv, [HistoryNext]_historyVars PROVE HistoryInv'
    OBVIOUS
  <1>1. seen \in Nat
    BY DEF HistoryInv
  <1>2. CASE Observe
    BY <1>2, ObserveInv
  <1>3. CASE IntervalPasses
    BY <1>1, <1>3, HistoryStutters DEF IntervalPasses, Excepted
  <1>4. CASE FlushStarts
    BY <1>4, FlushStartsInv
  <1>5. CASE FlushWrites
    BY <1>5, FlushWritesInv
  <1>6. CASE FlushFails
    BY <1>6, FlushFailsInv
  <1>7. CASE Prune
    BY <1>7, PruneHistoryInv
  <1>8. ASSUME NEW scope \in {{"dns"}, {"arp"}, Kinds}, Clear(scope) PROVE HistoryInv'
    BY <1>8, ClearInv
  <1>9. CASE SetHistoryConfig
    BY <1>1, <1>9, HistoryStutters DEF SetHistoryConfig, Excepted
  <1>10. CASE Restart
    BY <1>10, RestartInv
  <1>11. CASE UNCHANGED historyVars
    BY <1>1, <1>11, HistoryStutters DEF historyVars, Excepted
  <1> QED BY <1>2, <1>3, <1>4, <1>5, <1>6, <1>7, <1>8, <1>9, <1>10, <1>11 DEF HistoryNext

\* What the tables, the running flush, the rows kept for a retry and the pending ones have fits what the recorder
\* remembers, what it gave up and what it did not load, through every observation, flush, failure, prune, deletion and restart.
THEOREM HistoryInductive == HistorySpec => []HistoryInv
  <1>1. HistoryInit => HistoryInv
    BY HistoryInitInv
  <1>2. HistoryInv /\ [HistoryNext]_historyVars => HistoryInv'
    BY HistoryStep
  <1> QED BY <1>1, <1>2, PTL DEF HistorySpec

\* A binding is announced as new at most once while its record is kept and as long as the recorder read it when it
\* started; every DNS observation taken is in one place, once, or left it over a bound, by a deletion or a prune, or
\* with the process (HistoryIsTrue: history_recorder.py's flush and _load_arp_state, history_store.py's
\* write_history and prune_history).
THEOREM HistoryIsTrueCorrect == HistorySpec => []HistoryIsTrue
  <1>1. HistoryInv => HistoryIsTrue
    <2> SUFFICES ASSUME HistoryInv PROVE AnnouncedOnce
      BY DEF HistoryInv, HistoryIsTrue
    <2>1. SUFFICES ASSUME NEW p \in Pairs \ Excepted PROVE Len(Kept(Everywhere, News(p))) <= 1
      BY DEF AnnouncedOnce, Excepted
    <2>2. PICK a \in Seq(EventRec), b \in Seq(EventRec), c \in Seq(EventRec), d \in Seq(EventRec) :
            a = tables.ev /\ b = Flying.ev /\ c = retry.ev /\ d = pending.ev
      BY PlaceFacts, BatchFacts
    <2>3. a \o b \in Seq(EventRec) /\ a \o b \o c \in Seq(EventRec)
      BY ConcatProperties
    <2>4. Len(Kept(a \o b, News(p))) = Len(Kept(a, News(p))) + Len(Kept(b, News(p)))
      BY KeptCounts
    <2>5. Len(Kept(a \o b \o c, News(p))) = Len(Kept(a \o b, News(p))) + Len(Kept(c, News(p)))
      BY <2>3, KeptCounts
    <2>6. Len(Kept(a \o b \o c \o d, News(p))) = Len(Kept(a \o b \o c, News(p))) + Len(Kept(d, News(p)))
      BY <2>3, KeptCounts
    <2>7. Said(tables, p) + Said(Flying, p) + Said(retry, p) + Said(pending, p) <= 1
      BY PlaceFacts DEF Sound
    <2> QED BY <2>2, <2>4, <2>5, <2>6, <2>7 DEF Said, Everywhere
  <1> QED BY <1>1, HistoryInductive, PTL
=============================================================================
