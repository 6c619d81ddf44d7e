----------------------------- MODULE ListProofs -----------------------------
(***************************************************************************)
(* Lists: what Kept leaves of one, for any list and any set, and what      *)
(* appending, dropping and joining do to the elements.                     *)
(*                                                                         *)
(* Kept is recursive, so these are proofs by induction.  The induction     *)
(* principle is stated for a set of numbers instead of a predicate, which  *)
(* makes it usable by every prover; it comes from the well-foundedness of  *)
(* the order on the numbers.                                               *)
(***************************************************************************)
EXTENDS Lists, Integers, SequenceTheorems, FiniteSetTheorems,
        WellFoundedInduction, TLAPS

\* A set of numbers has a least one.
LEMMA LeastNumber ==
  ASSUME NEW T \in SUBSET Nat, T # {}
  PROVE  \E x \in T : \A y \in T : x <= y
  <1>1. IsWellFoundedOn(OpToRel(<,Nat), Nat)
    BY NatLessThanWellFounded
  <1>2. \E x \in T : \A y \in T : ~ (<<y, x>> \in OpToRel(<,Nat))
    BY <1>1, WFMin
  <1>3. PICK x \in T :
          \A y \in T : ~ (<<y, x>> \in {ss \in Nat \X Nat : ss[1] < ss[2]})
    BY <1>2 DEF OpToRel
  <1>4. ASSUME NEW y \in T PROVE x <= y
    <2>1. x \in Nat /\ y \in Nat
      OBVIOUS
    <2>2. ~ (y < x)
      BY <1>3, <2>1
    <2> QED BY <2>1, <2>2
  <1> QED BY <1>4

\* Induction over the numbers, for a set of them.
LEMMA SetInduction ==
  ASSUME NEW T \in SUBSET Nat, 0 \in T, \A n \in T : n + 1 \in T
  PROVE  T = Nat
  <1>1. SUFFICES ASSUME Nat \ T # {} PROVE FALSE
    OBVIOUS
  <1>2. PICK x \in Nat \ T : \A y \in Nat \ T : x <= y
    BY <1>1, LeastNumber
  <1>3. x # 0 /\ x - 1 \in T /\ x - 1 + 1 = x
    BY <1>2
  <1> QED BY <1>2, <1>3

\* A finite set of numbers has a greatest one.
LEMMA GreatestNumber ==
  ASSUME NEW S \in SUBSET Nat, IsFiniteSet(S), S # {}
  PROVE  \E x \in S : \A y \in S : x >= y
  <1>1. PICK n \in Nat : ExistsBijection(1..n, S)
    BY FS_NatBijection
  <1>2. PICK f \in [1..n -> S] : \A y \in S : \E i \in 1..n : f[i] = y
    BY <1>1 DEF ExistsBijection, Bijection, Surjection, Injection
  <1> DEFINE T == {k \in Nat : \E m \in Nat : \A i \in 1..n : i <= k => f[i] <= m}
  <1>3. 0 \in T
    OBVIOUS
  <1>4. ASSUME NEW k \in T PROVE k + 1 \in T
    <2>1. PICK m \in Nat : \A i \in 1..n : i <= k => f[i] <= m
      OBVIOUS
    <2>2. CASE k + 1 \notin 1..n
      <3>1. ASSUME NEW i \in 1..n, i <= k + 1 PROVE f[i] <= m
        <4>1. i # k + 1 /\ k \in Nat /\ i \in Nat
          BY <2>2
        <4>2. i <= k
          BY <3>1, <4>1
        <4> QED BY <2>1, <4>2
      <3> QED BY <3>1
    <2>3. CASE k + 1 \in 1..n
      <3>1. f[k + 1] \in Nat
        BY <2>3
      <3>2. PICK b \in Nat : b >= m /\ b >= f[k + 1]
        BY <3>1
      <3>3. ASSUME NEW i \in 1..n, i <= k + 1 PROVE f[i] <= b
        <4>1. f[i] \in Nat
          OBVIOUS
        <4>2. CASE i = k + 1
          BY <3>2, <4>2
        <4>3. CASE i <= k
          BY <2>1, <3>2, <4>1, <4>3
        <4> QED BY <3>3, <4>2, <4>3
      <3> QED BY <3>3
    <2> QED BY <2>2, <2>3
  <1>5. n \in T
    <2>1. T \in SUBSET Nat
      OBVIOUS
    <2> HIDE DEF T
    <2>2. T = Nat
      BY <1>3, <1>4, <2>1, SetInduction
    <2> QED BY <2>2
  <1>6. PICK m \in Nat : \A y \in S : y <= m
    <2>1. PICK m \in Nat : \A i \in 1..n : i <= n => f[i] <= m
      BY <1>5
    <2>2. \A i \in 1..n : f[i] <= m
      BY <2>1
    <2> QED BY <1>2, <2>2
  <1> HIDE DEF T
  <1> DEFINE D == {d \in Nat : \E x \in S : d = m - x}
  <1>7. D \in SUBSET Nat /\ D # {}
    <2>1. PICK x \in S : TRUE
      OBVIOUS
    <2>2. m - x \in Nat
      BY <1>6
    <2> QED BY <2>2
  <1>8. PICK d \in D : \A e \in D : d <= e
    <2> HIDE DEF D
    <2> QED BY <1>7, LeastNumber
  <1>9. PICK x \in S : d = m - x
    OBVIOUS
  <1>10. ASSUME NEW y \in S PROVE x >= y
    <2>1. m - y \in D
      BY <1>6
    <2>2. m - x <= m - y /\ x \in Nat /\ y \in Nat
      BY <1>8, <1>9, <2>1
    <2> QED BY <2>2
  <1> QED BY <1>10

\* One step of the recursion, on the function g made so far.
KeptAt(g, s, S, n) ==
  IF n = 0 THEN <<>>
  ELSE IF s[n] \in S THEN Append(g[n - 1], s[n]) ELSE g[n - 1]

\* There is a function as the recursion describes it.
LEMMA KeptExists ==
  ASSUME NEW s, NEW S, NEW m \in Nat
  PROVE  \E g : g = [n \in 0..m |-> KeptAt(g, s, S, n)]
  <1> DEFINE P(k) == \E g : g = [n \in 0..k |-> KeptAt(g, s, S, n)]
             T == {k \in Nat : P(k)}
  <1>1. P(0)
    <2>1. [n \in 0..0 |-> <<>>] =
            [n \in 0..0 |-> KeptAt([i \in 0..0 |-> <<>>], s, S, n)]
      BY DEF KeptAt
    <2> QED BY <2>1
  <1>2. ASSUME NEW k \in Nat, P(k) PROVE P(k + 1)
    <2>1. PICK g : g = [n \in 0..k |-> KeptAt(g, s, S, n)]
      BY <1>2
    <2> DEFINE h == [n \in 0..(k + 1) |->
                       IF n <= k THEN g[n] ELSE KeptAt(g, s, S, k + 1)]
    <2>2. ASSUME NEW n \in 0..(k + 1) PROVE h[n] = KeptAt(h, s, S, n)
      <3>1. \A i \in 0..k : h[i] = g[i]
        OBVIOUS
      <3>2. n # 0 => n - 1 \in 0..k
        OBVIOUS
      <3>3. KeptAt(g, s, S, n) = KeptAt(h, s, S, n)
        BY <3>1, <3>2 DEF KeptAt
      <3>4. h[n] = KeptAt(g, s, S, n)
        <4>1. CASE n <= k
          BY <4>1, <2>1
        <4>2. CASE n = k + 1
          BY <4>2
        <4> QED BY <4>1, <4>2
      <3> QED BY <3>3, <3>4
    <2>3. h = [n \in 0..(k + 1) |-> KeptAt(h, s, S, n)]
      BY <2>2
    <2> HIDE DEF h
    <2> QED BY <2>3
  <1> HIDE DEF P
  <1>3. T = Nat
    <2>1. T \in SUBSET Nat /\ 0 \in T
      BY <1>1
    <2>2. \A n \in T : n + 1 \in T
      BY <1>2
    <2> HIDE DEF T
    <2> QED BY <2>1, <2>2, SetInduction
  <1>4. P(m)
    BY <1>3
  <1> QED BY <1>4 DEF P

\* Kept is the last value of such a function.
LEMMA KeptDef ==
  ASSUME NEW s, NEW S, Len(s) \in Nat
  PROVE  \E g : /\ g = [n \in 0..Len(s) |-> KeptAt(g, s, S, n)]
                /\ Kept(s, S) = g[Len(s)]
  <1> DEFINE kept == CHOOSE g : g = [n \in 0..Len(s) |-> KeptAt(g, s, S, n)]
  <1>1. kept = [n \in 0..Len(s) |-> KeptAt(kept, s, S, n)]
    BY KeptExists
  <1>2. Kept(s, S) = kept[Len(s)]
    BY DEF Kept, KeptAt
  <1> QED BY <1>1, <1>2

\* g goes through s item by item, and ends with what is kept of it.
Collects(g, s, S) ==
  /\ g[0] = <<>> /\ g[Len(s)] = Kept(s, S)
  /\ \A n \in 0..(Len(s) - 1) :
       /\ s[n + 1] \in S => g[n + 1] = Append(g[n], s[n + 1])
       /\ s[n + 1] \notin S => g[n + 1] = g[n]

\* The definition of Kept, item by item.
LEMMA KeptSteps ==
  ASSUME NEW s, NEW S, Len(s) \in Nat PROVE \E g : Collects(g, s, S)
  <1>1. PICK g : /\ g = [n \in 0..Len(s) |-> KeptAt(g, s, S, n)]
                 /\ Kept(s, S) = g[Len(s)]
    BY KeptDef
  <1>2. ASSUME NEW n \in 0..Len(s) PROVE g[n] = KeptAt(g, s, S, n)
    BY <1>1
  <1>3. g[0] = <<>>
    BY <1>2 DEF KeptAt
  <1>4. ASSUME NEW n \in 0..(Len(s) - 1)
        PROVE  g[n + 1] = IF s[n + 1] \in S THEN Append(g[n], s[n + 1]) ELSE g[n]
    <2>1. n + 1 \in 0..Len(s) /\ n + 1 # 0 /\ (n + 1) - 1 = n
      OBVIOUS
    <2> QED BY <1>2, <2>1 DEF KeptAt
  <1> QED BY <1>1, <1>3, <1>4 DEF Collects

\* q is what is kept of the first n items of s.
KeptOf(q, n, s, S) ==
  /\ Len(q) <= n
  /\ \A i \in 1..Len(q) : q[i] \in S /\ \E k \in 1..n : q[i] = s[k]
  /\ \A k \in 1..n : s[k] \in S => \E i \in 1..Len(q) : q[i] = s[k]

\* What is kept are items of s that are in S, all of them and no others.
LEMMA KeptFacts ==
  ASSUME NEW A, NEW s \in Seq(A), NEW S
  PROVE  /\ Kept(s, S) \in Seq(A) /\ Len(Kept(s, S)) <= Len(s)
         /\ \A i \in DOMAIN Kept(s, S) :
              Kept(s, S)[i] \in S /\ \E k \in DOMAIN s : Kept(s, S)[i] = s[k]
         /\ \A k \in DOMAIN s :
              s[k] \in S => \E i \in DOMAIN Kept(s, S) : Kept(s, S)[i] = s[k]
  <1>1. /\ Len(s) \in Nat /\ DOMAIN s = 1..Len(s)
        /\ \A k \in 1..Len(s) : s[k] \in A
    BY LenProperties, ElementOfSeq
  <1>2. PICK g : Collects(g, s, S)
    BY <1>1, KeptSteps
  <1> DEFINE P(n) == n <= Len(s) => g[n] \in Seq(A) /\ KeptOf(g[n], n, s, S)
             T == {n \in Nat : P(n)}
  <1>3. P(0)
    BY <1>2 DEF Collects, KeptOf
  <1>4. ASSUME NEW n \in Nat, n + 1 <= Len(s), NEW q \in Seq(A),
               KeptOf(q, n, s, S)
        PROVE  /\ s[n + 1] \notin S => KeptOf(q, n + 1, s, S)
               /\ s[n + 1] \in S =>
                    /\ Append(q, s[n + 1]) \in Seq(A)
                    /\ KeptOf(Append(q, s[n + 1]), n + 1, s, S)
    <2>1. n + 1 \in 1..Len(s) /\ s[n + 1] \in A /\ Len(q) \in Nat
      BY <1>1, <1>4, LenProperties
    <2>2. CASE s[n + 1] \notin S
      BY <1>4, <2>1, <2>2 DEF KeptOf
    <2>3. CASE s[n + 1] \in S
      <3> DEFINE r == Append(q, s[n + 1])
      <3>1. /\ r \in Seq(A) /\ Len(r) = Len(q) + 1
            /\ \A i \in 1..Len(q) : r[i] = q[i]
            /\ r[Len(q) + 1] = s[n + 1]
        BY <2>1, AppendProperties
      <3> HIDE DEF r
      <3>2. KeptOf(r, n + 1, s, S)
        <4>1. Len(r) <= n + 1
          BY <1>4, <2>1, <3>1 DEF KeptOf
        <4>2. ASSUME NEW i \in 1..Len(r)
              PROVE  r[i] \in S /\ \E k \in 1..(n + 1) : r[i] = s[k]
          <5>1. CASE i = Len(q) + 1
            BY <2>1, <2>3, <3>1, <5>1
          <5>2. CASE i # Len(q) + 1
            <6>1. i \in 1..Len(q) /\ r[i] = q[i]
              BY <2>1, <3>1, <5>2
            <6> QED BY <1>4, <6>1 DEF KeptOf
          <5> QED BY <5>1, <5>2
        <4>3. ASSUME NEW k \in 1..(n + 1), s[k] \in S
              PROVE  \E i \in 1..Len(r) : r[i] = s[k]
          <5>1. CASE k = n + 1
            BY <2>1, <3>1, <5>1
          <5>2. CASE k # n + 1
            <6>1. PICK i \in 1..Len(q) : q[i] = s[k]
              BY <1>4, <4>3, <5>2 DEF KeptOf
            <6>2. i \in 1..Len(r) /\ r[i] = s[k]
              BY <2>1, <3>1, <6>1
            <6> QED BY <6>2
          <5> QED BY <5>1, <5>2
        <4> QED BY <4>1, <4>2, <4>3 DEF KeptOf
      <3> QED BY <2>3, <3>1, <3>2 DEF r
    <2> QED BY <2>2, <2>3
  <1>5. ASSUME NEW n \in Nat, P(n) PROVE P(n + 1)
    <2>1. SUFFICES ASSUME n + 1 <= Len(s)
                   PROVE  g[n + 1] \in Seq(A) /\ KeptOf(g[n + 1], n + 1, s, S)
      OBVIOUS
    <2>2. /\ n \in 0..(Len(s) - 1) /\ n <= Len(s)
          /\ g[n] \in Seq(A) /\ KeptOf(g[n], n, s, S)
      BY <1>1, <1>5, <2>1
    <2> QED BY <1>2, <1>4, <2>1, <2>2 DEF Collects
  <1> HIDE DEF P
  <1>6. T = Nat
    <2>1. T \in SUBSET Nat /\ 0 \in T
      BY <1>3
    <2>2. \A n \in T : n + 1 \in T
      BY <1>5
    <2> HIDE DEF T
    <2> QED BY <2>1, <2>2, SetInduction
  <1>7. P(Len(s))
    BY <1>1, <1>6
  <1>8. Kept(s, S) \in Seq(A) /\ KeptOf(Kept(s, S), Len(s), s, S)
    BY <1>1, <1>2, <1>7 DEF P, Collects
  <1>9. DOMAIN Kept(s, S) = 1..Len(Kept(s, S))
    BY <1>8, LenProperties
  <1> QED BY <1>1, <1>8, <1>9 DEF KeptOf

\* What is kept of the first items does not depend on those that come later, nor
\* on what the set says of values that are not among them.
LEMMA CollectsAgree ==
  ASSUME NEW s, NEW t, NEW S, NEW T, NEW g, NEW h,
         Len(s) \in Nat, Len(t) \in Nat, Len(s) <= Len(t),
         \A k \in 1..Len(s) : s[k] = t[k] /\ (s[k] \in S <=> s[k] \in T),
         Collects(g, s, S), Collects(h, t, T)
  PROVE  g[Len(s)] = h[Len(s)]
  <1> DEFINE P(n) == n <= Len(s) => g[n] = h[n]
             U == {n \in Nat : P(n)}
  <1>1. P(0)
    BY DEF Collects
  <1>2. ASSUME NEW n \in Nat, P(n) PROVE P(n + 1)
    <2>1. SUFFICES ASSUME n + 1 <= Len(s) PROVE g[n + 1] = h[n + 1]
      OBVIOUS
    <2>2. n \in 0..(Len(s) - 1) /\ n \in 0..(Len(t) - 1) /\ n + 1 \in 1..Len(s)
      BY <2>1
    <2>3. g[n] = h[n] /\ s[n + 1] = t[n + 1] /\ (s[n + 1] \in S <=> t[n + 1] \in T)
      BY <1>2, <2>1, <2>2
    <2> QED BY <2>2, <2>3 DEF Collects
  <1> HIDE DEF P
  <1>3. U = Nat
    <2>1. U \in SUBSET Nat /\ 0 \in U
      BY <1>1
    <2>2. \A n \in U : n + 1 \in U
      BY <1>2
    <2> HIDE DEF U
    <2> QED BY <2>1, <2>2, SetInduction
  <1>4. P(Len(s))
    BY <1>3
  <1> QED BY <1>4 DEF P

\* Two sets that have the same items of a list keep the same of it.
LEMMA KeptAgree ==
  ASSUME NEW A, NEW s \in Seq(A), NEW S, NEW T, \A k \in DOMAIN s : s[k] \in S <=> s[k] \in T
  PROVE  Kept(s, S) = Kept(s, T)
  <1>1. Len(s) \in Nat /\ DOMAIN s = 1..Len(s)
    BY LenProperties
  <1>2. PICK g : Collects(g, s, S)
    BY <1>1, KeptSteps
  <1>3. PICK h : Collects(h, s, T)
    BY <1>1, KeptSteps
  <1>4. g[Len(s)] = h[Len(s)]
    BY <1>1, <1>2, <1>3, CollectsAgree
  <1> QED BY <1>2, <1>3, <1>4 DEF Collects

\* A new item is kept if it is in the set, and changes nothing else.
LEMMA KeptAppend ==
  ASSUME NEW A, NEW s \in Seq(A), NEW e \in A, NEW S
  PROVE  /\ e \in S => Kept(Append(s, e), S) = Append(Kept(s, S), e)
         /\ e \notin S => Kept(Append(s, e), S) = Kept(s, S)
  <1>1. PICK t : t = Append(s, e)
    OBVIOUS
  <1>2. /\ Len(s) \in Nat /\ Len(t) = Len(s) + 1 /\ Len(t) \in Nat
        /\ t[Len(s) + 1] = e /\ \A k \in 1..Len(s) : t[k] = s[k]
    BY <1>1, AppendProperties, LenProperties
  <1>3. PICK g : Collects(g, s, S)
    BY <1>2, KeptSteps
  <1>4. PICK h : Collects(h, t, S)
    BY <1>2, KeptSteps
  <1>5. g[Len(s)] = h[Len(s)]
    BY <1>2, <1>3, <1>4, CollectsAgree
  <1>6. Len(s) \in 0..(Len(t) - 1) /\ h[Len(s) + 1] = Kept(t, S) /\ h[Len(s)] = Kept(s, S)
    BY <1>2, <1>3, <1>4, <1>5 DEF Collects
  <1>7. /\ e \in S => Kept(t, S) = Append(Kept(s, S), e)
        /\ e \notin S => Kept(t, S) = Kept(s, S)
    BY <1>2, <1>4, <1>6 DEF Collects
  <1> QED BY <1>1, <1>7

\* What is kept for a set and then for a smaller one is kept for the smaller one.
LEMMA KeptTwice ==
  ASSUME NEW A, NEW s \in Seq(A), NEW S, NEW T, T \subseteq S
  PROVE  Kept(Kept(s, S), T) = Kept(s, T)
  <1>1. /\ Len(s) \in Nat /\ DOMAIN s = 1..Len(s)
        /\ \A k \in 1..Len(s) : s[k] \in A
    BY LenProperties, ElementOfSeq
  <1>2. PICK g : Collects(g, s, S)
    BY <1>1, KeptSteps
  <1>3. PICK h : Collects(h, s, T)
    BY <1>1, KeptSteps
  <1> DEFINE P(n) == n <= Len(s) => g[n] \in Seq(A) /\ Kept(g[n], T) = h[n]
             U == {n \in Nat : P(n)}
  <1>4. P(0)
    <2>1. g[0] = <<>> /\ h[0] = <<>> /\ g[0] \in Seq(A)
      BY <1>2, <1>3 DEF Collects
    <2>2. Len(Kept(g[0], T)) <= Len(g[0]) /\ Kept(g[0], T) \in Seq(A)
      BY <2>1, KeptFacts
    <2>3. Len(g[0]) = 0
      BY <2>1
    <2>4. Len(Kept(g[0], T)) = 0
      BY <2>2, <2>3, LenProperties
    <2>5. Kept(g[0], T) = <<>>
      BY <2>2, <2>4, EmptySeq
    <2> QED BY <2>1, <2>5
  <1>5. ASSUME NEW n \in Nat, P(n) PROVE P(n + 1)
    <2>1. SUFFICES ASSUME n + 1 <= Len(s)
                   PROVE  g[n + 1] \in Seq(A) /\ Kept(g[n + 1], T) = h[n + 1]
      OBVIOUS
    <2>2. n \in 0..(Len(s) - 1) /\ s[n + 1] \in A /\ g[n] \in Seq(A) /\ Kept(g[n], T) = h[n]
      BY <1>1, <1>5, <2>1
    <2>3. CASE s[n + 1] \notin S
      <3>1. s[n + 1] \notin T /\ g[n + 1] = g[n] /\ h[n + 1] = h[n]
        BY <1>2, <1>3, <2>2, <2>3 DEF Collects
      <3> QED BY <2>2, <3>1
    <2>4. CASE s[n + 1] \in S
      <3>1. g[n + 1] = Append(g[n], s[n + 1])
        BY <1>2, <2>2, <2>4 DEF Collects
      <3>2. g[n + 1] \in Seq(A)
        BY <2>2, <3>1, AppendProperties
      <3>3. CASE s[n + 1] \in T
        <4>1. h[n + 1] = Append(h[n], s[n + 1])
          BY <1>3, <2>2, <3>3 DEF Collects
        <4>2. Kept(Append(g[n], s[n + 1]), T) = Append(Kept(g[n], T), s[n + 1])
          BY <2>2, <3>3, KeptAppend
        <4> QED BY <2>2, <3>1, <3>2, <4>1, <4>2
      <3>4. CASE s[n + 1] \notin T
        <4>1. h[n + 1] = h[n]
          BY <1>3, <2>2, <3>4 DEF Collects
        <4>2. Kept(Append(g[n], s[n + 1]), T) = Kept(g[n], T)
          BY <2>2, <3>4, KeptAppend
        <4> QED BY <2>2, <3>1, <3>2, <4>1, <4>2
      <3> QED BY <3>3, <3>4
    <2> QED BY <2>3, <2>4
  <1> HIDE DEF P
  <1>6. U = Nat
    <2>1. U \in SUBSET Nat /\ 0 \in U
      BY <1>4
    <2>2. \A n \in U : n + 1 \in U
      BY <1>5
    <2> HIDE DEF U
    <2> QED BY <2>1, <2>2, SetInduction
  <1>7. P(Len(s))
    BY <1>1, <1>6
  <1>8. Kept(g[Len(s)], T) = h[Len(s)]
    BY <1>1, <1>7 DEF P
  <1> QED BY <1>2, <1>3, <1>8 DEF Collects

\* A smaller set keeps fewer items, and one that has none of them keeps none.
LEMMA KeptSizes ==
  ASSUME NEW A, NEW s \in Seq(A), NEW S, NEW T
  PROVE  /\ Len(Kept(s, S)) \in Nat
         /\ S \subseteq T => Len(Kept(s, S)) <= Len(Kept(s, T))
         /\ (\A k \in DOMAIN s : s[k] \notin S) => Kept(s, S) = <<>>
  <1>1. Kept(s, S) \in Seq(A) /\ Len(Kept(s, S)) \in Nat
    BY KeptFacts, LenProperties
  <1>2. ASSUME S \subseteq T PROVE Len(Kept(s, S)) <= Len(Kept(s, T))
    <2>1. Kept(s, T) \in Seq(A)
      BY KeptFacts
    <2>2. Len(Kept(Kept(s, T), S)) <= Len(Kept(s, T))
      BY <2>1, KeptFacts
    <2>3. Kept(Kept(s, T), S) = Kept(s, S)
      BY <1>2, KeptTwice
    <2> QED BY <2>2, <2>3
  <1>3. ASSUME \A k \in DOMAIN s : s[k] \notin S PROVE Kept(s, S) = <<>>
    <2>1. \A i \in DOMAIN Kept(s, S) : FALSE
      BY <1>3, KeptFacts
    <2>2. PICK q : q = Kept(s, S)
      OBVIOUS
    <2>3. q \in Seq(A) /\ Len(q) \in Nat /\ DOMAIN q = 1..Len(q)
      BY <1>1, <2>2, LenProperties
    <2>4. ~ (1 \in DOMAIN q)
      BY <2>1, <2>2
    <2>5. Len(q) = 0
      BY <2>3, <2>4
    <2> QED BY <2>2, <2>3, <2>5, EmptySeq
  <1> QED BY <1>1, <1>2, <1>3

\* r is the end of the first n items of s, from after item d on, and these are
\* the ones in S.
EndOf(r, d, n, s, S) ==
  /\ Len(r) = n - d
  /\ \A i \in 1..(n - d) : r[i] = s[d + i]
  /\ \A i \in 1..n : s[i] \in S <=> i > d

\* When an item in S is followed by items in S only, what is kept is the end
\* of the list.
LEMMA KeptSuffix ==
  ASSUME NEW A, NEW s \in Seq(A), NEW S,
         \A i, k \in 1..Len(s) : i <= k /\ s[i] \in S => s[k] \in S
  PROVE  \E d \in 0..Len(s) : EndOf(Kept(s, S), d, Len(s), s, S)
  <1>1. /\ Len(s) \in Nat /\ DOMAIN s = 1..Len(s)
        /\ \A k \in 1..Len(s) : s[k] \in A
    BY LenProperties, ElementOfSeq
  <1>2. PICK g : Collects(g, s, S)
    BY <1>1, KeptSteps
  <1> DEFINE P(n) ==
               n <= Len(s) =>
                 g[n] \in Seq(A) /\ \E d \in 0..n : EndOf(g[n], d, n, s, S)
             T == {n \in Nat : P(n)}
  <1>3. P(0)
    <2>1. g[0] \in Seq(A) /\ EndOf(g[0], 0, 0, s, S)
      BY <1>2 DEF Collects, EndOf
    <2> QED BY <2>1
  <1>4. ASSUME NEW n \in Nat, n + 1 <= Len(s), NEW q \in Seq(A),
               NEW d \in 0..n, EndOf(q, d, n, s, S)
        PROVE  /\ s[n + 1] \notin S => EndOf(q, n + 1, n + 1, s, S)
               /\ s[n + 1] \in S =>
                    /\ Append(q, s[n + 1]) \in Seq(A)
                    /\ EndOf(Append(q, s[n + 1]), d, n + 1, s, S)
    <2>1. n + 1 \in 1..Len(s) /\ s[n + 1] \in A /\ Len(q) \in Nat
      BY <1>1, <1>4, LenProperties
    <2>2. CASE s[n + 1] \notin S
      <3>1. \A i \in 1..n : s[i] \notin S
        BY <1>1, <2>1, <2>2
      <3>2. d = n
        BY <1>4, <3>1 DEF EndOf
      <3> QED BY <1>4, <2>1, <2>2, <3>1, <3>2 DEF EndOf
    <2>3. CASE s[n + 1] \in S
      <3> DEFINE r == Append(q, s[n + 1])
      <3>1. /\ r \in Seq(A) /\ Len(r) = Len(q) + 1
            /\ \A i \in 1..Len(q) : r[i] = q[i]
            /\ r[Len(q) + 1] = s[n + 1]
        BY <2>1, AppendProperties
      <3> HIDE DEF r
      <3>2. EndOf(r, d, n + 1, s, S)
        <4>1. Len(r) = (n + 1) - d /\ Len(q) = n - d
          BY <1>4, <3>1 DEF EndOf
        <4>2. ASSUME NEW i \in 1..((n + 1) - d) PROVE r[i] = s[d + i]
          <5>1. CASE i = (n + 1) - d
            <6>1. i = Len(q) + 1 /\ d + i = n + 1
              BY <4>1, <5>1
            <6> QED BY <3>1, <6>1
          <5>2. CASE i # (n + 1) - d
            <6>1. i \in 1..(n - d)
              BY <5>2
            <6> QED BY <1>4, <3>1, <4>1, <6>1 DEF EndOf
          <5> QED BY <5>1, <5>2
        <4>3. \A i \in 1..(n + 1) : s[i] \in S <=> i > d
          BY <1>4, <2>3 DEF EndOf
        <4> QED BY <4>1, <4>2, <4>3 DEF EndOf
      <3> QED BY <2>3, <3>1, <3>2 DEF r
    <2> QED BY <2>2, <2>3
  <1>5. ASSUME NEW n \in Nat, P(n) PROVE P(n + 1)
    <2>1. SUFFICES ASSUME n + 1 <= Len(s)
                   PROVE  /\ g[n + 1] \in Seq(A)
                          /\ \E d \in 0..(n + 1) :
                               EndOf(g[n + 1], d, n + 1, s, S)
      OBVIOUS
    <2>2. /\ n \in 0..(Len(s) - 1) /\ n <= Len(s) /\ g[n] \in Seq(A)
          /\ n + 1 \in 0..(n + 1)
      BY <1>1, <1>5, <2>1
    <2>3. PICK d \in 0..n : EndOf(g[n], d, n, s, S)
      BY <1>5, <2>2
    <2>4. d \in 0..(n + 1)
      OBVIOUS
    <2> QED BY <1>2, <1>4, <2>1, <2>2, <2>3, <2>4 DEF Collects
  <1> HIDE DEF P
  <1>6. T = Nat
    <2>1. T \in SUBSET Nat /\ 0 \in T
      BY <1>3
    <2>2. \A n \in T : n + 1 \in T
      BY <1>5
    <2> HIDE DEF T
    <2> QED BY <2>1, <2>2, SetInduction
  <1>7. P(Len(s))
    BY <1>1, <1>6
  <1> QED BY <1>1, <1>2, <1>7 DEF P, Collects

-----------------------------------------------------------------------------
(* The elements of a list. *)

NoDup(s) == \A i, k \in 1..Len(s) : s[i] = s[k] => i = k

LEMMA ElemsFacts ==
  ASSUME NEW A, NEW s \in Seq(A)
  PROVE  /\ Len(s) \in Nat /\ DOMAIN s = 1..Len(s)
         /\ Elems(s) = {s[i] : i \in 1..Len(s)} /\ Elems(s) \subseteq A
  <1>1. Len(s) \in Nat /\ DOMAIN s = 1..Len(s) /\ s \in [1..Len(s) -> A]
    BY LenProperties
  <1> QED BY <1>1 DEF Elems

LEMMA ElemsEmpty == Elems(<<>>) = {} /\ NoDup(<<>>)
  <1>1. <<>> \in Seq({}) /\ Len(<<>>) = 0
    BY EmptySeq
  <1>2. ASSUME NEW s \in Seq({}) PROVE Elems(s) \subseteq {}
    BY ElemsFacts
  <1>3. Elems(<<>>) \subseteq {}
    BY <1>1, <1>2
  <1> QED BY <1>1, <1>3 DEF NoDup

LEMMA AppendFacts ==
  ASSUME NEW A, NEW s \in Seq(A), NEW e \in A
  PROVE  /\ Append(s, e) \in Seq(A) /\ Len(Append(s, e)) = Len(s) + 1
         /\ Elems(Append(s, e)) = Elems(s) \cup {e}
         /\ NoDup(s) /\ e \notin Elems(s) => NoDup(Append(s, e))
  <1> DEFINE t == Append(s, e)
             n == Len(s)
  <1>1. /\ t \in Seq(A) /\ Len(t) = n + 1 /\ t[n + 1] = e /\ n \in Nat
        /\ \A i \in 1..n : t[i] = s[i]
    BY AppendProperties, LenProperties
  <1> HIDE DEF t
  <1>2. Elems(t) = {t[i] : i \in 1..(n + 1)} /\ Elems(s) = {s[i] : i \in 1..n}
    BY <1>1, ElemsFacts
  <1> HIDE DEF n
  <1>3. 1..(n + 1) = (1..n) \cup {n + 1}
    BY <1>1
  <1>4. Elems(t) = Elems(s) \cup {e}
    BY <1>1, <1>2, <1>3
  <1>5. ASSUME NoDup(s), e \notin Elems(s),
               NEW i \in 1..(n + 1), NEW k \in 1..(n + 1), t[i] = t[k]
        PROVE  i = k
    <2>1. CASE i \in 1..n /\ k \in 1..n
      BY <1>1, <1>5, <2>1 DEF NoDup, n
    <2>2. CASE i = n + 1 \/ k = n + 1
      BY <1>1, <1>2, <1>3, <1>5, <2>2
    <2> QED BY <1>3, <2>1, <2>2
  <1> QED BY <1>1, <1>4, <1>5 DEF NoDup, t, n

LEMMA DropFacts ==
  ASSUME NEW A, NEW s \in Seq(A), NEW n \in 0..Len(s)
  PROVE  /\ Drop(s, n) \in Seq(A) /\ Len(Drop(s, n)) = Len(s) - n
         /\ \A i \in 1..(Len(s) - n) : Drop(s, n)[i] = s[n + i]
         /\ NoDup(s) => NoDup(Drop(s, n))
  <1> DEFINE t == Drop(s, n)
  <1>1. /\ Len(s) \in Nat /\ n \in Nat
        /\ \A i \in (n + 1)..Len(s) : s[i] \in A
    BY LenProperties, ElementOfSeq
  <1>2. /\ t \in Seq(A)
        /\ Len(t) = IF n + 1 <= Len(s) THEN Len(s) - (n + 1) + 1 ELSE 0
        /\ \A i \in 1..(Len(s) - (n + 1) + 1) : t[i] = s[n + 1 + i - 1]
    BY <1>1, SubSeqProperties DEF Drop
  <1> HIDE DEF t
  <1>3. Len(t) = Len(s) - n
    BY <1>1, <1>2
  <1>4. ASSUME NEW i \in 1..(Len(s) - n) PROVE t[i] = s[n + i]
    <2>1. i \in 1..(Len(s) - (n + 1) + 1) /\ n + 1 + i - 1 = n + i
      BY <1>1
    <2> QED BY <1>2, <2>1
  <1>5. ASSUME NoDup(s) PROVE NoDup(t)
    <2>1. ASSUME NEW i \in 1..Len(t), NEW k \in 1..Len(t), t[i] = t[k]
          PROVE  i = k
      <3>1. /\ i \in 1..(Len(s) - n) /\ k \in 1..(Len(s) - n)
            /\ n + i \in 1..Len(s) /\ n + k \in 1..Len(s)
        BY <1>1, <1>3
      <3>2. s[n + i] = s[n + k]
        BY <1>4, <2>1, <3>1
      <3>3. n + i = n + k
        BY <1>5, <3>1, <3>2 DEF NoDup
      <3> QED BY <1>1, <3>3
    <2> QED BY <2>1 DEF NoDup
  <1> QED BY <1>2, <1>3, <1>4, <1>5 DEF t

Leading(s, n) == {s[i] : i \in 1..n}

\* What is dropped from the front is gone, and each of it counts.
LEMMA LeadingFacts ==
  ASSUME NEW A, NEW s \in Seq(A), NEW n \in 0..Len(s), NoDup(s)
  PROVE  /\ Elems(s) \ Elems(Drop(s, n)) = Leading(s, n)
         /\ Elems(Drop(s, n)) \subseteq Elems(s)
         /\ IsFiniteSet(Elems(s) \ Elems(Drop(s, n)))
         /\ Cardinality(Elems(s) \ Elems(Drop(s, n))) = n
  <1> DEFINE t == Drop(s, n)
             F == {s[i] : i \in 1..n}
  <1>1. /\ t \in Seq(A) /\ Len(t) = Len(s) - n /\ Len(s) \in Nat /\ n \in Nat
        /\ \A i \in 1..(Len(s) - n) : t[i] = s[n + i]
    BY DropFacts, LenProperties
  <1>2. Elems(s) = {s[i] : i \in 1..Len(s)} /\ Elems(t) = {t[i] : i \in 1..Len(t)}
    BY <1>1, ElemsFacts
  <1> HIDE DEF t
  <1>3. ASSUME NEW x \in Elems(t) PROVE x \in Elems(s) /\ x \notin F
    <2>1. PICK i \in 1..(Len(s) - n) : x = s[n + i]
      BY <1>1, <1>2
    <2>2. n + i \in 1..Len(s) /\ n + i \notin 1..n
      BY <1>1
    <2>3. \A k \in 1..n : k \in 1..Len(s) /\ k # n + i
      BY <1>1, <2>2
    <2> QED BY <1>2, <2>1, <2>2, <2>3 DEF NoDup
  <1>4. ASSUME NEW x \in Elems(s), x \notin Elems(t) PROVE x \in F
    <2>1. PICK i \in 1..Len(s) : x = s[i]
      BY <1>2
    <2>2. CASE i <= n
      BY <1>1, <2>1, <2>2
    <2>3. CASE i > n
      <3>1. i - n \in 1..(Len(s) - n) /\ n + (i - n) = i
        BY <1>1, <2>3
      <3>2. t[i - n] = x
        BY <1>1, <2>1, <3>1
      <3> QED BY <1>1, <1>2, <1>4, <3>1, <3>2
    <2> QED BY <1>1, <2>2, <2>3
  <1>5. F \subseteq Elems(s)
    <2>1. \A i \in 1..n : i \in 1..Len(s)
      BY <1>1
    <2> QED BY <1>2, <2>1
  <1>6. Elems(s) \ Elems(t) = F
    BY <1>3, <1>4, <1>5
  <1>7. IsFiniteSet(F) /\ Cardinality(F) = n
    <2> DEFINE f == [i \in 1..n |-> s[i]]
    <2>1. \A i \in 1..n : i \in 1..Len(s)
      BY <1>1
    <2>2. f \in Bijection(1..n, F)
      <3>1. f \in [1..n -> F]
        OBVIOUS
      <3>2. \A i, k \in 1..n : f[i] = f[k] => i = k
        BY <2>1 DEF NoDup
      <3>3. \A x \in F : \E i \in 1..n : f[i] = x
        OBVIOUS
      <3> QED BY <3>1, <3>2, <3>3 DEF Bijection, Injection, Surjection, IsInjective
    <2>3. IsFiniteSet(1..n) /\ Cardinality(1..n) = n
      BY <1>1, FS_Interval
    <2>4. ExistsBijection(1..n, F)
      BY <2>2 DEF ExistsBijection
    <2> QED BY <2>3, <2>4, FS_Bijection
  <1> QED BY <1>3, <1>6, <1>7 DEF t, Leading

\* The first packet and the others.
LEMMA TailFacts ==
  ASSUME NEW A, NEW s \in Seq(A), NoDup(s), s # <<>>
  PROVE  /\ Head(s) \in Elems(s) /\ Tail(s) \in Seq(A)
         /\ Len(Tail(s)) = Len(s) - 1 /\ Len(s) \in Nat \ {0}
         /\ \A i \in 1..(Len(s) - 1) : Tail(s)[i] = s[i + 1]
         /\ NoDup(Tail(s)) /\ Elems(Tail(s)) = Elems(s) \ {Head(s)}
  <1>1. /\ Tail(s) \in Seq(A) /\ Len(Tail(s)) = Len(s) - 1 /\ Len(s) \in Nat \ {0}
        /\ \A i \in 1..(Len(s) - 1) : Tail(s)[i] = s[i + 1]
    BY HeadTailProperties, EmptySeq
  <1>2. Tail(s) = Drop(s, 1) /\ 1 \in 0..Len(s)
    BY <1>1, TailIsSubSeq DEF Drop
  <1>3. Head(s) = s[1] /\ 1 \in 1..Len(s)
    BY <1>1
  <1>4. Leading(s, 1) = {Head(s)}
    BY <1>3 DEF Leading
  <1>5. /\ NoDup(Drop(s, 1)) /\ Elems(Drop(s, 1)) \subseteq Elems(s)
        /\ Elems(s) \ Elems(Drop(s, 1)) = Leading(s, 1)
    BY <1>2, DropFacts, LeadingFacts
  <1>6. /\ NoDup(Tail(s)) /\ Elems(Tail(s)) \subseteq Elems(s)
        /\ Elems(s) \ Elems(Tail(s)) = {Head(s)}
    BY <1>2, <1>4, <1>5
  <1> QED BY <1>1, <1>6

\* Two lists without an item in common.
LEMMA ConcatFacts ==
  ASSUME NEW A, NEW s \in Seq(A), NEW t \in Seq(A)
  PROVE  /\ s \o t \in Seq(A) /\ Len(s \o t) = Len(s) + Len(t)
         /\ Elems(s \o t) = Elems(s) \cup Elems(t)
         /\ NoDup(s) /\ NoDup(t) /\ Elems(s) \cap Elems(t) = {} => NoDup(s \o t)
  <1> DEFINE u == s \o t
             m == Len(s)
             n == Len(t)
  <1>1. /\ u \in Seq(A) /\ Len(u) = m + n /\ m \in Nat /\ n \in Nat
        /\ \A i \in 1..(m + n) : u[i] = IF i <= m THEN s[i] ELSE t[i - m]
    BY ConcatProperties, LenProperties
  <1>2. /\ Elems(s) = {s[i] : i \in 1..m} /\ Elems(t) = {t[i] : i \in 1..n}
        /\ Elems(u) = {u[i] : i \in 1..(m + n)}
    BY <1>1, ElemsFacts
  <1> HIDE DEF u
  <1>3. \A i \in 1..(m + n) : i \in 1..m \/ (i - m \in 1..n /\ ~ (i <= m))
    BY <1>1
  <1>4. /\ \A i \in 1..m : i \in 1..(m + n) /\ i <= m
        /\ \A i \in 1..n : m + i \in 1..(m + n) /\ ~ (m + i <= m) /\ (m + i) - m = i
    BY <1>1
  <1>5. Elems(u) = Elems(s) \cup Elems(t)
    <2>1. ASSUME NEW x \in Elems(u) PROVE x \in Elems(s) \cup Elems(t)
      <3>1. PICK i \in 1..(m + n) : x = u[i]
        BY <1>2
      <3>2. CASE i \in 1..m
        <4>1. x = s[i]
          BY <1>1, <1>4, <3>1, <3>2
        <4> QED BY <1>2, <3>2, <4>1
      <3>3. CASE i - m \in 1..n /\ ~ (i <= m)
        <4>1. x = t[i - m]
          BY <1>1, <3>1, <3>3
        <4> QED BY <1>2, <3>3, <4>1
      <3> QED BY <1>3, <3>2, <3>3
    <2>2. ASSUME NEW x \in Elems(s) PROVE x \in Elems(u)
      <3>1. PICK i \in 1..m : x = s[i]
        BY <1>2
      <3>2. i \in 1..(m + n) /\ u[i] = s[i]
        BY <1>1, <1>4, <3>1
      <3> QED BY <1>2, <3>1, <3>2
    <2>3. ASSUME NEW x \in Elems(t) PROVE x \in Elems(u)
      <3>1. PICK i \in 1..n : x = t[i]
        BY <1>2
      <3>2. m + i \in 1..(m + n) /\ u[m + i] = t[i]
        BY <1>1, <1>4, <3>1
      <3> QED BY <1>2, <3>1, <3>2
    <2> QED BY <2>1, <2>2, <2>3
  <1>6. ASSUME NoDup(s), NoDup(t), Elems(s) \cap Elems(t) = {},
               NEW i \in 1..(m + n), NEW k \in 1..(m + n), u[i] = u[k]
        PROVE  i = k
    <2>1. CASE i \in 1..m /\ k \in 1..m
      BY <1>1, <1>4, <1>6, <2>1 DEF NoDup
    <2>2. CASE i \in 1..m /\ k \notin 1..m
      <3>1. u[i] \in Elems(s) /\ u[k] \in Elems(t)
        BY <1>1, <1>2, <1>3, <1>4, <2>2
      <3> QED BY <1>6, <3>1
    <2>3. CASE i \notin 1..m /\ k \in 1..m
      <3>1. u[i] \in Elems(t) /\ u[k] \in Elems(s)
        BY <1>1, <1>2, <1>3, <1>4, <2>3
      <3> QED BY <1>6, <3>1
    <2>4. CASE i \notin 1..m /\ k \notin 1..m
      <3>1. i - m \in 1..n /\ k - m \in 1..n /\ t[i - m] = t[k - m]
        BY <1>1, <1>3, <1>6, <2>4
      <3>2. i - m = k - m
        BY <1>6, <3>1 DEF NoDup
      <3> QED BY <1>1, <3>2
    <2> QED BY <2>1, <2>2, <2>3, <2>4
  <1> QED BY <1>1, <1>5, <1>6 DEF NoDup, u

\* The packets a job takes are those the cache loses.
LEMMA PrefixFacts ==
  ASSUME NEW A, NEW s \in Seq(A), NEW n \in 0..Len(s), NoDup(s)
  PROVE  /\ SubSeq(s, 1, n) \in Seq(A) /\ Len(SubSeq(s, 1, n)) = n
         /\ NoDup(SubSeq(s, 1, n))
         /\ Elems(SubSeq(s, 1, n)) = Elems(s) \ Elems(Drop(s, n))
  <1> DEFINE t == SubSeq(s, 1, n)
  <1>1. /\ Len(s) \in Nat /\ n \in Nat /\ \A i \in 1..n : s[i] \in A
        /\ \A i \in 1..n : i \in 1..Len(s)
    BY LenProperties, ElementOfSeq
  <1>2. /\ t \in Seq(A) /\ Len(t) = IF 1 <= n THEN n - 1 + 1 ELSE 0
        /\ \A i \in 1..(n - 1 + 1) : t[i] = s[1 + i - 1]
    BY <1>1, SubSeqProperties
  <1> HIDE DEF t
  <1>3. Len(t) = n
    BY <1>1, <1>2
  <1>4. ASSUME NEW i \in 1..n PROVE t[i] = s[i]
    <2>1. i \in 1..(n - 1 + 1) /\ 1 + i - 1 = i
      BY <1>1
    <2> QED BY <1>2, <2>1
  <1>5. Elems(t) = {s[i] : i \in 1..n}
    <2>1. Elems(t) = {t[i] : i \in 1..n}
      BY <1>2, <1>3, ElemsFacts
    <2> QED BY <1>4, <2>1
  <1>6. NoDup(t)
    BY <1>1, <1>3, <1>4 DEF NoDup
  <1>7. Elems(s) \ Elems(Drop(s, n)) = Leading(s, n)
    BY LeadingFacts
  <1> QED BY <1>2, <1>3, <1>5, <1>6, <1>7 DEF t, Leading

-----------------------------------------------------------------------------
(* The subsets of a finite set, by size: for inductions over them, such as *)
(* a fold makes, one chosen element after another.                         *)

Pick(s) == CHOOSE x \in s : TRUE
Small(S, k) == {s \in SUBSET S : Cardinality(s) <= k}

LEMMA SetSizes ==
  ASSUME NEW S, IsFiniteSet(S)
  PROVE  /\ Cardinality(S) \in Nat /\ S \in Small(S, Cardinality(S))
         /\ Small(S, Cardinality(S)) = SUBSET S /\ Small(S, 0) = {{}}
         /\ \A k \in Nat : \A s \in Small(S, k) : s \in Small(S, k + 1)
         /\ \A k \in Nat : \A s \in Small(S, k + 1) : s # {} =>
              /\ Pick(s) \in s /\ Pick(s) \in S /\ s \in SUBSET S
              /\ s \ {Pick(s)} \in Small(S, k) /\ s \ {Pick(s)} \in SUBSET S
  <1>1. Cardinality(S) \in Nat
    BY FS_CardinalityType
  <1>2. ASSUME NEW s \in SUBSET S
        PROVE  /\ IsFiniteSet(s) /\ Cardinality(s) \in Nat
               /\ Cardinality(s) <= Cardinality(S)
               /\ Cardinality(s) = 0 <=> s = {}
    BY <1>1, FS_Subset, FS_CardinalityType, FS_EmptySet
  <1>3. Small(S, Cardinality(S)) = SUBSET S
    BY <1>2 DEF Small
  <1>4. Small(S, 0) = {{}}
    <2>1. \A s \in Small(S, 0) : s = {}
      BY <1>2 DEF Small
    <2>2. {} \in Small(S, 0)
      BY FS_EmptySet DEF Small
    <2> QED BY <2>1, <2>2
  <1>5. ASSUME NEW k \in Nat, NEW s \in Small(S, k) PROVE s \in Small(S, k + 1)
    BY <1>2 DEF Small
  <1>6. ASSUME NEW k \in Nat, NEW s \in Small(S, k + 1), s # {}
        PROVE  /\ Pick(s) \in s /\ Pick(s) \in S /\ s \in SUBSET S
               /\ s \ {Pick(s)} \in Small(S, k) /\ s \ {Pick(s)} \in SUBSET S
    <2>1. Pick(s) \in s
      BY <1>6 DEF Pick
    <2>2. s \in SUBSET S /\ Cardinality(s) <= k + 1
      BY DEF Small
    <2>3. Cardinality(s \ {Pick(s)}) = Cardinality(s) - 1
      BY <1>2, <2>1, <2>2, FS_RemoveElement
    <2>4. Cardinality(s \ {Pick(s)}) <= k
      BY <1>2, <2>2, <2>3
    <2> QED BY <2>1, <2>2, <2>4 DEF Small
  <1> QED BY <1>1, <1>3, <1>4, <1>5, <1>6

-----------------------------------------------------------------------------
(* Two lists in a row, and a list without its first item. *)

\* Appending to the second list of two appends to both.
LEMMA ConcatAppend ==
  ASSUME NEW A, NEW s \in Seq(A), NEW t \in Seq(A), NEW e \in A
  PROVE  s \o Append(t, e) = Append(s \o t, e)
  <1>1. <<e>> \in Seq(A) /\ s \o t \in Seq(A)
    BY ConcatProperties
  <1>2. Append(t, e) = t \o <<e>>
    BY AppendIsConcat
  <1>3. Append(s \o t, e) = (s \o t) \o <<e>>
    BY <1>1, AppendIsConcat
  <1> QED BY <1>1, <1>2, <1>3, ConcatAssociative

\* The first item of a list is what is to be put before the others.
LEMMA HeadFirst ==
  ASSUME NEW A, NEW s \in Seq(A), s # <<>>
  PROVE  /\ Head(s) \in A /\ Tail(s) \in Seq(A) /\ s = <<Head(s)>> \o Tail(s)
  <1>1. PICK e \in A : e = Head(s)
    BY HeadTailProperties
  <1>2. PICK u \in Seq(A) : u = Tail(s)
    BY HeadTailProperties
  <1>3. Len(s) \in Nat /\ Len(u) = Len(s) - 1 /\ \A i \in 1..Len(u) : u[i] = s[i + 1]
    BY <1>2, HeadTailProperties, LenProperties
  <1>4. PICK q : q = <<e>> \o u
    OBVIOUS
  <1>5. <<e>> \in Seq(A) /\ Len(<<e>>) = 1 /\ <<e>>[1] = e
    OBVIOUS
  <1>6. /\ q \in Seq(A) /\ Len(q) = 1 + Len(u)
        /\ \A i \in 1..(1 + Len(u)) : q[i] = IF i <= 1 THEN <<e>>[i] ELSE u[i - 1]
    BY <1>4, <1>5, ConcatProperties
  <1>7. Len(q) = Len(s)
    BY <1>3, <1>6
  <1>8. s[1] = e
    <2>1. Head(s) = s[1]
      OBVIOUS
    <2> QED BY <1>1, <2>1
  <1>9. ASSUME NEW i \in 1..Len(q) PROVE q[i] = s[i]
    <2>1. CASE i = 1
      BY <1>3, <1>5, <1>6, <1>7, <1>8, <2>1
    <2>2. CASE i # 1
      <3>1. i - 1 \in 1..Len(u) /\ (i - 1) + 1 = i /\ i \in 1..(1 + Len(u))
        BY <1>3, <1>7, <2>2
      <3>2. q[i] = u[i - 1]
        BY <1>6, <2>2, <3>1
      <3> QED BY <1>3, <3>1, <3>2
    <2> QED BY <2>1, <2>2
  <1>10. q = s
    BY <1>6, <1>7, <1>9, SeqEqual
  <1> QED BY <1>1, <1>2, <1>4, <1>10

\* What is kept of two lists is what is kept of each.
LEMMA KeptConcat ==
  ASSUME NEW A, NEW s \in Seq(A), NEW t \in Seq(A), NEW S
  PROVE  Kept(s \o t, S) = Kept(s, S) \o Kept(t, S)
  <1>1. Len(t) \in Nat /\ \A k \in 1..Len(t) : t[k] \in A
    BY LenProperties, ElementOfSeq
  <1> DEFINE u(n) == SubSeq(t, 1, n)
             P(n) == n <= Len(t) => u(n) \in Seq(A) /\ Kept(s \o u(n), S) = Kept(s, S) \o Kept(u(n), S)
             U == {n \in Nat : P(n)}
  <1>2. <<>> \in Seq(A) /\ Kept(<<>>, S) = <<>>
    <2>1. <<>> \in Seq(A) /\ \A k \in DOMAIN <<>> : FALSE
      BY EmptySeq
    <2> QED BY <2>1, KeptSizes
  <1>3. P(0)
    <2>1. u(0) = <<>>
      BY SubSeqEmpty
    <2>2. Kept(s, S) \in Seq(A)
      BY KeptFacts
    <2>3. s \o <<>> = s /\ Kept(s, S) \o <<>> = Kept(s, S)
      BY <2>2, ConcatEmptySeq
    <2> QED BY <1>2, <2>1, <2>3
  <1>4. ASSUME NEW n \in Nat, P(n) PROVE P(n + 1)
    <2>1. SUFFICES ASSUME n + 1 <= Len(t)
                   PROVE  u(n + 1) \in Seq(A) /\ Kept(s \o u(n + 1), S) = Kept(s, S) \o Kept(u(n + 1), S)
      OBVIOUS
    <2>2. PICK v \in Seq(A) : v = u(n) /\ Kept(s \o v, S) = Kept(s, S) \o Kept(v, S)
      <3>1. n <= Len(t)
        BY <1>1, <2>1
      <3>2. u(n) \in Seq(A) /\ Kept(s \o u(n), S) = Kept(s, S) \o Kept(u(n), S)
        BY <1>4, <3>1
      <3> HIDE DEF u
      <3> QED BY <3>2
    <2>3. PICK e \in A : e = t[n + 1]
      BY <1>1, <2>1
    <2>4. u(n + 1) = Append(v, e)
      <3>1. 1 \in 1..Len(t) /\ n + 1 \in 1..Len(t) /\ (n + 1) - 1 = n
        BY <1>1, <2>1
      <3>2. u(n + 1) = SubSeq(t, 1, (n + 1) - 1) \o <<t[n + 1]>>
        BY <3>1, SubSeqRecursiveSecond
      <3>3. Append(v, e) = v \o <<e>>
        BY AppendIsConcat
      <3> QED BY <2>2, <2>3, <3>1, <3>2, <3>3
    <2>5. Append(v, e) \in Seq(A) /\ s \o v \in Seq(A) /\ s \o Append(v, e) = Append(s \o v, e)
      BY AppendProperties, ConcatProperties, ConcatAppend
    <2>6. Kept(s, S) \in Seq(A) /\ Kept(v, S) \in Seq(A)
      BY KeptFacts
    <2>7. CASE e \in S
      <3>1. Kept(Append(s \o v, e), S) = Append(Kept(s \o v, S), e) /\ Kept(Append(v, e), S) = Append(Kept(v, S), e)
        BY <2>5, <2>7, KeptAppend
      <3>2. Kept(s, S) \o Append(Kept(v, S), e) = Append(Kept(s, S) \o Kept(v, S), e)
        BY <2>6, ConcatAppend
      <3> QED BY <2>2, <2>4, <2>5, <3>1, <3>2
    <2>8. CASE e \notin S
      <3>1. Kept(Append(s \o v, e), S) = Kept(s \o v, S) /\ Kept(Append(v, e), S) = Kept(v, S)
        BY <2>5, <2>8, KeptAppend
      <3> QED BY <2>2, <2>4, <2>5, <3>1
    <2> QED BY <2>7, <2>8
  <1> HIDE DEF P
  <1>5. U = Nat
    <2>1. U \in SUBSET Nat /\ 0 \in U
      BY <1>3
    <2>2. \A n \in U : n + 1 \in U
      BY <1>4
    <2> HIDE DEF U
    <2> QED BY <2>1, <2>2, SetInduction
  <1>6. P(Len(t))
    BY <1>1, <1>5
  <1>8. Len(t) <= Len(t)
    BY <1>1
  <1>7. SubSeq(t, 1, Len(t)) = t
    BY SubSeqFull
  <1>9. u(Len(t)) \in Seq(A) /\ Kept(s \o u(Len(t)), S) = Kept(s, S) \o Kept(u(Len(t)), S)
    <2> HIDE DEF u
    <2> QED BY <1>6, <1>8 DEF P
  <1> QED BY <1>7, <1>9

\* Taking the first item takes it from what is kept, if it is one to keep.
LEMMA KeptTail ==
  ASSUME NEW A, NEW s \in Seq(A), NEW S, s # <<>>
  PROVE  /\ Head(s) \in A /\ Tail(s) \in Seq(A)
         /\ Head(s) \in S => Kept(s, S) = <<Head(s)>> \o Kept(Tail(s), S)
         /\ Head(s) \notin S => Kept(s, S) = Kept(Tail(s), S)
  <1>1. PICK e \in A, u \in Seq(A) : e = Head(s) /\ u = Tail(s) /\ s = <<e>> \o u
    BY HeadFirst
  <1>2. <<>> \in Seq(A) /\ Kept(<<>>, S) = <<>> /\ Append(<<>>, e) = <<e>> /\ <<e>> \in Seq(A)
    <2>1. <<>> \in Seq(A) /\ \A k \in DOMAIN <<>> : FALSE
      BY EmptySeq
    <2>2. Kept(<<>>, S) = <<>>
      BY <2>1, KeptSizes
    <2>3. Append(<<>>, e) = <<>> \o <<e>> /\ <<>> \o <<e>> = <<e>> /\ <<e>> \in Seq(A)
      <3>1. <<e>> \in Seq(A)
        OBVIOUS
      <3> QED BY <2>1, <3>1, AppendIsConcat, ConcatEmptySeq
    <2> QED BY <2>1, <2>2, <2>3
  <1>3. Kept(<<e>> \o u, S) = Kept(<<e>>, S) \o Kept(u, S) /\ Kept(u, S) \in Seq(A)
    <2>1. PICK h \in Seq(A) : h = <<e>>
      BY <1>2
    <2>2. Kept(h \o u, S) = Kept(h, S) \o Kept(u, S)
      BY KeptConcat
    <2>3. Kept(u, S) \in Seq(A)
      BY KeptFacts
    <2> QED BY <2>1, <2>2, <2>3
  <1>4. CASE e \in S
    <2>1. Kept(Append(<<>>, e), S) = Append(Kept(<<>>, S), e)
      BY <1>2, <1>4, KeptAppend
    <2>2. Kept(<<e>>, S) = <<e>>
      BY <1>2, <2>1
    <2> QED BY <1>1, <1>3, <1>4, <2>2
  <1>5. CASE e \notin S
    <2>1. Kept(Append(<<>>, e), S) = Kept(<<>>, S)
      BY <1>2, <1>5, KeptAppend
    <2>2. Kept(<<e>>, S) = <<>>
      BY <1>2, <2>1
    <2>3. <<>> \o Kept(u, S) = Kept(u, S)
      BY <1>3, ConcatEmptySeq
    <2> QED BY <1>1, <1>3, <1>5, <2>2, <2>3
  <1> QED BY <1>1, <1>4, <1>5

\* Two lists and the second without its first item: the same items around it, and the same kept if it is none to keep.
LEMMA MiddleDropped ==
  ASSUME NEW A, NEW a \in Seq(A), NEW b \in Seq(A), b # <<>>
  PROVE  /\ \A S : Head(b) \notin S => Kept(a \o Tail(b), S) = Kept(a \o b, S)
         /\ Len(a \o Tail(b)) = Len(a) + Len(Tail(b)) /\ Len(a \o b) = Len(a) + (Len(Tail(b)) + 1)
         /\ \A i \in 1..Len(a) : (a \o Tail(b))[i] = a[i] /\ (a \o b)[i] = a[i]
         /\ \A i \in 1..Len(Tail(b)) : /\ (a \o Tail(b))[Len(a) + i] = Tail(b)[i]
                                     /\ (a \o b)[Len(a) + (i + 1)] = Tail(b)[i]
  <1>1. PICK u \in Seq(A) : u = Tail(b)
    BY HeadTailProperties
  <1>2. PICK m \in Nat, p \in Nat, r \in Nat : m = Len(a) /\ p = Len(u) /\ r = Len(b)
    BY LenProperties
  <1>3. r = p + 1 /\ \A i \in 1..p : u[i] = b[i + 1]
    <2>1. Len(u) = Len(b) - 1 /\ \A i \in 1..Len(u) : u[i] = b[i + 1]
      BY <1>1, HeadTailProperties
    <2> QED BY <1>2, <2>1
  <1>4. PICK now : now = a \o u
    OBVIOUS
  <1>5. PICK all : all = a \o b
    OBVIOUS
  <1>6. ASSUME NEW S, Head(b) \notin S PROVE Kept(now, S) = Kept(all, S)
    <2>1. Kept(a \o b, S) = Kept(a, S) \o Kept(b, S)
      BY KeptConcat
    <2>2. Kept(a \o u, S) = Kept(a, S) \o Kept(u, S)
      BY KeptConcat
    <2>3. Kept(b, S) = Kept(u, S)
      BY <1>1, <1>6, KeptTail
    <2> QED BY <1>4, <1>5, <2>1, <2>2, <2>3
  <1>7. Len(now) = m + p /\ \A i \in 1..(m + p) : now[i] = IF i <= m THEN a[i] ELSE u[i - m]
    BY <1>2, <1>4, ConcatProperties
  <1>8. Len(all) = m + r /\ \A i \in 1..(m + r) : all[i] = IF i <= m THEN a[i] ELSE b[i - m]
    BY <1>2, <1>5, ConcatProperties
  <1>9. ASSUME NEW i \in 1..m PROVE now[i] = a[i] /\ all[i] = a[i]
    <2>1. i \in 1..(m + p) /\ i \in 1..(m + r) /\ i <= m
      BY <1>2
    <2> QED BY <1>7, <1>8, <2>1
  <1>10. ASSUME NEW i \in 1..p PROVE now[m + i] = u[i] /\ all[m + (i + 1)] = u[i]
    <2>1. m + i \in 1..(m + p) /\ ~(m + i <= m) /\ (m + i) - m = i
      BY <1>2
    <2>2. m + (i + 1) \in 1..(m + r) /\ ~(m + (i + 1) <= m) /\ (m + (i + 1)) - m = i + 1
      BY <1>2, <1>3
    <2> QED BY <1>3, <1>7, <1>8, <2>1, <2>2
  <1>11. /\ Len(now) = Len(a) + Len(u) /\ Len(all) = Len(a) + (Len(u) + 1)
         /\ \A i \in 1..Len(a) : now[i] = a[i] /\ all[i] = a[i]
         /\ \A i \in 1..Len(u) : now[Len(a) + i] = u[i] /\ all[Len(a) + (i + 1)] = u[i]
    BY <1>2, <1>3, <1>7, <1>8, <1>9, <1>10
  <1> QED BY <1>1, <1>4, <1>5, <1>6, <1>11

\* The first item moved from one list to the end of the one before it.
LEMMA HeadMoves ==
  ASSUME NEW A, NEW a \in Seq(A), NEW b \in Seq(A), b # <<>>
  PROVE  Append(a, Head(b)) \o Tail(b) = a \o b
  <1>1. PICK e \in A, u \in Seq(A) : e = Head(b) /\ u = Tail(b) /\ b = <<e>> \o u
    BY HeadFirst
  <1>2. PICK h \in Seq(A) : h = <<e>>
    <2>1. <<e>> \in Seq(A)
      OBVIOUS
    <2> QED BY <2>1
  <1>3. Append(a, e) = a \o h
    BY <1>2, AppendIsConcat
  <1>4. (a \o h) \o u = a \o (h \o u)
    BY ConcatAssociative
  <1> QED BY <1>1, <1>2, <1>3, <1>4

\* A list is what comes before a place and what comes after it.
LEMMA SplitAt ==
  ASSUME NEW A, NEW s \in Seq(A), NEW n \in 0..Len(s)
  PROVE  /\ SubSeq(s, 1, n) \in Seq(A) /\ Drop(s, n) \in Seq(A) /\ s = SubSeq(s, 1, n) \o Drop(s, n)
         /\ Len(SubSeq(s, 1, n)) = n /\ \A i \in 1..n : SubSeq(s, 1, n)[i] = s[i]
  <1>1. Len(s) \in Nat /\ n \in Int /\ \A i \in 1..n : i \in 1..Len(s)
    BY LenProperties
  <1>2. \A i \in 1..n : s[i] \in A
    BY <1>1, ElementOfSeq
  <1>3. /\ SubSeq(s, 1, n) \in Seq(A) /\ Len(SubSeq(s, 1, n)) = IF 1 <= n THEN n - 1 + 1 ELSE 0
        /\ \A i \in 1..(n - 1 + 1) : SubSeq(s, 1, n)[i] = s[1 + i - 1]
    BY <1>1, <1>2, SubSeqProperties
  <1>4. Drop(s, n) \in Seq(A)
    BY DropFacts
  <1>5. SubSeq(s, 1, n) \o SubSeq(s, n + 1, Len(s)) = s
    <2>1. 1 \in 1..(Len(s) + 1) /\ n \in (1 - 1)..Len(s) /\ Len(s) \in n..Len(s)
      BY <1>1
    <2>2. SubSeq(s, 1, n) \o SubSeq(s, n + 1, Len(s)) = SubSeq(s, 1, Len(s))
      BY <2>1, ConcatAdjacentSubSeq
    <2> QED BY <2>2, SubSeqFull
  <1>6. Len(SubSeq(s, 1, n)) = n /\ \A i \in 1..n : SubSeq(s, 1, n)[i] = s[i]
    BY <1>1, <1>3
  <1> QED BY <1>3, <1>4, <1>5, <1>6 DEF Drop

\* What is kept of two lists in a row, counted.
LEMMA KeptCounts ==
  ASSUME NEW A, NEW s \in Seq(A), NEW t \in Seq(A), NEW S
  PROVE  /\ Len(Kept(s \o t, S)) = Len(Kept(s, S)) + Len(Kept(t, S))
         /\ Len(Kept(s, S)) \in Nat /\ Len(Kept(t, S)) \in Nat
  <1>1. Kept(s, S) \in Seq(A) /\ Kept(t, S) \in Seq(A)
    BY KeptFacts
  <1>2. Kept(s \o t, S) = Kept(s, S) \o Kept(t, S)
    BY KeptConcat
  <1> QED BY <1>1, <1>2, ConcatProperties, LenProperties
=============================================================================
