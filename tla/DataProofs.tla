----------------------------- MODULE DataProofs -----------------------------
(***************************************************************************)
(* Lemmas about data.  Induction first: on the naturals and on the subsets *)
(* of a finite set, each stated of a set (the numbers, or the subsets, for *)
(* which something holds) rather than of a predicate, and so within reach  *)
(* of first-order provers.  Then, by induction, what Joined and Only of    *)
(* module Lists compute, and the laws of SumFunctionOnSet.                 *)
(***************************************************************************)
EXTENDS Lists, SequencesExt, SequenceTheorems, FiniteSetTheorems, TLAPS

-----------------------------------------------------------------------------
(* Induction.                                                              *)

LEMMA LeastNat ==
  ASSUME NEW T, T \subseteq Nat, T # {}
  PROVE  \E x \in T : \A y \in T : x <= y
<1> PICK n \in T : TRUE
  OBVIOUS
<1> DEFINE S == 0..n
           U == {0..m : m \in {t \in T : t <= n}}
           R == StrictSubsetOrdering(S)
<1>1. IsFiniteSet(S)
  BY FS_Interval
<1>2. IsWellFoundedOn(R, FiniteSubsetsOf(S))
  BY <1>1, FS_StrictSubsetOrderingWellFounded
<1>3. U \subseteq FiniteSubsetsOf(S) /\ U # {}
  <2>1. ASSUME NEW m \in T, m <= n PROVE 0..m \in FiniteSubsetsOf(S)
    <3>1. m \in Nat /\ IsFiniteSet(0..m)
      BY FS_Interval
    <3>2. 0..m \subseteq 0..n
      BY <3>1, <2>1
    <3> QED BY <3>1, <3>2 DEF FiniteSubsetsOf
  <2>2. 0..n \in U
    OBVIOUS
  <2> QED BY <2>1, <2>2
<1>4. PICK x \in U : \A y \in U : ~ (<<y, x>> \in R)
  <2> HIDE DEF R, U, S
  <2> QED BY <1>2, <1>3, WFMin
<1>5. PICK m \in T : m <= n /\ x = 0..m
  OBVIOUS
<1>6. ASSUME NEW k \in T, k < m PROVE FALSE
  <2>1. 0..k \in U
    BY <1>5, <1>6
  <2>2. 0..k \subseteq 0..m /\ m \in 0..m /\ ~ (m \in 0..k)
    BY <1>6
  <2>3. <<0..k, 0..m>> \in R
    BY <2>2, <1>5, <2>1 DEF StrictSubsetOrdering
  <2> QED BY <2>1, <2>3, <1>4, <1>5
<1> QED BY <1>5, <1>6

LEMMA NatInd ==
  ASSUME NEW S, 0 \in S, \A n \in Nat : n \in S => n + 1 \in S
  PROVE  Nat \subseteq S
<1> DEFINE T == Nat \ S
<1>1. SUFFICES ASSUME T # {} PROVE FALSE
  OBVIOUS
<1>2. PICK x \in T : \A y \in T : x <= y
  BY <1>1, LeastNat
<1>5. x \in Nat /\ x # 0
  OBVIOUS
<1>6. x - 1 \in Nat /\ x - 1 \in T
  BY <1>5
<1> QED BY <1>2, <1>5, <1>6

LEMMA FiniteInd ==
  ASSUME NEW S, IsFiniteSet(S), NEW P, {} \in P,
         \A T \in SUBSET S, x \in S : T \in P /\ x \notin T => T \cup {x} \in P
  PROVE  S \in P
<1> DEFINE Q == {n \in Nat : \A T \in SUBSET S : Cardinality(T) = n => T \in P}
<1>1. 0 \in Q
  BY FS_EmptySet, FS_Subset
<1>2. ASSUME NEW n \in Nat, n \in Q PROVE n + 1 \in Q
  <2> SUFFICES ASSUME NEW T \in SUBSET S, Cardinality(T) = n + 1 PROVE T \in P
    OBVIOUS
  <2>1. IsFiniteSet(T)
    BY FS_Subset
  <2>2. T # {}
    <3>1. Cardinality({}) = 0
      BY FS_EmptySet
    <3>2. n + 1 # 0
      OBVIOUS
    <3> QED BY <3>1, <3>2
  <2>3. PICK x \in T : TRUE
    BY <2>2
  <2>4. Cardinality(T \ {x}) = n
    <3>1. Cardinality(T \ {x}) = Cardinality(T) - 1
      BY <2>1, <2>3, FS_RemoveElement
    <3>2. (n + 1) - 1 = n
      OBVIOUS
    <3> QED BY <3>1, <3>2
  <2>5. T \ {x} \in P
    BY <2>4, <1>2
  <2>6. T = (T \ {x}) \cup {x}
    BY <2>3
  <2> QED BY <2>5, <2>6
<1>3. Nat \subseteq Q
  <2> HIDE DEF Q
  <2> QED BY <1>1, <1>2, NatInd
<1> QED BY <1>3, FS_CardinalityType

LEMMA MaxNat ==
  ASSUME NEW T, T \subseteq Nat, T # {}, NEW b \in Nat, \A x \in T : x <= b
  PROVE  Max(T) \in T /\ \A y \in T : y <= Max(T)
<1> DEFINE U == {b - x : x \in T}
<1>1. U \subseteq Nat /\ U # {}
  <2>1. \A x \in T : b - x \in Nat
    OBVIOUS
  <2>2. PICK x \in T : TRUE
    OBVIOUS
  <2>3. b - x \in U
    BY <2>2
  <2> QED
    BY <2>1, <2>3
<1>2. PICK u \in U : \A v \in U : u <= v
  BY <1>1, LeastNat
<1>3. PICK x \in T : u = b - x
  BY <1>2
<1>4. \A y \in T : x >= y
  BY <1>2, <1>3
<1>5. Max(T) \in T /\ \A y \in T : Max(T) >= y
  BY <1>4 DEF Max
<1> QED
  BY <1>5

LEMMA MinNat ==
  ASSUME NEW T, T \subseteq Nat, T # {}
  PROVE  Min(T) \in T /\ \A y \in T : Min(T) <= y
  BY LeastNat DEF Min

-----------------------------------------------------------------------------
(* Lists.                                                                  *)

\* g holds what Joined has after each element of s.
Joins(g, s, S, f) ==
  /\ g[0] = <<>>
  /\ \A n \in Nat : n + 1 <= Len(s) =>
       /\ s[n + 1] \in S => g[n + 1] = g[n] \o f[s[n + 1]]
       /\ s[n + 1] \notin S => g[n + 1] = g[n]

\* Joined computes what its recursion says, step by step.
LEMMA JoinedSteps ==
  ASSUME NEW s, NEW S, NEW f, Len(s) \in Nat
  PROVE  \E g : Joins(g, s, S, f) /\ Joined(s, S, f) = g[Len(s)]
  <1> DEFINE body(g, n) == IF n = 0 THEN <<>>
                           ELSE IF s[n] \in S THEN g[n - 1] \o f[s[n]] ELSE g[n - 1]
             N == {m \in Nat : \E g : g = [n \in 0..m |-> body(g, n)]}
  <1>1. 0 \in N
    <2> DEFINE g == [n \in 0..0 |-> <<>>]
    <2>1. g = [n \in 0..0 |-> body(g, n)]
      OBVIOUS
    <2> QED
      BY <2>1
  <1>2. ASSUME NEW m \in Nat, m \in N
        PROVE  m + 1 \in N
    <2>1. PICK g : g = [n \in 0..m |-> body(g, n)]
      BY <1>2
    <2> DEFINE h == [n \in 0..(m + 1) |-> IF n <= m THEN g[n] ELSE body(g, n)]
    <2>2. ASSUME NEW n \in 0..(m + 1)
          PROVE  h[n] = body(h, n)
      <3>1. CASE n = 0
        BY <2>1, <3>1
      <3>2. CASE n # 0
        <4>1. n - 1 \in 0..m /\ n - 1 <= m
          BY <3>2
        <4>2. h[n - 1] = g[n - 1]
          BY <4>1
        <4>3. body(h, n) = body(g, n)
          BY <4>2, <3>2
        <4>4. h[n] = body(g, n)
          <5>1. CASE n <= m
            <6>1. n \in 0..m
              BY <5>1
            <6>2. g[n] = body(g, n)
              BY <2>1, <6>1
            <6> QED
              BY <5>1, <6>2
          <5>2. CASE ~(n <= m)
            BY <5>2
          <5> QED
            BY <5>1, <5>2
        <4> QED
          BY <4>3, <4>4
      <3> QED
        BY <3>1, <3>2
    <2>3. h = [n \in 0..(m + 1) |-> h[n]]
      OBVIOUS
    <2>4. h = [n \in 0..(m + 1) |-> body(h, n)]
      BY <2>2, <2>3
    <2>5. \E g1 : g1 = [n \in 0..(m + 1) |-> body(g1, n)]
      <3> HIDE DEF h
      <3> QED
        BY <2>4
    <2> QED
      BY <2>5
  <1>3. Nat \subseteq N
    <2> HIDE DEF N
    <2> QED
      BY <1>1, <1>2, NatInd
  <1>4. \E g : g = [n \in 0..Len(s) |-> body(g, n)]
    BY <1>3
  <1> DEFINE j == CHOOSE g : g = [n \in 0..Len(s) |-> body(g, n)]
  <1>5. j = [n \in 0..Len(s) |-> body(j, n)]
    BY <1>4
  <1>6. Joined(s, S, f) = j[Len(s)]
    BY DEF Joined
  <1> HIDE DEF j
  <1>7. \A n \in 0..Len(s) : j[n] = body(j, n)
    BY <1>5
  <1>8. Joins(j, s, S, f)
    <2>1. j[0] = <<>>
      BY <1>7
    <2>2. ASSUME NEW n \in Nat, n + 1 <= Len(s)
          PROVE  /\ s[n + 1] \in S => j[n + 1] = j[n] \o f[s[n + 1]]
                 /\ s[n + 1] \notin S => j[n + 1] = j[n]
      <3>1. n + 1 \in 0..Len(s) /\ n + 1 # 0 /\ (n + 1) - 1 = n
        BY <2>2
      <3>2. j[n + 1] = body(j, n + 1)
        BY <1>7, <3>1
      <3> QED
        BY <3>1, <3>2
    <2> QED
      BY <2>1, <2>2 DEF Joins
  <1> QED
    BY <1>6, <1>8

LEMMA ConcatSet ==
  ASSUME NEW B, NEW a \in Seq(B), NEW b \in Seq(B)
  PROVE  a \o b \in Seq(B) /\ ToSet(a \o b) = ToSet(a) \cup ToSet(b)
  <1>1. /\ a \o b \in Seq(B) /\ Len(a \o b) = Len(a) + Len(b)
        /\ \A i \in 1..(Len(a) + Len(b)) : (a \o b)[i] = IF i <= Len(a) THEN a[i] ELSE b[i - Len(a)]
        /\ Len(a) \in Nat /\ Len(b) \in Nat
        /\ DOMAIN a = 1..Len(a) /\ DOMAIN b = 1..Len(b) /\ DOMAIN (a \o b) = 1..(Len(a) + Len(b))
    BY ConcatProperties, LenProperties
  <1>2. ASSUME NEW i \in 1..Len(b)
        PROVE  b[i] \in ToSet(a \o b)
    <2>1. Len(a) + i \in 1..(Len(a) + Len(b)) /\ ~(Len(a) + i <= Len(a)) /\ (Len(a) + i) - Len(a) = i
      BY <1>1
    <2> QED
      BY <1>1, <2>1 DEF ToSet
  <1>3. ASSUME NEW i \in 1..Len(a)
        PROVE  a[i] \in ToSet(a \o b)
    BY <1>1 DEF ToSet
  <1>4. ASSUME NEW i \in 1..(Len(a) + Len(b))
        PROVE  (a \o b)[i] \in ToSet(a) \cup ToSet(b)
    <2>1. CASE i <= Len(a)
      BY <1>1, <2>1 DEF ToSet
    <2>2. CASE ~(i <= Len(a))
      <3>1. i - Len(a) \in 1..Len(b)
        BY <1>1, <2>2
      <3> QED
        BY <1>1, <2>2, <3>1 DEF ToSet
    <2> QED
      BY <2>1, <2>2
  <1>5. ToSet(a) \cup ToSet(b) \subseteq ToSet(a \o b)
    BY <1>1, <1>2, <1>3 DEF ToSet
  <1>6. ToSet(a \o b) \subseteq ToSet(a) \cup ToSet(b)
    <2> SUFFICES ASSUME NEW x \in ToSet(a \o b) PROVE x \in ToSet(a) \cup ToSet(b)
      OBVIOUS
    <2>1. PICK i \in 1..(Len(a) + Len(b)) : x = (a \o b)[i]
      BY <1>1 DEF ToSet
    <2> QED
      BY <1>4, <2>1
  <1> QED
    BY <1>1, <1>5, <1>6

\* What it joins, and the set of it.
LEMMA JoinedValue ==
  ASSUME NEW A, NEW s \in Seq(A), NEW S, NEW f, NEW B,
         \A n \in DOMAIN s : s[n] \in S => f[s[n]] \in Seq(B)
  PROVE  /\ Joined(s, S, f) \in Seq(B)
         /\ ToSet(Joined(s, S, f)) = UNION {ToSet(f[s[n]]) : n \in {m \in DOMAIN s : s[m] \in S}}
  <1>1. Len(s) \in Nat /\ DOMAIN s = 1..Len(s)
    BY LenProperties
  <1>2. PICK g : Joins(g, s, S, f) /\ Joined(s, S, f) = g[Len(s)]
    BY <1>1, JoinedSteps
  <1> DEFINE upto(m) == UNION {ToSet(f[s[n]]) : n \in {k \in 1..m : s[k] \in S}}
             N == {m \in Nat : m <= Len(s) => g[m] \in Seq(B) /\ ToSet(g[m]) = upto(m)}
  <1>3. 0 \in N
    <2>1. g[0] = <<>> /\ <<>> \in Seq(B) /\ ToSet(<<>>) = {}
      BY <1>2, EmptySeq DEF Joins, ToSet
    <2>2. upto(0) = {}
      OBVIOUS
    <2> HIDE DEF upto
    <2> QED
      BY <2>1, <2>2
  <1>4. ASSUME NEW m \in Nat, m \in N
        PROVE  m + 1 \in N
    <2> SUFFICES ASSUME m + 1 <= Len(s)
                 PROVE  g[m + 1] \in Seq(B) /\ ToSet(g[m + 1]) = upto(m + 1)
      OBVIOUS
    <2>1. m + 1 \in DOMAIN s /\ m <= Len(s)
      BY <1>1
    <2>2. g[m] \in Seq(B) /\ ToSet(g[m]) = upto(m)
      BY <1>4, <2>1
    <2>3. \A k : k \in 1..(m + 1) <=> k \in 1..m \/ k = m + 1
      OBVIOUS
    <2>4. CASE s[m + 1] \in S
      <3>1. g[m + 1] = g[m] \o f[s[m + 1]] /\ f[s[m + 1]] \in Seq(B)
        BY <1>2, <2>1, <2>4 DEF Joins
      <3>2. g[m + 1] \in Seq(B) /\ ToSet(g[m + 1]) = ToSet(g[m]) \cup ToSet(f[s[m + 1]])
        BY <2>2, <3>1, ConcatSet
      <3>3. upto(m + 1) = upto(m) \cup ToSet(f[s[m + 1]])
        BY <2>3, <2>4
      <3> QED
        BY <2>2, <3>2, <3>3
    <2>5. CASE s[m + 1] \notin S
      <3>1. g[m + 1] = g[m]
        BY <1>2, <2>5 DEF Joins
      <3>2. upto(m + 1) = upto(m)
        BY <2>3, <2>5
      <3> QED
        BY <2>2, <3>1, <3>2
    <2> QED
      BY <2>4, <2>5
  <1>5. Nat \subseteq N
    <2> HIDE DEF N
    <2> QED
      BY <1>3, <1>4, NatInd
  <1>6. Len(s) \in N
    BY <1>1, <1>5
  <1> QED
    BY <1>1, <1>2, <1>6

\* The fewer elements count, the shorter it is.
LEMMA JoinedLess ==
  ASSUME NEW A, NEW s \in Seq(A), NEW S, NEW f, NEW R, NEW h, NEW B,
         \A n \in DOMAIN s : s[n] \in R => h[s[n]] \in Seq(B),
         \A n \in DOMAIN s : s[n] \in S => s[n] \in R /\ f[s[n]] = h[s[n]]
  PROVE  Len(Joined(s, S, f)) <= Len(Joined(s, R, h))
  <1>1. Len(s) \in Nat /\ DOMAIN s = 1..Len(s)
    BY LenProperties
  <1>2. PICK g : Joins(g, s, S, f) /\ Joined(s, S, f) = g[Len(s)]
    BY <1>1, JoinedSteps
  <1>3. PICK k : Joins(k, s, R, h) /\ Joined(s, R, h) = k[Len(s)]
    BY <1>1, JoinedSteps
  <1> DEFINE N == {m \in Nat : m <= Len(s) =>
                    g[m] \in Seq(B) /\ k[m] \in Seq(B) /\ Len(g[m]) <= Len(k[m])}
  <1>4. 0 \in N
    <2>1. g[0] \in Seq(B) /\ k[0] \in Seq(B) /\ Len(g[0]) = 0 /\ Len(k[0]) = 0
      BY <1>2, <1>3, EmptySeq DEF Joins
    <2> QED
      BY <2>1
  <1>5. ASSUME NEW m \in Nat, m \in N
        PROVE  m + 1 \in N
    <2> SUFFICES ASSUME m + 1 <= Len(s)
                 PROVE  /\ g[m + 1] \in Seq(B) /\ k[m + 1] \in Seq(B)
                        /\ Len(g[m + 1]) <= Len(k[m + 1])
      OBVIOUS
    <2>1. m + 1 \in DOMAIN s /\ m <= Len(s)
      BY <1>1
    <2>2. /\ g[m] \in Seq(B) /\ k[m] \in Seq(B) /\ Len(g[m]) <= Len(k[m])
          /\ Len(g[m]) \in Nat /\ Len(k[m]) \in Nat
      BY <1>5, <2>1, LenProperties
    <2> DEFINE x == s[m + 1]
    <2>3. CASE x \in R
      <3>1. h[x] \in Seq(B) /\ k[m + 1] = k[m] \o h[x] /\ Len(h[x]) \in Nat
        BY <1>3, <2>1, <2>3, LenProperties DEF Joins
      <3>2. k[m + 1] \in Seq(B) /\ Len(k[m + 1]) = Len(k[m]) + Len(h[x])
        BY <2>2, <3>1, ConcatProperties
      <3>3. CASE x \in S
        <4>1. f[x] = h[x] /\ g[m + 1] = g[m] \o h[x]
          BY <1>2, <2>1, <3>3 DEF Joins
        <4>2. g[m + 1] \in Seq(B) /\ Len(g[m + 1]) = Len(g[m]) + Len(h[x])
          BY <2>2, <3>1, <4>1, ConcatProperties
        <4> HIDE DEF x
        <4> QED
          BY <2>2, <3>1, <3>2, <4>2
      <3>4. CASE x \notin S
        <4>1. g[m + 1] = g[m]
          BY <1>2, <3>4 DEF Joins
        <4>2. Len(g[m]) <= Len(k[m]) + Len(h[x])
          <5>1. /\ Len(g[m]) \in Nat /\ Len(k[m]) \in Nat /\ Len(h[x]) \in Nat
                /\ Len(g[m]) <= Len(k[m])
            BY <2>2, <3>1
          <5>2. \A p, q, r \in Nat : p <= q => p <= q + r
            OBVIOUS
          <5> HIDE DEF x
          <5> QED
            BY <5>1, <5>2
        <4> QED
          BY <2>2, <3>2, <4>1, <4>2
      <3> QED
        BY <3>3, <3>4
    <2>4. CASE x \notin R
      <3>1. g[m + 1] = g[m] /\ k[m + 1] = k[m]
        BY <1>2, <1>3, <2>1, <2>4 DEF Joins
      <3> QED
        BY <2>2, <3>1
    <2> QED
      BY <2>3, <2>4
  <1>6. Nat \subseteq N
    <2> HIDE DEF N
    <2> QED
      BY <1>4, <1>5, NatInd
  <1> QED
    BY <1>1, <1>2, <1>3, <1>6

\* It depends on nothing but the elements that count.
LEMMA JoinedSame ==
  ASSUME NEW A, NEW s \in Seq(A), NEW S, NEW f, NEW R, NEW h,
         \A n \in DOMAIN s : s[n] \in S <=> s[n] \in R,
         \A n \in DOMAIN s : s[n] \in S => f[s[n]] = h[s[n]]
  PROVE  Joined(s, S, f) = Joined(s, R, h)
  <1>1. Len(s) \in Nat /\ DOMAIN s = 1..Len(s)
    BY LenProperties
  <1>2. PICK g : Joins(g, s, S, f) /\ Joined(s, S, f) = g[Len(s)]
    BY <1>1, JoinedSteps
  <1>3. PICK k : Joins(k, s, R, h) /\ Joined(s, R, h) = k[Len(s)]
    BY <1>1, JoinedSteps
  <1> DEFINE N == {m \in Nat : m <= Len(s) => g[m] = k[m]}
  <1>4. 0 \in N
    BY <1>2, <1>3 DEF Joins
  <1>5. ASSUME NEW m \in Nat, m \in N
        PROVE  m + 1 \in N
    <2> SUFFICES ASSUME m + 1 <= Len(s)
                 PROVE  g[m + 1] = k[m + 1]
      OBVIOUS
    <2>1. m + 1 \in DOMAIN s /\ m <= Len(s)
      BY <1>1
    <2>2. g[m] = k[m]
      BY <1>5, <2>1
    <2> QED
      BY <1>2, <1>3, <2>1, <2>2 DEF Joins
  <1>6. Nat \subseteq N
    <2> HIDE DEF N
    <2> QED
      BY <1>4, <1>5, NatInd
  <1> QED
    BY <1>1, <1>2, <1>3, <1>6

\* Only keeps the elements of S ...
LEMMA OnlyValue ==
  ASSUME NEW A, NEW s \in Seq(A), NEW S
  PROVE  Only(s, S) \in Seq(A) /\ ToSet(Only(s, S)) = ToSet(s) \cap S
  <1> DEFINE f == [x \in S |-> <<x>>]
  <1>1. ASSUME NEW n \in DOMAIN s, s[n] \in S
        PROVE  f[s[n]] \in Seq(A) /\ ToSet(f[s[n]]) = {s[n]}
    <2>1. s[n] \in A
      BY ElementOfSeq, LenProperties
    <2>2. f[s[n]] = <<s[n]>>
      BY <1>1
    <2>3. <<s[n]>> \in Seq(A) /\ ToSet(<<s[n]>>) = {s[n]}
      BY <2>1 DEF ToSet
    <2> QED
      BY <2>2, <2>3
  <1>2. /\ Joined(s, S, f) \in Seq(A)
        /\ ToSet(Joined(s, S, f)) = UNION {ToSet(f[s[n]]) : n \in {m \in DOMAIN s : s[m] \in S}}
    <2> HIDE DEF f
    <2> QED
      BY <1>1, JoinedValue
  <1>3. UNION {ToSet(f[s[n]]) : n \in {m \in DOMAIN s : s[m] \in S}} = ToSet(s) \cap S
    <2> HIDE DEF f
    <2>1. \A n \in DOMAIN s : s[n] \in S => ToSet(f[s[n]]) = {s[n]}
      BY <1>1
    <2>2. UNION {ToSet(f[s[n]]) : n \in {m \in DOMAIN s : s[m] \in S}}
            = UNION {{s[n]} : n \in {m \in DOMAIN s : s[m] \in S}}
      BY <2>1
    <2> QED
      BY <2>2 DEF ToSet
  <1> QED
    BY <1>2, <1>3 DEF Only

\* ... and all of s when S has them all.
LEMMA OnlyAll ==
  ASSUME NEW A, NEW s \in Seq(A), NEW S, ToSet(s) \subseteq S
  PROVE  Only(s, S) = s
  <1>1. Len(s) \in Nat /\ DOMAIN s = 1..Len(s)
    BY LenProperties
  <1> DEFINE f == [x \in S |-> <<x>>]
  <1>2. PICK g : Joins(g, s, S, f) /\ Joined(s, S, f) = g[Len(s)]
    <2> HIDE DEF f
    <2> QED
      BY <1>1, JoinedSteps
  <1> DEFINE N == {m \in Nat : m <= Len(s) =>
                    /\ g[m] \in Seq(A) /\ Len(g[m]) = m
                    /\ \A i \in 1..m : g[m][i] = s[i]}
  <1>3. 0 \in N
    <2>1. g[0] \in Seq(A) /\ Len(g[0]) = 0
      BY <1>2, EmptySeq DEF Joins
    <2>2. \A i \in 1..0 : g[0][i] = s[i]
      OBVIOUS
    <2> QED
      BY <2>1, <2>2
  <1>4. ASSUME NEW m \in Nat, m \in N
        PROVE  m + 1 \in N
    <2> SUFFICES ASSUME m + 1 <= Len(s)
                 PROVE  /\ g[m + 1] \in Seq(A) /\ Len(g[m + 1]) = m + 1
                        /\ \A i \in 1..(m + 1) : g[m + 1][i] = s[i]
      OBVIOUS
    <2>1. m + 1 \in DOMAIN s /\ m <= Len(s)
      BY <1>1
    <2>2. g[m] \in Seq(A) /\ Len(g[m]) = m /\ \A i \in 1..m : g[m][i] = s[i]
      BY <1>4, <2>1
    <2>3. s[m + 1] \in S /\ s[m + 1] \in A
      BY <2>1, ElementOfSeq, <1>1 DEF ToSet
    <2>4. f[s[m + 1]] = <<s[m + 1]>>
      BY <2>3
    <2>5. g[m + 1] = g[m] \o <<s[m + 1]>>
      <3> HIDE DEF f
      <3> QED
        BY <1>2, <2>1, <2>3, <2>4 DEF Joins
    <2>6. g[m + 1] = Append(g[m], s[m + 1])
      BY <2>2, <2>3, <2>5, AppendIsConcat
    <2> QED
      BY <2>2, <2>3, <2>6, AppendProperties
  <1>5. Nat \subseteq N
    <2> HIDE DEF N
    <2> QED
      BY <1>3, <1>4, NatInd
  <1>6. Len(s) \in N
    BY <1>1, <1>5
  <1>7. /\ Joined(s, S, f) \in Seq(A) /\ Len(Joined(s, S, f)) = Len(s)
        /\ \A i \in 1..Len(s) : Joined(s, S, f)[i] = s[i]
    <2> HIDE DEF f
    <2> QED
      BY <1>1, <1>2, <1>6
  <1>8. Joined(s, S, f) = s
    <2> HIDE DEF f
    <2> QED
      BY <1>7, SeqEqual
  <1> QED
    BY <1>8 DEF Only

\* And it has no more than the whole list.
LEMMA OnlyLess ==
  ASSUME NEW A, NEW s \in Seq(A), NEW S
  PROVE  Len(Only(s, S)) <= Len(s)
  <1> DEFINE R == S \cup ToSet(s)
             f == [x \in S |-> <<x>>]
             h == [x \in R |-> <<x>>]
  <1>1. \A n \in DOMAIN s : s[n] \in A /\ s[n] \in R
    BY ElementOfSeq, LenProperties DEF ToSet
  <1>2. ASSUME NEW n \in DOMAIN s
        PROVE  h[s[n]] \in Seq(A) /\ (s[n] \in S => f[s[n]] = h[s[n]])
    <2>1. h[s[n]] = <<s[n]>> /\ (s[n] \in S => f[s[n]] = <<s[n]>>)
      BY <1>1
    <2> QED
      BY <1>1, <2>1
  <1>3. Joined(s, R, h) = s
    <2>1. ToSet(s) \subseteq R
      OBVIOUS
    <2>2. Only(s, R) = s
      <3> HIDE DEF R, h
      <3> QED
        BY <2>1, OnlyAll
    <2> QED
      BY <2>2 DEF Only
  <1>4. Only(s, S) = Joined(s, S, f)
    BY DEF Only
  <1> HIDE DEF R, f, h
  <1> QED
    BY <1>1, <1>2, <1>3, <1>4, JoinedLess

-----------------------------------------------------------------------------
(* Sums.                                                                   *)

\* The element of T the library adds first.
Chosen(T) == CHOOSE x \in T : TRUE

\* g holds the sums of f over the sets in D, which has their subsets.
Sums(g, f, D) ==
  g = [T \in D |-> IF T = {} THEN 0 ELSE f[Chosen(T)] + g[T \ {Chosen(T)}]]

\* The subsets of S of at most n elements.
Small(S, n) == {T \in SUBSET S : Cardinality(T) <= n}

LEMMA ChosenOf ==
  ASSUME NEW S, IsFiniteSet(S), NEW T \in SUBSET S, T # {}
  PROVE  /\ Chosen(T) \in T /\ T \ {Chosen(T)} \in SUBSET S
         /\ Cardinality(T) \in Nat /\ Cardinality(T \ {Chosen(T)}) = Cardinality(T) - 1
  <1>1. Chosen(T) \in T
    BY DEF Chosen
  <1>2. IsFiniteSet(T)
    BY FS_Subset
  <1> QED
    BY <1>1, <1>2, FS_CardinalityType, FS_RemoveElement

LEMMA SumsExist ==
  ASSUME NEW f, NEW S, IsFiniteSet(S)
  PROVE  \E g : Sums(g, f, SUBSET S)
  <1> DEFINE N == {n \in Nat : \E g : Sums(g, f, Small(S, n))}
             step(g, T) == IF T = {} THEN 0 ELSE f[Chosen(T)] + g[T \ {Chosen(T)}]
  <1>1. 0 \in N
    <2> DEFINE g == [T \in Small(S, 0) |-> 0]
    <2>1. ASSUME NEW T \in Small(S, 0) PROVE T = {}
      <3>1. IsFiniteSet(T) /\ Cardinality(T) \in Nat
        BY FS_Subset, FS_CardinalityType DEF Small
      <3>2. Cardinality(T) = 0
        BY <3>1 DEF Small
      <3> QED
        BY <3>1, <3>2, FS_EmptySet
    <2>2. g = [T \in Small(S, 0) |-> step(g, T)]
      BY <2>1
    <2>3. Sums(g, f, Small(S, 0))
      BY <2>2 DEF Sums
    <2> HIDE DEF g
    <2> QED
      BY <2>3
  <1>2. ASSUME NEW n \in Nat, n \in N PROVE n + 1 \in N
    <2>1. PICK g : Sums(g, f, Small(S, n))
      BY <1>2
    <2> DEFINE h == [T \in Small(S, n + 1) |-> step(g, T)]
    <2>2. ASSUME NEW T \in Small(S, n + 1), T # {}
          PROVE  T \ {Chosen(T)} \in Small(S, n) /\ T \ {Chosen(T)} \in Small(S, n + 1)
      <3>1. /\ T \in SUBSET S /\ Cardinality(T) <= n + 1
            /\ T \ {Chosen(T)} \in SUBSET S
            /\ Cardinality(T) \in Nat /\ Cardinality(T \ {Chosen(T)}) = Cardinality(T) - 1
        BY <2>2, ChosenOf DEF Small
      <3>2. Cardinality(T \ {Chosen(T)}) <= n /\ Cardinality(T \ {Chosen(T)}) <= n + 1
        BY <3>1
      <3> QED
        BY <3>1, <3>2 DEF Small
    <2>3. ASSUME NEW T \in Small(S, n) PROVE T \in Small(S, n + 1) /\ g[T] = step(g, T)
      <3>1. T \in SUBSET S /\ Cardinality(T) <= n /\ Cardinality(T) \in Nat
        BY FS_Subset, FS_CardinalityType DEF Small
      <3>2. g = [U \in Small(S, n) |-> step(g, U)]
        BY <2>1 DEF Sums
      <3>3. g[T] = step(g, T)
        <4> HIDE DEF step
        <4> QED
          BY <3>2
      <3> QED
        BY <3>1, <3>3 DEF Small
    <2>4. ASSUME NEW T \in Small(S, n) PROVE h[T] = g[T]
      BY <2>3
    <2>5. ASSUME NEW T \in Small(S, n + 1) PROVE h[T] = step(h, T)
      <3>1. h[T] = step(g, T)
        OBVIOUS
      <3>2. T # {} => h[T \ {Chosen(T)}] = g[T \ {Chosen(T)}]
        BY <2>2, <2>4
      <3> HIDE DEF h
      <3> QED
        BY <3>1, <3>2
    <2>6. h = [T \in Small(S, n + 1) |-> h[T]]
      OBVIOUS
    <2> HIDE DEF h
    <2>7. h = [T \in Small(S, n + 1) |-> step(h, T)]
      <3> HIDE DEF step
      <3> QED
        BY <2>5, <2>6
    <2>8. Sums(h, f, Small(S, n + 1))
      BY <2>7 DEF Sums
    <2> QED
      BY <2>8
  <1>3. Nat \subseteq N
    <2> HIDE DEF N
    <2> QED
      BY <1>1, <1>2, NatInd
  <1>4. Cardinality(S) \in Nat /\ Small(S, Cardinality(S)) = SUBSET S
    BY FS_CardinalityType, FS_Subset DEF Small
  <1> QED
    BY <1>3, <1>4

\* What the library computes, as one function on the subsets of S.
LEMMA SumSteps ==
  ASSUME NEW f, NEW S, IsFiniteSet(S)
  PROVE  \E g : Sums(g, f, SUBSET S) /\ SumFunctionOnSet(f, S) = g[S]
  <1> DEFINE g == CHOOSE x : Sums(x, f, SUBSET S)
  <1>1. Sums(g, f, SUBSET S)
    BY SumsExist
  <1>2. SumFunctionOnSet(f, S) = g[S]
    BY DEF Sums, SumFunctionOnSet, FoldFunctionOnSet, MapThenFoldSet, Chosen
  <1> HIDE DEF g
  <1> QED
    BY <1>1, <1>2

\* The sums over the subsets are the library's, whatever set they are part of.
LEMMA SumsAgree ==
  ASSUME NEW f, NEW S, IsFiniteSet(S), NEW g, Sums(g, f, SUBSET S), NEW T \in SUBSET S
  PROVE  g[T] = SumFunctionOnSet(f, T)
  <1>1. IsFiniteSet(T)
    BY FS_Subset
  <1>2. PICK h : Sums(h, f, SUBSET T) /\ SumFunctionOnSet(f, T) = h[T]
    BY <1>1, SumSteps
  <1> DEFINE N == {n \in Nat : \A U \in SUBSET T : Cardinality(U) = n => g[U] = h[U]}
  <1>3. ASSUME NEW U \in SUBSET T
        PROVE  /\ U = {} => g[U] = 0 /\ h[U] = 0
               /\ U # {} => /\ g[U] = f[Chosen(U)] + g[U \ {Chosen(U)}]
                            /\ h[U] = f[Chosen(U)] + h[U \ {Chosen(U)}]
    <2>1. U \in SUBSET S
      OBVIOUS
    <2>2. g[U] = IF U = {} THEN 0 ELSE f[Chosen(U)] + g[U \ {Chosen(U)}]
      BY <2>1 DEF Sums
    <2>3. h[U] = IF U = {} THEN 0 ELSE f[Chosen(U)] + h[U \ {Chosen(U)}]
      BY <1>2 DEF Sums
    <2> QED
      BY <2>2, <2>3
  <1>4. 0 \in N
    BY <1>1, <1>3, FS_EmptySet, FS_Subset
  <1>5. ASSUME NEW n \in Nat, n \in N PROVE n + 1 \in N
    <2> SUFFICES ASSUME NEW U \in SUBSET T, Cardinality(U) = n + 1 PROVE g[U] = h[U]
      OBVIOUS
    <2>1. U # {}
      BY FS_EmptySet
    <2>2. U \ {Chosen(U)} \in SUBSET T /\ Cardinality(U \ {Chosen(U)}) = n
      BY <1>1, <2>1, ChosenOf
    <2>3. g[U \ {Chosen(U)}] = h[U \ {Chosen(U)}]
      BY <1>5, <2>2
    <2> QED
      BY <1>3, <2>1, <2>3
  <1>6. Nat \subseteq N
    <2> HIDE DEF N
    <2> QED
      BY <1>4, <1>5, NatInd
  <1>7. Cardinality(T) \in Nat
    BY <1>1, FS_CardinalityType
  <1> QED
    BY <1>2, <1>6, <1>7

\* The sum in the order the library adds.
LEMMA SumChosen ==
  ASSUME NEW f, NEW S, IsFiniteSet(S)
  PROVE  /\ S = {} => SumFunctionOnSet(f, S) = 0
         /\ S # {} => SumFunctionOnSet(f, S)
                        = f[Chosen(S)] + SumFunctionOnSet(f, S \ {Chosen(S)})
  <1>1. PICK g : Sums(g, f, SUBSET S) /\ SumFunctionOnSet(f, S) = g[S]
    BY SumSteps
  <1>2. g[S] = IF S = {} THEN 0 ELSE f[Chosen(S)] + g[S \ {Chosen(S)}]
    BY <1>1 DEF Sums
  <1> DEFINE rest == S \ {Chosen(S)}
  <1>3. g[rest] = SumFunctionOnSet(f, rest)
    <2>1. rest \in SUBSET S
      OBVIOUS
    <2>2. Sums(g, f, SUBSET S)
      BY <1>1
    <2>3. \A T \in SUBSET S : g[T] = SumFunctionOnSet(f, T)
      BY <2>2, SumsAgree
    <2> QED
      BY <2>1, <2>3
  <1> QED
    BY <1>1, <1>2, <1>3

\* A sum of integers is an integer.
LEMMA SumInt ==
  ASSUME NEW f, NEW S, IsFiniteSet(S), \A x \in S : f[x] \in Int
  PROVE  SumFunctionOnSet(f, S) \in Int
  <1> DEFINE sum(T) == SumFunctionOnSet(f, T)
             N == {n \in Nat : \A T \in SUBSET S : Cardinality(T) = n => sum(T) \in Int}
  <1>1. ASSUME NEW T \in SUBSET S
        PROVE  /\ T = {} => sum(T) = 0
               /\ T # {} => sum(T) = f[Chosen(T)] + sum(T \ {Chosen(T)})
    BY FS_Subset, SumChosen
  <1> HIDE DEF sum
  <1>2. 0 \in N
    <2> SUFFICES ASSUME NEW T \in SUBSET S, Cardinality(T) = 0 PROVE sum(T) \in Int
      OBVIOUS
    <2>1. T = {}
      BY FS_Subset, FS_EmptySet
    <2>2. sum(T) = 0
      BY <1>1, <2>1
    <2> QED
      BY <2>2
  <1>3. ASSUME NEW n \in Nat, n \in N PROVE n + 1 \in N
    <2> SUFFICES ASSUME NEW T \in SUBSET S, Cardinality(T) = n + 1 PROVE sum(T) \in Int
      OBVIOUS
    <2> DEFINE y == Chosen(T)
    <2>1. T # {}
      BY FS_EmptySet
    <2>2. y \in T /\ T \ {y} \in SUBSET S /\ Cardinality(T \ {y}) = n
      BY <2>1, ChosenOf
    <2>3. sum(T \ {y}) \in Int /\ sum(T) = f[y] + sum(T \ {y})
      BY <1>1, <1>3, <2>1, <2>2
    <2> HIDE DEF y
    <2> QED
      BY <2>2, <2>3
  <1>4. Nat \subseteq N
    <2> HIDE DEF N
    <2> QED
      BY <1>2, <1>3, NatInd
  <1>5. Cardinality(S) \in Nat
    BY FS_CardinalityType
  <1>6. sum(S) \in Int
    BY <1>4, <1>5
  <1> QED
    BY <1>6 DEF sum

\* Any term of a sum may be added first.
LEMMA SumRemove ==
  ASSUME NEW f, NEW S, IsFiniteSet(S), \A x \in S : f[x] \in Int, NEW z \in S
  PROVE  SumFunctionOnSet(f, S) = f[z] + SumFunctionOnSet(f, S \ {z})
  <1> DEFINE sum(T) == SumFunctionOnSet(f, T)
             N == {n \in Nat : \A T \in SUBSET S : Cardinality(T) = n =>
                                 \A x \in T : sum(T) = f[x] + sum(T \ {x})}
  <1>1. ASSUME NEW T \in SUBSET S
        PROVE  sum(T) \in Int /\ (T # {} => sum(T) = f[Chosen(T)] + sum(T \ {Chosen(T)}))
    BY FS_Subset, SumChosen, SumInt
  <1> HIDE DEF sum
  <1>2. 0 \in N
    BY FS_Subset, FS_EmptySet
  <1>3. ASSUME NEW n \in Nat, n \in N PROVE n + 1 \in N
    <2> SUFFICES ASSUME NEW T \in SUBSET S, Cardinality(T) = n + 1, NEW x \in T
                 PROVE  sum(T) = f[x] + sum(T \ {x})
      OBVIOUS
    <2> DEFINE y == Chosen(T)
    <2>1. T # {}
      OBVIOUS
    <2>2. y \in T /\ T \ {y} \in SUBSET S /\ Cardinality(T \ {y}) = n
      BY <2>1, ChosenOf
    <2>3. sum(T) = f[y] + sum(T \ {y})
      BY <1>1, <2>1
    <2> HIDE DEF y
    <2>4. CASE x = y
      BY <2>3, <2>4
    <2>5. CASE x # y
      <3>1. sum(T \ {y}) = f[x] + sum((T \ {y}) \ {x})
        BY <1>3, <2>2, <2>5
      <3>2. T \ {x} \in SUBSET S /\ Cardinality(T \ {x}) = n
        <4>1. IsFiniteSet(T)
          BY FS_Subset
        <4>2. Cardinality(T \ {x}) = Cardinality(T) - 1
          BY <4>1, FS_RemoveElement
        <4> QED
          BY <4>2
      <3>3. sum(T \ {x}) = f[y] + sum((T \ {x}) \ {y})
        BY <1>3, <2>2, <2>5, <3>2
      <3>4. sum((T \ {x}) \ {y}) = sum((T \ {y}) \ {x})
        <4>1. (T \ {x}) \ {y} = (T \ {y}) \ {x}
          OBVIOUS
        <4> QED
          BY <4>1
      <3>5. sum((T \ {y}) \ {x}) \in Int /\ f[x] \in Int /\ f[y] \in Int
        BY <1>1, <2>2
      <3> QED
        BY <2>3, <3>1, <3>3, <3>4, <3>5
    <2> QED
      BY <2>4, <2>5
  <1>4. Nat \subseteq N
    <2> HIDE DEF N
    <2> QED
      BY <1>2, <1>3, NatInd
  <1>5. Cardinality(S) \in Nat
    BY FS_CardinalityType
  <1>6. sum(S) = f[z] + sum(S \ {z})
    BY <1>4, <1>5
  <1> QED
    BY <1>6 DEF sum

\* A sum that grows by a term.
LEMMA SumAdd ==
  ASSUME NEW f, NEW S, IsFiniteSet(S), NEW z, z \notin S, \A x \in S \cup {z} : f[x] \in Int
  PROVE  SumFunctionOnSet(f, S \cup {z}) = f[z] + SumFunctionOnSet(f, S)
  <1>1. IsFiniteSet(S \cup {z}) /\ (S \cup {z}) \ {z} = S
    BY FS_AddElement
  <1>2. SumFunctionOnSet(f, S \cup {z}) = f[z] + SumFunctionOnSet(f, (S \cup {z}) \ {z})
    BY <1>1, SumRemove
  <1> QED
    BY <1>1, <1>2

\* Equal terms, or terms that are the sum of two others, term by term.
LEMMA SumTerms ==
  ASSUME NEW S, IsFiniteSet(S), NEW f, NEW g, NEW h,
         \A x \in S : g[x] \in Int /\ h[x] \in Int /\ f[x] = g[x] + h[x]
  PROVE  SumFunctionOnSet(f, S) = SumFunctionOnSet(g, S) + SumFunctionOnSet(h, S)
  <1> DEFINE sum(k, T) == SumFunctionOnSet(k, T)
             P == {T \in SUBSET S : sum(f, T) = sum(g, T) + sum(h, T)}
  <1>1. {} \in P
    <2>1. sum(f, {}) = 0 /\ sum(g, {}) = 0 /\ sum(h, {}) = 0
      BY SumChosen, FS_EmptySet
    <2> HIDE DEF sum
    <2> QED
      BY <2>1
  <1>2. ASSUME NEW T \in SUBSET S, NEW x \in S, T \in P, x \notin T PROVE T \cup {x} \in P
    <2>1. IsFiniteSet(T) /\ \A y \in T \cup {x} : f[y] \in Int /\ g[y] \in Int /\ h[y] \in Int
      BY FS_Subset
    <2>2. /\ sum(f, T \cup {x}) = f[x] + sum(f, T)
          /\ sum(g, T \cup {x}) = g[x] + sum(g, T)
          /\ sum(h, T \cup {x}) = h[x] + sum(h, T)
      BY <1>2, <2>1, SumAdd
    <2>3. sum(g, T) \in Int /\ sum(h, T) \in Int
      BY <2>1, SumInt
    <2> HIDE DEF sum
    <2> QED
      BY <1>2, <2>1, <2>2, <2>3
  <1>3. S \in P
    <2> HIDE DEF P
    <2> QED
      BY <1>1, <1>2, FiniteInd
  <1> QED
    BY <1>3

LEMMA SumEqual ==
  ASSUME NEW S, IsFiniteSet(S), NEW f, NEW g, \A x \in S : g[x] \in Int /\ f[x] = g[x]
  PROVE  SumFunctionOnSet(f, S) = SumFunctionOnSet(g, S)
  <1> DEFINE sum(k, T) == SumFunctionOnSet(k, T)
             P == {T \in SUBSET S : sum(f, T) = sum(g, T)}
  <1>1. {} \in P
    BY SumChosen, FS_EmptySet
  <1>2. ASSUME NEW T \in SUBSET S, NEW x \in S, T \in P, x \notin T PROVE T \cup {x} \in P
    <2>1. IsFiniteSet(T) /\ \A y \in T \cup {x} : f[y] \in Int /\ g[y] \in Int
      BY FS_Subset
    <2>2. sum(f, T \cup {x}) = f[x] + sum(f, T) /\ sum(g, T \cup {x}) = g[x] + sum(g, T)
      BY <1>2, <2>1, SumAdd
    <2> HIDE DEF sum
    <2> QED
      BY <1>2, <2>2
  <1>3. S \in P
    <2> HIDE DEF P
    <2> QED
      BY <1>1, <1>2, FiniteInd
  <1> QED
    BY <1>3

\* Terms that are all 0.
LEMMA SumZero ==
  ASSUME NEW S, IsFiniteSet(S), NEW f, \A x \in S : f[x] = 0
  PROVE  SumFunctionOnSet(f, S) = 0
  <1> DEFINE sum == SumFunctionOnSet(f, S)
  <1>1. sum = sum + sum
    BY SumTerms
  <1>2. sum \in Int
    BY SumInt
  <1>3. sum = 0
    <2> HIDE DEF sum
    <2> QED
      BY <1>1, <1>2
  <1> QED
    BY <1>3

\* Terms that are positive.
LEMMA SumPositive ==
  ASSUME NEW S, IsFiniteSet(S), NEW f, \A x \in S : f[x] \in Nat \ {0}
  PROVE  SumFunctionOnSet(f, S) \in Nat /\ (SumFunctionOnSet(f, S) > 0 <=> S # {})
  <1> DEFINE sum(T) == SumFunctionOnSet(f, T)
             P == {T \in SUBSET S : sum(T) \in Nat /\ (sum(T) > 0 <=> T # {})}
  <1>1. {} \in P
    <2>1. sum({}) = 0
      BY SumChosen, FS_EmptySet
    <2> HIDE DEF sum
    <2> QED
      BY <2>1
  <1>2. ASSUME NEW T \in SUBSET S, NEW x \in S, T \in P, x \notin T PROVE T \cup {x} \in P
    <2>1. IsFiniteSet(T) /\ \A y \in T \cup {x} : f[y] \in Int
      BY FS_Subset
    <2>2. sum(T \cup {x}) = f[x] + sum(T)
      BY <1>2, <2>1, SumAdd
    <2> HIDE DEF sum
    <2> QED
      BY <1>2, <2>2
  <1>3. S \in P
    <2> HIDE DEF P
    <2> QED
      BY <1>1, <1>2, FiniteInd
  <1> QED
    BY <1>3

\* Two sets with nothing in common are added up together.
LEMMA SumUnion ==
  ASSUME NEW S, IsFiniteSet(S), NEW U, IsFiniteSet(U), S \cap U = {},
         NEW f, \A x \in S \cup U : f[x] \in Int
  PROVE  SumFunctionOnSet(f, S \cup U) = SumFunctionOnSet(f, S) + SumFunctionOnSet(f, U)
  <1> DEFINE sum(T) == SumFunctionOnSet(f, T)
             P == {T \in SUBSET S : sum(T \cup U) = sum(T) + sum(U)}
  <1>0. sum(U) \in Int
    BY SumInt
  <1>1. {} \in P
    <2>1. {} \cup U = U /\ sum({}) = 0
      BY SumChosen, FS_EmptySet
    <2> HIDE DEF sum
    <2> QED
      BY <1>0, <2>1
  <1>2. ASSUME NEW T \in SUBSET S, NEW x \in S, T \in P, x \notin T PROVE T \cup {x} \in P
    <2>1. /\ IsFiniteSet(T) /\ IsFiniteSet(T \cup U) /\ x \notin T \cup U
          /\ (T \cup {x}) \cup U = (T \cup U) \cup {x}
      BY <1>2, FS_Subset, FS_Union
    <2>2. /\ \A y \in T \cup {x} : f[y] \in Int
          /\ \A y \in (T \cup U) \cup {x} : f[y] \in Int
      OBVIOUS
    <2>3. sum(T \cup {x}) = f[x] + sum(T)
      BY <1>2, <2>1, <2>2, SumAdd
    <2>4. sum((T \cup U) \cup {x}) = f[x] + sum(T \cup U)
      BY <2>1, <2>2, SumAdd
    <2>5. sum(T) \in Int
      BY <2>1, <2>2, SumInt
    <2> HIDE DEF sum
    <2>6. f[x] \in Int /\ sum(T \cup U) = sum(T) + sum(U)
      BY <1>2
    <2>7. sum((T \cup {x}) \cup U) = f[x] + (sum(T) + sum(U))
      BY <2>1, <2>4, <2>6
    <2>8. sum((T \cup {x}) \cup U) = sum(T \cup {x}) + sum(U)
      BY <1>0, <2>3, <2>5, <2>6, <2>7
    <2> QED
      BY <2>8
  <1>3. S \in P
    <2> HIDE DEF P
    <2> QED
      BY <1>1, <1>2, FiniteInd
  <1> QED
    BY <1>3

\* A set in parts, one for each index in I: h[i] is the sum over part i.
LEMMA SumParts ==
  ASSUME NEW I, IsFiniteSet(I), NEW S, IsFiniteSet(S), NEW part, NEW f, NEW h,
         \A x \in S : f[x] \in Int,
         \A i \in I : part[i] \subseteq S /\ h[i] = SumFunctionOnSet(f, part[i]),
         \A i, j \in I : i # j => part[i] \cap part[j] = {}
  PROVE  SumFunctionOnSet(h, I) = SumFunctionOnSet(f, UNION {part[i] : i \in I})
  <1> DEFINE sum(k, T) == SumFunctionOnSet(k, T)
             all(T) == UNION {part[i] : i \in T}
             P == {T \in SUBSET I : sum(h, T) = sum(f, all(T))}
  <1>1. {} \in P
    <2>1. all({}) = {}
      OBVIOUS
    <2> QED
      BY <2>1, SumChosen, FS_EmptySet
  <1>2. ASSUME NEW T \in SUBSET I, NEW i \in I, T \in P, i \notin T PROVE T \cup {i} \in P
    <2>1. all(T) \subseteq S /\ part[i] \subseteq S
      OBVIOUS
    <2>2. all(T \cup {i}) = part[i] \cup all(T) /\ part[i] \cap all(T) = {}
      BY <1>2
    <2> HIDE DEF all
    <2>3. IsFiniteSet(T) /\ IsFiniteSet(part[i]) /\ IsFiniteSet(all(T))
      BY <2>1, FS_Subset
    <2>4. sum(f, part[i] \cup all(T)) = sum(f, part[i]) + sum(f, all(T))
      BY <2>1, <2>2, <2>3, SumUnion
    <2>5. \A j \in T \cup {i} : h[j] \in Int
      <3>1. ASSUME NEW j \in I PROVE h[j] \in Int
        <4>1. part[j] \subseteq S /\ h[j] = SumFunctionOnSet(f, part[j])
          OBVIOUS
        <4>2. IsFiniteSet(part[j])
          BY <4>1, FS_Subset
        <4> QED
          BY <4>1, <4>2, SumInt
      <3> QED
        BY <3>1
    <2>6. sum(h, T \cup {i}) = h[i] + sum(h, T)
      BY <1>2, <2>3, <2>5, SumAdd
    <2> QED
      BY <1>2, <2>2, <2>4, <2>6
  <1>3. I \in P
    <2> HIDE DEF P
    <2> QED
      BY <1>1, <1>2, FiniteInd
  <1> QED
    BY <1>3

-----------------------------------------------------------------------------
(* A percentage of what is short of the whole is short of 100.             *)

LEMMA PercentBelow ==
  ASSUME NEW p \in Nat, NEW n \in Nat, p < n
  PROVE  (100 * p) \div n \in 0..99
<1> DEFINE q == (100 * p) \div n
           r == (100 * p) % n
<1>1. q \in Int /\ q >= 0 /\ r \in 0..(n - 1) /\ 100 * p = n * q + r
  OBVIOUS
<1> HIDE DEF q, r
<1>2. q < 100
  <2> SUFFICES ASSUME q >= 100 PROVE FALSE
     BY <1>1
  <2>1. q - 100 \in Nat /\ q = 100 + (q - 100)
    BY <1>1
  <2>2. n * (q - 100) \in Nat /\ n * q = n * 100 + n * (q - 100)
    BY <2>1
  <2> QED
    BY <1>1, <2>2
<1>3. q \in 0..99
  BY <1>1, <1>2
<1> QED
  BY <1>3 DEF q

=============================================================================
