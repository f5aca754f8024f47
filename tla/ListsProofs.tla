----------------------------- MODULE ListsProofs -----------------------------
(***************************************************************************)
(* What taking entries out of a list does, for lists of anything: the      *)
(* entries kept are all there, each once, in their order.  And what sums   *)
(* are: of the parts, of the same numbers in another order, of a share for *)
(* everybody; and remainders, of whole numbers.                            *)
(***************************************************************************)
EXTENDS Lists, FiniteSetTheorems, WellFoundedInduction, TLAPS

\* Every set of positions has a first one.
LEMMA Least ==
    ASSUME NEW S \in SUBSET Nat, S # {}
    PROVE  \E m \in S : \A n \in S : m <= n
  <1> DEFINE below(m) == S \cap (0..m)
             Parts == {below(m) : m \in S}
  <1>1. Parts \subseteq FiniteSubsetsOf(Nat) /\ Parts # {}
    <2> SUFFICES ASSUME NEW m \in S PROVE IsFiniteSet(below(m)) /\ below(m) \in SUBSET Nat
      BY DEF FiniteSubsetsOf
    <2> QED BY FS_BoundedSetOfNaturals
  <1>2. PICK P \in Parts : \A Q \in Parts : <<Q, P>> \notin StrictSubsetOrdering(Nat)
    <2> HIDE DEF Parts
    <2> QED BY <1>1, FS_StrictSubsetOrderingWellFounded, WFMin
  <1>3. PICK m \in S : P = below(m)
    OBVIOUS
  <1>4. ASSUME NEW n \in S, n < m PROVE FALSE
    <2>1. below(n) \subseteq below(m) /\ m \in below(m) /\ m \notin below(n)
      BY <1>4
    <2>2. below(n) \in Parts
      OBVIOUS
    <2> QED BY <1>2, <1>3, <2>1, <2>2 DEF StrictSubsetOrdering
  <1> QED BY <1>4

\* The k-th position that is kept: positions are kept in their order, each once.
LEMMA KeepingOrder ==
    ASSUME NEW S, NEW s \in Seq(S), NEW kept \in SUBSET DOMAIN s
    PROVE  /\ IsFiniteSet(kept) /\ Cardinality(kept) \in Nat
           /\ \E f \in Bijection(1..Cardinality(kept), kept) :
                  Keeping(s, kept) = [k \in 1..Cardinality(kept) |-> s[f[k]]]
  <1> DEFINE n == Cardinality(kept)
             upto(i) == {j \in kept : j <= i}
             rank == [i \in kept |-> Cardinality(upto(i))]
  <1>1. kept \subseteq 1..Len(s) /\ Len(s) \in Nat
    OBVIOUS
  <1>2. IsFiniteSet(kept) /\ n \in Nat
    <2>1. IsFiniteSet(1..Len(s)) /\ kept \in SUBSET (1..Len(s))
      BY <1>1, FS_Interval
    <2>2. IsFiniteSet(kept)
      BY <2>1, FS_Subset
    <2> QED BY <2>2, FS_CardinalityType
  <1>3. \A i \in kept : IsFiniteSet(upto(i)) /\ Cardinality(upto(i)) \in 1..n
    <2> SUFFICES ASSUME NEW i \in kept
                 PROVE  IsFiniteSet(upto(i)) /\ Cardinality(upto(i)) \in 1..n
      OBVIOUS
    <2>1. upto(i) \in SUBSET kept /\ i \in upto(i)
      BY <1>1
    <2>2. IsFiniteSet(upto(i)) /\ Cardinality(upto(i)) \in Nat /\ Cardinality(upto(i)) <= n
      BY <1>2, <2>1, FS_Subset, FS_CardinalityType
    <2>3. Cardinality(upto(i)) # 0
      BY <2>1, <2>2, FS_EmptySet
    <2> QED BY <1>2, <2>2, <2>3
  <1>4. \A i, j \in kept : i < j => Cardinality(upto(i)) # Cardinality(upto(j))
    <2> SUFFICES ASSUME NEW i \in kept, NEW j \in kept, i < j
                 PROVE  Cardinality(upto(i)) # Cardinality(upto(j))
      OBVIOUS
    <2>1. upto(i) \in SUBSET upto(j) /\ j \in upto(j) /\ j \notin upto(i)
      BY <1>1
    <2> QED BY <1>3, <2>1, FS_Subset
  <1>5. rank \in Injection(kept, 1..n)
    <2>1. \A i \in kept : rank[i] = Cardinality(upto(i))
      OBVIOUS
    <2>2. rank \in [kept -> 1..n]
      BY <1>3
    <2>3. \A i, j \in kept : i # j => rank[i] # rank[j]
      <3> HIDE DEF rank, upto
      <3> SUFFICES ASSUME NEW i \in kept, NEW j \in kept, i # j
                   PROVE  Cardinality(upto(i)) # Cardinality(upto(j))
        BY <2>1
      <3>1. i < j \/ j < i
        BY <1>1
      <3> QED BY <1>4, <3>1
    <2> HIDE DEF rank
    <2> QED BY <2>2, <2>3 DEF Injection, IsInjective
  <1>6. \A k \in 1..n : \E i \in kept : Cardinality(upto(i)) = k
    <2>1. IsFiniteSet(1..n) /\ Cardinality(1..n) = n
      BY <1>2, FS_Interval
    <2>2. rank \in Surjection(kept, 1..n)
      BY <1>5, <2>1, FS_Injection
    <2> QED BY <2>2 DEF Surjection
  <1> DEFINE f == [k \in 1..n |-> CHOOSE i \in kept : Cardinality(upto(i)) = k]
  <1>7. \A k \in 1..n : f[k] \in kept /\ Cardinality(upto(f[k])) = k
    <2> SUFFICES ASSUME NEW k \in 1..n PROVE f[k] \in kept /\ Cardinality(upto(f[k])) = k
      OBVIOUS
    <2>1. PICK i \in kept : Cardinality(upto(i)) = k
      BY <1>6
    <2>2. f[k] = CHOOSE j \in kept : Cardinality(upto(j)) = k
      OBVIOUS
    <2> HIDE DEF f, upto
    <2> QED BY <2>1, <2>2
  <1>8. f \in Bijection(1..n, kept)
    <2>1. f \in [1..n -> kept]
      BY <1>7
    <2>2. \A k, l \in 1..n : f[k] = f[l] => k = l
      BY <1>7
    <2>3. \A i \in kept : \E k \in 1..n : f[k] = i
      <3> SUFFICES ASSUME NEW i \in kept PROVE \E k \in 1..n : f[k] = i
        OBVIOUS
      <3>1. Cardinality(upto(i)) \in 1..n
        BY <1>3
      <3>2. f[Cardinality(upto(i))] \in kept
            /\ Cardinality(upto(f[Cardinality(upto(i))])) = Cardinality(upto(i))
        BY <1>7, <3>1
      <3>3. f[Cardinality(upto(i))] = i
        <4> HIDE DEF f, upto
        <4> QED BY <1>1, <1>4, <3>2
      <3> QED BY <3>1, <3>3
    <2> HIDE DEF f
    <2> QED BY <2>1, <2>2, <2>3 DEF Bijection, Injection, Surjection, IsInjective
  <1>9. Keeping(s, kept) = [k \in 1..n |-> s[f[k]]]
    BY DEF Keeping
  <1> QED BY <1>2, <1>8, <1>9

LEMMA KeepingType ==
    ASSUME NEW S, NEW s \in Seq(S), NEW kept \in SUBSET DOMAIN s
    PROVE  /\ Keeping(s, kept) \in Seq(S)
           /\ Len(Keeping(s, kept)) = Cardinality(kept)
           /\ \A k \in DOMAIN Keeping(s, kept) : \E i \in kept : Keeping(s, kept)[k] = s[i]
           /\ \A i \in kept : \E k \in DOMAIN Keeping(s, kept) : Keeping(s, kept)[k] = s[i]
  <1> DEFINE n == Cardinality(kept)
             q == Keeping(s, kept)
  <1>1. n \in Nat
    BY KeepingOrder
  <1>2. PICK f \in Bijection(1..n, kept) : q = [k \in 1..n |-> s[f[k]]]
    BY KeepingOrder
  <1>3. /\ \A k \in 1..n : f[k] \in kept
        /\ \A i \in kept : \E k \in 1..n : f[k] = i
    BY DEF Bijection, Injection, Surjection
  <1>4. \A i \in kept : i \in DOMAIN s /\ s[i] \in S
    OBVIOUS
  <1> HIDE DEF n, q
  <1>5. q \in [1..n -> S] /\ DOMAIN q = 1..n /\ \A k \in 1..n : q[k] = s[f[k]]
    BY <1>2, <1>3, <1>4
  <1>6. q \in Seq(S) /\ Len(q) = n
    BY <1>1, <1>5
  <1>7. /\ \A k \in DOMAIN q : \E i \in kept : q[k] = s[i]
        /\ \A i \in kept : \E k \in DOMAIN q : q[k] = s[i]
    BY <1>3, <1>5
  <1> QED BY <1>6, <1>7 DEF n, q

\* The positions of entries in V.
Places(s, V) == {i \in DOMAIN s : s[i] \in V}

\* Taking entries out loses and repeats none of the others: of the entries of
\* any kind V as many are left as were at the positions kept.
LEMMA KeepingCount ==
    ASSUME NEW S, NEW s \in Seq(S), NEW kept \in SUBSET DOMAIN s, NEW V
    PROVE  /\ IsFiniteSet(kept \cap Places(s, V))
           /\ IsFiniteSet(Places(Keeping(s, kept), V))
           /\ Cardinality(Places(Keeping(s, kept), V)) = Cardinality(kept \cap Places(s, V))
  <1> DEFINE n == Cardinality(kept)
             q == Keeping(s, kept)
             old == {i \in kept : s[i] \in V}
             new == {k \in DOMAIN q : q[k] \in V}
  <1>1. n \in Nat /\ IsFiniteSet(kept)
    BY KeepingOrder
  <1>2. PICK f \in Bijection(1..n, kept) : q = [k \in 1..n |-> s[f[k]]]
    BY KeepingOrder
  <1>3. /\ \A k \in 1..n : f[k] \in kept
        /\ \A k, l \in 1..n : f[k] = f[l] => k = l
        /\ \A i \in kept : \E k \in 1..n : f[k] = i
    BY DEF Bijection, Injection, Surjection, IsInjective
  <1> HIDE DEF n, q
  <1> DEFINE g == [k \in new |-> f[k]]
  <1>4. new = {k \in 1..n : s[f[k]] \in V}
    BY <1>2
  <1>5. g \in Bijection(new, old)
    <2>1. g \in [new -> old]
      BY <1>3, <1>4
    <2>2. \A k, l \in new : g[k] = g[l] => k = l
      BY <1>3, <1>4
    <2>3. \A i \in old : \E k \in new : g[k] = i
      BY <1>3, <1>4
    <2> HIDE DEF g, new, old
    <2> QED BY <2>1, <2>2, <2>3 DEF Bijection, Injection, Surjection, IsInjective
  <1>6. IsFiniteSet(new) /\ IsFiniteSet(old)
    <2>1. IsFiniteSet(1..n) /\ new \in SUBSET (1..n) /\ old \in SUBSET kept
      BY <1>1, <1>4, FS_Interval
    <2> HIDE DEF new, old
    <2> QED BY <1>1, <2>1, FS_Subset
  <1>7. Cardinality(new) = Cardinality(old)
    <2>1. ExistsBijection(new, old)
      BY <1>5 DEF ExistsBijection
    <2> HIDE DEF new, old
    <2> QED BY <1>6, <2>1, FS_Bijection
  <1>8. old = kept \cap Places(s, V) /\ new = Places(q, V)
    BY DEF Places
  <1> HIDE DEF new, old
  <1> QED BY <1>6, <1>7, <1>8 DEF q

\* If the last entry is kept, it is the last one afterwards.
LEMMA KeepingLast ==
    ASSUME NEW S, NEW s \in Seq(S), NEW kept \in SUBSET DOMAIN s, Len(s) \in kept
    PROVE  /\ Len(Keeping(s, kept)) \in DOMAIN Keeping(s, kept)
           /\ Keeping(s, kept)[Len(Keeping(s, kept))] = s[Len(s)]
  <1> DEFINE n == Cardinality(kept)
             upto(i) == {j \in kept : j <= i}
             q == Keeping(s, kept)
  <1>1. kept \subseteq 1..Len(s) /\ Len(s) \in Nat
    OBVIOUS
  <1>2. IsFiniteSet(kept) /\ n \in Nat
    BY KeepingOrder
  <1>3. n # 0
    BY <1>2, FS_EmptySet
  <1>4. upto(Len(s)) = kept
    BY <1>1
  <1>5. ASSUME NEW i \in kept, Cardinality(upto(i)) = n PROVE i = Len(s)
    <2>1. upto(i) \in SUBSET kept
      OBVIOUS
    <2>2. upto(i) = kept
      BY <1>2, <1>5, <2>1, FS_Subset
    <2>3. Len(s) <= i
      BY <2>2
    <2> QED BY <1>1, <2>3
  <1>6. (CHOOSE i \in kept : Cardinality(upto(i)) = n) = Len(s)
    <2> HIDE DEF upto, n
    <2>1. \E i \in kept : Cardinality(upto(i)) = n
      BY <1>4 DEF n
    <2> QED BY <1>5, <2>1
  <1>7. q[n] = s[CHOOSE i \in kept : Cardinality(upto(i)) = n]
    BY <1>2, <1>3 DEF Keeping
  <1>8. Len(q) = n /\ q \in Seq(S)
    BY KeepingType
  <1>9. n \in DOMAIN q
    <2> HIDE DEF q, n
    <2> QED BY <1>2, <1>3, <1>8
  <1> QED BY <1>6, <1>7, <1>8, <1>9
-----------------------------------------------------------------------------
(* A remainder is the only number in its range that differs by a multiple. *)

LEMMA Remainder ==
    ASSUME NEW n \in Nat \ {0}, NEW x \in Int
    PROVE  /\ x % n \in 0..n-1
           /\ \A q \in Int, r \in 0..n-1 : x = n * q + r => x % n = r
           /\ \E q \in Int : x = n * q + (x % n)
  <1>1. x % n \in 0..n-1 /\ x \div n \in Int /\ x = n * (x \div n) + (x % n)
    OBVIOUS
  <1>2. ASSUME NEW q \in Int, NEW r \in 0..n-1, x = n * q + r
        PROVE  x % n = r
    <2> DEFINE k == x \div n - q
    <2>1. k \in Int /\ n * k = r - (x % n)
      BY <1>1, <1>2
    <2>2. n * k < n /\ -n < n * k
      BY <1>1, <2>1
    <2> HIDE DEF k
    <2>3. ~(k >= 1)
      BY <2>1, <2>2
    <2>4. ~(k <= -1)
      BY <2>1, <2>2
    <2>5. k = 0
      BY <2>1, <2>3, <2>4
    <2> QED BY <1>1, <2>1, <2>5
  <1> QED BY <1>1, <1>2
-----------------------------------------------------------------------------
(* Sums.  What is shown here of every sum is shown by its shortest         *)
(* counterexample (Least).                                                 *)

\* What holds of 0, and of n + 1 when it holds of n, holds of every natural.
LEMMA Upwards ==
    ASSUME NEW T, 0 \in T, \A n \in Nat : n \in T => n + 1 \in T
    PROVE  Nat \subseteq T
  <1> DEFINE S == Nat \ T
  <1>1. ASSUME S # {} PROVE FALSE
    <2>1. PICK m \in S : \A n \in S : m <= n
      BY <1>1, Least
    <2>2. m \in Nat /\ m # 0 /\ m - 1 \in Nat
      OBVIOUS
    <2>3. m - 1 \in T
      BY <2>1, <2>2
    <2>4. (m - 1) + 1 = m
      BY <2>2
    <2> QED BY <2>2, <2>3, <2>4
  <1> QED BY <1>1

\* The numbers on which a sum is defined.
Numbers(f, n) == n \in Nat /\ \A i \in 1..n : f[i] \in Int

\* The function of the definition: the partial sums.
Partial(f, n, g) == g = [i \in 0..n |-> IF i = 0 THEN 0 ELSE g[i - 1] + f[i]]

LEMMA PartialExists ==
    ASSUME NEW f, NEW n \in Nat
    PROVE  \E g : Partial(f, n, g)
  <1> DEFINE T == {m \in Nat : \E g : Partial(f, m, g)}
  <1>1. 0 \in T
    <2> DEFINE g == [i \in 0..0 |-> 0]
    <2>1. g = [i \in 0..0 |-> IF i = 0 THEN 0 ELSE g[i - 1] + f[i]]
      OBVIOUS
    <2> QED BY <2>1 DEF Partial
  <1>2. ASSUME NEW m \in Nat, m \in T PROVE m + 1 \in T
    <2>1. PICK g : g = [i \in 0..m |-> IF i = 0 THEN 0 ELSE g[i - 1] + f[i]]
      BY <1>2 DEF Partial
    <2> DEFINE h == [i \in 0..m + 1 |-> IF i = m + 1 THEN g[m] + f[m + 1] ELSE g[i]]
    <2>2. \A i \in 0..m + 1 : h[i] = IF i = 0 THEN 0 ELSE h[i - 1] + f[i]
      <3> SUFFICES ASSUME NEW i \in 0..m + 1
                   PROVE  h[i] = IF i = 0 THEN 0 ELSE h[i - 1] + f[i]
        OBVIOUS
      <3>1. CASE i = m + 1
        <4>1. h[i] = g[m] + f[m + 1] /\ h[m] = g[m] /\ i - 1 = m /\ i # 0
          BY <3>1
        <4> QED BY <3>1, <4>1
      <3>2. CASE i # m + 1
        <4>1. i \in 0..m /\ h[i] = g[i]
          BY <3>2
        <4>2. i # 0 => i - 1 \in 0..m + 1 /\ i - 1 # m + 1
          BY <4>1
        <4>3. g[i] = IF i = 0 THEN 0 ELSE g[i - 1] + f[i]
          BY <2>1, <4>1
        <4> QED BY <4>1, <4>2, <4>3
      <3> QED BY <3>1, <3>2
    <2>3. h = [i \in 0..m + 1 |-> IF i = 0 THEN 0 ELSE h[i - 1] + f[i]]
      BY <2>2
    <2> HIDE DEF h
    <2> QED BY <2>3 DEF Partial
  <1> HIDE DEF T
  <1>3. n \in T
    BY <1>1, <1>2, Upwards
  <1> QED BY <1>3 DEF T

LEMMA SumPartial ==
    ASSUME NEW f, NEW n \in Nat
    PROVE  \E g : Partial(f, n, g) /\ SumTo(f, n) = g[n]
  <1> DEFINE g == CHOOSE g : Partial(f, n, g)
  <1>1. Partial(f, n, g)
    BY PartialExists
  <1>2. SumTo(f, n) = g[n]
    BY DEF SumTo, Partial
  <1> QED BY <1>1, <1>2

\* How a sum is computed.
LEMMA SumOf ==
    ASSUME NEW f, NEW n \in Nat
    PROVE  /\ SumTo(f, 0) = 0
           /\ SumTo(f, n + 1) = SumTo(f, n) + f[n + 1]
  <1>1. ASSUME NEW g, NEW h, NEW k \in Nat, NEW l \in Nat, k <= l, Partial(f, k, g),
               Partial(f, l, h)
        PROVE  \A i \in 0..k : g[i] = h[i]
    <2> DEFINE T == {i \in Nat : i <= k => g[i] = h[i]}
    <2>1. 0 \in T
      BY <1>1 DEF Partial
    <2>2. ASSUME NEW i \in Nat, i \in T PROVE i + 1 \in T
      <3> SUFFICES ASSUME i + 1 <= k PROVE g[i + 1] = h[i + 1]
        OBVIOUS
      <3>1. g[i] = h[i]
        BY <2>2
      <3>2. i + 1 \in 0..k /\ i + 1 \in 0..l /\ i + 1 # 0 /\ (i + 1) - 1 = i
        BY <1>1
      <3>3. g[i + 1] = g[(i + 1) - 1] + f[i + 1] /\ h[i + 1] = h[(i + 1) - 1] + f[i + 1]
        BY <1>1, <3>2 DEF Partial
      <3> QED BY <3>1, <3>2, <3>3
    <2> HIDE DEF T
    <2>3. Nat \subseteq T
      BY <2>1, <2>2, Upwards
    <2> QED BY <2>3 DEF T
  <1>2. PICK g : Partial(f, n, g) /\ SumTo(f, n) = g[n]
    BY SumPartial
  <1>3. PICK h : Partial(f, n + 1, h) /\ SumTo(f, n + 1) = h[n + 1]
    BY SumPartial
  <1>4. PICK z : Partial(f, 0, z) /\ SumTo(f, 0) = z[0]
    BY SumPartial
  <1>5. z[0] = 0
    BY <1>4 DEF Partial
  <1>6. h[n + 1] = h[n] + f[n + 1]
    <2>1. n + 1 \in 0..n + 1 /\ n + 1 # 0 /\ (n + 1) - 1 = n
      OBVIOUS
    <2>2. h[n + 1] = h[(n + 1) - 1] + f[n + 1]
      BY <1>3, <2>1 DEF Partial
    <2> QED BY <2>1, <2>2
  <1>7. g[n] = h[n]
    <2>1. n \in 0..n /\ n <= n + 1 /\ n + 1 \in Nat
      OBVIOUS
    <2> QED BY <1>1, <1>2, <1>3, <2>1
  <1> QED BY <1>2, <1>3, <1>4, <1>5, <1>6, <1>7

LEMMA UpTo ==
    ASSUME NEW n \in Nat, NEW T, 0 \in T, \A k \in 0..n - 1 : k \in T => k + 1 \in T
    PROVE  0..n \subseteq T
  <1> DEFINE U == {k \in Nat : k <= n => k \in T}
  <1>1. 0 \in U
    OBVIOUS
  <1>2. \A k \in Nat : k \in U => k + 1 \in U
    <2> SUFFICES ASSUME NEW k \in Nat, k \in U, k + 1 <= n PROVE k + 1 \in T
      OBVIOUS
    <2>1. k \in T /\ k \in 0..n - 1
      OBVIOUS
    <2> QED BY <2>1
  <1> HIDE DEF U
  <1>3. Nat \subseteq U
    BY <1>1, <1>2, Upwards
  <1> QED BY <1>3 DEF U

LEMMA SumType ==
    ASSUME NEW f, NEW n \in Nat, \A i \in 1..n : f[i] \in Int
    PROVE  /\ \A k \in 0..n : SumTo(f, k) \in Int
           /\ (\A i \in 1..n : f[i] >= 0) => \A k \in 0..n : SumTo(f, k) >= 0
  <1> DEFINE T == {k \in Nat : SumTo(f, k) \in Int}
             U == {k \in Nat : SumTo(f, k) \in Int /\ SumTo(f, k) >= 0}
  <1>1. 0 \in T /\ \A k \in 0..n - 1 : k \in T => k + 1 \in T
    <2>1. \A k \in 0..n - 1 : k \in Nat /\ k + 1 \in 1..n
      OBVIOUS
    <2> QED BY <2>1, SumOf
  <1>2. ASSUME \A i \in 1..n : f[i] >= 0
        PROVE  0 \in U /\ \A k \in 0..n - 1 : k \in U => k + 1 \in U
    <2>1. \A k \in 0..n - 1 : k \in Nat /\ k + 1 \in 1..n
      OBVIOUS
    <2> QED BY <1>2, <2>1, SumOf
  <1> HIDE DEF T, U
  <1>3. 0..n \subseteq T
    BY <1>1, UpTo
  <1>4. (\A i \in 1..n : f[i] >= 0) => 0..n \subseteq U
    BY <1>2, UpTo
  <1> QED BY <1>3, <1>4 DEF T, U

\* A sum of sums, and of the same numbers.
LEMMA SumPlus ==
    ASSUME NEW f, NEW g, NEW h, NEW n \in Nat,
           \A i \in 1..n : f[i] \in Int /\ g[i] \in Int /\ h[i] = f[i] + g[i]
    PROVE  SumTo(h, n) = SumTo(f, n) + SumTo(g, n)
  <1> DEFINE T == {k \in Nat : SumTo(h, k) = SumTo(f, k) + SumTo(g, k)}
  <1>1. 0 \in T /\ \A k \in 0..n - 1 : k \in T => k + 1 \in T
    <2>1. \A k \in 0..n - 1 : k \in Nat /\ k + 1 \in 1..n /\ k \in 0..n
      OBVIOUS
    <2>2. \A k \in 0..n : SumTo(f, k) \in Int /\ SumTo(g, k) \in Int
      BY SumType
    <2> QED BY <2>1, <2>2, SumOf
  <1> HIDE DEF T
  <1>2. 0..n \subseteq T
    BY <1>1, UpTo
  <1> QED BY <1>2 DEF T

LEMMA SumSame ==
    ASSUME NEW f, NEW g, NEW n \in Nat, \A i \in 1..n : f[i] = g[i]
    PROVE  SumTo(f, n) = SumTo(g, n)
  <1> DEFINE T == {k \in Nat : SumTo(f, k) = SumTo(g, k)}
  <1>1. 0 \in T /\ \A k \in 0..n - 1 : k \in T => k + 1 \in T
    <2>1. \A k \in 0..n - 1 : k \in Nat /\ k + 1 \in 1..n
      OBVIOUS
    <2> QED BY <2>1, SumOf
  <1> HIDE DEF T
  <1>2. 0..n \subseteq T
    BY <1>1, UpTo
  <1> QED BY <1>2 DEF T

\* What is added after the first m numbers is nothing.
LEMMA SumTail ==
    ASSUME NEW f, NEW m \in Nat, NEW n \in Nat, m <= n, \A i \in 1..n : f[i] \in Int,
           \A i \in m + 1..n : f[i] = 0
    PROVE  SumTo(f, n) = SumTo(f, m)
  <1> DEFINE T == {k \in Nat : k >= m => SumTo(f, k) = SumTo(f, m)}
  <1>1. 0 \in T
    OBVIOUS
  <1>2. ASSUME NEW k \in 0..n - 1, k \in T PROVE k + 1 \in T
    <2>1. k \in Nat /\ k + 1 \in 1..n /\ m \in 0..n
      OBVIOUS
    <2>2. SumTo(f, k + 1) = SumTo(f, k) + f[k + 1] /\ SumTo(f, m) \in Int
      BY <2>1, SumOf, SumType
    <2>3. CASE k + 1 <= m
      BY <2>3
    <2>4. CASE k >= m
      <3>1. k + 1 \in m + 1..n
        BY <2>4
      <3>2. f[k + 1] = 0
        BY <3>1
      <3> QED BY <1>2, <2>2, <2>4, <3>2
    <2> QED BY <2>3, <2>4
  <1> HIDE DEF T
  <1>3. 0..n \subseteq T
    BY <1>1, <1>2, UpTo
  <1> QED BY <1>3 DEF T

\* The same number d from each of those in C.
LEMMA SumCount ==
    ASSUME NEW C, NEW d \in Int, NEW n \in Nat, NEW f,
           \A i \in 1..n : f[i] = IF i \in C THEN d ELSE 0
    PROVE  SumTo(f, n) = d * Cardinality(C \cap 1..n)
  <1> DEFINE T == {k \in Nat : SumTo(f, k) = d * Cardinality(C \cap 1..k)}
  <1>1. \A k \in Nat : IsFiniteSet(C \cap 1..k) /\ Cardinality(C \cap 1..k) \in Nat
    <2> SUFFICES ASSUME NEW k \in Nat
                 PROVE  IsFiniteSet(C \cap 1..k) /\ Cardinality(C \cap 1..k) \in Nat
      OBVIOUS
    <2>1. IsFiniteSet(1..k) /\ C \cap 1..k \in SUBSET (1..k)
      BY FS_Interval
    <2>2. IsFiniteSet(C \cap 1..k)
      BY <2>1, FS_Subset
    <2> QED BY <2>2, FS_CardinalityType
  <1>2. 0 \in T
    <2>1. C \cap 1..0 = {}
      OBVIOUS
    <2>2. d * 0 = 0
      OBVIOUS
    <2> QED BY <2>1, <2>2, FS_EmptySet, SumOf
  <1>3. ASSUME NEW k \in 0..n - 1, k \in T PROVE k + 1 \in T
    <2>1. k \in Nat /\ k + 1 \in 1..n /\ k + 1 \in Nat
      OBVIOUS
    <2>2. SumTo(f, k + 1) = SumTo(f, k) + f[k + 1]
      BY <2>1, SumOf
    <2>3. CASE k + 1 \in C
      <3>1. C \cap 1..k + 1 = (C \cap 1..k) \cup {k + 1} /\ k + 1 \notin C \cap 1..k
        BY <2>1, <2>3
      <3>2. Cardinality(C \cap 1..k + 1) = Cardinality(C \cap 1..k) + 1
        BY <1>1, <2>1, <3>1, FS_AddElement
      <3>3. f[k + 1] = d
        BY <2>1, <2>3
      <3>4. \A c \in Nat : d * (c + 1) = d * c + d
        OBVIOUS
      <3> QED BY <1>1, <1>3, <2>1, <2>2, <3>2, <3>3, <3>4
    <2>4. CASE k + 1 \notin C
      <3>1. C \cap 1..k + 1 = C \cap 1..k
        BY <2>1, <2>4
      <3>2. f[k + 1] = 0
        BY <2>1, <2>4
      <3>3. SumTo(f, k) \in Int
        <4>1. \A i \in 1..n : f[i] \in Int
          OBVIOUS
        <4> QED BY <2>1, <4>1, SumType
      <3>4. SumTo(f, k) = d * Cardinality(C \cap 1..k)
        BY <1>3
      <3>5. SumTo(f, k + 1) = SumTo(f, k)
        BY <2>2, <3>2, <3>3
      <3>6. SumTo(f, k + 1) = d * Cardinality(C \cap 1..k + 1)
        BY <3>1, <3>4, <3>5
      <3> QED BY <2>1, <3>6
    <2> QED BY <2>3, <2>4
  <1> HIDE DEF T
  <1>4. 0..n \subseteq T
    BY <1>2, <1>3, UpTo
  <1> QED BY <1>4 DEF T

\* A sum of what is not negative is not less than one of the numbers; and only a sum of
\* nothing is nothing.
LEMMA SumAtLeast ==
    ASSUME NEW f, NEW n \in Nat, \A i \in 1..n : f[i] \in Nat, NEW j \in 1..n
    PROVE  SumTo(f, n) >= f[j]
  <1> DEFINE T == {k \in Nat : k >= j => SumTo(f, k) >= f[j]}
  <1>1. \A k \in 0..n : SumTo(f, k) \in Int /\ SumTo(f, k) >= 0
    BY SumType
  <1>2. 0 \in T
    OBVIOUS
  <1>3. ASSUME NEW k \in 0..n - 1, k \in T PROVE k + 1 \in T
    <2>1. k \in Nat /\ k + 1 \in 1..n /\ k \in 0..n
      OBVIOUS
    <2>2. SumTo(f, k + 1) = SumTo(f, k) + f[k + 1]
      BY <2>1, SumOf
    <2> QED BY <1>1, <1>3, <2>1, <2>2
  <1> HIDE DEF T
  <1>4. 0..n \subseteq T
    BY <1>2, <1>3, UpTo
  <1> QED BY <1>4 DEF T

\* Rows and columns of a table add up to the same.
LEMMA SumSwap ==
    ASSUME NEW n \in Nat, NEW k \in Nat, NEW m \in [1..n -> [1..k -> Int]]
    PROVE  SumTo([i \in 1..n |-> SumTo([l \in 1..k |-> m[i][l]], k)], n)
           = SumTo([l \in 1..k |-> SumTo([i \in 1..n |-> m[i][l]], n)], k)
  <1> DEFINE row(i) == SumTo([l \in 1..k |-> m[i][l]], k)
             col(j, l) == SumTo([i \in 1..n |-> m[i][l]], j)
             T == {j \in Nat : SumTo([i \in 1..n |-> row(i)], j)
                               = SumTo([l \in 1..k |-> col(j, l)], k)}
  <1>1. \A i \in 1..n, l \in 1..k : m[i][l] \in Int
    OBVIOUS
  <1>2. \A j \in 0..n, l \in 1..k : col(j, l) \in Int
    <2> SUFFICES ASSUME NEW l \in 1..k PROVE \A j \in 0..n : col(j, l) \in Int
      OBVIOUS
    <2>1. \A i \in 1..n : [x \in 1..n |-> m[x][l]][i] \in Int
      BY <1>1
    <2> HIDE DEF col
    <2> QED BY <2>1, SumType DEF col
  <1>3. 0 \in T
    <2>1. SumTo([i \in 1..n |-> row(i)], 0) = 0
      BY SumOf
    <2>2. \A l \in 1..k : col(0, l) = 0
      BY SumOf
    <2>3. SumTo([l \in 1..k |-> col(0, l)], k) = 0
      <3> DEFINE f == [l \in 1..k |-> col(0, l)]
      <3>1. \A l \in 1..k : f[l] = 0
        BY <2>2
      <3> HIDE DEF f
      <3>2. SumTo(f, k) = SumTo(f, 0)
        BY <3>1, SumTail
      <3> QED BY <3>2, SumOf DEF f
    <2> HIDE DEF row, col
    <2> QED BY <2>1, <2>3
  <1>4. ASSUME NEW j \in 0..n - 1, j \in T PROVE j + 1 \in T
    <2>1. j \in Nat /\ j + 1 \in 1..n /\ j \in 0..n /\ j + 1 \in 0..n /\ j + 1 \in Nat
      OBVIOUS
    <2> DEFINE r == [i \in 1..n |-> row(i)]
    <2>2. SumTo(r, j + 1) = SumTo(r, j) + row(j + 1)
      <3>1. r[j + 1] = row(j + 1)
        BY <2>1
      <3> HIDE DEF r
      <3> QED BY <2>1, <3>1, SumOf
    <2>3. \A l \in 1..k : col(j + 1, l) = col(j, l) + m[j + 1][l]
      <3> SUFFICES ASSUME NEW l \in 1..k PROVE col(j + 1, l) = col(j, l) + m[j + 1][l]
        OBVIOUS
      <3> DEFINE c == [i \in 1..n |-> m[i][l]]
      <3>1. c[j + 1] = m[j + 1][l]
        BY <2>1
      <3> HIDE DEF c
      <3>2. SumTo(c, j + 1) = SumTo(c, j) + m[j + 1][l]
        BY <2>1, <3>1, SumOf
      <3> QED BY <3>2 DEF c
    <2>4. SumTo([l \in 1..k |-> col(j + 1, l)], k)
          = SumTo([l \in 1..k |-> col(j, l)], k) + row(j + 1)
      <3> DEFINE h == [l \in 1..k |-> col(j + 1, l)]
                 f == [l \in 1..k |-> col(j, l)]
                 g == [l \in 1..k |-> m[j + 1][l]]
      <3>1. \A l \in 1..k : f[l] \in Int /\ g[l] \in Int /\ h[l] = f[l] + g[l]
        BY <1>1, <1>2, <2>1, <2>3
      <3> HIDE DEF h, f, g
      <3>2. SumTo(h, k) = SumTo(f, k) + SumTo(g, k)
        BY <3>1, SumPlus
      <3> QED BY <3>2 DEF h, f, g
    <2> HIDE DEF row, col, r
    <2> QED BY <1>4, <2>1, <2>2, <2>4 DEF r
  <1> HIDE DEF T
  <1>5. 0..n \subseteq T
    BY <1>3, <1>4, UpTo
  <1>6. n \in T
    BY <1>5
  <1>7. SumTo([i \in 1..n |-> row(i)], n) = SumTo([l \in 1..k |-> col(n, l)], k)
    BY <1>6 DEF T
  <1> QED BY <1>7

\* In any order, as many are among the first r as r says.
LEMMA FirstFew ==
    ASSUME NEW W, IsFiniteSet(W), NEW a \in [W -> Int],
           \A p, q \in W : a[p] = a[q] => p = q, NEW r \in 0..Cardinality(W)
    PROVE  Cardinality({p \in W : Cardinality({q \in W : a[q] < a[p]}) < r}) = r
  <1> DEFINE n == Cardinality(W)
             before(p) == {q \in W : a[q] < a[p]}
             rank == [p \in W |-> Cardinality(before(p))]
             first == {p \in W : Cardinality(before(p)) < r}
  <1>1. n \in Nat /\ \A p \in W : a[p] \in Int
    BY FS_CardinalityType
  <1>2. \A p \in W : IsFiniteSet(before(p)) /\ Cardinality(before(p)) \in 0..n - 1
    <2> SUFFICES ASSUME NEW p \in W
                 PROVE  IsFiniteSet(before(p)) /\ Cardinality(before(p)) \in 0..n - 1
      OBVIOUS
    <2>1. before(p) \in SUBSET W /\ p \notin before(p)
      BY <1>1
    <2> HIDE DEF before
    <2>2. before(p) # W
      BY <2>1
    <2>3. IsFiniteSet(before(p)) /\ Cardinality(before(p)) \in Nat /\ Cardinality(before(p)) <= n
      BY <2>1, FS_Subset, FS_CardinalityType
    <2>4. Cardinality(before(p)) # n
      BY <2>1, <2>2, FS_Subset
    <2> QED BY <1>1, <2>3, <2>4
  <1>3. \A p, q \in W : a[p] < a[q] => Cardinality(before(p)) < Cardinality(before(q))
    <2> SUFFICES ASSUME NEW p \in W, NEW q \in W, a[p] < a[q]
                 PROVE  Cardinality(before(p)) < Cardinality(before(q))
      OBVIOUS
    <2>1. before(p) \in SUBSET before(q) /\ p \in before(q) /\ p \notin before(p)
      BY <1>1
    <2> HIDE DEF before
    <2>2. IsFiniteSet(before(q)) /\ Cardinality(before(q)) \in Nat
          /\ Cardinality(before(p)) \in Nat
      BY <1>1, <1>2
    <2>3. Cardinality(before(p)) <= Cardinality(before(q))
          /\ Cardinality(before(p)) # Cardinality(before(q))
      BY <2>1, <2>2, FS_Subset
    <2> QED BY <2>2, <2>3
  <1>4. rank \in Injection(W, 0..n - 1)
    <2>1. rank \in [W -> 0..n - 1]
      BY <1>2
    <2>2. \A p, q \in W : p # q => Cardinality(before(p)) # Cardinality(before(q))
      <3> SUFFICES ASSUME NEW p \in W, NEW q \in W, p # q
                   PROVE  Cardinality(before(p)) # Cardinality(before(q))
        OBVIOUS
      <3>1. a[p] \in Int /\ a[q] \in Int /\ a[p] # a[q]
        BY <1>1
      <3> HIDE DEF before
      <3>2. CASE a[p] < a[q]
        <4>1. Cardinality(before(p)) < Cardinality(before(q))
          BY <1>3, <3>2
        <4> QED BY <1>1, <1>2, <4>1
      <3>3. CASE a[q] < a[p]
        <4>1. Cardinality(before(q)) < Cardinality(before(p))
          BY <1>3, <3>3
        <4> QED BY <1>1, <1>2, <4>1
      <3> QED BY <3>1, <3>2, <3>3
    <2> HIDE DEF before
    <2> QED BY <2>1, <2>2 DEF Injection, IsInjective
  <1>5. IsFiniteSet(0..n - 1) /\ Cardinality(0..n - 1) = n
    <2>1. 0 \in Int /\ n - 1 \in Int /\ (0 > n - 1 => n = 0) /\ (n - 1) - 0 + 1 = n
      BY <1>1
    <2> HIDE DEF n
    <2> QED BY <2>1, FS_Interval
  <1>6. rank \in Surjection(W, 0..n - 1)
    BY <1>4, <1>5, FS_Injection
  <1>7. [p \in first |-> Cardinality(before(p))] \in Bijection(first, 0..r - 1)
    <2> DEFINE g == [p \in first |-> Cardinality(before(p))]
    <2>1. g \in [first -> 0..r - 1]
      <3> SUFFICES ASSUME NEW p \in first PROVE Cardinality(before(p)) \in 0..r - 1
        OBVIOUS
      <3>1. Cardinality(before(p)) \in 0..n - 1 /\ Cardinality(before(p)) < r
        BY <1>2
      <3> HIDE DEF before, first
      <3> QED BY <1>1, <3>1
    <2>2. \A p, q \in first : g[p] = g[q] => p = q
      <3> SUFFICES ASSUME NEW p \in first, NEW q \in first, g[p] = g[q]
                   PROVE  p = q
        OBVIOUS
      <3>1. p \in W /\ q \in W /\ rank[p] = rank[q]
        OBVIOUS
      <3> HIDE DEF rank, g
      <3> QED BY <1>4, <3>1 DEF Injection, IsInjective
    <2>3. \A k \in 0..r - 1 : \E p \in first : g[p] = k
      <3> SUFFICES ASSUME NEW k \in 0..r - 1 PROVE \E p \in first : g[p] = k
        OBVIOUS
      <3>1. k \in 0..n - 1 /\ k < r
        BY <1>1
      <3>2. PICK p \in W : rank[p] = k
        BY <1>6, <3>1 DEF Surjection
      <3>3. p \in first /\ g[p] = k
        BY <3>1, <3>2
      <3> QED BY <3>3
    <2> HIDE DEF g, first
    <2>4. g \in Bijection(first, 0..r - 1)
      BY <2>1, <2>2, <2>3 DEF Bijection, Injection, Surjection, IsInjective
    <2> QED BY <2>4 DEF g
  <1>8. Cardinality(first) = r
    <2>1. first \in SUBSET W
      OBVIOUS
    <2> HIDE DEF first, before
    <2>2. IsFiniteSet(first)
      BY <2>1, FS_Subset
    <2>3. Cardinality(0..r - 1) = Cardinality(first)
      BY <1>7, <2>2, FS_Bijection DEF ExistsBijection
    <2>4. Cardinality(0..r - 1) = r
      BY <1>1, FS_Interval
    <2> QED BY <2>3, <2>4
  <1> QED BY <1>8

LEMMA SumMore ==
    ASSUME NEW f, NEW h, NEW n \in Nat,
           \A i \in 1..n : f[i] \in Int /\ h[i] \in Int /\ f[i] <= h[i]
    PROVE  SumTo(f, n) <= SumTo(h, n)
  <1> DEFINE d == [i \in 1..n |-> h[i] - f[i]]
  <1>1. \A i \in 1..n : /\ f[i] \in Int /\ d[i] \in Int /\ h[i] = f[i] + d[i]
                        /\ d[i] >= 0
    OBVIOUS
  <1> HIDE DEF d
  <1>2. SumTo(h, n) = SumTo(f, n) + SumTo(d, n)
    BY <1>1, SumPlus
  <1>3. n \in 0..n
    OBVIOUS
  <1>4. SumTo(f, n) \in Int /\ SumTo(d, n) \in Int /\ SumTo(d, n) >= 0
    BY <1>1, <1>3, SumType
  <1> QED BY <1>2, <1>4
=============================================================================
