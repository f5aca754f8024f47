----------------------------- MODULE HoldemProofs ----------------------------
(***************************************************************************)
(* Proofs about the table of Games that plays Holdem, for any number of    *)
(* players and any stacks, blinds, antes and betting structures.           *)
(*                                                                         *)
(* A key makes of a hand in a Round one in the Mid of a handler, and every *)
(* way on from there, through the streets, the showdown and the next hand, *)
(* makes a Round of that (Onward).  In a Round the turn is that of a player*)
(* who can act and whoever else can has put in what the bets say (Matched),*)
(* unless a blind took somebody's last chip (Skewed), which lets the code  *)
(* end a street early.                                                     *)
(* What a step does with the chips are sums over players and pots: the     *)
(* pots are layers between the different bets, and a player's share of     *)
(* a layer is what the player has put into it.                             *)
(***************************************************************************)
EXTENDS Games, ListsProofs, FiniteSetTheorems, TLAPS

\* Two players or more in an order, and blinds and stacks of at least a chip.
HoldemAssumption ==
    /\ Seats \in Seq(Everybody) /\ \A i, j \in DOMAIN Seats : Seats[i] = Seats[j] => i = j
    /\ \A p \in Everybody : \E i \in DOMAIN Seats : Seats[i] = p
    /\ \E p, q \in Everybody : p # q
    /\ Stack \in Nat \ {0} /\ Small \in Nat /\ Big \in Nat \ {0} /\ Ante \in Nat
    /\ RaiseMode \in {"no_limit", "pot_limit", "double_pot"}
    /\ Amounts \subseteq Nat /\ MaxHands \in Nat \ {0} /\ MaxSettled \in Nat

LEMMA SameTools ==
    /\ \A S : /\ Holdem!Cardinality(S) = Cardinality(S)
              /\ Holdem!IsFiniteSet(S) = IsFiniteSet(S)
    /\ \A s, kept : Holdem!Keeping(s, kept) = Keeping(s, kept)
    /\ \A f, n : Holdem!SumTo(f, n) = SumTo(f, n)
  <1>1. \A S : /\ Holdem!Cardinality(S) = Cardinality(S)
               /\ Holdem!IsFiniteSet(S) = IsFiniteSet(S)
    BY DEF Holdem!Cardinality, Cardinality, Holdem!IsFiniteSet, IsFiniteSet
  <1>2. \A s, kept : Holdem!Keeping(s, kept) = Keeping(s, kept)
    BY DEF Holdem!Keeping, Keeping, Holdem!Cardinality, Cardinality, Holdem!IsFiniteSet,
           IsFiniteSet
  <1>3. \A f, n : Holdem!SumTo(f, n) = SumTo(f, n)
    BY DEF Holdem!SumTo, SumTo
  <1> QED BY <1>1, <1>2, <1>3

LEMMA Seating ==
    ASSUME HoldemAssumption
    PROVE  /\ Len(Seats) \in Nat /\ DOMAIN Seats = 1..Len(Seats)
           /\ \A i \in 1..Len(Seats) : Seats[i] \in Everybody
           /\ IsFiniteSet(Everybody)
  <1>1. Len(Seats) \in Nat /\ DOMAIN Seats = 1..Len(Seats)
        /\ \A i \in 1..Len(Seats) : Seats[i] \in Everybody
    BY DEF HoldemAssumption
  <1>2. Seats \in Surjection(1..Len(Seats), Everybody)
    BY <1>1 DEF HoldemAssumption, Surjection
  <1>3. IsFiniteSet(1..Len(Seats))
    BY <1>1, FS_Interval
  <1> QED BY <1>1, <1>2, <1>3, FS_Surjection

LEMMA PartOfAll ==
    ASSUME HoldemAssumption, NEW C \in SUBSET Everybody
    PROVE  IsFiniteSet(C) /\ Cardinality(C) \in Nat
  BY Seating, FS_Subset, FS_CardinalityType
-----------------------------------------------------------------------------
(* Sums over the players.                                                  *)

LEMMA TotalIs ==
    ASSUME HoldemAssumption, NEW f
    PROVE  Holdem!Total(f) = SumTo([i \in 1..Len(Seats) |-> f[Seats[i]]], Len(Seats))
  BY Seating, SameTools DEF Holdem!Total

LEMMA TotalType ==
    ASSUME HoldemAssumption, NEW f, \A p \in Everybody : f[p] \in Nat
    PROVE  /\ Holdem!Total(f) \in Nat
           /\ \A p \in Everybody : Holdem!Total(f) >= f[p]
  <1> DEFINE s == [i \in 1..Len(Seats) |-> f[Seats[i]]]
  <1>1. \A i \in 1..Len(Seats) : s[i] \in Nat
    BY Seating
  <1>2. \A i \in 1..Len(Seats) : s[i] \in Int /\ s[i] >= 0
    BY <1>1
  <1>3. Len(Seats) \in Nat /\ Len(Seats) \in 0..Len(Seats)
    BY Seating
  <1>4. Holdem!Total(f) = SumTo(s, Len(Seats))
    BY TotalIs
  <1>5. ASSUME NEW p \in Everybody PROVE \E j \in 1..Len(Seats) : s[j] = f[p]
    <2>1. PICK j \in 1..Len(Seats) : Seats[j] = p
      BY Seating DEF HoldemAssumption
    <2> QED BY <2>1
  <1> HIDE DEF s
  <1>6. SumTo(s, Len(Seats)) \in Int /\ SumTo(s, Len(Seats)) >= 0
    BY <1>2, <1>3, SumType
  <1>7. \A j \in 1..Len(Seats) : SumTo(s, Len(Seats)) >= s[j]
    BY <1>1, <1>3, SumAtLeast
  <1> QED BY <1>4, <1>5, <1>6, <1>7

LEMMA TotalSame ==
    ASSUME HoldemAssumption, NEW f, NEW g, \A p \in Everybody : f[p] = g[p]
    PROVE  Holdem!Total(f) = Holdem!Total(g)
  BY Seating, TotalIs, SumSame

LEMMA TotalPlus ==
    ASSUME HoldemAssumption, NEW f, NEW g, NEW h,
           \A p \in Everybody : f[p] \in Int /\ g[p] \in Int /\ h[p] = f[p] + g[p]
    PROVE  Holdem!Total(h) = Holdem!Total(f) + Holdem!Total(g)
  <1> DEFINE s(x) == [i \in 1..Len(Seats) |-> x[Seats[i]]]
  <1>1. \A i \in 1..Len(Seats) : /\ s(f)[i] \in Int /\ s(g)[i] \in Int
                                 /\ s(h)[i] = s(f)[i] + s(g)[i]
    BY Seating
  <1>2. /\ Holdem!Total(f) = SumTo(s(f), Len(Seats))
        /\ Holdem!Total(g) = SumTo(s(g), Len(Seats))
        /\ Holdem!Total(h) = SumTo(s(h), Len(Seats))
    BY TotalIs
  <1> HIDE DEF s
  <1> QED BY <1>1, <1>2, Seating, SumPlus

LEMMA TotalCount ==
    ASSUME HoldemAssumption, NEW f, NEW C \in SUBSET Everybody, NEW d \in Int,
           \A p \in Everybody : f[p] = IF p \in C THEN d ELSE 0
    PROVE  Holdem!Total(f) = d * Cardinality(C)
  <1> DEFINE n == Len(Seats)
             s == [i \in 1..n |-> f[Seats[i]]]
             D == {i \in 1..n : Seats[i] \in C}
  <1>1. \A i \in 1..n : s[i] = IF i \in D THEN d ELSE 0
    BY Seating
  <1>2. Holdem!Total(f) = SumTo(s, n)
    BY TotalIs
  <1>3. D \cap 1..n = D
    OBVIOUS
  <1>4. [i \in D |-> Seats[i]] \in Bijection(D, C)
    <2> DEFINE b == [i \in D |-> Seats[i]]
    <2>1. b \in [D -> C]
      OBVIOUS
    <2>2. \A i, j \in D : b[i] = b[j] => i = j
      BY Seating DEF HoldemAssumption
    <2>3. \A p \in C : \E i \in D : b[i] = p
      <3> SUFFICES ASSUME NEW p \in C PROVE \E i \in D : b[i] = p
        OBVIOUS
      <3>1. PICK i \in 1..n : Seats[i] = p
        BY Seating DEF HoldemAssumption
      <3> QED BY <3>1
    <2> HIDE DEF b, D
    <2>4. b \in Bijection(D, C)
      BY <2>1, <2>2, <2>3 DEF Bijection, Injection, Surjection, IsInjective
    <2> QED BY <2>4 DEF b
  <1>5. IsFiniteSet(D)
    <2>1. IsFiniteSet(1..n) /\ D \in SUBSET (1..n)
      BY Seating, FS_Interval
    <2> HIDE DEF D
    <2> QED BY <2>1, FS_Subset
  <1> HIDE DEF s, D
  <1>6. SumTo(s, n) = d * Cardinality(D \cap 1..n)
    BY <1>1, Seating, SumCount
  <1>7. Cardinality(C) = Cardinality(D)
    BY <1>4, <1>5, FS_Bijection DEF ExistsBijection
  <1> QED BY <1>2, <1>3, <1>6, <1>7

\* One player's chips change.
LEMMA TotalOne ==
    ASSUME HoldemAssumption, NEW f, NEW h, NEW p \in Everybody, NEW d \in Int,
           \A q \in Everybody : f[q] \in Int, h[p] = f[p] + d,
           \A q \in Everybody : q # p => h[q] = f[q]
    PROVE  Holdem!Total(h) = Holdem!Total(f) + d
  <1> DEFINE g == [q \in Everybody |-> IF q = p THEN d ELSE 0]
  <1>1. \A q \in Everybody : g[q] = IF q \in {p} THEN d ELSE 0
    OBVIOUS
  <1>2. ASSUME NEW q \in Everybody
        PROVE  f[q] \in Int /\ g[q] \in Int /\ h[q] = f[q] + g[q]
    <2>1. f[q] \in Int /\ f[q] + 0 = f[q]
      OBVIOUS
    <2>2. (q = p => g[q] = d) /\ (q # p => g[q] = 0)
      OBVIOUS
    <2>3. CASE q = p
      BY <2>1, <2>2, <2>3
    <2>4. CASE q # p
      <3>1. h[q] = f[q]
        BY <2>4
      <3> QED BY <2>1, <2>2, <2>4, <3>1
    <2> QED BY <2>3, <2>4
  <1> HIDE DEF g
  <1>3. Holdem!Total(g) = d * Cardinality({p})
    BY <1>1, TotalCount
  <1>4. Cardinality({p}) = 1
    BY FS_Singleton
  <1>5. Holdem!Total(h) = Holdem!Total(f) + Holdem!Total(g)
    BY <1>2, TotalPlus
  <1>6. d * 1 = d
    OBVIOUS
  <1> QED BY <1>3, <1>4, <1>5, <1>6
-----------------------------------------------------------------------------
(* Pots.                                                                   *)

\* What the players have put in, and who has folded.
Booked(g) == g.contrib \in [Everybody -> Nat] /\ g.folded \in SUBSET Everybody

LEMMA MaxIs ==
    ASSUME NEW S \in SUBSET Nat, S # {}, NEW n \in Nat, \A x \in S : x <= n
    PROVE  Holdem!Max(S) \in S /\ \A x \in S : Holdem!Max(S) >= x
  <1> DEFINE Bounds == {k \in Nat : \A x \in S : x <= k}
  <1>1. PICK m \in Bounds : \A k \in Bounds : m <= k
    <2>1. n \in Bounds /\ Bounds \in SUBSET Nat
      OBVIOUS
    <2> HIDE DEF Bounds
    <2> QED BY <2>1, Least
  <1>2. m \in S
    <2>1. CASE m = 0
      <3>1. PICK x \in S : x <= m
        BY <1>1
      <3>2. x \in Nat /\ x = 0
        BY <2>1, <3>1
      <3> QED BY <2>1, <3>2
    <2>2. CASE m # 0
      <3>1. m - 1 \in Nat /\ m - 1 \notin Bounds
        BY <1>1, <2>2
      <3>2. PICK x \in S : ~(x <= m - 1)
        BY <3>1
      <3>3. x <= m /\ x \in Nat
        BY <1>1
      <3>4. x = m
        BY <3>1, <3>2, <3>3
      <3> QED BY <3>4
    <2> QED BY <2>1, <2>2
  <1>3. \A x \in S : m >= x
    BY <1>1
  <1> QED BY <1>2, <1>3 DEF Holdem!Max

\* The amounts put in, and the next lower one, which is 0 if there is none.
LEMMA LevelsKnown ==
    ASSUME HoldemAssumption, NEW g, Booked(g)
    PROVE  /\ Holdem!Levels(g) \subseteq 1..Holdem!TotalPot(g)
           /\ Holdem!TotalPot(g) \in Nat
           /\ \A p \in Everybody : /\ g.contrib[p] \in 0..Holdem!TotalPot(g)
                                   /\ g.contrib[p] # 0 => g.contrib[p] \in Holdem!Levels(g)
  <1>1. \A p \in Everybody : g.contrib[p] \in Nat
    BY DEF Booked
  <1>2. Holdem!TotalPot(g) \in Nat /\ \A p \in Everybody : Holdem!TotalPot(g) >= g.contrib[p]
    BY <1>1, TotalType DEF Holdem!TotalPot
  <1> QED BY <1>1, <1>2 DEF Holdem!Levels

LEMMA BelowIs ==
    ASSUME HoldemAssumption, NEW g, Booked(g), NEW l \in Nat, l > 0
    PROVE  /\ Holdem!Below(g, l) \in 0..l - 1
           /\ Holdem!Below(g, l) # 0 => Holdem!Below(g, l) \in Holdem!Levels(g)
           /\ \A m \in Holdem!Levels(g) : m < l => m <= Holdem!Below(g, l)
  <1> DEFINE S == {m \in Holdem!Levels(g) : m < l} \cup {0}
  <1>1. Holdem!Levels(g) \subseteq Nat
    BY LevelsKnown
  <1>2. S \in SUBSET Nat /\ S # {} /\ \A x \in S : x <= l
    BY <1>1
  <1>3. Holdem!Below(g, l) = Holdem!Max(S)
    BY DEF Holdem!Below
  <1>4. \A m \in Holdem!Levels(g) : m < l => m \in S
    OBVIOUS
  <1>5. \A x \in S : x \in 0..l - 1 /\ (x # 0 => x \in Holdem!Levels(g))
    BY <1>1
  <1> HIDE DEF S
  <1>6. Holdem!Max(S) \in S /\ \A x \in S : Holdem!Max(S) >= x
    BY <1>2, MaxIs
  <1> QED BY <1>2, <1>3, <1>4, <1>5, <1>6

\* A sum over pots of different levels is one over their levels, to which each of the other
\* numbers adds nothing.
LEMMA OfAllIs ==
    ASSUME NEW part, NEW n \in Nat, NEW f, \A l \in 1..n : f[l] \in Int,
           \A pot \in DOMAIN part : pot.level \in 1..n /\ part[pot] = f[pot.level],
           \A pot, other \in DOMAIN part : pot.level = other.level => pot = other,
           \A l \in 1..n : (\A pot \in DOMAIN part : pot.level # l) => f[l] = 0
    PROVE  Holdem!OfAll(part) = SumTo(f, n)
  <1> DEFINE All == DOMAIN part
             on(pots) == [l \in 1..n |-> IF \E pot \in pots : pot.level = l THEN f[l] ELSE 0]
             upTo(pots) == SumTo(on(pots), n)
             top(pots) == CHOOSE pot \in pots : \A other \in pots : pot.level >= other.level
             Sums(sum) == sum = [pots \in SUBSET All |->
                 IF pots = {} THEN 0 ELSE part[top(pots)] + sum[pots \ {top(pots)}]]
  <1>1. \A pots \in SUBSET All, l \in 1..n : on(pots)[l] \in Int
    OBVIOUS
  <1>2. ASSUME NEW pots \in SUBSET All, pots # {}
        PROVE  top(pots) \in pots /\ \A other \in pots : top(pots).level >= other.level
    <2> DEFINE S == {pot.level : pot \in pots}
    <2>1. S \in SUBSET Nat /\ S # {} /\ \A x \in S : x <= n
      BY <1>2
    <2>2. \A pot \in pots : pot.level \in S
      OBVIOUS
    <2>3. \A x \in S : \E pot \in pots : pot.level = x
      OBVIOUS
    <2> HIDE DEF S
    <2>4. Holdem!Max(S) \in S /\ \A x \in S : Holdem!Max(S) >= x
      BY <2>1, MaxIs
    <2>5. \E pot \in pots : \A other \in pots : pot.level >= other.level
      BY <2>2, <2>3, <2>4
    <2> QED BY <2>5
  <1>3. upTo({}) = 0
    <2>1. \A l \in 1..n : on({})[l] = 0 /\ on({})[l] \in Int
      OBVIOUS
    <2> HIDE DEF on
    <2>2. SumTo(on({}), n) = SumTo(on({}), 0)
      <3>1. 0 \in Nat /\ 0 <= n /\ \A l \in 0 + 1..n : on({})[l] = 0
        BY <2>1
      <3> QED BY <2>1, <3>1, SumTail
    <2> QED BY <2>2, SumOf
  <1>4. ASSUME NEW pots \in SUBSET All, pots # {}
        PROVE  upTo(pots) = part[top(pots)] + upTo(pots \ {top(pots)})
    <2> DEFINE t == top(pots)
               k == t.level
               rest == pots \ {t}
    <2>1. t \in pots /\ (\A other \in pots : t.level >= other.level) /\ rest \in SUBSET All
      BY <1>2, <1>4
    <2> HIDE DEF t
    <2>2. k \in 1..n /\ k - 1 \in Nat /\ k - 1 <= n /\ k \in Nat /\ k <= n /\ (k - 1) + 1 = k
      BY <2>1
    <2>3. \A pot \in rest : pot.level \in Nat /\ pot.level < k
      <3> SUFFICES ASSUME NEW pot \in rest PROVE pot.level \in Nat /\ pot.level < k
        OBVIOUS
      <3>1. pot \in All /\ t \in All /\ pot # t /\ k >= pot.level
        BY <2>1
      <3>2. pot.level # k /\ pot.level \in 1..n
        BY <3>1
      <3> QED BY <2>2, <3>1, <3>2
    <2>4. \A l \in k + 1..n : on(pots)[l] = 0
      <3> SUFFICES ASSUME NEW l \in k + 1..n PROVE on(pots)[l] = 0
        OBVIOUS
      <3>1. l \in 1..n /\ l > k
        BY <2>2
      <3>2. \A pot \in pots : pot.level # l
        BY <2>1, <2>2, <3>1
      <3> QED BY <3>1, <3>2
    <2>5. \A l \in (k - 1) + 1..n : on(rest)[l] = 0
      <3> SUFFICES ASSUME NEW l \in (k - 1) + 1..n PROVE on(rest)[l] = 0
        OBVIOUS
      <3>1. l \in 1..n /\ l >= k
        BY <2>2
      <3>2. \A pot \in rest : pot.level # l
        <4> HIDE DEF rest, k
        <4> QED BY <2>2, <2>3, <3>1
      <3> QED BY <3>1, <3>2
    <2>6. \A l \in 1..k - 1 : on(pots)[l] = on(rest)[l]
      <3> SUFFICES ASSUME NEW l \in 1..k - 1 PROVE on(pots)[l] = on(rest)[l]
        OBVIOUS
      <3>1. l \in 1..n /\ l # k
        BY <2>2
      <3>2. (\E pot \in pots : pot.level = l) <=> (\E pot \in rest : pot.level = l)
        BY <3>1
      <3> QED BY <3>1, <3>2
    <2>7. on(pots)[k] = part[t]
      BY <2>1, <2>2
    <2>8. \A l \in 1..n : on(pots)[l] \in Int /\ on(rest)[l] \in Int
      BY <1>1, <2>1
    <2>9. upTo(pots) = upTo(rest) + part[t]
      <3> HIDE DEF on, k, rest
      <3>1. SumTo(on(pots), n) = SumTo(on(pots), k)
        BY <2>2, <2>4, <2>8, SumTail
      <3>2. SumTo(on(rest), n) = SumTo(on(rest), k - 1)
        BY <2>2, <2>5, <2>8, SumTail
      <3>3. SumTo(on(pots), k - 1) = SumTo(on(rest), k - 1)
        BY <2>2, <2>6, SumSame
      <3>4. SumTo(on(pots), (k - 1) + 1) = SumTo(on(pots), k - 1) + on(pots)[(k - 1) + 1]
        BY <2>2, SumOf
      <3>5. SumTo(on(pots), k) = SumTo(on(pots), k - 1) + on(pots)[k]
        BY <2>2, <3>4
      <3> QED BY <2>7, <3>1, <3>2, <3>3, <3>5
    <2>10. upTo(rest) \in Int /\ part[t] \in Int
      <3>1. n \in 0..n
        OBVIOUS
      <3>2. SumTo(on(rest), n) \in Int
        <4> HIDE DEF on, rest
        <4> QED BY <2>8, <3>1, SumType
      <3> QED BY <2>1, <2>2, <3>2
    <2>11. upTo(pots) = part[t] + upTo(rest)
      <3> HIDE DEF upTo, rest
      <3> QED BY <2>9, <2>10
    <2> QED BY <2>11 DEF t
  <1> HIDE DEF upTo, on, top
  <1>5. Sums([pots \in SUBSET All |-> upTo(pots)])
    <2> DEFINE sum == [pots \in SUBSET All |-> upTo(pots)]
    <2>1. \A pots \in SUBSET All :
             sum[pots] = IF pots = {} THEN 0 ELSE part[top(pots)] + sum[pots \ {top(pots)}]
      BY <1>3, <1>4
    <2>2. sum = [pots \in SUBSET All |->
                    IF pots = {} THEN 0 ELSE part[top(pots)] + sum[pots \ {top(pots)}]]
      BY <2>1
    <2> QED BY <2>2
  <1>6. ASSUME NEW sum, Sums(sum)
        PROVE  sum[All] = upTo(All)
    <2> DEFINE T == {k \in Nat : \A pots \in SUBSET All :
                                    (\A pot \in pots : pot.level <= k) => sum[pots] = upTo(pots)}
    <2>1. \A pots \in SUBSET All :
             sum[pots] = IF pots = {} THEN 0 ELSE part[top(pots)] + sum[pots \ {top(pots)}]
      BY <1>6
    <2>2. 0 \in T
      <3> SUFFICES ASSUME NEW pots \in SUBSET All, \A pot \in pots : pot.level <= 0
                   PROVE  sum[pots] = upTo(pots)
        OBVIOUS
      <3>1. pots = {}
        OBVIOUS
      <3> QED BY <1>3, <2>1, <3>1
    <2>3. ASSUME NEW k \in Nat, k \in T PROVE k + 1 \in T
      <3> SUFFICES ASSUME NEW pots \in SUBSET All, \A pot \in pots : pot.level <= k + 1
                   PROVE  sum[pots] = upTo(pots)
        OBVIOUS
      <3>1. CASE pots = {}
        BY <1>3, <2>1, <3>1
      <3>2. CASE pots # {}
        <4> DEFINE rest == pots \ {top(pots)}
        <4>1. top(pots) \in pots /\ \A other \in pots : top(pots).level >= other.level
          BY <1>2, <3>2
        <4>2. rest \in SUBSET All
          OBVIOUS
        <4>3. ASSUME NEW pot \in rest PROVE pot.level <= k
          <5>1. pot \in All /\ top(pots) \in All /\ pot # top(pots) /\ pot \in pots
            BY <4>1
          <5>2. pot.level # top(pots).level
            BY <5>1
          <5>3. pot.level \in Nat /\ top(pots).level \in Nat
            BY <5>1
          <5>4. top(pots).level >= pot.level /\ top(pots).level <= k + 1
            BY <4>1, <5>1
          <5> QED BY <5>2, <5>3, <5>4
        <4>4. sum[rest] = upTo(rest)
          BY <2>3, <4>2, <4>3
        <4>5. upTo(pots) = part[top(pots)] + upTo(rest)
          BY <1>4, <3>2
        <4>6. sum[pots] = part[top(pots)] + sum[rest]
          BY <2>1, <3>2
        <4> QED BY <4>4, <4>5, <4>6
      <3> QED BY <3>1, <3>2
    <2>4. \A pot \in All : pot.level <= n
      OBVIOUS
    <2> HIDE DEF T
    <2>5. n \in T
      BY <2>2, <2>3, Upwards
    <2> QED BY <2>4, <2>5 DEF T
  <1>7. Holdem!OfAll(part) = upTo(All)
    <2> DEFINE sum == CHOOSE sum : Sums(sum)
    <2>1. Sums(sum)
      BY <1>5
    <2>2. Holdem!OfAll(part) = sum[All]
      BY DEF Holdem!OfAll, top
    <2> HIDE DEF sum, Sums
    <2> QED BY <1>6, <2>1, <2>2
  <1>8. \A l \in 1..n : on(All)[l] = f[l]
    BY DEF on
  <1>9. upTo(All) = SumTo(f, n)
    BY <1>8, SumSame DEF upTo
  <1> QED BY <1>7, <1>9

\* The chips in the pot of level l, none if nobody put in just that.
In(g, l) ==
    IF l \in Holdem!Levels(g)
    THEN (l - Holdem!Below(g, l)) * Cardinality(Holdem!Contributors(g, l)) ELSE 0

LEMMA PotsKnown ==
    ASSUME HoldemAssumption, NEW g, Booked(g)
    PROVE  /\ Holdem!Pots(g) = {Holdem!Pot(g, l) : l \in Holdem!Levels(g)}
           /\ \A l \in Holdem!Levels(g) :
                 /\ Holdem!Pot(g, l).level = l
                 /\ Holdem!Pot(g, l).amount = In(g, l)
                 /\ Holdem!Pot(g, l).eligible = {p \in Everybody : g.contrib[p] >= l} \ g.folded
           /\ \A l \in Nat : In(g, l) \in Nat /\ (l \in Holdem!Levels(g) => In(g, l) > 0)
  <1>1. \A l \in Holdem!Levels(g) :
           /\ Holdem!Pot(g, l).level = l
           /\ Holdem!Pot(g, l).amount = In(g, l)
           /\ Holdem!Pot(g, l).eligible = {p \in Everybody : g.contrib[p] >= l} \ g.folded
    BY SameTools DEF Holdem!Pot, In, Holdem!Contributors
  <1>2. ASSUME NEW l \in Nat, l \in Holdem!Levels(g)
        PROVE  In(g, l) \in Nat /\ In(g, l) > 0
    <2> DEFINE C == Holdem!Contributors(g, l)
               d == l - Holdem!Below(g, l)
    <2>1. l > 0
      BY <1>2, LevelsKnown
    <2>2. d \in Nat /\ d > 0
      BY <2>1, BelowIs
    <2>3. C \in SUBSET Everybody
      BY DEF Holdem!Contributors
    <2>4. C # {}
      BY <1>2 DEF Holdem!Contributors, Holdem!Levels, Booked
    <2>5. IsFiniteSet(C) /\ Cardinality(C) \in Nat /\ Cardinality(C) # 0
      BY <2>3, <2>4, PartOfAll, FS_EmptySet
    <2>6. In(g, l) = d * Cardinality(C)
      BY <1>2 DEF In
    <2>7. \A a, b \in Nat : a > 0 /\ b # 0 => a * b \in Nat /\ a * b > 0
      OBVIOUS
    <2> HIDE DEF d, C
    <2> QED BY <2>2, <2>5, <2>6, <2>7
  <1>3. \A l \in Nat : l \notin Holdem!Levels(g) => In(g, l) = 0
    BY DEF In
  <1> QED BY <1>1, <1>2, <1>3 DEF Holdem!Pots

\* A sum over the pots of some levels D, and the chips in them.
LEMMA OfPots ==
    ASSUME HoldemAssumption, NEW g, Booked(g), NEW D \in SUBSET Holdem!Levels(g), NEW part,
           DOMAIN part = {Holdem!Pot(g, l) : l \in D}, NEW f,
           \A l \in 1..Holdem!TotalPot(g) :
              f[l] \in Int /\ f[l] = IF l \in D THEN part[Holdem!Pot(g, l)] ELSE 0
    PROVE  Holdem!OfAll(part) = SumTo(f, Holdem!TotalPot(g))
  <1> DEFINE n == Holdem!TotalPot(g)
  <1>1. n \in Nat /\ D \subseteq 1..n
    BY LevelsKnown
  <1>2. \A l \in D : Holdem!Pot(g, l).level = l
    BY PotsKnown
  <1>3. \A pot \in DOMAIN part : \E l \in D : pot = Holdem!Pot(g, l) /\ pot.level = l
    BY <1>2
  <1> HIDE DEF n
  <1>4. \A pot \in DOMAIN part : pot.level \in 1..n /\ part[pot] = f[pot.level]
    BY <1>1, <1>3 DEF n
  <1>5. \A pot, other \in DOMAIN part : pot.level = other.level => pot = other
    BY <1>3
  <1>6. \A l \in 1..n : (\A pot \in DOMAIN part : pot.level # l) => f[l] = 0
    BY <1>2 DEF n
  <1>7. \A l \in 1..n : f[l] \in Int
    BY DEF n
  <1>8. Holdem!OfAll(part) = SumTo(f, n)
    BY <1>1, <1>4, <1>5, <1>6, <1>7, OfAllIs
  <1> QED BY <1>8 DEF n

LEMMA AmountIs ==
    ASSUME HoldemAssumption, NEW g, Booked(g), NEW D \in SUBSET Holdem!Levels(g), NEW f,
           \A l \in 1..Holdem!TotalPot(g) : f[l] = IF l \in D THEN In(g, l) ELSE 0
    PROVE  Holdem!Amount({Holdem!Pot(g, l) : l \in D}) = SumTo(f, Holdem!TotalPot(g))
  <1> DEFINE pots == {Holdem!Pot(g, l) : l \in D}
             part == [pot \in pots |-> pot.amount]
  <1>1. DOMAIN part = {Holdem!Pot(g, l) : l \in D}
    OBVIOUS
  <1>2. \A l \in D : part[Holdem!Pot(g, l)] = In(g, l)
    BY PotsKnown
  <1>3. \A l \in 1..Holdem!TotalPot(g) :
           f[l] \in Int /\ f[l] = IF l \in D THEN part[Holdem!Pot(g, l)] ELSE 0
    <2> SUFFICES ASSUME NEW l \in 1..Holdem!TotalPot(g)
                 PROVE  f[l] \in Int /\ f[l] = IF l \in D THEN part[Holdem!Pot(g, l)] ELSE 0
      OBVIOUS
    <2>1. In(g, l) \in Nat /\ l \in Nat
      <3>1. l \in Nat
        BY LevelsKnown
      <3> QED BY <3>1, PotsKnown
    <2> HIDE DEF part
    <2> QED BY <1>2, <2>1
  <1>4. Holdem!Amount(pots) = Holdem!OfAll(part)
    BY DEF Holdem!Amount
  <1> HIDE DEF part
  <1> QED BY <1>1, <1>3, <1>4, OfPots

\* The pots up to level k hold what each player put in, up to the highest amount not above k.
LEMMA PotsUpTo ==
    ASSUME HoldemAssumption, NEW g, Booked(g), NEW n \in Nat, NEW k \in 0..n
    PROVE  SumTo([l \in 1..n |-> In(g, l)], k)
           = Holdem!Total([q \in Everybody |->
                              Holdem!Smaller(Holdem!Below(g, k + 1), g.contrib[q])])
  <1> DEFINE f == [l \in 1..n |-> In(g, l)]
             upto(i) == [q \in Everybody |->
                            Holdem!Smaller(Holdem!Below(g, i + 1), g.contrib[q])]
             T == {i \in Nat : SumTo(f, i) = Holdem!Total(upto(i))}
  <1>1. \A q \in Everybody : g.contrib[q] \in Nat
    BY DEF Booked
  <1>2. 0 \in T
    <2>1. Holdem!Below(g, 0 + 1) = 0
      BY BelowIs
    <2>2. \A q \in Everybody : upto(0)[q] = IF q \in {} THEN 0 ELSE 0
      <3>1. \A q \in Everybody : upto(0)[q] = Holdem!Smaller(0, g.contrib[q])
        BY <2>1
      <3>2. \A q \in Everybody : Holdem!Smaller(0, g.contrib[q]) = 0
        <4>1. \A c \in Nat : Holdem!Smaller(0, c) = 0
          BY DEF Holdem!Smaller
        <4> QED BY <1>1, <4>1
      <3> HIDE DEF upto
      <3> QED BY <3>1, <3>2
    <2> HIDE DEF upto
    <2>3. Holdem!Total(upto(0)) = 0 * Cardinality({})
      BY <2>2, TotalCount
    <2>4. 0 * Cardinality({}) = 0
      BY FS_EmptySet
    <2> QED BY <2>3, <2>4, SumOf
  <1>3. ASSUME NEW i \in 0..n - 1, i \in T PROVE i + 1 \in T
    <2> DEFINE b == Holdem!Below(g, i + 1)
               c == Holdem!Below(g, (i + 1) + 1)
    <2>1. i \in Nat /\ i + 1 \in 1..n /\ i + 1 \in Nat
      OBVIOUS
    <2>2. f[i + 1] = In(g, i + 1)
      BY <2>1
    <2>3. SumTo(f, i + 1) = SumTo(f, i) + In(g, i + 1)
      <3> HIDE DEF f
      <3> QED BY <2>1, <2>2, SumOf
    <2>4. /\ b \in 0..i /\ c \in 0..i + 1
          /\ \A m \in Holdem!Levels(g) : m < i + 1 => m <= b
          /\ \A m \in Holdem!Levels(g) : m < (i + 1) + 1 => m <= c
          /\ c # 0 => c \in Holdem!Levels(g)
          /\ b # 0 => b \in Holdem!Levels(g)
      <3>1. i + 1 > 0 /\ (i + 1) + 1 > 0 /\ (i + 1) + 1 \in Nat
            /\ (i + 1) - 1 = i /\ ((i + 1) + 1) - 1 = i + 1
        BY <2>1
      <3> QED BY <2>1, <3>1, BelowIs
    <2>5. SumTo(f, i) = Holdem!Total(upto(i))
      BY <1>3
    <2>6. CASE i + 1 \notin Holdem!Levels(g)
      <3>1. In(g, i + 1) = 0
        BY <2>6 DEF In
      <3>2. b = c
        <4>1. b <= c
          <5>1. CASE b = 0
            BY <2>1, <2>4, <5>1
          <5>2. CASE b # 0
            <6>1. b \in Holdem!Levels(g) /\ b < (i + 1) + 1
              BY <2>1, <2>4, <5>2
            <6> QED BY <2>4, <6>1
          <5> QED BY <5>1, <5>2
        <4>2. c <= b
          <5>1. CASE c = 0
            BY <2>1, <2>4, <5>1
          <5>2. CASE c # 0
            <6>1. c \in Holdem!Levels(g) /\ c # i + 1
              BY <2>4, <2>6, <5>2
            <6>2. c < i + 1
              BY <2>1, <2>4, <6>1
            <6> QED BY <2>4, <6>1, <6>2
          <5> QED BY <5>1, <5>2
        <4> QED BY <2>1, <2>4, <4>1, <4>2
      <3>3. upto(i + 1) = upto(i)
        BY <3>2
      <3>4. SumTo(f, i) \in Int
        <4>1. \A l \in 1..n : f[l] \in Int
          BY PotsKnown
        <4> HIDE DEF f
        <4> QED BY <4>1, <2>1, SumType
      <3> HIDE DEF f, upto, b, c
      <3> QED BY <2>1, <2>3, <2>5, <3>1, <3>3, <3>4
    <2>7. CASE i + 1 \in Holdem!Levels(g)
      <3> DEFINE C == Holdem!Contributors(g, i + 1)
                 more == [q \in Everybody |-> IF q \in C THEN (i + 1) - b ELSE 0]
      <3>1. In(g, i + 1) = ((i + 1) - b) * Cardinality(C)
        BY <2>7 DEF In
      <3>2. c = i + 1
        <4>1. i + 1 <= c
          BY <2>1, <2>4, <2>7
        <4> QED BY <2>1, <2>4, <4>1
      <3>3. ASSUME NEW q \in Everybody
            PROVE  /\ upto(i)[q] \in Int /\ more[q] \in Int
                   /\ upto(i + 1)[q] = upto(i)[q] + more[q]
        <4>1. g.contrib[q] \in Nat
          BY <1>1
        <4>2. upto(i)[q] = Holdem!Smaller(b, g.contrib[q])
              /\ upto(i + 1)[q] = Holdem!Smaller(i + 1, g.contrib[q])
          BY <3>2
        <4>3. CASE q \in C
          <5>1. g.contrib[q] >= i + 1 /\ more[q] = (i + 1) - b
            BY <4>3 DEF Holdem!Contributors
          <5> HIDE DEF b, c, upto, more
          <5> QED BY <2>1, <2>4, <4>1, <4>2, <5>1 DEF Holdem!Smaller
        <4>4. CASE q \notin C
          <5>1. ~(g.contrib[q] >= i + 1) /\ more[q] = 0
            BY <4>4 DEF Holdem!Contributors
          <5>2. g.contrib[q] <= b
            <6>1. CASE g.contrib[q] = 0
              BY <2>4, <6>1
            <6>2. CASE g.contrib[q] # 0
              <7>1. g.contrib[q] \in Holdem!Levels(g) /\ g.contrib[q] < i + 1
                BY <2>1, <4>1, <5>1, <6>2 DEF Holdem!Levels
              <7> QED BY <2>4, <7>1
            <6> QED BY <6>1, <6>2
          <5> HIDE DEF b, c, upto, more
          <5> QED BY <2>1, <2>4, <4>1, <4>2, <5>1, <5>2 DEF Holdem!Smaller
        <4> QED BY <4>3, <4>4
      <3>4. C \in SUBSET Everybody /\ (i + 1) - b \in Int
        BY <2>1, <2>4 DEF Holdem!Contributors
      <3>5. \A q \in Everybody : more[q] = IF q \in C THEN (i + 1) - b ELSE 0
        OBVIOUS
      <3> HIDE DEF upto, more, b, c, C, f
      <3>6. Holdem!Total(more) = ((i + 1) - b) * Cardinality(C)
        BY <3>4, <3>5, TotalCount
      <3>7. Holdem!Total(upto(i + 1)) = Holdem!Total(upto(i)) + Holdem!Total(more)
        BY <3>3, TotalPlus
      <3> QED BY <2>1, <2>3, <2>5, <3>1, <3>6, <3>7
    <2> QED BY <2>6, <2>7
  <1> HIDE DEF T, f, upto
  <1>4. 0..n \subseteq T
    BY <1>2, <1>3, UpTo
  <1>5. SumTo(f, k) = Holdem!Total(upto(k))
    BY <1>4 DEF T
  <1> QED BY <1>5 DEF f, upto

\* A player may win from each player as much as he put in himself.
Due(g, p) == Holdem!Total([q \in Everybody |-> Holdem!Smaller(g.contrib[p], g.contrib[q])])

LEMMA PotsAddUpAll ==
    ASSUME HoldemAssumption, NEW g, Booked(g)
    PROVE  /\ Holdem!Amount(Holdem!Pots(g)) = Holdem!TotalPot(g)
           /\ SumTo([l \in 1..Holdem!TotalPot(g) |-> In(g, l)], Holdem!TotalPot(g))
              = Holdem!TotalPot(g)
  <1> DEFINE n == Holdem!TotalPot(g)
             f == [l \in 1..n |-> In(g, l)]
             all == [q \in Everybody |-> Holdem!Smaller(Holdem!Below(g, n + 1), g.contrib[q])]
  <1>1. n \in Nat /\ Holdem!Levels(g) \subseteq 1..n
    BY LevelsKnown
  <1>2. Holdem!Amount(Holdem!Pots(g)) = SumTo(f, n)
    <2>1. Holdem!Pots(g) = {Holdem!Pot(g, l) : l \in Holdem!Levels(g)}
      BY PotsKnown
    <2>2. \A l \in 1..n : f[l] = IF l \in Holdem!Levels(g) THEN In(g, l) ELSE 0
      BY DEF In
    <2> HIDE DEF f
    <2> QED BY <2>1, <2>2, AmountIs
  <1>3. SumTo(f, n) = Holdem!Total(all)
    <2>1. n \in 0..n
      BY <1>1
    <2> HIDE DEF n
    <2> QED BY <1>1, <2>1, PotsUpTo
  <1>4. \A q \in Everybody : all[q] = g.contrib[q]
    <2> SUFFICES ASSUME NEW q \in Everybody PROVE all[q] = g.contrib[q]
      OBVIOUS
    <2>1. n + 1 \in Nat /\ n + 1 > 0 /\ g.contrib[q] \in 0..n
      BY <1>1, LevelsKnown
    <2>2. Holdem!Below(g, n + 1) \in Nat
          /\ \A m \in Holdem!Levels(g) : m < n + 1 => m <= Holdem!Below(g, n + 1)
      <3> HIDE DEF n
      <3> QED BY <2>1, BelowIs
    <2>3. g.contrib[q] <= Holdem!Below(g, n + 1)
      <3>1. g.contrib[q] # 0 => g.contrib[q] \in Holdem!Levels(g)
        BY LevelsKnown
      <3> HIDE DEF n
      <3> QED BY <1>1, <2>1, <2>2, <3>1
    <2>4. all[q] = Holdem!Smaller(Holdem!Below(g, n + 1), g.contrib[q])
      OBVIOUS
    <2> HIDE DEF all, n
    <2> QED BY <1>1, <2>1, <2>2, <2>3, <2>4 DEF Holdem!Smaller
  <1> HIDE DEF f, all
  <1>5. Holdem!Total(all) = Holdem!Total(g.contrib)
    BY <1>4, TotalSame
  <1>6. Holdem!Total(all) = n
    BY <1>5 DEF Holdem!TotalPot
  <1>7. SumTo(f, n) = n
    BY <1>3, <1>6
  <1>8. Holdem!Amount(Holdem!Pots(g)) = n
    BY <1>2, <1>7
  <1> QED BY <1>7, <1>8 DEF f

\* The pots that a player is eligible for, as a sum over all levels.
LEMMA DueIs ==
    ASSUME HoldemAssumption, NEW g, Booked(g), NEW p \in Everybody
    PROVE  SumTo([l \in 1..Holdem!TotalPot(g) |-> IF l <= g.contrib[p] THEN In(g, l) ELSE 0],
                 Holdem!TotalPot(g))
           = Due(g, p)
  <1> DEFINE n == Holdem!TotalPot(g)
             c == g.contrib[p]
             f == [l \in 1..n |-> In(g, l)]
             h == [l \in 1..n |-> IF l <= c THEN In(g, l) ELSE 0]
             all == [q \in Everybody |-> Holdem!Smaller(Holdem!Below(g, c + 1), g.contrib[q])]
  <1>1. n \in Nat /\ c \in 0..n /\ (c # 0 => c \in Holdem!Levels(g))
    BY LevelsKnown
  <1>2. \A l \in 1..n : h[l] \in Int
    BY <1>1, PotsKnown
  <1>3. \A l \in 1..c : h[l] = f[l]
    BY <1>1
  <1>4. \A l \in c + 1..n : h[l] = 0
    BY <1>1
  <1>5. SumTo(h, n) = SumTo(h, c)
    <2>1. c \in Nat /\ c <= n
      BY <1>1
    <2> HIDE DEF h, n, c
    <2> QED BY <1>1, <1>2, <1>4, <2>1, SumTail
  <1>6. SumTo(h, c) = SumTo(f, c)
    <2> HIDE DEF h, f, n, c
    <2> QED BY <1>1, <1>3, SumSame
  <1>7. SumTo(f, c) = Holdem!Total(all)
    <2> HIDE DEF n, c
    <2> QED BY <1>1, PotsUpTo
  <1>8. Holdem!Below(g, c + 1) = c
    <2>1. c + 1 \in Nat /\ c + 1 > 0
      BY <1>1
    <2> HIDE DEF c
    <2>2. Holdem!Below(g, c + 1) \in 0..(c + 1) - 1
          /\ \A m \in Holdem!Levels(g) : m < c + 1 => m <= Holdem!Below(g, c + 1)
      BY <2>1, BelowIs
    <2> HIDE DEF n
    <2> QED BY <1>1, <2>2
  <1> QED BY <1>5, <1>6, <1>7, <1>8 DEF Due

LEMMA PotsOfPlayer ==
    ASSUME HoldemAssumption, NEW g, Booked(g), NEW p \in Everybody \ g.folded
    PROVE  Holdem!Amount({pot \in Holdem!Pots(g) : p \in pot.eligible}) = Due(g, p)
  <1> DEFINE n == Holdem!TotalPot(g)
             D == {l \in Holdem!Levels(g) : l <= g.contrib[p]}
             h == [l \in 1..n |-> IF l <= g.contrib[p] THEN In(g, l) ELSE 0]
  <1>1. Holdem!Levels(g) \subseteq Nat /\ g.contrib[p] \in Nat
    BY LevelsKnown DEF Booked
  <1>2. \A l \in Holdem!Levels(g) : p \in Holdem!Pot(g, l).eligible <=> l \in D
    BY <1>1, PotsKnown
  <1>3. {pot \in Holdem!Pots(g) : p \in pot.eligible} = {Holdem!Pot(g, l) : l \in D}
    BY <1>2, PotsKnown
  <1>4. \A l \in 1..n : h[l] = IF l \in D THEN In(g, l) ELSE 0
    BY DEF In
  <1>5. Holdem!Amount({Holdem!Pot(g, l) : l \in D}) = SumTo(h, n)
    <2>1. D \in SUBSET Holdem!Levels(g)
      OBVIOUS
    <2> HIDE DEF D, h
    <2> QED BY <1>4, <2>1, AmountIs
  <1>6. SumTo(h, n) = Due(g, p)
    BY DueIs
  <1> QED BY <1>3, <1>5, <1>6
-----------------------------------------------------------------------------
(* Shares of the pots.                                                     *)

LEMMA PlaceIs ==
    ASSUME HoldemAssumption, NEW p \in Everybody
    PROVE  /\ Holdem!Place(p, Seats) \in 0..Len(Seats) - 1
           /\ Seats[Holdem!Place(p, Seats) + 1] = p
  <1> DEFINE i == CHOOSE i \in DOMAIN Seats : Seats[i] = p
  <1>1. i \in DOMAIN Seats /\ Seats[i] = p
    BY DEF HoldemAssumption
  <1>2. Holdem!Place(p, Seats) = i - 1
    BY DEF Holdem!Place
  <1>3. i \in 1..Len(Seats) /\ Len(Seats) \in Nat
    BY <1>1, Seating
  <1> HIDE DEF i
  <1> QED BY <1>1, <1>2, <1>3

\* The odd chips: no two players are equally far after the button.
LEMMA AfterOrder ==
    ASSUME HoldemAssumption, NEW g, g.button \in Everybody
    PROVE  /\ \A p \in Everybody : Holdem!After(g, p) \in Nat
           /\ \A p, q \in Everybody : Holdem!After(g, p) = Holdem!After(g, q) => p = q
  <1> DEFINE n == Len(Seats)
             at(p) == Holdem!Place(p, Seats)
             b == Holdem!Place(g.button, Seats)
             x(p) == at(p) - b - 1
             wrap(p) == IF x(p) >= 0 THEN x(p) ELSE x(p) + n
  <1>1. n \in Nat \ {0} /\ b \in 0..n - 1
    BY PlaceIs, Seating
  <1>2. ASSUME NEW p \in Everybody
        PROVE  Holdem!After(g, p) = wrap(p) /\ wrap(p) \in 0..n - 1
    <2>1. at(p) \in 0..n - 1
      BY PlaceIs
    <2>2. Holdem!After(g, p) = x(p) % n
      BY DEF Holdem!After
    <2> HIDE DEF at, b, n
    <2>3. x(p) \in Int /\ wrap(p) \in 0..n - 1
      BY <1>1, <2>1
    <2>4. x(p) = n * 0 + x(p) /\ x(p) = n * (-1) + (x(p) + n)
      BY <1>1, <2>3
    <2> HIDE DEF x
    <2>5. \A q \in Int, r \in 0..n - 1 : x(p) = n * q + r => x(p) % n = r
      BY <1>1, <2>3, Remainder
    <2>6. CASE x(p) >= 0
      <3>1. wrap(p) = x(p) /\ 0 \in Int
        BY <2>6
      <3>2. x(p) % n = wrap(p)
        BY <2>3, <2>4, <2>5, <3>1
      <3> QED BY <2>2, <2>3, <3>2
    <2>7. CASE ~(x(p) >= 0)
      <3>1. wrap(p) = x(p) + n /\ -1 \in Int
        BY <2>7
      <3>2. x(p) % n = wrap(p)
        BY <2>3, <2>4, <2>5, <3>1
      <3> QED BY <2>2, <2>3, <3>2
    <2> QED BY <2>6, <2>7
  <1>3. ASSUME NEW p \in Everybody, NEW q \in Everybody, wrap(p) = wrap(q)
        PROVE  p = q
    <2>1. at(p) \in 0..n - 1 /\ at(q) \in 0..n - 1
      BY PlaceIs
    <2>2. Seats[at(p) + 1] = p /\ Seats[at(q) + 1] = q
      BY PlaceIs
    <2> HIDE DEF at, b, n
    <2>3. at(p) = at(q)
      BY <1>1, <1>3, <2>1
    <2> QED BY <2>2, <2>3
  <1> HIDE DEF wrap, n
  <1> QED BY <1>1, <1>2, <1>3

LEMMA WinnersAre ==
    ASSUME NEW pot, NEW rank, NEW k \in Nat, \A p \in pot.eligible : rank[p] \in 1..k
    PROVE  /\ Holdem!Winners(pot, rank) \subseteq pot.eligible
           /\ pot.eligible # {} => Holdem!Winners(pot, rank) # {}
  <1>1. ASSUME pot.eligible # {} PROVE Holdem!Winners(pot, rank) # {}
    <2> DEFINE S == {rank[p] : p \in pot.eligible}
    <2>1. S \in SUBSET Nat /\ S # {} /\ \A x \in S : x <= k
      BY <1>1
    <2>2. \A p \in pot.eligible : rank[p] \in S
      OBVIOUS
    <2>3. \A x \in S : \E p \in pot.eligible : rank[p] = x
      OBVIOUS
    <2> HIDE DEF S
    <2>4. Holdem!Max(S) \in S /\ \A x \in S : Holdem!Max(S) >= x
      BY <2>1, MaxIs
    <2>5. PICK p \in pot.eligible : rank[p] = Holdem!Max(S)
      BY <2>3, <2>4
    <2>6. \A q \in pot.eligible : rank[p] >= rank[q]
      BY <2>2, <2>4, <2>5
    <2> QED BY <2>6 DEF Holdem!Winners
  <1> QED BY <1>1 DEF Holdem!Winners

\* A pot goes to the winners to the last chip.
LEMMA SharesAddUp ==
    ASSUME HoldemAssumption, NEW g, g.button \in Everybody, NEW pot, NEW rank, NEW k \in Nat,
           pot.eligible \in SUBSET Everybody, pot.amount \in Nat,
           \A p \in pot.eligible : rank[p] \in 1..k
    PROVE  /\ \A p \in Everybody : Holdem!Share(g, pot, rank, p) \in Nat
           /\ Holdem!Total([p \in Everybody |-> Holdem!Share(g, pot, rank, p)])
              = IF pot.eligible = {} THEN 0 ELSE pot.amount
  <1> DEFINE W == Holdem!Winners(pot, rank)
             n == Cardinality(W)
             before(p) == {q \in W : Holdem!After(g, q) < Holdem!After(g, p)}
             d == pot.amount \div n
             r == pot.amount % n
             First == {p \in W : Cardinality(before(p)) < r}
             share == [p \in Everybody |-> Holdem!Share(g, pot, rank, p)]
             equal == [p \in Everybody |-> IF p \in W THEN d ELSE 0]
             odd == [p \in Everybody |-> IF p \in First THEN 1 ELSE 0]
  <1>1. W \subseteq pot.eligible /\ (pot.eligible # {} => W # {})
    BY WinnersAre
  <1>2. W \in SUBSET Everybody /\ First \in SUBSET W /\ First \in SUBSET Everybody
    BY <1>1
  <1>3. IsFiniteSet(W) /\ n \in Nat
    BY <1>2, PartOfAll
  <1>4. \A p \in Everybody :
           Holdem!Share(g, pot, rank, p)
           = IF p \notin W THEN 0 ELSE d + (IF Cardinality(before(p)) < r THEN 1 ELSE 0)
    BY SameTools DEF Holdem!Share
  <1>5. CASE pot.eligible = {}
    <2>1. W = {}
      BY <1>1, <1>5
    <2>2. \A p \in Everybody : Holdem!Share(g, pot, rank, p) = 0
      BY <1>4, <2>1
    <2>3. \A p \in Everybody : share[p] = IF p \in {} THEN 0 ELSE 0
      BY <2>2
    <2> HIDE DEF share
    <2>4. Holdem!Total(share) = 0 * Cardinality({})
      BY <2>3, TotalCount
    <2>5. 0 * Cardinality({}) = 0
      BY FS_EmptySet
    <2> QED BY <1>5, <2>2, <2>4, <2>5 DEF share
  <1>6. CASE pot.eligible # {}
    <2>1. n # 0
      BY <1>1, <1>3, <1>6, FS_EmptySet
    <2>2. d \in Nat /\ r \in 0..n - 1 /\ pot.amount = n * d + r
      <3>1. \A x \in Nat, m \in Nat \ {0} : /\ x \div m \in Nat /\ x % m \in 0..m - 1
                                            /\ x = m * (x \div m) + (x % m)
        OBVIOUS
      <3> HIDE DEF n
      <3> QED BY <1>3, <2>1, <3>1
    <2>3. Cardinality(First) = r
      <3> DEFINE a == [p \in W |-> Holdem!After(g, p)]
      <3>1. a \in [W -> Int] /\ \A p, q \in W : a[p] = a[q] => p = q
        BY <1>2, AfterOrder
      <3>2. r \in 0..n
        BY <1>3, <2>2
      <3>3. First = {p \in W : Cardinality({q \in W : a[q] < a[p]}) < r}
        <4>1. \A p \in W : before(p) = {q \in W : a[q] < a[p]}
          OBVIOUS
        <4> HIDE DEF before, a, W, r
        <4> QED BY <4>1
      <3> HIDE DEF a, W, First, r
      <3> QED BY <1>3, <3>1, <3>2, <3>3, FirstFew
    <2>4. ASSUME NEW p \in Everybody
          PROVE  /\ equal[p] \in Nat /\ odd[p] \in Nat /\ share[p] = equal[p] + odd[p]
      <3>1. CASE p \notin W
        <4>1. equal[p] = 0 /\ odd[p] = 0 /\ share[p] = 0
          BY <1>2, <1>4, <3>1
        <4> QED BY <4>1
      <3>2. CASE p \in First
        <4>1. Cardinality(before(p)) < r /\ p \in W
          BY <3>2
        <4>2. equal[p] = d /\ odd[p] = 1 /\ share[p] = d + 1
          BY <1>4, <3>2, <4>1
        <4> QED BY <2>2, <4>2
      <3>3. CASE p \in W \ First
        <4>1. ~(Cardinality(before(p)) < r) /\ p \in W
          BY <3>3
        <4>2. equal[p] = d /\ odd[p] = 0 /\ share[p] = d + 0
          BY <1>4, <3>3, <4>1
        <4> QED BY <2>2, <4>2
      <3> QED BY <3>1, <3>2, <3>3
    <2>5. (\A p \in Everybody : equal[p] = IF p \in W THEN d ELSE 0)
          /\ \A p \in Everybody : odd[p] = IF p \in First THEN 1 ELSE 0
      OBVIOUS
    <2>6. \A p \in Everybody : share[p] = Holdem!Share(g, pot, rank, p)
      OBVIOUS
    <2> HIDE DEF W, d, r, First, share, equal, odd
    <2>7. Holdem!Total(equal) = d * n /\ Holdem!Total(odd) = 1 * Cardinality(First)
      BY <1>2, <2>2, <2>5, TotalCount
    <2>8. Holdem!Total(share) = Holdem!Total(equal) + Holdem!Total(odd)
      BY <2>4, TotalPlus
    <2>9. d * n = n * d /\ 1 * r = r
      BY <1>3, <2>2
    <2>10. Holdem!Total(share) = pot.amount
      BY <2>2, <2>3, <2>7, <2>8, <2>9
    <2>11. ASSUME NEW p \in Everybody PROVE share[p] \in Nat
      <3>1. equal[p] \in Nat /\ odd[p] \in Nat /\ share[p] = equal[p] + odd[p]
        BY <2>4
      <3> QED BY <3>1
    <2> QED BY <1>6, <2>6, <2>10, <2>11 DEF share
  <1> QED BY <1>5, <1>6

\* Who may be in a showdown, and how the cards may rank them.
Ranking(g, rank) ==
    \E k \in Nat : \A p \in Everybody \ g.folded : rank[p] \in 1..k
Paying(g, rank) == Holdem!Payout(g, Holdem!Pots(g), rank)

LEMMA RanksAre ==
    ASSUME HoldemAssumption, NEW g, g.folded \in SUBSET Everybody,
           NEW rank \in Holdem!Ranks(Everybody \ g.folded)
    PROVE  Ranking(g, rank)
  <1> DEFINE in == Everybody \ g.folded
  <1>1. Cardinality(in) \in Nat /\ Holdem!Cardinality(in) = Cardinality(in)
    BY PartOfAll, SameTools
  <1>2. rank \in [in -> 1..Holdem!Cardinality(in)]
    BY DEF Holdem!Ranks
  <1> HIDE DEF in
  <1>3. \A p \in in : rank[p] \in 1..Cardinality(in)
    BY <1>1, <1>2
  <1> QED BY <1>1, <1>3 DEF Ranking, in

LEMMA PotShares ==
    ASSUME HoldemAssumption, NEW g, Booked(g), g.button \in Everybody, NEW rank,
           Ranking(g, rank), NEW l \in Holdem!Levels(g)
    PROVE  /\ \A p \in Everybody : Holdem!Share(g, Holdem!Pot(g, l), rank, p) \in Nat
           /\ Holdem!Total([p \in Everybody |-> Holdem!Share(g, Holdem!Pot(g, l), rank, p)])
              = IF Holdem!Pot(g, l).eligible = {} THEN 0 ELSE In(g, l)
  <1> DEFINE pot == Holdem!Pot(g, l)
  <1>1. PICK k \in Nat : \A p \in Everybody \ g.folded : rank[p] \in 1..k
    BY DEF Ranking
  <1>2. l \in Nat
    BY LevelsKnown
  <1>3. pot.eligible \in SUBSET (Everybody \ g.folded) /\ pot.amount = In(g, l)
        /\ pot.amount \in Nat
    BY <1>2, PotsKnown
  <1> HIDE DEF pot
  <1>4. pot.eligible \in SUBSET Everybody /\ \A p \in pot.eligible : rank[p] \in 1..k
    BY <1>1, <1>3
  <1>5. /\ \A p \in Everybody : Holdem!Share(g, pot, rank, p) \in Nat
        /\ Holdem!Total([p \in Everybody |-> Holdem!Share(g, pot, rank, p)])
           = IF pot.eligible = {} THEN 0 ELSE pot.amount
    BY <1>3, <1>4, SharesAddUp
  <1> QED BY <1>3, <1>5 DEF pot

\* The pots somebody is eligible for, and those nobody is.
Won(g, l) ==
    IF l \in Holdem!Levels(g) /\ Holdem!Pot(g, l).eligible # {} THEN In(g, l) ELSE 0
Lost(g, l) ==
    IF l \in Holdem!Levels(g) /\ Holdem!Pot(g, l).eligible = {} THEN In(g, l) ELSE 0

LEMMA PayingIs ==
    ASSUME HoldemAssumption, NEW g, Booked(g), g.button \in Everybody, NEW rank,
           Ranking(g, rank)
    PROVE  /\ \A p \in Everybody : Paying(g, rank)[p] \in Nat
           /\ Holdem!Total(Paying(g, rank))
              = SumTo([l \in 1..Holdem!TotalPot(g) |-> Won(g, l)], Holdem!TotalPot(g))
  <1> DEFINE n == Len(Seats)
             k == Holdem!TotalPot(g)
             L == Holdem!Levels(g)
             share(l, p) == Holdem!Share(g, Holdem!Pot(g, l), rank, p)
             part(p) == [pot \in Holdem!Pots(g) |-> Holdem!Share(g, pot, rank, p)]
             row(p) == [l \in 1..k |-> IF l \in L THEN share(l, p) ELSE 0]
             m == [i \in 1..n |-> [l \in 1..k |-> IF l \in L THEN share(l, Seats[i]) ELSE 0]]
  <1>1. k \in Nat /\ L \subseteq 1..k
    BY LevelsKnown
  <1>2. n \in Nat /\ \A i \in 1..n : Seats[i] \in Everybody
    BY Seating
  <1>3. \A l \in L, p \in Everybody : share(l, p) \in Nat
    BY PotShares
  <1>4. ASSUME NEW p \in Everybody
        PROVE  /\ Paying(g, rank)[p] = SumTo(row(p), k)
               /\ Paying(g, rank)[p] \in Nat
    <2>1. Paying(g, rank)[p] = Holdem!OfAll(part(p))
      BY DEF Paying, Holdem!Payout
    <2>2. DOMAIN part(p) = {Holdem!Pot(g, l) : l \in L}
      BY PotsKnown
    <2>3. \A l \in L : part(p)[Holdem!Pot(g, l)] = share(l, p)
      BY <2>2
    <2>4. \A l \in 1..k : row(p)[l] \in Int
                           /\ row(p)[l] = IF l \in L THEN part(p)[Holdem!Pot(g, l)] ELSE 0
      BY <1>3, <2>3
    <2>5. Paying(g, rank)[p] = SumTo(row(p), k)
      <3>1. L \in SUBSET Holdem!Levels(g)
        OBVIOUS
      <3> HIDE DEF part, row, L
      <3> QED BY <2>1, <2>2, <2>4, <3>1, OfPots
    <2>6. \A l \in 1..k : row(p)[l] \in Int /\ row(p)[l] >= 0
      BY <1>3
    <2>7. SumTo(row(p), k) \in Int /\ SumTo(row(p), k) >= 0
      <3>1. k \in 0..k
        BY <1>1
      <3> HIDE DEF row, k
      <3> QED BY <1>1, <2>6, <3>1, SumType
    <2> HIDE DEF row, part, k
    <2> QED BY <2>7, <2>5
  <1>5. Holdem!Total(Paying(g, rank))
        = SumTo([i \in 1..n |-> SumTo([l \in 1..k |-> m[i][l]], k)], n)
    <2> DEFINE f == [i \in 1..n |-> Paying(g, rank)[Seats[i]]]
               h == [i \in 1..n |-> SumTo([l \in 1..k |-> m[i][l]], k)]
    <2>1. Holdem!Total(Paying(g, rank)) = SumTo(f, n)
      BY TotalIs
    <2>2. ASSUME NEW i \in 1..n PROVE f[i] = h[i]
      <3>1. Seats[i] \in Everybody
        BY <1>2
      <3>2. f[i] = SumTo(row(Seats[i]), k)
        BY <1>4, <3>1
      <3>3. \A l \in 1..k : m[i][l] = row(Seats[i])[l]
        OBVIOUS
      <3>4. [l \in 1..k |-> m[i][l]] = row(Seats[i])
        OBVIOUS
      <3>5. h[i] = SumTo([l \in 1..k |-> m[i][l]], k)
        OBVIOUS
      <3> HIDE DEF f, h, m, row
      <3> QED BY <3>2, <3>4, <3>5
    <2> HIDE DEF f, h
    <2>3. SumTo(f, n) = SumTo(h, n)
      BY <1>2, <2>2, SumSame
    <2> QED BY <2>1, <2>3 DEF h
  <1>6. m \in [1..n -> [1..k -> Int]]
    BY <1>2, <1>3
  <1>7. SumTo([i \in 1..n |-> SumTo([l \in 1..k |-> m[i][l]], k)], n)
        = SumTo([l \in 1..k |-> SumTo([i \in 1..n |-> m[i][l]], n)], k)
    <2> HIDE DEF m, n, k
    <2> QED BY <1>1, <1>2, <1>6, SumSwap
  <1>8. \A l \in 1..k : SumTo([i \in 1..n |-> m[i][l]], n) = Won(g, l)
    <2> SUFFICES ASSUME NEW l \in 1..k PROVE SumTo([i \in 1..n |-> m[i][l]], n) = Won(g, l)
      OBVIOUS
    <2>1. CASE l \in L
      <3> DEFINE s == [p \in Everybody |-> share(l, p)]
      <3>1. Holdem!Total(s) = IF Holdem!Pot(g, l).eligible = {} THEN 0 ELSE In(g, l)
        BY <2>1, PotShares
      <3>2. [i \in 1..n |-> m[i][l]] = [i \in 1..n |-> s[Seats[i]]]
        BY <1>2, <2>1
      <3>3. Holdem!Total(s) = SumTo([i \in 1..n |-> s[Seats[i]]], n)
        BY TotalIs
      <3> HIDE DEF s, m
      <3> QED BY <2>1, <3>1, <3>2, <3>3 DEF Won
    <2>2. CASE l \notin L
      <3> DEFINE c == [i \in 1..n |-> m[i][l]]
      <3>1. \A i \in 1..n : c[i] = 0
        BY <2>2
      <3> HIDE DEF c
      <3>2. (\A i \in 1..n : c[i] \in Int) /\ (\A i \in 0 + 1..n : c[i] = 0)
            /\ 0 \in Nat /\ 0 <= n
        BY <1>2, <3>1
      <3>3. SumTo(c, n) = SumTo(c, 0)
        BY <1>2, <3>2, SumTail
      <3>4. SumTo(c, n) = 0
        BY <3>3, SumOf
      <3>5. Won(g, l) = 0
        BY <2>2 DEF Won
      <3> QED BY <3>4, <3>5 DEF c
    <2> QED BY <2>1, <2>2
  <1>9. [l \in 1..k |-> SumTo([i \in 1..n |-> m[i][l]], n)] = [l \in 1..k |-> Won(g, l)]
    <2> HIDE DEF m, n, k
    <2> QED BY <1>8
  <1> HIDE DEF m, n
  <1> QED BY <1>4, <1>5, <1>7, <1>9

\* A showdown pays what was put in, except for the pots nobody is eligible for.
LEMMA PayingAll ==
    ASSUME HoldemAssumption, NEW g, Booked(g), g.button \in Everybody, NEW rank,
           Ranking(g, rank)
    PROVE  /\ Holdem!DeadPots(g) \in Nat
           /\ Holdem!Total(Paying(g, rank)) + Holdem!DeadPots(g) = Holdem!TotalPot(g)
  <1> DEFINE k == Holdem!TotalPot(g)
             D == {l \in Holdem!Levels(g) : Holdem!Pot(g, l).eligible = {}}
             won == [l \in 1..k |-> Won(g, l)]
             lost == [l \in 1..k |-> Lost(g, l)]
             all == [l \in 1..k |-> In(g, l)]
  <1>1. k \in Nat /\ k \in 0..k /\ Holdem!Levels(g) \subseteq 1..k
    BY LevelsKnown
  <1>2. {pot \in Holdem!Pots(g) : pot.eligible = {}} = {Holdem!Pot(g, l) : l \in D}
    BY PotsKnown
  <1>3. \A l \in 1..k : lost[l] = IF l \in D THEN In(g, l) ELSE 0
    BY DEF Lost
  <1>4. Holdem!DeadPots(g) = SumTo(lost, k)
    <2>1. D \in SUBSET Holdem!Levels(g)
      OBVIOUS
    <2> HIDE DEF D, lost
    <2> QED BY <1>2, <1>3, <2>1, AmountIs DEF Holdem!DeadPots
  <1>5. ASSUME NEW l \in 1..k
        PROVE  /\ won[l] \in Int /\ lost[l] \in Int /\ all[l] = won[l] + lost[l]
               /\ lost[l] >= 0
    <2>1. l \in Nat
      OBVIOUS
    <2>2. In(g, l) \in Nat /\ (l \notin Holdem!Levels(g) => In(g, l) = 0)
      BY <2>1, PotsKnown DEF In
    <2>3. won[l] = Won(g, l) /\ lost[l] = Lost(g, l) /\ all[l] = In(g, l)
      OBVIOUS
    <2> HIDE DEF won, lost, all, k
    <2>4. CASE l \notin Holdem!Levels(g)
      <3>1. won[l] = 0 /\ lost[l] = 0 /\ all[l] = 0
        BY <2>2, <2>3, <2>4 DEF Won, Lost
      <3> QED BY <3>1
    <2>5. CASE l \in Holdem!Levels(g) /\ Holdem!Pot(g, l).eligible = {}
      <3>1. won[l] = 0 /\ lost[l] = In(g, l)
        BY <2>3, <2>5 DEF Won, Lost
      <3> QED BY <2>2, <2>3, <3>1
    <2>6. CASE l \in Holdem!Levels(g) /\ Holdem!Pot(g, l).eligible # {}
      <3>1. won[l] = In(g, l) /\ lost[l] = 0
        BY <2>3, <2>6 DEF Won, Lost
      <3> QED BY <2>2, <2>3, <3>1
    <2> QED BY <2>4, <2>5, <2>6
  <1>6. SumTo(all, k) = k
    BY PotsAddUpAll
  <1>7. Holdem!Total(Paying(g, rank)) = SumTo(won, k)
    BY PayingIs
  <1> HIDE DEF won, lost, all, k
  <1>8. SumTo(all, k) = SumTo(won, k) + SumTo(lost, k)
    BY <1>1, <1>5, SumPlus
  <1>9. SumTo(lost, k) \in Int /\ SumTo(lost, k) >= 0
    BY <1>1, <1>5, SumType
  <1>10. Holdem!DeadPots(g) \in Nat
    BY <1>9, <1>4
  <1>11. Holdem!Total(Paying(g, rank)) + Holdem!DeadPots(g) = k
    BY <1>6, <1>7, <1>8, <1>4
  <1> QED BY <1>10, <1>11 DEF k

\* It pays at least what one player in it may win.
LEMMA PayingDue ==
    ASSUME HoldemAssumption, NEW g, Booked(g), g.button \in Everybody, NEW rank,
           Ranking(g, rank), NEW p \in Everybody \ g.folded
    PROVE  Due(g, p) <= Holdem!Total(Paying(g, rank))
  <1> DEFINE k == Holdem!TotalPot(g)
             won == [l \in 1..k |-> Won(g, l)]
             h == [l \in 1..k |-> IF l <= g.contrib[p] THEN In(g, l) ELSE 0]
  <1>1. k \in Nat
    BY LevelsKnown
  <1>2. ASSUME NEW l \in 1..k PROVE h[l] \in Int /\ won[l] \in Int /\ h[l] <= won[l]
    <2>1. l \in Nat
      OBVIOUS
    <2>2. In(g, l) \in Nat /\ (l \notin Holdem!Levels(g) => In(g, l) = 0)
      BY <2>1, PotsKnown DEF In
    <2>3. won[l] = Won(g, l) /\ h[l] = IF l <= g.contrib[p] THEN In(g, l) ELSE 0
      OBVIOUS
    <2> HIDE DEF won, h, k
    <2>4. CASE l \in Holdem!Levels(g) /\ l <= g.contrib[p]
      <3>1. g.contrib[p] \in Nat
        BY DEF Booked
      <3>2. p \in Holdem!Pot(g, l).eligible
        BY <2>1, <2>4, <3>1, PotsKnown
      <3>3. won[l] = In(g, l) /\ h[l] = In(g, l)
        BY <2>3, <2>4, <3>2 DEF Won
      <3> QED BY <2>2, <3>3
    <2>5. CASE l \notin Holdem!Levels(g)
      <3>1. won[l] = 0 /\ h[l] = 0
        BY <2>2, <2>3, <2>5 DEF Won
      <3> QED BY <3>1
    <2>6. CASE ~(l <= g.contrib[p])
      <3>1. h[l] = 0 /\ (won[l] = 0 \/ won[l] = In(g, l))
        BY <2>3, <2>6 DEF Won
      <3> QED BY <2>2, <3>1
    <2> QED BY <2>4, <2>5, <2>6
  <1>3. SumTo(h, k) = Due(g, p)
    BY DueIs
  <1>4. Holdem!Total(Paying(g, rank)) = SumTo(won, k)
    BY PayingIs
  <1> HIDE DEF won, h, k
  <1>5. SumTo(h, k) <= SumTo(won, k)
    BY <1>1, <1>2, SumMore
  <1> QED BY <1>3, <1>4, <1>5

\* And that is what he put in himself, and more if anybody else put something in.
LEMMA DueMore ==
    ASSUME HoldemAssumption, NEW g, Booked(g), NEW p \in Everybody
    PROVE  /\ Due(g, p) \in Nat /\ Due(g, p) >= g.contrib[p]
           /\ \A q \in Everybody : q # p /\ g.contrib[p] > 0 /\ g.contrib[q] > 0
                                   => Due(g, p) > g.contrib[p]
  <1> DEFINE c == g.contrib[p]
             f == [q \in Everybody |-> Holdem!Smaller(c, g.contrib[q])]
             h == [q \in Everybody |-> IF q = p THEN 0 ELSE Holdem!Smaller(c, g.contrib[q])]
  <1>1. c \in Nat /\ \A q \in Everybody : g.contrib[q] \in Nat
    BY DEF Booked
  <1>2. ASSUME NEW q \in Everybody
        PROVE  /\ h[q] \in Nat /\ f[q] = IF q = p THEN h[q] + c ELSE h[q]
               /\ q # p /\ c > 0 /\ g.contrib[q] > 0 => h[q] > 0
    <2>1. \A a, b \in Nat : /\ Holdem!Smaller(a, b) \in Nat /\ Holdem!Smaller(a, a) = a
                            /\ a > 0 /\ b > 0 => Holdem!Smaller(a, b) > 0
      BY DEF Holdem!Smaller
    <2>2. CASE q = p
      <3>1. h[q] = 0 /\ f[q] = Holdem!Smaller(c, c)
        BY <2>2
      <3>2. f[q] = 0 + c
        BY <1>1, <2>1, <3>1
      <3> QED BY <2>2, <3>1, <3>2
    <2>3. CASE q # p
      <3>1. h[q] = Holdem!Smaller(c, g.contrib[q]) /\ f[q] = h[q]
        BY <2>3
      <3> HIDE DEF h, f, c
      <3> QED BY <1>1, <2>1, <2>3, <3>1
    <2> QED BY <2>2, <2>3
  <1>3. Due(g, p) = Holdem!Total(f)
    BY DEF Due
  <1> HIDE DEF f, h, c
  <1>4. Holdem!Total(h) \in Nat /\ \A q \in Everybody : Holdem!Total(h) >= h[q]
    BY <1>2, TotalType
  <1>5. Holdem!Total(f) = Holdem!Total(h) + c
    <2>1. /\ c \in Int /\ f[p] = h[p] + c
          /\ \A q \in Everybody : q # p => f[q] = h[q]
      BY <1>1, <1>2
    <2>2. ASSUME NEW q \in Everybody PROVE h[q] \in Int
      <3>1. h[q] \in Nat
        BY <1>2
      <3> QED BY <3>1
    <2> QED BY <2>1, <2>2, TotalOne
  <1>6. Due(g, p) \in Nat /\ Due(g, p) >= c
    BY <1>1, <1>3, <1>4, <1>5
  <1>7. ASSUME NEW q \in Everybody, q # p, c > 0, g.contrib[q] > 0 PROVE Due(g, p) > c
    <2>1. h[q] > 0 /\ h[q] \in Nat
      BY <1>2, <1>7
    <2>2. Holdem!Total(h) >= h[q]
      BY <1>4
    <2> QED BY <1>1, <1>3, <1>4, <1>5, <2>1, <2>2
  <1> QED BY <1>6, <1>7 DEF c
-----------------------------------------------------------------------------
(* A hand, up to the end of a handler.                                     *)

\* Whom the game takes to be in the hand, and those of them who can still act.
Unfolded(g) == Everybody \ g.folded
Live(g) == Everybody \ (g.folded \cup g.allin)
Two(g) == \E p, q \in Unfolded(g) : p # q
\* Whoever has no chips and has not folded is marked all-in.
Broke(g) == \A p \in Unfolded(g) : g.chips[p] = 0 => p \in g.allin
\* Nobody is left but those who had lost everything before.
Dead(g) == \A p \in Unfolded(g) : p \in g.allin /\ g.contrib[p] = 0
BoardOf(ph) ==
    IF ph = "preflop" THEN 0 ELSE IF ph = "flop" THEN 3 ELSE IF ph = "turn" THEN 4 ELSE 5

\* Those who can act have put in the same in the earlier rounds, somebody something.
Matched(g) == \E base \in Nat : /\ base + g.bet > 0
                                /\ \A p \in Live(g) : g.contrib[p] = base + g.bets[p]
\* A blind took somebody's last chip.
Skewed(g) == \E p \in Unfolded(g) \ {g.turn} : p \in g.allin /\ g.contrib[p] > 0

\* In the middle of a handler.
Mid(g, odd) ==
    /\ g \in Holdem!GameType /\ ~g.over /\ Broke(g)
    /\ g.wait \/ \A p \in g.allin : g.chips[p] = 0
    /\ g.wait \/ Live(g) \subseteq Holdem!SetOf(g.order)
    /\ g.pending \/ g.board = BoardOf(g.phase)
    /\ g.phase \in {"river", "showdown"} => g.board = 5
    /\ g.phase = "showdown" => g.wait
    /\ g.pending => Live(g) = {} \/ ~Two(g)
    /\ g.wait \/ Unfolded(g) # {}
    /\ \E p \in Everybody : g.contrib[p] > 0
    /\ Dead(g) => g.turn \in g.folded
    /\ IF odd THEN Skewed(g) ELSE Matched(g)
\* After it.
Round(g, odd) ==
    /\ Mid(g, odd)
    /\ g.wait \/ (Two(g) /\ (g.pending \/ g.turn \in Live(g)))
    /\ g.pending => Live(g) = {} \/ (g.wait /\ ~Two(g))

\* The ways in which a handler goes on from h to g.
Quiet(h, g) == g.chips = h.chips /\ (g.wait => h.wait)
Awarded(h, g) ==
    /\ g.wait /\ g.phase = h.phase
    /\ \E p \in Unfolded(h) : g.chips = [h.chips EXCEPT ![p] = @ + Holdem!TotalPot(h)]
Shown(h, g) ==
    /\ g.wait /\ g.phase = "showdown" /\ g.allin = h.allin
    /\ Live(h) = {} \/ \E p \in Unfolded(h) : h.contrib[p] > 0
    /\ \E rank : /\ Ranking(h, rank)
                 /\ g.chips = [p \in Everybody |-> h.chips[p] + Paying(h, rank)[p]]
Onward(h, g, odd) ==
    /\ Round(g, odd)
    /\ g.contrib = h.contrib /\ g.folded = h.folded /\ g.hand = h.hand
    /\ Quiet(h, g) \/ Awarded(h, g) \/ Shown(h, g)
    /\ \/ g.board = h.board \/ odd
       \/ \A p, q \in Live(g) : g.contrib[p] = g.contrib[q]
-----------------------------------------------------------------------------
LEMMA ActiveAre ==
    ASSUME NEW g \in Holdem!GameType, Broke(g)
    PROVE  /\ Holdem!ActiveIds(g) = Unfolded(g)
           /\ Holdem!ActiveIds(g) \ g.allin = Live(g)
           /\ \A p : Holdem!CanAct(g, p) <=> p \in Live(g)
  <1>1. \A p \in Everybody : g.chips[p] \in Nat
    BY DEF Holdem!GameType
  <1>2. \A p \in Unfolded(g) : g.chips[p] > 0 \/ p \in g.allin
    <2>1. \A x \in Nat : x = 0 \/ x > 0
      OBVIOUS
    <2>2. \A p \in Everybody : g.chips[p] = 0 \/ g.chips[p] > 0
      BY <1>1, <2>1
    <2> QED BY <2>2 DEF Broke, Unfolded
  <1>3. Holdem!ActiveIds(g) = Unfolded(g)
    BY <1>2 DEF Holdem!ActiveIds, Unfolded
  <1>4. Unfolded(g) \ g.allin = Live(g)
    BY DEF Unfolded, Live
  <1> QED BY <1>3, <1>4 DEF Holdem!CanAct

LEMMA TwoOrFewer ==
    ASSUME HoldemAssumption, NEW g
    PROVE  Two(g) <=> ~(Holdem!Cardinality(Unfolded(g)) <= 1)
  <1> DEFINE U == Unfolded(g)
  <1>1. IsFiniteSet(U) /\ Cardinality(U) \in Nat
    BY PartOfAll DEF Unfolded
  <1>2. ASSUME Two(g) PROVE ~(Cardinality(U) <= 1)
    <2>1. PICK p \in U, q \in U : p # q
      BY <1>2 DEF Two
    <2>2. Cardinality({p, q}) = 2
      <3>1. Cardinality({p}) = 1 /\ IsFiniteSet({p})
        BY FS_Singleton
      <3>2. Cardinality({p} \cup {q}) = Cardinality({p}) + 1
        BY <2>1, <3>1, FS_AddElement
      <3>3. {p} \cup {q} = {p, q}
        OBVIOUS
      <3> QED BY <3>1, <3>2, <3>3
    <2>3. {p, q} \in SUBSET U
      OBVIOUS
    <2>4. Cardinality({p, q}) <= Cardinality(U)
      BY <1>1, <2>3, FS_Subset
    <2> QED BY <1>1, <2>2, <2>4
  <1>3. ASSUME ~Two(g) PROVE Cardinality(U) <= 1
    <2>1. CASE U = {}
      BY <2>1, FS_EmptySet
    <2>2. CASE U # {}
      <3>1. PICK p : p \in U
        BY <2>2
      <3>2. U = {p}
        BY <1>3, <3>1 DEF Two
      <3>3. Cardinality({p}) = 1
        BY FS_Singleton
      <3> HIDE DEF U
      <3> QED BY <3>2, <3>3
    <2> QED BY <2>1, <2>2
  <1> QED BY <1>2, <1>3, SameTools

LEMMA ShowdownIs ==
    ASSUME HoldemAssumption, NEW h \in Holdem!GameType, NEW g \in Holdem!Showdown(h)
    PROVE  \E rank : /\ Ranking(h, rank)
                     /\ g = Holdem!PaidOut(h, Paying(h, rank))
  <1>1. PICK rank \in Holdem!Ranks(Everybody \ h.folded) :
              g = Holdem!PaidOut(h, Paying(h, rank))
    <2> DEFINE R == Holdem!Ranks(Everybody \ h.folded)
               P == {Holdem!Payout(h, pots, rank) : pots \in {Holdem!Pots(h)}, rank \in R}
    <2>1. Holdem!Showdown(h) = {Holdem!PaidOut(h, pay) : pay \in P}
      BY DEF Holdem!Showdown
    <2>2. \A pay \in P : \E rank \in R : pay = Holdem!Payout(h, Holdem!Pots(h), rank)
      OBVIOUS
    <2> HIDE DEF R, P
    <2>3. PICK pay \in P : g = Holdem!PaidOut(h, pay)
      BY <2>1
    <2>4. PICK rank \in R : pay = Holdem!Payout(h, Holdem!Pots(h), rank)
      BY <2>2
    <2>5. pay = Paying(h, rank)
      BY <2>4 DEF Paying
    <2> QED BY <2>3, <2>5 DEF R
  <1>2. h.folded \in SUBSET Everybody
    BY DEF Holdem!GameType
  <1>3. Ranking(h, rank)
    BY <1>2, RanksAre
  <1> QED BY <1>1, <1>3

LEMMA AwardIs ==
    ASSUME NEW h \in Holdem!GameType, Broke(h), NEW g \in Holdem!Award(h)
    PROVE  \/ g = h /\ Unfolded(h) = {}
           \/ \E p \in Unfolded(h) :
                 g = [h EXCEPT !.chips[p] = @ + Holdem!TotalPot(h), !.wait = TRUE]
  BY ActiveAre DEF Holdem!Award

LEMMA HandBooked ==
    ASSUME NEW g \in Holdem!GameType
    PROVE  Booked(g) /\ g.button \in Everybody
  BY DEF Holdem!GameType, Booked

LEMMA MinIs ==
    ASSUME NEW S \in SUBSET Nat, S # {}
    PROVE  Holdem!Min(S) \in S
  <1>1. \E m \in S : \A x \in S : m <= x
    BY Least
  <1> QED BY <1>1 DEF Holdem!Min

\* The turn goes on to somebody who can act, if anybody in the order can.
LEMMA AdvanceTurnIs ==
    ASSUME NEW g \in Holdem!GameType, Broke(g)
    PROVE  /\ \/ Holdem!AdvanceTurn(g) = g
              \/ \E t \in Live(g) : Holdem!AdvanceTurn(g) = [g EXCEPT !.turn = t]
           /\ (\E p \in Live(g) : p \in Holdem!SetOf(g.order))
              => \E t \in Live(g) : Holdem!AdvanceTurn(g) = [g EXCEPT !.turn = t]
  <1> DEFINE n == Len(g.order)
             start == IF g.turn \in Holdem!SetOf(g.order)
                      THEN Holdem!Place(g.turn, g.order) + 1 ELSE 0
             nth(k) == g.order[((start + k) % n) + 1]
             able == {k \in 0..n - 1 : Holdem!CanAct(g, nth(k))}
  <1>1. n \in Nat /\ DOMAIN g.order = 1..n
    BY DEF Holdem!GameType
  <1>2. start \in Int
    <2>1. CASE g.turn \in Holdem!SetOf(g.order)
      <3> DEFINE i == CHOOSE i \in DOMAIN g.order : g.order[i] = g.turn
      <3>1. i \in DOMAIN g.order
        BY <2>1 DEF Holdem!SetOf
      <3>2. start = (i - 1) + 1
        BY <2>1 DEF Holdem!Place
      <3> HIDE DEF i
      <3> QED BY <1>1, <3>1, <3>2
    <2> QED BY <2>1
  <1>3. Holdem!AdvanceTurn(g) = IF able = {} THEN g ELSE [g EXCEPT !.turn = nth(Holdem!Min(able))]
    BY DEF Holdem!AdvanceTurn
  <1>4. ASSUME able # {}
        PROVE  \E t \in Live(g) : Holdem!AdvanceTurn(g) = [g EXCEPT !.turn = t]
    <2>1. able \in SUBSET Nat
      BY <1>1
    <2>2. \A k \in able : nth(k) \in Live(g)
      BY ActiveAre
    <2> HIDE DEF able, nth
    <2>3. Holdem!Min(able) \in able
      BY <1>4, <2>1, MinIs
    <2> QED BY <1>3, <1>4, <2>2, <2>3
  <1>5. ASSUME NEW p \in Live(g), p \in Holdem!SetOf(g.order) PROVE able # {}
    <2>1. PICK i \in 1..n : g.order[i] = p
      BY <1>1, <1>5 DEF Holdem!SetOf
    <2> HIDE DEF start, n
    <2> DEFINE x == (i - 1) - start
               k == x % n
    <2>2. n \in Nat \ {0} /\ x \in Int
      BY <1>1, <1>2
    <2>3. k \in 0..n - 1 /\ \E q \in Int : x = n * q + k
      <3> HIDE DEF x
      <3> QED BY <2>2, Remainder
    <2>4. PICK q \in Int : x = n * q + k
      BY <2>3
    <2> HIDE DEF k
    <2>5. start + k = n * (-q) + (i - 1)
      BY <1>1, <1>2, <2>3, <2>4
    <2>6. start + k \in Int /\ i - 1 \in 0..n - 1 /\ -q \in Int
      BY <1>1, <1>2, <2>3
    <2>7. (start + k) % n = i - 1
      <3> DEFINE y == start + k
                 r == -q
      <3>1. \A s \in Int, t \in 0..n - 1 : y = n * s + t => y % n = t
        <4> HIDE DEF y
        <4> QED BY <2>2, <2>6, Remainder DEF y
      <3> QED BY <2>5, <2>6, <3>1
    <2>8. nth(k) = p
      <3>1. (i - 1) + 1 = i
        BY <1>1
      <3> QED BY <2>1, <2>7, <3>1
    <2>9. Holdem!CanAct(g, nth(k))
      BY <2>8, ActiveAre
    <2>10. k \in able
      BY <2>3, <2>9
    <2> HIDE DEF able
    <2> QED BY <2>10
  <1>6. able = {} => Holdem!AdvanceTurn(g) = g
    BY <1>3
  <1> HIDE DEF able
  <1> QED BY <1>4, <1>5, <1>6
-----------------------------------------------------------------------------
\* Once the hand waits for the next one, chips may change.
LEMMA Finished ==
    ASSUME NEW h, NEW g, NEW odd, Mid(h, odd), g \in Holdem!GameType, ~g.over, Broke(g), g.wait,
           g.folded = h.folded, g.allin = h.allin, g.contrib = h.contrib, g.bets = h.bets,
           g.bet = h.bet, g.turn = h.turn, g.board = h.board,
           g.phase = h.phase \/ (g.phase = "showdown" /\ h.board = 5),
           g.pending = h.pending \/ (~g.pending /\ g.phase = "showdown")
    PROVE  /\ Mid(g, odd) /\ Live(g) = Live(h) /\ Unfolded(g) = Unfolded(h)
           /\ Two(g) <=> Two(h)
  <1>1. Live(g) = Live(h) /\ Unfolded(g) = Unfolded(h)
    BY DEF Live, Unfolded
  <1>2. Two(g) <=> Two(h)
    BY <1>1 DEF Two
  <1>3. Dead(g) => g.turn \in g.folded
    BY <1>1 DEF Dead, Mid
  <1>4. Skewed(h) => Skewed(g)
    BY <1>1 DEF Skewed
  <1>5. Matched(h) => Matched(g)
    BY <1>1 DEF Matched
  <1>6. g.pending \/ g.board = BoardOf(g.phase)
    BY DEF Mid, BoardOf
  <1>7. (g.phase \in {"river", "showdown"} => g.board = 5) /\ \E p \in Everybody : g.contrib[p] > 0
    BY DEF Mid
  <1>8. g.pending => Live(g) = {} \/ ~Two(g)
    BY <1>1, <1>2 DEF Mid
  <1> QED BY <1>1, <1>2, <1>3, <1>4, <1>5, <1>6, <1>7, <1>8 DEF Mid

\* _award_uncontested
LEMMA AwardOnward ==
    ASSUME HoldemAssumption, NEW h, NEW odd, Mid(h, odd), ~Two(h), NEW g \in Holdem!Award(h)
    PROVE  Onward(h, g, odd)
  <1>1. h \in Holdem!GameType /\ Broke(h) /\ ~h.over
    BY DEF Mid
  <1>2. CASE g = h /\ Unfolded(h) = {}
    <2>1. Live(h) = {} /\ h.wait
      BY <1>2 DEF Mid, Live, Unfolded
    <2> QED BY <1>2, <2>1 DEF Onward, Round, Quiet
  <1>3. ASSUME NEW p \in Unfolded(h),
               g = [h EXCEPT !.chips[p] = @ + Holdem!TotalPot(h), !.wait = TRUE]
        PROVE  Onward(h, g, odd)
    <2>1. h.chips \in [Everybody -> Nat] /\ p \in Everybody
      BY <1>1 DEF Holdem!GameType, Unfolded
    <2>2. Holdem!TotalPot(h) \in Nat
      BY <1>1, HandBooked, LevelsKnown
    <2> DEFINE c == [h.chips EXCEPT ![p] = @ + Holdem!TotalPot(h)]
    <2>3. c \in [Everybody -> Nat] /\ \A q \in Everybody : c[q] = 0 => h.chips[q] = 0
      BY <2>1, <2>2
    <2>4. g = [h EXCEPT !.chips = c, !.wait = TRUE]
      BY <1>3
    <2> HIDE DEF c
    <2>5. g \in Holdem!GameType
      BY <1>1, <2>3, <2>4 DEF Holdem!GameType
    <2>6. /\ g.chips = c /\ g.wait /\ g.folded = h.folded /\ g.allin = h.allin
          /\ g.contrib = h.contrib /\ g.bets = h.bets /\ g.bet = h.bet /\ g.turn = h.turn
          /\ g.board = h.board /\ g.pending = h.pending /\ g.phase = h.phase /\ g.hand = h.hand
          /\ g.over = h.over
      BY <1>1, <2>4 DEF Holdem!GameType
    <2>7. Broke(g)
      BY <1>1, <2>3, <2>6 DEF Broke, Unfolded
    <2>8. Mid(g, odd) /\ (Two(g) <=> Two(h))
      <3>1. ~g.over
        BY <1>1, <2>6
      <3> QED BY <2>5, <2>6, <2>7, <3>1, Finished
    <2>9. Round(g, odd)
      BY <2>6, <2>8 DEF Round
    <2>10. Awarded(h, g)
      BY <2>6 DEF Awarded, c
    <2> QED BY <2>6, <2>9, <2>10 DEF Onward
  <1> QED BY <1>1, <1>2, <1>3, AwardIs

\* _showdown, at once or after the rest of the board.
LEMMA ShowdownOnward ==
    ASSUME HoldemAssumption, NEW h, NEW odd, Mid(h, odd), h.board = 5, ~h.pending \/ Live(h) = {},
           Live(h) = {} \/ \E p \in Unfolded(h) : h.contrib[p] > 0,
           NEW k, k = h \/ k = [h EXCEPT !.pending = FALSE], NEW g \in Holdem!Showdown(k)
    PROVE  Onward(k, g, odd)
  <1>1. h \in Holdem!GameType /\ Broke(h) /\ ~h.over
    BY DEF Mid
  <1>2. /\ k \in Holdem!GameType
        /\ k.chips = h.chips /\ k.folded = h.folded /\ k.allin = h.allin /\ k.contrib = h.contrib
        /\ k.bets = h.bets /\ k.bet = h.bet /\ k.turn = h.turn /\ k.board = h.board
        /\ k.hand = h.hand /\ k.over = h.over /\ (k.pending = h.pending \/ ~k.pending)
    <2>1. CASE k = h
      BY <1>1, <2>1
    <2>2. CASE k = [h EXCEPT !.pending = FALSE]
      BY <1>1, <2>2 DEF Holdem!GameType
    <2> QED BY <2>1, <2>2
  <1>3. PICK rank : Ranking(k, rank) /\ g = Holdem!PaidOut(k, Paying(k, rank))
    BY <1>2, ShowdownIs
  <1> DEFINE c == [p \in Everybody |-> k.chips[p] + Paying(k, rank)[p]]
  <1>4. \A p \in Everybody : Paying(k, rank)[p] \in Nat /\ k.chips[p] \in Nat
    <2>1. \A p \in Everybody : k.chips[p] \in Nat
      BY <1>2 DEF Holdem!GameType
    <2> QED BY <1>2, <1>3, <2>1, HandBooked, PayingIs
  <1>5. c \in [Everybody -> Nat] /\ \A q \in Everybody : c[q] = 0 => k.chips[q] = 0
    BY <1>4
  <1>6. g = [k EXCEPT !.phase = "showdown", !.wait = TRUE, !.chips = c]
    BY <1>3 DEF Holdem!PaidOut
  <1> HIDE DEF c
  <1>7. g \in Holdem!GameType
    BY <1>2, <1>5, <1>6 DEF Holdem!GameType
  <1>8. /\ g.chips = c /\ g.wait /\ g.folded = h.folded /\ g.allin = h.allin
        /\ g.contrib = h.contrib /\ g.bets = h.bets /\ g.bet = h.bet /\ g.turn = h.turn
        /\ g.board = h.board /\ (g.pending = h.pending \/ ~g.pending) /\ g.phase = "showdown"
        /\ g.hand = h.hand /\ g.over = h.over
    BY <1>2, <1>6 DEF Holdem!GameType
  <1>9. Broke(g)
    BY <1>1, <1>2, <1>5, <1>8 DEF Broke, Unfolded
  <1>10. Mid(g, odd) /\ Live(g) = Live(h)
    BY <1>1, <1>7, <1>8, <1>9, Finished
  <1>11. Round(g, odd)
    BY <1>8, <1>10 DEF Round
  <1>12. Shown(k, g)
    <2>1. Live(k) = {} \/ \E p \in Unfolded(k) : k.contrib[p] > 0
      BY <1>2 DEF Live, Unfolded
    <2> QED BY <1>2, <1>3, <1>8, <2>1 DEF Shown, c
  <1> QED BY <1>2, <1>8, <1>11, <1>12 DEF Onward

\* _start_all_in_showdown
LEMMA StartAllInOnward ==
    ASSUME HoldemAssumption, NEW h, NEW odd, Mid(h, odd), Two(h), Live(h) = {},
           NEW g \in Holdem!StartAllIn(h)
    PROVE  Onward(h, g, odd)
  <1>1. h \in Holdem!GameType /\ Broke(h) /\ ~h.over
    BY DEF Mid
  <1>2. CASE h.pending
    <2>1. g = h
      BY <1>2 DEF Holdem!StartAllIn
    <2> QED BY <1>2, <2>1 DEF Onward, Round, Quiet
  <1>3. CASE ~h.pending /\ h.board = 5
    <2>1. g \in Holdem!Showdown(h)
      BY <1>3 DEF Holdem!StartAllIn
    <2> QED BY <1>3, <2>1, ShowdownOnward
  <1>4. CASE ~h.pending /\ h.board # 5
    <2>1. g = [h EXCEPT !.pending = TRUE]
      BY <1>4 DEF Holdem!StartAllIn
    <2>2. g \in Holdem!GameType
      BY <1>1, <2>1 DEF Holdem!GameType
    <2>3. /\ g.chips = h.chips /\ g.wait = h.wait /\ g.folded = h.folded /\ g.allin = h.allin
          /\ g.contrib = h.contrib /\ g.bets = h.bets /\ g.bet = h.bet /\ g.turn = h.turn
          /\ g.board = h.board /\ g.pending /\ g.phase = h.phase /\ g.hand = h.hand
          /\ g.over = h.over /\ g.order = h.order
      BY <1>1, <2>1 DEF Holdem!GameType
    <2>4. Live(g) = Live(h) /\ Unfolded(g) = Unfolded(h)
      BY <2>3 DEF Live, Unfolded
    <2>5. Broke(g) /\ Two(g) /\ (Dead(g) => Dead(h)) /\ (Skewed(h) => Skewed(g))
      BY <1>1, <2>3, <2>4 DEF Broke, Two, Dead, Skewed
    <2>6. Matched(h) => Matched(g)
      BY <2>3, <2>4 DEF Matched
    <2>7. Mid(g, odd)
      BY <1>1, <2>2, <2>3, <2>4, <2>5, <2>6 DEF Mid
    <2>8. Round(g, odd)
      BY <2>3, <2>4, <2>5, <2>7 DEF Round
    <2> QED BY <2>3, <2>8 DEF Onward, Quiet
  <1> QED BY <1>2, <1>3, <1>4

\* _advance_turn
LEMMA AdvanceTurnOnward ==
    ASSUME NEW h, NEW odd, Mid(h, odd), Two(h), Live(h) # {}, NEW g, g = Holdem!AdvanceTurn(h)
    PROVE  Onward(h, g, odd)
  <1>1. h \in Holdem!GameType /\ Broke(h) /\ ~h.over /\ ~h.pending
    BY DEF Mid
  <1>2. ASSUME h.wait PROVE Round(h, odd)
    BY <1>1, <1>2 DEF Round
  <1>3. ASSUME NEW t \in Live(h), g = [h EXCEPT !.turn = t] PROVE Onward(h, g, odd)
    <2>1. t \in Everybody /\ t \notin h.folded /\ t \notin h.allin
      BY DEF Live
    <2>2. g \in Holdem!GameType
      BY <1>1, <1>3, <2>1, ZenonT(60) DEF Holdem!GameType
    <2>3. /\ g.chips = h.chips /\ g.wait = h.wait /\ g.folded = h.folded /\ g.allin = h.allin
          /\ g.contrib = h.contrib /\ g.bets = h.bets /\ g.bet = h.bet /\ g.turn = t
          /\ g.board = h.board /\ g.pending = h.pending /\ g.phase = h.phase /\ g.hand = h.hand
          /\ g.over = h.over /\ g.order = h.order
      BY <1>1, <1>3 DEF Holdem!GameType
    <2>4. Live(g) = Live(h) /\ Unfolded(g) = Unfolded(h)
      BY <2>3 DEF Live, Unfolded
    <2>5. Broke(g) /\ Two(g) /\ ~Dead(g)
      BY <1>1, <2>1, <2>3, <2>4 DEF Broke, Two, Dead, Unfolded
    <2>6. Skewed(h) => Skewed(g)
      BY <2>1, <2>3, <2>4 DEF Skewed
    <2>7. Matched(h) => Matched(g)
      BY <2>3, <2>4 DEF Matched
    <2>8. Mid(g, odd)
      BY <1>1, <2>2, <2>3, <2>4, <2>5, <2>6, <2>7 DEF Mid
    <2>9. Round(g, odd)
      BY <1>1, <2>3, <2>4, <2>5, <2>8 DEF Round
    <2> QED BY <2>3, <2>9 DEF Onward, Quiet
  <1>4. CASE h.wait /\ g = h
    BY <1>2, <1>4 DEF Onward, Quiet
  <1>5. h.wait \/ \E p \in Live(h) : p \in Holdem!SetOf(h.order)
    BY DEF Mid
  <1> QED BY <1>1, <1>3, <1>4, <1>5, AdvanceTurnIs
-----------------------------------------------------------------------------
\* Players who are kept in the order of their seats.
LEMMA KeptSeats ==
    ASSUME HoldemAssumption, NEW kept \in SUBSET DOMAIN Seats, NEW s,
           s = Holdem!Keeping(Seats, kept)
    PROVE  /\ s \in Seq(Everybody) /\ Len(s) \in Nat /\ DOMAIN s = 1..Len(s)
           /\ \A k \in 1..Len(s) : \E i \in kept : s[k] = Seats[i]
           /\ \A i \in kept : \E k \in 1..Len(s) : s[k] = Seats[i]
           /\ \A j, k \in 1..Len(s) : s[j] = s[k] => j = k
  <1>1. s = Keeping(Seats, kept) /\ Seats \in Seq(Everybody)
    BY SameTools DEF HoldemAssumption
  <1>2. s \in Seq(Everybody) /\ Len(s) = Cardinality(kept)
    BY <1>1, KeepingType
  <1>3. DOMAIN s = 1..Len(s) /\ Len(s) \in Nat
    BY <1>2
  <1>4. /\ \A k \in DOMAIN s : \E i \in kept : s[k] = Seats[i]
        /\ \A i \in kept : \E k \in DOMAIN s : s[k] = Seats[i]
    BY <1>1, KeepingType
  <1>5. PICK f \in Bijection(1..Cardinality(kept), kept) :
              Keeping(Seats, kept) = [k \in 1..Cardinality(kept) |-> Seats[f[k]]]
    BY <1>1, KeepingOrder
  <1>6. ASSUME NEW j \in 1..Len(s), NEW k \in 1..Len(s), s[j] = s[k] PROVE j = k
    <2>1. s[j] = Seats[f[j]] /\ s[k] = Seats[f[k]]
      BY <1>1, <1>2, <1>5
    <2>2. f[j] \in DOMAIN Seats /\ f[k] \in DOMAIN Seats
      BY <1>2, <1>5 DEF Bijection, Injection
    <2>3. f[j] = f[k]
      BY <1>6, <2>1, <2>2 DEF HoldemAssumption
    <2> QED BY <1>2, <1>5, <2>3 DEF Bijection, Injection, IsInjective
  <1> QED BY <1>2, <1>3, <1>4, <1>6

\* Those with chips who have not folded.
Able(g) == {i \in DOMAIN Seats : g.chips[Seats[i]] > 0 /\ Seats[i] \notin g.folded}
Order(g) == Holdem!Keeping(Seats, Able(g))

LEMMA OrderIs ==
    ASSUME HoldemAssumption, NEW g \in Holdem!GameType, Broke(g)
    PROVE  /\ Order(g) \in Seq(Everybody) /\ Len(Order(g)) \in Nat
           /\ DOMAIN Order(g) = 1..Len(Order(g))
           /\ \A k \in 1..Len(Order(g)) : /\ Order(g)[k] \in Unfolded(g)
                                          /\ g.chips[Order(g)[k]] > 0
           /\ Live(g) \subseteq Holdem!SetOf(Order(g))
  <1> DEFINE s == Order(g)
  <1>1. s = Holdem!Keeping(Seats, Able(g)) /\ Able(g) \in SUBSET DOMAIN Seats
    BY DEF Order, Able
  <1> HIDE DEF s
  <1>2. /\ s \in Seq(Everybody) /\ Len(s) \in Nat /\ DOMAIN s = 1..Len(s)
        /\ \A k \in 1..Len(s) : \E i \in Able(g) : s[k] = Seats[i]
        /\ \A i \in Able(g) : \E k \in 1..Len(s) : s[k] = Seats[i]
    BY <1>1, KeptSeats
  <1>3. \A i \in DOMAIN Seats : Seats[i] \in Everybody
    BY Seating
  <1>4. \A k \in 1..Len(s) : s[k] \in Unfolded(g) /\ g.chips[s[k]] > 0
    BY <1>2, <1>3 DEF Able, Unfolded
  <1>5. ASSUME NEW p \in Live(g) PROVE p \in Holdem!SetOf(s)
    <2>1. p \in Everybody /\ p \notin g.folded /\ p \notin g.allin
      BY DEF Live
    <2>2. g.chips[p] # 0 /\ g.chips[p] \in Nat
      BY <2>1 DEF Broke, Unfolded, Holdem!GameType
    <2>3. PICK i \in DOMAIN Seats : Seats[i] = p
      BY <2>1 DEF HoldemAssumption
    <2>4. g.chips[p] > 0
      BY <2>2
    <2>5. i \in Able(g)
      BY <2>1, <2>3, <2>4 DEF Able
    <2>6. PICK k \in 1..Len(s) : s[k] = p
      BY <1>2, <2>3, <2>5
    <2> QED BY <1>2, <2>6 DEF Holdem!SetOf
  <1> QED BY <1>2, <1>4, <1>5 DEF s

\* The bets at the start of a round: before the flop, what the blinds are credited.
Blinds(g, preflop) ==
    IF ~preflop THEN Holdem!Zero
    ELSE [p \in Everybody |->
             IF p = Order(g)[Holdem!BigBlind(g, Len(Order(g))) + 1] THEN g.bbPay
             ELSE IF p = Order(g)[Holdem!SmallBlind(g, Len(Order(g))) + 1] THEN g.sbPay ELSE 0]
OpenBet(g, preflop) == IF preflop THEN g.bbPay ELSE 0

LEMMA BlindsType ==
    ASSUME NEW g \in Holdem!GameType, NEW preflop \in BOOLEAN
    PROVE  Blinds(g, preflop) \in [Everybody -> Nat] /\ OpenBet(g, preflop) \in Nat
  <1>1. g.bbPay \in Nat /\ g.sbPay \in Nat
    BY DEF Holdem!GameType
  <1>2. \A b, s \in Nat : \A x, y :
           [p \in Everybody |-> IF p = x THEN b ELSE IF p = y THEN s ELSE 0] \in [Everybody -> Nat]
    OBVIOUS
  <1>3. Holdem!Zero \in [Everybody -> Nat]
    BY DEF Holdem!Zero
  <1> QED BY <1>1, <1>2, <1>3 DEF Blinds, OpenBet

\* _start_betting_round: the turn is somebody's who can act, if there is anybody.
Started(g, preflop, t) ==
    [g EXCEPT !.order = Order(g), !.bets = Blinds(g, preflop), !.bet = OpenBet(g, preflop),
              !.last = Big, !.raises = 0, !.acted = {}, !.turn = t]

Begun(g, preflop, t, h) ==
    /\ h \in Holdem!GameType
    /\ h.chips = g.chips /\ h.wait = g.wait /\ h.folded = g.folded /\ h.allin = g.allin
    /\ h.contrib = g.contrib /\ h.board = g.board /\ h.pending = g.pending
    /\ h.phase = g.phase /\ h.hand = g.hand /\ h.over = g.over
    /\ h.order = Order(g) /\ h.bets = Blinds(g, preflop) /\ h.bet = OpenBet(g, preflop)
    /\ h.turn = t
    /\ Live(h) = Live(g) /\ Unfolded(h) = Unfolded(g) /\ Broke(h) /\ (Two(h) <=> Two(g))

LEMMA StartedIs ==
    ASSUME HoldemAssumption, NEW g \in Holdem!GameType, Broke(g), NEW preflop \in BOOLEAN,
           NEW t \in Everybody, NEW h, h = Started(g, preflop, t)
    PROVE  Begun(g, preflop, t, h)
  <1>1. Order(g) \in Seq(Everybody) /\ Big \in Nat
    BY OrderIs DEF HoldemAssumption
  <1>2. h \in Holdem!GameType
    BY <1>1, BlindsType DEF Holdem!GameType, Started
  <1>3. /\ h.chips = g.chips /\ h.wait = g.wait /\ h.folded = g.folded /\ h.allin = g.allin
        /\ h.contrib = g.contrib /\ h.board = g.board /\ h.pending = g.pending
        /\ h.phase = g.phase /\ h.hand = g.hand /\ h.over = g.over
        /\ h.order = Order(g) /\ h.bets = Blinds(g, preflop) /\ h.bet = OpenBet(g, preflop)
        /\ h.turn = t
    BY DEF Holdem!GameType, Started
  <1>4. Live(h) = Live(g) /\ Unfolded(h) = Unfolded(g)
    BY <1>3 DEF Live, Unfolded
  <1>5. Broke(h) /\ (Two(h) <=> Two(g))
    BY <1>3, <1>4 DEF Broke, Two
  <1> QED BY <1>2, <1>3, <1>4, <1>5 DEF Begun

LEMMA BettingRoundIs ==
    ASSUME HoldemAssumption, NEW g \in Holdem!GameType, Broke(g), Live(g) # {},
           NEW preflop \in BOOLEAN, NEW o \in Holdem!BettingRound(g, preflop)
    PROVE  \E t \in Live(g) : o = Started(g, preflop, t)
  <1> DEFINE n == Len(Order(g))
             first == IF ~preflop THEN g.index + 1
                      ELSE IF n = 2 THEN Holdem!SmallBlind(g, n) ELSE Holdem!BigBlind(g, n) + 1
             at == Order(g)[(first % n) + 1]
             h == Started(g, preflop, at)
  <1>1. n \in Nat /\ DOMAIN Order(g) = 1..n /\ Live(g) \subseteq Holdem!SetOf(Order(g))
        /\ \A k \in 1..n : Order(g)[k] \in Unfolded(g)
    BY OrderIs
  <1>2. n # 0
    BY <1>1 DEF Holdem!SetOf
  <1>3. first \in Int
    <2>1. g.index \in Nat
      BY DEF Holdem!GameType
    <2>2. n \in Nat \ {0}
      BY <1>1, <1>2
    <2>3. \A x \in Int, m \in Nat \ {0} : x % m \in Int
      BY Remainder
    <2> HIDE DEF n
    <2>4. Holdem!SmallBlind(g, n) \in Int
      BY <2>1, <2>2, <2>3 DEF Holdem!SmallBlind
    <2>5. Holdem!BigBlind(g, n) \in Int
      BY <2>2, <2>3, <2>4 DEF Holdem!BigBlind
    <2> QED BY <2>1, <2>4, <2>5
  <1>4. at \in Unfolded(g) /\ at \in Everybody
    <2>1. n \in Nat \ {0}
      BY <1>1, <1>2
    <2> HIDE DEF n, first
    <2>2. first % n \in 0..n - 1
      BY <1>3, <2>1, Remainder
    <2>3. (first % n) + 1 \in 1..n
      BY <2>1, <2>2
    <2> QED BY <1>1, <2>3 DEF Unfolded
  <1>5. o = IF Holdem!CanAct(h, at) THEN h ELSE Holdem!AdvanceTurn(h)
    <2>1. Order(g) = Holdem!Keeping(Seats, {i \in DOMAIN Seats : g.chips[Seats[i]] > 0
                                                                /\ Seats[i] \notin g.folded})
      BY DEF Order, Able
    <2>2. h = [g EXCEPT !.order = Order(g),
                        !.bets = IF preflop
                                 THEN [p \in Everybody |->
                                          IF p = Order(g)[Holdem!BigBlind(g, n) + 1] THEN g.bbPay
                                          ELSE IF p = Order(g)[Holdem!SmallBlind(g, n) + 1]
                                               THEN g.sbPay ELSE 0]
                                 ELSE Holdem!Zero,
                        !.bet = IF preflop THEN g.bbPay ELSE 0, !.last = Big,
                        !.raises = 0, !.acted = {}, !.turn = at]
      BY ZenonT(60) DEF Started, Blinds, OpenBet
    <2> HIDE DEF h
    <2>3. n = 0 \/ o \in {IF Holdem!CanAct(h, at) THEN h ELSE Holdem!AdvanceTurn(h)}
      BY <2>1, <2>2, ZenonT(60) DEF Holdem!BettingRound
    <2> QED BY <1>2, <2>3
  <1>6. /\ h \in Holdem!GameType /\ Broke(h) /\ Live(h) = Live(g) /\ h.order = Order(g)
    BY <1>4, StartedIs DEF Begun
  <1> HIDE DEF at
  <1>7. \A t : [h EXCEPT !.turn = t] = Started(g, preflop, t)
    BY DEF Started, Holdem!GameType
  <1> HIDE DEF h
  <1>8. CASE Holdem!CanAct(h, at)
    <2>1. at \in Live(g)
      BY <1>6, <1>8, ActiveAre
    <2> QED BY <1>5, <1>8, <2>1 DEF h
  <1>9. CASE ~Holdem!CanAct(h, at)
    <2>1. \E t \in Live(h) : Holdem!AdvanceTurn(h) = [h EXCEPT !.turn = t]
      <3>1. \E p \in Live(h) : p \in Holdem!SetOf(h.order)
        BY <1>1, <1>6
      <3> QED BY <1>6, <3>1, AdvanceTurnIs
    <2> QED BY <1>5, <1>6, <1>7, <1>9, <2>1
  <1> QED BY <1>8, <1>9
-----------------------------------------------------------------------------
\* _deal_community, when all who can act have answered the bet.
LEMMA DealOnward ==
    ASSUME HoldemAssumption, NEW h, NEW odd, Mid(h, odd), Two(h), Live(h) # {}, Holdem!Complete(h),
           NEW ph \in {"flop", "turn", "river"}, NEW n \in {1, 3},
           BoardOf(ph) = BoardOf(h.phase) + n, NEW o \in Holdem!Deal(h, ph, n)
    PROVE  Onward(h, o, odd)
  <1>1. h \in Holdem!GameType /\ Broke(h) /\ ~h.over /\ ~h.pending /\ h.board = BoardOf(h.phase)
    BY DEF Mid
  <1> DEFINE g == [h EXCEPT !.phase = ph, !.board = @ + n]
  <1>2. o \in Holdem!BettingRound(g, FALSE)
    BY DEF Holdem!Deal
  <1>3. h.board + n \in {0, 3, 4, 5} /\ h.board + n = BoardOf(ph)
    BY <1>1 DEF BoardOf
  <1>4. g \in Holdem!GameType
    BY <1>1, <1>3 DEF Holdem!GameType
  <1>5. /\ g.chips = h.chips /\ g.wait = h.wait /\ g.folded = h.folded /\ g.allin = h.allin
        /\ g.contrib = h.contrib /\ g.bets = h.bets /\ g.bet = h.bet /\ g.turn = h.turn
        /\ g.board = BoardOf(ph) /\ g.pending = h.pending /\ g.phase = ph /\ g.hand = h.hand
        /\ g.over = h.over
    BY <1>1, <1>3 DEF Holdem!GameType
  <1> HIDE DEF g
  <1>6. Live(g) = Live(h) /\ Unfolded(g) = Unfolded(h)
    BY <1>5 DEF Live, Unfolded
  <1>7. Broke(g) /\ (Two(h) => Two(g))
    BY <1>1, <1>5, <1>6 DEF Broke, Two
  <1>8. PICK t \in Live(g) : o = Started(g, FALSE, t)
    BY <1>2, <1>4, <1>6, <1>7, BettingRoundIs
  <1>9. t \in Everybody /\ t \notin g.folded /\ t \notin g.allin /\ t \in Unfolded(g)
    BY <1>8 DEF Live, Unfolded
  <1>10. Begun(g, FALSE, t, o)
    BY <1>4, <1>7, <1>8, <1>9, StartedIs
  <1>11. /\ o \in Holdem!GameType
         /\ o.chips = g.chips /\ o.wait = g.wait /\ o.folded = g.folded /\ o.allin = g.allin
         /\ o.contrib = g.contrib /\ o.board = g.board /\ o.pending = g.pending
         /\ o.phase = g.phase /\ o.hand = g.hand /\ o.over = g.over
         /\ o.order = Order(g) /\ o.bets = Blinds(g, FALSE) /\ o.bet = OpenBet(g, FALSE)
         /\ o.turn = t
         /\ Live(o) = Live(g) /\ Unfolded(o) = Unfolded(g) /\ Broke(o) /\ (Two(o) <=> Two(g))
    BY <1>10 DEF Begun
  <1>12. Live(o) \subseteq Holdem!SetOf(o.order) /\ ~Dead(o)
    BY <1>4, <1>7, <1>9, <1>11, OrderIs DEF Dead
  <1>13. (o.phase \in {"river", "showdown"} => o.board = 5) /\ o.board = BoardOf(o.phase)
         /\ o.phase # "showdown"
    BY <1>5, <1>11 DEF BoardOf
  <1>14. Skewed(h) => Skewed(o)
    BY <1>5, <1>6, <1>9, <1>11 DEF Skewed
  <1>15. ASSUME Matched(h)
         PROVE  Matched(o) /\ \A p, q \in Live(o) : o.contrib[p] = o.contrib[q]
    <2>1. PICK base \in Nat : /\ base + h.bet > 0
                              /\ \A p \in Live(h) : h.contrib[p] = base + h.bets[p]
      BY <1>15 DEF Matched
    <2>2. \A p \in Live(h) : h.bets[p] = h.bet
      BY <1>1, ActiveAre DEF Holdem!Complete
    <2>3. h.bet \in Nat /\ base + h.bet \in Nat
      BY <1>1, SMTT(30) DEF Holdem!GameType
    <2>4. \A p \in Live(o) : o.contrib[p] = base + h.bet /\ o.bets[p] = 0
      <3>1. o.contrib = h.contrib /\ Live(o) = Live(h)
        BY <1>5, <1>6, <1>11
      <3>2. \A p \in Everybody : o.bets[p] = 0
        BY <1>11 DEF Blinds, Holdem!Zero
      <3>3. Live(o) \subseteq Everybody
        BY DEF Live
      <3> QED BY <2>1, <2>2, <3>1, <3>2, <3>3
    <2>5. o.bet = 0
      BY <1>11 DEF OpenBet
    <2>6. (base + h.bet) + o.bet > 0 /\ (base + h.bet) + 0 = base + h.bet
      BY <2>1, <2>3, <2>5
    <2>7. \A p \in Live(o) : o.contrib[p] = (base + h.bet) + o.bets[p]
      BY <2>4, <2>6
    <2> QED BY <2>3, <2>4, <2>6, <2>7 DEF Matched
  <1>16. (\E p \in Everybody : o.contrib[p] > 0) /\ (h.wait \/ \A p \in h.allin : h.chips[p] = 0)
         /\ (IF odd THEN Skewed(h) ELSE Matched(h))
    BY <1>5, <1>11 DEF Mid
  <1>17. o.wait \/ \A p \in o.allin : o.chips[p] = 0
    BY <1>5, <1>11, <1>16
  <1>18. o \in Holdem!GameType /\ ~o.over /\ Broke(o) /\ ~o.pending /\ Unfolded(o) # {}
    BY <1>1, <1>5, <1>9, <1>11
  <1>19. IF odd THEN Skewed(o) ELSE Matched(o)
    BY <1>14, <1>15, <1>16
  <1>20. Mid(o, odd)
    BY <1>12, <1>13, <1>16, <1>17, <1>18, <1>19 DEF Mid
  <1>21. Two(o) /\ o.turn \in Live(o)
    BY <1>7, <1>8, <1>11
  <1>22. Round(o, odd)
    BY <1>18, <1>20, <1>21 DEF Round
  <1>23. Quiet(h, o)
    BY <1>5, <1>11 DEF Quiet
  <1> QED BY <1>5, <1>11, <1>15, <1>16, <1>22, <1>23 DEF Onward

\* _advance_phase
LEMMA AdvancePhaseOnward ==
    ASSUME HoldemAssumption, NEW h, NEW odd, Mid(h, odd), Two(h), Live(h) # {}, Holdem!Complete(h),
           NEW o \in Holdem!AdvancePhase(h)
    PROVE  Onward(h, o, odd)
  <1>1. h \in Holdem!GameType /\ Broke(h) /\ ~h.pending
    BY DEF Mid
  <1>2. CASE h.phase = "preflop"
    <2>1. o \in Holdem!Deal(h, "flop", 3)
      BY <1>2 DEF Holdem!AdvancePhase
    <2>2. BoardOf("flop") = BoardOf(h.phase) + 3
      BY <1>2 DEF BoardOf
    <2> QED BY <2>1, <2>2, DealOnward
  <1>3. CASE h.phase = "flop"
    <2>1. o \in Holdem!Deal(h, "turn", 1)
      BY <1>3 DEF Holdem!AdvancePhase
    <2>2. BoardOf("turn") = BoardOf(h.phase) + 1
      BY <1>3 DEF BoardOf
    <2> QED BY <2>1, <2>2, DealOnward
  <1>4. CASE h.phase = "turn"
    <2>1. o \in Holdem!Deal(h, "river", 1)
      BY <1>4 DEF Holdem!AdvancePhase
    <2>2. BoardOf("river") = BoardOf(h.phase) + 1
      BY <1>4 DEF BoardOf
    <2> QED BY <2>1, <2>2, DealOnward
  <1>5. CASE h.phase \in {"river", "showdown"}
    <2>1. o \in Holdem!Showdown(h)
      BY <1>5 DEF Holdem!AdvancePhase
    <2>2. h.board = 5
      BY <1>5 DEF Mid
    <2>3. \E p \in Unfolded(h) : h.contrib[p] > 0
      <3>1. CASE Skewed(h)
        BY <3>1 DEF Skewed
      <3>2. CASE Matched(h)
        <4>1. PICK base \in Nat : /\ base + h.bet > 0
                                  /\ \A p \in Live(h) : h.contrib[p] = base + h.bets[p]
          BY <3>2 DEF Matched
        <4>2. PICK p \in Live(h) : TRUE
          OBVIOUS
        <4>3. h.bets[p] = h.bet
          BY <1>1, <4>2, ActiveAre DEF Holdem!Complete
        <4>4. h.contrib[p] > 0
          BY <4>1, <4>2, <4>3
        <4>5. p \in Unfolded(h)
          BY DEF Live, Unfolded
        <4> QED BY <4>4, <4>5
      <3> QED BY <3>1, <3>2 DEF Mid
    <2> QED BY <1>1, <2>1, <2>2, <2>3, ShowdownOnward
  <1>6. h.phase \in {"preflop", "flop", "turn", "river", "showdown"}
    BY <1>1 DEF Holdem!GameType
  <1> QED BY <1>2, <1>3, <1>4, <1>5, <1>6

\* _after_action
LEMMA AfterActionOnward ==
    ASSUME HoldemAssumption, NEW h, NEW odd, Mid(h, odd), NEW o \in Holdem!AfterAction(h)
    PROVE  Onward(h, o, odd)
  <1>1. h \in Holdem!GameType /\ Broke(h)
    BY DEF Mid
  <1>2. Holdem!ActiveIds(h) = Unfolded(h) /\ (Two(h) <=> ~(Holdem!Cardinality(Unfolded(h)) <= 1))
    BY <1>1, ActiveAre, TwoOrFewer
  <1>3. CASE ~Two(h)
    <2>1. o \in Holdem!Award(h)
      BY <1>2, <1>3 DEF Holdem!AfterAction
    <2> QED BY <1>3, <2>1, AwardOnward
  <1>4. CASE Two(h) /\ Live(h) = {}
    <2>1. Unfolded(h) \subseteq h.allin
      BY <1>4 DEF Live, Unfolded
    <2>2. o \in Holdem!StartAllIn(h)
      BY <1>2, <1>4, <2>1 DEF Holdem!AfterAction
    <2> QED BY <1>4, <2>2, StartAllInOnward
  <1>5. CASE Two(h) /\ Live(h) # {}
    <2>1. ~(Unfolded(h) \subseteq h.allin)
      BY <1>5 DEF Live, Unfolded
    <2>2. CASE Holdem!Complete(h)
      <3>1. o \in Holdem!AdvancePhase(h)
        BY <1>2, <1>5, <2>1, <2>2 DEF Holdem!AfterAction
      <3> QED BY <1>5, <2>2, <3>1, AdvancePhaseOnward
    <2>3. CASE ~Holdem!Complete(h)
      <3>1. o = Holdem!AdvanceTurn(h)
        BY <1>2, <1>5, <2>1, <2>3 DEF Holdem!AfterAction
      <3> QED BY <1>5, <3>1, AdvanceTurnOnward
    <2> QED BY <2>2, <2>3
  <1> QED BY <1>3, <1>4, <1>5
-----------------------------------------------------------------------------
(* The keys.                                                               *)

\* p puts in a chips, or none, in the step from g to h.
Put(g, h, p, a) ==
    /\ p \in Everybody /\ a \in 0..g.chips[p] /\ (a = 0 \/ p \notin h.folded)
    /\ h.chips = [g.chips EXCEPT ![p] = @ - a]
    /\ h.contrib = [g.contrib EXCEPT ![p] = @ + a]
    /\ h.wait = g.wait /\ h.phase = g.phase /\ h.hand = g.hand /\ h.board = g.board

LEMMA FoldMid ==
    ASSUME NEW g, NEW odd, Round(g, odd), NEW p \in Everybody, p = g.turn, NEW h,
           h = [g EXCEPT !.folded = @ \cup {p}]
    PROVE  Mid(h, odd) /\ Put(g, h, p, 0)
  <1>1. g \in Holdem!GameType /\ Broke(g) /\ ~g.over
    BY DEF Round, Mid
  <1>2. h \in Holdem!GameType
    BY <1>1 DEF Holdem!GameType
  <1>3. /\ h.chips = g.chips /\ h.wait = g.wait /\ h.folded = g.folded \cup {p}
        /\ h.allin = g.allin /\ h.contrib = g.contrib /\ h.board = g.board
        /\ h.pending = g.pending /\ h.phase = g.phase /\ h.hand = g.hand /\ h.over = g.over
        /\ h.order = g.order /\ h.bets = g.bets /\ h.bet = g.bet /\ h.turn = g.turn
    BY <1>1 DEF Holdem!GameType
  <1>4. Live(h) \subseteq Live(g) /\ Unfolded(h) = Unfolded(g) \ {p}
    BY <1>3 DEF Live, Unfolded
  <1>5. (Two(h) => Two(g)) /\ (Two(g) => Unfolded(h) # {}) /\ Broke(h)
    BY <1>1, <1>3, <1>4 DEF Two, Broke
  <1>6. Skewed(g) => Skewed(h)
    BY <1>3, <1>4 DEF Skewed
  <1>7. Matched(g) => Matched(h)
    BY <1>3, <1>4 DEF Matched
  <1>8. h.turn \in h.folded
    BY <1>3
  <1>9. Mid(h, odd)
    BY <1>1, <1>2, <1>3, <1>4, <1>5, <1>6, <1>7, <1>8, ZenonT(60) DEF Round, Mid
  <1>10. Put(g, h, p, 0)
    <2>1. g.chips \in [Everybody -> Nat] /\ g.contrib \in [Everybody -> Nat]
      BY <1>1 DEF Holdem!GameType
    <2>2. g.chips = [g.chips EXCEPT ![p] = @ - 0] /\ g.contrib = [g.contrib EXCEPT ![p] = @ + 0]
      BY <2>1
    <2>3. 0 \in 0..g.chips[p]
      BY <2>1
    <2> QED BY <1>3, <2>2, <2>3 DEF Put
  <1> QED BY <1>9, <1>10

LEMMA BetRecorded ==
    ASSUME NEW g \in Holdem!GameType, NEW raises \in Nat, NEW last \in Nat, NEW bet \in Nat,
           NEW acted \in SUBSET Everybody
    PROVE  [g EXCEPT !.raises = raises, !.last = last, !.bet = bet, !.acted = acted]
           \in Holdem!GameType
  BY DEF Holdem!GameType

LEMMA PayMid ==
    ASSUME NEW g, NEW odd, Round(g, odd), NEW p \in Everybody, p = g.turn, p \notin g.folded,
           NEW a \in 0..g.chips[p], NEW raise \in BOOLEAN, raise => g.bets[p] + a > g.bet, NEW h,
           h = Holdem!Pay(g, p, a, raise)
    PROVE  Mid(h, odd) /\ Put(g, h, p, a)
  <1>1. g \in Holdem!GameType /\ Broke(g) /\ ~g.over /\ p \in Unfolded(g)
    BY DEF Round, Mid, Unfolded
  <1> DEFINE left == g.chips[p] - a
             mine == g.bets[p] + a
             chips == [g.chips EXCEPT ![p] = left]
             contrib == [g.contrib EXCEPT ![p] = @ + a]
             bets == [g.bets EXCEPT ![p] = mine]
             allin == IF left = 0 THEN g.allin \cup {p} ELSE g.allin
  <1>2. /\ g.chips \in [Everybody -> Nat] /\ g.contrib \in [Everybody -> Nat]
        /\ g.bets \in [Everybody -> Nat] /\ g.bet \in Nat /\ g.last \in Nat /\ g.raises \in Nat
        /\ g.allin \in SUBSET Everybody /\ g.acted \in SUBSET Everybody
    BY <1>1 DEF Holdem!GameType
  <1>3. left \in Nat /\ mine \in Nat /\ a \in Nat
    BY <1>2
  <1>4. /\ chips \in [Everybody -> Nat] /\ contrib \in [Everybody -> Nat]
        /\ bets \in [Everybody -> Nat] /\ allin \in SUBSET Everybody
    BY <1>2, <1>3
  <1>5. /\ chips[p] = left /\ contrib[p] = g.contrib[p] + a /\ bets[p] = mine
        /\ \A q \in Everybody : q # p => /\ chips[q] = g.chips[q] /\ contrib[q] = g.contrib[q]
                                         /\ bets[q] = g.bets[q]
    BY <1>2
  <1>6. \A q : q \in allin <=> q \in g.allin \/ (q = p /\ left = 0)
    BY SMTT(30)
  <1>7. PICK bet \in Nat, last \in Nat, raises \in Nat, acted \in SUBSET Everybody :
           /\ h = [g EXCEPT !.chips = chips, !.contrib = contrib, !.bets = bets, !.allin = allin,
                            !.raises = raises, !.last = last, !.bet = bet, !.acted = acted]
           /\ bet >= g.bet
    <2> HIDE DEF left, mine
    <2>1. Holdem!Larger(g.last, mine - g.bet) \in Nat \/ ~raise
      BY <1>2, <1>3 DEF Holdem!Larger, mine
    <2>2. CASE raise
      <3>1. h = [g EXCEPT !.chips = chips, !.contrib = contrib, !.bets = bets, !.allin = allin,
                          !.raises = g.raises + 1, !.last = Holdem!Larger(g.last, mine - g.bet),
                          !.bet = mine, !.acted = {p}]
        BY <1>1, <2>2 DEF Holdem!Pay, Holdem!GameType, mine, left
      <3>2. g.raises + 1 \in Nat /\ mine >= g.bet /\ {p} \in SUBSET Everybody
        BY <1>2, <1>3, <2>2 DEF mine
      <3> HIDE DEF chips, contrib, bets, allin
      <3> QED BY <1>3, <2>1, <2>2, <3>1, <3>2
    <2>3. CASE ~raise
      <3>1. h = [g EXCEPT !.chips = chips, !.contrib = contrib, !.bets = bets, !.allin = allin,
                          !.raises = g.raises, !.last = g.last, !.bet = g.bet,
                          !.acted = g.acted \cup {p}]
        BY <1>1, <2>3, ZenonT(60) DEF Holdem!Pay, Holdem!GameType, mine, left
      <3>2. g.bet >= g.bet /\ g.acted \cup {p} \in SUBSET Everybody
        BY <1>2
      <3> HIDE DEF chips, contrib, bets, allin
      <3> QED BY <1>2, <3>1, <3>2
    <2> QED BY <2>2, <2>3
  <1> HIDE DEF chips, contrib, bets, allin
  <1>8. h \in Holdem!GameType
    <2>1. h = [g EXCEPT !.chips = chips, !.contrib = contrib, !.bets = bets, !.allin = allin,
                        !.raises = raises, !.last = last, !.bet = bet, !.acted = acted]
      BY <1>7
    <2>2. g \in Holdem!GameType /\ bet \in Nat /\ last \in Nat /\ raises \in Nat
          /\ acted \in SUBSET Everybody
      BY <1>1
    <2> DEFINE k == [g EXCEPT !.chips = chips, !.contrib = contrib, !.bets = bets,
                              !.allin = allin]
    <2>3. k \in Holdem!GameType
      BY <1>4, <2>2 DEF Holdem!GameType
    <2>4. h = [k EXCEPT !.raises = raises, !.last = last, !.bet = bet, !.acted = acted]
      BY <2>1
    <2> HIDE DEF k
    <2>5. [k EXCEPT !.raises = raises, !.last = last, !.bet = bet, !.acted = acted]
          \in Holdem!GameType
      BY <2>2, <2>3, BetRecorded
    <2> QED BY <2>4, <2>5
  <1>9. /\ h.chips = chips /\ h.wait = g.wait /\ h.folded = g.folded
        /\ h.allin = allin /\ h.contrib = contrib /\ h.board = g.board
        /\ h.pending = g.pending /\ h.phase = g.phase /\ h.hand = g.hand /\ h.over = g.over
        /\ h.order = g.order /\ h.bets = bets /\ h.bet = bet /\ h.turn = g.turn
    BY <1>1, <1>7 DEF Holdem!GameType
  <1>10. Live(h) \subseteq Live(g) /\ Unfolded(h) = Unfolded(g)
    BY <1>6, <1>9 DEF Live, Unfolded
  <1>11. (Two(h) <=> Two(g)) /\ (Two(g) => Unfolded(h) # {})
    BY <1>10 DEF Two
  <1>12. Broke(h)
    <2> SUFFICES ASSUME NEW q \in Unfolded(h), h.chips[q] = 0 PROVE q \in h.allin
      BY DEF Broke
    <2>1. q \in Unfolded(g) /\ q \in Everybody
      BY <1>10 DEF Unfolded
    <2>2. CASE q = p
      BY <1>5, <1>6, <1>9, <2>2
    <2>3. CASE q # p
      BY <1>1, <1>5, <1>6, <1>9, <2>1, <2>3 DEF Broke
    <2> QED BY <2>2, <2>3
  <1>13. ASSUME \A q \in g.allin : g.chips[q] = 0 PROVE \A q \in h.allin : h.chips[q] = 0
    <2> SUFFICES ASSUME NEW q \in allin PROVE chips[q] = 0
      BY <1>9
    <2>1. q \in Everybody
      BY <1>4
    <2>2. CASE q = p /\ left = 0
      BY <1>5, <2>2
    <2>3. CASE q \in g.allin /\ q # p
      BY <1>5, <1>13, <2>1, <2>3
    <2>4. CASE q \in g.allin /\ q = p
      <3>1. g.chips[p] = 0
        BY <1>13, <2>4
      <3>2. left = 0
        BY <1>2, <1>3, <3>1
      <3> QED BY <1>5, <2>4, <3>2
    <2> QED BY <1>6, <2>2, <2>3, <2>4
  <1>14. \A q \in Everybody : h.contrib[q] >= g.contrib[q]
    <2> SUFFICES ASSUME NEW q \in Everybody PROVE contrib[q] >= g.contrib[q]
      BY <1>9
    <2>1. g.contrib[q] \in Nat
      BY <1>2
    <2>2. CASE q = p
      BY <1>3, <1>5, <2>1, <2>2
    <2>3. CASE q # p
      BY <1>5, <2>1, <2>3
    <2> QED BY <2>2, <2>3
  <1>15. \E q \in Everybody : h.contrib[q] > 0
    <2>1. PICK q \in Everybody : g.contrib[q] > 0
      BY DEF Round, Mid
    <2>2. h.contrib[q] >= g.contrib[q] /\ g.contrib[q] \in Nat /\ h.contrib[q] \in Nat
      BY <1>2, <1>4, <1>9, <1>14
    <2>3. h.contrib[q] > 0
      BY <2>1, <2>2
    <2> QED BY <2>3
  <1>16. ~Dead(h)
    <2>1. ~Dead(g)
      BY DEF Round, Mid
    <2>2. PICK q \in Unfolded(g) : q \notin g.allin \/ g.contrib[q] # 0
      BY <2>1 DEF Dead
    <2>3. q \in Everybody /\ g.contrib[q] \in Nat /\ h.contrib[q] \in Nat
          /\ h.contrib[q] >= g.contrib[q]
      BY <1>2, <1>4, <1>9, <1>14 DEF Unfolded
    <2>4. CASE g.contrib[q] # 0
      <3>1. h.contrib[q] # 0
        BY <2>3, <2>4
      <3> QED BY <1>10, <2>2, <3>1 DEF Dead
    <2>5. CASE q \notin g.allin /\ (q # p \/ left # 0)
      <3>1. q \notin h.allin
        BY <1>6, <1>9, <2>5
      <3> QED BY <1>10, <2>2, <3>1 DEF Dead
    <2>6. CASE q \notin g.allin /\ q = p /\ left = 0
      <3>1. g.chips[p] # 0
        BY <1>1, <2>6 DEF Broke
      <3>2. a > 0
        BY <1>2, <1>3, <2>6, <3>1
      <3>3. h.contrib[q] = g.contrib[q] + a
        BY <1>5, <1>9, <2>6
      <3>4. h.contrib[q] # 0
        BY <1>3, <2>3, <3>2, <3>3
      <3> QED BY <1>10, <2>2, <3>4 DEF Dead
    <2> QED BY <2>2, <2>4, <2>5, <2>6
  <1>17. ASSUME Skewed(g) PROVE Skewed(h)
    <2>1. PICK q \in Unfolded(g) \ {g.turn} : q \in g.allin /\ g.contrib[q] > 0
      BY <1>17 DEF Skewed
    <2>2. q \in Everybody /\ g.contrib[q] \in Nat /\ h.contrib[q] \in Nat
          /\ h.contrib[q] >= g.contrib[q]
      BY <1>2, <1>4, <1>9, <1>14 DEF Unfolded
    <2>3. h.contrib[q] > 0
      BY <2>1, <2>2
    <2>4. q \in h.allin /\ q \in Unfolded(h) \ {h.turn}
      BY <1>6, <1>9, <1>10, <2>1
    <2> QED BY <2>3, <2>4 DEF Skewed
  <1>18. ASSUME Matched(g) PROVE Matched(h)
    <2>1. PICK base \in Nat : /\ base + g.bet > 0
                              /\ \A q \in Live(g) : g.contrib[q] = base + g.bets[q]
      BY <1>18 DEF Matched
    <2>2. base + h.bet > 0
      BY <1>2, <1>7, <1>9, <2>1
    <2>3. ASSUME NEW q \in Live(h) PROVE h.contrib[q] = base + h.bets[q]
      <3>1. q \in Live(g) /\ q \in Everybody
        BY <1>10 DEF Live
      <3>2. g.contrib[q] = base + g.bets[q] /\ g.bets[q] \in Nat
        BY <1>2, <2>1, <3>1
      <3>3. CASE q = p
        <4>1. contrib[q] = (base + g.bets[q]) + a /\ bets[q] = g.bets[q] + a
          BY <1>5, <3>2, <3>3
        <4> QED BY <1>3, <1>9, <3>2, <4>1
      <3>4. CASE q # p
        BY <1>5, <1>9, <3>1, <3>2, <3>4
      <3> QED BY <3>3, <3>4
    <2> QED BY <2>2, <2>3 DEF Matched
  <1>19. Mid(h, odd)
    BY <1>1, <1>8, <1>9, <1>10, <1>11, <1>12, <1>13, <1>15, <1>16, <1>17, <1>18 DEF Round, Mid
  <1>20. Put(g, h, p, a)
    BY <1>2, <1>9 DEF Put, chips, contrib
  <1> QED BY <1>19, <1>20
-----------------------------------------------------------------------------
(* The chips.                                                              *)

LEMMA DeadPotsSame ==
    ASSUME NEW g, NEW h, g.contrib = h.contrib, g.folded = h.folded
    PROVE  Holdem!DeadPots(g) = Holdem!DeadPots(h) /\ Holdem!TotalPot(g) = Holdem!TotalPot(h)
  <1>1. Holdem!Levels(g) = Holdem!Levels(h)
    BY DEF Holdem!Levels
  <1>2. \A l : /\ Holdem!Below(g, l) = Holdem!Below(h, l)
               /\ Holdem!Contributors(g, l) = Holdem!Contributors(h, l)
    BY <1>1 DEF Holdem!Below, Holdem!Contributors
  <1>3. Holdem!Pots(g) = Holdem!Pots(h)
    BY <1>1, <1>2 DEF Holdem!Pots, Holdem!Pot
  <1> QED BY <1>1, <1>3 DEF Holdem!DeadPots, Holdem!TotalPot

\* No chip is lost between a purse and the pot.
LEMMA PutTotals ==
    ASSUME HoldemAssumption, NEW g \in Holdem!GameType, NEW h, NEW p, NEW a, Put(g, h, p, a)
    PROVE  /\ Holdem!Total(h.chips) \in Nat /\ Holdem!TotalPot(h) \in Nat
           /\ Holdem!Total(g.chips) \in Nat /\ Holdem!TotalPot(g) \in Nat
           /\ Holdem!Total(h.chips) + Holdem!TotalPot(h)
              = Holdem!Total(g.chips) + Holdem!TotalPot(g)
  <1>1. g.chips \in [Everybody -> Nat] /\ g.contrib \in [Everybody -> Nat]
    BY DEF Holdem!GameType
  <1>2. /\ p \in Everybody /\ a \in Nat /\ a <= g.chips[p] /\ a \in Int
        /\ h.chips = [g.chips EXCEPT ![p] = @ - a]
        /\ h.contrib = [g.contrib EXCEPT ![p] = @ + a]
    BY <1>1 DEF Put
  <1>3. \A q \in Everybody : h.chips[q] \in Nat /\ h.contrib[q] \in Nat
    BY <1>1, <1>2
  <1>4. /\ Holdem!Total(g.chips) = Holdem!Total(h.chips) + a
        /\ Holdem!Total(h.contrib) = Holdem!Total(g.contrib) + a
    <2>1. /\ \A q \in Everybody : h.chips[q] \in Int
          /\ \A q \in Everybody : g.contrib[q] \in Int
      BY <1>1, <1>3
    <2>2. /\ \A q \in Everybody : q # p => g.chips[q] = h.chips[q]
          /\ \A q \in Everybody : q # p => h.contrib[q] = g.contrib[q]
          /\ g.chips[p] = h.chips[p] + a /\ h.contrib[p] = g.contrib[p] + a
      BY <1>1, <1>2
    <2>3. Holdem!Total(g.chips) = Holdem!Total(h.chips) + a
      <3>1. g.chips[p] = h.chips[p] + a
        BY <2>2
      <3>2. \A q \in Everybody : q # p => g.chips[q] = h.chips[q]
        BY <2>2
      <3>3. p \in Everybody /\ a \in Int
        BY <1>2
      <3> QED BY <2>1, <3>1, <3>2, <3>3, TotalOne
    <2>4. Holdem!Total(h.contrib) = Holdem!Total(g.contrib) + a
      <3>1. h.contrib[p] = g.contrib[p] + a
        BY <2>2
      <3>2. \A q \in Everybody : q # p => h.contrib[q] = g.contrib[q]
        BY <2>2
      <3>3. p \in Everybody /\ a \in Int
        BY <1>2
      <3> QED BY <2>1, <3>1, <3>2, <3>3, TotalOne
    <2> QED BY <2>3, <2>4
  <1>5. /\ Holdem!Total(h.chips) \in Nat /\ Holdem!Total(g.chips) \in Nat
        /\ Holdem!Total(h.contrib) \in Nat /\ Holdem!Total(g.contrib) \in Nat
    BY <1>1, <1>3, TotalType
  <1> QED BY <1>2, <1>4, <1>5 DEF Holdem!TotalPot

Gains(g, o) == \E q \in Everybody : o.chips[q] > g.chips[q]
\* What ChipsKept says of a step from g to o.
Conserved(g, o) == Holdem!Total(o.chips) + Holdem!TotalPot(o)
                   = Holdem!Total(g.chips) + Holdem!TotalPot(g)
Settled(g, o) ==
    Holdem!Total(o.chips) = (Holdem!Total(g.chips) + Holdem!TotalPot(g))
                            - (IF o.phase = "showdown" THEN Holdem!DeadPots(o) ELSE 0)

LEMMA QuietChips ==
    ASSUME HoldemAssumption, NEW g \in Holdem!GameType, NEW h, NEW p, NEW a, Put(g, h, p, a),
           NEW o, o.contrib = h.contrib, Quiet(h, o)
    PROVE  ~Gains(g, o) /\ Conserved(g, o) /\ (o.wait => g.wait)
  <1>1. ASSUME NEW q \in Everybody PROVE ~(o.chips[q] > g.chips[q])
    <2>1. g.chips[q] \in Nat /\ p \in Everybody /\ a \in 0..g.chips[p]
      BY DEF Holdem!GameType, Put
    <2>2. o.chips[q] = IF q = p THEN g.chips[q] - a ELSE g.chips[q]
      <3>1. g.chips \in [Everybody -> Nat]
        BY DEF Holdem!GameType
      <3>2. o.chips = [g.chips EXCEPT ![p] = @ - a]
        BY DEF Quiet, Put
      <3> QED BY <3>1, <3>2
    <2>3. CASE q = p
      BY <2>1, <2>2, <2>3
    <2>4. CASE q # p
      BY <2>1, <2>2, <2>4
    <2> QED BY <2>3, <2>4
  <1>2. o.chips = h.chips /\ Holdem!TotalPot(o) = Holdem!TotalPot(h) /\ (o.wait => g.wait)
    BY DEF Quiet, Put, Holdem!TotalPot
  <1> QED BY <1>1, <1>2, PutTotals DEF Gains, Conserved

LEMMA AwardedChips ==
    ASSUME HoldemAssumption, NEW g \in Holdem!GameType, NEW h \in Holdem!GameType, NEW p, NEW a,
           Put(g, h, p, a), \E q \in Everybody : g.contrib[q] > 0,
           NEW o, o.contrib = h.contrib, Awarded(h, o), g.phase # "showdown"
    PROVE  Gains(g, o) /\ Settled(g, o)
  <1>1. PICK w \in Unfolded(h) : o.chips = [h.chips EXCEPT ![w] = @ + Holdem!TotalPot(h)]
    BY DEF Awarded
  <1>2. w \in Everybody /\ h.chips \in [Everybody -> Nat] /\ g.chips \in [Everybody -> Nat]
        /\ p \in Everybody /\ a \in 0..g.chips[p]
    BY DEF Unfolded, Holdem!GameType, Put
  <1>3. /\ Holdem!Total(h.chips) \in Nat /\ Holdem!TotalPot(h) \in Nat
        /\ Holdem!Total(g.chips) \in Nat /\ Holdem!TotalPot(g) \in Nat
        /\ Holdem!Total(h.chips) + Holdem!TotalPot(h)
           = Holdem!Total(g.chips) + Holdem!TotalPot(g)
    BY PutTotals
  <1>4. Holdem!TotalPot(h) > a
    <2>1. PICK q \in Everybody : g.contrib[q] > 0
      OBVIOUS
    <2>2. Holdem!Total(g.contrib) >= g.contrib[q] /\ g.contrib[q] \in Nat
      <3>1. \A r \in Everybody : g.contrib[r] \in Nat
        BY DEF Holdem!GameType
      <3> QED BY <3>1, TotalType
    <2>3. Holdem!TotalPot(g) > 0
      BY <1>3, <2>1, <2>2 DEF Holdem!TotalPot
    <2>4. Holdem!TotalPot(h) = Holdem!TotalPot(g) + a
      <3>1. /\ h.contrib = [g.contrib EXCEPT ![p] = @ + a] /\ a \in Int
            /\ g.contrib \in [Everybody -> Nat]
        BY <1>2 DEF Put, Holdem!GameType
      <3>2. /\ \A r \in Everybody : g.contrib[r] \in Int
            /\ \A r \in Everybody : r # p => h.contrib[r] = g.contrib[r]
            /\ h.contrib[p] = g.contrib[p] + a
        BY <1>2, <3>1
      <3> QED BY <1>2, <3>1, <3>2, TotalOne DEF Holdem!TotalPot
    <2> QED BY <1>2, <1>3, <2>3, <2>4
  <1>5. Gains(g, o)
    <2>1. o.chips[w] = h.chips[w] + Holdem!TotalPot(h) /\ h.chips[w] \in Nat
      BY <1>1, <1>2
    <2>2. h.chips[w] >= g.chips[w] - a /\ g.chips[w] \in Nat
      <3>1. h.chips[w] = IF w = p THEN g.chips[w] - a ELSE g.chips[w]
        BY <1>2 DEF Put
      <3>2. g.chips[w] \in Nat /\ a >= 0 /\ a \in Int
        BY <1>2
      <3>3. CASE w = p
        BY <3>1, <3>2, <3>3
      <3>4. CASE w # p
        BY <3>1, <3>2, <3>4
      <3> QED BY <3>3, <3>4
    <2>3. a \in Int
      BY <1>2
    <2>4. o.chips[w] > g.chips[w]
      BY <1>3, <1>4, <2>1, <2>2, <2>3
    <2> QED BY <1>2, <2>4 DEF Gains
  <1>6. Holdem!Total(o.chips) = Holdem!Total(h.chips) + Holdem!TotalPot(h)
    <2>1. Holdem!TotalPot(h) \in Int
      BY <1>3
    <2>2. /\ \A q \in Everybody : h.chips[q] \in Int
          /\ \A q \in Everybody : q # w => o.chips[q] = h.chips[q]
          /\ o.chips[w] = h.chips[w] + Holdem!TotalPot(h)
      BY <1>1, <1>2
    <2> QED BY <1>2, <2>1, <2>2, TotalOne
  <1>7. o.phase # "showdown"
    BY DEF Awarded, Put
  <1> QED BY <1>3, <1>5, <1>6, <1>7 DEF Settled

LEMMA ShownChips ==
    ASSUME HoldemAssumption, NEW g \in Holdem!GameType, NEW h \in Holdem!GameType, NEW p, NEW a,
           Put(g, h, p, a), \E q \in Everybody : g.contrib[q] > 0,
           NEW o, o.contrib = h.contrib, o.folded = h.folded, Shown(h, o)
    PROVE  /\ Settled(g, o)
           /\ ~Gains(g, o) => Conserved(g, o) /\ Dead(o)
  <1>1. PICK rank : /\ Ranking(h, rank)
                    /\ o.chips = [q \in Everybody |-> h.chips[q] + Paying(h, rank)[q]]
    BY DEF Shown
  <1> DEFINE pay == Paying(h, rank)
  <1>2. Booked(h) /\ h.button \in Everybody
    BY HandBooked
  <1>3. /\ \A q \in Everybody : pay[q] \in Nat
        /\ Holdem!DeadPots(h) \in Nat
        /\ Holdem!Total(pay) + Holdem!DeadPots(h) = Holdem!TotalPot(h)
    BY <1>1, <1>2, PayingIs, PayingAll
  <1>4. \A q \in Unfolded(h) : Due(h, q) <= Holdem!Total(pay)
    BY <1>1, <1>2, PayingDue DEF Unfolded
  <1> HIDE DEF pay
  <1>5. Holdem!Total(pay) \in Nat
    BY <1>3, TotalType
  <1>6. /\ Holdem!Total(h.chips) \in Nat /\ Holdem!TotalPot(h) \in Nat
        /\ Holdem!Total(g.chips) \in Nat /\ Holdem!TotalPot(g) \in Nat
        /\ Holdem!Total(h.chips) + Holdem!TotalPot(h)
           = Holdem!Total(g.chips) + Holdem!TotalPot(g)
    BY PutTotals
  <1>7. \A q \in Everybody : o.chips[q] = h.chips[q] + pay[q] /\ h.chips[q] \in Nat
    BY <1>1 DEF pay, Holdem!GameType
  <1>8. Holdem!Total(o.chips) = Holdem!Total(h.chips) + Holdem!Total(pay)
    <2>1. ASSUME NEW q \in Everybody
          PROVE  h.chips[q] \in Int /\ pay[q] \in Int /\ o.chips[q] = h.chips[q] + pay[q]
      <3>1. h.chips[q] \in Nat /\ pay[q] \in Nat
        BY <1>3, <1>7
      <3>2. h.chips[q] \in Int /\ pay[q] \in Int
        BY <3>1
      <3> QED BY <1>7, <3>2
    <2> QED BY <2>1, TotalPlus
  <1>9. Holdem!DeadPots(o) = Holdem!DeadPots(h) /\ Holdem!TotalPot(o) = Holdem!TotalPot(h)
    BY DeadPotsSame
  <1>10. Settled(g, o)
    <2>1. o.phase = "showdown"
      BY DEF Shown
    <2>2. Holdem!Total(o.chips) = (Holdem!Total(g.chips) + Holdem!TotalPot(g))
                                  - Holdem!DeadPots(o)
      BY <1>3, <1>5, <1>6, <1>8, <1>9
    <2> QED BY <2>1, <2>2 DEF Settled
  <1>11. ASSUME ~Gains(g, o) PROVE Conserved(g, o) /\ Dead(o)
    <2>1. p \in Everybody /\ a \in Nat /\ (a = 0 \/ p \in Unfolded(h))
          /\ \A q \in Everybody : /\ g.chips[q] \in Nat /\ g.contrib[q] \in Nat
                                  /\ h.contrib[q] \in Nat
      BY DEF Put, Holdem!GameType, Unfolded
    <2>2. ASSUME NEW q \in Everybody
          PROVE  /\ q = p => pay[q] <= a
                 /\ q # p => pay[q] = 0
      <3>1. ~(h.chips[q] + pay[q] > g.chips[q])
        BY <1>7, <1>11 DEF Gains
      <3>2. h.chips[q] = IF q = p THEN g.chips[q] - a ELSE g.chips[q]
        <4>1. h.chips = [g.chips EXCEPT ![p] = @ - a]
          BY DEF Put
        <4>2. g.chips \in [Everybody -> Nat]
          BY DEF Holdem!GameType
        <4> QED BY <4>1, <4>2
      <3>3. pay[q] \in Nat /\ g.chips[q] \in Nat
        BY <1>3, <2>1
      <3>4. CASE q = p
        <4>1. h.chips[q] = g.chips[q] - a
          BY <3>2, <3>4
        <4> QED BY <2>1, <3>1, <3>3, <3>4, <4>1
      <3>5. CASE q # p
        <4>1. h.chips[q] = g.chips[q]
          BY <3>2, <3>5
        <4> QED BY <3>1, <3>3, <3>5, <4>1
      <3> QED BY <3>4, <3>5
    <2>3. pay[p] \in Nat /\ pay[p] <= a
      BY <1>3, <2>1, <2>2
    <2>4. Holdem!Total(pay) = pay[p]
      <3> DEFINE d == pay[p]
      <3>1. \A q \in Everybody : pay[q] = IF q \in {p} THEN d ELSE 0
        BY <2>2
      <3>2. {p} \in SUBSET Everybody /\ d \in Int
        BY <2>1, <2>3
      <3> HIDE DEF d
      <3>3. Holdem!Total(pay) = d * Cardinality({p})
        BY <3>1, <3>2, TotalCount
      <3>4. Cardinality({p}) = 1
        BY FS_Singleton
      <3>5. d * 1 = d
        BY <3>2
      <3> QED BY <3>3, <3>4, <3>5 DEF d
    <2>5. a = 0
      <3> SUFFICES ASSUME a # 0 PROVE FALSE
        OBVIOUS
      <3>1. p \in Unfolded(h) /\ Due(h, p) <= a
        <4>1. p \in Unfolded(h)
          BY <2>1
        <4>2. Due(h, p) <= pay[p] /\ Due(h, p) \in Nat
          BY <1>2, <1>4, <2>1, <2>4, <4>1, DueMore
        <4> QED BY <2>1, <2>3, <4>1, <4>2
      <3>2. h.contrib[p] = g.contrib[p] + a
        BY <2>1 DEF Put, Holdem!GameType
      <3>3. Due(h, p) \in Nat /\ Due(h, p) >= h.contrib[p]
        BY <1>2, <2>1, DueMore
      <3>4. g.contrib[p] = 0
        BY <2>1, <3>1, <3>2, <3>3
      <3>5. PICK q \in Everybody : g.contrib[q] > 0
        OBVIOUS
      <3>6. q # p
        BY <3>4, <3>5
      <3>7. h.contrib[q] > 0 /\ h.contrib[p] > 0 /\ h.contrib[p] = a
        <4>1. h.contrib[q] = g.contrib[q]
          BY <3>6 DEF Put, Holdem!GameType
        <4> QED BY <2>1, <3>2, <3>4, <3>5, <4>1
      <3>8. Due(h, p) > h.contrib[p]
        BY <1>2, <2>1, <3>6, <3>7, DueMore
      <3> QED BY <2>1, <3>1, <3>3, <3>7, <3>8
    <2>6. Holdem!Total(pay) = 0
      BY <2>3, <2>4, <2>5
    <2>7. Conserved(g, o)
      BY <1>6, <1>8, <1>9, <2>6 DEF Conserved
    <2>8. \A q \in Unfolded(h) : h.contrib[q] = 0
      <3> SUFFICES ASSUME NEW q \in Unfolded(h) PROVE h.contrib[q] = 0
        OBVIOUS
      <3>1. q \in Everybody /\ h.contrib[q] \in Nat
        BY <2>1 DEF Unfolded
      <3>2. Due(h, q) \in Nat /\ Due(h, q) >= h.contrib[q] /\ Due(h, q) <= 0
        BY <1>2, <1>4, <2>6, <3>1, DueMore
      <3> QED BY <3>1, <3>2
    <2>9. Live(h) = {}
      <3>1. Live(h) = {} \/ \E q \in Unfolded(h) : h.contrib[q] > 0
        BY DEF Shown
      <3> QED BY <2>8, <3>1
    <2>10. Dead(o)
      <3>1. Unfolded(o) = Unfolded(h) /\ o.allin = h.allin
        BY DEF Shown, Unfolded
      <3>2. \A q \in Unfolded(h) : q \in h.allin
        BY <2>9 DEF Live, Unfolded
      <3> QED BY <2>8, <3>1, <3>2 DEF Dead
    <2> QED BY <2>7, <2>10
  <1> QED BY <1>10, <1>11
-----------------------------------------------------------------------------
(* The steps of a hand.                                                    *)

\* A table, in a hand that was paid out s times.
Table(g, s, odd) ==
    /\ g \in Holdem!GameType /\ Broke(g)
    /\ ~g.over => /\ Round(g, odd)
                  /\ g.wait /\ s = 0 => Dead(g)
HoldemInv == Holdem!TypeOK /\ Table(hGame, hSettled, hSkewed)

\* What the two properties of ChipsRight say of a step.
BetsMet ==
    hGame'.board # hGame.board /\ hGame'.board # 0 /\ ~hSkewed =>
        \A p, q \in Live(hGame') : hGame'.contrib[p] = hGame'.contrib[q]
ChipsMoved ==
    hSettled = 0 => IF hSettled' = 0 THEN Conserved(hGame, hGame') ELSE Settled(hGame, hGame')

LEMMA StepTaken ==
    ASSUME HoldemAssumption, HoldemInv, ~hGame.over, hSettled = 0 => ~hGame.wait,
           NEW h \in Holdem!GameType, NEW p, NEW a, Put(hGame, h, p, a),
           NEW outcomes, \A o \in outcomes : Onward(h, o, hSkewed), Holdem!Become(outcomes)
    PROVE  HoldemInv' /\ BetsMet /\ ChipsMoved
  <1> DEFINE g == hGame
  <1>1. g \in Holdem!GameType /\ Round(g, hSkewed) /\ Mid(g, hSkewed)
        /\ hSettled \in 0..MaxSettled /\ hPaid \in [Everybody -> Nat] /\ hSkewed \in BOOLEAN
    BY DEF HoldemInv, Table, Round, Holdem!TypeOK
  <1>2. PICK o : o = hGame' /\ Onward(h, o, hSkewed)
    BY DEF Holdem!Become
  <1>3. Round(o, hSkewed) /\ o.contrib = h.contrib /\ o.folded = h.folded /\ o.hand = h.hand
        /\ (Quiet(h, o) \/ Awarded(h, o) \/ Shown(h, o))
    BY <1>2 DEF Onward
  <1>4. o \in Holdem!GameType /\ Broke(o) /\ ~o.over
    BY <1>3 DEF Round, Mid
  <1>5. \E q \in Everybody : g.contrib[q] > 0
    BY <1>1 DEF Mid
  <1>6. hSettled = 0 => g.phase # "showdown"
    BY <1>1 DEF Mid
  <1>7. hSkewed' = hSkewed
    BY DEF Holdem!Become
  <1>8. IF Gains(g, o) THEN hSettled < MaxSettled /\ hSettled' = hSettled + 1
        ELSE hSettled' = hSettled
    BY <1>2 DEF Holdem!Become, Holdem!Settles, Gains
  <1>9. hPaid' \in [Everybody -> Nat]
    <2>1. ASSUME NEW q \in Everybody
          PROVE  hPaid[q] + Holdem!Larger(0, o.chips[q] - g.chips[q]) \in Nat
      <3>1. hPaid[q] \in Nat /\ o.chips[q] \in Nat /\ g.chips[q] \in Nat
        BY <1>1, <1>4 DEF Holdem!GameType
      <3> QED BY <3>1 DEF Holdem!Larger
    <2>2. hPaid' = hPaid
          \/ hPaid' = [q \in Everybody |-> hPaid[q] + Holdem!Larger(0, o.chips[q] - g.chips[q])]
      BY <1>2 DEF Holdem!Become
    <2> QED BY <1>1, <2>1, <2>2
  <1>10. hSettled' \in 0..MaxSettled
    BY <1>1, <1>8, SMTT(30) DEF HoldemAssumption
  <1>11. Holdem!TypeOK'
    BY <1>1, <1>2, <1>4, <1>7, <1>9, <1>10 DEF Holdem!TypeOK
  <1>12. ASSUME hSettled = 0
         PROVE  /\ hSettled' = 0 => Conserved(g, o) /\ (o.wait => Dead(o))
                /\ hSettled' # 0 => Settled(g, o)
    <2>1. ~g.wait
      BY <1>12
    <2>2. Gains(g, o) <=> hSettled' # 0
      BY <1>8, <1>12
    <2>3. CASE Quiet(h, o)
      <3>1. ~Gains(g, o) /\ Conserved(g, o) /\ (o.wait => g.wait)
        BY <1>1, <1>3, <2>3, QuietChips
      <3> QED BY <2>1, <2>2, <3>1
    <2>4. CASE Awarded(h, o)
      <3>1. Gains(g, o) /\ Settled(g, o)
        BY <1>1, <1>3, <1>5, <1>6, <1>12, <2>4, AwardedChips
      <3> QED BY <2>2, <3>1
    <2>5. CASE Shown(h, o)
      <3>1. Settled(g, o) /\ (~Gains(g, o) => Conserved(g, o) /\ Dead(o))
        BY <1>1, <1>3, <1>5, <2>5, ShownChips
      <3> QED BY <2>2, <3>1
    <2> QED BY <1>3, <2>3, <2>4, <2>5
  <1>13. hSettled # 0 => hSettled' # 0
    BY <1>1, <1>8 DEF HoldemAssumption
  <1>14. Table(o, hSettled', hSkewed)
    BY <1>3, <1>4, <1>12, <1>13 DEF Table
  <1>15. HoldemInv'
    BY <1>2, <1>7, <1>11, <1>14 DEF HoldemInv
  <1>16. BetsMet
    <2>1. h.board = g.board
      BY DEF Put
    <2> QED BY <1>2, <2>1 DEF BetsMet, Onward
  <1>17. ChipsMoved
    BY <1>2, <1>12 DEF ChipsMoved
  <1> QED BY <1>15, <1>16, <1>17

\* How much goes into the pot.
LEMMA ClampIs ==
    ASSUME HoldemAssumption, NEW g \in Holdem!GameType, NEW p \in Everybody, NEW amount \in Nat
    PROVE  /\ Holdem!Clamp(g, p, amount) \in 0..amount
           /\ Holdem!ToCall(g, p) \in Nat /\ g.bets[p] + Holdem!ToCall(g, p) >= g.bet
           /\ Holdem!MinRaise(g) \in Nat \ {0} /\ g.chips[p] \in Nat /\ g.bets[p] \in Nat
           /\ g.bet \in Nat
  <1>1. g.bet \in Nat /\ g.bets[p] \in Nat /\ g.last \in Nat /\ g.chips[p] \in Nat
    BY DEF Holdem!GameType
  <1>2. /\ Holdem!ToCall(g, p) \in Nat /\ g.bets[p] + Holdem!ToCall(g, p) >= g.bet
        /\ Holdem!MinRaise(g) \in Nat \ {0}
    BY <1>1 DEF Holdem!ToCall, Holdem!MinRaise, Holdem!Larger
  <1>3. Holdem!TotalPot(g) \in Nat
    BY HandBooked, LevelsKnown
  <1>4. \A x \in Nat : Holdem!Smaller(amount, x) \in 0..amount
    BY DEF Holdem!Smaller
  <1>5. /\ Holdem!TotalPot(g) + Holdem!ToCall(g, p) * 2 \in Nat
        /\ Holdem!TotalPot(g) * 2 + Holdem!ToCall(g, p) * 2 \in Nat
    BY <1>2, <1>3
  <1>6. amount \in 0..amount
    OBVIOUS
  <1>7. Holdem!Clamp(g, p, amount) \in 0..amount
    BY <1>4, <1>5, <1>6 DEF HoldemAssumption, Holdem!Clamp
  <1> QED BY <1>1, <1>2, <1>7

\* A key pays what p has, and raises the bet only if it is more than a call.
LEMMA PayStep ==
    ASSUME HoldemAssumption, HoldemInv, NEW p \in Everybody, Holdem!Enabled(p),
           NEW a \in 0..hGame.chips[p], NEW raise \in BOOLEAN,
           raise => hGame.bets[p] + a > hGame.bet,
           Holdem!Become(Holdem!AfterAction(Holdem!Pay(hGame, p, a, raise)))
    PROVE  HoldemInv' /\ BetsMet /\ ChipsMoved
  <1> DEFINE h == Holdem!Pay(hGame, p, a, raise)
  <1>1. ~hGame.over /\ p = hGame.turn /\ p \notin hGame.folded
    BY DEF Holdem!Enabled
  <1>2. Round(hGame, hSkewed)
    BY <1>1 DEF HoldemInv, Table
  <1>3. Mid(h, hSkewed) /\ Put(hGame, h, p, a)
    BY <1>1, <1>2, PayMid
  <1>4. hSettled = 0 => ~hGame.wait
    BY <1>1, <1>2 DEF HoldemInv, Table, Round, Mid
  <1>5. h \in Holdem!GameType
    BY <1>3 DEF Mid
  <1>6. Holdem!Become(Holdem!AfterAction(h))
    OBVIOUS
  <1> HIDE DEF h
  <1>7. \A o \in Holdem!AfterAction(h) : Onward(h, o, hSkewed)
    BY <1>3, AfterActionOnward
  <1> QED BY <1>1, <1>3, <1>4, <1>5, <1>6, <1>7, StepTaken

LEMMA AllInStep ==
    ASSUME HoldemAssumption, HoldemInv, NEW p \in Everybody, Holdem!Enabled(p),
           Holdem!Become(Holdem!AllInOutcomes(p))
    PROVE  HoldemInv' /\ BetsMet /\ ChipsMoved
  <1> DEFINE a == Holdem!Clamp(hGame, p, hGame.chips[p])
             more == a - Holdem!ToCall(hGame, p)
             raise == more >= Holdem!MinRaise(hGame) /\ more > 0
  <1>1. hGame \in Holdem!GameType
    BY DEF HoldemInv, Table
  <1>2. hGame.chips[p] \in Nat
    BY <1>1 DEF Holdem!GameType
  <1>3. /\ a \in 0..hGame.chips[p] /\ Holdem!ToCall(hGame, p) \in Nat
        /\ hGame.bets[p] + Holdem!ToCall(hGame, p) >= hGame.bet
        /\ hGame.bets[p] \in Nat /\ hGame.bet \in Nat
    BY <1>1, <1>2, ClampIs
  <1>4. Holdem!Become(Holdem!AfterAction(Holdem!Pay(hGame, p, a, raise)))
    BY DEF Holdem!AllInOutcomes
  <1>5. raise \in BOOLEAN
    OBVIOUS
  <1>6. raise => a > Holdem!ToCall(hGame, p)
    <2> HIDE DEF a
    <2> QED BY <1>2, <1>3
  <1> HIDE DEF raise, a
  <1>7. raise => hGame.bets[p] + a > hGame.bet
    BY <1>2, <1>3, <1>6
  <1> QED BY <1>3, <1>4, <1>5, <1>7, PayStep

LEMMA CallStep ==
    ASSUME HoldemAssumption, HoldemInv, NEW p \in Everybody, Holdem!Call(p)
    PROVE  HoldemInv' /\ BetsMet /\ ChipsMoved
  <1> DEFINE a == Holdem!Smaller(hGame.chips[p], Holdem!ToCall(hGame, p))
  <1>1. hGame \in Holdem!GameType
    BY DEF HoldemInv, Table
  <1>2. hGame.chips[p] \in Nat /\ Holdem!ToCall(hGame, p) \in Nat
    BY <1>1, ClampIs
  <1>3. a \in 0..hGame.chips[p]
    BY <1>2 DEF Holdem!Smaller
  <1>4. Holdem!Enabled(p) /\ Holdem!Become(Holdem!AfterAction(Holdem!Pay(hGame, p, a, FALSE)))
    BY DEF Holdem!Call
  <1> HIDE DEF a
  <1> QED BY <1>3, <1>4, PayStep

LEMMA RaiseStep ==
    ASSUME HoldemAssumption, HoldemInv, NEW p \in Everybody, NEW amount \in Amounts,
           Holdem!Raise(p, amount)
    PROVE  HoldemInv' /\ BetsMet /\ ChipsMoved
  <1> DEFINE call == Holdem!ToCall(hGame, p)
             total == Holdem!Smaller(Holdem!Clamp(hGame, p, call + amount), hGame.chips[p])
  <1>1. hGame \in Holdem!GameType /\ amount \in Nat
    BY DEF HoldemInv, Table, HoldemAssumption
  <1>2. /\ hGame.chips[p] \in Nat /\ call \in Nat /\ hGame.bets[p] + call >= hGame.bet
        /\ hGame.bets[p] \in Nat /\ hGame.bet \in Nat /\ Holdem!MinRaise(hGame) \in Nat \ {0}
    BY <1>1, ClampIs
  <1>3. call + amount \in Nat
    BY <1>1, <1>2
  <1>4. Holdem!Clamp(hGame, p, call + amount) \in 0..call + amount
    <2> HIDE DEF call
    <2> QED BY <1>1, <1>3, ClampIs
  <1>5. total \in 0..hGame.chips[p]
    BY <1>2, <1>3, <1>4 DEF Holdem!Smaller
  <1>6. Holdem!Enabled(p)
    BY DEF Holdem!Raise
  <1>7. \/ Holdem!Become(Holdem!AllInOutcomes(p))
        \/ /\ ~(total < call + Holdem!MinRaise(hGame))
           /\ Holdem!Become(Holdem!AfterAction(Holdem!Pay(hGame, p, total, TRUE)))
    BY DEF Holdem!Raise
  <1> HIDE DEF total, call
  <1>8. ~(total < call + Holdem!MinRaise(hGame)) => hGame.bets[p] + total > hGame.bet
    BY <1>2, <1>5
  <1>9. CASE Holdem!Become(Holdem!AllInOutcomes(p))
    BY <1>6, <1>9, AllInStep
  <1>10. CASE /\ hGame.bets[p] + total > hGame.bet
              /\ Holdem!Become(Holdem!AfterAction(Holdem!Pay(hGame, p, total, TRUE)))
    BY <1>5, <1>6, <1>10, PayStep
  <1> QED BY <1>7, <1>8, <1>9, <1>10

LEMMA FoldStep ==
    ASSUME HoldemAssumption, HoldemInv, NEW p \in Everybody, Holdem!Fold(p)
    PROVE  HoldemInv' /\ BetsMet /\ ChipsMoved
  <1> DEFINE h == [hGame EXCEPT !.folded = @ \cup {p}]
  <1>1. ~hGame.over /\ p = hGame.turn /\ p \notin hGame.folded
    BY DEF Holdem!Fold, Holdem!Enabled
  <1>2. Round(hGame, hSkewed)
    BY <1>1 DEF HoldemInv, Table
  <1>3. hSettled = 0 => ~hGame.wait
    BY <1>1, <1>2 DEF HoldemInv, Table, Round, Mid
  <1>4. Holdem!Become(Holdem!AfterAction(h))
    BY DEF Holdem!Fold
  <1>5. h = [hGame EXCEPT !.folded = @ \cup {p}]
    OBVIOUS
  <1> HIDE DEF h
  <1>6. Mid(h, hSkewed) /\ Put(hGame, h, p, 0)
    BY <1>1, <1>2, <1>5, FoldMid
  <1>7. h \in Holdem!GameType
    BY <1>6 DEF Mid
  <1>8. \A o \in Holdem!AfterAction(h) : Onward(h, o, hSkewed)
    BY <1>6, AfterActionOnward
  <1> QED BY <1>1, <1>3, <1>4, <1>6, <1>7, <1>8, StepTaken
-----------------------------------------------------------------------------
\* on_tick while the rest of the board is shown.
LEMMA RevealStep ==
    ASSUME HoldemAssumption, HoldemInv, Holdem!Reveal
    PROVE  HoldemInv' /\ BetsMet /\ ChipsMoved
  <1> DEFINE g == hGame
  <1>1. ~g.over /\ ~g.wait /\ g.pending
    BY DEF Holdem!Reveal
  <1>2. Round(g, hSkewed) /\ Mid(g, hSkewed) /\ g \in Holdem!GameType /\ Broke(g)
    BY <1>1 DEF HoldemInv, Table, Round
  <1>3. Live(g) = {}
    BY <1>1, <1>2 DEF Round
  <1>4. PICK p \in Everybody : TRUE
    BY DEF HoldemAssumption
  <1>5. /\ g.chips = [g.chips EXCEPT ![p] = @ - 0] /\ g.contrib = [g.contrib EXCEPT ![p] = @ + 0]
        /\ 0 \in 0..g.chips[p]
    <2>1. g.chips \in [Everybody -> Nat] /\ g.contrib \in [Everybody -> Nat]
      BY <1>2 DEF Holdem!GameType
    <2> QED BY <2>1
  <1>6. CASE g.board < 5
    <2> DEFINE o == [g EXCEPT !.board = IF @ = 0 THEN 3 ELSE @ + 1]
    <2>1. Holdem!Become({o})
      BY <1>6 DEF Holdem!Reveal
    <2>2. g.board \in {0, 3, 4}
      BY <1>2, <1>6 DEF Holdem!GameType
    <2>3. o \in Holdem!GameType
      <3>1. (IF g.board = 0 THEN 3 ELSE g.board + 1) \in {0, 3, 4, 5}
        BY <2>2
      <3> QED BY <1>2, <3>1 DEF Holdem!GameType
    <2>4. /\ o.chips = g.chips /\ o.wait = g.wait /\ o.folded = g.folded /\ o.allin = g.allin
          /\ o.contrib = g.contrib /\ o.bets = g.bets /\ o.bet = g.bet /\ o.turn = g.turn
          /\ o.pending = g.pending /\ o.phase = g.phase /\ o.hand = g.hand
          /\ o.over = g.over /\ o.order = g.order
      BY <1>2 DEF Holdem!GameType
    <2> HIDE DEF o
    <2>5. Live(o) = {} /\ Unfolded(o) = Unfolded(g) /\ Live(o) = Live(g)
      BY <1>3, <2>4 DEF Live, Unfolded
    <2>6. Broke(o) /\ (Two(g) => Two(o)) /\ (Dead(o) => Dead(g))
      BY <1>2, <2>4, <2>5 DEF Broke, Two, Dead
    <2>7. (Skewed(g) => Skewed(o)) /\ (Matched(g) => Matched(o))
      BY <2>4, <2>5 DEF Skewed, Matched
    <2>8. ~(g.phase \in {"river", "showdown"})
      BY <1>2, <1>6 DEF Mid
    <2>9. Mid(o, hSkewed)
      BY <1>1, <1>2, <2>3, <2>4, <2>5, <2>6, <2>7, <2>8 DEF Mid
    <2>10. Round(o, hSkewed)
      BY <1>1, <1>2, <2>4, <2>5, <2>6, <2>9 DEF Round
    <2>11. Onward(g, o, hSkewed)
      BY <2>4, <2>5, <2>10 DEF Onward, Quiet
    <2>12. Put(g, g, p, 0)
      BY <1>4, <1>5 DEF Put
    <2>13. \A x \in {o} : Onward(g, x, hSkewed)
      BY <2>11
    <2> QED BY <1>1, <1>2, <2>1, <2>12, <2>13, StepTaken
  <1>7. CASE ~(g.board < 5)
    <2> DEFINE h == [g EXCEPT !.pending = FALSE]
    <2>1. Holdem!Become(Holdem!Showdown(h))
      BY <1>7 DEF Holdem!Reveal
    <2>2. g.board = 5
      <3>1. g.board \in {0, 3, 4, 5}
        BY <1>2 DEF Holdem!GameType
      <3> QED BY <1>7, <3>1
    <2>3. h \in Holdem!GameType
      BY <1>2 DEF Holdem!GameType
    <2>4. /\ h.chips = g.chips /\ h.wait = g.wait /\ h.contrib = g.contrib
          /\ h.phase = g.phase /\ h.hand = g.hand /\ h.board = g.board
      BY <1>2 DEF Holdem!GameType
    <2>5. h = g \/ h = [g EXCEPT !.pending = FALSE]
      OBVIOUS
    <2> HIDE DEF h
    <2>6. \A o \in Holdem!Showdown(h) : Onward(h, o, hSkewed)
      BY <1>2, <1>3, <2>2, <2>5, ShowdownOnward
    <2>7. Put(g, h, p, 0)
      BY <1>4, <1>5, <2>4 DEF Put
    <2> QED BY <1>1, <2>1, <2>3, <2>6, <2>7, StepTaken
  <1> QED BY <1>6, <1>7

LEMMA PlayStep ==
    ASSUME HoldemAssumption, HoldemInv, NEW p \in Everybody, Holdem!Plays(p)
    PROVE  HoldemInv' /\ BetsMet /\ ChipsMoved
  <1>1. CASE Holdem!Fold(p)
    BY <1>1, FoldStep
  <1>2. CASE Holdem!Call(p)
    BY <1>2, CallStep
  <1>3. CASE Holdem!AllIn(p)
    BY <1>3, AllInStep DEF Holdem!AllIn
  <1>4. CASE \E amount \in Amounts : Holdem!Raise(p, amount)
    BY <1>4, RaiseStep
  <1> QED BY <1>1, <1>2, <1>3, <1>4 DEF Holdem!Plays
-----------------------------------------------------------------------------
(* A new hand.                                                             *)

LEMMA BlindsDiffer ==
    ASSUME NEW g, g.index \in Nat, NEW n \in Nat, n >= 2
    PROVE  /\ Holdem!SmallBlind(g, n) \in 0..n - 1 /\ Holdem!BigBlind(g, n) \in 0..n - 1
           /\ Holdem!SmallBlind(g, n) # Holdem!BigBlind(g, n)
  <1>1. n \in Nat \ {0} /\ 2 \in Nat \ {0} /\ g.index \in Int /\ g.index + 1 \in Int
    OBVIOUS
  <1>2. Holdem!SmallBlind(g, n) \in 0..n - 1
    <2>1. g.index % 2 \in 0..2 - 1 /\ (g.index + 1) % n \in 0..n - 1
      BY <1>1, Remainder
    <2> QED BY <2>1 DEF Holdem!SmallBlind
  <1> DEFINE s == Holdem!SmallBlind(g, n)
  <1>3. Holdem!BigBlind(g, n) = (s + 1) % n
    BY DEF Holdem!BigBlind
  <1> HIDE DEF s
  <1>4. s \in 0..n - 1 /\ s + 1 \in Int
    BY <1>2 DEF s
  <1>5. CASE s + 1 < n
    <2>1. s + 1 = n * 0 + (s + 1) /\ s + 1 \in 0..n - 1 /\ 0 \in Int
      BY <1>4, <1>5
    <2>2. (s + 1) % n = s + 1
      <3>1. \A q \in Int, r \in 0..n - 1 : s + 1 = n * q + r => (s + 1) % n = r
        BY <1>1, <1>4, Remainder
      <3>2. s + 1 = n * 0 + (s + 1) => (s + 1) % n = s + 1
        BY <2>1, <3>1
      <3> QED BY <2>1, <3>2
    <2> QED BY <1>3, <1>4, <2>1, <2>2 DEF s
  <1>6. CASE ~(s + 1 < n)
    <2>1. s + 1 = n * 1 + 0 /\ 0 \in 0..n - 1 /\ 1 \in Int
      BY <1>4, <1>6
    <2>2. (s + 1) % n = 0
      <3>1. \A q \in Int, r \in 0..n - 1 : s + 1 = n * q + r => (s + 1) % n = r
        BY <1>1, <1>4, Remainder
      <3>2. s + 1 = n * 1 + 0 => (s + 1) % n = 0
        BY <2>1, <3>1
      <3> QED BY <2>1, <3>2
    <2> QED BY <1>3, <1>4, <1>6, <2>1, <2>2 DEF s
  <1> QED BY <1>5, <1>6

\* Those with chips, who are dealt in.
Rich(g) == {p \in Everybody : g.chips[p] > 0}
DealtIn(g) == Holdem!Keeping(Seats, {i \in DOMAIN Seats : g.chips[Seats[i]] > 0})

LEMMA DealtInIs ==
    ASSUME HoldemAssumption, NEW g, NEW s, s = DealtIn(g)
    PROVE  /\ s \in Seq(Everybody) /\ Len(s) \in Nat /\ DOMAIN s = 1..Len(s)
           /\ Holdem!SetOf(s) = Rich(g)
           /\ \A k \in 1..Len(s) : s[k] \in Rich(g)
           /\ \A j, k \in 1..Len(s) : s[j] = s[k] => j = k
  <1> DEFINE kept == {i \in DOMAIN Seats : g.chips[Seats[i]] > 0}
  <1>1. kept \in SUBSET DOMAIN Seats /\ s = Holdem!Keeping(Seats, kept)
    BY DEF DealtIn
  <1>2. \A i \in kept : Seats[i] \in Rich(g)
    BY Seating DEF Rich
  <1>3. \A p \in Rich(g) : \E i \in kept : Seats[i] = p
    BY DEF HoldemAssumption, Rich
  <1> HIDE DEF kept
  <1>4. /\ s \in Seq(Everybody) /\ Len(s) \in Nat /\ DOMAIN s = 1..Len(s)
        /\ \A k \in 1..Len(s) : \E i \in kept : s[k] = Seats[i]
        /\ \A i \in kept : \E k \in 1..Len(s) : s[k] = Seats[i]
        /\ \A j, k \in 1..Len(s) : s[j] = s[k] => j = k
    BY <1>1, KeptSeats
  <1>5. \A k \in 1..Len(s) : s[k] \in Rich(g)
    BY <1>2, <1>4
  <1>6. \A p \in Rich(g) : \E k \in 1..Len(s) : s[k] = p
    BY <1>3, <1>4
  <1>7. Holdem!SetOf(s) = Rich(g)
    BY <1>4, <1>5, <1>6 DEF Holdem!SetOf
  <1> QED BY <1>4, <1>5, <1>7

\* A blind is taken from p.
Charged(g, p, amount, h) ==
    /\ h \in Holdem!GameType
    /\ h.chips[p] = g.chips[p] - Holdem!Smaller(g.chips[p], amount)
    /\ h.contrib[p] = g.contrib[p] + Holdem!Smaller(g.chips[p], amount)
    /\ \A q \in Everybody : q # p => h.chips[q] = g.chips[q] /\ h.contrib[q] = g.contrib[q]
    /\ \A q : q \in h.allin <=> q \in g.allin \/ (q = p /\ h.chips[p] = 0)
    /\ h.folded = g.folded /\ h.phase = g.phase /\ h.board = g.board /\ h.pending = g.pending
    /\ h.wait = g.wait /\ h.over = g.over /\ h.hand = g.hand /\ h.index = g.index
    /\ h.sbPay = g.sbPay /\ h.bbPay = g.bbPay

LEMMA ForcedIs ==
    ASSUME NEW g \in Holdem!GameType, NEW p \in Everybody, NEW amount \in Nat,
           NEW h, h = Holdem!Forced(g, p, amount)
    PROVE  Charged(g, p, amount, h)
  <1> DEFINE pay == Holdem!Smaller(g.chips[p], amount)
             chips == [g.chips EXCEPT ![p] = @ - pay]
             contrib == [g.contrib EXCEPT ![p] = @ + pay]
             allin == IF pay = g.chips[p] THEN g.allin \cup {p} ELSE g.allin
  <1>1. /\ g.chips \in [Everybody -> Nat] /\ g.contrib \in [Everybody -> Nat]
        /\ g.allin \in SUBSET Everybody
    BY DEF Holdem!GameType
  <1>2. pay \in 0..g.chips[p] /\ g.chips[p] \in Nat
    BY <1>1 DEF Holdem!Smaller
  <1>3. h = [g EXCEPT !.chips = chips, !.contrib = contrib, !.allin = allin]
    BY DEF Holdem!Forced
  <1>4. pay = Holdem!Smaller(g.chips[p], amount)
    OBVIOUS
  <1> HIDE DEF pay
  <1>5. chips \in [Everybody -> Nat] /\ contrib \in [Everybody -> Nat]
        /\ allin \in SUBSET Everybody
    BY <1>1, <1>2
  <1>6. /\ chips[p] = g.chips[p] - pay /\ contrib[p] = g.contrib[p] + pay
        /\ \A q \in Everybody : q # p => chips[q] = g.chips[q] /\ contrib[q] = g.contrib[q]
    BY <1>1
  <1>7. pay = g.chips[p] <=> chips[p] = 0
    BY <1>2, <1>6
  <1>8. \A q : q \in allin <=> q \in g.allin \/ (q = p /\ chips[p] = 0)
    BY <1>7
  <1> HIDE DEF chips, contrib, allin
  <1>9. h \in Holdem!GameType
    BY <1>3, <1>5, ZenonT(60) DEF Holdem!GameType
  <1>10. /\ h.chips = chips /\ h.contrib = contrib /\ h.allin = allin
         /\ h.folded = g.folded /\ h.phase = g.phase /\ h.board = g.board
         /\ h.pending = g.pending /\ h.wait = g.wait /\ h.over = g.over /\ h.hand = g.hand
         /\ h.index = g.index /\ h.sbPay = g.sbPay /\ h.bbPay = g.bbPay
    BY <1>3 DEF Holdem!GameType
  <1> QED BY <1>4, <1>6, <1>8, <1>9, <1>10 DEF Charged
-----------------------------------------------------------------------------
\* Everything of the last hand is cleared, and those dealt in are reset.
Cleared(g) ==
    [g EXCEPT !.hand = @ + 1, !.phase = "preflop", !.contrib = Holdem!Zero, !.board = 0,
              !.pending = FALSE, !.wait = FALSE]
Reset(g, s) ==
    [Cleared(g) EXCEPT !.index = Holdem!NextButton(g, s),
                       !.button = s[Holdem!NextButton(g, s) + 1],
                       !.folded = @ \ Holdem!SetOf(s), !.allin = @ \ Holdem!SetOf(s)]

LEMMA StartHandIs ==
    ASSUME NEW g, NEW s, s = DealtIn(g), NEW o \in Holdem!StartHand(g)
    PROVE  \/ Len(s) <= 1 /\ o = [Cleared(g) EXCEPT !.over = TRUE]
           \/ /\ ~(Len(s) <= 1)
              /\ o \in Holdem!BettingRound(
                          Holdem!PostBlinds(Holdem!PostAntes(Reset(g, s), Holdem!SetOf(s)), s),
                          TRUE)
  BY DEF Holdem!StartHand, Reset, Cleared, DealtIn

\* What a hand starts from.
Anew(g, k) ==
    /\ k \in Holdem!GameType /\ k.chips = g.chips /\ k.contrib = Holdem!Zero
    /\ k.folded = g.folded \ Rich(g) /\ k.allin = g.allin \ Rich(g)
    /\ k.phase = "preflop" /\ k.board = 0 /\ ~k.pending /\ ~k.wait /\ k.over = g.over
    /\ k.hand = g.hand + 1

LEMMA ClearedIs ==
    ASSUME HoldemAssumption, NEW g \in Holdem!GameType, g.hand < MaxHands, NEW c, c = Cleared(g)
    PROVE  /\ c \in Holdem!GameType /\ c.chips = g.chips /\ c.contrib = Holdem!Zero
           /\ c.folded = g.folded /\ c.allin = g.allin /\ c.phase = "preflop" /\ c.board = 0
           /\ ~c.pending /\ ~c.wait /\ c.over = g.over /\ c.hand = g.hand + 1
  <1>1. g.hand + 1 \in 0..MaxHands
    <2>1. g.hand \in 0..MaxHands
      BY DEF Holdem!GameType
    <2>2. MaxHands \in Nat
      BY DEF HoldemAssumption
    <2> QED BY <2>1, <2>2
  <1>2. Holdem!Zero \in [Everybody -> Nat]
    BY DEF Holdem!Zero
  <1>3. c \in Holdem!GameType
    BY <1>1, <1>2 DEF Holdem!GameType, Cleared
  <1>4. /\ c.chips = g.chips /\ c.contrib = Holdem!Zero /\ c.folded = g.folded
        /\ c.allin = g.allin /\ c.phase = "preflop" /\ c.board = 0 /\ ~c.pending /\ ~c.wait
        /\ c.over = g.over /\ c.hand = g.hand + 1
    BY DEF Cleared, Holdem!GameType
  <1> QED BY <1>3, <1>4

LEMMA ResetIs ==
    ASSUME HoldemAssumption, NEW g \in Holdem!GameType, g.hand < MaxHands,
           NEW s, s = DealtIn(g), NEW k, k = Reset(g, s), ~(Len(s) <= 1)
    PROVE  Anew(g, k)
  <1>1. /\ DOMAIN s = 1..Len(s) /\ Len(s) \in Nat /\ Holdem!SetOf(s) = Rich(g)
        /\ \A i \in 1..Len(s) : s[i] \in Rich(g)
    BY DealtInIs
  <1> DEFINE c == Cleared(g)
             i == Holdem!NextButton(g, s)
  <1>2. i \in 0..Len(s) - 1
    <2>1. \E x \in Int : i = x % Len(s)
      <3> DEFINE j == IF g.button \in Holdem!SetOf(s) THEN Holdem!Place(g.button, s) ELSE 0
      <3>1. j \in Int
        <4>1. CASE g.button \in Holdem!SetOf(s)
          <5> DEFINE m == CHOOSE m \in DOMAIN s : s[m] = g.button
          <5>1. m \in DOMAIN s
            BY <4>1 DEF Holdem!SetOf
          <5>2. j = m - 1
            BY <4>1 DEF Holdem!Place
          <5> HIDE DEF m
          <5> QED BY <1>1, <5>1, <5>2
        <4> QED BY <4>1
      <3>2. i = (j + 1) % Len(s)
        BY DEF Holdem!NextButton
      <3> HIDE DEF j
      <3>3. j + 1 \in Int
        BY <3>1
      <3> HIDE DEF i
      <3> QED BY <3>2, <3>3
    <2> HIDE DEF i
    <2>2. Len(s) \in Nat \ {0}
      BY <1>1
    <2>3. PICK x \in Int : i = x % Len(s)
      BY <2>1
    <2>4. x % Len(s) \in 0..Len(s) - 1
      BY <2>2, Remainder
    <2> QED BY <2>3, <2>4
  <1>3. k = [c EXCEPT !.index = i, !.button = s[i + 1], !.folded = @ \ Rich(g),
                      !.allin = @ \ Rich(g)]
    BY <1>1 DEF Reset
  <1> HIDE DEF i
  <1>4. i \in Nat /\ s[i + 1] \in Everybody
    <2>1. i + 1 \in 1..Len(s) /\ i \in Nat
      BY <1>1, <1>2
    <2> QED BY <1>1, <2>1 DEF Rich
  <1>5. /\ c \in Holdem!GameType /\ c.chips = g.chips /\ c.contrib = Holdem!Zero
        /\ c.folded = g.folded /\ c.allin = g.allin /\ c.phase = "preflop" /\ c.board = 0
        /\ ~c.pending /\ ~c.wait /\ c.over = g.over /\ c.hand = g.hand + 1
    BY ClearedIs
  <1> HIDE DEF c
  <1>6. c \in Holdem!GameType
    BY <1>5
  <1>7. k \in Holdem!GameType
    <2> DEFINE f == c.folded \ Rich(g)
               l == c.allin \ Rich(g)
               b == s[i + 1]
    <2>1. f \in SUBSET Everybody /\ l \in SUBSET Everybody
      BY <1>6 DEF Holdem!GameType
    <2> DEFINE d == [c EXCEPT !.index = i, !.button = b]
    <2>2. k = [c EXCEPT !.index = i, !.button = b, !.folded = f, !.allin = l]
      BY <1>3
    <2>3. b \in Everybody
      BY <1>4
    <2> HIDE DEF f, l, b
    <2>4. d \in Holdem!GameType
      BY <1>4, <1>6, <2>3 DEF Holdem!GameType
    <2>5. k = [d EXCEPT !.folded = f, !.allin = l]
      BY <1>6, <2>2 DEF Holdem!GameType
    <2> HIDE DEF d
    <2> QED BY <2>1, <2>4, <2>5, ZenonT(60) DEF Holdem!GameType
  <1>8. /\ k.chips = c.chips /\ k.contrib = c.contrib /\ k.folded = c.folded \ Rich(g)
         /\ k.allin = c.allin \ Rich(g) /\ k.phase = c.phase /\ k.board = c.board
         /\ k.pending = c.pending /\ k.wait = c.wait /\ k.over = c.over /\ k.hand = c.hand
    BY <1>3, <1>6 DEF Holdem!GameType
  <1> QED BY <1>5, <1>7, <1>8 DEF Anew

\* The antes and the blinds are in the pot.
Posted(g, m, sb, bb) ==
    /\ m \in Holdem!GameType /\ m.folded = g.folded \ Rich(g)
    /\ m.phase = "preflop" /\ m.board = 0 /\ ~m.pending /\ ~m.wait /\ m.over = g.over
    /\ m.hand = g.hand + 1
    /\ \A p \in Everybody \ Rich(g) : /\ m.chips[p] = 0 /\ m.contrib[p] = 0
                                      /\ p \in m.allin <=> p \in g.allin
    /\ \A p \in Rich(g) : /\ m.chips[p] + m.contrib[p] = g.chips[p]
                          /\ p \in m.allin <=> m.chips[p] = 0
    /\ \A p \in Rich(g) :
          m.chips[p] > 0 =>
             m.contrib[p] = Ante + (IF p = bb THEN m.bbPay ELSE IF p = sb THEN m.sbPay ELSE 0)
    /\ m.contrib[bb] > 0 /\ (m.chips[bb] > 0 => m.bbPay > 0)

\* _post_antes
Anted(g, a) ==
    /\ a \in Holdem!GameType /\ a.folded = g.folded \ Rich(g)
    /\ a.phase = "preflop" /\ a.board = 0 /\ ~a.pending /\ ~a.wait /\ a.over = g.over
    /\ a.hand = g.hand + 1
    /\ \A p \in Everybody : /\ a.chips[p] = g.chips[p] - Holdem!Smaller(g.chips[p], Ante)
                            /\ a.contrib[p] = Holdem!Smaller(g.chips[p], Ante)
    /\ \A p \in Everybody \ Rich(g) : p \in a.allin <=> p \in g.allin
    /\ \A p \in Rich(g) : p \in a.allin <=> a.chips[p] = 0

LEMMA PostAntesIs ==
    ASSUME HoldemAssumption, NEW g \in Holdem!GameType, NEW k, Anew(g, k),
           NEW a, a = Holdem!PostAntes(k, Rich(g))
    PROVE  Anted(g, a) /\ a.index = k.index
  <1>1. /\ k \in Holdem!GameType /\ k.chips = g.chips /\ k.contrib = Holdem!Zero
        /\ k.folded = g.folded \ Rich(g) /\ k.allin = g.allin \ Rich(g)
        /\ k.phase = "preflop" /\ k.board = 0 /\ ~k.pending /\ ~k.wait /\ k.over = g.over
        /\ k.hand = g.hand + 1
    BY DEF Anew
  <1> DEFINE chips == [p \in Everybody |-> k.chips[p] - Holdem!Smaller(k.chips[p], Ante)]
             contrib == [p \in Everybody |-> Holdem!Smaller(k.chips[p], Ante)]
             allin == k.allin \cup {p \in Rich(g) : k.chips[p] <= Ante}
  <1>2. a = [k EXCEPT !.chips = chips, !.contrib = contrib, !.allin = allin]
    BY DEF Holdem!PostAntes
  <1>3. ASSUME NEW p \in Everybody
        PROVE  /\ g.chips[p] \in Nat /\ Holdem!Smaller(g.chips[p], Ante) \in 0..g.chips[p]
               /\ p \in Rich(g) => (g.chips[p] <= Ante
                                    <=> g.chips[p] - Holdem!Smaller(g.chips[p], Ante) = 0)
    <2>1. g.chips[p] \in Nat /\ Ante \in Nat
      BY DEF Holdem!GameType, HoldemAssumption
    <2> QED BY <2>1 DEF Holdem!Smaller
  <1>4. chips \in [Everybody -> Nat] /\ contrib \in [Everybody -> Nat]
    BY <1>1, <1>3
  <1>5. allin \in SUBSET Everybody
    BY <1>1 DEF Holdem!GameType, Rich
  <1>6. \A p \in Everybody : /\ chips[p] = g.chips[p] - Holdem!Smaller(g.chips[p], Ante)
                             /\ contrib[p] = Holdem!Smaller(g.chips[p], Ante)
    BY <1>1
  <1>7. \A p \in Everybody \ Rich(g) : p \in allin <=> p \in g.allin
    BY <1>1
  <1>8. \A p \in Rich(g) : p \in allin <=> chips[p] = 0
    <2> SUFFICES ASSUME NEW p \in Rich(g) PROVE p \in allin <=> chips[p] = 0
      OBVIOUS
    <2>1. p \in Everybody
      BY DEF Rich
    <2>2. p \in allin <=> g.chips[p] <= Ante
      BY <1>1
    <2> QED BY <1>3, <1>6, <2>1, <2>2
  <1> HIDE DEF chips, contrib, allin
  <1>9. a \in Holdem!GameType
    <2>1. k \in Holdem!GameType
      BY <1>1
    <2> QED BY <1>2, <1>4, <1>5, <2>1, ZenonT(60) DEF Holdem!GameType
  <1>10. /\ a.chips = chips /\ a.contrib = contrib /\ a.allin = allin /\ a.folded = k.folded
         /\ a.phase = k.phase /\ a.board = k.board /\ a.pending = k.pending /\ a.wait = k.wait
         /\ a.over = k.over /\ a.hand = k.hand /\ a.index = k.index
    BY <1>1, <1>2, ZenonT(60) DEF Holdem!GameType
  <1> QED BY <1>1, <1>6, <1>7, <1>8, <1>9, <1>10 DEF Anted

\* _post_blinds
LEMMA PostBlindsIs ==
    ASSUME HoldemAssumption, NEW g \in Holdem!GameType, NEW a, Anted(g, a),
           NEW s, NEW sb \in Rich(g), NEW bb \in Rich(g), sb # bb,
           sb = s[Holdem!SmallBlind(a, Len(s)) + 1], bb = s[Holdem!BigBlind(a, Len(s)) + 1],
           NEW m, m = Holdem!PostBlinds(a, s)
    PROVE  Posted(g, m, sb, bb) /\ m.index = a.index
  <1>1. /\ a \in Holdem!GameType /\ a.folded = g.folded \ Rich(g)
        /\ a.phase = "preflop" /\ a.board = 0 /\ ~a.pending /\ ~a.wait /\ a.over = g.over
        /\ a.hand = g.hand + 1
    BY DEF Anted
  <1> DEFINE sbPay == Holdem!Smaller(a.chips[sb], Small)
             bbPay == Holdem!Smaller(a.chips[bb], Big)
             h == [a EXCEPT !.sbPay = sbPay, !.bbPay = bbPay]
             x == Holdem!Forced(h, sb, Small)
  <1>2. m = Holdem!Forced(x, bb, Big)
    BY DEF Holdem!PostBlinds
  <1>3. sb \in Everybody /\ bb \in Everybody /\ Small \in Nat /\ Big \in Nat \ {0} /\ Ante \in Nat
    BY DEF Rich, HoldemAssumption
  <1>4. sbPay \in Nat /\ bbPay \in Nat
    <2>1. a.chips[sb] \in Nat /\ a.chips[bb] \in Nat
      BY <1>1, <1>3 DEF Holdem!GameType
    <2> QED BY <1>3, <2>1 DEF Holdem!Smaller
  <1>5. sbPay = Holdem!Smaller(a.chips[sb], Small) /\ bbPay = Holdem!Smaller(a.chips[bb], Big)
    OBVIOUS
  <1> HIDE DEF sbPay, bbPay
  <1>6. h \in Holdem!GameType
    BY <1>1, <1>4, ZenonT(60) DEF Holdem!GameType
  <1>7. /\ h.chips = a.chips /\ h.contrib = a.contrib /\ h.allin = a.allin /\ h.folded = a.folded
        /\ h.phase = a.phase /\ h.board = a.board /\ h.pending = a.pending /\ h.wait = a.wait
        /\ h.over = a.over /\ h.hand = a.hand /\ h.index = a.index /\ h.sbPay = sbPay
        /\ h.bbPay = bbPay
    BY <1>1, ZenonT(60) DEF Holdem!GameType
  <1>8. x = Holdem!Forced(h, sb, Small)
    OBVIOUS
  <1> HIDE DEF h
  <1>9. Charged(h, sb, Small, x)
    BY <1>3, <1>6, <1>8, ForcedIs
  <1> HIDE DEF x
  <1>10. Charged(x, bb, Big, m)
    <2>1. x \in Holdem!GameType /\ Big \in Nat
      BY <1>3, <1>9 DEF Charged
    <2> QED BY <1>2, <1>3, <2>1, ForcedIs
  <1>11. /\ m \in Holdem!GameType /\ m.folded = a.folded /\ m.phase = a.phase
         /\ m.board = a.board /\ m.pending = a.pending /\ m.wait = a.wait /\ m.over = a.over
         /\ m.hand = a.hand /\ m.index = a.index /\ m.sbPay = sbPay /\ m.bbPay = bbPay
    BY <1>7, <1>9, <1>10 DEF Charged
  <1>12. /\ m.chips[sb] = a.chips[sb] - sbPay /\ m.contrib[sb] = a.contrib[sb] + sbPay
         /\ m.chips[bb] = a.chips[bb] - bbPay /\ m.contrib[bb] = a.contrib[bb] + bbPay
         /\ \A p \in Everybody : p # sb /\ p # bb => /\ m.chips[p] = a.chips[p]
                                                    /\ m.contrib[p] = a.contrib[p]
    <2>1. x.chips[sb] = a.chips[sb] - sbPay /\ x.contrib[sb] = a.contrib[sb] + sbPay
      BY <1>5, <1>7, <1>9 DEF Charged
    <2>2. x.chips[bb] = a.chips[bb] /\ x.contrib[bb] = a.contrib[bb]
      BY <1>3, <1>7, <1>9 DEF Charged
    <2>3. m.chips[bb] = a.chips[bb] - bbPay /\ m.contrib[bb] = a.contrib[bb] + bbPay
      BY <1>5, <1>10, <2>2 DEF Charged
    <2>4. m.chips[sb] = a.chips[sb] - sbPay /\ m.contrib[sb] = a.contrib[sb] + sbPay
      BY <1>3, <1>10, <2>1 DEF Charged
    <2>5. ASSUME NEW p \in Everybody, p # sb, p # bb
          PROVE  m.chips[p] = a.chips[p] /\ m.contrib[p] = a.contrib[p]
      BY <1>7, <1>9, <1>10, <2>5 DEF Charged
    <2> QED BY <2>3, <2>4, <2>5
  <1>13. \A p : p \in m.allin <=> \/ p \in a.allin \/ (p = sb /\ m.chips[sb] = 0)
                                  \/ (p = bb /\ m.chips[bb] = 0)
    <2>1. \A p : p \in x.allin <=> p \in a.allin \/ (p = sb /\ x.chips[sb] = 0)
      BY <1>7, <1>9 DEF Charged
    <2>2. \A p : p \in m.allin <=> p \in x.allin \/ (p = bb /\ m.chips[bb] = 0)
      BY <1>10 DEF Charged
    <2>3. m.chips[sb] = x.chips[sb]
      BY <1>3, <1>10 DEF Charged
    <2> QED BY <2>1, <2>2, <2>3
  <1>14. ASSUME NEW p \in Everybody
         PROVE  /\ g.chips[p] \in Nat /\ a.chips[p] \in Nat /\ a.contrib[p] \in Nat
                /\ a.chips[p] + a.contrib[p] = g.chips[p]
                /\ a.chips[p] > 0 => a.contrib[p] = Ante
    <2>1. a.chips[p] = g.chips[p] - Holdem!Smaller(g.chips[p], Ante)
          /\ a.contrib[p] = Holdem!Smaller(g.chips[p], Ante)
      BY DEF Anted
    <2>2. g.chips[p] \in Nat
      BY DEF Holdem!GameType
    <2> QED BY <1>3, <2>1, <2>2 DEF Holdem!Smaller
  <1>15. sbPay \in 0..a.chips[sb] /\ bbPay \in 0..a.chips[bb] /\ (a.chips[bb] > 0 => bbPay > 0)
    <2>1. a.chips[sb] \in Nat /\ a.chips[bb] \in Nat
      BY <1>3, <1>14
    <2> QED BY <1>3, <1>5, <2>1 DEF Holdem!Smaller
  <1>16. ASSUME NEW p \in Everybody \ Rich(g)
         PROVE  m.chips[p] = 0 /\ m.contrib[p] = 0 /\ (p \in m.allin <=> p \in g.allin)
    <2>1. p \in Everybody /\ p # sb /\ p # bb /\ g.chips[p] = 0
      BY <1>14 DEF Rich
    <2>2. m.chips[p] = a.chips[p] /\ m.contrib[p] = a.contrib[p]
      BY <1>12, <2>1
    <2>3. a.chips[p] = 0 /\ a.contrib[p] = 0
      <3>1. a.chips[p] \in Nat /\ a.contrib[p] \in Nat
        BY <1>14, <2>1
      <3>2. a.chips[p] + a.contrib[p] = g.chips[p]
        BY <1>14, <2>1
      <3> QED BY <2>1, <3>1, <3>2
    <2>4. p \in a.allin <=> p \in g.allin
      BY DEF Anted
    <2> QED BY <1>13, <2>1, <2>2, <2>3, <2>4
  <1>17. ASSUME NEW p \in Rich(g)
         PROVE  m.chips[p] + m.contrib[p] = g.chips[p] /\ (p \in m.allin <=> m.chips[p] = 0)
    <2>1. p \in Everybody
      BY DEF Rich
    <2>2. p \in a.allin <=> a.chips[p] = 0
      BY DEF Anted
    <2>3. a.chips[p] \in Nat /\ a.contrib[p] \in Nat /\ a.chips[p] + a.contrib[p] = g.chips[p]
      BY <1>14, <2>1
    <2>4. CASE p = sb
      <3>1. /\ a.chips[sb] \in Nat /\ a.contrib[sb] \in Nat
            /\ a.chips[sb] + a.contrib[sb] = g.chips[sb]
        BY <2>3, <2>4
      <3>2. m.chips[sb] = a.chips[sb] - sbPay /\ m.contrib[sb] = a.contrib[sb] + sbPay
        BY <1>12
      <3>3. m.chips[sb] + m.contrib[sb] = g.chips[sb]
        BY <1>4, <3>1, <3>2
      <3>4. ASSUME a.chips[sb] = 0 PROVE m.chips[sb] = 0
        <4>1. sbPay \in 0..a.chips[sb]
          BY <1>15
        <4>2. sbPay \in 0..0
          BY <3>4, <4>1
        <4>3. sbPay = 0
          BY <4>2
        <4> QED BY <3>2, <3>4, <4>3
      <3> QED BY <1>13, <2>2, <2>4, <3>3, <3>4
    <2>5. CASE p = bb
      <3>1. /\ a.chips[bb] \in Nat /\ a.contrib[bb] \in Nat
            /\ a.chips[bb] + a.contrib[bb] = g.chips[bb]
        BY <2>3, <2>5
      <3>2. m.chips[bb] = a.chips[bb] - bbPay /\ m.contrib[bb] = a.contrib[bb] + bbPay
        BY <1>12
      <3>3. m.chips[bb] + m.contrib[bb] = g.chips[bb]
        BY <1>4, <3>1, <3>2
      <3>4. ASSUME a.chips[bb] = 0 PROVE m.chips[bb] = 0
        <4>1. bbPay \in 0..a.chips[bb]
          BY <1>15
        <4>2. bbPay \in 0..0
          BY <3>4, <4>1
        <4>3. bbPay = 0
          BY <4>2
        <4> QED BY <3>2, <3>4, <4>3
      <3> QED BY <1>13, <2>2, <2>5, <3>3, <3>4
    <2>6. CASE p # sb /\ p # bb
      BY <1>12, <1>13, <2>1, <2>2, <2>3, <2>6
    <2> QED BY <2>4, <2>5, <2>6
  <1>18. ASSUME NEW p \in Rich(g), m.chips[p] > 0
         PROVE  m.contrib[p] = Ante + (IF p = bb THEN m.bbPay ELSE IF p = sb THEN m.sbPay ELSE 0)
    <2>1. p \in Everybody
      BY DEF Rich
    <2>2. CASE p = bb
      <3>1. a.chips[p] > 0 /\ m.contrib[p] = a.contrib[p] + bbPay
        BY <1>4, <1>12, <1>14, <1>18, <2>1, <2>2
      <3>2. m.contrib[p] = Ante + m.bbPay
        BY <1>11, <1>14, <2>1, <3>1
      <3> QED BY <2>2, <3>2
    <2>3. CASE p = sb
      <3>1. a.chips[p] > 0 /\ m.contrib[p] = a.contrib[p] + sbPay
        BY <1>4, <1>12, <1>14, <1>18, <2>1, <2>3
      <3>2. m.contrib[p] = Ante + m.sbPay
        BY <1>11, <1>14, <2>1, <3>1
      <3> QED BY <2>3, <3>2
    <2>4. CASE p # bb /\ p # sb
      <3>1. m.contrib[p] = Ante
        BY <1>12, <1>14, <1>18, <2>1, <2>4
      <3>2. m.contrib[p] = Ante + 0
        BY <1>3, <3>1
      <3> QED BY <2>4, <3>2
    <2> QED BY <2>2, <2>3, <2>4
  <1>19. m.contrib[bb] > 0 /\ (m.chips[bb] > 0 => m.bbPay > 0)
    <2>1. g.chips[bb] > 0
      BY DEF Rich
    <2>2. a.chips[bb] \in Nat /\ a.contrib[bb] \in Nat /\ a.chips[bb] + a.contrib[bb] = g.chips[bb]
      BY <1>3, <1>14
    <2> QED BY <1>4, <1>11, <1>12, <1>15, <2>1, <2>2
  <1>20. Posted(g, m, sb, bb)
    BY <1>1, <1>11, <1>16, <1>17, <1>18, <1>19 DEF Posted
  <1> QED BY <1>11, <1>20
-----------------------------------------------------------------------------
\* What a hand is when the blinds are in and the first round has not begun.
LEMMA PostedRound ==
    ASSUME HoldemAssumption, NEW g \in Holdem!GameType, Broke(g), NEW m, NEW sb \in Rich(g),
           NEW bb \in Rich(g), sb # bb, Posted(g, m, sb, bb)
    PROVE  /\ Broke(m) /\ Two(m) /\ ~Dead(m) /\ Live(m) \subseteq Rich(g)
           /\ \A p \in m.allin : m.chips[p] = 0
           /\ \A p \in Rich(g) : /\ p \in Unfolded(m) /\ m.chips[p] \in Nat
                                 /\ m.chips[p] = 0 => m.contrib[p] > 0
           /\ \A p \in Everybody : m.contrib[p] > 0 /\ m.chips[p] = 0
                                   => p \in Unfolded(m) /\ p \in m.allin
  <1>1. /\ m \in Holdem!GameType /\ m.folded = g.folded \ Rich(g)
        /\ \A p \in Everybody \ Rich(g) : /\ m.chips[p] = 0 /\ m.contrib[p] = 0
                                          /\ p \in m.allin <=> p \in g.allin
        /\ \A p \in Rich(g) : p \in m.allin <=> m.chips[p] = 0
        /\ m.contrib[bb] > 0
    BY DEF Posted
  <1>2. \A p \in Rich(g) : p \in Everybody /\ p \in Unfolded(m)
    BY <1>1 DEF Rich, Unfolded
  <1>3. \A p \in Everybody \ Rich(g) : p \in m.folded \/ p \in m.allin
    <2> SUFFICES ASSUME NEW p \in Everybody \ Rich(g) PROVE p \in m.folded \/ p \in m.allin
      OBVIOUS
    <2>1. g.chips[p] = 0
      <3>1. g.chips[p] \in Nat
        BY DEF Holdem!GameType
      <3>2. ~(g.chips[p] > 0)
        BY DEF Rich
      <3> QED BY <3>1, <3>2
    <2> QED BY <1>1, <2>1 DEF Broke, Unfolded
  <1>4. Broke(m)
    BY <1>1, <1>3 DEF Broke, Unfolded
  <1>5. Two(m)
    BY <1>2 DEF Two
  <1>6. ~Dead(m)
    BY <1>1, <1>2 DEF Dead
  <1>7. Live(m) \subseteq Rich(g)
    BY <1>3 DEF Live
  <1>8. \A p \in m.allin : m.chips[p] = 0
    <2>1. m.allin \subseteq Everybody
      BY <1>1 DEF Holdem!GameType
    <2> QED BY <1>1, <2>1
  <1>9. ASSUME NEW p \in Rich(g) PROVE m.chips[p] \in Nat /\ (m.chips[p] = 0 => m.contrib[p] > 0)
    <2>1. m.chips[p] \in Nat /\ m.contrib[p] \in Nat /\ g.chips[p] > 0
      BY <1>1, <1>2 DEF Holdem!GameType, Rich
    <2>2. m.chips[p] + m.contrib[p] = g.chips[p]
      BY DEF Posted
    <2> QED BY <2>1, <2>2
  <1>10. ASSUME NEW p \in Everybody, m.contrib[p] > 0, m.chips[p] = 0
         PROVE  p \in Unfolded(m) /\ p \in m.allin
    <2>1. p \in Rich(g)
      BY <1>1, <1>10
    <2> QED BY <1>1, <1>2, <1>10, <2>1
  <1> QED BY <1>2, <1>4, <1>5, <1>6, <1>7, <1>8, <1>9, <1>10

\* Before the flop, when no blind or ante took a last chip, each has put in the ante and
\* what he is credited.
LEMMA BlindsMatched ==
    ASSUME HoldemAssumption, NEW g \in Holdem!GameType, Broke(g), NEW m, NEW s, s = DealtIn(g),
           NEW sb \in Rich(g), NEW bb \in Rich(g), sb # bb, Posted(g, m, sb, bb),
           sb = s[Holdem!SmallBlind(m, Len(s)) + 1], bb = s[Holdem!BigBlind(m, Len(s)) + 1],
           ~Holdem!ShortHanded(m)
    PROVE  /\ Ante \in Nat /\ Ante + OpenBet(m, TRUE) > 0
           /\ \A p \in Live(m) : m.contrib[p] = Ante + Blinds(m, TRUE)[p]
  <1>1. /\ m \in Holdem!GameType /\ m.folded = g.folded \ Rich(g)
        /\ \A p \in Everybody \ Rich(g) : m.chips[p] = 0
        /\ m.chips[bb] > 0 => m.bbPay > 0
    BY DEF Posted
  <1>2. ASSUME NEW p \in Rich(g) PROVE m.chips[p] > 0 /\ p \in Everybody /\ p \notin m.folded
    <2>1. p \in Everybody /\ m.chips[p] \in Nat /\ (m.chips[p] = 0 => m.contrib[p] > 0)
      <3>1. \A q \in Rich(g) : m.chips[q] \in Nat /\ (m.chips[q] = 0 => m.contrib[q] > 0)
        BY PostedRound
      <3> QED BY <3>1 DEF Rich
    <2>2. m.chips[p] # 0
      BY <2>1 DEF Holdem!ShortHanded
    <2> QED BY <1>1, <2>1, <2>2
  <1>3. Able(m) = {i \in DOMAIN Seats : g.chips[Seats[i]] > 0}
    <2>1. ASSUME NEW i \in DOMAIN Seats
          PROVE  m.chips[Seats[i]] > 0 /\ Seats[i] \notin m.folded <=> g.chips[Seats[i]] > 0
      <3>1. Seats[i] \in Everybody
        BY Seating
      <3>2. CASE Seats[i] \in Rich(g)
        BY <1>2, <3>2 DEF Rich
      <3>3. CASE Seats[i] \notin Rich(g)
        <4>1. ~(g.chips[Seats[i]] > 0)
          BY <3>1, <3>3 DEF Rich
        <4>2. m.chips[Seats[i]] = 0
          BY <1>1, <3>1, <3>3
        <4> QED BY <4>1, <4>2
      <3> QED BY <3>2, <3>3
    <2> QED BY <2>1 DEF Able
  <1>4. Order(m) = s
    BY <1>3 DEF Order, DealtIn
  <1>5. Blinds(m, TRUE)
        = [p \in Everybody |-> IF p = bb THEN m.bbPay ELSE IF p = sb THEN m.sbPay ELSE 0]
    BY <1>4 DEF Blinds
  <1>6. Ante \in Nat /\ m.bbPay \in Nat /\ m.bbPay > 0 /\ OpenBet(m, TRUE) = m.bbPay
    BY <1>1, <1>2 DEF HoldemAssumption, Holdem!GameType, OpenBet
  <1>7. ASSUME NEW p \in Live(m) PROVE m.contrib[p] = Ante + Blinds(m, TRUE)[p]
    <2>1. p \in Rich(g)
      BY PostedRound
    <2>2. m.contrib[p] = Ante + (IF p = bb THEN m.bbPay ELSE IF p = sb THEN m.sbPay ELSE 0)
      BY <1>2, <2>1 DEF Posted
    <2>3. Blinds(m, TRUE)[p] = IF p = bb THEN m.bbPay ELSE IF p = sb THEN m.sbPay ELSE 0
      BY <1>2, <1>5, <2>1
    <2> QED BY <2>2, <2>3
  <1>8. Ante + OpenBet(m, TRUE) > 0
    <2>1. \A x, y \in Nat : y > 0 => x + y > 0
      OBVIOUS
    <2>2. Ante + m.bbPay > 0
      BY <1>6, <2>1
    <2>3. OpenBet(m, TRUE) = m.bbPay
      BY <1>6
    <2> QED BY <2>2, <2>3
  <1> QED BY <1>6, <1>7, <1>8
-----------------------------------------------------------------------------
\* All are all in by the antes and blinds: the board is shown at once.
LEMMA AllInAtOnce ==
    ASSUME HoldemAssumption, NEW g \in Holdem!GameType, Broke(g), ~g.over, NEW m,
           NEW sb \in Rich(g), NEW bb \in Rich(g), sb # bb, Posted(g, m, sb, bb), Live(m) = {},
           NEW o \in Holdem!BettingRound(m, TRUE)
    PROVE  /\ Round(o, Holdem!ShortHanded(o)) /\ ~o.wait
           /\ o.board = 0 /\ o.hand = g.hand + 1
  <1>1. /\ m \in Holdem!GameType /\ m.phase = "preflop" /\ m.board = 0 /\ ~m.pending /\ ~m.wait
        /\ ~m.over /\ m.hand = g.hand + 1 /\ m.contrib[bb] > 0
    BY DEF Posted
  <1>2. /\ Broke(m) /\ Two(m) /\ ~Dead(m) /\ \A p \in m.allin : m.chips[p] = 0
        /\ \A p \in Rich(g) : /\ p \in Unfolded(m) /\ p \in Everybody
                              /\ m.chips[p] = 0 => m.contrib[p] > 0
    BY PostedRound DEF Rich
  <1>3. \A p \in Rich(g) : p \in m.allin /\ m.chips[p] = 0 /\ m.contrib[p] > 0
    BY <1>2 DEF Live, Unfolded
  <1>4. Len(Order(m)) = 0
    <2>1. /\ Len(Order(m)) \in Nat
          /\ \A k \in 1..Len(Order(m)) : /\ Order(m)[k] \in Unfolded(m)
                                         /\ m.chips[Order(m)[k]] > 0
      BY <1>1, <1>2, OrderIs
    <2>2. ASSUME Len(Order(m)) # 0 PROVE FALSE
      <3>1. 1 \in 1..Len(Order(m))
        BY <2>1, <2>2
      <3>2. Order(m)[1] \in Unfolded(m) /\ m.chips[Order(m)[1]] > 0
        BY <2>1, <3>1
      <3>3. Order(m)[1] \in m.allin
        BY <3>2, SMTT(30) DEF Live, Unfolded
      <3> QED BY <1>2, <3>2, <3>3
    <2> QED BY <2>2
  <1> DEFINE fresh == [m EXCEPT !.order = Order(m), !.bets = Holdem!Zero, !.bet = 0, !.last = 0,
                                !.raises = 0, !.acted = {}]
  <1>5. o \in Holdem!StartAllIn(fresh)
    BY <1>4, ZenonT(60) DEF Holdem!BettingRound, Order, Able
  <1>6. fresh \in Holdem!GameType
    <2>1. Order(m) \in Seq(Everybody)
      BY <1>1, <1>2, OrderIs
    <2>2. Holdem!Zero \in [Everybody -> Nat]
      BY DEF Holdem!Zero
    <2>3. m \in Holdem!GameType /\ 0 \in Nat /\ {} \in SUBSET Everybody
      BY <1>1
    <2> QED BY <2>1, <2>2, <2>3 DEF Holdem!GameType
  <1>7. /\ fresh.chips = m.chips /\ fresh.contrib = m.contrib /\ fresh.folded = m.folded
        /\ fresh.allin = m.allin /\ fresh.phase = m.phase /\ fresh.board = m.board
        /\ fresh.pending = m.pending /\ fresh.wait = m.wait /\ fresh.over = m.over
        /\ fresh.hand = m.hand
    BY <1>1 DEF Holdem!GameType
  <1> HIDE DEF fresh
  <1>8. o = [fresh EXCEPT !.pending = TRUE]
    BY <1>1, <1>5, <1>7 DEF Holdem!StartAllIn
  <1>9. o \in Holdem!GameType
    BY <1>6, <1>8 DEF Holdem!GameType
  <1>10. /\ o.chips = m.chips /\ o.contrib = m.contrib /\ o.folded = m.folded
         /\ o.allin = m.allin /\ o.phase = "preflop" /\ o.board = 0 /\ o.pending
         /\ ~o.wait /\ ~o.over /\ o.hand = g.hand + 1
    BY <1>1, <1>6, <1>7, <1>8 DEF Holdem!GameType
  <1>11. Live(o) = {} /\ Unfolded(o) = Unfolded(m)
    BY <1>10 DEF Live, Unfolded
  <1>12. Broke(o) /\ Two(o) /\ ~Dead(o)
    BY <1>2, <1>10, <1>11 DEF Broke, Two, Dead
  <1>13. Holdem!ShortHanded(o)
    BY <1>2, <1>3, <1>10 DEF Holdem!ShortHanded
  <1>14. Skewed(o)
    <2>1. \A p \in Rich(g) : p \in Unfolded(o) /\ p \in o.allin /\ o.contrib[p] > 0
      BY <1>2, <1>3, <1>10, <1>11
    <2> QED BY <2>1 DEF Skewed
  <1>15. \E p \in Everybody : o.contrib[p] > 0
    BY <1>1, <1>2, <1>10
  <1>16. (\A p \in o.allin : o.chips[p] = 0) /\ Unfolded(o) # {}
    BY <1>2, <1>10, <1>11
  <1>17. Mid(o, Holdem!ShortHanded(o))
    BY <1>9, <1>10, <1>11, <1>12, <1>13, <1>14, <1>15, <1>16 DEF Mid
  <1> QED BY <1>10, <1>11, <1>12, <1>17 DEF Round

\* The first round begins.
LEMMA FirstRound ==
    ASSUME HoldemAssumption, NEW g \in Holdem!GameType, Broke(g), ~g.over, NEW m,
           NEW s, s = DealtIn(g),
           NEW sb \in Rich(g), NEW bb \in Rich(g), sb # bb, Posted(g, m, sb, bb),
           sb = s[Holdem!SmallBlind(m, Len(s)) + 1], bb = s[Holdem!BigBlind(m, Len(s)) + 1],
           Live(m) # {}, NEW o \in Holdem!BettingRound(m, TRUE)
    PROVE  /\ Round(o, Holdem!ShortHanded(o)) /\ ~o.wait
           /\ o.board = 0 /\ o.hand = g.hand + 1
  <1>1. /\ m \in Holdem!GameType /\ m.phase = "preflop" /\ m.board = 0 /\ ~m.pending /\ ~m.wait
        /\ ~m.over /\ m.hand = g.hand + 1 /\ m.contrib[bb] > 0
    BY DEF Posted
  <1>2. /\ Broke(m) /\ Two(m) /\ ~Dead(m) /\ \A p \in m.allin : m.chips[p] = 0
        /\ \A p \in Rich(g) : p \in Unfolded(m) /\ p \in Everybody
        /\ \A p \in Everybody : m.contrib[p] > 0 /\ m.chips[p] = 0
                                => p \in Unfolded(m) /\ p \in m.allin
    BY PostedRound DEF Rich
  <1>3. PICK t \in Live(m) : o = Started(m, TRUE, t)
    BY <1>1, <1>2, BettingRoundIs
  <1>4. t \in Everybody /\ t \notin m.folded /\ t \notin m.allin
    BY <1>3 DEF Live
  <1>5. Begun(m, TRUE, t, o)
    BY <1>1, <1>2, <1>3, <1>4, StartedIs
  <1>6. /\ o \in Holdem!GameType
        /\ o.chips = m.chips /\ ~o.wait /\ o.folded = m.folded /\ o.allin = m.allin
        /\ o.contrib = m.contrib /\ o.board = 0 /\ ~o.pending /\ o.phase = "preflop"
        /\ o.hand = g.hand + 1 /\ ~o.over
        /\ o.order = Order(m) /\ o.bets = Blinds(m, TRUE) /\ o.bet = OpenBet(m, TRUE)
        /\ o.turn = t
        /\ Live(o) = Live(m) /\ Unfolded(o) = Unfolded(m) /\ Broke(o) /\ (Two(o) <=> Two(m))
    BY <1>1, <1>5 DEF Begun
  <1>7. Live(o) \subseteq Holdem!SetOf(o.order)
    BY <1>1, <1>2, <1>6, OrderIs
  <1>8. ~Dead(o)
    BY <1>2, <1>6 DEF Dead
  <1>9. ASSUME Holdem!ShortHanded(o) PROVE Skewed(o)
    <2>1. PICK p \in Everybody : o.contrib[p] > 0 /\ o.chips[p] = 0
      BY <1>9 DEF Holdem!ShortHanded
    <2>2. p \in Unfolded(m) /\ p \in m.allin
      BY <1>2, <1>6, <2>1
    <2> QED BY <1>4, <1>6, <2>1, <2>2 DEF Skewed
  <1>10. ASSUME ~Holdem!ShortHanded(o) PROVE Matched(o)
    <2>1. ~Holdem!ShortHanded(m)
      BY <1>6, <1>10 DEF Holdem!ShortHanded
    <2>2. /\ Ante \in Nat /\ Ante + OpenBet(m, TRUE) > 0
          /\ \A p \in Live(m) : m.contrib[p] = Ante + Blinds(m, TRUE)[p]
      BY <2>1, BlindsMatched
    <2> QED BY <1>6, <2>2 DEF Matched
  <1>11. \E p \in Everybody : o.contrib[p] > 0
    BY <1>1, <1>2, <1>6
  <1>12. (\A p \in o.allin : o.chips[p] = 0) /\ Unfolded(o) # {}
    BY <1>2, <1>6
  <1>13. o.board = BoardOf(o.phase)
    BY <1>6 DEF BoardOf
  <1>14. Mid(o, Holdem!ShortHanded(o))
    BY <1>6, <1>7, <1>8, <1>9, <1>10, <1>11, <1>12, <1>13 DEF Mid
  <1> QED BY <1>2, <1>3, <1>6, <1>14 DEF Round

\* _start_new_hand
LEMMA NewHand ==
    ASSUME HoldemAssumption, NEW g \in Holdem!GameType, Broke(g), ~g.over, g.hand < MaxHands,
           NEW o \in Holdem!StartHand(g)
    PROVE  /\ Table(o, 0, Holdem!ShortHanded(o))
           /\ o.board = 0 /\ o.hand = g.hand + 1
  <1> DEFINE s == DealtIn(g)
             n == Len(s)
             k == Reset(g, s)
             a == Holdem!PostAntes(k, Rich(g))
             m == Holdem!PostBlinds(a, s)
             sb == s[Holdem!SmallBlind(a, n) + 1]
             bb == s[Holdem!BigBlind(a, n) + 1]
  <1>1. /\ n \in Nat /\ Holdem!SetOf(s) = Rich(g)
        /\ \A i \in 1..n : s[i] \in Rich(g)
        /\ \A i, j \in 1..n : s[i] = s[j] => i = j
    BY DealtInIs
  <1>2. \/ n <= 1 /\ o = [Cleared(g) EXCEPT !.over = TRUE]
        \/ ~(n <= 1) /\ o \in Holdem!BettingRound(m, TRUE)
    BY <1>1, StartHandIs
  <1>3. CASE n <= 1 /\ o = [Cleared(g) EXCEPT !.over = TRUE]
    <2> DEFINE c == Cleared(g)
    <2>1. /\ c \in Holdem!GameType /\ c.chips = g.chips /\ c.folded = g.folded
          /\ c.allin = g.allin /\ c.board = 0 /\ c.hand = g.hand + 1
      BY ClearedIs
    <2>2. o = [c EXCEPT !.over = TRUE]
      BY <1>3
    <2> HIDE DEF c
    <2>3. o \in Holdem!GameType
      BY <2>1, <2>2, ZenonT(60) DEF Holdem!GameType
    <2>4. /\ o.chips = c.chips /\ o.folded = c.folded /\ o.allin = c.allin /\ o.over
          /\ o.board = c.board /\ o.hand = c.hand
      BY <2>1, <2>2 DEF Holdem!GameType
    <2>5. Broke(o)
      BY <2>1, <2>4 DEF Broke, Unfolded
    <2> QED BY <2>1, <2>3, <2>4, <2>5 DEF Table
  <1>4. CASE ~(n <= 1) /\ o \in Holdem!BettingRound(m, TRUE)
    <2>1. Anew(g, k)
      BY <1>4, ResetIs
    <2>2. Anted(g, a) /\ a.index = k.index
      BY <2>1, PostAntesIs
    <2> HIDE DEF k, a
    <2>3. a.index \in Nat /\ n >= 2
      <3>1. a.index \in Nat
        BY <2>2 DEF Anted, Holdem!GameType
      <3> HIDE DEF n
      <3>2. n >= 2
        BY <1>1, <1>4
      <3> QED BY <3>1, <3>2
    <2>4. sb \in Rich(g) /\ bb \in Rich(g) /\ sb # bb
      <3> HIDE DEF n, s
      <3> DEFINE i == Holdem!SmallBlind(a, n)
                 j == Holdem!BigBlind(a, n)
      <3>1. i \in 0..n - 1 /\ j \in 0..n - 1 /\ i # j
        BY <1>1, <2>3, BlindsDiffer
      <3>2. sb = s[i + 1] /\ bb = s[j + 1]
        OBVIOUS
      <3> HIDE DEF i, j
      <3>3. i + 1 \in 1..n /\ j + 1 \in 1..n /\ i + 1 # j + 1
        BY <1>1, <3>1
      <3> HIDE DEF sb, bb
      <3> QED BY <1>1, <3>2, <3>3
    <2>5. Posted(g, m, sb, bb) /\ m.index = a.index
      BY <2>2, <2>4, PostBlindsIs
    <2>6. /\ sb = s[Holdem!SmallBlind(m, n) + 1] /\ bb = s[Holdem!BigBlind(m, n) + 1]
      BY <2>5 DEF Holdem!SmallBlind, Holdem!BigBlind
    <2> HIDE DEF m, sb, bb, s
    <2>7. s = DealtIn(g)
      BY DEF s
    <2>8. /\ Round(o, Holdem!ShortHanded(o)) /\ ~o.wait
          /\ o.board = 0 /\ o.hand = g.hand + 1
      <3>1. CASE Live(m) = {}
        BY <1>4, <2>4, <2>5, <3>1, AllInAtOnce
      <3>2. CASE Live(m) # {}
        BY <1>4, <2>4, <2>5, <2>6, <2>7, <3>2, FirstRound
      <3> QED BY <3>1, <3>2
    <2>9. o \in Holdem!GameType /\ Broke(o)
      BY <2>8 DEF Round, Mid
    <2> QED BY <2>8, <2>9 DEF Table
  <1> QED BY <1>2, <1>3, <1>4
-----------------------------------------------------------------------------
\* on_start
LEMMA HoldemInit ==
    ASSUME HoldemAssumption, Holdem!Init
    PROVE  HoldemInv
  <1> DEFINE Option(timed) ==
          [timed |-> timed, chips |-> [p \in Everybody |-> Stack], folded |-> {}, allin |-> {},
           contrib |-> Holdem!Zero, button |-> Seats[1], index |-> 0, sbPay |-> 0, bbPay |-> 0,
           order |-> <<>>, bets |-> Holdem!Zero, bet |-> 0, last |-> 0, raises |-> 0,
           acted |-> {}, turn |-> Seats[1], phase |-> "preflop", board |-> 0, pending |-> FALSE,
           wait |-> FALSE, over |-> FALSE, hand |-> 0]
  <1>t. PICK timed \in BOOLEAN : hGame \in Holdem!StartHand(Option(timed))
    BY DEF Holdem!Init
  <1> DEFINE g == Option(timed)
  <1>1. hGame \in Holdem!StartHand(g) /\ hPaid = Holdem!Zero /\ hSettled = 0
        /\ hSkewed = Holdem!ShortHanded(hGame)
    BY <1>t DEF Holdem!Init
  <1>2. Seats[1] \in Everybody
    <2>1. PICK p \in Everybody : TRUE
      BY DEF HoldemAssumption
    <2>2. \E i \in 1..Len(Seats) : Seats[i] = p
      BY Seating DEF HoldemAssumption
    <2>3. 1 \in 1..Len(Seats)
      BY <2>2, Seating
    <2> QED BY <2>3, Seating
  <1>3. Holdem!Zero \in [Everybody -> Nat] /\ <<>> \in Seq(Everybody)
        /\ [p \in Everybody |-> Stack] \in [Everybody -> Nat]
    BY DEF Holdem!Zero, HoldemAssumption
  <1>4. 0 \in 0..MaxHands /\ 0 < MaxHands /\ MaxSettled \in Nat /\ Stack # 0
    BY DEF HoldemAssumption
  <1>5. g \in Holdem!GameType
    BY <1>2, <1>3, <1>4 DEF Holdem!GameType
  <1>6. Broke(g)
    BY <1>4 DEF Broke, Unfolded
  <1>7. ~g.over /\ g.hand < MaxHands
    BY <1>4
  <1> HIDE DEF g
  <1>8. Table(hGame, 0, Holdem!ShortHanded(hGame))
    BY <1>1, <1>5, <1>6, <1>7, NewHand
  <1>9. Holdem!ShortHanded(hGame) \in BOOLEAN
    BY DEF Holdem!ShortHanded
  <1>10. Holdem!TypeOK
    <2>1. hGame \in Holdem!GameType /\ 0 \in 0..MaxSettled
      BY <1>4, <1>8 DEF Table
    <2> QED BY <1>1, <1>3, <1>9, <2>1 DEF Holdem!TypeOK
  <1> QED BY <1>1, <1>8, <1>10 DEF HoldemInv

\* on_tick: the next hand
LEMMA NextHandStep ==
    ASSUME HoldemAssumption, HoldemInv, Holdem!NextHand
    PROVE  HoldemInv' /\ hGame'.board = 0 /\ hGame'.hand # hGame.hand
  <1>1. /\ ~hGame.over /\ hGame.hand < MaxHands /\ hGame' \in Holdem!StartHand(hGame)
        /\ hPaid' = Holdem!Zero /\ hSettled' = 0 /\ hSkewed' = Holdem!ShortHanded(hGame')
    BY DEF Holdem!NextHand
  <1>2. hGame \in Holdem!GameType /\ Broke(hGame)
    BY DEF HoldemInv, Table
  <1>3. /\ Table(hGame', 0, Holdem!ShortHanded(hGame'))
        /\ hGame'.board = 0 /\ hGame'.hand = hGame.hand + 1
    BY <1>1, <1>2, NewHand
  <1>4. Holdem!ShortHanded(hGame') \in BOOLEAN
    BY DEF Holdem!ShortHanded
  <1>5. Holdem!TypeOK'
    <2>1. hGame' \in Holdem!GameType
      BY <1>3 DEF Table
    <2>2. 0 \in 0..MaxSettled /\ Holdem!Zero \in [Everybody -> Nat]
      BY DEF HoldemAssumption, Holdem!Zero
    <2> QED BY <1>1, <1>4, <2>1, <2>2 DEF Holdem!TypeOK
  <1>6. HoldemInv'
    BY <1>1, <1>3, <1>5 DEF HoldemInv
  <1>7. hGame.hand \in 0..MaxHands /\ MaxHands \in Nat
    BY <1>2 DEF Holdem!GameType, HoldemAssumption
  <1>8. hGame'.hand # hGame.hand
    BY <1>3, <1>7
  <1> QED BY <1>3, <1>6, <1>8

LEMMA HoldemSteps ==
    ASSUME HoldemAssumption, HoldemInv, [Holdem!Next]_(Holdem!vars)
    PROVE  HoldemInv'
  <1>1. CASE \E p \in Everybody : Holdem!Plays(p)
    BY <1>1, PlayStep
  <1>2. CASE Holdem!Reveal
    BY <1>2, RevealStep
  <1>3. CASE Holdem!NextHand
    BY <1>3, NextHandStep
  <1>4. CASE UNCHANGED Holdem!vars
    BY <1>4 DEF Holdem!vars, HoldemInv, Holdem!TypeOK, Table
  <1> QED BY <1>1, <1>2, <1>3, <1>4 DEF Holdem!Next

LEMMA HoldemChips ==
    ASSUME HoldemAssumption, HoldemInv, [Holdem!Next]_(Holdem!vars)
    PROVE  [Holdem!BetsMatchedStep]_(Holdem!vars) /\ [Holdem!ChipsKeptStep]_(Holdem!vars)
  <1>1. ASSUME HoldemInv', BetsMet, ChipsMoved
        PROVE  Holdem!BetsMatchedStep /\ Holdem!ChipsKeptStep
    <2>1. hGame' \in Holdem!GameType /\ Broke(hGame')
      BY <1>1 DEF HoldemInv, Table
    <2>2. Holdem!ActiveIds(hGame') \ hGame'.allin = Live(hGame')
      BY <2>1, ActiveAre
    <2>3. Holdem!BetsMatchedStep
      BY <1>1, <2>2 DEF Holdem!BetsMatchedStep, BetsMet
    <2>4. Holdem!ChipsKeptStep
      BY <1>1 DEF Holdem!ChipsKeptStep, ChipsMoved, Conserved, Settled
    <2> QED BY <2>3, <2>4
  <1>2. CASE \E p \in Everybody : Holdem!Plays(p)
    BY <1>1, <1>2, PlayStep
  <1>3. CASE Holdem!Reveal
    BY <1>1, <1>3, RevealStep
  <1>4. CASE Holdem!NextHand
    <2>1. hGame'.board = 0 /\ hGame'.hand # hGame.hand
      BY <1>4, NextHandStep
    <2> QED BY <2>1 DEF Holdem!BetsMatchedStep, Holdem!ChipsKeptStep
  <1>5. CASE UNCHANGED Holdem!vars
    BY <1>5
  <1> QED BY <1>2, <1>3, <1>4, <1>5 DEF Holdem!Next

\* The invariant gives what the tables are checked for.
LEMMA HoldemSound ==
    ASSUME HoldemAssumption, HoldemInv
    PROVE  Holdem!HandSound
  <1> DEFINE g == hGame
  <1>1. g \in Holdem!GameType /\ Broke(g) /\ (~g.over => Round(g, hSkewed))
    BY DEF HoldemInv, Table
  <1>2. Holdem!TurnCanAct
    <2> SUFFICES ASSUME ~g.over, ~g.wait, ~g.pending
                 PROVE  /\ g.turn \in Holdem!SetOf(g.order) /\ Holdem!CanAct(g, g.turn)
                        /\ g.chips[g.turn] > 0
      BY DEF Holdem!TurnCanAct
    <2>1. g.turn \in Live(g) /\ Live(g) \subseteq Holdem!SetOf(g.order)
      BY <1>1 DEF Round, Mid
    <2>2. g.turn \in Everybody /\ g.turn \notin g.allin /\ g.turn \in Unfolded(g)
      BY <2>1 DEF Live, Unfolded
    <2>3. g.chips[g.turn] \in Nat /\ g.chips[g.turn] # 0
      BY <1>1, <2>2 DEF Holdem!GameType, Broke
    <2>4. g.chips[g.turn] > 0
      BY <2>3
    <2> QED BY <1>1, <2>1, <2>4, ActiveAre
  <1>3. Holdem!PotsAddUp
    <2>1. Booked(g)
      BY <1>1, HandBooked
    <2>2. Holdem!Amount(Holdem!Pots(g)) = Holdem!TotalPot(g)
      BY <2>1, PotsAddUpAll
    <2>3. ASSUME NEW p \in Everybody \ g.folded
          PROVE  Holdem!Amount({pot \in Holdem!Pots(g) : p \in pot.eligible})
                 = Holdem!Claim(p)
      BY <2>1, PotsOfPlayer DEF Due, Holdem!Claim
    <2> QED BY <2>2, <2>3 DEF Holdem!PotsAddUp
  <1> QED BY <1>2, <1>3 DEF Holdem!HandSound
-----------------------------------------------------------------------------
(* The tables.                                                             *)

\* A step of the tables is one of Holdem, or leaves it alone.
LEMMA HoldemAlone ==
    ASSUME [Next]_allVars
    PROVE  [Holdem!Next]_(Holdem!vars)
  BY DEF Next, HoldemStep, CoupStep, KittensStep, LastCardStep, DeckStep, allVars, holdemVars,
         Holdem!vars

\* Holdem's state keeps its types (the fields of HoldemGame): the stacks, bets and pots stay
\* natural numbers, as no key takes more than a player has.
THEOREM HoldemTypeCorrect ==
    ASSUME HoldemAssumption
    PROVE  Spec => []Holdem!TypeOK
  <1>1. Init => HoldemInv
    BY HoldemInit DEF Init
  <1>2. HoldemInv /\ [Next]_allVars => HoldemInv'
    BY HoldemAlone, HoldemSteps
  <1>3. HoldemInv => Holdem!TypeOK
    BY DEF HoldemInv
  <1> QED BY <1>1, <1>2, <1>3, PTL DEF Spec

\* In every betting round it is the turn of a player who can act, and the side pots hold
\* all the chips put in, each player's share of them being what his chips cover
\* (_start_betting_round, _advance_turn; PokerPotManager.get_pots).
THEOREM HandSoundForAll ==
    ASSUME HoldemAssumption
    PROVE  Spec => []HandSound
  <1>1. Init => HoldemInv
    BY HoldemInit DEF Init
  <1>2. HoldemInv /\ [Next]_allVars => HoldemInv'
    BY HoldemAlone, HoldemSteps
  <1>3. HoldemInv => HandSound
    BY HoldemSound DEF HandSound
  <1> QED BY <1>1, <1>2, <1>3, PTL DEF Spec

\* The next cards are dealt when all bets are matched, and no step before the payout makes
\* or loses a chip, nor does the first payout but for the pots nobody is eligible for
\* (_after_action, _showdown, _award_uncontested, resolve_pots_with_payouts).
THEOREM ChipsRightForAll ==
    ASSUME HoldemAssumption
    PROVE  Spec => ChipsRight
  <1>1. Init => HoldemInv
    BY HoldemInit DEF Init
  <1>2. HoldemInv /\ [Next]_allVars => HoldemInv'
    BY HoldemAlone, HoldemSteps
  <1>3. HoldemInv /\ [Next]_allVars
        => [Holdem!BetsMatchedStep]_(Holdem!vars) /\ [Holdem!ChipsKeptStep]_(Holdem!vars)
    BY HoldemAlone, HoldemChips
  <1> QED BY <1>1, <1>2, <1>3, PTL
          DEF Spec, ChipsRight, Holdem!ChipsRight, Holdem!BetsMatched, Holdem!ChipsKept
=============================================================================
