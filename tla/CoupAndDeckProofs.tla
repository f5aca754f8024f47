-------------------------- MODULE CoupAndDeckProofs --------------------------
(***************************************************************************)
(* Theorems about the modules Coup and DeadMansDeck, two games that go on  *)
(* by themselves between the players' moves: neither ever freezes, and the *)
(* coins of the one and the revolvers of the other are true, for any       *)
(* number of players, cards, costs and chambers.                           *)
(*                                                                         *)
(* Both strengthenings say what is pending in each phase, that nothing     *)
(* else is, and that whoever it is about can still answer.                 *)
(***************************************************************************)
EXTENDS Coup, ListsProofs, TLAPS

\* The constants and variables of DeadMansDeck that are not Coup's.
CONSTANTS HandSize, MaxClaim, Chambers, Good, Bad
VARIABLES phase, hands, eliminated, bullet, chamber, turn, claim, starter, penalty, active,
          over

Deck == INSTANCE DeadMansDeck
-----------------------------------------------------------------------------
(* Coup.                                                                   *)

\* Two players or more in an order; what is paid and earned is never negative.
CoupAssumption ==
    /\ Seats \in Seq(Players) /\ Players = {Seats[i] : i \in DOMAIN Seats}
    /\ Cardinality(Players) >= 2 /\ StartBots \subseteq Players
    /\ Start \in Nat /\ CoupCost \in Nat /\ MurderCost \in Nat
    /\ Aid \in Nat /\ Tax \in Nat /\ Loot \in Nat
    /\ Threshold \in Nat \ {0} /\ Start <= Threshold
    /\ Cards \in Int /\ MaxSwaps \in Nat
    /\ None \notin Players /\ None \notin Actions

Queued == [kind : Events, who : Players \cup {None}]
\* The deck is not counted on: after an exchange cut short it may run out.
GameType ==
    [turn : DOMAIN Seats, phase : Phases, action : Actions \cup {None},
     target : Players \cup {None}, claimer : Players \cup {None},
     doer : Players \cup {None}, passed : SUBSET Players, timer : BOOLEAN,
     resolving : BOOLEAN, queue : Seq(Queued),
     losing : Players \cup {None}, next : {"end_turn", "resolve_action"},
     returned : 0..1, coins : [Players -> Nat], live : [Players -> Nat],
     lost : [Players -> Nat], dead : SUBSET Players, deck : Int,
     over : BOOLEAN]

\* The claim of the player whose turn it is can be carried out.
Pursued(g) ==
    /\ g.doer = Seats[g.turn] /\ g.doer \notin g.dead
    /\ g.action \in Actions
    /\ g.action \in {"assassinate", "steal"} => g.target \in Players \ {g.doer}
    /\ g.coins[g.doer] < Threshold

\* A claim or a block can be challenged.
Asked(g) ==
    /\ Pursued(g) /\ g.next = "end_turn" /\ g.claimer \in Players \ g.dead
    /\ \/ g.phase = "action_declared" /\ g.claimer = g.doer
       \/ g.phase = "waiting_block" /\ g.claimer # g.doer

\* What is done next, once somebody has lost an influence, can be done.
Continues(g, loser) == g.next = "resolve_action" => Pursued(g) /\ g.doer # loser

Unpressed(g) ==
    /\ g.queue = <<>>
    /\ g.phase = "main" =>
          /\ ~g.timer /\ g.next = "end_turn" /\ Seats[g.turn] \notin g.dead
          /\ Alive(g) \ {Seats[g.turn]} # {}
    /\ g.phase \in {"action_declared", "waiting_block"} =>
          /\ g.timer /\ Asked(g) /\ Alive(g) \ {g.claimer} # {}
    /\ g.phase = "losing_influence" =>
          /\ ~g.timer /\ g.losing \in Players \ g.dead /\ g.live[g.losing] >= 2
          /\ Continues(g, g.losing)
    /\ g.phase = "exchanging" =>
          ~g.timer /\ g.next = "end_turn" /\ Seats[g.turn] \notin g.dead

Awaits(g, e) ==
    /\ g.queue = <<e>>
    /\ e.kind = "resolve_challenge" => Asked(g) /\ e.who \in Players \ {g.claimer}
    /\ e.kind = "prompt_lose_influence" => e.who \in Players /\ Continues(g, e.who)
    /\ e.kind = "post_block_success" => g.next = "end_turn"
    /\ e.kind = "post_lose_influence" /\ g.next = "resolve_action" => Pursued(g)

LockInv(g) ==
    ~g.over => IF g.resolving
               THEN ~g.timer /\ g.phase # "exchanging" /\ \E e \in Queued : Awaits(g, e)
               ELSE Unpressed(g)

\* h: a seat changed hands in the middle of an exchange.
Fair(g, h) ==
    ~h => /\ \A p \in Players :
                /\ g.live[p] + g.lost[p] =
                      IF g.phase = "exchanging" /\ p = Seats[g.turn] /\ ~g.over
                      THEN 4 - g.returned ELSE 2
                /\ (p \in g.dead) <=> (g.live[p] = 0)
          /\ g.phase # "exchanging" /\ ~g.over => g.returned = 0
          /\ g.phase = "exchanging" /\ ~g.over =>
                /\ g.lost[Seats[g.turn]] <= 1
                /\ g.returned = 1 => Seats[g.turn] \notin bots
MostEarned == Max({1, Aid, Tax, Loot})
Purse(g) == \A p \in Players : g.coins[p] <= Threshold - 1 + MostEarned

Sound(g, h) == g \in GameType /\ LockInv(g) /\ Fair(g, h) /\ Purse(g)

CoupInv ==
    /\ Sound(game, halfway)
    /\ bots \subseteq Players /\ swaps \in 0..MaxSwaps /\ halfway \in BOOLEAN

\* While an event is handled: nothing else is under way.
Settled(g, h) ==
    ~h => /\ \A p \in Players : g.live[p] + g.lost[p] = 2 /\ ((p \in g.dead) <=> (g.live[p] = 0))
          /\ g.returned = 0
Ready(g, h) ==
    /\ g \in GameType /\ ~g.over /\ ~g.resolving /\ g.queue = <<>> /\ ~g.timer
    /\ Purse(g) /\ Settled(g, h)
-----------------------------------------------------------------------------
LEMMA EarnedMost ==
    ASSUME CoupAssumption
    PROVE  MostEarned \in Nat /\ 1 <= MostEarned /\ Aid <= MostEarned
           /\ Tax <= MostEarned /\ Loot <= MostEarned
  <1> DEFINE S == {1, Aid, Tax, Loot}
  <1>1. PICK m \in S : \A n \in S : m >= n
    <2>1. \A x, y \in Nat : \E z \in {x, y} : z >= x /\ z >= y
      OBVIOUS
    <2>2. PICK x \in {1, Aid} : x >= 1 /\ x >= Aid
      BY <2>1 DEF CoupAssumption
    <2>3. PICK y \in {Tax, Loot} : y >= Tax /\ y >= Loot
      BY <2>1 DEF CoupAssumption
    <2>4. PICK z \in {x, y} : z >= x /\ z >= y
      BY <2>1, <2>2, <2>3 DEF CoupAssumption
    <2> QED BY <2>2, <2>3, <2>4 DEF CoupAssumption
  <1>2. MostEarned \in S /\ \A n \in S : MostEarned >= n
    BY <1>1 DEF MostEarned, Max
  <1> QED BY <1>2 DEF CoupAssumption

LEMMA SeatTaken ==
    ASSUME CoupAssumption
    PROVE  /\ Len(Seats) \in Nat \ {0} /\ DOMAIN Seats = 1..Len(Seats)
           /\ \A i \in DOMAIN Seats : Seats[i] \in Players
           /\ \A p \in Players : \E i \in DOMAIN Seats : Seats[i] = p
           /\ IsFiniteSet(Players) /\ \A S \in SUBSET Players : IsFiniteSet(S)
  <1>1. /\ Len(Seats) \in Nat /\ DOMAIN Seats = 1..Len(Seats)
        /\ Seats \in [1..Len(Seats) -> Players]
        /\ \A p \in Players : \E i \in DOMAIN Seats : Seats[i] = p
    BY DEF CoupAssumption
  <1>2. IsFiniteSet(Players)
    BY <1>1, FS_NatSurjection DEF ExistsSurjection, Surjection
  <1>3. Players # {}
    BY FS_EmptySet DEF CoupAssumption
  <1>4. Len(Seats) # 0
    BY <1>1, <1>3
  <1> QED BY <1>1, <1>2, <1>4, FS_Subset

\* Counting on from a seat leads to every seat.
LEMMA AllSeatsReached ==
    ASSUME NEW n \in Nat \ {0}, NEW t \in 1..n
    PROVE  /\ \A j \in 1..n : ((t - 1 + j) % n) + 1 \in 1..n
           /\ \A i \in 1..n : \E j \in 1..n : ((t - 1 + j) % n) + 1 = i
  <1>1. \A x \in Nat : x % n \in 0..(n - 1)
    OBVIOUS
  <1>2. \A x \in 0..(n - 1) : x % n = x /\ (x + n) % n = x
    OBVIOUS
  <1>3. ASSUME NEW i \in 1..n PROVE \E j \in 1..n : ((t - 1 + j) % n) + 1 = i
    <2>1. CASE i > t
      <3>1. i - t \in 1..n /\ t - 1 + (i - t) = i - 1 /\ i - 1 \in 0..(n - 1)
        BY <2>1
      <3>2. ((t - 1 + (i - t)) % n) + 1 = i
        BY <1>2, <3>1
      <3> QED BY <3>1, <3>2
    <2>2. CASE i <= t
      <3>1. i - t + n \in 1..n /\ t - 1 + (i - t + n) = (i - 1) + n /\ i - 1 \in 0..(n - 1)
        BY <2>2
      <3>2. ((t - 1 + (i - t + n)) % n) + 1 = i
        BY <1>2, <3>1
      <3> QED BY <3>1, <3>2
    <2> QED BY <2>1, <2>2
  <1>4. \A j \in 1..n : t - 1 + j \in Nat
    OBVIOUS
  <1>5. \A j \in 1..n : ((t - 1 + j) % n) \in 0..(n - 1)
    BY <1>1, <1>4
  <1> QED BY <1>3, <1>5

\* The next seat that is alive, for whoever had the turn.
NextSeat(g) ==
    LET n == Len(Seats)
        seat(k) == ((g.turn - 1 + k) % n) + 1
    IN  seat(Min({j \in 1..n : Seats[seat(j)] \notin g.dead}))

LEMMA NextIsAlive ==
    ASSUME CoupAssumption, NEW g \in GameType, Cardinality(Alive(g)) > 1
    PROVE  NextSeat(g) \in DOMAIN Seats /\ Seats[NextSeat(g)] \notin g.dead
           /\ Alive(g) \ {Seats[NextSeat(g)]} # {}
  <1> DEFINE n == Len(Seats)
             seat(k) == ((g.turn - 1 + k) % n) + 1
             living == {j \in 1..n : Seats[seat(j)] \notin g.dead}
  <1>1. g.turn \in 1..n /\ n \in Nat \ {0} /\ g.dead \subseteq Players
    BY SeatTaken DEF GameType
  <1>2. /\ \A j \in 1..n : seat(j) \in 1..n
        /\ \A i \in 1..n : \E j \in 1..n : seat(j) = i
    BY <1>1, AllSeatsReached
  <1>3. IsFiniteSet(Alive(g)) /\ Cardinality(Alive(g)) \in Nat
    BY SeatTaken, FS_CardinalityType DEF Alive
  <1>4. PICK p : p \in Alive(g)
    BY <1>3, FS_EmptySet
  <1> HIDE DEF seat
  <1>5. living \in SUBSET Nat /\ living # {}
    <2>1. PICK i \in 1..n : Seats[i] = p
      BY <1>4, SeatTaken DEF Alive
    <2>2. PICK j \in 1..n : seat(j) = i
      BY <1>2
    <2> QED BY <1>4, <2>1, <2>2 DEF Alive
  <1>6. Min(living) \in living
    <2> HIDE DEF living
    <2>1. \E x \in living : \A y \in living : x <= y
      BY <1>5, Least
    <2> QED BY <2>1 DEF Min
  <1>7. NextSeat(g) = seat(Min(living))
    BY DEF NextSeat, seat
  <1>8. NextSeat(g) \in DOMAIN Seats /\ Seats[NextSeat(g)] \notin g.dead
    BY <1>2, <1>6, <1>7, SeatTaken
  <1>9. Alive(g) \ {Seats[NextSeat(g)]} # {}
    <2>1. Seats[NextSeat(g)] \in Alive(g)
      BY <1>8, SeatTaken DEF Alive
    <2>2. Cardinality(Alive(g) \ {Seats[NextSeat(g)]}) = Cardinality(Alive(g)) - 1
          /\ IsFiniteSet(Alive(g) \ {Seats[NextSeat(g)]})
      BY <1>3, <2>1, FS_RemoveElement
    <2> QED BY <1>3, <2>2, FS_EmptySet
  <1> QED BY <1>8, <1>9

LEMMA EndTurnSound ==
    ASSUME CoupAssumption, NEW g, NEW h \in BOOLEAN, Ready(g, h), g.next = "end_turn"
    PROVE  Sound(EndTurn(g), h)
  <1> DEFINE r == EndTurn(g)
  <1>1. g \in GameType /\ g.over = FALSE /\ g.resolving = FALSE /\ g.queue = <<>>
    BY DEF Ready, GameType
  <1>2. CASE Cardinality(Alive(g)) <= 1
    <2>1. PICK t \in DOMAIN Seats : r = [g EXCEPT !.over = TRUE, !.turn = t]
      <3> DEFINE t == ((g.turn - 1 + 1) % Len(Seats)) + 1
      <3>1. g.turn \in 1..Len(Seats) /\ Len(Seats) \in Nat \ {0}
        BY <1>1, SeatTaken DEF GameType
      <3>2. t \in DOMAIN Seats
        BY <3>1, SeatTaken, AllSeatsReached
      <3> QED BY <1>2, <3>2 DEF EndTurn
    <2>2. r \in GameType /\ r.over /\ r.coins = g.coins /\ r.live = g.live /\ r.lost = g.lost
          /\ r.dead = g.dead
      BY <1>1, <2>1 DEF GameType
    <2> QED BY <2>2 DEF Sound, LockInv, Fair, Purse, Ready, Settled
  <1>3. CASE Cardinality(Alive(g)) > 1
    <2>1. r = [g EXCEPT !.turn = NextSeat(g), !.phase = "main", !.action = None,
                        !.target = None, !.claimer = None, !.doer = None,
                        !.timer = FALSE, !.passed = {}]
      BY <1>3, SeatTaken, FS_CardinalityType DEF EndTurn, NextSeat, Alive
    <2>2. NextSeat(g) \in DOMAIN Seats /\ Seats[NextSeat(g)] \notin g.dead
          /\ Alive(g) \ {Seats[NextSeat(g)]} # {}
      BY <1>1, <1>3, NextIsAlive
    <2>3. /\ r \in GameType /\ r.turn = NextSeat(g) /\ r.phase = "main" /\ r.timer = FALSE
          /\ r.over = FALSE /\ r.resolving = FALSE /\ r.queue = <<>> /\ r.next = "end_turn"
          /\ r.coins = g.coins /\ r.live = g.live /\ r.lost = g.lost /\ r.dead = g.dead
          /\ r.returned = g.returned
      BY <1>1, <2>1, <2>2 DEF GameType, Phases
    <2>4. Unpressed(r)
      BY <2>2, <2>3 DEF Unpressed, Alive
    <2> QED BY <2>3, <2>4 DEF Sound, LockInv, Fair, Purse, Ready, Settled
  <1>4. Cardinality(Alive(g)) \in Nat
    BY SeatTaken, FS_CardinalityType DEF Alive
  <1> QED BY <1>2, <1>3, <1>4

\* An event is queued while nothing else is.
LEMMA EnqueueSound ==
    ASSUME CoupAssumption, NEW g, NEW h \in BOOLEAN, Ready(g, h), g.phase # "exchanging",
           NEW kind \in Events, NEW who \in Players \cup {None},
           kind = "resolve_challenge" => Asked(g) /\ who \in Players \ {g.claimer},
           kind = "prompt_lose_influence" => who \in Players /\ Continues(g, who),
           kind = "post_block_success" => g.next = "end_turn",
           kind = "post_lose_influence" /\ g.next = "resolve_action" => Pursued(g)
    PROVE  Sound(Enqueue(g, kind, who), h)
  <1> DEFINE r == Enqueue(g, kind, who)
             e == [kind |-> kind, who |-> who]
  <1>1. g \in GameType /\ g.over = FALSE /\ g.queue = <<>> /\ g.timer = FALSE
    BY DEF Ready, GameType
  <1>2. e \in Queued /\ e.kind = kind /\ e.who = who
    BY DEF Queued
  <1>3. r = [g EXCEPT !.resolving = TRUE, !.queue = <<e>>]
    BY <1>1 DEF Enqueue, GameType
  <1>0. <<e>> \in Seq(Queued)
    BY <1>2
  <1> HIDE DEF e
  <1>4. /\ r \in GameType /\ r.resolving = TRUE /\ r.queue = <<e>> /\ r.timer = FALSE
        /\ r.over = FALSE /\ r.phase = g.phase /\ r.turn = g.turn /\ r.next = g.next
        /\ r.claimer = g.claimer /\ r.doer = g.doer /\ r.action = g.action
        /\ r.target = g.target /\ r.coins = g.coins /\ r.live = g.live /\ r.lost = g.lost
        /\ r.dead = g.dead /\ r.returned = g.returned
    BY <1>0, <1>1, <1>3 DEF GameType
  <1> HIDE DEF r
  <1>5. Awaits(r, e)
    BY <1>2, <1>4 DEF Awaits, Asked, Pursued, Continues
  <1>6. LockInv(r)
    BY <1>2, <1>4, <1>5 DEF LockInv
  <1> QED BY <1>4, <1>6 DEF Sound, Fair, Purse, Ready, Settled, r

LEMMA ResolveSound ==
    ASSUME CoupAssumption, NEW g, NEW h \in BOOLEAN, Ready(g, h), g.phase # "exchanging",
           g.next = "end_turn", Pursued(g)
    PROVE  Sound(Resolve(g), h)
  <1> DEFINE p == g.doer
  <1>1. g \in GameType /\ g.over = FALSE /\ g.resolving = FALSE /\ g.queue = <<>>
        /\ g.timer = FALSE
    BY DEF Ready, GameType
  <1>2. p \in Players /\ p = Seats[g.turn] /\ p \notin g.dead /\ g.coins[p] < Threshold
        /\ g.turn \in DOMAIN Seats /\ g.coins \in [Players -> Nat] /\ g.action \in Actions
        /\ Threshold \in Nat
    BY <1>1, SeatTaken DEF Pursued, GameType, CoupAssumption
  <1>3. ASSUME NEW r, NEW f \in [Players -> Nat], r = [g EXCEPT !.coins = f],
               \A q \in Players : f[q] <= Threshold - 1 + MostEarned
        PROVE  Sound(EndTurn(r), h)
    <2>1. /\ r \in GameType /\ r.over = FALSE /\ r.resolving = FALSE /\ r.queue = <<>>
          /\ r.timer = FALSE /\ r.coins = f /\ r.live = g.live /\ r.lost = g.lost
          /\ r.dead = g.dead /\ r.returned = g.returned /\ r.next = "end_turn"
      BY <1>1, <1>3 DEF GameType
    <2>2. Ready(r, h)
      BY <1>3, <2>1 DEF Ready, Purse, Settled
    <2> QED BY <2>1, <2>2, EndTurnSound
  <1>4. ASSUME NEW n \in Nat, n <= MostEarned PROVE Sound(EndTurn(Earn(g, p, n)), h)
    <2> DEFINE f == [g.coins EXCEPT ![p] = @ + n]
    <2>1. f \in [Players -> Nat] /\ Earn(g, p, n) = [g EXCEPT !.coins = f]
      BY <1>1, <1>2 DEF Earn, GameType
    <2>2. \A q \in Players : f[q] <= Threshold - 1 + MostEarned
      BY <1>2, <1>4, EarnedMost DEF Ready, Purse
    <2> QED BY <1>3, <2>1, <2>2
  <1>5. CASE g.action = "foreign_aid"
    BY <1>4, <1>5, EarnedMost DEF Resolve, CoupAssumption
  <1>6. CASE g.action = "tax"
    BY <1>4, <1>6, EarnedMost DEF Resolve, CoupAssumption
  <1>7. CASE g.action = "assassinate"
    <2>1. g.target \in Players /\ Continues(g, g.target)
      BY <1>7 DEF Pursued, Continues
    <2>2. Resolve(g) = Enqueue(g, "prompt_lose_influence", g.target)
      BY <1>7 DEF Resolve
    <2> QED BY <2>1, <2>2, EnqueueSound DEF Events
  <1>8. CASE g.action = "steal"
    <2> DEFINE t == g.target
               n == IF g.coins[t] < Loot THEN g.coins[t] ELSE Loot
               f == [[g.coins EXCEPT ![t] = @ - n] EXCEPT ![p] = @ + n]
    <2>1. t \in Players /\ t # p
      BY <1>8 DEF Pursued
    <2>0. g.coins[t] \in Nat /\ Loot \in Nat
      BY <1>2, <2>1 DEF CoupAssumption
    <2>2. n \in Nat /\ n <= MostEarned /\ g.coins[t] - n \in Nat /\ g.coins[t] \in Nat
      BY <2>0, EarnedMost
    <2> HIDE DEF n
    <2>3. f \in [Players -> Nat] /\ Earn(Earn(g, t, -n), p, n) = [g EXCEPT !.coins = f]
      <3> DEFINE c == [g.coins EXCEPT ![t] = @ - n]
                 k == [g EXCEPT !.coins = c]
      <3>1. c \in [Players -> Nat] /\ g.coins[t] + -n = g.coins[t] - n
        BY <1>2, <2>1, <2>2
      <3>2. Earn(g, t, -n) = k
        BY <1>1, <2>1, <3>1 DEF Earn, GameType
      <3>3. k.coins = c /\ k \in GameType
        BY <1>1, <3>1 DEF GameType
      <3>4. Earn(k, p, n) = [k EXCEPT !.coins = f]
        <4> HIDE DEF c
        <4> QED BY <1>2, <3>3 DEF Earn, GameType, c
      <3>5. f \in [Players -> Nat]
        BY <1>2, <2>1, <2>2, <3>1
      <3> HIDE DEF c, f
      <3> QED BY <1>1, <3>2, <3>4, <3>5 DEF GameType
    <2>4. \A q \in Players : f[q] <= Threshold - 1 + MostEarned
      <3> SUFFICES ASSUME NEW q \in Players PROVE f[q] <= Threshold - 1 + MostEarned
        OBVIOUS
      <3>1. g.coins[q] \in Nat /\ g.coins[q] <= Threshold - 1 + MostEarned
        BY <1>2 DEF Ready, Purse
      <3>2. f[q] = IF q = p THEN g.coins[p] + n ELSE IF q = t THEN g.coins[t] - n ELSE g.coins[q]
        BY <1>2, <2>1
      <3> HIDE DEF f
      <3> QED BY <1>2, <2>2, <3>1, <3>2, EarnedMost
    <2>5. Resolve(g) = EndTurn(Earn(Earn(g, t, -n), p, n))
      BY <1>8 DEF Resolve, n
    <2> HIDE DEF f
    <2> QED BY <1>3, <2>3, <2>4, <2>5
  <1>9. CASE g.action = "exchange"
    <2> DEFINE r == Resolve(g)
    <2>1. r = [g EXCEPT !.live[p] = @ + 2, !.deck = @ - 2, !.phase = "exchanging",
                        !.timer = FALSE]
      BY <1>9 DEF Resolve
    <2> DEFINE f == [g.live EXCEPT ![p] = @ + 2]
    <2>a. f \in [Players -> Nat]
      BY <1>1, <1>2 DEF GameType
    <2>b. r = [g EXCEPT !.live = f, !.deck = @ - 2, !.phase = "exchanging", !.timer = FALSE]
      BY <1>1, <2>1 DEF GameType
    <2> HIDE DEF f
    <2>2. /\ r \in GameType /\ r.live = f /\ r.lost = g.lost
          /\ r.dead = g.dead /\ r.coins = g.coins /\ r.phase = "exchanging" /\ r.turn = g.turn
          /\ r.timer = FALSE /\ r.over = FALSE /\ r.resolving = FALSE /\ r.queue = <<>>
          /\ r.next = "end_turn" /\ r.returned = g.returned
      <3> HIDE DEF r, p
      <3>1. g.deck \in Int /\ g.deck - 2 \in Int /\ "exchanging" \in Phases
        BY <1>1 DEF GameType, Phases
      <3>2. r \in GameType
        BY <1>1, <2>a, <2>b, <3>1 DEF GameType
      <3> QED BY <1>1, <2>b, <3>2 DEF GameType
    <2> HIDE DEF r
    <2>3. Fair(r, h)
      <3>1. \A q \in Players : g.live[q] \in Nat /\ g.lost[q] \in Nat
        BY <1>1 DEF GameType
      <3>2. \A q \in Players : r.live[q] = IF q = p THEN g.live[q] + 2 ELSE g.live[q]
        <4>1. g.live \in [Players -> Nat] /\ p \in Players
          BY <1>1, <1>2 DEF GameType
        <4>2. \A q \in Players : f[q] = IF q = p THEN g.live[q] + 2 ELSE g.live[q]
          <5> HIDE DEF p
          <5> QED BY <4>1 DEF f
        <4> QED BY <2>2, <4>2
      <3>3. \A q \in Players : r.lost[q] = g.lost[q]
        BY <2>2
      <3> SUFFICES ASSUME ~h
                   PROVE  /\ \A q \in Players : /\ r.live[q] + r.lost[q] = IF q = p THEN 4 ELSE 2
                                                /\ (q \in r.dead) <=> (r.live[q] = 0)
                          /\ r.returned = 0 /\ r.lost[p] <= 1
        BY <1>2, <2>2 DEF Fair
      <3>4. ASSUME NEW q \in Players
            PROVE  g.live[q] + g.lost[q] = 2 /\ ((q \in g.dead) <=> (g.live[q] = 0))
                   /\ g.returned = 0
        BY DEF Ready, Settled
      <3>5. \A q \in Players : /\ r.live[q] + r.lost[q] = IF q = p THEN 4 ELSE 2
                               /\ (q \in r.dead) <=> (r.live[q] = 0)
        BY <1>2, <2>2, <3>1, <3>2, <3>3, <3>4
      <3>6. g.live[p] # 0 /\ g.live[p] \in Nat /\ g.lost[p] \in Nat
            /\ g.live[p] + g.lost[p] = 2 /\ g.returned = 0
        BY <1>2, <3>1, <3>4
      <3> QED BY <1>2, <2>2, <3>5, <3>6
    <2>4. Unpressed(r)
      BY <1>2, <2>2 DEF Unpressed
    <2> QED BY <2>2, <2>3, <2>4 DEF Sound, LockInv, Purse, Ready, r
  <1> QED BY <1>2, <1>5, <1>6, <1>7, <1>8, <1>9 DEF Actions

LEMMA PostLoseSound ==
    ASSUME CoupAssumption, NEW g, NEW h \in BOOLEAN, Ready(g, h), g.phase # "exchanging",
           g.next = "resolve_action" => Pursued(g)
    PROVE  Sound(PostLose(g), h)
  <1> DEFINE r == [g EXCEPT !.losing = None, !.next = "end_turn"]
  <1>1. g \in GameType /\ g.over = FALSE /\ g.resolving = FALSE /\ g.queue = <<>>
        /\ g.timer = FALSE
    BY DEF Ready, GameType
  <1>2. /\ r \in GameType /\ r.next = "end_turn" /\ r.over = FALSE /\ r.resolving = FALSE
        /\ r.queue = <<>> /\ r.timer = FALSE /\ r.phase = g.phase /\ r.turn = g.turn
        /\ r.doer = g.doer /\ r.action = g.action /\ r.target = g.target /\ r.coins = g.coins
        /\ r.live = g.live /\ r.lost = g.lost /\ r.dead = g.dead /\ r.returned = g.returned
    BY <1>1 DEF GameType
  <1>3. PostLose(g) = IF g.next = "end_turn" THEN EndTurn(r) ELSE Resolve(r)
    BY DEF PostLose
  <1>4. g.next \in {"end_turn", "resolve_action"}
    BY <1>1 DEF GameType
  <1> HIDE DEF r
  <1>5. Ready(r, h)
    BY <1>2 DEF Ready, Purse, Settled
  <1>6. g.next = "resolve_action" => Pursued(r)
    BY <1>2 DEF Pursued
  <1> QED BY <1>2, <1>3, <1>4, <1>5, <1>6, EndTurnSound, ResolveSound

\* Who shows an influence, and has none left, is eliminated.
LiveAfter(g, p) == [g.live EXCEPT ![p] = @ - 1]
LostAfter(g, p) == [g.lost EXCEPT ![p] = @ + 1]
DeadAfter(g, p) == IF g.live[p] = 1 THEN g.dead \cup {p} ELSE g.dead

LEMMA Revealed ==
    ASSUME NEW g \in GameType, NEW p \in Players, g.live[p] # 0
    PROVE  /\ Reveal(g, p) = [g EXCEPT !.live = LiveAfter(g, p), !.lost = LostAfter(g, p),
                                       !.dead = DeadAfter(g, p)]
           /\ LiveAfter(g, p) \in [Players -> Nat] /\ LostAfter(g, p) \in [Players -> Nat]
           /\ DeadAfter(g, p) \in SUBSET Players
           /\ \A q \in Players :
                 /\ LiveAfter(g, p)[q] = IF q = p THEN g.live[p] - 1 ELSE g.live[q]
                 /\ LostAfter(g, p)[q] = IF q = p THEN g.lost[p] + 1 ELSE g.lost[q]
  <1>1. g.live \in [Players -> Nat] /\ g.lost \in [Players -> Nat] /\ g.dead \in SUBSET Players
    BY DEF GameType
  <1>2. g.live[p] \in Nat /\ g.live[p] - 1 \in Nat /\ g.lost[p] + 1 \in Nat
    BY <1>1
  <1>3. LiveAfter(g, p) \in [Players -> Nat] /\ LostAfter(g, p) \in [Players -> Nat]
        /\ DeadAfter(g, p) \in SUBSET Players
    BY <1>1, <1>2 DEF LiveAfter, LostAfter, DeadAfter
  <1>4. Reveal(g, p) = [g EXCEPT !.live = LiveAfter(g, p), !.lost = LostAfter(g, p),
                                 !.dead = DeadAfter(g, p)]
    BY DEF Reveal, GameType, LiveAfter, LostAfter, DeadAfter
  <1>5. \A q \in Players :
           /\ LiveAfter(g, p)[q] = IF q = p THEN g.live[p] - 1 ELSE g.live[q]
           /\ LostAfter(g, p)[q] = IF q = p THEN g.lost[p] + 1 ELSE g.lost[q]
    BY <1>1 DEF LiveAfter, LostAfter
  <1> QED BY <1>3, <1>4, <1>5

LEMMA PromptSound ==
    ASSUME CoupAssumption, NEW g, NEW h \in BOOLEAN, Ready(g, h), g.phase # "exchanging",
           NEW p \in Players, Continues(g, p)
    PROVE  Sound(Prompt(g, p), h)
  <1>1. g \in GameType /\ g.over = FALSE /\ g.resolving = FALSE /\ g.queue = <<>>
        /\ g.timer = FALSE /\ g.live[p] \in Nat
    BY DEF Ready, GameType
  <1>2. CASE p \in g.dead \/ g.live[p] = 0
    <2>1. Prompt(g, p) = PostLose(g)
      BY <1>2 DEF Prompt
    <2> QED BY <2>1, PostLoseSound DEF Continues
  <1>3. CASE p \notin g.dead /\ g.live[p] = 1
    <2> DEFINE r == Reveal(g, p)
    <2>1. Prompt(g, p) = PostLose(r)
      BY <1>3 DEF Prompt
    <2>2. /\ r = [g EXCEPT !.live = LiveAfter(g, p), !.lost = LostAfter(g, p),
                           !.dead = DeadAfter(g, p)]
          /\ LiveAfter(g, p) \in [Players -> Nat] /\ LostAfter(g, p) \in [Players -> Nat]
          /\ DeadAfter(g, p) \in SUBSET Players /\ DeadAfter(g, p) = g.dead \cup {p}
          /\ \A q \in Players :
                /\ LiveAfter(g, p)[q] = IF q = p THEN g.live[p] - 1 ELSE g.live[q]
                /\ LostAfter(g, p)[q] = IF q = p THEN g.lost[p] + 1 ELSE g.lost[q]
      <3>1. g.live[p] # 0
        BY <1>3
      <3>2. DeadAfter(g, p) = g.dead \cup {p}
        BY <1>3 DEF DeadAfter
      <3> QED BY <1>1, <3>1, <3>2, Revealed
    <2> HIDE DEF r
    <2>3. /\ r \in GameType /\ r.live = LiveAfter(g, p) /\ r.lost = LostAfter(g, p)
          /\ r.dead = g.dead \cup {p} /\ r.over = FALSE /\ r.resolving = FALSE
          /\ r.queue = <<>> /\ r.timer = FALSE
          /\ r.phase = g.phase /\ r.turn = g.turn /\ r.next = g.next /\ r.doer = g.doer
          /\ r.action = g.action /\ r.target = g.target /\ r.coins = g.coins
          /\ r.returned = g.returned
      BY <1>1, <2>2 DEF GameType
    <2>4. Settled(r, h)
      <3>1. \A q \in Players : g.live[q] \in Nat /\ g.lost[q] \in Nat
        BY <1>1 DEF GameType
      <3> QED BY <1>3, <2>2, <2>3, <3>1 DEF Ready, Settled
    <2>5. Ready(r, h)
      BY <2>3, <2>4 DEF Ready, Purse
    <2>6. r.next = "resolve_action" => Pursued(r)
      BY <2>3 DEF Continues, Pursued
    <2> QED BY <2>1, <2>3, <2>5, <2>6, PostLoseSound
  <1>4. CASE p \notin g.dead /\ g.live[p] \notin {0, 1}
    <2> DEFINE r == Prompt(g, p)
    <2>1. r = [g EXCEPT !.losing = p, !.phase = "losing_influence"]
      BY <1>4 DEF Prompt
    <2> HIDE DEF r
    <2>2. /\ r \in GameType /\ r.losing = p /\ r.phase = "losing_influence"
          /\ r.over = FALSE /\ r.resolving = FALSE /\ r.queue = <<>> /\ r.timer = FALSE
          /\ r.turn = g.turn /\ r.next = g.next /\ r.doer = g.doer
          /\ r.action = g.action /\ r.target = g.target /\ r.coins = g.coins
          /\ r.live = g.live /\ r.lost = g.lost /\ r.dead = g.dead
          /\ r.returned = g.returned
      BY <1>1, <2>1 DEF GameType, Phases
    <2>3. Unpressed(r)
      BY <1>1, <1>4, <2>2 DEF Unpressed, Continues, Pursued
    <2> QED BY <2>2, <2>3 DEF Sound, LockInv, Fair, Purse, Ready, Settled, r
  <1> QED BY <1>2, <1>3, <1>4
-----------------------------------------------------------------------------
(* The steps: what is queued, and what the timer does.                     *)

\* The queued event, taken from the queue.
LEMMA LockedReady ==
    ASSUME CoupAssumption, NEW g, NEW h \in BOOLEAN, Sound(g, h), ~g.over,
           g.queue # <<>>
    PROVE  \E e \in Queued :
              /\ g.queue = <<e>> /\ Awaits(g, e) /\ g.phase # "exchanging"
              /\ Ready([g EXCEPT !.queue = <<>>, !.resolving = FALSE], h)
  <1>1. g \in GameType /\ g.resolving = TRUE /\ ~g.timer /\ g.phase # "exchanging"
        /\ \E e \in Queued : Awaits(g, e)
    BY DEF Sound, LockInv, Unpressed, GameType
  <1>2. PICK e \in Queued : Awaits(g, e)
    BY <1>1
  <1> DEFINE r == [g EXCEPT !.queue = <<>>, !.resolving = FALSE]
  <1>0. <<>> \in Seq(Queued)
    OBVIOUS
  <1>3. /\ r \in GameType /\ r.queue = <<>> /\ r.resolving = FALSE /\ r.over = g.over
        /\ r.timer = g.timer /\ r.coins = g.coins /\ r.live = g.live /\ r.lost = g.lost
        /\ r.dead = g.dead /\ r.returned = g.returned
    BY <1>0, <1>1 DEF GameType
  <1> HIDE DEF r
  <1>4. Ready(r, h)
    BY <1>1, <1>3 DEF Ready, Sound, Fair, Purse, Settled
  <1> QED BY <1>1, <1>2, <1>4 DEF Awaits, r

LEMMA FireSound ==
    ASSUME CoupAssumption, NEW h \in BOOLEAN, Sound(game, h), Fire
    PROVE  Sound(game', h)
  <1>1. PICK i \in DOMAIN game.queue : \E g \in Handled([game EXCEPT !.queue =
                SubSeq(@, 1, i - 1) \o SubSeq(@, i + 1, Len(@))], game.queue[i]) : game' = g
    BY DEF Fire, Become
  <1>2. PICK e \in Queued :
              /\ game.queue = <<e>> /\ Awaits(game, e) /\ game.phase # "exchanging"
              /\ Ready([game EXCEPT !.queue = <<>>, !.resolving = FALSE], h)
    <2>1. game.queue # <<>> /\ ~game.over
      BY <1>1 DEF Fire
    <2> QED BY <2>1, LockedReady
  <1> DEFINE g == [game EXCEPT !.queue = <<>>]
             k == [game EXCEPT !.queue = <<>>, !.resolving = FALSE]
  <1>3. game \in GameType
    BY DEF Sound
  <1>4. i = 1 /\ game.queue[i] = e /\ Len(game.queue) = 1
    BY <1>1, <1>2
  <1>5. SubSeq(game.queue, 1, i - 1) \o SubSeq(game.queue, i + 1, Len(game.queue)) = <<>>
    BY <1>2, <1>4
  <1>6. game' \in Handled(g, e)
    BY <1>1, <1>3, <1>4, <1>5 DEF GameType
  <1>7. [g EXCEPT !.resolving = FALSE] = k
    BY <1>3 DEF GameType
  <1>8. /\ k \in GameType /\ k.phase = game.phase /\ k.turn = game.turn /\ k.next = game.next
        /\ k.claimer = game.claimer /\ k.doer = game.doer /\ k.action = game.action
        /\ k.target = game.target /\ k.coins = game.coins /\ k.live = game.live
        /\ k.dead = game.dead
    BY <1>2, <1>3 DEF Ready, GameType
  <1>9. CASE e.kind = "prompt_lose_influence"
    <2>1. game' = Prompt(k, e.who)
      BY <1>6, <1>7, <1>9 DEF Handled
    <2> HIDE DEF k
    <2>2. e.who \in Players /\ Continues(k, e.who)
      BY <1>2, <1>8, <1>9 DEF Awaits, Continues, Pursued
    <2> QED BY <1>2, <1>8, <2>1, <2>2, PromptSound DEF k
  <1>10. CASE e.kind = "post_block_success"
    <2>1. game' = EndTurn(k)
      BY <1>6, <1>7, <1>10 DEF Handled
    <2> HIDE DEF k
    <2>2. k.next = "end_turn"
      BY <1>2, <1>8, <1>10 DEF Awaits
    <2> QED BY <1>2, <1>8, <2>1, <2>2, EndTurnSound DEF k
  <1>11. CASE e.kind = "post_lose_influence"
    <2>1. game' = PostLose(k)
      BY <1>6, <1>7, <1>11 DEF Handled
    <2> HIDE DEF k
    <2>2. k.next = "resolve_action" => Pursued(k)
      BY <1>2, <1>8, <1>11 DEF Awaits, Pursued
    <2> QED BY <1>2, <1>8, <2>1, <2>2, PostLoseSound DEF k
  <1>12. CASE e.kind = "resolve_challenge"
    <2>1. Asked(game) /\ e.who \in Players \ {game.claimer}
      BY <1>2, <1>12 DEF Awaits
    <2>2. PICK next \in {"end_turn", "resolve_action"}, loser \in Players :
             /\ game' = Enqueue([g EXCEPT !.next = next], "prompt_lose_influence", loser)
             /\ next = "resolve_action" => loser # game.doer
      <3>1. game' \in Challenged(g, e.who)
        BY <1>6, <1>12 DEF Handled
      <3>2. g.phase = game.phase /\ g.claimer = game.claimer
        BY <1>3 DEF GameType
      <3>3. game' = Bluff(g) \/ game' = Truth(g, e.who)
        BY <3>1 DEF Challenged
      <3> DEFINE n == IF g.phase = "action_declared" THEN "end_turn" ELSE "resolve_action"
                 m == IF g.phase = "action_declared" THEN "resolve_action" ELSE "end_turn"
      <3>4. CASE game' = Bluff(g)
        <4>1. game' = Enqueue([g EXCEPT !.next = n], "prompt_lose_influence", game.claimer)
          BY <3>2, <3>4 DEF Bluff
        <4>2. game.claimer \in Players /\ (n = "resolve_action" => game.claimer # game.doer)
          BY <2>1, <3>2 DEF Asked
        <4> QED BY <4>1, <4>2
      <3>5. CASE game' = Truth(g, e.who)
        <4>1. game' = Enqueue([g EXCEPT !.next = m], "prompt_lose_influence", e.who)
          BY <3>5 DEF Truth
        <4>2. e.who \in Players /\ (m = "resolve_action" => e.who # game.doer)
          BY <2>1, <3>2 DEF Asked
        <4> QED BY <4>1, <4>2
      <3> QED BY <3>3, <3>4, <3>5
    <2> DEFINE r == [k EXCEPT !.next = next]
    <2>3. game' = Enqueue(r, "prompt_lose_influence", loser)
      BY <1>3, <2>2 DEF Enqueue, GameType
    <2>4. /\ r \in GameType /\ r.next = next /\ r.over = k.over /\ r.resolving = k.resolving
          /\ r.queue = k.queue /\ r.timer = k.timer /\ r.phase = game.phase
          /\ r.turn = game.turn /\ r.doer = game.doer /\ r.action = game.action
          /\ r.target = game.target /\ r.coins = k.coins /\ r.live = k.live
          /\ r.lost = k.lost /\ r.dead = k.dead /\ r.returned = k.returned
      <3> HIDE DEF k
      <3> QED BY <1>8 DEF GameType
    <2> HIDE DEF r
    <2>5. Ready(r, h)
      <3> HIDE DEF k
      <3>1. Ready(k, h)
        BY <1>2 DEF k
      <3> QED BY <2>4, <3>1 DEF Ready, Purse, Settled
    <2>6. Continues(r, loser)
      <3> HIDE DEF k
      <3> QED BY <1>8, <2>1, <2>2, <2>4 DEF Continues, Asked, Pursued
    <2> QED BY <1>2, <2>3, <2>4, <2>5, <2>6, EnqueueSound DEF Events
  <1> QED BY <1>9, <1>10, <1>11, <1>12 DEF Queued, Events

\* A key or the tick, while nothing is resolved: the game without its timer.
LEMMA StoppedReady ==
    ASSUME CoupAssumption, NEW g, NEW h \in BOOLEAN, Sound(g, h), ~g.over, ~g.resolving,
           g.phase # "exchanging"
    PROVE  /\ Ready([g EXCEPT !.timer = FALSE], h) /\ Unpressed(g) /\ g \in GameType
           /\ ~g.timer => Ready(g, h)
  <1> DEFINE r == [g EXCEPT !.timer = FALSE]
  <1>1. g \in GameType /\ Unpressed(g) /\ g.queue = <<>> /\ Settled(g, h)
    BY DEF Sound, LockInv, Unpressed, Fair, Settled
  <1>2. /\ r \in GameType /\ r.queue = <<>> /\ r.resolving = g.resolving /\ r.over = g.over
        /\ r.timer = FALSE /\ r.coins = g.coins /\ r.live = g.live /\ r.lost = g.lost
        /\ r.dead = g.dead /\ r.returned = g.returned
    BY <1>1 DEF GameType
  <1> HIDE DEF r
  <1>3. Ready(r, h)
    BY <1>1, <1>2 DEF Ready, Sound, Purse, Settled
  <1> QED BY <1>1, <1>3 DEF Ready, Sound, r

\* The game as far as a claim is concerned.
LEMMA StillAsked ==
    ASSUME NEW g, NEW r, Asked(g),
           r.phase = g.phase, r.turn = g.turn, r.next = g.next, r.claimer = g.claimer,
           r.doer = g.doer, r.action = g.action, r.target = g.target, r.coins = g.coins,
           r.dead = g.dead
    PROVE  Asked(r) /\ Pursued(r) /\ (g.phase = "action_declared" \/ g.phase = "waiting_block")
  BY DEF Asked, Pursued

LEMMA ExpireSound ==
    ASSUME CoupAssumption, NEW h \in BOOLEAN, Sound(game, h), Expire
    PROVE  Sound(game', h)
  <1> DEFINE r == [game EXCEPT !.timer = FALSE]
  <1>1. ~game.over /\ ~game.resolving /\ game.timer /\ game \in GameType
    BY DEF Expire, Unlocked, Sound
  <1>2. game.phase \in {"action_declared", "waiting_block"} /\ Asked(game)
    BY <1>1 DEF Sound, LockInv, Unpressed, GameType, Phases
  <1>3. Ready(r, h)
    BY <1>1, <1>2, StoppedReady
  <1>4. /\ r.phase = game.phase /\ r.turn = game.turn /\ r.next = game.next
        /\ r.claimer = game.claimer /\ r.doer = game.doer /\ r.action = game.action
        /\ r.target = game.target /\ r.coins = game.coins /\ r.dead = game.dead
    BY <1>1 DEF GameType
  <1>5. game' = IF game.phase = "action_declared" THEN Resolve(r)
                ELSE IF game.phase = "waiting_block" THEN Enqueue(r, "post_block_success", None)
                ELSE r
    BY DEF Expire, Become
  <1> HIDE DEF r
  <1>6. Asked(r) /\ Pursued(r) /\ r.next = "end_turn" /\ r.phase # "exchanging"
    BY <1>2, <1>4 DEF Asked, Pursued
  <1> QED BY <1>2, <1>3, <1>5, <1>6, ResolveSound, EnqueueSound DEF Events
-----------------------------------------------------------------------------
(* Keys.                                                                   *)

\* A player with the turn and too few coins to be forced.
LEMMA FreeReady ==
    ASSUME CoupAssumption, NEW h \in BOOLEAN, Sound(game, h), NEW p \in Players, MainTurn(p)
    PROVE  /\ Ready(game, h) /\ game \in GameType /\ game.next = "end_turn"
           /\ game.phase = "main" /\ p = Seats[game.turn] /\ p \notin game.dead
           /\ Alive(game) \ {p} # {} /\ game.coins \in [Players -> Nat]
           /\ ~game.over /\ ~game.resolving /\ game.queue = <<>> /\ game.timer = FALSE
  <1>1. ~game.over /\ ~game.resolving /\ game.phase = "main" /\ p = Seats[game.turn]
        /\ game \in GameType
    BY DEF MainTurn, Unlocked, Current, Sound
  <1>2. Unpressed(game)
    BY <1>1 DEF Sound, LockInv
  <1>3. ~game.timer /\ game.next = "end_turn" /\ p \notin game.dead /\ Alive(game) \ {p} # {}
        /\ game.queue = <<>>
    BY <1>1, <1>2 DEF Unpressed
  <1>4. Ready(game, h)
    BY <1>1, <1>3, StoppedReady
  <1> QED BY <1>1, <1>3, <1>4 DEF GameType

\* Coins change hands.
LEMMA PaidReady ==
    ASSUME CoupAssumption, NEW g, NEW h \in BOOLEAN, Ready(g, h),
           NEW p \in Players, NEW n \in Int, g.coins[p] + n \in Nat,
           g.coins[p] + n <= Threshold - 1 + MostEarned
    PROVE  /\ Ready(Earn(g, p, n), h) /\ Earn(g, p, n).phase = g.phase
           /\ Earn(g, p, n).turn = g.turn /\ Earn(g, p, n).next = g.next
           /\ Earn(g, p, n).dead = g.dead /\ Earn(g, p, n).coins[p] = g.coins[p] + n
  <1> DEFINE f == [g.coins EXCEPT ![p] = @ + n]
             r == Earn(g, p, n)
  <1>1. g \in GameType /\ g.over = FALSE /\ g.resolving = FALSE /\ g.queue = <<>>
        /\ g.timer = FALSE /\ g.coins \in [Players -> Nat]
    BY DEF Ready, GameType
  <1>2. f \in [Players -> Nat] /\ f[p] = g.coins[p] + n
    BY <1>1
  <1>3. r = [g EXCEPT !.coins = f]
    BY <1>1 DEF Earn, GameType
  <1>4. \A q \in Players : q # p => f[q] = g.coins[q]
    BY <1>1
  <1> HIDE DEF f
  <1>5. /\ r \in GameType /\ r.phase = g.phase /\ r.turn = g.turn /\ r.next = g.next
        /\ r.dead = g.dead /\ r.coins = f /\ r.over = FALSE /\ r.resolving = FALSE
        /\ r.queue = <<>> /\ r.timer = FALSE /\ r.live = g.live /\ r.lost = g.lost
        /\ r.returned = g.returned
    BY <1>1, <1>2, <1>3 DEF GameType
  <1> HIDE DEF r
  <1>6. Ready(r, h)
    BY <1>2, <1>4, <1>5 DEF Ready, Purse, Settled
  <1> QED BY <1>2, <1>5, <1>6 DEF r

LEMMA IncomeSound ==
    ASSUME CoupAssumption, NEW h \in BOOLEAN, Sound(game, h), NEW p \in Players, Income(p)
    PROVE  Sound(game', h)
  <1>1. MainTurn(p) /\ game.coins[p] < Threshold /\ game' = EndTurn(Earn(game, p, 1))
    BY DEF Income, Free, Become
  <1>2. Ready(game, h) /\ game.next = "end_turn" /\ game.coins[p] \in Nat
    BY <1>1, FreeReady
  <1>3. game.coins[p] + 1 \in Nat /\ game.coins[p] + 1 <= Threshold - 1 + MostEarned /\ 1 \in Int
    <2>1. Threshold \in Nat
      BY DEF CoupAssumption
    <2> QED BY <1>1, <1>2, <2>1, EarnedMost
  <1>4. Ready(Earn(game, p, 1), h) /\ Earn(game, p, 1).next = "end_turn"
    BY <1>2, <1>3, PaidReady
  <1> QED BY <1>1, <1>4, EndTurnSound

\* _declare_action: a claim that somebody can answer.
LEMMA DeclareSound ==
    ASSUME CoupAssumption, NEW g, NEW h \in BOOLEAN, Ready(g, h), g.next = "end_turn",
           g.phase = "main", NEW p \in Players, p = Seats[g.turn], p \notin g.dead,
           Alive(g) \ {p} # {}, g.coins[p] < Threshold,
           NEW action \in Actions, NEW target \in Players \cup {None},
           action \in {"assassinate", "steal"} => target \in Players \ {p}
    PROVE  Sound(Declare(g, p, action, target), h)
  <1> DEFINE r == Declare(g, p, action, target)
  <1>1. g \in GameType /\ g.over = FALSE /\ g.resolving = FALSE /\ g.queue = <<>>
    BY DEF Ready, GameType
  <1>2. /\ r \in GameType /\ r.action = action /\ r.target = target /\ r.claimer = p
        /\ r.doer = p /\ r.phase = "action_declared" /\ r.timer = TRUE
        /\ r.over = FALSE /\ r.resolving = FALSE /\ r.queue = <<>> /\ r.turn = g.turn
        /\ r.next = "end_turn" /\ r.coins = g.coins /\ r.live = g.live /\ r.lost = g.lost
        /\ r.dead = g.dead /\ r.returned = g.returned
    BY <1>1 DEF Declare, GameType, Phases
  <1> HIDE DEF r
  <1>3. Asked(r)
    BY <1>2 DEF Asked, Pursued
  <1>4. Unpressed(r)
    BY <1>2, <1>3 DEF Unpressed, Alive
  <1> QED BY <1>2, <1>4 DEF Sound, LockInv, Fair, Purse, Ready, Settled, r

LEMMA ClaimSound ==
    ASSUME CoupAssumption, NEW h \in BOOLEAN, Sound(game, h), NEW p \in Players,
           NEW a \in {"foreign_aid", "tax", "exchange"}, Claim(p, a)
    PROVE  Sound(game', h)
  <1>1. MainTurn(p) /\ game.coins[p] < Threshold /\ game' = Declare(game, p, a, None)
    BY DEF Claim, Free, Become
  <1>2. a \in Actions /\ a \notin {"assassinate", "steal"}
    BY DEF Actions
  <1> QED BY <1>1, <1>2, FreeReady, DeclareSound

LEMMA StealSound ==
    ASSUME CoupAssumption, NEW h \in BOOLEAN, Sound(game, h), NEW p \in Players,
           NEW t \in Players, Steal(p, t)
    PROVE  Sound(game', h)
  <1>1. MainTurn(p) /\ game.coins[p] < Threshold /\ game' = Declare(game, p, "steal", t)
        /\ t # p
    BY DEF Steal, Free, Become, Others
  <1> QED BY <1>1, FreeReady, DeclareSound DEF Actions

LEMMA AssassinateSound ==
    ASSUME CoupAssumption, NEW h \in BOOLEAN, Sound(game, h), NEW p \in Players,
           NEW t \in Players, Assassinate(p, t)
    PROVE  Sound(game', h)
  <1> DEFINE r == Earn(game, p, -MurderCost)
  <1>1. MainTurn(p) /\ game.coins[p] < Threshold /\ game.coins[p] >= MurderCost
        /\ game' = Declare(r, p, "assassinate", t) /\ t # p
    BY DEF Assassinate, Free, Become, Others
  <1>2. /\ Ready(game, h) /\ game.next = "end_turn" /\ game.phase = "main"
        /\ p = Seats[game.turn] /\ p \notin game.dead /\ Alive(game) \ {p} # {}
        /\ game.coins \in [Players -> Nat]
    BY <1>1, FreeReady
  <1>3. /\ -MurderCost \in Int /\ game.coins[p] + -MurderCost \in Nat
        /\ game.coins[p] + -MurderCost <= Threshold - 1 + MostEarned
        /\ game.coins[p] + -MurderCost < Threshold
    <2>1. Threshold \in Nat /\ MurderCost \in Nat /\ game.coins[p] \in Nat
      BY <1>2 DEF CoupAssumption
    <2> QED BY <1>1, <2>1, EarnedMost
  <1>4. /\ Ready(r, h) /\ r.next = "end_turn" /\ r.phase = "main" /\ r.turn = game.turn
        /\ r.dead = game.dead /\ r.coins[p] = game.coins[p] + -MurderCost
    BY <1>2, <1>3, PaidReady
  <1>5. r.coins[p] < Threshold
    BY <1>3, <1>4
  <1> HIDE DEF r
  <1>6. Alive(r) \ {p} # {}
    BY <1>2, <1>4 DEF Alive
  <1> QED BY <1>1, <1>2, <1>4, <1>5, <1>6, DeclareSound DEF Actions

LEMMA PlayCoupSound ==
    ASSUME CoupAssumption, NEW h \in BOOLEAN, Sound(game, h), NEW p \in Players,
           NEW t \in Players, PlayCoup(p, t)
    PROVE  Sound(game', h)
  <1> DEFINE r == Earn(game, p, -CoupCost)
  <1>1. MainTurn(p) /\ game.coins[p] >= CoupCost
        /\ game' = Enqueue(r, "prompt_lose_influence", t)
    BY DEF PlayCoup, Become
  <1>2. /\ Ready(game, h) /\ game.next = "end_turn" /\ game.phase = "main"
        /\ game.coins[p] \in Nat
    BY <1>1, FreeReady
  <1>3. /\ -CoupCost \in Int /\ game.coins[p] + -CoupCost \in Nat
        /\ game.coins[p] + -CoupCost <= Threshold - 1 + MostEarned
    <2>1. game.coins[p] <= Threshold - 1 + MostEarned
      BY <1>2 DEF Ready, Purse
    <2>2. Threshold \in Nat /\ CoupCost \in Nat
      BY DEF CoupAssumption
    <2> QED BY <1>1, <1>2, <2>1, <2>2, EarnedMost
  <1>4. Ready(r, h) /\ r.next = "end_turn" /\ r.phase = "main"
    BY <1>2, <1>3, PaidReady
  <1> HIDE DEF r
  <1> QED BY <1>1, <1>4, EnqueueSound DEF Events, Continues

\* A player who may answer a claim.
LEMMA WindowOpen ==
    ASSUME CoupAssumption, NEW h \in BOOLEAN, Sound(game, h), NEW p \in Players, Window(p)
    PROVE  /\ game \in GameType /\ Asked(game) /\ Unpressed(game) /\ game.timer = TRUE
           /\ game.over = FALSE /\ game.resolving = FALSE /\ p \notin game.dead
           /\ p # game.claimer /\ Ready([game EXCEPT !.timer = FALSE], h)
           /\ game.phase \in {"action_declared", "waiting_block"}
  <1>1. ~game.over /\ ~game.resolving /\ p \notin game.dead /\ p # game.claimer
        /\ game.phase \in {"action_declared", "waiting_block"} /\ game \in GameType
    BY DEF Window, Unlocked, Alive, Sound
  <1>2. Ready([game EXCEPT !.timer = FALSE], h) /\ Unpressed(game)
    BY <1>1, StoppedReady
  <1>3. game.timer /\ Asked(game)
    BY <1>1, <1>2 DEF Unpressed
  <1> QED BY <1>1, <1>2, <1>3 DEF GameType

LEMMA ChallengeSound ==
    ASSUME CoupAssumption, NEW h \in BOOLEAN, Sound(game, h), NEW p \in Players, Challenge(p)
    PROVE  Sound(game', h)
  <1> DEFINE r == [game EXCEPT !.timer = FALSE]
  <1>1. Window(p) /\ game' = Enqueue(r, "resolve_challenge", p)
    BY DEF Challenge, Become
  <1>2. /\ game \in GameType /\ Asked(game) /\ p # game.claimer /\ Ready(r, h)
        /\ game.phase \in {"action_declared", "waiting_block"}
    BY <1>1, WindowOpen
  <1>3. /\ r.phase = game.phase /\ r.turn = game.turn /\ r.next = game.next
        /\ r.claimer = game.claimer /\ r.doer = game.doer /\ r.action = game.action
        /\ r.target = game.target /\ r.coins = game.coins /\ r.dead = game.dead
    BY <1>2 DEF GameType
  <1> HIDE DEF r
  <1>4. Asked(r)
    BY <1>2, <1>3, StillAsked
  <1> QED BY <1>1, <1>2, <1>3, <1>4, EnqueueSound DEF Events

LEMMA BlockSound ==
    ASSUME CoupAssumption, NEW h \in BOOLEAN, Sound(game, h), NEW p \in Players, Block(p)
    PROVE  Sound(game', h)
  <1>1. Window(p) /\ game.phase = "action_declared"
        /\ game' = [game EXCEPT !.phase = "waiting_block", !.claimer = p, !.timer = TRUE,
                                !.passed = {}]
    BY DEF Block, Become
  <1>2. /\ game \in GameType /\ Asked(game) /\ Unpressed(game)
        /\ game.over = FALSE /\ game.resolving = FALSE /\ p \notin game.dead
        /\ p # game.claimer
    BY <1>1, WindowOpen
  <1>3. /\ game' \in GameType /\ game'.phase = "waiting_block" /\ game'.claimer = p
        /\ game'.timer = TRUE /\ game'.over = FALSE /\ game'.resolving = FALSE
        /\ game'.queue = game.queue /\ game'.turn = game.turn /\ game'.next = game.next
        /\ game'.doer = game.doer /\ game'.action = game.action
        /\ game'.target = game.target /\ game'.coins = game.coins
        /\ game'.live = game.live /\ game'.lost = game.lost /\ game'.dead = game.dead
        /\ game'.returned = game.returned
    BY <1>1, <1>2 DEF GameType, Phases
  <1>4. game.doer \in Alive(game) \ {p} /\ game.doer = game.claimer
    BY <1>1, <1>2 DEF Asked, Pursued, Alive
  <1>5. Asked(game')
    BY <1>2, <1>3, <1>4 DEF Asked, Pursued
  <1>6. Unpressed(game')
    BY <1>2, <1>3, <1>4, <1>5 DEF Unpressed, Alive
  <1> QED BY <1>1, <1>3, <1>6 DEF Sound, LockInv, Fair, Purse

LEMMA PassSound ==
    ASSUME CoupAssumption, NEW h \in BOOLEAN, Sound(game, h), NEW p \in Players, Pass(p)
    PROVE  Sound(game', h)
  <1>1. Window(p) /\ \E t : game' = [game EXCEPT !.passed = game.passed \cup {p}, !.timer = @ \/ t]
    BY DEF Pass, Become
  <1>2. /\ game \in GameType /\ Asked(game) /\ Unpressed(game) /\ game.timer = TRUE
        /\ game.over = FALSE /\ game.resolving = FALSE
    BY <1>1, WindowOpen
  <1>3. game' = [game EXCEPT !.passed = game.passed \cup {p}, !.timer = TRUE]
    BY <1>1, <1>2 DEF GameType
  <1>4. /\ game' \in GameType /\ game'.phase = game.phase /\ game'.claimer = game.claimer
        /\ game'.timer = TRUE /\ game'.over = FALSE /\ game'.resolving = FALSE
        /\ game'.queue = game.queue /\ game'.turn = game.turn /\ game'.next = game.next
        /\ game'.doer = game.doer /\ game'.action = game.action
        /\ game'.target = game.target /\ game'.coins = game.coins
        /\ game'.live = game.live /\ game'.lost = game.lost /\ game'.dead = game.dead
        /\ game'.returned = game.returned
    BY <1>2, <1>3 DEF GameType
  <1>5. Asked(game')
    BY <1>2, <1>4, StillAsked
  <1>6. game.phase \in {"action_declared", "waiting_block"}
    BY <1>2 DEF Asked
  <1>7. Unpressed(game')
    BY <1>2, <1>4, <1>5, <1>6 DEF Unpressed, Alive
  <1>8. Fair(game', h) /\ Purse(game')
    BY <1>2, <1>4, <1>6 DEF Sound, Fair, Purse
  <1> QED BY <1>4, <1>7, <1>8 DEF Sound, LockInv

LEMMA LoseInfluenceSound ==
    ASSUME CoupAssumption, NEW h \in BOOLEAN, Sound(game, h), NEW p \in Players, LoseInfluence(p)
    PROVE  Sound(game', h)
  <1> DEFINE r == Reveal(game, p)
  <1>1. /\ game.over = FALSE /\ game.resolving = FALSE /\ game.phase = "losing_influence"
        /\ p = game.losing /\ game \in GameType /\ game' = Enqueue(r, "post_lose_influence", None)
    BY DEF LoseInfluence, Unlocked, Become, Sound, GameType
  <1>2. Unpressed(game)
    BY <1>1, StoppedReady
  <1>3. ~game.timer /\ game.live[p] >= 2 /\ Continues(game, p) /\ game.live[p] \in Nat
    BY <1>1, <1>2 DEF Unpressed, GameType
  <1>4. Ready(game, h) /\ game.queue = <<>> /\ game.timer = FALSE
    <2>1. ~game.over /\ ~game.resolving /\ game.phase # "exchanging"
      BY <1>1
    <2>2. Ready(game, h)
      BY <1>3, <2>1, StoppedReady
    <2> QED BY <1>1, <1>3, <2>2 DEF Ready, GameType
  <1>5. /\ r = [game EXCEPT !.live = LiveAfter(game, p), !.lost = LostAfter(game, p),
                            !.dead = DeadAfter(game, p)]
        /\ LiveAfter(game, p) \in [Players -> Nat] /\ LostAfter(game, p) \in [Players -> Nat]
        /\ DeadAfter(game, p) = game.dead
        /\ \A q \in Players :
              /\ LiveAfter(game, p)[q] = IF q = p THEN game.live[p] - 1 ELSE game.live[q]
              /\ LostAfter(game, p)[q] = IF q = p THEN game.lost[p] + 1 ELSE game.lost[q]
    <2>1. game.live[p] # 0
      BY <1>3
    <2>2. DeadAfter(game, p) = game.dead
      BY <1>3 DEF DeadAfter
    <2> QED BY <1>1, <2>1, <2>2, Revealed
  <1> HIDE DEF r
  <1>6. /\ r \in GameType /\ r.live = LiveAfter(game, p) /\ r.lost = LostAfter(game, p)
        /\ r.dead = game.dead /\ r.over = FALSE /\ r.resolving = FALSE
        /\ r.queue = <<>> /\ r.timer = FALSE
        /\ r.phase = game.phase /\ r.turn = game.turn /\ r.next = game.next
        /\ r.doer = game.doer /\ r.action = game.action /\ r.target = game.target
        /\ r.coins = game.coins /\ r.returned = game.returned
    BY <1>1, <1>4, <1>5 DEF GameType
  <1>7. Settled(r, h)
    <2>1. \A q \in Players : game.live[q] \in Nat /\ game.lost[q] \in Nat
      BY <1>1 DEF GameType
    <2> SUFFICES ASSUME ~h, NEW q \in Players
                 PROVE  /\ r.live[q] + r.lost[q] = 2 /\ ((q \in r.dead) <=> (r.live[q] = 0))
                        /\ r.returned = 0
      BY DEF Settled
    <2>2. game.live[q] + game.lost[q] = 2 /\ ((q \in game.dead) <=> (game.live[q] = 0))
          /\ game.returned = 0
      BY <1>4 DEF Ready, Settled
    <2>3. CASE q = p
      <3>1. r.live[q] = game.live[q] - 1 /\ r.lost[q] = game.lost[q] + 1
            /\ game.live[q] >= 2 /\ r.dead = game.dead /\ r.returned = game.returned
        BY <1>3, <1>5, <1>6, <2>3
      <3>2. game.live[q] \in Nat /\ game.lost[q] \in Nat
        BY <2>1
      <3>3. r.live[q] + r.lost[q] = 2 /\ r.live[q] # 0 /\ game.live[q] # 0
        <4>1. game.live[q] + game.lost[q] = 2
          BY <2>2
        <4>2. \A x, y \in Nat : x + y = 2 /\ x >= 2 => (x - 1) + (y + 1) = 2 /\ x - 1 # 0 /\ x # 0
          OBVIOUS
        <4> QED BY <3>1, <3>2, <4>1, <4>2
      <3> QED BY <2>2, <3>1, <3>3
    <2>4. CASE q # p
      BY <1>5, <1>6, <2>1, <2>2, <2>4
    <2> QED BY <2>3, <2>4
  <1>8. Ready(r, h)
    BY <1>4, <1>6, <1>7 DEF Ready, Purse
  <1>9. r.next = "resolve_action" => Pursued(r)
    BY <1>3, <1>6 DEF Continues, Pursued
  <1>10. r.phase # "exchanging" /\ "post_lose_influence" \in Events
    BY <1>1, <1>6 DEF Events
  <1> QED BY <1>1, <1>8, <1>9, <1>10, EnqueueSound

\* An exchange under way, while no seat changed hands in the middle of one.
LEMMA Exchanging ==
    ASSUME CoupAssumption, NEW h \in BOOLEAN, Sound(game, h), Unlocked, game.phase = "exchanging"
    PROVE  /\ game \in GameType /\ Current \in Players /\ Current = Seats[game.turn]
           /\ game.over = FALSE /\ game.resolving = FALSE /\ game.queue = <<>>
           /\ game.timer = FALSE /\ game.next = "end_turn" /\ Current \notin game.dead
           /\ ~h => /\ game.live[Current] + game.lost[Current] = 4 - game.returned
                    /\ game.lost[Current] <= 1
                    /\ \A q \in Players \ {Current} : game.live[q] + game.lost[q] = 2
                    /\ \A q \in Players : (q \in game.dead) <=> (game.live[q] = 0)
  <1>1. game \in GameType /\ ~game.over /\ ~game.resolving
    BY DEF Sound, Unlocked
  <1>2. Unpressed(game)
    BY <1>1 DEF Sound, LockInv
  <1>3. Current \in Players /\ Current = Seats[game.turn]
    BY <1>1, SeatTaken DEF Current, GameType
  <1> QED BY <1>1, <1>2, <1>3 DEF Unpressed, Sound, Fair, GameType

\* An exchange ends when the player is left with as many cards as before.
LEMMA ExchangedSound ==
    ASSUME CoupAssumption, NEW h \in BOOLEAN, Sound(game, h), Unlocked, game.phase = "exchanging",
           NEW live \in [Players -> Nat], NEW deck \in Int, NEW returned \in 0..1,
           \A q \in Players \ {Current} : live[q] = game.live[q],
           ~h => /\ live[Current] + game.lost[Current] = 2 /\ live[Current] # 0
                 /\ returned = 0
    PROVE  Sound(EndTurn([game EXCEPT !.live = live, !.deck = deck, !.returned = returned]), h)
  <1> DEFINE r == [game EXCEPT !.live = live, !.deck = deck, !.returned = returned]
  <1>1. /\ game \in GameType /\ Current \in Players
        /\ game.over = FALSE /\ game.resolving = FALSE /\ game.queue = <<>>
        /\ game.timer = FALSE /\ game.next = "end_turn" /\ Current \notin game.dead
        /\ ~h => /\ \A q \in Players \ {Current} : game.live[q] + game.lost[q] = 2
                 /\ \A q \in Players : (q \in game.dead) <=> (game.live[q] = 0)
    BY Exchanging
  <1>2. /\ r \in GameType /\ r.live = live /\ r.returned = returned /\ r.lost = game.lost
        /\ r.dead = game.dead /\ r.over = FALSE /\ r.resolving = FALSE /\ r.queue = <<>>
        /\ r.timer = FALSE /\ r.next = "end_turn" /\ r.coins = game.coins
    BY <1>1 DEF GameType
  <1> HIDE DEF r
  <1>3. Settled(r, h)
    BY <1>1, <1>2 DEF Settled
  <1>4. Ready(r, h)
    BY <1>2, <1>3 DEF Ready, Sound, Purse
  <1> QED BY <1>2, <1>4, EndTurnSound DEF r

\* _action_return_card: the first card is put back, or the second.
LEMMA ReturnCardSound ==
    ASSUME CoupAssumption, NEW h \in BOOLEAN, Sound(game, h), NEW p \in Players, ReturnCard(p)
    PROVE  Sound(game', h)
  <1> DEFINE live == [game.live EXCEPT ![p] = @ - 1]
             deck == game.deck + 1
             returned == 1 - game.returned
             r == [game EXCEPT !.live = live, !.deck = deck, !.returned = returned]
  <1>1. /\ Unlocked /\ game.phase = "exchanging" /\ p = Current /\ game.live[p] > 0
        /\ game' = IF game.returned = 0
                   THEN [game EXCEPT !.live[p] = @ - 1, !.deck = @ + 1, !.returned = 1 - @]
                   ELSE EndTurn([game EXCEPT !.live[p] = @ - 1, !.deck = @ + 1,
                                             !.returned = 1 - @])
    BY DEF ReturnCard, Become
  <1>2. /\ game \in GameType /\ p = Seats[game.turn]
        /\ game.over = FALSE /\ game.resolving = FALSE /\ game.queue = <<>>
        /\ game.timer = FALSE /\ game.next = "end_turn" /\ p \notin game.dead
        /\ ~h => /\ game.live[p] + game.lost[p] = 4 - game.returned
                 /\ game.lost[p] <= 1
                 /\ \A q \in Players \ {p} : game.live[q] + game.lost[q] = 2
                 /\ \A q \in Players : (q \in game.dead) <=> (game.live[q] = 0)
    BY <1>1, Exchanging
  <1>3. game.live \in [Players -> Nat] /\ game.lost \in [Players -> Nat]
        /\ game.returned \in 0..1 /\ deck \in Int /\ returned \in 0..1
    <2>1. game.live \in [Players -> Nat] /\ game.lost \in [Players -> Nat]
          /\ game.returned \in 0..1 /\ game.deck \in Int
      BY <1>2 DEF GameType
    <2> QED BY <2>1
  <1>4. /\ live \in [Players -> Nat] /\ live[p] = game.live[p] - 1
        /\ \A q \in Players \ {p} : live[q] = game.live[q]
    BY <1>1, <1>3
  <1>5. game' = IF game.returned = 0 THEN r ELSE EndTurn(r)
    BY <1>1, <1>2 DEF GameType
  <1> HIDE DEF live, deck
  <1>6. CASE game.returned = 0
    <2>1. /\ r \in GameType /\ r.live = live /\ r.returned = 1 /\ r.lost = game.lost
          /\ r.dead = game.dead /\ r.over = FALSE /\ r.resolving = FALSE /\ r.queue = <<>>
          /\ r.timer = FALSE /\ r.next = "end_turn" /\ r.coins = game.coins
          /\ r.phase = "exchanging" /\ r.turn = game.turn
      <3>1. returned = 1
        BY <1>6
      <3> HIDE DEF returned
      <3> QED BY <1>1, <1>2, <1>3, <1>4, <3>1 DEF GameType
    <2>2. game' = r
      BY <1>5, <1>6
    <2> HIDE DEF r
    <2>3. Unpressed(r)
      BY <1>2, <2>1 DEF Unpressed
    <2>4. Fair(r, h)
      <3>1. \A q \in Players : game.live[q] \in Nat /\ game.lost[q] \in Nat
        BY <1>3
      <3>2. p \notin bots
        BY DEF ReturnCard
      <3> SUFFICES ASSUME ~h
                   PROVE  /\ \A q \in Players : /\ r.live[q] + r.lost[q] = IF q = p THEN 3 ELSE 2
                                                /\ (q \in r.dead) <=> (r.live[q] = 0)
                          /\ r.lost[p] <= 1
        BY <1>2, <2>1, <3>2 DEF Fair
      <3>3. game.live[p] + game.lost[p] = 4 /\ game.lost[p] <= 1
        BY <1>2, <1>6
      <3>4. r.live[p] = game.live[p] - 1 /\ r.lost[p] = game.lost[p]
        BY <1>4, <2>1
      <3>5. p \in Players
        OBVIOUS
      <3>6. r.live[p] + r.lost[p] = 3 /\ r.live[p] # 0 /\ p \notin r.dead
        BY <1>2, <2>1, <3>1, <3>3, <3>4, <3>5
      <3>7. \A q \in Players \ {p} : r.live[q] = game.live[q] /\ r.lost[q] = game.lost[q]
        BY <1>4, <2>1
      <3>8. ASSUME NEW q \in Players, q # p
            PROVE  r.live[q] + r.lost[q] = 2 /\ ((q \in r.dead) <=> (r.live[q] = 0))
        <4>1. game.live[q] + game.lost[q] = 2 /\ ((q \in game.dead) <=> (game.live[q] = 0))
          BY <1>2, <3>8
        <4> QED BY <2>1, <3>7, <3>8, <4>1
      <3>9. r.lost[p] <= 1
        BY <3>3, <3>4
      <3> QED BY <3>6, <3>8, <3>9
    <2> QED BY <2>1, <2>2, <2>3, <2>4 DEF Sound, LockInv, Purse
  <1>7. CASE game.returned = 1
    <2>1. game' = EndTurn(r) /\ returned = 0
      BY <1>5, <1>7
    <2>2. ~h => live[Current] + game.lost[Current] = 2 /\ live[Current] # 0
      <3>1. game.live[p] \in Nat /\ game.lost[p] \in Nat
        BY <1>3
      <3> QED BY <1>1, <1>2, <1>4, <1>7, <3>1
    <2> HIDE DEF returned
    <2>3. \A q \in Players \ {Current} : live[q] = game.live[q]
      BY <1>1, <1>4
    <2> QED BY <1>1, <1>3, <1>4, <2>1, <2>2, <2>3, ExchangedSound
  <1> QED BY <1>3, <1>6, <1>7

\* CoupBot.bot_resolve_exchange: two cards at once.
LEMMA BotExchangeSound ==
    ASSUME CoupAssumption, NEW h \in BOOLEAN, Sound(game, h), NEW p \in Players, BotExchange(p)
    PROVE  Sound(game', h)
  <1> DEFINE kept == IF game.live[p] < 2 THEN 0 ELSE game.live[p] - 2
             live == [game.live EXCEPT ![p] = kept]
             deck == game.deck + game.live[p] - kept
             r == [game EXCEPT !.live = live, !.deck = deck, !.returned = game.returned]
  <1>1. /\ Unlocked /\ game.phase = "exchanging" /\ p = Current
        /\ game' = EndTurn([game EXCEPT !.live[p] = kept, !.deck = @ + game.live[p] - kept])
    BY DEF BotExchange, Become
  <1>2. /\ game \in GameType
        /\ ~h => game.live[p] + game.lost[p] = 4 - game.returned /\ game.lost[p] <= 1
    BY <1>1, Exchanging
  <1>0. ~h => game.returned = 0
    <2>1. ~game.over /\ p = Seats[game.turn] /\ p \in bots /\ game.returned \in 0..1
      BY <1>1, <1>2 DEF BotExchange, Unlocked, Current, GameType
    <2> QED BY <1>1, <2>1 DEF Sound, Fair
  <1>3. game.live \in [Players -> Nat] /\ game.live[p] \in Nat /\ game.lost[p] \in Nat
        /\ game.returned \in 0..1 /\ game.deck \in Int
    BY <1>2 DEF GameType
  <1>4. kept \in Nat /\ deck \in Int /\ (~h => kept + game.lost[p] = 2 /\ kept # 0)
    BY <1>0, <1>2, <1>3
  <1> HIDE DEF kept
  <1>5. game' = EndTurn(r)
    BY <1>1, <1>2 DEF GameType
  <1>6. live \in [Players -> Nat] /\ live[p] = kept
        /\ \A q \in Players \ {p} : live[q] = game.live[q]
    BY <1>3, <1>4
  <1> HIDE DEF live, deck
  <1> QED BY <1>0, <1>1, <1>3, <1>4, <1>5, <1>6, ExchangedSound
-----------------------------------------------------------------------------
LEMMA CoupInit == ASSUME CoupAssumption, Init PROVE CoupInv
  <1>1. 1 \in DOMAIN Seats /\ Len(Seats) \in Nat /\ Seats[1] \in Players
        /\ IsFiniteSet(Players)
    BY SeatTaken
  <1>2. Start \in Nat /\ Cards - 2 * Len(Seats) \in Int /\ <<>> \in Seq(Queued)
    BY <1>1 DEF CoupAssumption
  <1>3. game \in GameType
    BY <1>1, <1>2 DEF Init, GameType, Phases
  <1>4. Players \ {Seats[1]} # {}
    <2>1. Cardinality(Players) \in Nat /\ Cardinality(Players) >= 2
      BY <1>1, FS_CardinalityType DEF CoupAssumption
    <2>2. Cardinality(Players \ {Seats[1]}) = Cardinality(Players) - 1
          /\ IsFiniteSet(Players \ {Seats[1]})
      BY <1>1, FS_RemoveElement
    <2> QED BY <2>1, <2>2, FS_EmptySet
  <1>5. LockInv(game)
    BY <1>1, <1>4 DEF Init, LockInv, Unpressed, Alive
  <1>6. Fair(game, halfway)
    BY DEF Init, Fair
  <1>7. Purse(game)
    <2>1. Start <= Threshold - 1 + MostEarned
      <3>1. Start \in Nat /\ Threshold \in Nat /\ Start <= Threshold
        BY DEF CoupAssumption
      <3> QED BY <3>1, EarnedMost
    <2> QED BY <2>1 DEF Init, Purse
  <1>8. bots \subseteq Players /\ swaps \in 0..MaxSwaps /\ halfway \in BOOLEAN
    <2>1. StartBots \subseteq Players /\ MaxSwaps \in Nat
      BY DEF CoupAssumption
    <2>2. bots = StartBots /\ swaps = 0 /\ halfway = FALSE
      BY DEF Init
    <2>3. swaps \in 0..MaxSwaps
      BY <2>1, <2>2
    <2>4. halfway \in BOOLEAN
      BY <2>2
    <2> QED BY <2>1, <2>2, <2>3, <2>4
  <1> QED BY <1>3, <1>5, <1>6, <1>7, <1>8 DEF CoupInv, Sound

LEMMA SwapKeeps ==
    ASSUME CoupAssumption, CoupInv, NEW p \in Players, Swap(p)
    PROVE  CoupInv'
  <1>1. game' = game /\ halfway' = (halfway \/ (game.phase = "exchanging" /\ p = Current
                                                /\ game.returned = 1))
    BY DEF Swap
  <1>2. bots' \subseteq Players
    BY DEF CoupInv, Swap
  <1>3. swaps' \in 0..MaxSwaps
    BY DEF CoupInv, Swap, CoupAssumption
  <1>4. halfway' \in BOOLEAN
    BY <1>1 DEF CoupInv
  <1>5. Fair(game, halfway)'
    <2>1. \A q : q \in bots' /\ q # p => q \in bots
      BY DEF Swap
    <2>2. ~halfway' => ~halfway /\ ~(game.phase = "exchanging" /\ p = Seats[game.turn]
                                    /\ game.returned = 1)
      BY <1>1 DEF Current
    <2> QED BY <1>1, <2>1, <2>2 DEF CoupInv, Sound, Fair
  <1>6. LockInv(game)' /\ Purse(game)' /\ (game \in GameType)'
    BY <1>1 DEF CoupInv, Sound, LockInv, Purse, Unpressed, Awaits, Asked, Continues, Pursued,
                Alive
  <1> QED BY <1>2, <1>3, <1>4, <1>5, <1>6 DEF CoupInv, Sound

LEMMA CoupStep == ASSUME CoupAssumption, CoupInv, [Next]_vars PROVE CoupInv'
  <1>1. CASE \E p \in Players : Swap(p)
    BY <1>1, SwapKeeps
  <1>2. ASSUME Sound(game', halfway), UNCHANGED <<bots, swaps, halfway>> PROVE CoupInv'
    <2>1. Sound(game, halfway)'
      BY <1>2 DEF Sound, LockInv, Fair, Purse, Unpressed, Awaits, Asked, Continues, Pursued,
                  Alive
    <2> QED BY <1>2, <2>1 DEF CoupInv
  <1>3. CASE UNCHANGED vars
    BY <1>2, <1>3 DEF vars, CoupInv
  <1>4. CASE Tick
    <2>1. Sound(game', halfway)
      BY <1>4, FireSound, ExpireSound DEF Tick, CoupInv
    <2>2. UNCHANGED <<bots, swaps, halfway>>
      BY <1>4 DEF Tick, Fire, Expire, Become
    <2> QED BY <1>2, <2>1, <2>2
  <1>5. ASSUME NEW p \in Players, Key(p) PROVE CoupInv'
    <2>1. Sound(game, halfway) /\ halfway \in BOOLEAN
      BY DEF CoupInv
    <2>2. Sound(game', halfway)
      BY <1>5, <2>1, IncomeSound, ClaimSound, StealSound, AssassinateSound, PlayCoupSound,
         ChallengeSound, BlockSound, PassSound, LoseInfluenceSound, ReturnCardSound,
         BotExchangeSound
         DEF Key
    <2>3. UNCHANGED <<bots, swaps, halfway>>
      BY <1>5 DEF Key, Income, Claim, Steal, Assassinate, PlayCoup, Challenge, Block, Pass,
                  LoseInfluence, ReturnCard, BotExchange, Become
    <2> QED BY <1>2, <2>2, <2>3
  <1> QED BY <1>1, <1>3, <1>4, <1>5 DEF Next

\* Coup never freezes: its keys are locked if and only if one event is queued that unlocks
\* them, and while they are not, somebody can move the game on (_handle_event, _enqueue).
THEOREM NeverFrozenForAll ==
    ASSUME CoupAssumption
    PROVE  Spec => []NeverFrozen
  <1>1. Init => CoupInv
    BY CoupInit
  <1>2. CoupInv /\ [Next]_vars => CoupInv'
    BY CoupStep
  <1>3. CoupInv => NeverFrozen
    <2> SUFFICES ASSUME CoupInv, ~game.over PROVE NeverFrozen
      BY DEF NeverFrozen
    <2>1. LockInv(game) /\ game \in GameType
      BY DEF CoupInv, Sound
    <2>2. CASE game.resolving
      <3>1. ~game.timer /\ \E e \in Queued : game.queue = <<e>>
        BY <2>1, <2>2 DEF LockInv, Awaits
      <3>2. Len(game.queue) = 1
        BY <3>1
      <3> QED BY <2>2, <3>1, <3>2 DEF NeverFrozen
    <2>3. CASE ~game.resolving
      <3>1. Unpressed(game) /\ Len(game.queue) = 0
        BY <2>1, <2>3 DEF LockInv, Unpressed
      <3>2. game.phase \in Phases /\ Current \in Players /\ Current = Seats[game.turn]
        BY <2>1, SeatTaken DEF GameType, Current
      <3>3. CASE game.phase \in {"main", "exchanging"}
        BY <2>3, <3>1, <3>2, <3>3 DEF NeverFrozen, Unpressed, Alive
      <3>4. CASE game.phase = "losing_influence"
        BY <2>3, <3>1, <3>4 DEF NeverFrozen, Unpressed, Alive
      <3>5. CASE game.phase \in {"action_declared", "waiting_block"}
        <4>1. game.timer /\ game.claimer \in Alive(game) /\ game.doer \in Alive(game)
              /\ Others(game.claimer) # {}
          BY <3>1, <3>2, <3>5 DEF Unpressed, Asked, Pursued, Alive, Others, Current
        <4> QED BY <2>3, <3>1, <3>5, <4>1 DEF NeverFrozen
      <3> QED BY <3>2, <3>3, <3>4, <3>5 DEF Phases
    <2> QED BY <2>2, <2>3
  <1> QED BY <1>1, <1>2, <1>3, PTL DEF Spec

\* Whatever is claimed, challenged and blocked, everybody has two influences, face up or
\* down, and a purse no bigger than what forces a coup and one action more.
THEOREM StakesKeptForAll ==
    ASSUME CoupAssumption
    PROVE  Spec => []StakesKept
  <1>1. Init => CoupInv
    BY CoupInit
  <1>2. CoupInv /\ [Next]_vars => CoupInv'
    BY CoupStep
  <1>3. CoupInv => StakesKept
    <2> SUFFICES ASSUME CoupInv PROVE StakesKept
      OBVIOUS
    <2>1. InfluencesFair
      BY DEF CoupInv, Sound, Fair, InfluencesFair, Current
    <2>2. PurseBounded
      <3>1. \A p \in Players : game.coins[p] \in Nat
            /\ game.coins[p] <= Threshold - 1 + Max({1, Aid, Tax, Loot})
        BY DEF CoupInv, Sound, GameType, Purse, MostEarned
      <3>2. Threshold - 1 + Max({1, Aid, Tax, Loot}) \in Int
        <4>1. MostEarned \in Nat /\ Threshold \in Nat
          BY EarnedMost DEF CoupAssumption
        <4> QED BY <4>1 DEF MostEarned
      <3> QED BY <3>1, <3>2 DEF PurseBounded
    <2> QED BY <2>1, <2>2 DEF StakesKept
  <1> QED BY <1>1, <1>2, <1>3, PTL DEF Spec
-----------------------------------------------------------------------------
(* Dead Man's Deck.                                                        *)

\* Two players or more in an order; everybody is dealt a card at least.
TableAssumption ==
    /\ Seats \in Seq(Deck!Players) /\ \A i, j \in DOMAIN Seats : Seats[i] = Seats[j] => i = j
    /\ Cardinality(Deck!Players) >= 2
    /\ HandSize \in Nat \ {0} /\ Chambers \in Nat \ {0} /\ MaxClaim \in Nat
    /\ None \notin Deck!Players /\ None \notin [by : Deck!Players, true : BOOLEAN]

Alone(name, beats) == [n \in Deck!Names |-> IF n = name THEN beats ELSE <<>>]

StateInv ==
    /\ hands \in [Deck!Players -> [good : Nat, bad : Nat]] /\ eliminated \subseteq Deck!Players
    /\ bullet \in [Deck!Players -> Nat] /\ chamber \in [Deck!Players -> Nat]
    /\ claim \in [by : Deck!Players, true : BOOLEAN] \cup {None}
    /\ starter \in Deck!Players \cup {None}
    /\ \A p \in Deck!Players : chamber[p] <= bullet[p]
    /\ \A p \in eliminated : chamber[p] = bullet[p] /\ Deck!Empty(hands[p])
    /\ Cardinality(Deck!Alive) >= 1

AtTurn == /\ active = Deck!Idle(Deck!Names) /\ Cardinality(Deck!Alive) >= 2
          /\ turn \in Deck!Holders(hands) /\ (claim # None => claim.by \in Deck!Alive \ {turn})
AtPreparation == /\ active = Alone("preparation", <<"finish_preparation">>)
                 /\ Cardinality(Deck!Alive) >= 2
AtRoundStart == /\ active = Alone("round_start", <<"announce_round_start">>)
                /\ Cardinality(Deck!Alive) >= 2 /\ turn \in Deck!Alive /\ claim = None
AtClaim == /\ active = Alone("claim", <<"finish_claim">>) /\ Cardinality(Deck!Alive) >= 2
           /\ claim # None /\ claim.by = turn /\ turn \in Deck!Alive
AtChallenge == /\ active = Alone("challenge", <<"finish_challenge">>)
               /\ Cardinality(Deck!Alive) >= 2 /\ penalty \in Deck!Alive
AtRoulette ==
    /\ penalty \in Deck!Players
    /\ \/ /\ active = Alone("roulette", <<"announce_roulette_elimination",
                                          "finish_roulette_elimination">>)
          /\ penalty \in Deck!Alive /\ Cardinality(Deck!Alive) >= 2
          /\ chamber[penalty] = bullet[penalty]
       \/ /\ active = Alone("roulette", <<"announce_roulette_survival",
                                          "finish_roulette_survival">>)
          /\ penalty \in Deck!Alive /\ Cardinality(Deck!Alive) >= 2
          /\ chamber[penalty] < bullet[penalty]
       \/ active = Alone("roulette", <<"finish_roulette_elimination">>)
       \/ active = Alone("roulette", <<"finish_roulette_survival">>)
AtGameOver == /\ Cardinality(Deck!Alive) = 1
              /\ active = IF over THEN Deck!Idle(Deck!Names)
                          ELSE Alone("game_over", <<"finish_game">>)

PhaseInv ==
    /\ phase \in Deck!Phases
    /\ phase = "playing" => AtTurn
    /\ phase = "preparing" => AtPreparation
    /\ phase = "round_start" => AtRoundStart
    /\ phase = "claim" => AtClaim
    /\ phase = "challenge" => AtChallenge
    /\ phase = "roulette" => AtRoulette
    /\ phase = "game_over" => AtGameOver
    /\ over \in BOOLEAN /\ (over => phase = "game_over")

DeckInv == StateInv /\ PhaseInv
-----------------------------------------------------------------------------
(* Numbers, sets and seats.                                                *)

\* DeadMansDeck has its own copy of the operators of FiniteSets.
LEMMA SameCount == \A S : Deck!Cardinality(S) = Cardinality(S)
  BY DEF Deck!Cardinality, Cardinality, Deck!IsFiniteSet, IsFiniteSet

LEMMA PlayersFinite ==
    ASSUME TableAssumption
    PROVE  IsFiniteSet(Deck!Players) /\ \A S \in SUBSET Deck!Players : IsFiniteSet(S)
                                                          /\ Cardinality(S) \in Nat
  <1>1. Seats \in Surjection(1..Len(Seats), Deck!Players) /\ Len(Seats) \in Nat
    <2>1. Seats \in [1..Len(Seats) -> Deck!Players] /\ Len(Seats) \in Nat
          /\ DOMAIN Seats = 1..Len(Seats)
      BY DEF TableAssumption
    <2>2. \A p \in Deck!Players : \E i \in 1..Len(Seats) : Seats[i] = p
      BY <2>1 DEF Deck!Players
    <2> QED BY <2>1, <2>2 DEF Surjection
  <1>2. IsFiniteSet(Deck!Players)
    BY <1>1, FS_NatSurjection DEF ExistsSurjection
  <1> QED BY <1>2, FS_Subset, FS_CardinalityType

\* Everybody has a seat.
LEMMA SeatOf ==
    ASSUME TableAssumption, NEW p \in Deck!Players
    PROVE  Len(Seats) \in Nat /\ Deck!Seat(p) \in 1..Len(Seats) /\ Seats[Deck!Seat(p)] = p
  BY DEF TableAssumption, Deck!Players, Deck!Seat

\* From any seat on, somebody in S comes first.
LEMMA FirstOf ==
    ASSUME TableAssumption, NEW p \in Deck!Players, NEW S \in SUBSET Deck!Players, S # {}
    PROVE  /\ Deck!First(p, S) \in S
           /\ \A r \in S : Deck!Distance(p, Deck!First(p, S)) <= Deck!Distance(p, r)
  <1> DEFINE Reach == {Deck!Distance(p, r) : r \in S}
  <1>1. \A r \in S : Deck!Distance(p, r) \in Nat
    BY SeatOf DEF Deck!Distance
  <1>2. Reach \in SUBSET Nat /\ Reach # {}
    BY <1>1
  <1>3. PICK m \in Reach : \A n \in Reach : m <= n
    <2> HIDE DEF Reach
    <2> QED BY <1>2, Least
  <1>4. PICK q \in S : \A r \in S : Deck!Distance(p, q) <= Deck!Distance(p, r)
    BY <1>3
  <1> QED BY <1>4 DEF Deck!First

\* Who has just played comes last of all.
LEMMA TurnPasses ==
    ASSUME TableAssumption, NEW p \in Deck!Players, NEW S \in SUBSET Deck!Players, NEW q \in S,
           q # p
    PROVE  Deck!First(Deck!After(p), S) \in S \ {p}
  <1>1. Deck!After(p) \in Deck!Players
    BY SeatOf DEF Deck!After, Deck!Players, TableAssumption
  <1>2. Deck!Seat(Deck!After(p)) = IF Deck!Seat(p) = Len(Seats) THEN 1 ELSE Deck!Seat(p) + 1
    <2> DEFINE i == IF Deck!Seat(p) = Len(Seats) THEN 1 ELSE Deck!Seat(p) + 1
    <2>1. i \in DOMAIN Seats /\ Deck!After(p) = Seats[i]
      BY SeatOf DEF Deck!After, TableAssumption
    <2>2. Deck!Seat(Deck!After(p)) \in DOMAIN Seats /\ Seats[Deck!Seat(Deck!After(p))] = Seats[i]
      <3>1. \A r \in Deck!Players : Deck!Seat(r) \in 1..Len(Seats) /\ Seats[Deck!Seat(r)] = r
        BY SeatOf
      <3>2. DOMAIN Seats = 1..Len(Seats)
        BY DEF TableAssumption
      <3> QED BY <1>1, <2>1, <3>1, <3>2
    <2> HIDE DEF i
    <2>3. Deck!Seat(Deck!After(p)) = i
      BY <2>1, <2>2 DEF TableAssumption
    <2> QED BY <2>3 DEF i
  <1>3. Deck!Seat(q) # Deck!Seat(p)
    BY SeatOf
  <1>4. Deck!Distance(Deck!After(p), q) < Deck!Distance(Deck!After(p), p)
    BY <1>2, <1>3, SeatOf DEF Deck!Distance
  <1>5. Deck!Distance(Deck!After(p), q) \in Int /\ Deck!Distance(Deck!After(p), p) \in Int
    BY <1>1, SeatOf DEF Deck!Distance
  <1> QED BY <1>1, <1>4, <1>5, FirstOf

\* Two players alive are enough to have another one.
LEMMA Another ==
    ASSUME TableAssumption, NEW S \in SUBSET Deck!Players, Cardinality(S) >= 2, NEW p
    PROVE  \E q \in S : q # p
  <1>1. IsFiniteSet(S) /\ Cardinality(S) \in Nat
    BY PlayersFinite
  <1>2. Cardinality(S \ {p}) # 0 /\ IsFiniteSet(S \ {p})
    BY <1>1, FS_RemoveElement
  <1> QED BY <1>2, FS_EmptySet
-----------------------------------------------------------------------------
(* Sequences.                                                              *)

\* A sequence of one beat, while its callback is executed, and after it.
LEMMA OneBeat ==
    ASSUME NEW name \in Deck!Names, NEW beat, active = Alone(name, <<beat>>)
    PROVE  /\ Deck!Running(active) = {name}
           /\ Deck!Played(active, name) = Deck!Idle(Deck!Names)
           /\ \A n, b : Deck!Due(active, n, b) /\ n \in Deck!Names => n = name /\ b = beat
           /\ \A n \in Deck!Names \ {name} : \A bs :
                 Deck!Played(Deck!Started(active, n, bs), name) = Alone(n, bs)
  <1>1. /\ active = [n \in Deck!Names |-> IF n = name THEN <<beat>> ELSE <<>>]
        /\ Head(<<beat>>) = beat /\ Tail(<<beat>>) = <<>> /\ <<beat>> # <<>>
    BY DEF Alone
  <1>2. Deck!Running(active) = {name}
    <2>1. DOMAIN active = Deck!Names /\ \A n \in Deck!Names : active[n] # <<>> <=> n = name
      BY <1>1
    <2> QED BY <2>1 DEF Deck!Running
  <1>3. Deck!Played(active, name) = Deck!Idle(Deck!Names)
    BY <1>1 DEF Deck!Played, Deck!Idle
  <1>4. \A n, b : Deck!Due(active, n, b) /\ n \in Deck!Names => n = name /\ b = beat
    BY <1>1 DEF Deck!Due
  <1>5. ASSUME NEW n \in Deck!Names \ {name}, NEW bs
        PROVE  Deck!Played(Deck!Started(active, n, bs), name) = Alone(n, bs)
    BY <1>1 DEF Deck!Played, Deck!Started, Alone
  <1> QED BY <1>2, <1>3, <1>4, <1>5

LEMMA TwoBeats ==
    ASSUME NEW name \in Deck!Names, NEW first, NEW second, active = Alone(name, <<first, second>>)
    PROVE  Deck!Played(active, name) = Alone(name, <<second>>)
  <1>1. /\ active = [n \in Deck!Names |-> IF n = name THEN <<first, second>> ELSE <<>>]
        /\ Tail(<<first, second>>) = <<second>> /\ <<first, second>> # <<>>
    BY DEF Alone
  <1> QED BY <1>1 DEF Deck!Played, Alone

LEMMA OverBeat ==
    ASSUME NEW name \in Deck!Names \ {"game_over"}, NEW beat,
           active = Alone(name, <<beat>>)
    PROVE  Deck!Played(Deck!Started(Deck!Cancelled(active, Deck!Names \ {"preparation"}),
                                    "game_over", <<"finish_game">>), name)
           = Alone("game_over", <<"finish_game">>)
  <1> DEFINE rest == Deck!Cancelled(active, Deck!Names \ {"preparation"})
             begun == Deck!Started(rest, "game_over", <<"finish_game">>)
  <1>1. /\ active = [n \in Deck!Names |-> IF n = name THEN <<beat>> ELSE <<>>]
        /\ Tail(<<beat>>) = <<>> /\ <<beat>> # <<>> /\ "game_over" \in Deck!Names
    BY DEF Alone, Deck!Names
  <1>2. rest = [n \in Deck!Names |-> IF n \in Deck!Names \ {"preparation"} THEN <<>> ELSE active[n]]
    BY <1>1 DEF Deck!Cancelled
  <1>3. begun = [n \in Deck!Names |-> IF n = "game_over" THEN <<"finish_game">>
                                 ELSE IF n = "preparation" THEN active[n] ELSE <<>>]
    BY <1>1, <1>2 DEF Deck!Started, Deck!Names
  <1>4. Deck!Played(begun, name) =
            [n \in Deck!Names |-> IF n = "game_over" THEN <<"finish_game">> ELSE <<>>]
    BY <1>1, <1>3 DEF Deck!Played
  <1> QED BY <1>4 DEF Alone
-----------------------------------------------------------------------------
(* The steps.                                                              *)

LEMMA DeckInit == ASSUME TableAssumption, Deck!Init PROVE DeckInv
  <1>1. Deck!Alive = Deck!Players
    BY DEF Deck!Init, Deck!Alive
  <1>2. active = Alone("preparation", <<"finish_preparation">>)
    BY DEF Deck!Init, Deck!Started, Deck!Idle, Alone, Deck!Names
  <1>3. StateInv
    <2>1. /\ hands \in [Deck!Players -> [good : Nat, bad : Nat]] /\ eliminated = {}
          /\ claim = None /\ starter = None
      BY DEF Deck!Init, Deck!NoCards
    <2>2. bullet \in [Deck!Players -> Nat] /\ chamber \in [Deck!Players -> Nat]
          /\ \A p \in Deck!Players : chamber[p] <= bullet[p]
      BY DEF Deck!Init, TableAssumption
    <2>3. Cardinality(Deck!Alive) >= 1
      BY <1>1, PlayersFinite DEF TableAssumption
    <2> QED BY <2>1, <2>2, <2>3 DEF StateInv
  <1>4. PhaseInv
    BY <1>1, <1>2 DEF Deck!Init, PhaseInv, Deck!Phases, AtPreparation, TableAssumption
  <1> QED BY <1>3, <1>4 DEF DeckInv

\* _start_round, called from the last beat of another sequence.
LEMMA RoundKeeps ==
    ASSUME TableAssumption, StateInv, over = FALSE, NEW name \in Deck!Names \ {"round_start",
           "game_over"},
           NEW beat, active = Alone(name, <<beat>>), Deck!StartRound(name),
           UNCHANGED <<eliminated, bullet, chamber, over>>
    PROVE  DeckInv'
  <1>1. /\ Deck!Alive' = Deck!Alive /\ Deck!Alive \in SUBSET Deck!Players
        /\ Cardinality(Deck!Alive) \in Nat
        /\ Cardinality(Deck!Alive) >= 1
    BY PlayersFinite DEF Deck!Alive, StateInv
  <1>2. CASE Cardinality(Deck!Alive) <= 1
    <2>1. Deck!GameOver(name)
      BY <1>2, SameCount DEF Deck!StartRound
    <2>2. active' = Alone("game_over", <<"finish_game">>)
      BY <2>1, OverBeat DEF Deck!GameOver
    <2>3. StateInv'
      BY <1>1, <2>1 DEF StateInv, Deck!GameOver
    <2>4. PhaseInv'
      <3>1. phase' = "game_over" /\ over' = FALSE /\ Cardinality(Deck!Alive') = 1
        BY <1>1, <1>2, <2>1 DEF Deck!GameOver
      <3>2. AtGameOver'
        BY <2>2, <3>1 DEF AtGameOver
      <3> QED BY <3>1, <3>2 DEF PhaseInv, Deck!Phases
    <2> QED BY <2>3, <2>4 DEF DeckInv
  <1>3. CASE Cardinality(Deck!Alive) > 1
    <2>1. /\ phase' = "round_start" /\ claim' = None /\ starter' = None
          /\ hands' = [p \in Deck!Players |-> IF p \in Deck!Alive THEN Deck!NoCards ELSE hands[p]]
          /\ IF starter = None THEN turn' \in Deck!Alive
             ELSE turn' = Deck!First(starter, Deck!Alive)
          /\ active' = Deck!Played(Deck!Started(active, "round_start",
                                                <<"announce_round_start">>), name)
      BY <1>1, <1>3, SameCount DEF Deck!StartRound
    <2>2. active' = Alone("round_start", <<"announce_round_start">>)
      BY <2>1, OneBeat DEF Deck!Names
    <2>3. turn' \in Deck!Alive
      <3>1. Deck!Alive # {}
        BY <1>3, FS_EmptySet
      <3> QED BY <1>1, <2>1, <3>1, FirstOf DEF StateInv
    <2>4. StateInv'
      <3>1. hands' \in [Deck!Players -> [good : Nat, bad : Nat]]
        BY <2>1 DEF StateInv, Deck!NoCards
      <3>2. \A p \in eliminated : Deck!Empty(hands[p])'
        BY <2>1 DEF StateInv, Deck!Alive, Deck!Empty, Deck!NoCards
      <3> QED BY <1>1, <2>1, <3>1, <3>2 DEF StateInv, Deck!Empty, Deck!NoCards
    <2>5. PhaseInv'
      <3>1. AtRoundStart'
        BY <1>1, <1>3, <2>1, <2>2, <2>3 DEF AtRoundStart
      <3> QED BY <2>1, <3>1 DEF PhaseInv, Deck!Phases
    <2> QED BY <2>4, <2>5 DEF DeckInv
  <1> QED BY <1>1, <1>2, <1>3

LEMMA PreparedKeeps == ASSUME TableAssumption, DeckInv, Deck!Prepared PROVE DeckInv'
  <1>1. phase = "preparing"
    BY DEF Deck!Prepared, Deck!Due, DeckInv, PhaseInv, Deck!Phases, AtTurn, AtRoundStart, AtClaim,
           AtChallenge,
           AtRoulette, AtGameOver, Deck!Idle, Alone, Deck!Names
  <1>2. active = Alone("preparation", <<"finish_preparation">>) /\ over = FALSE
    BY <1>1 DEF DeckInv, PhaseInv, AtPreparation
  <1>3. /\ Deck!StartRound("preparation") /\ UNCHANGED <<eliminated, bullet, chamber, over>>
        /\ StateInv
    BY DEF Deck!Prepared, DeckInv
  <1>4. "preparation" \in Deck!Names \ {"round_start", "game_over"}
    BY DEF Deck!Names
  <1> QED BY <1>2, <1>3, <1>4, RoundKeeps

LEMMA RoundStartsKeeps == ASSUME TableAssumption, DeckInv, Deck!RoundStarts PROVE DeckInv'
  <1>1. phase = "round_start"
    BY DEF Deck!RoundStarts, Deck!Due, DeckInv, PhaseInv, Deck!Phases, AtTurn, AtPreparation,
           AtClaim, AtChallenge,
           AtRoulette, AtGameOver, Deck!Idle, Alone, Deck!Names
  <1>2. AtRoundStart /\ over = FALSE
    BY <1>1 DEF DeckInv, PhaseInv
  <1>3. active' = Deck!Idle(Deck!Names)
    <2>1. active = Alone("round_start", <<"announce_round_start">>) /\ "round_start" \in Deck!Names
      BY <1>2 DEF AtRoundStart, Deck!Names
    <2> QED BY <2>1, OneBeat DEF Deck!RoundStarts
  <1>4. PICK dealt \in [Deck!Alive -> 0..HandSize] :
            hands' = [p \in Deck!Players |-> IF p \in Deck!Alive
                         THEN [good |-> dealt[p], bad |-> HandSize - dealt[p]] ELSE hands[p]]
    BY DEF Deck!RoundStarts
  <1>5. hands' \in [Deck!Players -> [good : Nat, bad : Nat]]
    <2>1. \A p \in Deck!Alive : dealt[p] \in Nat /\ HandSize - dealt[p] \in Nat
      BY DEF TableAssumption
    <2> QED BY <1>4, <2>1 DEF DeckInv, StateInv
  <1>6. \A p \in Deck!Alive : p \in Deck!Players /\ hands'[p] # Deck!NoCards
    <2> SUFFICES ASSUME NEW p \in Deck!Alive PROVE p \in Deck!Players /\ hands'[p] # Deck!NoCards
      OBVIOUS
    <2>1. p \in Deck!Players /\ hands'[p].good = dealt[p] /\ hands'[p].bad = HandSize - dealt[p]
      BY <1>4 DEF Deck!Alive
    <2>2. dealt[p] \in 0..HandSize /\ HandSize \in Nat \ {0}
      BY DEF TableAssumption
    <2> QED BY <2>1, <2>2 DEF Deck!NoCards
  <1>7. /\ Deck!Alive' = Deck!Alive /\ claim' = None /\ turn' = turn
        /\ phase' = "playing" /\ over' = FALSE
    BY <1>2 DEF Deck!RoundStarts, Deck!Alive, AtRoundStart
  <1>8. StateInv'
    <2>1. \A p \in eliminated : Deck!Empty(hands[p])'
      BY <1>4 DEF DeckInv, StateInv, Deck!Alive, Deck!Empty
    <2> QED BY <1>5, <1>7, <2>1 DEF DeckInv, StateInv, Deck!RoundStarts, Deck!Empty
  <1>9. AtTurn'
    BY <1>2, <1>3, <1>6, <1>7 DEF AtTurn, AtRoundStart, Deck!Holders, Deck!Empty
  <1> QED BY <1>7, <1>8, <1>9 DEF DeckInv, PhaseInv, Deck!Phases

\* Who is alive challenges: the penalty is for somebody alive.
LEMMA ChallengeKeeps ==
    ASSUME TableAssumption, StateInv, over = FALSE, NEW p \in Deck!Alive, claim # None,
           claim.by \in Deck!Alive, Cardinality(Deck!Alive) >= 2,
           Deck!Challenge(p, Deck!Idle(Deck!Names)),
           UNCHANGED <<hands, eliminated, bullet, chamber, claim, starter, over>>
    PROVE  DeckInv'
  <1>1. active' = Alone("challenge", <<"finish_challenge">>)
    BY DEF Deck!Challenge, Deck!Started, Deck!Idle, Alone, Deck!Names
  <1>2. Deck!Alive' = Deck!Alive /\ penalty' \in Deck!Alive /\ phase' = "challenge"
    BY DEF Deck!Challenge, Deck!Alive
  <1>3. StateInv'
    BY <1>2 DEF StateInv, Deck!Empty
  <1>4. AtChallenge'
    BY <1>1, <1>2 DEF AtChallenge
  <1> QED BY <1>2, <1>3, <1>4 DEF DeckInv, PhaseInv, Deck!Phases

\* Unless somebody is forced to call, two players have cards.
LEMMA HeldByTwo ==
    ASSUME TableAssumption, claim # None, Cardinality(Deck!Alive) >= 2, NEW p \in Deck!Players,
           Deck!Holders(hands) # {}, Deck!Forced(p) = None, claim.by \in Deck!Players
    PROVE  \E q \in Deck!Holders(hands) : q # claim.by
  <1>1. Deck!Alive \in SUBSET Deck!Players /\ Deck!Holders(hands) \in SUBSET Deck!Alive
    BY DEF Deck!Holders, Deck!Alive
  <1>2. CASE Cardinality(Deck!Holders(hands)) > 1
    BY <1>1, <1>2, PlayersFinite, Another
  <1>3. CASE ~(Cardinality(Deck!Holders(hands)) > 1) /\ Deck!Holders(hands) \ {claim.by} = {}
    <2>1. Deck!First(p, Deck!Alive \ {claim.by}) \in Deck!Players
      BY <1>1, Another, FirstOf
    <2>2. Deck!Forced(p) = Deck!First(p, Deck!Alive \ {claim.by})
      BY <1>3, PlayersFinite, <1>1, SameCount DEF Deck!Forced
    <2> QED BY <2>1, <2>2 DEF TableAssumption
  <1> QED BY <1>2, <1>3

\* _advance_after_claim: somebody is forced to call, or the turn passes on.
LEMMA ClaimToldKeeps == ASSUME TableAssumption, DeckInv, Deck!ClaimTold PROVE DeckInv'
  <1>1. phase = "claim"
    BY DEF Deck!ClaimTold, Deck!Due, DeckInv, PhaseInv, Deck!Phases, AtTurn, AtPreparation,
           AtRoundStart, AtChallenge, AtRoulette, AtGameOver,
           Deck!Idle, Alone, Deck!Names
  <1>2. AtClaim /\ over = FALSE /\ StateInv
    BY <1>1 DEF DeckInv, PhaseInv
  <1>3. active = Alone("claim", <<"finish_claim">>) /\ Cardinality(Deck!Alive) >= 2 /\ claim # None
        /\ claim.by = turn /\ turn \in Deck!Alive /\ Deck!Alive \in SUBSET Deck!Players
    BY <1>2 DEF AtClaim, Deck!Alive
  <1>4. /\ Deck!Alive' = Deck!Alive /\ over' = FALSE /\ UNCHANGED <<eliminated, bullet, chamber>>
        /\ Deck!NextTurn("claim")
    BY <1>2 DEF Deck!ClaimTold, Deck!Alive
  <1>5. Deck!Played(active, "claim") = Deck!Idle(Deck!Names)
    BY <1>3, OneBeat DEF Deck!Names
  <1>6. CASE Deck!Forced(turn) # None
    <2>1. Deck!Forced(turn) \in Deck!Alive
      <3>1. Deck!Holders(hands) \in SUBSET Deck!Alive
        BY DEF Deck!Holders
      <3>2. CASE Deck!Holders(hands) \ {claim.by} # {}
        BY <1>3, <1>6, <3>1, <3>2 DEF Deck!Forced
      <3>3. CASE Deck!Holders(hands) \ {claim.by} = {}
        <4>1. Deck!Alive \ {claim.by} # {} /\ Deck!Alive \ {claim.by} \in SUBSET Deck!Players
          BY <1>3, Another
        <4>2. Deck!First(turn, Deck!Alive \ {claim.by}) \in Deck!Alive
          BY <1>3, <4>1, FirstOf
        <4> QED BY <1>6, <3>3, <4>2 DEF Deck!Forced
      <3> QED BY <3>2, <3>3
    <2>2. /\ Deck!Challenge(Deck!Forced(turn), Deck!Idle(Deck!Names))
          /\ UNCHANGED <<hands, claim, starter>>
      BY <1>4, <1>5, <1>6 DEF Deck!NextTurn
    <2> QED BY <1>2, <1>3, <1>4, <2>1, <2>2, ChallengeKeeps
  <1>7. CASE Deck!Forced(turn) = None /\ Deck!Holders(hands) # {}
    <2>1. /\ turn' = Deck!First(Deck!After(turn), Deck!Holders(hands)) /\ phase' = "playing"
          /\ active' = Deck!Idle(Deck!Names) /\ UNCHANGED <<hands, claim, starter, penalty>>
      BY <1>4, <1>5, <1>7 DEF Deck!NextTurn
    <2>2. Deck!Holders(hands) \in SUBSET Deck!Players
      BY DEF Deck!Holders, Deck!Alive
    <2>3. \E q \in Deck!Holders(hands) : q # turn
      BY <1>3, <1>7, <2>2, HeldByTwo
    <2>4. turn' \in Deck!Holders(hands) \ {turn}
      BY <1>3, <2>1, <2>2, <2>3, TurnPasses
    <2>5. StateInv'
      BY <1>2, <1>4, <2>1 DEF StateInv, Deck!Empty
    <2>6. AtTurn'
      <3>1. Deck!Holders(hands)' = Deck!Holders(hands)
        BY <1>4, <2>1 DEF Deck!Holders, Deck!Empty
      <3> QED BY <1>3, <1>4, <2>1, <2>4, <3>1 DEF AtTurn
    <2> QED BY <1>4, <2>1, <2>5, <2>6 DEF DeckInv, PhaseInv, Deck!Phases
  <1>8. CASE Deck!Forced(turn) = None /\ Deck!Holders(hands) = {}
    <2>1. Deck!StartRound("claim") /\ "claim" \in Deck!Names \ {"round_start", "game_over"}
      BY <1>4, <1>8 DEF Deck!NextTurn, Deck!Names
    <2> QED BY <1>2, <1>3, <1>4, <2>1, RoundKeeps
  <1> QED BY <1>6, <1>7, <1>8

LEMMA PlayKeeps ==
    ASSUME TableAssumption, DeckInv, NEW p \in Deck!Players, Deck!PlaySelected(p)
    PROVE  DeckInv'
  <1>1. AtTurn /\ over = FALSE /\ phase = "playing" /\ turn = p /\ p \in Deck!Alive
    BY DEF Deck!PlaySelected, Deck!MayAct, DeckInv, PhaseInv
  <1>2. PICK good \in 0..hands[p].good, bad \in 0..hands[p].bad :
            /\ hands' = [hands EXCEPT ![p] = [good |-> @.good - good, bad |-> @.bad - bad]]
            /\ claim' = [by |-> p, true |-> bad = 0]
    BY DEF Deck!PlaySelected
  <1>3. hands' \in [Deck!Players -> [good : Nat, bad : Nat]]
    <2>1. hands[p].good \in Nat /\ hands[p].bad \in Nat
      BY DEF DeckInv, StateInv
    <2>2. hands[p].good - good \in Nat /\ hands[p].bad - bad \in Nat
      BY <2>1
    <2> QED BY <1>2, <2>2 DEF DeckInv, StateInv
  <1>4. active' = Alone("claim", <<"finish_claim">>)
    BY <1>1 DEF Deck!PlaySelected, AtTurn, Deck!Started, Deck!Idle, Alone, Deck!Names
  <1>5. /\ Deck!Alive' = Deck!Alive /\ phase' = "claim" /\ over' = FALSE /\ turn' = p
        /\ UNCHANGED <<eliminated, bullet, chamber, starter>>
    BY <1>1 DEF Deck!PlaySelected, Deck!Alive
  <1>6. claim' \in [by : Deck!Players, true : BOOLEAN] /\ claim'.by = p
    BY <1>2
  <1>7. StateInv'
    <2>1. \A q \in eliminated : Deck!Empty(hands[q])'
      BY <1>1, <1>2 DEF DeckInv, StateInv, Deck!Alive, Deck!Empty
    <2> QED BY <1>3, <1>5, <1>6, <2>1 DEF DeckInv, StateInv, Deck!Empty
  <1>8. AtClaim'
    BY <1>1, <1>4, <1>5, <1>6 DEF AtClaim, AtTurn, TableAssumption
  <1> QED BY <1>5, <1>7, <1>8 DEF DeckInv, PhaseInv, Deck!Phases

LEMMA CallKeeps ==
    ASSUME TableAssumption, DeckInv, NEW p \in Deck!Players, Deck!CallLiar(p)
    PROVE  DeckInv'
  <1>1. AtTurn /\ over = FALSE /\ phase = "playing" /\ turn = p /\ p \in Deck!Alive
    BY DEF Deck!CallLiar, Deck!MayAct, DeckInv, PhaseInv
  <1>2. claim # None /\ claim.by \in Deck!Alive /\ Cardinality(Deck!Alive) >= 2 /\ StateInv
    BY <1>1 DEF AtTurn, Deck!CallLiar, DeckInv
  <1>3. /\ Deck!Challenge(p, Deck!Idle(Deck!Names))
        /\ UNCHANGED <<hands, eliminated, bullet, chamber, claim, starter, over>>
    BY <1>1 DEF AtTurn, Deck!CallLiar
  <1> QED BY <1>1, <1>2, <1>3, ChallengeKeeps

\* _start_roulette_sequence: the chamber decides how the sequence goes on.
LEMMA ChallengeLostKeeps == ASSUME TableAssumption, DeckInv, Deck!ChallengeLost PROVE DeckInv'
  <1>1. phase = "challenge"
    BY DEF Deck!ChallengeLost, Deck!Due, DeckInv, PhaseInv, Deck!Phases, AtTurn, AtPreparation,
           AtRoundStart, AtClaim, AtRoulette, AtGameOver,
           Deck!Idle, Alone, Deck!Names
  <1>2. AtChallenge /\ over = FALSE /\ StateInv
    BY <1>1 DEF DeckInv, PhaseInv
  <1> DEFINE beats == IF chamber[penalty] = bullet[penalty]
                      THEN <<"announce_roulette_elimination", "finish_roulette_elimination">>
                      ELSE <<"announce_roulette_survival", "finish_roulette_survival">>
  <1>3. active' = Alone("roulette", beats)
    <2>1. active = Alone("challenge", <<"finish_challenge">>) /\ "challenge" \in Deck!Names
          /\ "roulette" \in Deck!Names \ {"challenge"}
      BY <1>2 DEF AtChallenge, Deck!Names
    <2>2. active' = Deck!Played(Deck!Started(active, "roulette", beats), "challenge")
      BY DEF Deck!ChallengeLost
    <2> HIDE DEF beats
    <2> QED BY <2>1, <2>2, OneBeat
  <1>4. /\ Deck!Alive' = Deck!Alive /\ phase' = "roulette" /\ over' = FALSE /\ penalty' = penalty
        /\ claim' = None /\ starter' = penalty /\ penalty \in Deck!Alive /\ penalty \in Deck!Players
        /\ UNCHANGED <<hands, eliminated, bullet, chamber>>
    BY <1>2 DEF Deck!ChallengeLost, Deck!Alive, AtChallenge
  <1>5. StateInv'
    BY <1>2, <1>4 DEF StateInv, Deck!Empty
  <1>6. AtRoulette'
    <2>1. chamber[penalty] <= bullet[penalty] /\ chamber[penalty] \in Nat /\ bullet[penalty] \in Nat
      BY <1>2, <1>4 DEF StateInv
    <2>2. CASE chamber[penalty] = bullet[penalty]
      BY <1>2, <1>3, <1>4, <2>2 DEF AtRoulette, AtChallenge
    <2>3. CASE chamber[penalty] < bullet[penalty]
      BY <1>2, <1>3, <1>4, <2>3 DEF AtRoulette, AtChallenge
    <2> QED BY <2>1, <2>2, <2>3
  <1> QED BY <1>4, <1>5, <1>6 DEF DeckInv, PhaseInv, Deck!Phases

LEMMA SurvivedKeeps == ASSUME TableAssumption, DeckInv, Deck!Survived PROVE DeckInv'
  <1>1. phase = "roulette"
    BY DEF Deck!Survived, Deck!Due, DeckInv, PhaseInv, Deck!Phases, AtTurn, AtPreparation,
           AtRoundStart, AtClaim, AtChallenge, AtGameOver,
           Deck!Idle, Alone, Deck!Names
  <1>2. AtRoulette /\ over = FALSE /\ StateInv
    BY <1>1 DEF DeckInv, PhaseInv
  <1>3. /\ active = Alone("roulette", <<"announce_roulette_survival", "finish_roulette_survival">>)
        /\ penalty \in Deck!Alive /\ penalty \in Deck!Players /\ chamber[penalty] < bullet[penalty]
    <2>1. Head(active["roulette"]) = "announce_roulette_survival"
      BY DEF Deck!Survived, Deck!Due
    <2>2. \A bs : active = Alone("roulette", bs) => active["roulette"] = bs
      BY DEF Alone, Deck!Names
    <2> QED BY <1>2, <2>1, <2>2 DEF AtRoulette
  <1>4. active' = Alone("roulette", <<"finish_roulette_survival">>)
    BY <1>3, TwoBeats DEF Deck!Survived, Deck!Names
  <1>5. /\ Deck!Alive' = Deck!Alive /\ phase' = "roulette" /\ over' = FALSE /\ penalty' = penalty
        /\ chamber' = [chamber EXCEPT ![penalty] = @ + 1]
        /\ UNCHANGED <<hands, eliminated, bullet, claim, starter>>
    BY <1>1, <1>2 DEF Deck!Survived, Deck!Alive
  <1>6. StateInv'
    <2>1. chamber' \in [Deck!Players -> Nat] /\ \A p \in Deck!Players : chamber'[p] <= bullet[p]
      BY <1>2, <1>3, <1>5 DEF StateInv
    <2>2. \A p \in eliminated : chamber'[p] = bullet[p]
      BY <1>2, <1>3, <1>5 DEF StateInv, Deck!Alive
    <2> QED BY <1>2, <1>5, <2>1, <2>2 DEF StateInv, Deck!Empty
  <1>7. AtRoulette'
    BY <1>3, <1>4, <1>5 DEF AtRoulette
  <1> QED BY <1>5, <1>6, <1>7 DEF DeckInv, PhaseInv, Deck!Phases

LEMMA ShotKeeps == ASSUME TableAssumption, DeckInv, Deck!Shot PROVE DeckInv'
  <1>1. phase = "roulette"
    BY DEF Deck!Shot, Deck!Due, DeckInv, PhaseInv, Deck!Phases, AtTurn, AtPreparation,
           AtRoundStart, AtClaim, AtChallenge, AtGameOver,
           Deck!Idle, Alone, Deck!Names
  <1>2. AtRoulette /\ over = FALSE /\ StateInv
    BY <1>1 DEF DeckInv, PhaseInv
  <1>3. /\ active = Alone("roulette", <<"announce_roulette_elimination",
                                        "finish_roulette_elimination">>)
        /\ penalty \in Deck!Alive /\ penalty \in Deck!Players /\ chamber[penalty] = bullet[penalty]
        /\ Cardinality(Deck!Alive) >= 2
    <2>1. Head(active["roulette"]) = "announce_roulette_elimination"
      BY DEF Deck!Shot, Deck!Due
    <2>2. \A bs : active = Alone("roulette", bs) => active["roulette"] = bs
      BY DEF Alone, Deck!Names
    <2> QED BY <1>2, <2>1, <2>2 DEF AtRoulette
  <1>4. active' = Alone("roulette", <<"finish_roulette_elimination">>)
    BY <1>3, TwoBeats DEF Deck!Shot, Deck!Names
  <1>5. /\ Deck!Alive' = Deck!Alive \ {penalty} /\ phase' = "roulette" /\ over' = FALSE
        /\ penalty' = penalty /\ eliminated' = eliminated \cup {penalty}
        /\ hands' = [hands EXCEPT ![penalty] = Deck!NoCards]
        /\ UNCHANGED <<chamber, bullet, claim, starter>>
    BY <1>1, <1>2 DEF Deck!Shot, Deck!Alive
  <1>6. Cardinality(Deck!Alive') >= 1
    <2>1. IsFiniteSet(Deck!Alive) /\ Cardinality(Deck!Alive) \in Nat
      BY PlayersFinite DEF Deck!Alive
    <2>2. Cardinality(Deck!Alive \ {penalty}) = Cardinality(Deck!Alive) - 1
      BY <1>3, <2>1, FS_RemoveElement
    <2> QED BY <1>3, <1>5, <2>1, <2>2
  <1>7. StateInv'
    <2>1. hands' \in [Deck!Players -> [good : Nat, bad : Nat]]
      BY <1>2, <1>5 DEF StateInv, Deck!NoCards
    <2>2. \A p \in eliminated' : chamber[p] = bullet[p] /\ Deck!Empty(hands'[p])
      BY <1>2, <1>3, <1>5 DEF StateInv, Deck!Empty
    <2> QED BY <1>2, <1>3, <1>5, <1>6, <2>1, <2>2 DEF StateInv
  <1>8. AtRoulette'
    BY <1>3, <1>4, <1>5 DEF AtRoulette
  <1> QED BY <1>5, <1>7, <1>8 DEF DeckInv, PhaseInv, Deck!Phases

LEMMA RouletteOverKeeps == ASSUME TableAssumption, DeckInv, Deck!RouletteOver PROVE DeckInv'
  <1>1. phase = "roulette"
    BY DEF Deck!RouletteOver, Deck!Due, DeckInv, PhaseInv, Deck!Phases, AtTurn, AtPreparation,
           AtRoundStart, AtClaim, AtChallenge, AtGameOver,
           Deck!Idle, Alone, Deck!Names
  <1>2. AtRoulette /\ over = FALSE /\ StateInv
    BY <1>1 DEF DeckInv, PhaseInv
  <1>3. PICK beat : active = Alone("roulette", <<beat>>)
    <2>1. \/ Head(active["roulette"]) = "finish_roulette_survival"
          \/ Head(active["roulette"]) = "finish_roulette_elimination"
      BY DEF Deck!RouletteOver, Deck!Due
    <2>2. \A bs : active = Alone("roulette", bs) => active["roulette"] = bs
      BY DEF Alone, Deck!Names
    <2>3. \/ active = Alone("roulette", <<"finish_roulette_survival">>)
          \/ active = Alone("roulette", <<"finish_roulette_elimination">>)
      BY <1>2, <2>1, <2>2 DEF AtRoulette
    <2> QED BY <2>3
  <1>4. /\ Deck!StartRound("roulette") /\ "roulette" \in Deck!Names \ {"round_start", "game_over"}
        /\ UNCHANGED <<eliminated, bullet, chamber, over>>
    BY DEF Deck!RouletteOver, Deck!Names
  <1> QED BY <1>2, <1>3, <1>4, RoundKeeps

LEMMA GameEndsKeeps == ASSUME TableAssumption, DeckInv, Deck!GameEnds PROVE DeckInv'
  <1>1. phase = "game_over"
    BY DEF Deck!GameEnds, Deck!Due, DeckInv, PhaseInv, Deck!Phases, AtTurn, AtPreparation,
           AtRoundStart, AtClaim, AtChallenge, AtRoulette,
           Deck!Idle, Alone, Deck!Names
  <1>2. AtGameOver /\ StateInv /\ over \in BOOLEAN
    BY <1>1 DEF DeckInv, PhaseInv
  <1>3. over = FALSE
    BY <1>2 DEF AtGameOver, Deck!GameEnds, Deck!Due, Deck!Idle, Deck!Names
  <1>4. active' = Deck!Idle(Deck!Names)
    BY <1>2, <1>3, OneBeat DEF AtGameOver, Deck!GameEnds, Deck!Names
  <1>5. Deck!Alive' = Deck!Alive /\ phase' = "game_over" /\ over' = TRUE
    BY <1>1 DEF Deck!GameEnds, Deck!Alive
  <1>6. StateInv'
    BY <1>2, <1>5 DEF StateInv, Deck!GameEnds, Deck!Empty
  <1>7. AtGameOver'
    BY <1>2, <1>4, <1>5 DEF AtGameOver
  <1> QED BY <1>5, <1>6, <1>7 DEF DeckInv, PhaseInv, Deck!Phases
-----------------------------------------------------------------------------
LEMMA DeckStep == ASSUME TableAssumption, DeckInv, [Deck!Next]_(Deck!vars) PROVE DeckInv'
  <1>1. CASE UNCHANGED Deck!vars
    BY <1>1 DEF Deck!vars, DeckInv, StateInv, PhaseInv, AtTurn, AtPreparation, AtRoundStart,
                AtClaim,
                AtChallenge, AtRoulette, AtGameOver, Deck!Alive, Deck!Holders, Deck!Empty
  <1>2. CASE Deck!Tick
    BY <1>2, PreparedKeeps, RoundStartsKeeps, ClaimToldKeeps, ChallengeLostKeeps, SurvivedKeeps,
       ShotKeeps, RouletteOverKeeps, GameEndsKeeps DEF Deck!Tick
  <1> QED BY <1>1, <1>2, PlayKeeps, CallKeeps DEF Deck!Next

\* What the invariant says of the sequences is what NeverStuck asks.
LEMMA AloneRuns ==
    ASSUME NEW name \in Deck!Names, NEW beats, active = Alone(name, beats), beats # <<>>
    PROVE  Deck!Running(active) = {name} /\ active[name] = beats
  <1>1. DOMAIN active = Deck!Names /\ \A n \in Deck!Names : active[n] # <<>> <=> n = name
    BY DEF Alone
  <1> QED BY <1>1 DEF Deck!Running, Alone

\* Whatever is claimed, called and shot, for any number of players, cards and chambers,
\* the game goes on: in every phase but a turn exactly the sequence runs that ends the
\* phase, and whoever has the turn is alive, holds cards and did not make the claim
\* (_start_turn, _advance_after_claim, on_sequence_callback).
THEOREM NeverStuckForAll ==
    ASSUME TableAssumption
    PROVE  Deck!Spec => []Deck!NeverStuck
  <1>1. Deck!Init => DeckInv
    BY DeckInit
  <1>2. DeckInv /\ [Deck!Next]_(Deck!vars) => DeckInv'
    BY DeckStep
  <1>3. DeckInv => Deck!NeverStuck
    <2> SUFFICES ASSUME DeckInv PROVE Deck!NeverStuck
      OBVIOUS
    <2>1. phase = "playing" => /\ Deck!Running(active) = {} /\ turn \in Deck!Holders(hands)
                               /\ claim # None => claim.by # turn
      BY DEF DeckInv, PhaseInv, AtTurn, Deck!Running, Deck!Idle
    <2>2. phase = "preparing" => Deck!Follows("preparation", "finish_preparation")
      BY AloneRuns DEF DeckInv, PhaseInv, AtPreparation, Deck!Follows, Deck!Names
    <2>3. phase = "round_start" => Deck!Follows("round_start", "announce_round_start")
      BY AloneRuns DEF DeckInv, PhaseInv, AtRoundStart, Deck!Follows, Deck!Names
    <2>4. phase = "claim" => Deck!Follows("claim", "finish_claim")
      BY AloneRuns DEF DeckInv, PhaseInv, AtClaim, Deck!Follows, Deck!Names
    <2>5. phase = "challenge" => Deck!Follows("challenge", "finish_challenge")
      <3> SUFFICES ASSUME phase = "challenge"
                   PROVE  Deck!Follows("challenge", "finish_challenge")
        OBVIOUS
      <3>1. active = Alone("challenge", <<"finish_challenge">>)
        BY DEF DeckInv, PhaseInv, AtChallenge
      <3> QED BY <3>1, AloneRuns DEF Deck!Follows, Deck!Names
    <2>6. phase = "roulette" => \/ Deck!Follows("roulette", "finish_roulette_survival")
                                \/ Deck!Follows("roulette", "finish_roulette_elimination")
      <3> SUFFICES ASSUME phase = "roulette"
                   PROVE  \/ Deck!Follows("roulette", "finish_roulette_survival")
                          \/ Deck!Follows("roulette", "finish_roulette_elimination")
        OBVIOUS
      <3>1. \/ active = Alone("roulette", <<"announce_roulette_elimination",
                                             "finish_roulette_elimination">>)
            \/ active = Alone("roulette", <<"announce_roulette_survival",
                                             "finish_roulette_survival">>)
            \/ active = Alone("roulette", <<"finish_roulette_elimination">>)
            \/ active = Alone("roulette", <<"finish_roulette_survival">>)
        BY DEF DeckInv, PhaseInv, AtRoulette
      <3> QED BY <3>1, AloneRuns DEF Deck!Follows, Deck!Names
    <2>7. phase = "game_over" /\ ~over => Deck!Follows("game_over", "finish_game")
      BY AloneRuns DEF DeckInv, PhaseInv, AtGameOver, Deck!Follows, Deck!Names
    <2> QED BY <2>1, <2>2, <2>3, <2>4, <2>5, <2>6, <2>7 DEF Deck!NeverStuck
  <1> QED BY <1>1, <1>2, <1>3, PTL DEF Deck!Spec

\* Nobody survives the chamber with the bullet, or dies of another one, and the game
\* is over when one player is left and not before (_start_roulette_sequence).
THEOREM RevolversForAll ==
    ASSUME TableAssumption
    PROVE  Deck!Spec => []Deck!RevolversTrue
  <1>1. Deck!Init => DeckInv
    BY DeckInit
  <1>2. DeckInv /\ [Deck!Next]_(Deck!vars) => DeckInv'
    BY DeckStep
  <1>3. DeckInv => Deck!RevolversTrue
    <2> SUFFICES ASSUME DeckInv PROVE Deck!RevolversTrue
      OBVIOUS
    <2>1. Cardinality(Deck!Alive) \in Nat /\ Cardinality(Deck!Alive) >= 1
      BY PlayersFinite DEF DeckInv, StateInv, Deck!Alive
    <2>2. Deck!Alive # {}
      BY <2>1, FS_EmptySet
    <2>3. phase \notin {"roulette", "game_over"} => Cardinality(Deck!Alive) > 1
      BY <2>1 DEF DeckInv, PhaseInv, Deck!Phases, AtTurn, AtPreparation, AtRoundStart, AtClaim,
                  AtChallenge
    <2>4. phase = "game_over" => Cardinality(Deck!Alive) = 1
      BY DEF DeckInv, PhaseInv, AtGameOver
    <2> QED BY <2>2, <2>3, <2>4, SameCount DEF DeckInv, StateInv, Deck!RevolversTrue
  <1> QED BY <1>1, <1>2, <1>3, PTL DEF Deck!Spec
=============================================================================
