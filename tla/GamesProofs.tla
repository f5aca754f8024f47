----------------------------- MODULE GamesProofs -----------------------------
(***************************************************************************)
(* Proofs about the tables of Games but that of Holdem, which has a module *)
(* of its own: Kittens and LastCard here, Coup and Dead Man's Deck from    *)
(* their module.  A step of the tables is a step of each game or leaves    *)
(* that game alone (EachGame), so what each game keeps the tables keep.    *)
(*                                                                         *)
(* Kittens: KittenInv counts the kittens against those alive, ActionInv    *)
(* says that whoever is to choose has something to choose from.  LastCard: *)
(* every function that a handler is made of (moving the turn, drawing,     *)
(* laying a card, its effects, a window that closes) is shown to make a    *)
(* Sound hand, or one still Going on, of a hand Going on; the handlers are *)
(* then compositions.                                                      *)
(***************************************************************************)
EXTENDS Games, ListsProofs, FiniteSetTheorems, TLAPS

\* The games count with operators of their own.
LEMMA SameCount ==
    /\ \A S : Kittens!Cardinality(S) = Cardinality(S) /\ LastCard!Cardinality(S) = Cardinality(S)
    /\ \A S : Kittens!IsFiniteSet(S) = IsFiniteSet(S) /\ LastCard!IsFiniteSet(S) = IsFiniteSet(S)
  BY DEF Kittens!Cardinality, LastCard!Cardinality, Cardinality, Kittens!IsFiniteSet,
         LastCard!IsFiniteSet, IsFiniteSet
-----------------------------------------------------------------------------
(* Kittens. *)

\* What _prepare_match deals: a kitten less than players, of whom there are two or more.
KittensAssumption ==
    /\ Seats \in Seq(Kittens!Players) /\ None \notin Kittens!Players
    /\ Kittens!Cardinality(Kittens!Players) >= 2
    /\ Deck0 \in [Kittens!Kinds -> Nat]
    /\ Deck0["kitten"] = Kittens!Cardinality(Kittens!Players) - 1
    /\ Hand0 \in [Kittens!Players -> [Kittens!Kinds -> Nat]] /\ None \notin Kittens!Pending

Aside == IF kitten = None THEN 0 ELSE 1
Ended == phase \in {"last", "game_over"}

KittenInv ==
    /\ deck \in [Kittens!Kinds -> Nat]
    /\ alive \subseteq Kittens!Players
    /\ turn \in [player : Kittens!Players, turns : Nat, attacked : BOOLEAN]
    /\ kitten \in alive \cup {None}
    /\ kitten # None <=> phase \in {"reveal", "defuse", "reinsert"}
    /\ deck["kitten"] + Aside = Kittens!Cardinality(alive) - 1
    /\ ~Ended => turn.player \in alive /\ Kittens!Cardinality(alive) >= 2
-----------------------------------------------------------------------------
(* Numbers, sets and seats.                                                *)

LEMMA PlayersFinite ==
    ASSUME KittensAssumption
    PROVE  /\ Kittens!IsFiniteSet(Kittens!Players)
           /\ \A S \in SUBSET Kittens!Players :
                 Kittens!IsFiniteSet(S) /\ Kittens!Cardinality(S) \in Nat
  <1>1. Seats \in Surjection(1..Len(Seats), Kittens!Players) /\ Len(Seats) \in Nat
    <2>1. Seats \in [1..Len(Seats) -> Kittens!Players] /\ Len(Seats) \in Nat
          /\ DOMAIN Seats = 1..Len(Seats)
      BY DEF KittensAssumption
    <2>2. \A q \in Kittens!Players : \E i \in 1..Len(Seats) : Seats[i] = q
      BY <2>1 DEF Kittens!Players
    <2> QED BY <2>1, <2>2 DEF Surjection
  <1>2. Kittens!IsFiniteSet(Kittens!Players)
    BY <1>1, SameCount, FS_NatSurjection DEF ExistsSurjection
  <1> QED BY <1>2, SameCount, FS_Subset, FS_CardinalityType

\* The turn goes to somebody who is left, however many seats away.
LEMMA NextIsAlive ==
    ASSUME KittensAssumption, NEW p \in Kittens!Players, NEW left \in SUBSET Kittens!Players,
           left # {}
    PROVE  Kittens!NextAlive(p, left) \in left
  <1> DEFINE i == CHOOSE k \in DOMAIN Seats : Seats[k] = p
             at(n) == Seats[IF i + n > Len(Seats) THEN i + n - Len(Seats) ELSE i + n]
             Steps == {n \in 1..Len(Seats) : at(n) \in left}
  <1>1. DOMAIN Seats = 1..Len(Seats) /\ Len(Seats) \in Nat
    BY DEF KittensAssumption
  <1>2. i \in 1..Len(Seats)
    BY <1>1 DEF Kittens!Players
  <1>3. Steps # {}
    <2>1. PICK j \in 1..Len(Seats) : Seats[j] \in left
      BY <1>1 DEF Kittens!Players
    <2>2. CASE j > i
      <3>1. j - i \in 1..Len(Seats) /\ at(j - i) = Seats[j]
        BY <1>1, <1>2, <2>2
      <3> QED BY <2>1, <3>1
    <2>3. CASE j <= i
      <3>1. j - i + Len(Seats) \in 1..Len(Seats) /\ at(j - i + Len(Seats)) = Seats[j]
        BY <1>1, <1>2, <2>3
      <3> QED BY <2>1, <3>1
    <2> QED BY <1>2, <2>2, <2>3
  <1>4. PICK m \in Steps : \A n \in Steps : m <= n
    <2>1. Steps \in SUBSET Nat
      BY <1>1
    <2> HIDE DEF Steps
    <2> QED BY <1>3, <2>1, Least
  <1>5. m \in 1..Len(Seats) /\ at(m) \in left /\ \A k \in 1..m - 1 : at(k) \notin left
    BY <1>1, <1>4
  <1> DEFINE Away(n) == at(n) \in left /\ \A k \in 1..n - 1 : at(k) \notin left
  <1>6. at(CHOOSE n \in 1..Len(Seats) : Away(n)) \in left
    <2>1. \E n \in 1..Len(Seats) : Away(n)
      BY <1>5
    <2>2. Away(CHOOSE n \in 1..Len(Seats) : Away(n))
      <3> HIDE DEF Away
      <3> QED BY <2>1
    <2> QED BY <2>2
  <1> QED BY <1>6 DEF Kittens!NextAlive
-----------------------------------------------------------------------------
(* The steps that are common to several actions.                           *)

\* The turn goes on among those who are alive.
LEMMA TurnStays ==
    ASSUME KittensAssumption, KittenInv, ~Ended,
           Kittens!TurnDone \/ Kittens!Attack \/ UNCHANGED turn
    PROVE  /\ turn' \in [player : Kittens!Players, turns : Nat, attacked : BOOLEAN]
           /\ turn'.player \in alive
  <1>1. Kittens!NextAlive(turn.player, alive) \in alive /\ alive \subseteq Kittens!Players
    BY NextIsAlive DEF KittenInv
  <1>2. turn.player \in alive
    BY DEF KittenInv
  <1>3. CASE Kittens!TurnDone
    BY <1>1, <1>2, <1>3 DEF Kittens!TurnDone, Kittens!Turn, KittenInv
  <1>4. CASE Kittens!Attack
    BY <1>1, <1>4 DEF Kittens!Attack, Kittens!Turn, KittenInv
  <1> QED BY <1>2, <1>3, <1>4 DEF KittenInv

\* No kitten is drawn, put back or exploded: hands, Nopes and turns only.
LEMMA QuietKeeps ==
    ASSUME KittensAssumption, KittenInv, ~Ended, ~Ended',
           Kittens!TurnDone \/ Kittens!Attack \/ UNCHANGED turn,
           UNCHANGED <<deck, alive, kitten>>,
           phase \in {"reveal", "defuse", "reinsert"} <=>
                phase' \in {"reveal", "defuse", "reinsert"}
    PROVE  KittenInv'
  <1>1. /\ turn' \in [player : Kittens!Players, turns : Nat, attacked : BOOLEAN]
        /\ turn'.player \in alive
    BY TurnStays
  <1> QED BY <1>1 DEF KittenInv, Aside

\* The player of the kitten dies: one player and one kitten less.
LEMMA ExplodeKeeps ==
    ASSUME KittensAssumption, KittenInv, kitten # None, Kittens!Explode(kitten)
    PROVE  KittenInv'
  <1> DEFINE left == alive \ {kitten}
  <1>1. /\ kitten \in alive /\ alive \subseteq Kittens!Players /\ turn.player \in alive
        /\ Kittens!Cardinality(alive) >= 2 /\ ~Ended
    BY DEF KittenInv, Ended
  <1>2. Kittens!IsFiniteSet(alive) /\ Kittens!Cardinality(alive) \in Nat
    BY <1>1, PlayersFinite
  <1>3. Kittens!Cardinality(left) = Kittens!Cardinality(alive) - 1
    BY <1>1, <1>2, SameCount, FS_RemoveElement
  <1>4. alive' = left /\ kitten' = None /\ deck' = deck
    BY DEF Kittens!Explode, Kittens!Eliminate
  <1>5. /\ deck' \in [Kittens!Kinds -> Nat]
        /\ deck'["kitten"] + Aside' = Kittens!Cardinality(alive') - 1
    <2>1. Aside = 1 /\ Aside' = 0
      BY <1>4 DEF Aside
    <2>2. deck["kitten"] \in Nat /\ deck["kitten"] + 1 = Kittens!Cardinality(alive) - 1
      BY <2>1 DEF KittenInv, Kittens!Kinds
    <2> QED BY <1>2, <1>3, <1>4, <2>1, <2>2 DEF KittenInv
  <1>6. CASE Kittens!Cardinality(alive) <= 2
    BY <1>1, <1>4, <1>5, <1>6 DEF Kittens!Explode, KittenInv, Ended
  <1>7. CASE ~(Kittens!Cardinality(alive) <= 2)
    <2>1. left # {} /\ left \in SUBSET Kittens!Players
      <3>1. Kittens!Cardinality({}) = 0
        BY SameCount, FS_EmptySet
      <3>2. Kittens!Cardinality(left) # 0
        BY <1>2, <1>3, <1>7
      <3> HIDE DEF left
      <3>3. left # {}
        BY <3>1, <3>2
      <3> QED BY <1>1, <3>3 DEF left
    <2>2. Kittens!NextAlive(turn.player, left) \in left
      BY <1>1, <2>1, NextIsAlive
    <2>3. turn' = Kittens!Turn(Kittens!NextAlive(turn.player, left), 1, FALSE) /\ phase' = "normal"
      BY <1>7 DEF Kittens!Explode
    <2>4. /\ turn' \in [player : Kittens!Players, turns : Nat, attacked : BOOLEAN]
          /\ turn'.player \in left
      BY <2>1, <2>2, <2>3 DEF Kittens!Turn
    <2>5. Kittens!Cardinality(left) >= 2
      BY <1>2, <1>3, <1>7
    <2> QED BY <1>1, <1>4, <1>5, <2>1, <2>3, <2>4, <2>5 DEF KittenInv, Ended
  <1> QED BY <1>6, <1>7

\* The kitten goes back.
LEMMA ReinsertKeeps ==
    ASSUME KittensAssumption, KittenInv, kitten # None, Kittens!Reinsert, UNCHANGED alive
    PROVE  KittenInv'
  <1>1. ~Ended /\ deck["kitten"] \in Nat
    BY DEF KittenInv, Ended, Kittens!Kinds
  <1>2. /\ turn' \in [player : Kittens!Players, turns : Nat, attacked : BOOLEAN]
        /\ turn'.player \in alive
    BY <1>1, TurnStays DEF Kittens!Reinsert
  <1>3. deck' \in [Kittens!Kinds -> Nat] /\ deck'["kitten"] = deck["kitten"] + 1
    BY <1>1 DEF Kittens!Reinsert, Kittens!Put, KittenInv, Kittens!Kinds
  <1>4. phase' = "normal" /\ kitten' = None
    BY DEF Kittens!Reinsert, Kittens!Over
  <1>5. deck'["kitten"] + Aside' = Kittens!Cardinality(alive') - 1
    <2>1. Aside = 1 /\ Aside' = 0
      BY <1>4 DEF Aside
    <2> QED BY <1>1, <1>3, <2>1 DEF KittenInv
  <1>6. alive' = alive /\ ~Ended' /\ phase' \notin {"reveal", "defuse", "reinsert"}
    BY <1>4 DEF Ended
  <1> QED BY <1>1, <1>2, <1>3, <1>4, <1>5, <1>6 DEF KittenInv

\* A window closes: whatever the action does, it does not touch deck and kitten.
LEMMA EffectKeeps ==
    ASSUME KittensAssumption, KittenInv, phase = "nope", NEW a, Kittens!Effect(a),
           UNCHANGED <<deck, alive, kitten>>
    PROVE  KittenInv'
  <1>1. Kittens!TurnDone \/ Kittens!Attack \/ UNCHANGED turn
    BY DEF Kittens!Effect
  <1>2. phase' \in {"normal", "favor_give"}
    <2>1. Kittens!Over => phase' = "normal"
      BY DEF Kittens!Over
    <2>2. Kittens!Favor(a) => phase' \in {"normal", "favor_give"}
      BY <2>1 DEF Kittens!Favor
    <2> QED BY <2>1, <2>2 DEF Kittens!Effect
  <1> QED BY <1>1, <1>2, QuietKeeps DEF Ended

\* An action is committed, or its player is asked for more.
LEMMA ChooseKeeps ==
    ASSUME KittensAssumption, KittenInv, phase \in {"normal", "combo", "target", "request"},
           NEW next \in {"normal", "combo", "target", "request", "nope"},
           phase' = next, UNCHANGED <<deck, alive, turn, kitten>>
    PROVE  KittenInv'
  BY QuietKeeps DEF Ended
-----------------------------------------------------------------------------
LEMMA PlayKeeps ==
    ASSUME KittensAssumption, KittenInv, NEW p \in Kittens!Players, Kittens!Play(p)
    PROVE  KittenInv'
  <1>1. \A a : Kittens!Commit(a) => phase' = "nope"
    BY DEF Kittens!Commit
  <1>2. \A a, q : Kittens!Aim(a, q) => phase' \in {"request", "nope"}
    BY <1>1 DEF Kittens!Aim
  <1>3. \A a : Kittens!ChooseTarget(a) => phase' \in {"request", "target", "nope"}
    BY <1>2 DEF Kittens!ChooseTarget
  <1>4. CASE Kittens!PlayCard(p)
    <2>1. phase = "normal" /\ phase' \in {"request", "target", "nope"}
          /\ UNCHANGED <<deck, alive, turn, kitten>>
      BY <1>1, <1>3, <1>4 DEF Kittens!PlayCard, Kittens!MayAct
    <2> QED BY <2>1, ChooseKeeps
  <1>5. CASE Kittens!StartCombo(p)
    BY <1>5, ChooseKeeps DEF Kittens!StartCombo, Kittens!MayAct
  <1>6. CASE Kittens!ConfirmCombo(p)
    <2>1. phase = "combo" /\ phase' \in {"request", "target", "nope"}
          /\ UNCHANGED <<deck, alive, turn, kitten>>
      BY <1>3, <1>6 DEF Kittens!ConfirmCombo
    <2> QED BY <2>1, ChooseKeeps
  <1>7. CASE Kittens!PickTarget(p)
    <2>1. phase = "target" /\ phase' \in {"request", "nope"}
          /\ UNCHANGED <<deck, alive, turn, kitten>>
      BY <1>2, <1>7 DEF Kittens!PickTarget
    <2> QED BY <2>1, ChooseKeeps
  <1>8. CASE Kittens!Request(p)
    <2>1. phase = "request" /\ phase' = "nope" /\ UNCHANGED <<deck, alive, turn, kitten>>
      BY <1>1, <1>8 DEF Kittens!Request
    <2> QED BY <2>1, ChooseKeeps
  <1>9. CASE Kittens!Cancel(p)
    <2>1. phase \in {"combo", "target", "request"} /\ phase' = "normal"
          /\ UNCHANGED <<deck, alive, turn, kitten>>
      BY <1>9 DEF Kittens!Cancel, Kittens!Over
    <2> QED BY <2>1, ChooseKeeps
  <1>10. CASE Kittens!Draw(p)
    <2>1. phase = "normal" /\ turn.player = p /\ p \in alive /\ ~Ended /\ kitten = None
          /\ alive' = alive
      BY <1>10 DEF Kittens!Draw, Kittens!MayAct, KittenInv, Ended
    <2>2. PICK k \in Kittens!Kinds :
            /\ deck[k] > 0 /\ deck' = Kittens!Take(deck, k, 1)
            /\ IF k = "kitten" THEN kitten' = p /\ phase' = "reveal" /\ turn' = turn
               ELSE Kittens!TurnDone /\ phase' = "normal" /\ kitten' = kitten
      BY <1>10 DEF Kittens!Draw, Kittens!Over
    <2>3. deck' \in [Kittens!Kinds -> Nat]
      BY <2>2 DEF KittenInv, Kittens!Take
    <2>4. CASE k = "kitten"
      <3>1. deck'["kitten"] = deck["kitten"] - 1 /\ deck["kitten"] \in Nat
        BY <2>2, <2>4 DEF KittenInv, Kittens!Take, Kittens!Kinds
      <3>2. Aside = 0 /\ Aside' = 1
        BY <2>1, <2>2, <2>4 DEF Aside, KittensAssumption
      <3>3. kitten' \in alive /\ kitten' # None /\ phase' = "reveal" /\ turn' = turn
        BY <2>1, <2>2, <2>4 DEF KittensAssumption
      <3> QED BY <2>1, <2>3, <3>1, <3>2, <3>3 DEF KittenInv, Ended
    <2>5. CASE k # "kitten"
      <3>1. deck'["kitten"] = deck["kitten"]
        BY <2>2, <2>5 DEF KittenInv, Kittens!Take, Kittens!Kinds
      <3>2. /\ turn' \in [player : Kittens!Players, turns : Nat, attacked : BOOLEAN]
            /\ turn'.player \in alive
        BY <2>1, <2>2, <2>5, TurnStays
      <3> QED BY <2>1, <2>2, <2>3, <2>5, <3>1, <3>2 DEF KittenInv, Aside, Ended
    <2> QED BY <2>4, <2>5
  <1> QED BY <1>4, <1>5, <1>6, <1>7, <1>8, <1>9, <1>10 DEF Kittens!Play

LEMMA AnswerKeeps ==
    ASSUME KittensAssumption, KittenInv, NEW p \in Kittens!Players, Kittens!Answer(p)
    PROVE  KittenInv'
  <1>1. CASE Kittens!Nope(p)
    BY <1>1, QuietKeeps DEF Kittens!Nope, Ended
  <1>2. CASE Kittens!Pass(p)
    <2>1. phase = "nope" /\ UNCHANGED <<deck, alive, kitten>>
      BY <1>2 DEF Kittens!Pass
    <2>2. ASSUME NEW a, Kittens!Effect(a) PROVE KittenInv'
      BY <2>1, <2>2, EffectKeeps
    <2>3. CASE phase' = phase /\ turn' = turn
      BY <2>1, <2>3, QuietKeeps DEF Ended
    <2> QED BY <1>2, <2>2, <2>3 DEF Kittens!Pass
  <1>3. CASE Kittens!Give(p)
    BY <1>3, QuietKeeps DEF Kittens!Give, Kittens!Over, Ended
  <1>4. CASE Kittens!UseDefuse(p)
    <2>1. phase = "defuse" /\ kitten = p /\ kitten # None /\ alive' = alive
      BY <1>4 DEF Kittens!UseDefuse, KittensAssumption
    <2>2. CASE Kittens!Reinsert
      BY <2>1, <2>2, ReinsertKeeps
    <2>3. CASE phase' = "reinsert" /\ UNCHANGED <<deck, turn, pending, kitten>>
      BY <2>1, <2>3, QuietKeeps DEF Ended
    <2> QED BY <1>4, <2>2, <2>3 DEF Kittens!UseDefuse
  <1>5. CASE Kittens!Accept(p)
    BY <1>5, ExplodeKeeps DEF Kittens!Accept, KittensAssumption
  <1>6. CASE Kittens!PutBack(p)
    BY <1>6, ReinsertKeeps DEF Kittens!PutBack, KittensAssumption
  <1> QED BY <1>1, <1>2, <1>3, <1>4, <1>5, <1>6 DEF Kittens!Answer

LEMMA TickKeeps ==
    ASSUME KittensAssumption, KittenInv, Kittens!Tick
    PROVE  KittenInv'
  <1>1. CASE Kittens!NopeTimeUp
    BY <1>1, EffectKeeps DEF Kittens!NopeTimeUp
  <1>2. CASE Kittens!Reveal
    <2>1. phase = "reveal" /\ kitten # None
      BY <1>2 DEF Kittens!Reveal, KittenInv
    <2>2. CASE phase' = "defuse" /\ UNCHANGED <<deck, hand, alive, turn, pending, kitten>>
      BY <2>1, <2>2, QuietKeeps DEF Ended
    <2> QED BY <1>2, <2>1, <2>2, ExplodeKeeps DEF Kittens!Reveal
  <1>3. CASE Kittens!End
    BY <1>3 DEF Kittens!End, KittenInv, Aside, Ended
  <1> QED BY <1>1, <1>2, <1>3 DEF Kittens!Tick

LEMMA KittenInit == ASSUME KittensAssumption, Kittens!Init PROVE KittenInv
  <1>1. PICK p \in Kittens!Players : turn = [player |-> p, turns |-> 1, attacked |-> FALSE]
    BY DEF Kittens!Init
  <1>2. /\ deck = Deck0 /\ alive = Kittens!Players /\ phase = "normal" /\ kitten = None
    BY DEF Kittens!Init
  <1> QED BY <1>1, <1>2, PlayersFinite DEF KittensAssumption, KittenInv, Aside, Ended

LEMMA KittenStep ==
    ASSUME KittensAssumption, KittenInv, [Kittens!Next]_(Kittens!vars)
    PROVE  KittenInv'
  <1>1. CASE UNCHANGED Kittens!vars
    BY <1>1 DEF Kittens!vars, KittenInv, Aside, Ended
  <1> QED BY <1>1, TickKeeps, PlayKeeps, AnswerKeeps DEF Kittens!Next
-----------------------------------------------------------------------------
(* The pending action.                                                     *)

Hands == hand \in [Kittens!Players -> [Kittens!Kinds -> Nat]]

\* Its player keeps the cards for it, its target the cards to choose from.
Chosen ==
    /\ phase \in {"target", "request"} =>
          /\ hand[pending.actor][pending.card] >= Kittens!Size(pending)
          /\ pending.kind \in Kittens!Targeted /\ Kittens!Targets(pending.actor, hand) # {}
    /\ phase = "request" => pending.target \in Kittens!Targets(pending.actor, hand)
    /\ phase = "nope" /\ pending.kind \in Kittens!Targeted =>
          pending.target \in alive \ {pending.actor}
    /\ phase = "nope" /\ pending.kind = "triple" => pending.asked \in Kittens!Requestable
    /\ phase = "favor_give" =>
          /\ pending.target \in alive \ {pending.actor}
          /\ ~Kittens!NoCards(hand[pending.target]) /\ ~Kittens!OneCard(hand[pending.target])

ActionInv ==
    /\ Hands
    /\ turn.turns # 0
    /\ pending \in Kittens!Pending \cup {None}
    /\ phase \in Kittens!Phases
    /\ phase \in {"target", "request", "nope", "favor_give"} =>
          pending # None /\ pending.actor = turn.player
    /\ Chosen
    /\ phase = "defuse" => hand[kitten]["defuse"] > 0
    /\ phase = "reinsert" => ~Kittens!NoCards(deck)

\* Cards are taken from a hand that has them.
LEMMA Taken ==
    ASSUME Hands, NEW p \in Kittens!Players, NEW k \in Kittens!Kinds, NEW n \in Nat,
           n <= hand[p][k],
           hand' = [hand EXCEPT ![p] = Kittens!Take(@, k, n)]
    PROVE  Hands'
  <1>1. hand[p] \in [Kittens!Kinds -> Nat]
    BY DEF Hands
  <1>2. Kittens!Take(hand[p], k, n) \in [Kittens!Kinds -> Nat]
    BY <1>1 DEF Kittens!Take
  <1> QED BY <1>2 DEF Hands

LEMMA Given ==
    ASSUME Hands, NEW p \in Kittens!Players, NEW k \in Kittens!Kinds,
           hand' = [hand EXCEPT ![p] = Kittens!Put(@, k)]
    PROVE  Hands'
  <1>1. hand[p] \in [Kittens!Kinds -> Nat]
    BY DEF Hands
  <1>2. Kittens!Put(hand[p], k) \in [Kittens!Kinds -> Nat]
    BY <1>1 DEF Kittens!Put
  <1> QED BY <1>2 DEF Hands

LEMMA Transferred ==
    ASSUME Hands, NEW a, a.actor \in Kittens!Players, a.target \in Kittens!Players,
           a.target # a.actor,
           NEW k \in Kittens!Kinds, hand[a.target][k] # 0, Kittens!Transfer(a, k)
    PROVE  Hands'
  <1>1. hand[a.actor] \in [Kittens!Kinds -> Nat] /\ hand[a.target] \in [Kittens!Kinds -> Nat]
    BY DEF Hands
  <1>2. /\ Kittens!Put(hand[a.actor], k) \in [Kittens!Kinds -> Nat]
        /\ Kittens!Take(hand[a.target], k, 1) \in [Kittens!Kinds -> Nat]
    BY <1>1 DEF Kittens!Put, Kittens!Take
  <1>3. hand' = [[hand EXCEPT ![a.target] = Kittens!Take(hand[a.target], k, 1)]
                    EXCEPT ![a.actor] = Kittens!Put(hand[a.actor], k)]
    BY DEF Kittens!Transfer, Hands
  <1> QED BY <1>2, <1>3 DEF Hands

\* A turn has turns left, whoever takes it.
LEMMA TurnsLeft ==
    ASSUME KittenInv, turn.turns # 0, Kittens!TurnDone \/ Kittens!Attack \/ UNCHANGED turn
    PROVE  turn'.turns # 0
  <1>1. turn.turns \in Nat /\ turn \in [player : Kittens!Players, turns : Nat, attacked : BOOLEAN]
    BY DEF KittenInv
  <1>2. CASE Kittens!TurnDone
    <2>1. CASE turn.turns > 1
      <3>1. turn' = [turn EXCEPT !.turns = turn.turns - 1]
        BY <1>2, <2>1 DEF Kittens!TurnDone
      <3>2. turn'.turns = turn.turns - 1
        BY <1>1, <3>1
      <3> QED BY <1>1, <2>1, <3>2
    <2> QED BY <1>2, <2>1 DEF Kittens!TurnDone, Kittens!Turn
  <1>3. CASE Kittens!Attack
    BY <1>1, <1>3 DEF Kittens!Attack, Kittens!Turn
  <1> QED BY <1>2, <1>3

\* Nothing is pending.
LEMMA NothingPending ==
    ASSUME Hands', turn'.turns # 0, pending' \in Kittens!Pending \cup {None},
           phase' \in {"normal", "combo", "reveal", "last", "game_over"}
    PROVE  ActionInv'
  BY DEF ActionInv, Chosen, Kittens!Phases

\* The cards are discarded and the window opens.
LEMMA Committed ==
    ASSUME KittensAssumption, KittenInv, ActionInv, ~Ended, NEW a \in Kittens!Pending,
           a.actor = turn.player, hand[a.actor][a.card] >= Kittens!Size(a),
           a.kind \in Kittens!Targeted => a.target \in alive \ {a.actor},
           a.kind = "triple" => a.asked \in Kittens!Requestable,
           Kittens!Commit(a), UNCHANGED <<deck, alive, turn, kitten>>
    PROVE  ActionInv'
  <1>1. a.actor \in Kittens!Players /\ a.card \in Kittens!Kinds /\ a # None
    BY DEF Kittens!Pending, Kittens!Requestable, KittensAssumption
  <1>2. Kittens!Size(a) \in Nat
    BY DEF Kittens!Size
  <1>3. Hands'
    BY <1>1, <1>2, Taken DEF Kittens!Commit, ActionInv
  <1>4. pending' = a /\ phase' = "nope"
    BY DEF Kittens!Commit
  <1>5. Chosen'
    BY <1>4 DEF Chosen
  <1> QED BY <1>1, <1>3, <1>4, <1>5 DEF ActionInv, Kittens!Phases

\* A target that still has cards is chosen.
LEMMA Aimed ==
    ASSUME KittensAssumption, KittenInv, ActionInv, ~Ended, NEW a \in Kittens!Pending,
           a.kind \in Kittens!Targeted, a.actor = turn.player,
           hand[a.actor][a.card] >= Kittens!Size(a),
           NEW q \in Kittens!Targets(a.actor, hand), Kittens!Aim(a, q),
           UNCHANGED <<deck, alive, turn, kitten>>
    PROVE  ActionInv'
  <1> DEFINE b == [a EXCEPT !.target = q]
  <1>1. q \in alive \ {a.actor} /\ q \in Kittens!Players
    BY DEF Kittens!Targets, KittenInv
  <1>2. /\ b \in Kittens!Pending
        /\ b.actor = a.actor /\ b.card = a.card /\ b.kind = a.kind /\ b.target = q
    BY <1>1 DEF Kittens!Pending
  <1>3. Kittens!Size(b) = Kittens!Size(a)
    BY <1>2 DEF Kittens!Size
  <1>4. b # None
    BY <1>2 DEF KittensAssumption
  <1>5. CASE a.kind = "triple"
    <2>1. phase' = "request" /\ pending' = b /\ hand' = hand
      BY <1>5 DEF Kittens!Aim
    <2> HIDE DEF b
    <2>3. Kittens!Targets(pending.actor, hand)' = Kittens!Targets(a.actor, hand)
      BY <1>2, <2>1 DEF Kittens!Targets
    <2>4. Kittens!Size(pending)' = Kittens!Size(a)
      BY <1>3, <2>1
    <2>5. Chosen'
      BY <1>2, <2>1, <2>3, <2>4 DEF Chosen
    <2> QED BY <1>2, <1>4, <2>1, <2>5 DEF ActionInv, Hands, Kittens!Phases
  <1>6. CASE a.kind # "triple"
    <2>1. Kittens!Commit(b)
      BY <1>6 DEF Kittens!Aim
    <2> HIDE DEF b
    <2> QED BY <1>1, <1>2, <1>3, <1>6, <2>1, Committed
  <1> QED BY <1>5, <1>6

LEMMA TargetChosen ==
    ASSUME KittensAssumption, KittenInv, ActionInv, ~Ended, NEW a \in Kittens!Pending,
           a.kind \in Kittens!Targeted, a.actor = turn.player,
           hand[a.actor][a.card] >= Kittens!Size(a),
           Kittens!ChooseTarget(a), UNCHANGED <<deck, alive, turn, kitten>>
    PROVE  ActionInv'
  <1>1. ASSUME NEW q \in Kittens!Targets(a.actor, hand), Kittens!Aim(a, q) PROVE ActionInv'
    BY <1>1, Aimed
  <1>2. ASSUME Kittens!Cardinality(Kittens!Targets(a.actor, hand)) > 1, phase' = "target",
               pending' = a,
               UNCHANGED hand
        PROVE  ActionInv'
    <2>1. Kittens!Targets(a.actor, hand) # {}
      BY <1>2, SameCount, FS_EmptySet
    <2>2. Kittens!Targets(pending.actor, hand)' = Kittens!Targets(a.actor, hand)
      BY <1>2 DEF Kittens!Targets
    <2>3. Kittens!Size(pending)' = Kittens!Size(a)
      BY <1>2 DEF Kittens!Size
    <2>4. Chosen'
      BY <1>2, <2>1, <2>2, <2>3 DEF Chosen
    <2>5. a # None
      BY DEF KittensAssumption
    <2> QED BY <1>2, <2>4, <2>5 DEF ActionInv, Hands, Kittens!Phases
  <1> QED BY <1>1, <1>2 DEF Kittens!ChooseTarget

LEMMA PendingMade ==
    ASSUME NEW p \in Kittens!Players, NEW kind \in Kittens!Single \cup {"pair", "triple"},
           NEW k \in Kittens!Requestable
    PROVE  /\ Kittens!NewPending(kind, p, k) \in Kittens!Pending
           /\ Kittens!NewPending(kind, p, k).kind = kind /\ Kittens!NewPending(kind, p, k).actor = p
           /\ Kittens!NewPending(kind, p, k).card = k
  BY DEF Kittens!NewPending, Kittens!Pending

\* The player whose turn it is chooses what to play, or draws.
LEMMA PlayActs ==
    ASSUME KittensAssumption, KittenInv, ActionInv, NEW p \in Kittens!Players, Kittens!Play(p)
    PROVE  ActionInv'
  <1>h. Hands /\ turn.turns # 0 /\ pending \in Kittens!Pending \cup {None}
    BY DEF ActionInv
  <1>1. CASE Kittens!PlayCard(p)
    <2>1. /\ ~Ended /\ p = turn.player /\ p \in alive /\ UNCHANGED <<deck, alive, turn, kitten>>
      BY <1>1 DEF Kittens!PlayCard, Kittens!MayAct, Ended
    <2>2. PICK k \in Kittens!Single :
            /\ hand[p][k] > 0
            /\ IF k = "favor" THEN Kittens!ChooseTarget(Kittens!NewPending(k, p, k))
               ELSE Kittens!Commit(Kittens!NewPending(k, p, k))
      BY <1>1 DEF Kittens!PlayCard
    <2> DEFINE a == Kittens!NewPending(k, p, k)
    <2>3. k \in Kittens!Requestable /\ k \in Kittens!Kinds
      BY DEF Kittens!Single, Kittens!Requestable, Kittens!Kinds
    <2>4. a \in Kittens!Pending /\ a.kind = k /\ a.actor = p /\ a.card = k
      BY <2>3, PendingMade
    <2> HIDE DEF a
    <2>5. Kittens!Size(a) = 1
      BY <2>4 DEF Kittens!Size, Kittens!Single
    <2>6. hand[p][k] \in Nat
      BY <1>h, <2>3 DEF Hands
    <2>7. hand[a.actor][a.card] >= Kittens!Size(a)
      BY <2>2, <2>4, <2>5, <2>6
    <2>8. CASE k = "favor"
      <3>1. a.kind \in Kittens!Targeted /\ Kittens!ChooseTarget(a)
        BY <2>2, <2>4, <2>8 DEF Kittens!Targeted, a
      <3> QED BY <2>1, <2>4, <2>7, <3>1, TargetChosen
    <2>9. CASE k # "favor"
      <3>1. a.kind \notin Kittens!Targeted /\ a.kind # "triple" /\ Kittens!Commit(a)
        BY <2>2, <2>4, <2>9 DEF Kittens!Targeted, Kittens!Single, a
      <3> QED BY <2>1, <2>4, <2>7, <3>1, Committed
    <2> QED BY <2>8, <2>9
  <1>2. CASE Kittens!StartCombo(p)
    BY <1>2, <1>h, NothingPending DEF Kittens!StartCombo, Hands
  <1>3. CASE Kittens!ConfirmCombo(p)
    <2>1. /\ ~Ended /\ p = turn.player /\ UNCHANGED <<deck, alive, turn, kitten>>
      BY <1>3 DEF Kittens!ConfirmCombo, Ended
    <2>2. PICK k \in Kittens!Requestable, kind \in {"pair", "triple"} :
            /\ hand[p][k] >= Kittens!Size(Kittens!NewPending(kind, p, k))
            /\ Kittens!ChooseTarget(Kittens!NewPending(kind, p, k))
      BY <1>3 DEF Kittens!ConfirmCombo
    <2> DEFINE a == Kittens!NewPending(kind, p, k)
    <2>3. a \in Kittens!Pending /\ a.kind = kind /\ a.actor = p /\ a.card = k
      <3>1. kind \in Kittens!Single \cup {"pair", "triple"}
        OBVIOUS
      <3> QED BY <3>1, PendingMade
    <2>4. hand[p][k] >= Kittens!Size(a) /\ Kittens!ChooseTarget(a)
      BY <2>2
    <2> HIDE DEF a
    <2> QED BY <2>1, <2>3, <2>4, TargetChosen DEF Kittens!Targeted
  <1>4. CASE Kittens!PickTarget(p)
    <2>1. /\ ~Ended /\ phase = "target" /\ UNCHANGED <<deck, alive, turn, kitten>>
          /\ pending.actor = p
      BY <1>4 DEF Kittens!PickTarget, Ended
    <2>2. PICK q \in Kittens!Targets(p, hand) : Kittens!Aim(pending, q)
      BY <1>4 DEF Kittens!PickTarget
    <2>3. /\ pending \in Kittens!Pending /\ pending.actor = turn.player
          /\ pending.kind \in Kittens!Targeted
          /\ hand[pending.actor][pending.card] >= Kittens!Size(pending)
      BY <2>1 DEF ActionInv, Chosen
    <2> QED BY <2>1, <2>2, <2>3, Aimed
  <1>5. CASE Kittens!Request(p)
    <2>1. /\ ~Ended /\ phase = "request" /\ UNCHANGED <<deck, alive, turn, kitten>>
      BY <1>5 DEF Kittens!Request, Ended
    <2>2. PICK k \in Kittens!Requestable : Kittens!Commit([pending EXCEPT !.asked = k])
      BY <1>5 DEF Kittens!Request
    <2>3. /\ pending \in Kittens!Pending /\ pending.actor = turn.player
          /\ pending.kind \in Kittens!Targeted
          /\ hand[pending.actor][pending.card] >= Kittens!Size(pending)
          /\ pending.target \in alive \ {pending.actor}
      BY <2>1 DEF ActionInv, Chosen, Kittens!Targets
    <2> DEFINE b == [pending EXCEPT !.asked = k]
    <2>4. /\ b \in Kittens!Pending /\ b.kind = pending.kind /\ b.actor = pending.actor
          /\ b.card = pending.card /\ b.target = pending.target /\ b.asked = k
      BY <2>3 DEF Kittens!Pending
    <2>5. Kittens!Commit(b)
      BY <2>2
    <2> HIDE DEF b
    <2>6. Kittens!Size(b) = Kittens!Size(pending)
      BY <2>4 DEF Kittens!Size
    <2> QED BY <2>1, <2>3, <2>4, <2>5, <2>6, Committed
  <1>6. CASE Kittens!Cancel(p)
    BY <1>6, <1>h, NothingPending DEF Kittens!Cancel, Kittens!Over, Hands
  <1>7. CASE Kittens!Draw(p)
    <2>1. PICK k \in Kittens!Kinds :
            IF k = "kitten" THEN phase' = "reveal" /\ UNCHANGED <<hand, turn, pending>>
            ELSE hand' = [hand EXCEPT ![p] = Kittens!Put(@, k)] /\ Kittens!TurnDone /\ Kittens!Over
      BY <1>7 DEF Kittens!Draw
    <2>2. CASE k = "kitten"
      BY <1>h, <2>1, <2>2, NothingPending DEF Hands
    <2>3. CASE k # "kitten"
      <3>1. Hands' /\ turn'.turns # 0
        BY <1>h, <2>1, <2>3, Given, TurnsLeft
      <3> QED BY <2>1, <2>3, <3>1, NothingPending DEF Kittens!Over
    <2> QED BY <2>2, <2>3
  <1> QED BY <1>1, <1>2, <1>3, <1>4, <1>5, <1>6, <1>7 DEF Kittens!Play

\* A window closes.  The action is pending, or that with one more who passed.
LEMMA EffectActs ==
    ASSUME KittensAssumption, KittenInv, ActionInv, phase = "nope", NEW a \in Kittens!Pending,
           a.actor = pending.actor, a.kind = pending.kind, a.target = pending.target,
           a.asked = pending.asked, Kittens!Effect(a), UNCHANGED <<deck, alive, kitten>>
    PROVE  ActionInv'
  <1>1. /\ Hands /\ turn.turns # 0 /\ pending # None /\ a.actor = turn.player
        /\ a.kind \in Kittens!Targeted => a.target \in alive \ {a.actor}
        /\ a.kind = "triple" => a.asked \in Kittens!Requestable
    BY DEF ActionInv, Chosen
  <1>2. a.actor \in Kittens!Players /\ alive \subseteq Kittens!Players
    BY DEF Kittens!Pending, KittenInv
  <1>3. turn'.turns # 0
    <2>1. Kittens!TurnDone \/ Kittens!Attack \/ UNCHANGED turn
      BY DEF Kittens!Effect
    <2> QED BY <1>1, <2>1, TurnsLeft
  <1>4. ASSUME Hands', Kittens!Over PROVE ActionInv'
    BY <1>3, <1>4, NothingPending DEF Kittens!Over
  <1>5. ASSUME NEW k \in Kittens!Kinds, a.kind \in Kittens!Targeted, hand[a.target][k] # 0,
               Kittens!Transfer(a, k)
        PROVE  Hands'
    BY <1>1, <1>2, <1>5, Transferred
  <1>6. ASSUME UNCHANGED hand PROVE Hands'
    BY <1>1, <1>6 DEF Hands
  <1>7. ASSUME a.kind = "favor", Kittens!Favor(a), UNCHANGED turn PROVE ActionInv'
    <2>0. a.kind \in Kittens!Targeted
      BY <1>7 DEF Kittens!Targeted
    <2>1. CASE Kittens!NoCards(hand[a.target]) /\ Kittens!Over /\ UNCHANGED hand
      BY <1>4, <1>6, <2>1
    <2>2. CASE /\ Kittens!OneCard(hand[a.target]) /\ Kittens!Over
               /\ \E k \in Kittens!Kinds : hand[a.target][k] = 1 /\ Kittens!Transfer(a, k)
      BY <1>4, <1>5, <2>0, <2>2
    <2>3. CASE /\ ~Kittens!NoCards(hand[a.target]) /\ ~Kittens!OneCard(hand[a.target])
               /\ phase' = "favor_give" /\ pending' = a /\ UNCHANGED hand
      <3>1. Chosen'
        BY <1>1, <2>0, <2>3 DEF Chosen
      <3>2. a # None
        BY DEF KittensAssumption
      <3> QED BY <1>1, <1>3, <1>6, <1>7, <2>3, <3>1, <3>2 DEF ActionInv, Kittens!Phases
    <2> QED BY <1>7, <2>1, <2>2, <2>3 DEF Kittens!Favor
  <1>8. ASSUME a.kind = "pair", Kittens!Over,
               IF Kittens!NoCards(hand[a.target]) THEN UNCHANGED hand
               ELSE \E k \in Kittens!Kinds : hand[a.target][k] > 0 /\ Kittens!Transfer(a, k)
        PROVE  ActionInv'
    <2>1. ASSUME NEW k \in Kittens!Kinds, hand[a.target][k] > 0, Kittens!Transfer(a, k) PROVE Hands'
      BY <1>5, <1>8, <2>1 DEF Kittens!Targeted
    <2> QED BY <1>4, <1>6, <1>8, <2>1
  <1>9. ASSUME a.kind = "triple", Kittens!Over,
               IF hand[a.target][a.asked] = 0 THEN UNCHANGED hand ELSE Kittens!Transfer(a, a.asked)
        PROVE  ActionInv'
    <2>1. a.asked \in Kittens!Kinds /\ a.kind \in Kittens!Targeted
      BY <1>1, <1>9 DEF Kittens!Requestable, Kittens!Targeted
    <2> QED BY <1>4, <1>5, <1>6, <1>9, <2>1
  <1>10. ASSUME Kittens!Over, UNCHANGED hand PROVE ActionInv'
    BY <1>4, <1>6, <1>10
  <1> QED BY <1>7, <1>8, <1>9, <1>10 DEF Kittens!Effect

\* The player of the kitten dies.
LEMMA ExplodeActs ==
    ASSUME KittenInv, ActionInv, NEW p \in Kittens!Players, Kittens!Explode(p)
    PROVE  ActionInv'
  <1>1. Hands'
    BY DEF Kittens!Explode, Kittens!Eliminate, ActionInv, Hands
  <1>2. turn'.turns # 0
    BY DEF Kittens!Explode, ActionInv, Kittens!Turn
  <1> QED BY <1>1, <1>2, NothingPending DEF Kittens!Explode, Kittens!Eliminate

LEMMA AnswerActs ==
    ASSUME KittensAssumption, KittenInv, ActionInv, NEW p \in Kittens!Players, Kittens!Answer(p)
    PROVE  ActionInv'
  <1>h. /\ Hands /\ turn.turns # 0 /\ hand[p] \in [Kittens!Kinds -> Nat]
        /\ pending \in Kittens!Pending \cup {None}
        /\ phase = "nope" => pending \in Kittens!Pending
    BY DEF ActionInv, Hands
  <1>1. CASE Kittens!Nope(p)
    <2>1. /\ phase = "nope" /\ phase' = "nope" /\ UNCHANGED <<deck, alive, turn, kitten>>
          /\ hand' = [hand EXCEPT ![p] = Kittens!Take(@, "nope", 1)] /\ hand[p]["nope"] > 0
          /\ pending' = [pending EXCEPT !.nopes = @ + 1, !.last = p, !.passed = {}]
      BY <1>1 DEF Kittens!Nope
    <2>2. Hands'
      <3>1. "nope" \in Kittens!Kinds /\ 1 <= hand[p]["nope"] /\ 1 \in Nat
        BY <1>h, <2>1 DEF Kittens!Kinds
      <3> QED BY <1>h, <2>1, <3>1, Taken
    <2>3. /\ pending' \in Kittens!Pending /\ pending'.actor = pending.actor
          /\ pending'.kind = pending.kind /\ pending'.target = pending.target
          /\ pending'.asked = pending.asked
      <3>1. pending \in Kittens!Pending /\ pending.nopes \in Nat
        BY <1>h, <2>1 DEF Kittens!Pending
      <3>2. pending' = [pending EXCEPT !.nopes = pending.nopes + 1, !.last = p, !.passed = {}]
        BY <2>1
      <3> DEFINE n == pending.nopes + 1
      <3>3. n \in Nat /\ p \in Kittens!Players /\ {} \in SUBSET Kittens!Players
        BY <3>1
      <3>4. pending' = [pending EXCEPT !.nopes = n, !.last = p, !.passed = {}]
        BY <3>2
      <3> HIDE DEF n
      <3> QED BY <3>1, <3>3, <3>4 DEF Kittens!Pending
    <2>4. Chosen'
      BY <2>1, <2>3 DEF ActionInv, Chosen
    <2>5. pending' # None
      BY <2>3 DEF KittensAssumption
    <2> QED BY <1>h, <2>1, <2>2, <2>3, <2>4, <2>5 DEF ActionInv
  <1>2. CASE Kittens!Pass(p)
    <2> DEFINE a == [pending EXCEPT !.passed = @ \cup {p}]
    <2>1. /\ phase = "nope" /\ UNCHANGED <<deck, alive, kitten>>
          /\ Kittens!Effect(a) \/ (pending' = a /\ UNCHANGED <<hand, turn, phase>>)
      BY <1>2 DEF Kittens!Pass
    <2>2. /\ a \in Kittens!Pending /\ a.actor = pending.actor /\ a.kind = pending.kind
          /\ a.target = pending.target /\ a.asked = pending.asked
      BY <1>h, <2>1 DEF Kittens!Pending
    <2> HIDE DEF a
    <2>3. CASE Kittens!Effect(a)
      BY <2>1, <2>2, <2>3, EffectActs
    <2>4. CASE pending' = a /\ UNCHANGED <<hand, turn, phase>>
      <3>1. Chosen'
        BY <2>1, <2>2, <2>4 DEF ActionInv, Chosen
      <3>2. a # None
        BY <2>2 DEF KittensAssumption
      <3> QED BY <1>h, <2>1, <2>2, <2>4, <3>1, <3>2 DEF ActionInv, Hands
    <2> QED BY <2>1, <2>3, <2>4
  <1>3. CASE Kittens!Give(p)
    <2>1. PICK k \in Kittens!Kinds : hand[p][k] > 0 /\ Kittens!Transfer(pending, k)
      BY <1>3 DEF Kittens!Give
    <2>2. /\ phase = "favor_give" /\ pending.target = p /\ Kittens!Over
          /\ UNCHANGED <<deck, alive, turn, kitten>>
      BY <1>3 DEF Kittens!Give
    <2>3. /\ pending \in Kittens!Pending /\ pending.target \in alive \ {pending.actor}
          /\ alive \subseteq Kittens!Players
      BY <2>2 DEF ActionInv, Chosen, KittenInv
    <2>4. pending.actor \in Kittens!Players
      BY <2>3 DEF Kittens!Pending
    <2>5. Hands'
      BY <1>h, <2>1, <2>2, <2>3, <2>4, Transferred
    <2> QED BY <1>h, <2>2, <2>5, NothingPending DEF Kittens!Over
  <1>4. ASSUME Kittens!Reinsert, Hands' PROVE ActionInv'
    BY <1>h, <1>4, TurnsLeft, NothingPending DEF Kittens!Reinsert, Kittens!Over
  <1>5. CASE Kittens!UseDefuse(p)
    <2>1. /\ phase = "defuse" /\ kitten = p
          /\ hand' = [hand EXCEPT ![p] = Kittens!Take(@, "defuse", 1)]
          /\ alive' = alive
          /\ IF Kittens!NoCards(deck) THEN Kittens!Reinsert
             ELSE phase' = "reinsert" /\ UNCHANGED <<deck, turn, pending, kitten>>
      BY <1>5 DEF Kittens!UseDefuse
    <2>2. hand[p]["defuse"] > 0
      BY <2>1 DEF ActionInv
    <2>3. Hands'
      <3>1. "defuse" \in Kittens!Kinds /\ 1 <= hand[p]["defuse"] /\ 1 \in Nat
        BY <1>h, <2>2 DEF Kittens!Kinds
      <3> QED BY <1>h, <2>1, <3>1, Taken
    <2>4. CASE Kittens!NoCards(deck)
      BY <1>4, <2>1, <2>3, <2>4
    <2>5. CASE ~Kittens!NoCards(deck)
      <3>1. Chosen'
        BY <2>1, <2>5 DEF Chosen
      <3>2. ~Kittens!NoCards(deck)'
        BY <2>1, <2>5 DEF Kittens!NoCards
      <3> QED BY <1>h, <2>1, <2>3, <2>5, <3>1, <3>2 DEF ActionInv, Kittens!Phases
    <2> QED BY <2>4, <2>5
  <1>6. CASE Kittens!Accept(p)
    BY <1>6, ExplodeActs DEF Kittens!Accept
  <1>7. CASE Kittens!PutBack(p)
    BY <1>4, <1>7, <1>h DEF Kittens!PutBack, Hands
  <1> QED BY <1>1, <1>2, <1>3, <1>5, <1>6, <1>7 DEF Kittens!Answer

LEMMA TickActs ==
    ASSUME KittensAssumption, KittenInv, ActionInv, Kittens!Tick
    PROVE  ActionInv'
  <1>1. CASE Kittens!NopeTimeUp
    <2>1. phase = "nope" /\ pending \in Kittens!Pending
      BY <1>1 DEF Kittens!NopeTimeUp, ActionInv
    <2> QED BY <1>1, <2>1, EffectActs DEF Kittens!NopeTimeUp
  <1>2. CASE Kittens!Reveal
    <2>1. phase = "reveal" /\ kitten \in Kittens!Players
      BY <1>2 DEF Kittens!Reveal, KittenInv
    <2>2. CASE hand[kitten]["defuse"] > 0
      <3>1. phase' = "defuse" /\ UNCHANGED <<deck, hand, alive, turn, pending, kitten>>
        BY <1>2, <2>2 DEF Kittens!Reveal
      <3>2. Chosen'
        BY <3>1 DEF Chosen
      <3> QED BY <2>2, <3>1, <3>2 DEF ActionInv, Hands, Kittens!Phases
    <2>3. CASE ~(hand[kitten]["defuse"] > 0)
      BY <1>2, <2>1, <2>3, ExplodeActs DEF Kittens!Reveal
    <2> QED BY <2>2, <2>3
  <1>3. CASE Kittens!End
    BY <1>3, NothingPending DEF Kittens!End, ActionInv, Hands
  <1> QED BY <1>1, <1>2, <1>3 DEF Kittens!Tick

LEMMA ActionInit == ASSUME KittensAssumption, Kittens!Init PROVE ActionInv
  <1>1. PICK p \in Kittens!Players : turn = [player |-> p, turns |-> 1, attacked |-> FALSE]
    BY DEF Kittens!Init
  <1>2. hand = Hand0 /\ phase = "normal" /\ pending = None
    BY DEF Kittens!Init
  <1> QED BY <1>1, <1>2 DEF KittensAssumption, ActionInv, Hands, Chosen, Kittens!Phases

LEMMA ActionStep ==
    ASSUME KittensAssumption, KittenInv, ActionInv, [Kittens!Next]_(Kittens!vars)
    PROVE  ActionInv'
  <1>1. CASE UNCHANGED Kittens!vars
    <2>1. Chosen'
      <3>1. Kittens!Targets(pending.actor, hand)' = Kittens!Targets(pending.actor, hand)
        BY <1>1 DEF Kittens!vars, Kittens!Targets
      <3>2. Kittens!Size(pending)' = Kittens!Size(pending)
        BY <1>1 DEF Kittens!vars, Kittens!Size
      <3> QED BY <1>1, <3>1, <3>2 DEF Kittens!vars, ActionInv, Chosen
    <2>2. Kittens!NoCards(deck)' = Kittens!NoCards(deck)
      BY <1>1 DEF Kittens!vars, Kittens!NoCards
    <2> QED BY <1>1, <2>1, <2>2 DEF Kittens!vars, ActionInv, Hands
  <1> QED BY <1>1, TickActs, PlayActs, AnswerActs DEF Kittens!Next

\* What the two invariants say of the run's properties.
LEMMA KittensLeft ==
    ASSUME KittensAssumption, KittenInv
    PROVE  Kittens!KittensMatch
  <1>1. deck["kitten"] + Aside = Kittens!Cardinality(alive) - 1
    BY DEF KittenInv
  <1>2. ASSUME phase = "normal" PROVE turn.player \in alive /\ ~Kittens!NoCards(deck)
    <2>1. ~Ended /\ kitten = None
      BY <1>2 DEF KittenInv, Ended
    <2>2. /\ turn.player \in alive /\ Kittens!Cardinality(alive) >= 2
          /\ alive \subseteq Kittens!Players
      BY <2>1 DEF KittenInv
    <2>3. Kittens!Cardinality(alive) \in Nat
      BY <2>2, PlayersFinite
    <2>4. deck["kitten"] # 0
      BY <1>1, <2>1, <2>2, <2>3 DEF Aside, KittenInv, Kittens!Kinds
    <2> QED BY <2>2, <2>4 DEF Kittens!NoCards, Kittens!Kinds
  <1> QED BY <1>1, <1>2 DEF Kittens!KittensMatch, Aside

LEMMA KittensTyped ==
    ASSUME KittensAssumption, KittenInv, ActionInv
    PROVE  Kittens!TypeOK
  <1>1. alive # {}
    <2>1. deck["kitten"] \in Nat /\ Aside \in Nat
      BY DEF KittenInv, Aside, Kittens!Kinds
    <2>2. Kittens!Cardinality(alive) # 0
      BY <2>1, PlayersFinite DEF KittenInv
    <2> QED BY <2>2, SameCount, FS_EmptySet
  <1>2. turn \in [player : Kittens!Players, turns : Nat \ {0}, attacked : BOOLEAN]
    BY DEF KittenInv, ActionInv
  <1>3. kitten \in alive \cup {None} /\ alive \subseteq Kittens!Players
    BY DEF KittenInv
  <1>4. kitten \in Kittens!Players \cup {None} /\ alive \in (SUBSET Kittens!Players) \ {{}}
    BY <1>1, <1>3
  <1> QED BY <1>2, <1>4 DEF Kittens!TypeOK, KittenInv, ActionInv, Hands

LEMMA NothingToMend ==
    ASSUME KittensAssumption, KittenInv, ActionInv
    PROVE  Kittens!NothingToRepair
  <1>1. phase \in {"target", "request", "nope", "favor_give"} =>
            pending # None /\ pending.actor \in alive /\ pending.actor = turn.player
    BY DEF KittenInv, ActionInv, Ended
  <1>2. phase = "request" =>
            pending.target \in alive \ {pending.actor} /\ ~Kittens!NoCards(hand[pending.target])
    BY DEF ActionInv, Chosen, Kittens!Targets
  <1>3. phase \in {"defuse", "reinsert"} => kitten \in alive
    BY DEF KittenInv
  <1> QED BY <1>1, <1>2, <1>3 DEF Kittens!NothingToRepair, ActionInv, Chosen
-----------------------------------------------------------------------------
(* LastCard. *)

\* Seats for two or more; the cards of a deal are dealt once, to those who play; and
\* whatever the deal, a game with the same options is played with the same cards.
DealtOnce(d) ==
    /\ d.opt.seats \in 2..Len(Seats)
    /\ d.hands \in [LastCard!Players -> SUBSET LastCard!Cards]
    /\ d.deck \in SUBSET LastCard!Cards /\ d.top \in LastCard!Cards \ d.deck
    /\ \A p \in LastCard!Players :
          /\ d.hands[p] \cap (d.deck \cup {d.top}) = {}
          /\ \A q \in LastCard!Players \ {p} : d.hands[p] \cap d.hands[q] = {}
    /\ \A i \in DOMAIN Seats : i > d.opt.seats => d.hands[Seats[i]] = {}
LastCardAssumption ==
    /\ Seats \in Seq(LastCard!Players) /\ \A i, j \in DOMAIN Seats : Seats[i] = Seats[j] => i = j
    /\ None \notin LastCard!Players
    /\ Pack \in Seq([rank : STRING, color : Colors \cup {"wild"}])
    /\ \A d \in Dealings : DealtOnce(d)
    /\ \A d, e \in Dealings : d.opt = e.opt => LastCard!Held(d) = LastCard!Held(e)

Stopped(g) == g.handWait \/ g.over

\* Besides the types: who has the turn is among those who play, and so is whoever a
\* window is about; the others have no cards.
Typed(g) ==
    /\ g \in LastCard!GameType /\ g.turn \in 1..g.opt.seats /\ g.dealer \in 1..g.opt.seats
    /\ \A p \in LastCard!Players \ LastCard!Seated(g) : g.hands[p] = {}
    /\ g.target \in LastCard!Seated(g) \cup {None} /\ g.wd4 \in LastCard!Seated(g) \cup {None}
    /\ g.phase = "last_card_callout" => g.target # None
    /\ g.phase = "challenge_wd4" => g.wd4 # None
Kept(g) ==
    /\ LastCard!Apart(g)
    /\ \A d \in LastCard!Deals(g.opt) : LastCard!Held(g) \cup g.pile = LastCard!Held(d)
Idle(g) == ~g.asking /\ ~g.colorWait /\ g.swapper = None
Ordinary(g) == Idle(g) /\ g.phase = ""
DebtStacked(g) == Ordinary(g) /\ g.pending > 0 => LastCard!CanStack(g, LastCard!Current(g))
SkipAll(g) == g.opt.skipAll /\ LastCard!Rank(g.top) = "skip"
Orderly(g) ==
    /\ Ordinary(g) => g.skips = 0
    /\ g.phase # "" => Idle(g)
    /\ g.asking \/ g.colorWait =>
          /\ ~(g.asking /\ g.colorWait) /\ g.swapper = None
          /\ g.wd4 = LastCard!Current(g) /\ LastCard!Rank(g.top) \in LastCard!Wilds
    /\ g.swapper # None => g.swapper = LastCard!Current(g)
    /\ g.phase = "last_card_callout" =>
          /\ g.target = LastCard!Current(g) /\ g.wd4 \in {None, LastCard!Current(g)}
          /\ LastCard!Cardinality(g.hands[LastCard!Current(g)]) = 1
          /\ g.skips = 0 \/ ~SkipAll(g)
    /\ g.phase = "challenge_wd4" => g.wd4 = LastCard!Current(g) /\ LastCard!Rank(g.top) = "wild4"
    /\ g.phase = "jump_in_window" => ~SkipAll(g)
Sound(g) ==
    /\ Typed(g)
    /\ ~Stopped(g) => Kept(g) /\ DebtStacked(g) /\ (~g.hasty => Orderly(g))
LastCardInv == Sound(lGame)
-----------------------------------------------------------------------------
(* Seats.                                                                  *)

\* So many places on, and as many back, is where one was.
LEMMA ShiftBack ==
    ASSUME NEW n \in Nat \ {0}, NEW seat \in 1..n, NEW k \in Int
    PROVE  /\ LastCard!Shift(n, seat, k) \in 1..n
           /\ LastCard!Shift(n, LastCard!Shift(n, seat, k), -k) = seat
  <1> DEFINE x == seat - 1 + k
             r == x % n
             y == r - k
  <1>0. x \in Int
    OBVIOUS
  <1>1. r \in 0..n-1 /\ \E q \in Int : x = n * q + r
    <2> HIDE DEF x
    <2> QED BY <1>0, Remainder
  <1>2. y \in Int
    BY <1>1
  <1>3. PICK q \in Int : x = n * q + r
    BY <1>1
  <1>4. -q \in Int /\ seat - 1 \in 0..n-1 /\ n * (-q) = -(n * q) /\ n * q \in Int
    BY <1>3
  <1>5. y = n * (-q) + (seat - 1)
    <2> DEFINE m == n * q
               w == n * (-q)
    <2>1. m \in Int /\ w = -m /\ x = m + r /\ r \in Int
      BY <1>1, <1>3, <1>4
    <2>2. x = seat - 1 + k /\ y = r - k
      OBVIOUS
    <2> HIDE DEF m, w, x, y, r
    <2>3. y = w + (seat - 1)
      BY <2>1, <2>2
    <2> QED BY <2>3 DEF w
  <1>6. \A s \in Int, t \in 0..n-1 : y = n * s + t => y % n = t
    BY <1>2, Remainder
  <1> HIDE DEF y
  <1>7. y % n = seat - 1
    BY <1>4, <1>5, <1>6
  <1>8. LastCard!Shift(n, seat, k) = r + 1
    BY DEF LastCard!Shift
  <1>9. LastCard!Shift(n, r + 1, -k) = (y % n) + 1
    <2>1. r + 1 - 1 + -k = y
      BY <1>1 DEF y
    <2> QED BY <2>1 DEF LastCard!Shift
  <1> QED BY <1>1, <1>7, <1>8, <1>9

LEMMA SeatsKnown ==
    ASSUME LastCardAssumption, NEW g, Typed(g)
    PROVE  /\ g.opt.seats \in 2..Len(Seats) /\ DOMAIN Seats = 1..Len(Seats) /\ Len(Seats) \in Nat
           /\ LastCard!Seated(g) \subseteq LastCard!Players
           /\ \A i \in 1..g.opt.seats : Seats[i] \in LastCard!Seated(g)
           /\ LastCard!Current(g) \in LastCard!Seated(g)
           /\ LastCard!NextPlayer(g) \in LastCard!Seated(g)
           /\ \A p \in LastCard!Seated(g) :
                 LastCard!SeatOf(g, p) \in 1..g.opt.seats /\ Seats[LastCard!SeatOf(g, p)] = p
  <1>1. DOMAIN Seats = 1..Len(Seats) /\ Len(Seats) \in Nat
    BY DEF LastCardAssumption
  <1>2. PICK d \in Dealings : g.opt = d.opt
    BY DEF Typed, LastCard!GameType
  <1>3. g.opt.seats \in 2..Len(Seats)
    BY <1>2 DEF LastCardAssumption, DealtOnce
  <1>4. \A i \in 1..g.opt.seats : i \in DOMAIN Seats /\ Seats[i] \in LastCard!Seated(g)
    BY <1>1, <1>3 DEF LastCard!Seated
  <1>5. LastCard!Seated(g) \subseteq LastCard!Players
    BY <1>4 DEF LastCard!Seated, LastCard!Players
  <1>6. LastCard!Current(g) \in LastCard!Seated(g)
    BY <1>4 DEF LastCard!Current, Typed
  <1>7. LastCard!NextPlayer(g) \in LastCard!Seated(g)
    <2>1. g.turn \in 1..g.opt.seats /\ g.dir \in Int /\ g.opt.seats \in Nat \ {0}
      BY <1>1, <1>3 DEF Typed, LastCard!GameType
    <2>2. LastCard!Shift(g.opt.seats, g.turn, g.dir) \in 1..g.opt.seats
      BY <2>1, ShiftBack
    <2> QED BY <1>4, <2>2 DEF LastCard!NextPlayer
  <1>8. \A p \in LastCard!Seated(g) :
            LastCard!SeatOf(g, p) \in 1..g.opt.seats /\ Seats[LastCard!SeatOf(g, p)] = p
    BY DEF LastCard!Seated, LastCard!SeatOf
  <1> QED BY <1>1, <1>3, <1>4, <1>5, <1>6, <1>7, <1>8
-----------------------------------------------------------------------------
(* Cards.                                                                  *)

\* No card is lost or copied from g to h.
SameCards(g, h) ==
    /\ h.opt = g.opt /\ LastCard!Held(h) \cup h.pile = LastCard!Held(g) \cup g.pile
    /\ LastCard!Apart(g) => LastCard!Apart(h)

LEMMA KeptSame ==
    ASSUME NEW g, NEW h, SameCards(g, h), Kept(g)
    PROVE  Kept(h)
  BY DEF SameCards, Kept, LastCard!Deals

\* What only changes other fields keeps the cards.
LEMMA Untouched ==
    ASSUME NEW g, NEW h, h.opt = g.opt, h.hands = g.hands, h.deck = g.deck, h.pile = g.pile,
           h.top = g.top
    PROVE  SameCards(g, h)
  BY DEF SameCards, LastCard!Held, LastCard!Apart

\* The hands of g go round among the players.
LEMMA HandsExchanged ==
    ASSUME NEW g, NEW to \in [LastCard!Players -> LastCard!Players],
           NEW from \in [LastCard!Players -> LastCard!Players],
           \A p \in LastCard!Players : from[to[p]] = p /\ to[from[p]] = p,
           NEW h, h = [g EXCEPT !.hands = [p \in LastCard!Players |-> g.hands[from[p]]]],
           g \in LastCard!GameType
    PROVE  SameCards(g, h)
  <1>1. /\ h.deck = g.deck /\ h.pile = g.pile /\ h.top = g.top /\ h.opt = g.opt
        /\ \A p \in LastCard!Players : h.hands[p] = g.hands[from[p]]
    BY DEF LastCard!GameType
  <1>2. \A p, q \in LastCard!Players : p # q => from[p] # from[q] /\ from[p] \in LastCard!Players
    OBVIOUS
  <1>3. UNION {h.hands[p] : p \in LastCard!Players} = UNION {g.hands[p] : p \in LastCard!Players}
    <2>1. \A p \in LastCard!Players :
              h.hands[p] \subseteq UNION {g.hands[q] : q \in LastCard!Players}
      BY <1>1
    <2>2. \A p \in LastCard!Players : g.hands[p] = h.hands[to[p]]
      BY <1>1
    <2>3. \A p \in LastCard!Players :
              g.hands[p] \subseteq UNION {h.hands[q] : q \in LastCard!Players}
      BY <2>2
    <2> QED BY <2>1, <2>3
  <1>4. LastCard!Apart(g) => LastCard!Apart(h)
    <2> SUFFICES ASSUME LastCard!Apart(g) PROVE LastCard!Apart(h)
      OBVIOUS
    <2>1. h.deck \cap h.pile = {} /\ h.top \notin h.deck \cup h.pile
      BY <1>1 DEF LastCard!Apart
    <2>2. \A p \in LastCard!Players : h.hands[p] \cap (h.deck \cup h.pile \cup {h.top}) = {}
      BY <1>1, <1>2 DEF LastCard!Apart
    <2>3. \A p \in LastCard!Players : \A q \in LastCard!Players \ {p} :
              h.hands[p] \cap h.hands[q] = {}
      BY <1>1, <1>2 DEF LastCard!Apart
    <2> QED BY <2>1, <2>2, <2>3 DEF LastCard!Apart
  <1> QED BY <1>1, <1>3, <1>4 DEF SameCards, LastCard!Held

\* h is g but for the cards: p has drawn some.
CardsDrawn(g, h, p) ==
    /\ h \in LastCard!GameType
    /\ h = [g EXCEPT !.hands = h.hands, !.deck = h.deck, !.pile = h.pile]
    /\ g.hands[p] \subseteq h.hands[p]
    /\ \A q \in LastCard!Players \ {p} : h.hands[q] = g.hands[q]
    /\ SameCards(g, h)

LEMMA DrawnCards ==
    ASSUME NEW g \in LastCard!GameType, NEW p \in LastCard!Players, NEW n,
           NEW h \in LastCard!Drawn(g, p, n)
    PROVE  CardsDrawn(g, h, p)
  <1>1. CASE \E S \in SUBSET g.deck : h = [g EXCEPT !.hands[p] = @ \cup S, !.deck = @ \ S]
    <2>1. PICK S \in SUBSET g.deck : h = [g EXCEPT !.hands[p] = @ \cup S, !.deck = @ \ S]
      BY <1>1
    <2>2. S \subseteq LastCard!Cards
      BY DEF LastCard!GameType
    <2>3. h \in LastCard!GameType
      BY <2>1, <2>2, ZenonT(60) DEF LastCard!GameType
    <2>4. /\ h.hands[p] = g.hands[p] \cup S /\ h.deck = g.deck \ S /\ h.pile = g.pile
          /\ \A q \in LastCard!Players \ {p} : h.hands[q] = g.hands[q]
          /\ h.opt = g.opt /\ h.top = g.top
      BY <2>1 DEF LastCard!GameType
    <2>5. h = [g EXCEPT !.hands = h.hands, !.deck = h.deck, !.pile = h.pile]
      BY <2>1 DEF LastCard!GameType
    <2>6. LastCard!Held(h) \cup h.pile = LastCard!Held(g) \cup g.pile
      <3>1. \A x : x \in LastCard!Held(h) \cup h.pile => x \in LastCard!Held(g) \cup g.pile
        BY <2>4 DEF LastCard!Held
      <3>2. \A x : x \in LastCard!Held(g) \cup g.pile => x \in LastCard!Held(h) \cup h.pile
        BY <2>4 DEF LastCard!Held
      <3> QED BY <3>1, <3>2
    <2>7. LastCard!Apart(g) => LastCard!Apart(h)
      BY <2>4 DEF LastCard!Apart
    <2> QED BY <2>3, <2>4, <2>5, <2>6, <2>7 DEF CardsDrawn, SameCards
  <1>2. CASE \E S \in SUBSET g.pile :
                h = [g EXCEPT !.hands[p] = @ \cup g.deck \cup S, !.deck = g.pile \ S, !.pile = {}]
    <2>1. PICK S \in SUBSET g.pile :
                h = [g EXCEPT !.hands[p] = @ \cup g.deck \cup S, !.deck = g.pile \ S, !.pile = {}]
      BY <1>2
    <2>2. S \subseteq LastCard!Cards
      BY DEF LastCard!GameType
    <2>3. h \in LastCard!GameType
      BY <2>1, <2>2, ZenonT(60) DEF LastCard!GameType
    <2>4. /\ h.hands[p] = g.hands[p] \cup g.deck \cup S /\ h.deck = g.pile \ S /\ h.pile = {}
          /\ \A q \in LastCard!Players \ {p} : h.hands[q] = g.hands[q]
          /\ h.opt = g.opt /\ h.top = g.top
      BY <2>1 DEF LastCard!GameType
    <2>5. h = [g EXCEPT !.hands = h.hands, !.deck = h.deck, !.pile = h.pile]
      BY <2>1 DEF LastCard!GameType
    <2>6. LastCard!Held(h) \cup h.pile = LastCard!Held(g) \cup g.pile
      <3>1. \A x : x \in LastCard!Held(h) \cup h.pile => x \in LastCard!Held(g) \cup g.pile
        BY <2>4 DEF LastCard!Held
      <3>2. \A x : x \in LastCard!Held(g) \cup g.pile => x \in LastCard!Held(h) \cup h.pile
        BY <2>4 DEF LastCard!Held
      <3> QED BY <3>1, <3>2
    <2>7. LastCard!Apart(g) => LastCard!Apart(h)
      BY <2>4 DEF LastCard!Apart
    <2> QED BY <2>3, <2>4, <2>5, <2>6, <2>7 DEF CardsDrawn, SameCards
  <1> QED BY <1>1, <1>2 DEF LastCard!Drawn, LastCard!kSubset

\* Who plays draws.
LEMMA DrawnTyped ==
    ASSUME LastCardAssumption, NEW g, Typed(g), NEW p \in LastCard!Seated(g), NEW n,
           NEW h \in LastCard!Drawn(g, p, n)
    PROVE  Typed(h) /\ CardsDrawn(g, h, p)
  <1>1. p \in LastCard!Players
    BY SeatsKnown
  <1>2. CardsDrawn(g, h, p)
    BY <1>1, DrawnCards DEF Typed
  <1>3. h.opt = g.opt /\ h.turn = g.turn /\ h.dealer = g.dealer /\ h.target = g.target
        /\ h.wd4 = g.wd4 /\ h.phase = g.phase
    BY <1>2 DEF CardsDrawn, Typed, LastCard!GameType
  <1>4. LastCard!Seated(h) = LastCard!Seated(g)
    BY <1>3 DEF LastCard!Seated
  <1>5. \A q \in LastCard!Players \ LastCard!Seated(h) : h.hands[q] = {}
    BY <1>2, <1>4 DEF CardsDrawn, Typed
  <1> QED BY <1>2, <1>3, <1>4, <1>5 DEF Typed, CardsDrawn

LEMMA SwappedCards ==
    ASSUME NEW g \in LastCard!GameType, NEW p \in LastCard!Players, NEW t \in LastCard!Players \ {p}
    PROVE  SameCards(g, LastCard!Swapped(g, p, t))
  <1> DEFINE from == [q \in LastCard!Players |-> IF q = p THEN t ELSE IF q = t THEN p ELSE q]
             h == LastCard!Swapped(g, p, t)
  <1>1. /\ from \in [LastCard!Players -> LastCard!Players]
        /\ \A q \in LastCard!Players : from[from[q]] = q
    OBVIOUS
  <1>2. h = [g EXCEPT !.hands = [q \in LastCard!Players |-> g.hands[from[q]]]]
    BY ZenonT(60) DEF LastCard!Swapped, LastCard!GameType
  <1> HIDE DEF from, h
  <1>3. SameCards(g, h)
    BY <1>1, <1>2, HandsExchanged
  <1> QED BY <1>3 DEF h

LEMMA RotatedCards ==
    ASSUME LastCardAssumption, NEW g, Typed(g), NEW n \in Int
    PROVE  SameCards(g, LastCard!Rotated(g, n))
  <1> DEFINE m == g.opt.seats
             k == g.dir * n
             to == [p \in LastCard!Players |->
                       IF p \in LastCard!Seated(g)
                       THEN Seats[LastCard!Shift(m, LastCard!SeatOf(g, p), k)] ELSE p]
             from == [p \in LastCard!Players |->
                         IF p \in LastCard!Seated(g)
                         THEN Seats[LastCard!Shift(m, LastCard!SeatOf(g, p), -k)] ELSE p]
             h == LastCard!Rotated(g, n)
  <1>1. /\ m \in Nat \ {0} /\ k \in Int /\ -k \in Int /\ -(-k) = k
        /\ \A i \in 1..m : i \in DOMAIN Seats /\ Seats[i] \in LastCard!Seated(g)
        /\ \A p \in LastCard!Seated(g) :
              LastCard!SeatOf(g, p) \in 1..m /\ Seats[LastCard!SeatOf(g, p)] = p
        /\ LastCard!Seated(g) \subseteq LastCard!Players
    <2>1. g.dir \in {1, -1}
      BY DEF Typed, LastCard!GameType
    <2>2. k \in Int
      BY <2>1
    <2> QED BY <2>2, SeatsKnown, SMTT(30)
  <1> HIDE DEF m, k
  <1>2. \A i \in 1..m : LastCard!SeatOf(g, Seats[i]) = i
    BY <1>1 DEF LastCardAssumption
  <1>3. \A i \in 1..m : /\ LastCard!Shift(m, i, k) \in 1..m /\ LastCard!Shift(m, i, -k) \in 1..m
                        /\ LastCard!Shift(m, LastCard!Shift(m, i, k), -k) = i
                        /\ LastCard!Shift(m, LastCard!Shift(m, i, -k), k) = i
    <2> TAKE i \in 1..m
    <2>1. LastCard!Shift(m, i, k) \in 1..m /\ LastCard!Shift(m, LastCard!Shift(m, i, k), -k) = i
      BY <1>1, ShiftBack
    <2>2. /\ LastCard!Shift(m, i, -k) \in 1..m
          /\ LastCard!Shift(m, LastCard!Shift(m, i, -k), -(-k)) = i
      BY <1>1, ShiftBack
    <2> QED BY <1>1, <2>1, <2>2
  <1>4. \A p \in LastCard!Seated(g) :
            /\ to[p] = Seats[LastCard!Shift(m, LastCard!SeatOf(g, p), k)]
            /\ from[p] = Seats[LastCard!Shift(m, LastCard!SeatOf(g, p), -k)]
            /\ to[p] \in LastCard!Seated(g) /\ from[p] \in LastCard!Seated(g)
    BY <1>1, <1>3
  <1>5. \A p \in LastCard!Players \ LastCard!Seated(g) : to[p] = p /\ from[p] = p
    OBVIOUS
  <1>6. /\ to \in [LastCard!Players -> LastCard!Players]
        /\ from \in [LastCard!Players -> LastCard!Players]
    BY <1>1, <1>4, <1>5
  <1>7. h = [g EXCEPT !.hands = [p \in LastCard!Players |-> g.hands[from[p]]]]
    <2>1. \A p \in LastCard!Players \ LastCard!Seated(g) : g.hands[p] = {}
      BY DEF Typed
    <2>2. h = [g EXCEPT !.hands = [p \in LastCard!Players |->
                 IF p \in LastCard!Seated(g)
                 THEN g.hands[Seats[LastCard!Shift(m, LastCard!SeatOf(g, p), -k)]] ELSE {}]]
      BY DEF LastCard!Rotated, m, k
    <2> QED BY <1>4, <1>5, <2>1, <2>2, SMTT(60)
  <1> HIDE DEF to, from, h
  <1>8. ASSUME NEW p \in LastCard!Players
        PROVE  from[to[p]] = p /\ to[from[p]] = p
    <2>1. CASE p \in LastCard!Seated(g)
      <3>1. /\ LastCard!SeatOf(g, to[p]) = LastCard!Shift(m, LastCard!SeatOf(g, p), k)
            /\ LastCard!SeatOf(g, from[p]) = LastCard!Shift(m, LastCard!SeatOf(g, p), -k)
        BY <1>1, <1>2, <1>3, <1>4, <2>1
      <3> QED BY <1>1, <1>3, <1>4, <2>1, <3>1
    <2>2. CASE p \notin LastCard!Seated(g)
      BY <1>5, <2>2
    <2> QED BY <2>1, <2>2
  <1>9. g \in LastCard!GameType
    BY DEF Typed
  <1>10. SameCards(g, h)
    BY <1>6, <1>7, <1>8, <1>9, HandsExchanged
  <1> QED BY <1>10 DEF h
-----------------------------------------------------------------------------
(* Turns.                                                                  *)

\* A play that is going on: nothing else is asked, unless somebody was hasty.
Going(g) ==
    /\ Typed(g)
    /\ ~Stopped(g) => Kept(g) /\ (~g.hasty => Ordinary(g))

\* A game that differs in what Going does not look at.
LEMMA GoingOn ==
    ASSUME NEW g, Going(g), NEW h, Typed(h), SameCards(g, h),
           h.handWait = g.handWait, h.over = g.over, h.hasty = g.hasty, h.asking = g.asking,
           h.colorWait = g.colorWait, h.swapper = g.swapper, h.phase = g.phase
    PROVE  Going(h)
  BY KeptSame DEF Going, Stopped, Ordinary, Idle

LEMMA GoingDrawn ==
    ASSUME LastCardAssumption, NEW g, Going(g), NEW p \in LastCard!Seated(g), NEW n,
           NEW h \in LastCard!Drawn(g, p, n)
    PROVE  Going(h) /\ h.skips = g.skips /\ h.top = g.top /\ h.opt = g.opt
  <1>1. Typed(g)
    BY DEF Going
  <1>2. Typed(h) /\ CardsDrawn(g, h, p)
    BY <1>1, DrawnTyped
  <1>3. /\ h.skips = g.skips /\ h.top = g.top /\ h.opt = g.opt
        /\ h.handWait = g.handWait /\ h.over = g.over /\ h.hasty = g.hasty
        /\ h.asking = g.asking /\ h.colorWait = g.colorWait /\ h.swapper = g.swapper
        /\ h.phase = g.phase
    BY <1>1, <1>2 DEF CardsDrawn, Typed, LastCard!GameType
  <1> QED BY <1>2, <1>3, GoingOn DEF CardsDrawn

\* All that Going looks at; what is left is the direction, the colour, and counting.
Alike(g, h) ==
    /\ h.opt = g.opt /\ h.hands = g.hands /\ h.deck = g.deck /\ h.pile = g.pile
    /\ h.top = g.top /\ h.turn = g.turn /\ h.dealer = g.dealer /\ h.target = g.target
    /\ h.wd4 = g.wd4 /\ h.phase = g.phase /\ h.handWait = g.handWait /\ h.over = g.over
    /\ h.hasty = g.hasty /\ h.asking = g.asking /\ h.colorWait = g.colorWait
    /\ h.swapper = g.swapper

LEMMA GoingAlike ==
    ASSUME NEW g, Going(g), NEW h \in LastCard!GameType, Alike(g, h)
    PROVE  Going(h)
  <1>1. Typed(g)
    BY DEF Going
  <1>2. LastCard!Seated(h) = LastCard!Seated(g)
    BY DEF LastCard!Seated, Alike
  <1>3. Typed(h)
    BY <1>1, <1>2 DEF Typed, Alike
  <1>4. SameCards(g, h)
    BY Untouched DEF Alike
  <1> QED BY <1>3, <1>4, GoingOn DEF Alike

LEMMA GoingCounts ==
    ASSUME NEW g, Going(g)
    PROVE  /\ Going(LastCard!Fresh(g))
           /\ \A n \in Nat : Going(LastCard!Skip(g, n))
           /\ \A n \in Nat, b \in BOOLEAN : Going(LastCard!Debt(g, n, b))
           /\ Going([g EXCEPT !.pending = 0, !.plus4 = FALSE])
           /\ Going([g EXCEPT !.pending = 0])
           /\ \A k \in {1, -1} : Going([g EXCEPT !.dir = k])
  <1>1. g \in LastCard!GameType
    BY DEF Going, Typed
  <1>2. LastCard!Fresh(g) \in LastCard!GameType /\ Alike(g, LastCard!Fresh(g))
    BY <1>1, ZenonT(60) DEF LastCard!Fresh, LastCard!GameType, Alike
  <1>3. ASSUME NEW n \in Nat
        PROVE  LastCard!Skip(g, n) \in LastCard!GameType /\ Alike(g, LastCard!Skip(g, n))
    <2>1. g.skips + n \in Nat
      BY <1>1 DEF LastCard!GameType
    <2>2. LastCard!Skip(g, n) \in LastCard!GameType
      BY <1>1, <2>1 DEF LastCard!Skip, LastCard!GameType
    <2>3. Alike(g, LastCard!Skip(g, n))
      BY <1>1 DEF LastCard!Skip, LastCard!GameType, Alike
    <2> QED BY <2>2, <2>3
  <1>4. ASSUME NEW n \in Nat, NEW b \in BOOLEAN
        PROVE  LastCard!Debt(g, n, b) \in LastCard!GameType /\ Alike(g, LastCard!Debt(g, n, b))
    <2>1. g.pending + n \in Nat
      BY <1>1 DEF LastCard!GameType
    <2>2. LastCard!Debt(g, n, b) \in LastCard!GameType
      BY <1>1, <2>1 DEF LastCard!Debt, LastCard!GameType
    <2>3. Alike(g, LastCard!Debt(g, n, b))
      BY <1>1 DEF LastCard!Debt, LastCard!GameType, Alike
    <2> QED BY <2>2, <2>3
  <1>5. [g EXCEPT !.pending = 0, !.plus4 = FALSE] \in LastCard!GameType
        /\ Alike(g, [g EXCEPT !.pending = 0, !.plus4 = FALSE])
    BY <1>1, ZenonT(60) DEF LastCard!GameType, Alike
  <1>6. [g EXCEPT !.pending = 0] \in LastCard!GameType /\ Alike(g, [g EXCEPT !.pending = 0])
    BY <1>1 DEF LastCard!GameType, Alike
  <1>7. ASSUME NEW k \in {1, -1}
        PROVE  [g EXCEPT !.dir = k] \in LastCard!GameType /\ Alike(g, [g EXCEPT !.dir = k])
    BY <1>1 DEF LastCard!GameType, Alike
  <1> QED BY <1>2, <1>3, <1>4, <1>5, <1>6, <1>7, GoingAlike

LEMMA GoingMove ==
    ASSUME LastCardAssumption, NEW g, Going(g)
    PROVE  Going(LastCard!Move(g)) /\ LastCard!Move(g).skips = 0
  <1> DEFINE h == LastCard!Move(g)
  <1>1. Typed(g) /\ g \in LastCard!GameType
    BY DEF Going, Typed
  <1>2. g.dir * (g.skips + 1) \in Int
    <2>1. g.dir \in {1, -1} /\ g.skips \in Nat
      BY <1>1 DEF LastCard!GameType
    <2> QED BY <2>1
  <1>3. g.opt.seats \in 2..Len(Seats) /\ DOMAIN Seats = 1..Len(Seats) /\ Len(Seats) \in Nat
    BY <1>1, SeatsKnown
  <1>4. LastCard!Shift(g.opt.seats, g.turn, g.dir * (g.skips + 1)) \in 1..g.opt.seats
    <2> DEFINE k == g.dir * (g.skips + 1)
    <2>1. k \in Int /\ g.opt.seats \in Nat \ {0} /\ g.turn \in 1..g.opt.seats
      BY <1>1, <1>2, <1>3 DEF Typed
    <2> HIDE DEF k
    <2>2. LastCard!Shift(g.opt.seats, g.turn, k) \in 1..g.opt.seats
      BY <2>1, ShiftBack
    <2> QED BY <2>2 DEF k
  <1>5. h.turn \in 1..g.opt.seats /\ h.turn \in DOMAIN Seats
    BY <1>1, <1>3, <1>4 DEF LastCard!Move, LastCard!GameType
  <1>6. h \in LastCard!GameType
    <2>1. LastCard!Shift(g.opt.seats, g.turn, g.dir * (g.skips + 1)) \in DOMAIN Seats
      BY <1>3, <1>4
    <2> DEFINE t == LastCard!Shift(g.opt.seats, g.turn, g.dir * (g.skips + 1))
    <2>2. h = [g EXCEPT !.turn = t, !.skips = 0]
      BY DEF LastCard!Move
    <2> HIDE DEF t, h
    <2> QED BY <1>1, <2>1, <2>2 DEF LastCard!GameType, t
  <1>7. Alike([g EXCEPT !.turn = h.turn], h) /\ h.skips = 0 /\ Alike(h, [g EXCEPT !.turn = h.turn])
    BY <1>1 DEF LastCard!Move, LastCard!GameType, Alike
  <1>8. /\ h.opt = g.opt /\ h.hands = g.hands /\ h.deck = g.deck /\ h.pile = g.pile
        /\ h.top = g.top /\ h.dealer = g.dealer /\ h.target = g.target
        /\ h.wd4 = g.wd4 /\ h.phase = g.phase /\ h.handWait = g.handWait /\ h.over = g.over
        /\ h.hasty = g.hasty /\ h.asking = g.asking /\ h.colorWait = g.colorWait
        /\ h.swapper = g.swapper
    BY <1>1 DEF LastCard!Move, LastCard!GameType
  <1>9. LastCard!Seated(h) = LastCard!Seated(g)
    BY <1>8 DEF LastCard!Seated
  <1>10. Typed(h)
    BY <1>1, <1>5, <1>6, <1>8, <1>9 DEF Typed
  <1>11. SameCards(g, h)
    BY <1>8, Untouched
  <1> QED BY <1>7, <1>8, <1>10, <1>11, GoingOn

\* A turn that starts as it should.
LEMMA SoundTurn ==
    ASSUME NEW g, Going(g), DebtStacked(g), ~Stopped(g) /\ ~g.hasty => g.skips = 0
    PROVE  Sound(g)
  BY DEF Going, Sound, Orderly, Ordinary, Idle

LEMMA StartTurnSound ==
    ASSUME LastCardAssumption, NEW g, Going(g), ~Stopped(g) /\ ~g.hasty => g.skips = 0,
           NEW h \in LastCard!StartTurn(g)
    PROVE  Sound(h)
  <1>1. Typed(g) /\ g \in LastCard!GameType
    BY DEF Going, Typed
  <1>2. CASE h = LastCard!Fresh(g) /\ (g.pending = 0 \/ LastCard!CanStack(g, LastCard!Current(g)))
    <2>1. Going(h)
      BY <1>2, GoingCounts
    <2>2. /\ h.opt = g.opt /\ h.hands = g.hands /\ h.turn = g.turn /\ h.plus4 = g.plus4
          /\ h.pending = g.pending /\ h.handWait = g.handWait /\ h.over = g.over
          /\ h.hasty = g.hasty /\ h.skips = g.skips
      BY <1>1, <1>2 DEF LastCard!Fresh, LastCard!GameType
    <2>3. DebtStacked(h)
      BY <1>2, <2>2 DEF DebtStacked, LastCard!CanStack, LastCard!Stacks, LastCard!Current
    <2> QED BY <2>1, <2>2, <2>3, SoundTurn DEF Stopped
  <1>3. CASE \E d \in LastCard!Drawn(g, LastCard!Current(g), g.pending) :
                h = LastCard!Fresh(LastCard!Move(LastCard!Skip(
                        [d EXCEPT !.pending = 0, !.plus4 = FALSE], 1)))
    <2>1. PICK d \in LastCard!Drawn(g, LastCard!Current(g), g.pending) :
                h = LastCard!Fresh(LastCard!Move(LastCard!Skip(
                        [d EXCEPT !.pending = 0, !.plus4 = FALSE], 1)))
      BY <1>3
    <2>2. Going(d)
      BY <1>1, GoingDrawn, SeatsKnown
    <2> DEFINE e == [d EXCEPT !.pending = 0, !.plus4 = FALSE]
               f == LastCard!Skip(e, 1)
               m == LastCard!Move(f)
    <2>3. Going(e) /\ Going(f)
      BY <2>2, GoingCounts
    <2>4. Going(m) /\ m.skips = 0
      BY <2>3, GoingMove
    <2>5. m.pending = 0
      <3>1. d \in LastCard!GameType
        BY <2>2 DEF Going, Typed
      <3> QED BY <3>1 DEF LastCard!Move, LastCard!Skip, LastCard!GameType
    <2>6. Going(h)
      BY <2>1, <2>4, GoingCounts
    <2>7. h.pending = 0 /\ h.skips = 0
      <3>1. m \in LastCard!GameType
        BY <2>4 DEF Going, Typed
      <3> HIDE DEF m
      <3>2. h = LastCard!Fresh(m)
        BY <2>1 DEF m
      <3> QED BY <2>4, <2>5, <3>1, <3>2 DEF LastCard!Fresh, LastCard!GameType
    <2>8. DebtStacked(h)
      BY <2>7 DEF DebtStacked
    <2> QED BY <2>6, <2>7, <2>8, SoundTurn
  <1> QED BY <1>2, <1>3 DEF LastCard!StartTurn

LEMMA AdvanceSound ==
    ASSUME LastCardAssumption, NEW g, Going(g), NEW h \in LastCard!Advance(g)
    PROVE  Sound(h)
  BY GoingMove, StartTurnSound DEF LastCard!Advance

LEMMA GoingHands ==
    ASSUME NEW g, Going(g), NEW h \in LastCard!GameType, SameCards(g, h),
           h = [g EXCEPT !.hands = h.hands],
           \A p \in LastCard!Players \ LastCard!Seated(g) : h.hands[p] = {}
    PROVE  Going(h) /\ h.top = g.top /\ h.opt = g.opt
  <1>1. Typed(g) /\ g \in LastCard!GameType
    BY DEF Going, Typed
  <1>2. /\ h.opt = g.opt /\ h.top = g.top /\ h.turn = g.turn /\ h.dealer = g.dealer
        /\ h.target = g.target /\ h.wd4 = g.wd4 /\ h.phase = g.phase
        /\ h.handWait = g.handWait /\ h.over = g.over /\ h.hasty = g.hasty
        /\ h.asking = g.asking /\ h.colorWait = g.colorWait /\ h.swapper = g.swapper
    BY <1>1, SMTT(30) DEF LastCard!GameType
  <1>3. LastCard!Seated(h) = LastCard!Seated(g)
    BY <1>2 DEF LastCard!Seated
  <1>4. Typed(h)
    BY <1>1, <1>2, <1>3 DEF Typed
  <1> QED BY <1>2, <1>4, GoingOn

LEMMA SwappedTyped ==
    ASSUME LastCardAssumption, NEW g, Typed(g), NEW p \in LastCard!Seated(g),
           NEW t \in LastCard!Seated(g) \ {p}
    PROVE  /\ LastCard!Swapped(g, p, t) \in LastCard!GameType
           /\ SameCards(g, LastCard!Swapped(g, p, t))
           /\ LastCard!Swapped(g, p, t) = [g EXCEPT !.hands = LastCard!Swapped(g, p, t).hands]
           /\ \A q \in LastCard!Players \ LastCard!Seated(g) :
                 LastCard!Swapped(g, p, t).hands[q] = {}
  <1> DEFINE h == LastCard!Swapped(g, p, t)
  <1>1. g \in LastCard!GameType /\ p \in LastCard!Players /\ t \in LastCard!Players
    BY SeatsKnown DEF Typed
  <1>2. SameCards(g, h)
    BY <1>1, SwappedCards
  <1>3. h \in LastCard!GameType
    BY <1>1, ZenonT(60) DEF LastCard!Swapped, LastCard!GameType
  <1>4. h = [g EXCEPT !.hands = h.hands]
    BY <1>1 DEF LastCard!Swapped, LastCard!GameType
  <1>5. \A q \in LastCard!Players \ LastCard!Seated(g) : h.hands[q] = {}
    <2>1. \A q \in LastCard!Players \ {p, t} : h.hands[q] = g.hands[q]
      BY <1>1 DEF LastCard!Swapped, LastCard!GameType
    <2> QED BY <2>1 DEF Typed
  <1> QED BY <1>2, <1>3, <1>4, <1>5

LEMMA GoingRotated ==
    ASSUME LastCardAssumption, NEW g, Going(g), NEW n \in Int
    PROVE  /\ Going(LastCard!Rotated(g, n))
           /\ LastCard!Rotated(g, n).top = g.top /\ LastCard!Rotated(g, n).opt = g.opt
  <1> DEFINE h == LastCard!Rotated(g, n)
  <1>1. Typed(g) /\ g \in LastCard!GameType
    BY DEF Going, Typed
  <1>2. SameCards(g, h)
    BY <1>1, RotatedCards
  <1>3. \A p \in LastCard!Seated(g) :
            Seats[LastCard!Shift(g.opt.seats, LastCard!SeatOf(g, p), -(g.dir * n))]
                \in LastCard!Players
    <2> TAKE p \in LastCard!Seated(g)
    <2>1. /\ g.opt.seats \in Nat \ {0} /\ LastCard!SeatOf(g, p) \in 1..g.opt.seats
          /\ \A i \in 1..g.opt.seats : Seats[i] \in LastCard!Players
      BY <1>1, SeatsKnown
    <2>2. -(g.dir * n) \in Int
      <3>1. g.dir \in {1, -1}
        BY <1>1 DEF LastCard!GameType
      <3> QED BY <3>1
    <2> DEFINE k == -(g.dir * n)
    <2> HIDE DEF k
    <2>3. LastCard!Shift(g.opt.seats, LastCard!SeatOf(g, p), k) \in 1..g.opt.seats
      BY <2>1, <2>2, ShiftBack DEF k
    <2> QED BY <2>1, <2>3 DEF k
  <1>4. /\ h.hands \in [LastCard!Players -> SUBSET LastCard!Cards]
        /\ \A p \in LastCard!Players \ LastCard!Seated(g) : h.hands[p] = {}
    BY <1>1, <1>3 DEF LastCard!Rotated, LastCard!GameType
  <1>5. h = [g EXCEPT !.hands = h.hands]
    BY <1>1 DEF LastCard!Rotated, LastCard!GameType
  <1> HIDE DEF h
  <1>6. h \in LastCard!GameType
    BY <1>1, <1>4, <1>5, SMTT(30) DEF LastCard!GameType
  <1>7. Going(h) /\ h.top = g.top /\ h.opt = g.opt
    BY <1>2, <1>4, <1>5, <1>6, GoingHands
  <1> QED BY <1>7 DEF h

\* With two seats the next player is the other one.
LEMMA TheOther ==
    ASSUME LastCardAssumption, NEW g, Typed(g), g.opt.seats = 2
    PROVE  LastCard!NextPlayer(g) # LastCard!Current(g)
  <1>1. g.turn \in {1, 2} /\ g.dir \in {1, -1} /\ 1 \in DOMAIN Seats /\ 2 \in DOMAIN Seats
    BY SeatsKnown DEF Typed, LastCard!GameType
  <1>2. /\ LastCard!Shift(2, 1, 1) = 2 /\ LastCard!Shift(2, 1, -1) = 2
        /\ LastCard!Shift(2, 2, 1) = 1 /\ LastCard!Shift(2, 2, -1) = 1
    <2>1. 1 % 2 = 1 /\ (-1) % 2 = 1 /\ 2 % 2 = 0 /\ 0 % 2 = 0
      <3>1. 1 % 2 = 1
        BY 1 = 2 * 0 + 1, 2 \in Nat \ {0}, Remainder
      <3>2. (-1) % 2 = 1
        <4> DEFINE x == -1
        <4>1. x \in Int /\ x = 2 * x + 1 /\ 2 \in Nat \ {0} /\ 1 \in 0..2-1
          OBVIOUS
        <4> HIDE DEF x
        <4>2. \A q \in Int, r \in 0..2-1 : x = 2 * q + r => x % 2 = r
          BY <4>1, Remainder
        <4>3. x % 2 = 1
          BY <4>1, <4>2
        <4> QED BY <4>3 DEF x
      <3>3. 2 % 2 = 0
        BY 2 = 2 * 1 + 0, 2 \in Nat \ {0}, Remainder
      <3>4. 0 % 2 = 0
        BY 0 = 2 * 0 + 0, 2 \in Nat \ {0}, Remainder
      <3> QED BY <3>1, <3>2, <3>3, <3>4
    <2>2. /\ 1 - 1 + 1 = 1 /\ 1 - 1 + -1 = -1 /\ 2 - 1 + 1 = 2 /\ 2 - 1 + -1 = 0
      OBVIOUS
    <2> QED BY <2>1, <2>2 DEF LastCard!Shift
  <1>3. /\ LastCard!Shift(2, g.turn, g.dir) # g.turn
        /\ LastCard!Shift(2, g.turn, g.dir) \in DOMAIN Seats
        /\ g.turn \in DOMAIN Seats
    BY <1>1, <1>2
  <1> QED BY <1>3 DEF LastCard!NextPlayer, LastCard!Current, LastCardAssumption

LEMMA GoingCharged ==
    ASSUME LastCardAssumption, NEW g, Going(g), NEW n \in Nat, NEW b \in BOOLEAN,
           NEW h \in LastCard!Charged(g, n, b)
    PROVE  Going(h) /\ h.top = g.top /\ h.opt = g.opt
  <1>1. Typed(g) /\ g \in LastCard!GameType /\ LastCard!NextPlayer(g) \in LastCard!Seated(g)
    BY SeatsKnown DEF Going, Typed
  <1>2. CASE h = LastCard!Debt(g, n, b)
    <2>1. h.top = g.top /\ h.opt = g.opt
      BY <1>1, <1>2 DEF LastCard!Debt, LastCard!GameType
    <2> QED BY <1>2, <2>1, GoingCounts
  <1>3. CASE \E d \in LastCard!Drawn(g, LastCard!NextPlayer(g), n) : h = LastCard!Skip(d, 1)
    <2>1. PICK d \in LastCard!Drawn(g, LastCard!NextPlayer(g), n) : h = LastCard!Skip(d, 1)
      BY <1>3
    <2>2. Going(d) /\ d.top = g.top /\ d.opt = g.opt
      BY <1>1, GoingDrawn
    <2>3. h.top = d.top /\ h.opt = d.opt
      BY <2>1, <2>2 DEF LastCard!Skip, Going, Typed, LastCard!GameType
    <2> QED BY <2>1, <2>2, <2>3, GoingCounts
  <1> QED BY <1>2, <1>3 DEF LastCard!Charged

LEMMA GoingStruck ==
    ASSUME LastCardAssumption, NEW g, Going(g), NEW rank, NEW n \in Nat,
           NEW h \in LastCard!Struck(g, rank, n)
    PROVE  Going(h) /\ h.top = g.top /\ h.opt = g.opt
  <1>1. /\ Typed(g) /\ g \in LastCard!GameType /\ LastCard!Current(g) \in LastCard!Seated(g)
        /\ LastCard!NextPlayer(g) \in LastCard!Seated(g)
    BY SeatsKnown DEF Going, Typed
  <1>2. CASE h = LastCard!Skip(g, n)
    <2>1. h.top = g.top /\ h.opt = g.opt
      BY <1>1, <1>2 DEF LastCard!Skip, LastCard!GameType
    <2> QED BY <1>2, <2>1, GoingCounts
  <1>3. CASE h = [g EXCEPT !.dir = IF n % 2 = 0 THEN @ ELSE -@]
    <2>1. PICK k \in {1, -1} : h = [g EXCEPT !.dir = k]
      <3>1. g.dir \in {1, -1} /\ -g.dir \in {1, -1}
        BY <1>1 DEF LastCard!GameType
      <3>2. h = [g EXCEPT !.dir = IF n % 2 = 0 THEN g.dir ELSE -g.dir]
        BY <1>1, <1>3 DEF LastCard!GameType
      <3>3. h = [g EXCEPT !.dir = g.dir] \/ h = [g EXCEPT !.dir = -g.dir]
        BY <3>2
      <3> QED BY <3>1, <3>3
    <2>2. h.top = g.top /\ h.opt = g.opt
      BY <1>1, <2>1 DEF LastCard!GameType
    <2> QED BY <2>1, <2>2, GoingCounts
  <1>4. CASE h \in LastCard!Charged(g, 2 * n, FALSE) \/ h \in LastCard!Charged(g, 4, TRUE)
    <2>1. 2 * n \in Nat /\ 4 \in Nat /\ TRUE \in BOOLEAN /\ FALSE \in BOOLEAN
      OBVIOUS
    <2>2. CASE h \in LastCard!Charged(g, 2 * n, FALSE)
      <3> DEFINE m == 2 * n
      <3> HIDE DEF m
      <3>1. m \in Nat /\ h \in LastCard!Charged(g, m, FALSE)
        BY <2>1, <2>2 DEF m
      <3> QED BY <2>1, <3>1, GoingCharged
    <2>3. CASE h \in LastCard!Charged(g, 4, TRUE)
      BY <2>1, <2>3, GoingCharged
    <2> QED BY <1>4, <2>2, <2>3
  <1>5. CASE g.opt.seats = 2 /\ h = LastCard!Swapped(g, LastCard!Current(g), LastCard!NextPlayer(g))
    <2>1. LastCard!NextPlayer(g) \in LastCard!Seated(g) \ {LastCard!Current(g)}
      BY <1>1, <1>5, TheOther
    <2> QED BY <1>1, <1>5, <2>1, SwappedTyped, GoingHands
  <1>6. CASE h = LastCard!Rotated(g, n)
    BY <1>6, GoingRotated
  <1>7. CASE h = g
    BY <1>7
  <1> QED BY <1>2, <1>3, <1>4, <1>5, <1>6, <1>7 DEF LastCard!Struck

LEMMA EffectsSound ==
    ASSUME LastCardAssumption, NEW g, Going(g), NEW n \in Nat,
           ~Stopped(g) /\ ~g.hasty => g.skips = 0 \/ ~SkipAll(g),
           NEW h \in LastCard!Effects(g, LastCard!Rank(g.top), n)
    PROVE  Sound(h)
  <1>1. Typed(g) /\ g \in LastCard!GameType
    BY DEF Going, Typed
  <1>2. CASE SkipAll(g)
    BY <1>2, StartTurnSound DEF LastCard!Effects, SkipAll
  <1>3. CASE ~SkipAll(g) /\ h = [g EXCEPT !.swapper = LastCard!Current(g)]
    <2>1. LastCard!Current(g) \in LastCard!Players /\ LastCard!Current(g) # None
      BY <1>1, SeatsKnown DEF LastCardAssumption
    <2>2. h \in LastCard!GameType
      BY <1>1, <1>3, <2>1, ZenonT(60) DEF LastCard!GameType
    <2>3. /\ h.opt = g.opt /\ h.hands = g.hands /\ h.deck = g.deck /\ h.pile = g.pile
          /\ h.top = g.top /\ h.turn = g.turn /\ h.dealer = g.dealer /\ h.target = g.target
          /\ h.wd4 = g.wd4 /\ h.phase = g.phase /\ h.handWait = g.handWait /\ h.over = g.over
          /\ h.hasty = g.hasty /\ h.asking = g.asking /\ h.colorWait = g.colorWait
          /\ h.swapper = LastCard!Current(g)
      BY <1>1, <1>3 DEF LastCard!GameType
    <2>4. LastCard!Seated(h) = LastCard!Seated(g)
      BY <2>3 DEF LastCard!Seated
    <2>5. Typed(h)
      BY <1>1, <2>2, <2>3, <2>4 DEF Typed
    <2>6. LastCard!Current(h) = LastCard!Current(g) /\ ~Ordinary(h)
      BY <2>1, <2>3 DEF LastCard!Current, Ordinary, Idle
    <2>7. ~Stopped(h) => Kept(h)
      BY <2>3, Untouched, KeptSame DEF Going, Stopped
    <2>8. ~Stopped(h) /\ ~h.hasty => Orderly(h)
      BY <2>3, <2>6 DEF Going, Stopped, Orderly, Ordinary, Idle
    <2> QED BY <2>5, <2>6, <2>7, <2>8 DEF Sound, DebtStacked
  <1>4. CASE ~SkipAll(g) /\ \E e \in LastCard!Struck(g, LastCard!Rank(g.top), n) :
                               h = [e EXCEPT !.phase = "jump_in_window"]
    <2>1. PICK e \in LastCard!Struck(g, LastCard!Rank(g.top), n) :
              h = [e EXCEPT !.phase = "jump_in_window"]
      BY <1>4
    <2>2. Going(e) /\ e.top = g.top /\ e.opt = g.opt
      BY GoingStruck
    <2>3. Typed(e) /\ e \in LastCard!GameType
      BY <2>2 DEF Going, Typed
    <2>4. h \in LastCard!GameType
      BY <2>1, <2>3, ZenonT(60) DEF LastCard!GameType, LastCard!Phases
    <2>5. /\ h.opt = e.opt /\ h.hands = e.hands /\ h.deck = e.deck /\ h.pile = e.pile
          /\ h.top = e.top /\ h.turn = e.turn /\ h.dealer = e.dealer /\ h.target = e.target
          /\ h.wd4 = e.wd4 /\ h.phase = "jump_in_window" /\ h.handWait = e.handWait
          /\ h.over = e.over /\ h.hasty = e.hasty /\ h.asking = e.asking
          /\ h.colorWait = e.colorWait /\ h.swapper = e.swapper
      BY <2>1, <2>3 DEF LastCard!GameType
    <2>6. LastCard!Seated(h) = LastCard!Seated(e)
      BY <2>5 DEF LastCard!Seated
    <2>7. Typed(h)
      BY <2>3, <2>4, <2>5, <2>6 DEF Typed
    <2>8. ~SkipAll(h) /\ ~Ordinary(h)
      BY <1>4, <2>2, <2>5 DEF SkipAll, Ordinary
    <2>9. ~Stopped(h) => Kept(h)
      BY <2>2, <2>5, Untouched, KeptSame DEF Going, Stopped
    <2>10. ~Stopped(h) /\ ~h.hasty => Orderly(h)
      BY <2>2, <2>5, <2>8 DEF Going, Stopped, Orderly, Ordinary, Idle
    <2> QED BY <2>7, <2>8, <2>9, <2>10 DEF Sound, DebtStacked
  <1>5. CASE /\ ~SkipAll(g)
             /\ \E e \in LastCard!Struck(g, LastCard!Rank(g.top), n) : h \in LastCard!Advance(e)
    BY <1>5, GoingStruck, AdvanceSound
  <1> QED BY <1>2, <1>3, <1>4, <1>5 DEF LastCard!Effects, SkipAll
-----------------------------------------------------------------------------
(* Cards that are played.                                                  *)

LEMMA EndRoundSound ==
    ASSUME NEW g, Typed(g), NEW h \in LastCard!EndRound(g)
    PROVE  Sound(h)
  <1> DEFINE none == [p \in LastCard!Players |-> {}]
  <1>1. g \in LastCard!GameType /\ none \in [LastCard!Players -> SUBSET LastCard!Cards]
    BY DEF Typed
  <1>2. \/ h = [g EXCEPT !.hands = none, !.handWait = TRUE]
        \/ h = [g EXCEPT !.hands = none, !.over = TRUE]
    BY <1>1 DEF LastCard!EndRound, LastCard!GameType
  <1>3. \A p \in LastCard!Players : none[p] = {}
    OBVIOUS
  <1> HIDE DEF none
  <1>4. h \in LastCard!GameType /\ h.hands = none /\ Stopped(h)
    <2>1. CASE h = [g EXCEPT !.hands = none, !.handWait = TRUE]
      BY <1>1, <2>1, ZenonT(60) DEF LastCard!GameType, Stopped
    <2>2. CASE h = [g EXCEPT !.hands = none, !.over = TRUE]
      BY <1>1, <2>2, ZenonT(60) DEF LastCard!GameType, Stopped
    <2> QED BY <1>2, <2>1, <2>2
  <1>5. /\ h.opt = g.opt /\ h.turn = g.turn /\ h.dealer = g.dealer /\ h.target = g.target
        /\ h.wd4 = g.wd4 /\ h.phase = g.phase
    BY <1>1, <1>2, ZenonT(60) DEF LastCard!GameType
  <1>6. LastCard!Seated(h) = LastCard!Seated(g)
    BY <1>5 DEF LastCard!Seated
  <1> QED BY <1>3, <1>4, <1>5, <1>6 DEF Typed, Sound

\* Who must call, or may be challenged, has the turn; and nothing else is left to do.
LEMMA CalloutSound ==
    ASSUME LastCardAssumption, NEW g, Going(g), NEW p \in LastCard!Seated(g), NEW wd4 \in {None, p},
           NEW matching \in BOOLEAN,
           ~Stopped(g) /\ ~g.hasty =>
                /\ p = LastCard!Current(g) /\ LastCard!Cardinality(g.hands[p]) = 1
                /\ g.skips = 0 \/ ~SkipAll(g)
    PROVE  Sound(LastCard!Callout(g, p, wd4, matching))
  <1> DEFINE h == LastCard!Callout(g, p, wd4, matching)
  <1>1. Typed(g) /\ g \in LastCard!GameType /\ p \in LastCard!Players /\ p # None
    BY SeatsKnown DEF Going, Typed, LastCardAssumption
  <1>2. h \in LastCard!GameType
    BY <1>1, ZenonT(60) DEF LastCard!Callout, LastCard!GameType, LastCard!Phases
  <1>3. /\ h.opt = g.opt /\ h.hands = g.hands /\ h.deck = g.deck /\ h.pile = g.pile
        /\ h.top = g.top /\ h.turn = g.turn /\ h.dealer = g.dealer /\ h.target = p
        /\ h.wd4 = wd4 /\ h.phase = "last_card_callout" /\ h.handWait = g.handWait
        /\ h.over = g.over /\ h.hasty = g.hasty /\ h.asking = g.asking
        /\ h.colorWait = g.colorWait /\ h.swapper = g.swapper /\ h.skips = g.skips
    BY <1>1 DEF LastCard!Callout, LastCard!GameType
  <1>4. /\ LastCard!Seated(h) = LastCard!Seated(g) /\ LastCard!Current(h) = LastCard!Current(g)
        /\ (SkipAll(h) <=> SkipAll(g))
    BY <1>3 DEF LastCard!Seated, LastCard!Current, SkipAll
  <1>5. Typed(h)
    BY <1>1, <1>2, <1>3, <1>4 DEF Typed
  <1>6. ~Stopped(h) => Kept(h)
    BY <1>3, Untouched, KeptSame DEF Going, Stopped
  <1>7. ~Stopped(h) /\ ~h.hasty => Orderly(h)
    BY <1>1, <1>3, <1>4 DEF Going, Stopped, Orderly, Ordinary, Idle
  <1>8. ~Ordinary(h)
    BY <1>3 DEF Ordinary
  <1> QED BY <1>5, <1>6, <1>7, <1>8 DEF Sound, DebtStacked

LEMMA WD4WindowSound ==
    ASSUME LastCardAssumption, NEW g, Going(g), NEW p \in LastCard!Seated(g),
           NEW matching \in BOOLEAN,
           ~Stopped(g) /\ ~g.hasty => p = LastCard!Current(g) /\ LastCard!Rank(g.top) = "wild4"
    PROVE  Sound(LastCard!WD4Window(g, p, matching))
  <1> DEFINE h == LastCard!WD4Window(g, p, matching)
  <1>1. Typed(g) /\ g \in LastCard!GameType /\ p \in LastCard!Players /\ p # None
    BY SeatsKnown DEF Going, Typed, LastCardAssumption
  <1>2. h \in LastCard!GameType
    BY <1>1 DEF LastCard!WD4Window, LastCard!GameType, LastCard!Phases
  <1>3. /\ h.opt = g.opt /\ h.hands = g.hands /\ h.deck = g.deck /\ h.pile = g.pile
        /\ h.top = g.top /\ h.turn = g.turn /\ h.dealer = g.dealer /\ h.target = p
        /\ h.wd4 = p /\ h.phase = "challenge_wd4" /\ h.handWait = g.handWait
        /\ h.over = g.over /\ h.hasty = g.hasty /\ h.asking = g.asking
        /\ h.colorWait = g.colorWait /\ h.swapper = g.swapper /\ h.skips = g.skips
    BY <1>1 DEF LastCard!WD4Window, LastCard!GameType
  <1>4. LastCard!Seated(h) = LastCard!Seated(g) /\ LastCard!Current(h) = LastCard!Current(g)
    BY <1>3 DEF LastCard!Seated, LastCard!Current
  <1>5. Typed(h)
    BY <1>1, <1>2, <1>3, <1>4 DEF Typed
  <1>6. ~Stopped(h) => Kept(h)
    BY <1>3, Untouched, KeptSame DEF Going, Stopped
  <1>7. ~Stopped(h) /\ ~h.hasty => Orderly(h)
    BY <1>1, <1>3, <1>4 DEF Going, Stopped, Orderly, Ordinary, Idle
  <1>8. ~Ordinary(h)
    BY <1>3 DEF Ordinary
  <1> QED BY <1>5, <1>6, <1>7, <1>8 DEF Sound, DebtStacked

LEMMA CheckSound ==
    ASSUME LastCardAssumption, NEW g, Going(g), NEW p \in LastCard!Seated(g),
           NEW matching \in BOOLEAN,
           ~Stopped(g) /\ ~g.hasty => p = LastCard!Current(g) /\ (g.skips = 0 \/ ~SkipAll(g)),
           NEW h \in LastCard!Check(g, p, matching)
    PROVE  Sound(h)
  <1> DEFINE wd4 == IF LastCard!Rank(g.top) = "wild4" THEN p ELSE None
  <1>1. wd4 \in {None, p}
    OBVIOUS
  <1>2. CASE h \in LastCard!EndRound(g)
    BY <1>2, EndRoundSound DEF Going
  <1>3. CASE h = LastCard!Callout(g, p, wd4, matching) /\ LastCard!Cardinality(g.hands[p]) = 1
    BY <1>1, <1>3, CalloutSound
  <1>4. CASE h = LastCard!WD4Window(g, p, matching) /\ LastCard!Rank(g.top) = "wild4"
    BY <1>4, WD4WindowSound
  <1>5. CASE h \in LastCard!Effects(g, LastCard!Rank(g.top), 1)
    BY <1>5, 1 \in Nat, EffectsSound
  <1> QED BY <1>2, <1>3, <1>4, <1>5 DEF LastCard!Check

\* What is played goes on the pile, under the last card of it.
LEMMA GoingLaid ==
    ASSUME LastCardAssumption, NEW g, Going(g), NEW p \in LastCard!Seated(g),
           NEW S \in SUBSET g.hands[p],
           NEW last \in S
    PROVE  /\ Going(LastCard!Laid(g, p, S, last)) /\ LastCard!Laid(g, p, S, last).top = last
           /\ LastCard!Laid(g, p, S, last).opt = g.opt
           /\ LastCard!Laid(g, p, S, last).skips = g.skips
           /\ LastCard!Laid(g, p, S, last).turn = g.turn
           /\ LastCard!Color(last) \in Colors \cup {"wild"}
  <1> DEFINE h == LastCard!Laid(g, p, S, last)
  <1>1. Typed(g) /\ g \in LastCard!GameType /\ p \in LastCard!Players
    BY SeatsKnown DEF Going, Typed
  <1>2. g.hands[p] \subseteq LastCard!Cards /\ S \subseteq LastCard!Cards /\ last \in LastCard!Cards
    BY <1>1 DEF LastCard!GameType
  <1>3. g.plays + 1 \in Nat /\ 0 \in 0..Len(Seats)
    BY <1>1 DEF LastCard!GameType, LastCardAssumption
  <1>4. h \in LastCard!GameType
    BY <1>1, <1>2, <1>3, ZenonT(60) DEF LastCard!Laid, LastCard!GameType
  <1>5. /\ h.opt = g.opt /\ h.deck = g.deck /\ h.pile = g.pile \cup {g.top} \cup (S \ {last})
        /\ h.top = last /\ h.turn = g.turn /\ h.dealer = g.dealer /\ h.target = g.target
        /\ h.wd4 = g.wd4 /\ h.phase = g.phase /\ h.handWait = g.handWait /\ h.over = g.over
        /\ h.hasty = g.hasty /\ h.asking = g.asking /\ h.colorWait = g.colorWait
        /\ h.swapper = g.swapper /\ h.skips = g.skips
    BY <1>1 DEF LastCard!Laid, LastCard!GameType
  <1>6. h.hands[p] = g.hands[p] \ S /\ \A q \in LastCard!Players \ {p} : h.hands[q] = g.hands[q]
    BY <1>1 DEF LastCard!Laid, LastCard!GameType
  <1> HIDE DEF h
  <1>7. LastCard!Seated(h) = LastCard!Seated(g)
    BY <1>5 DEF LastCard!Seated
  <1>8. Typed(h)
    <2>1. \A q \in LastCard!Players \ LastCard!Seated(g) : h.hands[q] = {}
      BY <1>1, <1>6 DEF Typed
    <2> QED BY <1>1, <1>4, <1>5, <1>7, <2>1 DEF Typed
  <1>9. SameCards(g, h)
    <2>1. \A x : x \in LastCard!Held(h) \cup h.pile => x \in LastCard!Held(g) \cup g.pile
      BY <1>1, <1>5, <1>6 DEF LastCard!Held
    <2>2. \A x : x \in LastCard!Held(g) \cup g.pile => x \in LastCard!Held(h) \cup h.pile
      BY <1>1, <1>5, <1>6 DEF LastCard!Held
    <2>3. LastCard!Apart(g) => LastCard!Apart(h)
      <3> SUFFICES ASSUME LastCard!Apart(g) PROVE LastCard!Apart(h)
        OBVIOUS
      <3>1. h.deck \cap h.pile = {} /\ h.top \notin h.deck \cup h.pile
        BY <1>1, <1>5 DEF LastCard!Apart
      <3>2. \A q \in LastCard!Players : h.hands[q] \subseteq g.hands[q]
        BY <1>6
      <3>3. \A q \in LastCard!Players : h.hands[q] \cap S = {}
        BY <1>1, <1>6 DEF LastCard!Apart
      <3>4. \A q \in LastCard!Players : h.hands[q] \cap (h.deck \cup h.pile \cup {h.top}) = {}
        BY <1>5, <3>2, <3>3 DEF LastCard!Apart
      <3>5. \A q \in LastCard!Players : \A r \in LastCard!Players \ {q} :
                h.hands[q] \cap h.hands[r] = {}
        BY <3>2 DEF LastCard!Apart
      <3> QED BY <3>1, <3>4, <3>5 DEF LastCard!Apart
    <2>4. LastCard!Held(h) \cup h.pile = LastCard!Held(g) \cup g.pile
      BY <2>1, <2>2
    <2> QED BY <1>5, <2>3, <2>4 DEF SameCards
  <1>10. LastCard!Color(last) \in Colors \cup {"wild"}
    <2> DEFINE R == [rank : STRING, color : Colors \cup {"wild"}]
    <2>1. Pack \in Seq(R) /\ last \in DOMAIN Pack
      BY <1>2 DEF LastCard!Cards, LastCardAssumption
    <2> HIDE DEF R
    <2>2. Pack[last] \in R
      BY <2>1
    <2> QED BY <2>2 DEF LastCard!Color, R
  <1>11. Going(h)
    BY <1>5, <1>8, <1>9, GoingOn
  <1> QED BY <1>5, <1>10, <1>11 DEF h

LEMMA GoingColor ==
    ASSUME NEW g, Going(g), NEW color \in Colors \cup {"wild"}
    PROVE  Going([g EXCEPT !.color = color]) /\ Alike(g, [g EXCEPT !.color = color])
           /\ [g EXCEPT !.color = color].skips = g.skips
  <1>1. g \in LastCard!GameType
    BY DEF Going, Typed
  <1>2. [g EXCEPT !.color = color] \in LastCard!GameType /\ Alike(g, [g EXCEPT !.color = color])
        /\ [g EXCEPT !.color = color].skips = g.skips
    BY <1>1, ZenonT(60) DEF LastCard!GameType, Alike
  <1> QED BY <1>2, GoingAlike

LEMMA PlayOneSound ==
    ASSUME LastCardAssumption, NEW g, Going(g), NEW p \in LastCard!Seated(g), NEW c \in g.hands[p],
           ~Stopped(g) /\ ~g.hasty =>
               /\ p = LastCard!Current(g)
               /\ g.skips = 0 \/ ~(g.opt.skipAll /\ LastCard!Rank(c) = "skip"),
           NEW j \in LastCard!PlayOne(g, p, c)
    PROVE  Sound(j)
  <1> DEFINE h == LastCard!Laid(g, p, {c}, c)
             matching == /\ LastCard!Rank(c) = "wild4"
                         /\ \E d \in h.hands[p] : LastCard!Color(d) = g.color
             k == [h EXCEPT !.color = LastCard!Color(c)]
  <1>1. /\ Going(h) /\ h.top = c /\ h.opt = g.opt /\ h.skips = g.skips /\ h.turn = g.turn
        /\ LastCard!Color(c) \in Colors \cup {"wild"}
    BY GoingLaid
  <1>2. Typed(g) /\ g \in LastCard!GameType /\ p \in LastCard!Players /\ p # None
    BY SeatsKnown DEF Going, Typed, LastCardAssumption
  <1>3. /\ LastCard!Seated(h) = LastCard!Seated(g) /\ LastCard!Current(h) = LastCard!Current(g)
        /\ h.handWait = g.handWait
        /\ h.over = g.over /\ h.hasty = g.hasty
    BY <1>1, <1>2 DEF LastCard!Seated, LastCard!Current, LastCard!Laid, LastCard!GameType
  <1>4. matching \in BOOLEAN
    OBVIOUS
  <1>5. ~Stopped(h) /\ ~h.hasty => p = LastCard!Current(h) /\ (h.skips = 0 \/ ~SkipAll(h))
    BY <1>1, <1>3 DEF Stopped, SkipAll
  <1>6. Going(k) /\ Alike(h, k) /\ k.skips = h.skips
    BY <1>1, GoingColor
  <1> HIDE DEF h, k
  <1>7. CASE j \in LastCard!Check(k, p, FALSE)
    <2>1. /\ LastCard!Seated(k) = LastCard!Seated(h)
          /\ LastCard!Current(k) = LastCard!Current(h) /\ (SkipAll(k) <=> SkipAll(h))
          /\ (Stopped(k) <=> Stopped(h)) /\ k.hasty = h.hasty
      BY <1>6 DEF LastCard!Seated, LastCard!Current, SkipAll, Alike, Stopped
    <2> QED BY <1>3, <1>5, <1>6, <1>7, <2>1, CheckSound
  <1>8. CASE j \in LastCard!Check(h, p, matching)
    <2> HIDE DEF matching
    <2> QED BY <1>1, <1>3, <1>4, <1>5, <1>8, CheckSound
  <1>9. CASE /\ j = [h EXCEPT !.asking = TRUE, !.wd4 = p, !.matching = matching]
             /\ LastCard!Rank(c) \in LastCard!Wilds
    <2> HIDE DEF matching
    <2>1. Typed(h) /\ h \in LastCard!GameType
      BY <1>1 DEF Going, Typed
    <2>2. j \in LastCard!GameType
      BY <1>2, <1>4, <1>9, <2>1, ZenonT(60) DEF LastCard!GameType
    <2>3. /\ j.opt = h.opt /\ j.hands = h.hands /\ j.deck = h.deck /\ j.pile = h.pile
          /\ j.top = h.top /\ j.turn = h.turn /\ j.dealer = h.dealer /\ j.target = h.target
          /\ j.wd4 = p /\ j.phase = h.phase /\ j.handWait = h.handWait
          /\ j.over = h.over /\ j.hasty = h.hasty /\ j.asking = TRUE
          /\ j.colorWait = h.colorWait /\ j.swapper = h.swapper
      BY <1>9, <2>1 DEF LastCard!GameType
    <2>4. /\ LastCard!Seated(j) = LastCard!Seated(h)
          /\ LastCard!Current(j) = LastCard!Current(h)
          /\ LastCard!Rank(j.top) \in LastCard!Wilds
      BY <1>1, <1>9, <2>3 DEF LastCard!Seated, LastCard!Current
    <2>5. Typed(j)
      BY <1>2, <1>3, <2>1, <2>2, <2>3, <2>4 DEF Typed
    <2>6. ~Stopped(j) => Kept(j)
      BY <1>1, <2>3, Untouched, KeptSame DEF Going, Stopped
    <2>7. ~Stopped(j) /\ ~j.hasty => Orderly(j)
      BY <1>1, <1>5, <2>3, <2>4 DEF Going, Stopped, Orderly, Ordinary, Idle
    <2>8. ~Ordinary(j)
      BY <2>3 DEF Ordinary, Idle
    <2> QED BY <2>5, <2>6, <2>7, <2>8 DEF Sound, DebtStacked
  <1> QED BY <1>7, <1>8, <1>9 DEF LastCard!PlayOne, h, k

LEMMA PlayManySound ==
    ASSUME LastCardAssumption, NEW g, Going(g), NEW p \in LastCard!Seated(g),
           NEW S \in SUBSET g.hands[p],
           NEW last \in S, LastCard!Cardinality(S) \in Nat,
           ~Stopped(g) /\ ~g.hasty => p = LastCard!Current(g) /\ g.skips = 0,
           NEW j \in LastCard!PlayMany(g, p, S, last)
    PROVE  Sound(j)
  <1> DEFINE k == LastCard!Laid(g, p, S, last)
             h == [k EXCEPT !.color = LastCard!Color(last)]
  <1>1. /\ Going(k) /\ k.top = last /\ k.opt = g.opt /\ k.skips = g.skips /\ k.turn = g.turn
        /\ LastCard!Color(last) \in Colors \cup {"wild"}
    BY GoingLaid
  <1>2. Typed(g) /\ g \in LastCard!GameType
    BY DEF Going, Typed
  <1>3. k.handWait = g.handWait /\ k.over = g.over /\ k.hasty = g.hasty
    BY <1>2 DEF LastCard!Laid, LastCard!GameType
  <1>4. Going(h) /\ Alike(k, h) /\ h.skips = k.skips
    BY <1>1, GoingColor
  <1>5. j \in IF h.hands[p] = {} THEN LastCard!EndRound(h)
              ELSE IF g.opt.callout /\ LastCard!Cardinality(h.hands[p]) = 1
                   THEN {LastCard!Callout(h, p, None, FALSE)}
              ELSE LastCard!Effects(h, LastCard!Rank(last), LastCard!Cardinality(S))
    BY DEF LastCard!PlayMany
  <1> HIDE DEF h, k
  <1>6. /\ h.top = last /\ h.skips = g.skips /\ LastCard!Seated(h) = LastCard!Seated(g)
        /\ LastCard!Current(h) = LastCard!Current(g)
        /\ (Stopped(h) <=> Stopped(g)) /\ h.hasty = g.hasty
    BY <1>1, <1>3, <1>4 DEF Alike, LastCard!Seated, LastCard!Current, Stopped
  <1>7. CASE j \in LastCard!EndRound(h)
    BY <1>4, <1>7, EndRoundSound DEF Going
  <1>8. CASE j = LastCard!Callout(h, p, None, FALSE) /\ LastCard!Cardinality(h.hands[p]) = 1
    BY <1>4, <1>6, <1>8, CalloutSound
  <1>9. CASE j \in LastCard!Effects(h, LastCard!Rank(last), LastCard!Cardinality(S))
    BY <1>4, <1>6, <1>9, EffectsSound
  <1> QED BY <1>5, <1>7, <1>8, <1>9
-----------------------------------------------------------------------------
(* Windows that close.                                                     *)

LEMMA TakeFourSound ==
    ASSUME LastCardAssumption, NEW g, Going(g), NEW j \in LastCard!TakeFour(g)
    PROVE  Sound(j)
  <1>1. PICK d \in LastCard!Drawn(g, LastCard!NextPlayer(g), 4) :
            j \in LastCard!Advance(LastCard!Skip(d, 1))
    BY DEF LastCard!TakeFour
  <1>2. LastCard!NextPlayer(g) \in LastCard!Seated(g)
    BY SeatsKnown DEF Going
  <1>3. Going(d)
    BY <1>2, GoingDrawn
  <1> QED BY <1>1, <1>3, 1 \in Nat, GoingCounts, AdvanceSound

\* A game that a window holds up, and may go on.
HeldUp(g) ==
    /\ Typed(g) /\ g.phase # ""
    /\ ~Stopped(g) =>
          /\ Kept(g)
          /\ ~g.hasty =>
                /\ Idle(g)
                /\ g.phase = "last_card_callout" =>
                      /\ g.target = LastCard!Current(g) /\ g.wd4 \in {None, LastCard!Current(g)}
                      /\ g.skips = 0 \/ ~SkipAll(g)

LEMMA Closed ==
    ASSUME NEW g, HeldUp(g)
    PROVE  LET h == [g EXCEPT !.phase = ""]
           IN  /\ Going(h) /\ h.opt = g.opt /\ h.top = g.top /\ h.turn = g.turn
               /\ h.skips = g.skips /\ h.hasty = g.hasty /\ (Stopped(h) <=> Stopped(g))
               /\ LastCard!NextPlayer(h) = LastCard!NextPlayer(g)
  <1> DEFINE h == [g EXCEPT !.phase = ""]
  <1>1. Typed(g) /\ g \in LastCard!GameType
    BY DEF HeldUp, Typed
  <1>2. h \in LastCard!GameType
    BY <1>1 DEF LastCard!GameType, LastCard!Phases
  <1>3. /\ h.opt = g.opt /\ h.hands = g.hands /\ h.deck = g.deck /\ h.pile = g.pile
        /\ h.top = g.top /\ h.turn = g.turn /\ h.dealer = g.dealer /\ h.target = g.target
        /\ h.wd4 = g.wd4 /\ h.phase = "" /\ h.handWait = g.handWait
        /\ h.over = g.over /\ h.hasty = g.hasty /\ h.asking = g.asking
        /\ h.colorWait = g.colorWait /\ h.swapper = g.swapper /\ h.skips = g.skips
        /\ h.dir = g.dir
    BY <1>1 DEF LastCard!GameType
  <1> HIDE DEF h
  <1>4. /\ LastCard!Seated(h) = LastCard!Seated(g) /\ (Stopped(h) <=> Stopped(g))
        /\ LastCard!NextPlayer(h) = LastCard!NextPlayer(g)
    BY <1>3 DEF LastCard!Seated, Stopped, LastCard!NextPlayer
  <1>5. Typed(h)
    BY <1>1, <1>2, <1>3, <1>4 DEF Typed
  <1>6. ~Stopped(h) => Kept(h)
    BY <1>3, <1>4, Untouched, KeptSame DEF HeldUp
  <1>7. ~Stopped(h) /\ ~h.hasty => Ordinary(h)
    BY <1>3, <1>4 DEF HeldUp, Ordinary, Idle
  <1>8. Going(h)
    BY <1>5, <1>6, <1>7 DEF Going
  <1> QED BY <1>3, <1>4, <1>8 DEF h

LEMMA ResolveSound ==
    ASSUME LastCardAssumption, NEW g, HeldUp(g), NEW j \in LastCard!Resolve(g)
    PROVE  Sound(j)
  <1> DEFINE h == [g EXCEPT !.phase = ""]
             p == IF g.wd4 = None THEN g.target ELSE g.wd4
  <1>1. /\ Going(h) /\ h.opt = g.opt /\ h.top = g.top /\ h.turn = g.turn
        /\ h.skips = g.skips /\ h.hasty = g.hasty /\ (Stopped(h) <=> Stopped(g))
    BY Closed
  <1>2. /\ Typed(g) /\ g \in LastCard!GameType /\ g.phase \in LastCard!Phases \ {""}
        /\ g.matching \in BOOLEAN
    BY DEF HeldUp, Typed, LastCard!GameType
  <1>3. /\ LastCard!Seated(h) = LastCard!Seated(g) /\ LastCard!Current(h) = LastCard!Current(g)
        /\ (SkipAll(h) <=> SkipAll(g))
    BY <1>1 DEF LastCard!Seated, LastCard!Current, SkipAll
  <1>4. CASE g.phase = "last_card_callout"
    <2>1. p \in LastCard!Seated(h)
      BY <1>2, <1>3, <1>4 DEF Typed
    <2>2. ~Stopped(g) /\ ~g.hasty => p = LastCard!Current(g) /\ (g.skips = 0 \/ ~SkipAll(g))
      BY <1>4 DEF HeldUp
    <2>3. j \in IF LastCard!Rank(g.top) = "wild4" /\ g.opt.challenge
                THEN {LastCard!WD4Window(h, p, g.matching)}
                ELSE LastCard!Effects(h, LastCard!Rank(g.top), 1)
      BY <1>4 DEF LastCard!Resolve
    <2> HIDE DEF h, p
    <2>4. CASE j = LastCard!WD4Window(h, p, g.matching) /\ LastCard!Rank(g.top) = "wild4"
      BY <1>1, <1>2, <1>3, <2>1, <2>2, <2>4, WD4WindowSound
    <2>5. CASE j \in LastCard!Effects(h, LastCard!Rank(h.top), 1)
      BY <1>1, <1>3, <2>2, <2>5, 1 \in Nat, EffectsSound
    <2> QED BY <1>1, <2>3, <2>4, <2>5
  <1>5. CASE g.phase = "challenge_wd4"
    <2>1. j \in LastCard!TakeFour(h)
      BY <1>5 DEF LastCard!Resolve
    <2> QED BY <1>1, <2>1, TakeFourSound
  <1>6. CASE g.phase = "jump_in_window"
    <2>1. j \in LastCard!Advance(h)
      BY <1>6 DEF LastCard!Resolve
    <2> QED BY <1>1, <2>1, AdvanceSound
  <1> QED BY <1>2, <1>4, <1>5, <1>6 DEF LastCard!Phases

\* Every state that a window holds up.
LEMMA SoundHeldUp ==
    ASSUME NEW g, Sound(g), g.phase # ""
    PROVE  HeldUp(g)
  <1>1. Typed(g) /\ (~Stopped(g) => Kept(g) /\ (~g.hasty => Orderly(g)))
    BY DEF Sound
  <1>2. Orderly(g) =>
            /\ Idle(g)
            /\ g.phase = "last_card_callout" =>
                  /\ g.target = LastCard!Current(g) /\ g.wd4 \in {None, LastCard!Current(g)}
                  /\ g.skips = 0 \/ ~SkipAll(g)
    BY DEF Orderly
  <1> QED BY <1>1, <1>2 DEF HeldUp
-----------------------------------------------------------------------------
(* Keys.                                                                   *)

LEMMA ActingGoing ==
    ASSUME LastCardAssumption, Sound(lGame), NEW p, LastCard!Turn(p)
    PROVE  /\ Going(LastCard!Acting) /\ p \in LastCard!Seated(LastCard!Acting)
           /\ p = LastCard!Current(LastCard!Acting) /\ p \in LastCard!Players
           /\ LastCard!Acting.hands = lGame.hands /\ LastCard!Acting.opt = lGame.opt
           /\ LastCard!Acting.skips = lGame.skips
           /\ LastCard!Acting.plus4 = lGame.plus4 /\ LastCard!Acting.pending = lGame.pending
           /\ (~LastCard!Acting.hasty => ~lGame.hasty /\ ~lGame.colorWait)
           /\ (~Stopped(LastCard!Acting) /\ ~LastCard!Acting.hasty => LastCard!Acting.skips = 0)
           /\ (Stopped(LastCard!Acting) <=> Stopped(lGame))
           /\ (Ordinary(LastCard!Acting) <=> Ordinary(lGame))
  <1> DEFINE h == LastCard!Acting
  <1>1. Typed(lGame) /\ lGame \in LastCard!GameType
    BY DEF Sound, Typed
  <1>2. h \in LastCard!GameType
    BY <1>1, SMTT(30) DEF LastCard!Acting, LastCard!GameType
  <1>3. /\ h.opt = lGame.opt /\ h.hands = lGame.hands /\ h.deck = lGame.deck /\ h.pile = lGame.pile
        /\ h.top = lGame.top /\ h.turn = lGame.turn /\ h.dealer = lGame.dealer
        /\ h.target = lGame.target /\ h.wd4 = lGame.wd4 /\ h.phase = lGame.phase
        /\ h.handWait = lGame.handWait /\ h.over = lGame.over
        /\ h.asking = lGame.asking /\ h.colorWait = lGame.colorWait
        /\ h.swapper = lGame.swapper /\ h.skips = lGame.skips /\ h.plus4 = lGame.plus4
        /\ h.pending = lGame.pending
    BY <1>1 DEF LastCard!Acting, LastCard!GameType
  <1>4. ~h.hasty => ~lGame.hasty /\ ~lGame.colorWait
    BY <1>1 DEF LastCard!Acting, LastCard!GameType
  <1> HIDE DEF h
  <1>5. /\ LastCard!Seated(h) = LastCard!Seated(lGame) /\ (Stopped(h) <=> Stopped(lGame))
        /\ LastCard!Current(h) = LastCard!Current(lGame)
        /\ (Ordinary(h) <=> Ordinary(lGame))
    BY <1>3 DEF LastCard!Seated, Stopped, LastCard!Current, Ordinary, Idle
  <1>6. Typed(h)
    BY <1>1, <1>2, <1>3, <1>5 DEF Typed
  <1>7. p = LastCard!Current(h) /\ p \in LastCard!Seated(h) /\ p \in LastCard!Players
    BY <1>1, <1>5, SeatsKnown DEF LastCard!Turn
  <1>8. ~Stopped(h) => Kept(h)
    BY <1>3, <1>5, Untouched, KeptSame DEF Sound
  <1>9. ~h.hasty => Ordinary(h)
    BY <1>3, <1>4 DEF LastCard!Turn, Ordinary, Idle
  <1>10. ~Stopped(h) /\ ~h.hasty => h.skips = 0
    BY <1>3, <1>4, <1>5, <1>9 DEF Sound, Orderly
  <1>11. Going(h)
    BY <1>6, <1>8, <1>9 DEF Going
  <1> QED BY <1>3, <1>4, <1>5, <1>7, <1>10, <1>11 DEF h

LEMMA PlaySound ==
    ASSUME LastCardAssumption, Sound(lGame), NEW p, NEW c, LastCard!Play(p, c)
    PROVE  Sound(lGame')
  <1>1. /\ LastCard!Turn(p) /\ c \in lGame.hands[p]
        /\ lGame' \in LastCard!PlayOne(LastCard!Acting, p, c)
    BY DEF LastCard!Play
  <1> QED BY <1>1, ActingGoing, PlayOneSound

LEMMA PlaySelectedSound ==
    ASSUME LastCardAssumption, Sound(lGame), NEW p, NEW S, NEW last,
           LastCard!PlaySelected(p, S, last)
    PROVE  Sound(lGame')
  <1>1. /\ LastCard!Turn(p) /\ S \in SUBSET lGame.hands[p] /\ last \in S
        /\ lGame' \in LastCard!PlayMany(LastCard!Acting, p, S, last)
    BY DEF LastCard!PlaySelected
  <1>2. S \subseteq LastCard!Cards
    BY <1>1, ActingGoing DEF Sound, Typed, LastCard!GameType
  <1>3. LastCard!IsFiniteSet(LastCard!Cards)
    <2>1. LastCard!Cards = 1..Len(Pack) /\ Len(Pack) \in Nat
      BY DEF LastCard!Cards, LastCardAssumption
    <2> QED BY <2>1, SameCount, FS_Interval
  <1>4. LastCard!Cardinality(S) \in Nat
    BY <1>2, <1>3, SameCount, FS_Subset, FS_CardinalityType
  <1> QED BY <1>1, <1>4, ActingGoing, PlayManySound

LEMMA DrawSound ==
    ASSUME LastCardAssumption, Sound(lGame), NEW p, LastCard!Draw(p)
    PROVE  Sound(lGame')
  <1>1. LastCard!Turn(p)
    BY SMTT(30) DEF LastCard!Draw
  <1>2. PICK g \in LastCard!Drawn(LastCard!Acting, p, 1), drawn \in BOOLEAN :
            lGame' = [g EXCEPT !.drawn = drawn,
                               !.draws = IF g.opt.drawLimit = 0 THEN 0 ELSE g.draws + 1,
                               !.passes = 0]
    BY DEF LastCard!Draw
  <1>3. /\ Going(LastCard!Acting) /\ p \in LastCard!Seated(LastCard!Acting)
        /\ p = LastCard!Current(LastCard!Acting) /\ p \in LastCard!Players
        /\ LastCard!Acting.hands = lGame.hands /\ LastCard!Acting.opt = lGame.opt
        /\ LastCard!Acting.plus4 = lGame.plus4
        /\ LastCard!Acting.pending = lGame.pending
        /\ (~Stopped(LastCard!Acting) /\ ~LastCard!Acting.hasty => LastCard!Acting.skips = 0)
        /\ (Stopped(LastCard!Acting) <=> Stopped(lGame))
        /\ (Ordinary(LastCard!Acting) <=> Ordinary(lGame))
    BY <1>1, ActingGoing
  <1>4. Typed(LastCard!Acting) /\ LastCard!Acting \in LastCard!GameType
    BY <1>3 DEF Going, Typed
  <1>5. Going(g) /\ CardsDrawn(LastCard!Acting, g, p) /\ g.skips = LastCard!Acting.skips
    BY <1>3, <1>4, GoingDrawn, DrawnTyped
  <1>6. g \in LastCard!GameType
    BY <1>5 DEF CardsDrawn
  <1>7. /\ g.opt = lGame.opt /\ g.plus4 = lGame.plus4 /\ g.pending = lGame.pending
        /\ LastCard!Current(g) = p /\ lGame.hands[p] \subseteq g.hands[p]
        /\ g.hasty = LastCard!Acting.hasty /\ (Stopped(g) <=> Stopped(LastCard!Acting))
        /\ (Ordinary(g) <=> Ordinary(LastCard!Acting))
    <2> DEFINE e == LastCard!Acting
    <2>1. /\ e \in LastCard!GameType /\ CardsDrawn(e, g, p) /\ p = LastCard!Current(e)
          /\ e.hands = lGame.hands /\ e.opt = lGame.opt /\ e.plus4 = lGame.plus4
          /\ e.pending = lGame.pending
      BY <1>3, <1>4, <1>5
    <2> HIDE DEF e
    <2>2. /\ g.opt = e.opt /\ g.plus4 = e.plus4 /\ g.pending = e.pending /\ g.turn = e.turn
          /\ e.hands[p] \subseteq g.hands[p] /\ g.hasty = e.hasty /\ g.handWait = e.handWait
          /\ g.over = e.over /\ g.asking = e.asking /\ g.colorWait = e.colorWait
          /\ g.swapper = e.swapper /\ g.phase = e.phase
      BY <2>1 DEF CardsDrawn, LastCard!GameType
    <2>3. (Stopped(g) <=> Stopped(e)) /\ (Ordinary(g) <=> Ordinary(e))
          /\ LastCard!Current(g) = LastCard!Current(e)
      BY <2>2 DEF Stopped, Ordinary, Idle, LastCard!Current
    <2> QED BY <2>1, <2>2, <2>3 DEF e
  <1>8. DebtStacked(g)
    <2> SUFFICES ASSUME Ordinary(g), g.pending > 0 PROVE LastCard!CanStack(g, p)
      BY <1>7 DEF DebtStacked
    <2>1. ~Stopped(lGame) /\ LastCard!Current(lGame) = p
      BY <1>1 DEF LastCard!Turn, Stopped
    <2>2. LastCard!CanStack(lGame, p)
      BY <1>3, <1>7, <2>1 DEF Sound, DebtStacked
    <2> QED BY <1>7, <2>2 DEF LastCard!CanStack, LastCard!Stacks
  <1> DEFINE n == IF g.opt.drawLimit = 0 THEN 0 ELSE g.draws + 1
  <1>9. n \in Nat /\ 0 \in 0..Len(Seats)
    BY <1>6 DEF LastCard!GameType, LastCardAssumption
  <1>10. lGame' = [g EXCEPT !.drawn = drawn, !.draws = n, !.passes = 0]
    BY <1>2
  <1> HIDE DEF n
  <1>11. lGame' \in LastCard!GameType
    BY <1>6, <1>9, <1>10, ZenonT(60) DEF LastCard!GameType
  <1>12. Alike(g, lGame') /\ lGame'.skips = g.skips /\ lGame'.pending = g.pending
         /\ lGame'.plus4 = g.plus4
    BY <1>6, <1>10 DEF LastCard!GameType, Alike
  <1>13. Going(lGame')
    BY <1>5, <1>11, <1>12, GoingAlike
  <1>14. DebtStacked(lGame')
    BY <1>8, <1>12
       DEF DebtStacked, LastCard!CanStack, LastCard!Stacks, Alike, Ordinary, Idle, LastCard!Current
  <1>15. ~Stopped(lGame') /\ ~lGame'.hasty => lGame'.skips = 0
    BY <1>3, <1>5, <1>7, <1>12 DEF Alike, Stopped
  <1> QED BY <1>13, <1>14, <1>15, SoundTurn

LEMMA PassSound ==
    ASSUME LastCardAssumption, Sound(lGame), NEW p, LastCard!Pass(p)
    PROVE  Sound(lGame')
  <1> DEFINE n == LastCard!Min({LastCard!Acting.passes + 1, lGame.opt.seats})
             g == [LastCard!Acting EXCEPT !.drawn = FALSE, !.draws = 0, !.passes = n]
  <1>1. LastCard!Turn(p)
    BY DEF LastCard!Pass, LastCard!MayPass
  <1>2. Going(LastCard!Acting) /\ LastCard!Acting \in LastCard!GameType /\ Typed(lGame)
    BY <1>1, ActingGoing DEF Going, Typed, Sound
  <1>3. n \in 0..Len(Seats)
    <2>1. LastCard!Acting.passes \in Nat /\ lGame.opt.seats \in 2..Len(Seats) /\ Len(Seats) \in Nat
      BY <1>2, SeatsKnown DEF LastCard!GameType, LastCardAssumption
    <2>2. n \in {LastCard!Acting.passes + 1, lGame.opt.seats}
          /\ \A y \in {LastCard!Acting.passes + 1, lGame.opt.seats} : n <= y
      <3> DEFINE x == LastCard!Acting.passes + 1
                 y == lGame.opt.seats
      <3>1. x \in Int /\ y \in Int
        BY <2>1
      <3> HIDE DEF x, y
      <3>2. \E m \in {x, y} : \A z \in {x, y} : m <= z
        BY <3>1
      <3>3. LastCard!Min({x, y}) \in {x, y} /\ \A z \in {x, y} : LastCard!Min({x, y}) <= z
        BY <3>2 DEF LastCard!Min
      <3> QED BY <3>3 DEF x, y
    <2> QED BY <2>1, <2>2
  <1>4. lGame' \in LastCard!EndRound(g) \/ lGame' \in LastCard!Advance(g)
    <2>1. LastCard!Acting.passes = lGame.passes
      BY <1>2 DEF LastCard!Acting, Sound, Typed, LastCard!GameType
    <2> QED BY <1>2, <2>1 DEF LastCard!Pass
  <1> HIDE DEF n
  <1>5. g \in LastCard!GameType /\ Alike(LastCard!Acting, g)
    BY <1>2, <1>3, ZenonT(60) DEF LastCard!GameType, Alike
  <1>6. Going(g)
    BY <1>2, <1>5, GoingAlike
  <1> HIDE DEF g
  <1> QED BY <1>4, <1>6, EndRoundSound, AdvanceSound DEF Going

LEMMA ChooseColorSound ==
    ASSUME LastCardAssumption, Sound(lGame), NEW p, NEW color \in Colors,
           LastCard!ChooseColor(p, color)
    PROVE  Sound(lGame')
  <1>1. lGame' = [lGame EXCEPT !.color = color, !.asking = FALSE, !.colorWait = TRUE]
        /\ lGame.asking
    BY DEF LastCard!ChooseColor
  <1>2. Typed(lGame) /\ lGame \in LastCard!GameType
    BY DEF Sound, Typed
  <1>3. lGame' \in LastCard!GameType
    BY <1>1, <1>2, ZenonT(60) DEF LastCard!GameType
  <1>4. /\ lGame'.opt = lGame.opt /\ lGame'.hands = lGame.hands /\ lGame'.deck = lGame.deck
        /\ lGame'.pile = lGame.pile /\ lGame'.top = lGame.top /\ lGame'.turn = lGame.turn
        /\ lGame'.dealer = lGame.dealer /\ lGame'.target = lGame.target /\ lGame'.wd4 = lGame.wd4
        /\ lGame'.phase = lGame.phase /\ lGame'.handWait = lGame.handWait
        /\ lGame'.over = lGame.over /\ lGame'.hasty = lGame.hasty /\ lGame'.asking = FALSE
        /\ lGame'.colorWait = TRUE /\ lGame'.swapper = lGame.swapper
    BY <1>1, <1>2 DEF LastCard!GameType
  <1> DEFINE h == lGame'
  <1> HIDE DEF h
  <1>5. /\ LastCard!Seated(h) = LastCard!Seated(lGame)
        /\ LastCard!Current(h) = LastCard!Current(lGame) /\ ~Ordinary(h)
        /\ (Stopped(h) <=> Stopped(lGame))
    BY <1>4 DEF h, LastCard!Seated, LastCard!Current, Ordinary, Idle, Stopped
  <1>6. Typed(h)
    BY <1>2, <1>3, <1>4, <1>5 DEF h, Typed
  <1>7. ~Stopped(h) => Kept(h)
    BY <1>4, <1>5, Untouched, KeptSame DEF h, Sound
  <1>8. ~Stopped(h) /\ ~h.hasty => Orderly(h)
    BY <1>1, <1>4, <1>5 DEF h, Sound, Orderly, Ordinary, Idle
  <1>9. Sound(h)
    BY <1>5, <1>6, <1>7, <1>8 DEF Sound, DebtStacked
  <1> QED BY <1>9 DEF h

LEMMA BuzzSound ==
    ASSUME LastCardAssumption, Sound(lGame), NEW p, LastCard!Buzz(p)
    PROVE  Sound(lGame')
  <1>1. HeldUp(lGame) /\ lGame.phase = "last_card_callout" /\ Typed(lGame)
    BY SoundHeldUp DEF LastCard!Buzz, Sound
  <1>2. CASE lGame' \in LastCard!Resolve(lGame)
    BY <1>1, <1>2, ResolveSound
  <1>3. CASE \E g \in LastCard!Drawn(lGame, lGame.target, 2) : lGame' \in LastCard!Resolve(g)
    <2>1. PICK g \in LastCard!Drawn(lGame, lGame.target, 2) : lGame' \in LastCard!Resolve(g)
      BY <1>3
    <2>2. lGame.target \in LastCard!Seated(lGame)
      BY <1>1 DEF Typed
    <2>3. Typed(g) /\ CardsDrawn(lGame, g, lGame.target)
      BY <1>1, <2>2, DrawnTyped
    <2>4. /\ g.phase = lGame.phase /\ g.target = lGame.target /\ g.wd4 = lGame.wd4
          /\ g.hasty = lGame.hasty /\ g.skips = lGame.skips /\ g.opt = lGame.opt
          /\ g.top = lGame.top
          /\ g.turn = lGame.turn /\ g.handWait = lGame.handWait /\ g.over = lGame.over
          /\ g.asking = lGame.asking /\ g.colorWait = lGame.colorWait
          /\ g.swapper = lGame.swapper
      BY <1>1, <2>3, ZenonT(60) DEF CardsDrawn, Typed, LastCard!GameType
    <2>5. ~Stopped(g) => Kept(g)
      BY <1>1, <2>3, <2>4, KeptSame DEF CardsDrawn, HeldUp, Stopped
    <2>6. HeldUp(g)
      BY <1>1, <2>3, <2>4, <2>5 DEF HeldUp, Stopped, Idle, LastCard!Current, SkipAll
    <2> QED BY <2>1, <2>6, ResolveSound
  <1> QED BY <1>2, <1>3 DEF LastCard!Buzz

LEMMA ChallengeSound ==
    ASSUME LastCardAssumption, Sound(lGame), NEW p,
           LastCard!ChallengeWD4(p) \/ LastCard!AcceptDraw(p)
    PROVE  Sound(lGame')
  <1> DEFINE h == [lGame EXCEPT !.phase = ""]
  <1>1. /\ HeldUp(lGame) /\ lGame.phase = "challenge_wd4" /\ Typed(lGame)
        /\ p = LastCard!NextPlayer(lGame)
    BY SoundHeldUp DEF LastCard!ChallengeWD4, LastCard!AcceptDraw, Sound
  <1>2. Going(h) /\ h.opt = lGame.opt
    BY <1>1, Closed
  <1>3. LastCard!Seated(h) = LastCard!Seated(lGame)
    BY <1>2 DEF LastCard!Seated
  <1>4. CASE \E g \in LastCard!Drawn([h EXCEPT !.pending = 0], lGame.wd4, 4) :
                 lGame' \in LastCard!Advance(g)
    <2> DEFINE k == [h EXCEPT !.pending = 0]
    <2>1. PICK g \in LastCard!Drawn(k, lGame.wd4, 4) : lGame' \in LastCard!Advance(g)
      BY <1>4
    <2>2. lGame.wd4 \in LastCard!Seated(lGame)
      BY <1>1 DEF Typed
    <2> HIDE DEF h
    <2>3. Going(k) /\ k.opt = h.opt
      <3>1. Going(k)
        BY <1>2, GoingCounts
      <3>2. h \in LastCard!GameType
        BY <1>2 DEF Going, Typed
      <3> QED BY <3>1, <3>2 DEF LastCard!GameType
    <2>4. LastCard!Seated(k) = LastCard!Seated(h)
      BY <2>3 DEF LastCard!Seated
    <2> HIDE DEF k
    <2>5. Going(g)
      BY <1>3, <2>1, <2>2, <2>3, <2>4, GoingDrawn
    <2> QED BY <2>1, <2>5, AdvanceSound
  <1>5. CASE \E g \in LastCard!Drawn(h, p, 6) : lGame' \in LastCard!Advance(LastCard!Skip(g, 1))
    <2> HIDE DEF h
    <2>1. PICK g \in LastCard!Drawn(h, p, 6) : lGame' \in LastCard!Advance(LastCard!Skip(g, 1))
      BY <1>5
    <2>2. p \in LastCard!Seated(h)
      BY <1>1, <1>3, SeatsKnown
    <2>3. Going(g)
      BY <1>2, <2>1, <2>2, GoingDrawn
    <2> QED BY <2>1, <2>3, 1 \in Nat, GoingCounts, AdvanceSound
  <1>6. CASE lGame' \in LastCard!TakeFour(h)
    BY <1>2, <1>6, TakeFourSound
  <1> QED BY <1>4, <1>5, <1>6 DEF LastCard!ChallengeWD4, LastCard!AcceptDraw

LEMMA JumpInSound ==
    ASSUME LastCardAssumption, Sound(lGame), NEW p \in LastCard!Seated(lGame), NEW c,
           LastCard!JumpIn(p, c)
    PROVE  Sound(lGame')
  <1> DEFINE g == [lGame EXCEPT !.phase = "", !.jumped = TRUE, !.turn = LastCard!SeatOf(lGame, p)]
  <1>1. /\ HeldUp(lGame) /\ lGame.phase = "jump_in_window" /\ c \in lGame.hands[p]
        /\ Pack[c] = Pack[lGame.top] /\ lGame' \in LastCard!PlayOne(g, p, c)
    BY SoundHeldUp DEF LastCard!JumpIn
  <1>2. Typed(lGame) /\ lGame \in LastCard!GameType
    BY DEF Sound, Typed
  <1>3. /\ LastCard!SeatOf(lGame, p) \in 1..lGame.opt.seats
        /\ LastCard!SeatOf(lGame, p) \in DOMAIN Seats
        /\ Seats[LastCard!SeatOf(lGame, p)] = p
    BY <1>2, SeatsKnown
  <1>4. g \in LastCard!GameType
    BY <1>2, <1>3 DEF LastCard!GameType, LastCard!Phases
  <1>5. /\ g.opt = lGame.opt /\ g.hands = lGame.hands /\ g.deck = lGame.deck /\ g.pile = lGame.pile
        /\ g.top = lGame.top /\ g.turn = LastCard!SeatOf(lGame, p) /\ g.dealer = lGame.dealer
        /\ g.target = lGame.target /\ g.wd4 = lGame.wd4 /\ g.phase = ""
        /\ g.handWait = lGame.handWait /\ g.over = lGame.over /\ g.hasty = lGame.hasty
        /\ g.asking = lGame.asking /\ g.colorWait = lGame.colorWait /\ g.swapper = lGame.swapper
    BY <1>2 DEF LastCard!GameType
  <1> HIDE DEF g
  <1>6. /\ LastCard!Seated(g) = LastCard!Seated(lGame) /\ (Stopped(g) <=> Stopped(lGame))
        /\ LastCard!Current(g) = p
    BY <1>3, <1>5 DEF LastCard!Seated, Stopped, LastCard!Current
  <1>7. Typed(g)
    BY <1>2, <1>3, <1>4, <1>5, <1>6 DEF Typed
  <1>8. ~Stopped(g) => Kept(g)
    BY <1>5, <1>6, Untouched, KeptSame DEF Sound
  <1>9. ~Stopped(g) /\ ~g.hasty => Ordinary(g) /\ ~SkipAll(lGame)
    BY <1>1, <1>5, <1>6 DEF Sound, Orderly, Ordinary, Idle
  <1>10. Going(g)
    BY <1>7, <1>8, <1>9 DEF Going
  <1>11. LastCard!Rank(c) = LastCard!Rank(lGame.top)
    BY <1>1 DEF LastCard!Rank
  <1>12. ~Stopped(g) /\ ~g.hasty => ~(g.opt.skipAll /\ LastCard!Rank(c) = "skip")
    BY <1>5, <1>9, <1>11 DEF SkipAll
  <1>13. c \in g.hands[p] /\ p \in LastCard!Seated(g)
    BY <1>1, <1>5, <1>6
  <1> QED BY <1>1, <1>6, <1>10, <1>12, <1>13, PlayOneSound

LEMMA SwapTargetSound ==
    ASSUME LastCardAssumption, Sound(lGame), NEW p \in LastCard!Seated(lGame), NEW t,
           LastCard!SwapTarget(p, t)
    PROVE  Sound(lGame')
  <1> DEFINE h == LastCard!Swapped(lGame, p, t)
             g == [h EXCEPT !.swapper = None]
  <1>1. p = lGame.swapper /\ t \in LastCard!Seated(lGame) \ {p} /\ lGame' \in LastCard!Advance(g)
    BY DEF LastCard!SwapTarget
  <1>2. Typed(lGame) /\ lGame \in LastCard!GameType /\ p # None
    BY SeatsKnown DEF Sound, Typed, LastCardAssumption
  <1>3. /\ h \in LastCard!GameType /\ SameCards(lGame, h) /\ h = [lGame EXCEPT !.hands = h.hands]
        /\ \A q \in LastCard!Players \ LastCard!Seated(lGame) : h.hands[q] = {}
    BY <1>1, <1>2, SwappedTyped
  <1> HIDE DEF h
  <1>4. g \in LastCard!GameType
    BY <1>3 DEF LastCard!GameType
  <1>5. /\ g.opt = h.opt /\ g.hands = h.hands /\ g.deck = h.deck /\ g.pile = h.pile
        /\ g.top = h.top
    BY <1>3 DEF LastCard!GameType
  <1>6. /\ g.opt = lGame.opt /\ g.turn = lGame.turn /\ g.dealer = lGame.dealer
        /\ g.target = lGame.target /\ g.wd4 = lGame.wd4 /\ g.phase = lGame.phase
        /\ g.handWait = lGame.handWait /\ g.over = lGame.over /\ g.hasty = lGame.hasty
        /\ g.asking = lGame.asking /\ g.colorWait = lGame.colorWait /\ g.swapper = None
    BY <1>2, <1>3, SMTT(30) DEF LastCard!GameType
  <1> HIDE DEF g
  <1>7. LastCard!Seated(g) = LastCard!Seated(lGame) /\ (Stopped(g) <=> Stopped(lGame))
    BY <1>6 DEF LastCard!Seated, Stopped
  <1>8. Typed(g)
    BY <1>2, <1>3, <1>4, <1>5, <1>6, <1>7 DEF Typed
  <1>9. ~Stopped(g) => Kept(g)
    BY <1>3, <1>5, <1>7, Untouched, KeptSame DEF Sound
  <1>10. ~Stopped(g) /\ ~g.hasty => Ordinary(g)
    BY <1>1, <1>2, <1>6, <1>7 DEF Sound, Orderly, Ordinary, Idle
  <1>11. Going(g)
    BY <1>8, <1>9, <1>10 DEF Going
  <1> QED BY <1>1, <1>11, AdvanceSound
-----------------------------------------------------------------------------
(* The tick.                                                               *)

LEMMA ColorShownSound ==
    ASSUME LastCardAssumption, Sound(lGame), LastCard!ColorShown
    PROVE  Sound(lGame')
  <1> DEFINE p == IF lGame.wd4 = None THEN LastCard!Current(lGame) ELSE lGame.wd4
             g == [lGame EXCEPT !.colorWait = FALSE]
  <1>1. lGame.colorWait /\ lGame' \in LastCard!Check(g, p, lGame.matching)
    BY DEF LastCard!ColorShown
  <1>2. Typed(lGame) /\ lGame \in LastCard!GameType /\ lGame.matching \in BOOLEAN
    BY DEF Sound, Typed, LastCard!GameType
  <1>3. p \in LastCard!Seated(lGame)
    BY <1>2, SeatsKnown DEF Typed
  <1>4. g \in LastCard!GameType
    BY <1>2 DEF LastCard!GameType
  <1>5. /\ g.opt = lGame.opt /\ g.hands = lGame.hands /\ g.deck = lGame.deck /\ g.pile = lGame.pile
        /\ g.top = lGame.top /\ g.turn = lGame.turn /\ g.dealer = lGame.dealer
        /\ g.target = lGame.target /\ g.wd4 = lGame.wd4 /\ g.phase = lGame.phase
        /\ g.handWait = lGame.handWait /\ g.over = lGame.over /\ g.hasty = lGame.hasty
        /\ g.asking = lGame.asking /\ g.colorWait = FALSE /\ g.swapper = lGame.swapper
    BY <1>2 DEF LastCard!GameType
  <1> HIDE DEF g
  <1>6. /\ LastCard!Seated(g) = LastCard!Seated(lGame) /\ (Stopped(g) <=> Stopped(lGame))
        /\ LastCard!Current(g) = LastCard!Current(lGame)
    BY <1>5 DEF LastCard!Seated, Stopped, LastCard!Current
  <1>7. Typed(g)
    BY <1>2, <1>4, <1>5, <1>6 DEF Typed
  <1>8. ~Stopped(g) => Kept(g)
    BY <1>5, <1>6, Untouched, KeptSame DEF Sound
  <1>9. ~Stopped(lGame) /\ ~lGame.hasty =>
           /\ lGame.phase = "" /\ ~lGame.asking /\ lGame.swapper = None
           /\ lGame.wd4 = LastCard!Current(lGame) /\ LastCard!Rank(lGame.top) \in LastCard!Wilds
    BY <1>1 DEF Sound, Orderly, Idle
  <1>10. ~Stopped(g) /\ ~g.hasty => Ordinary(g) /\ p = LastCard!Current(g) /\ ~SkipAll(g)
    <2>1. LastCard!Rank(g.top) \in LastCard!Wilds => ~SkipAll(g)
      BY DEF LastCard!Wilds, SkipAll
    <2> QED BY <1>5, <1>6, <1>9, <2>1 DEF Ordinary, Idle
  <1>11. Going(g)
    BY <1>7, <1>8, <1>10 DEF Going
  <1> HIDE DEF p
  <1> QED BY <1>1, <1>2, <1>3, <1>6, <1>10, <1>11, CheckSound

LEMMA DealSound ==
    ASSUME LastCardAssumption, NEW opt \in {d.opt : d \in Dealings}, NEW dealer \in 1..opt.seats,
           NEW h \in LastCard!NewDeal(opt, dealer)
    PROVE  Sound(h)
  <1>1. PICK d \in LastCard!Deals(opt) : h =
            [opt |-> opt, plays |-> 0, hands |-> d.hands, top |-> d.top,
             color |-> LastCard!Color(d.top),
             pile |-> {}, deck |-> d.deck,
             dealer |-> LastCard!Shift(opt.seats, dealer, 1),
             turn |-> LastCard!Shift(opt.seats, dealer, 2),
             dir |-> 1, skips |-> 0, drawn |-> FALSE, draws |-> 0, pending |-> 0,
             plus4 |-> FALSE, asking |-> FALSE, swapper |-> None, phase |-> "",
             target |-> None, wd4 |-> None, matching |-> FALSE,
             jumped |-> FALSE, passes |-> 0, colorWait |-> FALSE, handWait |-> FALSE,
             hasty |-> FALSE, over |-> FALSE]
    BY DEF LastCard!NewDeal
  <1>2. d \in Dealings /\ d.opt = opt /\ DealtOnce(d)
    BY DEF LastCard!Deals, LastCardAssumption
  <1>3. opt.seats \in 2..Len(Seats) /\ DOMAIN Seats = 1..Len(Seats) /\ Len(Seats) \in Nat
    BY <1>2 DEF DealtOnce, LastCardAssumption
  <1>4. /\ LastCard!Shift(opt.seats, dealer, 1) \in 1..opt.seats
        /\ LastCard!Shift(opt.seats, dealer, 2) \in 1..opt.seats
    <2>1. opt.seats \in Nat \ {0} /\ 1 \in Int /\ 2 \in Int
      BY <1>3
    <2> QED BY <2>1, ShiftBack
  <1>5. LastCard!Color(d.top) \in Colors \cup {"wild"}
    <2> DEFINE R == [rank : STRING, color : Colors \cup {"wild"}]
    <2>1. Pack \in Seq(R) /\ d.top \in DOMAIN Pack
      BY <1>2 DEF DealtOnce, LastCard!Cards, LastCardAssumption
    <2> HIDE DEF R
    <2>2. Pack[d.top] \in R
      BY <2>1
    <2> QED BY <2>2 DEF LastCard!Color, R
  <1>6. 1 \in {1, -1} /\ 0 \in 0..Len(Seats) /\ 0 \in Nat
    BY <1>3
  <1> DEFINE dealt == LastCard!Shift(opt.seats, dealer, 1)
             first == LastCard!Shift(opt.seats, dealer, 2)
  <1>7. dealt \in DOMAIN Seats /\ first \in DOMAIN Seats
    BY <1>3, <1>4
  <1>8. h.dealer = dealt /\ h.turn = first
    BY <1>1
  <1> HIDE DEF dealt, first
  <1>9. h \in LastCard!GameType
    BY <1>1, <1>2, <1>5, <1>6, <1>7, <1>8, ZenonT(60)
       DEF DealtOnce, LastCard!GameType, LastCard!Phases
  <1>10. \A p \in LastCard!Players \ LastCard!Seated(h) : h.hands[p] = {}
    <2> SUFFICES ASSUME NEW p \in LastCard!Players \ LastCard!Seated(h) PROVE d.hands[p] = {}
      BY <1>1
    <2>1. PICK i \in DOMAIN Seats : p = Seats[i]
      BY DEF LastCard!Players
    <2>2. h.opt = opt /\ i \notin 1..opt.seats
      BY <1>1, <2>1 DEF LastCard!Seated
    <2>3. i > opt.seats
      BY <1>3, <2>1, <2>2
    <2> QED BY <1>2, <2>1, <2>3 DEF DealtOnce
  <1>11. Typed(h)
    BY <1>1, <1>4, <1>8, <1>9, <1>10 DEF Typed, dealt, first
  <1>12. LastCard!Apart(h)
    <2>1. h.hands = d.hands /\ h.deck = d.deck /\ h.top = d.top /\ h.pile = {}
      BY <1>1
    <2> QED BY <1>2, <2>1 DEF DealtOnce, LastCard!Apart
  <1>13. \A e \in LastCard!Deals(h.opt) : LastCard!Held(h) \cup h.pile = LastCard!Held(e)
    <2>1. h.opt = opt /\ h.hands = d.hands /\ h.deck = d.deck /\ h.top = d.top /\ h.pile = {}
      BY <1>1
    <2>2. LastCard!Held(h) = LastCard!Held(d)
      BY <2>1 DEF LastCard!Held
    <2> QED BY <1>2, <2>1, <2>2 DEF LastCard!Deals, LastCardAssumption
  <1>14. h.skips = 0 /\ h.pending = 0 /\ Ordinary(h)
    BY <1>1 DEF Ordinary, Idle
  <1>15. Going(h) /\ DebtStacked(h)
    BY <1>11, <1>12, <1>13, <1>14 DEF Going, Kept, DebtStacked
  <1> QED BY <1>14, <1>15, SoundTurn

LEMMA LastCardInit ==
    ASSUME LastCardAssumption, LastCard!Init
    PROVE  LastCardInv
  <1>1. PICK d \in Dealings : lGame \in LastCard!NewDeal(d.opt, d.opt.seats)
    BY DEF LastCard!Init
  <1>2. d.opt.seats \in 1..d.opt.seats
    <2>1. d.opt.seats \in 2..Len(Seats) /\ Len(Seats) \in Nat
      BY DEF DealtOnce, LastCardAssumption
    <2> QED BY <2>1
  <1> QED BY <1>1, <1>2, DealSound DEF LastCardInv

LEMMA LastCardKeeps ==
    ASSUME LastCardAssumption, LastCardInv, [LastCard!Next]_lGame
    PROVE  LastCardInv'
  <1>1. Sound(lGame)
    BY DEF LastCardInv
  <1>2. ASSUME LastCard!Next PROVE Sound(lGame')
    <2>1. CASE LastCard!ColorShown
      BY <1>1, <2>1, ColorShownSound
    <2>2. CASE LastCard!NewHand
      <3>1. lGame' \in LastCard!NewDeal(lGame.opt, lGame.dealer)
        BY <2>2 DEF LastCard!NewHand
      <3>2. lGame.opt \in {d.opt : d \in Dealings} /\ lGame.dealer \in 1..lGame.opt.seats
        BY <1>1 DEF Sound, Typed, LastCard!GameType
      <3> QED BY <3>1, <3>2, DealSound
    <2>3. CASE LastCard!CloseWindow
      BY <1>1, <2>3, SoundHeldUp, ResolveSound DEF LastCard!CloseWindow
    <2>4. ASSUME NEW p \in LastCard!Seated(lGame), LastCard!Key(p) PROVE Sound(lGame')
      <3>1. ASSUME NEW c \in lGame.hands[p], LastCard!Play(p, c) \/ LastCard!JumpIn(p, c)
            PROVE  Sound(lGame')
        BY <1>1, <3>1, PlaySound, JumpInSound
      <3>2. ASSUME NEW S \in SUBSET lGame.hands[p], NEW last \in S,
                   LastCard!PlaySelected(p, S, last)
            PROVE  Sound(lGame')
        BY <1>1, <3>2, PlaySelectedSound
      <3>3. CASE LastCard!Draw(p)
        BY <1>1, <3>3, DrawSound
      <3>4. CASE LastCard!Pass(p)
        BY <1>1, <3>4, PassSound
      <3>5. CASE LastCard!Buzz(p)
        BY <1>1, <3>5, BuzzSound
      <3>6. CASE LastCard!ChallengeWD4(p) \/ LastCard!AcceptDraw(p)
        BY <1>1, <3>6, ChallengeSound
      <3>7. ASSUME NEW color \in Colors, LastCard!ChooseColor(p, color) PROVE Sound(lGame')
        BY <1>1, <3>7, ChooseColorSound
      <3>8. ASSUME NEW t \in LastCard!Players, LastCard!SwapTarget(p, t) PROVE Sound(lGame')
        BY <1>1, <3>8, SwapTargetSound
      <3> QED BY <2>4, <3>1, <3>2, <3>3, <3>4, <3>5, <3>6, <3>7, <3>8 DEF LastCard!Key
    <2> QED BY <1>2, <2>1, <2>2, <2>3, <2>4 DEF LastCard!Next, LastCard!Tick
  <1>3. CASE lGame' = lGame
    BY <1>1, <1>3 DEF LastCardInv
  <1> QED BY <1>2, <1>3 DEF LastCardInv

\* What the invariant says of the run's properties.
LEMMA LastCardSound ==
    ASSUME LastCardAssumption, LastCardInv
    PROVE  LastCard!TypeOK /\ LastCard!CardsKept /\ LastCard!TurnSound
  <1>1. Sound(lGame)
    BY DEF LastCardInv
  <1>2. LastCard!TypeOK
    BY <1>1 DEF Sound, Typed, LastCard!TypeOK
  <1>3. LastCard!CardsKept
    BY <1>1 DEF Sound, Stopped, Kept, LastCard!CardsKept
  <1>4. LastCard!TurnSound
    <2> DEFINE p == LastCard!Current(lGame)
               ordinary == LastCard!Turn(p) /\ ~lGame.colorWait
    <2> SUFFICES ASSUME ~lGame.over, ~lGame.handWait
                 PROVE  /\ ordinary =>
                              /\ lGame.pending > 0 => LastCard!CanStack(lGame, p)
                              /\ \/ LastCard!HasPlayable(lGame, p)
                                 \/ LastCard!CanDraw(p) \/ LastCard!MayPass(p)
                        /\ ~lGame.hasty =>
                              /\ ordinary => lGame.skips = 0
                              /\ lGame.phase = "last_card_callout" =>
                                    lGame.target = p /\ LastCard!Cardinality(lGame.hands[p]) = 1
                              /\ lGame.swapper # None => lGame.swapper = p /\ lGame.phase = ""
                              /\ lGame.asking \/ lGame.colorWait =>
                                    lGame.wd4 = p /\ LastCard!Rank(lGame.top) \in LastCard!Wilds
                              /\ lGame.phase = "challenge_wd4" =>
                                    lGame.wd4 = p /\ LastCard!Rank(lGame.top) = "wild4"
      BY DEF LastCard!TurnSound
    <2>1. DebtStacked(lGame) /\ (~lGame.hasty => Orderly(lGame))
      BY <1>1 DEF Sound, Stopped
    <2>2. ordinary => Ordinary(lGame)
      BY DEF LastCard!Turn, Ordinary, Idle
    <2>3. ordinary /\ lGame.pending > 0 => LastCard!CanStack(lGame, p)
      BY <2>1, <2>2 DEF DebtStacked
    <2>4. ordinary => LastCard!HasPlayable(lGame, p) \/ LastCard!CanDraw(p) \/ LastCard!MayPass(p)
      BY DEF LastCard!MayPass
    <2>5. ~lGame.hasty /\ ordinary => lGame.skips = 0
      BY <2>1, <2>2 DEF Orderly
    <2>6. ~lGame.hasty =>
              /\ lGame.phase = "last_card_callout" =>
                    lGame.target = p /\ LastCard!Cardinality(lGame.hands[p]) = 1
              /\ lGame.swapper # None => lGame.swapper = p /\ lGame.phase = ""
              /\ lGame.asking \/ lGame.colorWait =>
                    lGame.wd4 = p /\ LastCard!Rank(lGame.top) \in LastCard!Wilds
              /\ lGame.phase = "challenge_wd4" =>
                    lGame.wd4 = p /\ LastCard!Rank(lGame.top) = "wild4"
      BY <2>1 DEF Orderly, Idle
    <2> QED BY <2>3, <2>4, <2>5, <2>6
  <1> QED BY <1>2, <1>3, <1>4
-----------------------------------------------------------------------------
(* Coup and Dead Man's Deck, proved in a module of their own.              *)

Both == INSTANCE CoupAndDeckProofs WITH
    Players <- Everybody, Cards <- CourtCards, game <- cGame, bots <- cBots, swaps <- cSwaps,
    halfway <- cHalfway, phase <- dPhase, hands <- dHands, eliminated <- dEliminated,
    bullet <- dBullet, chamber <- dChamber, turn <- dTurn, claim <- dClaim, starter <- dStarter,
    penalty <- dPenalty, active <- dActive, over <- dOver

\* What is proved of Coup and of Dead Man's Deck is proved of the Coup and the deck of the
\* tables: the two instances have the same definitions.
LEMMA SameCoup ==
    /\ Both!vars = Coup!vars /\ Both!Init = Coup!Init /\ Both!Next = Coup!Next
    /\ Both!NeverFrozen = Coup!NeverFrozen /\ Both!StakesKept = Coup!StakesKept
  <1>1. /\ Both!vars = Coup!vars
        /\ Both!Init = Coup!Init
    BY SMTT(30) DEF Both!Init, Coup!Init, Both!vars, Coup!vars
  <1>2. Both!Fire = Coup!Fire
    BY ZenonT(60) DEF Both!Alive, Coup!Alive, Both!Become, Coup!Become, Both!Bluff, Coup!Bluff,
           Both!Cardinality, Coup!Cardinality, Both!Challenged, Coup!Challenged, Both!Earn,
           Coup!Earn, Both!EndTurn, Coup!EndTurn, Both!Enqueue, Coup!Enqueue, Both!Fire,
           Coup!Fire, Both!Handled, Coup!Handled, Both!IsFiniteSet, Coup!IsFiniteSet, Both!Min,
           Coup!Min, Both!PostLose, Coup!PostLose, Both!Prompt, Coup!Prompt, Both!Resolve,
           Coup!Resolve, Both!Reveal, Coup!Reveal, Both!Truth, Coup!Truth
  <1>3. Both!Expire = Coup!Expire
    BY DEF Both!Alive, Coup!Alive, Both!Become, Coup!Become, Both!Cardinality, Coup!Cardinality,
           Both!Earn, Coup!Earn, Both!EndTurn, Coup!EndTurn, Both!Enqueue, Coup!Enqueue,
           Both!Expire, Coup!Expire, Both!IsFiniteSet, Coup!IsFiniteSet, Both!Min, Coup!Min,
           Both!Resolve, Coup!Resolve, Both!Unlocked, Coup!Unlocked
  <1>4. \A p : Both!Income(p) = Coup!Income(p)
    BY DEF Both!Alive, Coup!Alive, Both!Become, Coup!Become, Both!Cardinality, Coup!Cardinality,
           Both!Current, Coup!Current, Both!Earn, Coup!Earn, Both!EndTurn, Coup!EndTurn,
           Both!Free, Coup!Free, Both!Income, Coup!Income, Both!IsFiniteSet, Coup!IsFiniteSet,
           Both!MainTurn, Coup!MainTurn, Both!Min, Coup!Min, Both!Unlocked, Coup!Unlocked
  <1>5. /\ \A p, action : Both!Claim(p, action) = Coup!Claim(p, action)
        /\ \A p, t : Both!Steal(p, t) = Coup!Steal(p, t)
        /\ \A p, t : Both!Assassinate(p, t) = Coup!Assassinate(p, t)
        /\ \A p, t : Both!PlayCoup(p, t) = Coup!PlayCoup(p, t)
    BY DEF Both!Alive, Coup!Alive, Both!Assassinate, Coup!Assassinate, Both!Become, Coup!Become,
           Both!Claim, Coup!Claim, Both!Current, Coup!Current, Both!Declare, Coup!Declare,
           Both!Earn, Coup!Earn, Both!Enqueue, Coup!Enqueue, Both!Free, Coup!Free, Both!MainTurn,
           Coup!MainTurn, Both!Others, Coup!Others, Both!PlayCoup, Coup!PlayCoup, Both!Steal,
           Coup!Steal, Both!Unlocked, Coup!Unlocked
  <1>6. /\ \A p : Both!Challenge(p) = Coup!Challenge(p)
        /\ \A p : Both!Block(p) = Coup!Block(p)
        /\ \A p : Both!Pass(p) = Coup!Pass(p)
    BY DEF Both!Alive, Coup!Alive, Both!Become, Coup!Become, Both!Block, Coup!Block,
           Both!Cardinality, Coup!Cardinality, Both!Challenge, Coup!Challenge, Both!Enqueue,
           Coup!Enqueue, Both!IsFiniteSet, Coup!IsFiniteSet, Both!Pass, Coup!Pass, Both!Unlocked,
           Coup!Unlocked, Both!Window, Coup!Window
  <1>7. /\ \A p : Both!LoseInfluence(p) = Coup!LoseInfluence(p)
        /\ \A p : Both!ReturnCard(p) = Coup!ReturnCard(p)
        /\ \A p : Both!BotExchange(p) = Coup!BotExchange(p)
    BY DEF Both!Alive, Coup!Alive, Both!Become, Coup!Become, Both!BotExchange, Coup!BotExchange,
           Both!Cardinality, Coup!Cardinality, Both!Current, Coup!Current, Both!EndTurn,
           Coup!EndTurn, Both!Enqueue, Coup!Enqueue, Both!IsFiniteSet, Coup!IsFiniteSet,
           Both!LoseInfluence, Coup!LoseInfluence, Both!Min, Coup!Min, Both!ReturnCard,
           Coup!ReturnCard, Both!Reveal, Coup!Reveal, Both!Unlocked, Coup!Unlocked
  <1>8. \A p : Both!Swap(p) = Coup!Swap(p)
    BY DEF Both!Alive, Coup!Alive, Both!Current, Coup!Current, Both!Swap, Coup!Swap
  <1>9. Both!Tick = Coup!Tick
    BY <1>2, <1>3 DEF Both!Tick, Coup!Tick
  <1>10. \A p : Both!Key(p) = Coup!Key(p)
    BY <1>4, <1>5, <1>6, <1>7 DEF Both!Key, Coup!Key
  <1>11. Both!Next = Coup!Next
    BY <1>8, <1>9, <1>10 DEF Both!Next, Coup!Next
  <1>12. /\ Both!NeverFrozen = Coup!NeverFrozen
        /\ Both!StakesKept = Coup!StakesKept
    BY DEF Both!Alive, Coup!Alive, Both!Current, Coup!Current, Both!InfluencesFair,
           Coup!InfluencesFair, Both!Max, Coup!Max, Both!NeverFrozen, Coup!NeverFrozen,
           Both!Others, Coup!Others, Both!PurseBounded, Coup!PurseBounded, Both!StakesKept,
           Coup!StakesKept
  <1> QED BY <1>1, <1>11, <1>12

LEMMA SameDeck ==
    /\ Both!Deck!vars = Deck!vars /\ Both!Deck!Init = Deck!Init /\ Both!Deck!Next = Deck!Next
    /\ Both!Deck!NeverStuck = Deck!NeverStuck /\ Both!Deck!RevolversTrue = Deck!RevolversTrue
  <1>1. /\ Both!Deck!vars = Deck!vars
        /\ Both!Deck!Init = Deck!Init
    BY DEF Both!Deck!Idle, Deck!Idle, Both!Deck!Init, Deck!Init, Both!Deck!Names, Deck!Names,
           Both!Deck!NoCards, Deck!NoCards, Both!Deck!Players, Deck!Players, Both!Deck!Started,
           Deck!Started, Both!Deck!vars, Deck!vars
  <1>2. Both!Deck!Prepared = Deck!Prepared
    BY DEF Both!Deck!Alive, Deck!Alive, Both!Deck!Cancelled, Deck!Cancelled,
           Both!Deck!Cardinality, Deck!Cardinality, Both!Deck!Distance, Deck!Distance,
           Both!Deck!Due, Deck!Due, Both!Deck!First, Deck!First, Both!Deck!GameOver,
           Deck!GameOver, Both!Deck!IsFiniteSet, Deck!IsFiniteSet, Both!Deck!Names, Deck!Names,
           Both!Deck!NoCards, Deck!NoCards, Both!Deck!Played, Deck!Played, Both!Deck!Players,
           Deck!Players, Both!Deck!Prepared, Deck!Prepared, Both!Deck!Seat, Deck!Seat,
           Both!Deck!StartRound, Deck!StartRound, Both!Deck!Started, Deck!Started
  <1>3. Both!Deck!RoundStarts = Deck!RoundStarts
    BY DEF Both!Deck!Alive, Deck!Alive, Both!Deck!Due, Deck!Due, Both!Deck!FoldSet, Deck!FoldSet,
           Both!Deck!MapThenFoldSet, Deck!MapThenFoldSet, Both!Deck!Played, Deck!Played,
           Both!Deck!Players, Deck!Players, Both!Deck!RoundStarts, Deck!RoundStarts
  <1>4. Both!Deck!ClaimTold = Deck!ClaimTold
    BY DEF Both!Deck!After, Deck!After, Both!Deck!Alive, Deck!Alive, Both!Deck!Cancelled,
           Deck!Cancelled, Both!Deck!Cardinality, Deck!Cardinality, Both!Deck!Challenge,
           Deck!Challenge, Both!Deck!ClaimTold, Deck!ClaimTold, Both!Deck!Distance, Deck!Distance,
           Both!Deck!Due, Deck!Due, Both!Deck!Empty, Deck!Empty, Both!Deck!First, Deck!First,
           Both!Deck!Forced, Deck!Forced, Both!Deck!GameOver, Deck!GameOver, Both!Deck!Holders,
           Deck!Holders, Both!Deck!IsFiniteSet, Deck!IsFiniteSet, Both!Deck!Names, Deck!Names,
           Both!Deck!NextTurn, Deck!NextTurn, Both!Deck!NoCards, Deck!NoCards, Both!Deck!Played,
           Deck!Played, Both!Deck!Players, Deck!Players, Both!Deck!Seat, Deck!Seat,
           Both!Deck!StartRound, Deck!StartRound, Both!Deck!Started, Deck!Started
  <1>5. /\ Both!Deck!ChallengeLost = Deck!ChallengeLost
        /\ Both!Deck!Survived = Deck!Survived
        /\ Both!Deck!Shot = Deck!Shot
    BY DEF Both!Deck!ChallengeLost, Deck!ChallengeLost, Both!Deck!Due, Deck!Due,
           Both!Deck!NoCards, Deck!NoCards, Both!Deck!Played, Deck!Played, Both!Deck!Shot,
           Deck!Shot, Both!Deck!Started, Deck!Started, Both!Deck!Survived, Deck!Survived
  <1>6. Both!Deck!RouletteOver = Deck!RouletteOver
    BY DEF Both!Deck!Alive, Deck!Alive, Both!Deck!Cancelled, Deck!Cancelled,
           Both!Deck!Cardinality, Deck!Cardinality, Both!Deck!Distance, Deck!Distance,
           Both!Deck!Due, Deck!Due, Both!Deck!First, Deck!First, Both!Deck!GameOver,
           Deck!GameOver, Both!Deck!IsFiniteSet, Deck!IsFiniteSet, Both!Deck!Names, Deck!Names,
           Both!Deck!NoCards, Deck!NoCards, Both!Deck!Played, Deck!Played, Both!Deck!Players,
           Deck!Players, Both!Deck!RouletteOver, Deck!RouletteOver, Both!Deck!Seat, Deck!Seat,
           Both!Deck!StartRound, Deck!StartRound, Both!Deck!Started, Deck!Started
  <1>7. Both!Deck!GameEnds = Deck!GameEnds
    BY DEF Both!Deck!Due, Deck!Due, Both!Deck!GameEnds, Deck!GameEnds, Both!Deck!Played,
           Deck!Played
  <1>8. /\ \A p : Both!Deck!PlaySelected(p) = Deck!PlaySelected(p)
        /\ \A p : Both!Deck!CallLiar(p) = Deck!CallLiar(p)
    BY DEF Both!Deck!Alive, Deck!Alive, Both!Deck!CallLiar, Deck!CallLiar, Both!Deck!Challenge,
           Deck!Challenge, Both!Deck!MayAct, Deck!MayAct, Both!Deck!PlaySelected,
           Deck!PlaySelected, Both!Deck!Players, Deck!Players, Both!Deck!Running, Deck!Running,
           Both!Deck!Started, Deck!Started
  <1>9. Both!Deck!Tick = Deck!Tick
    BY <1>2, <1>3, <1>4, <1>5, <1>6, <1>7 DEF Both!Deck!Tick, Deck!Tick
  <1>10. Both!Deck!Next = Deck!Next
    BY <1>8, <1>9 DEF Both!Deck!Next, Deck!Next, Both!Deck!Players, Deck!Players
  <1>11. /\ Both!Deck!NeverStuck = Deck!NeverStuck
        /\ Both!Deck!RevolversTrue = Deck!RevolversTrue
    BY DEF Both!Deck!Alive, Deck!Alive, Both!Deck!Cardinality, Deck!Cardinality, Both!Deck!Empty,
           Deck!Empty, Both!Deck!Follows, Deck!Follows, Both!Deck!Holders, Deck!Holders,
           Both!Deck!IsFiniteSet, Deck!IsFiniteSet, Both!Deck!NeverStuck, Deck!NeverStuck,
           Both!Deck!NoCards, Deck!NoCards, Both!Deck!Players, Deck!Players,
           Both!Deck!RevolversTrue, Deck!RevolversTrue, Both!Deck!Running, Deck!Running
  <1> QED BY <1>1, <1>10, <1>11

-----------------------------------------------------------------------------
(* The tables.                                                             *)

\* A step of the tables is one of each game, or leaves that game alone.
LEMMA EachGame ==
    ASSUME [Next]_allVars
    PROVE  /\ [Coup!Next]_(Coup!vars) /\ [Deck!Next]_(Deck!vars)
           /\ [Kittens!Next]_(Kittens!vars) /\ [LastCard!Next]_lGame
  <1> USE DEF coupVars, kittenVars, deckVars, Coup!vars, Deck!vars, Kittens!vars
  <1>1. CASE UNCHANGED allVars
    BY <1>1 DEF allVars
  <1>2. CASE HoldemStep
    BY <1>2 DEF HoldemStep
  <1>3. CASE CoupStep
    BY <1>3 DEF CoupStep
  <1>4. CASE KittensStep
    BY <1>4 DEF KittensStep
  <1>5. CASE LastCardStep
    BY <1>5 DEF LastCardStep
  <1>6. CASE DeckStep
    BY <1>6 DEF DeckStep
  <1> QED BY <1>1, <1>2, <1>3, <1>4, <1>5, <1>6 DEF Next

\* No table of Coup or Dead Man's Deck freezes: the keys are locked only while an event
\* or a sequence is due that unlocks them, and otherwise somebody can move the game on
\* (is_resolving and the events of CoupGame, the sequences of DeadMansDeckGame).
THEOREM NeverFrozenForAll ==
    ASSUME Both!CoupAssumption, Both!TableAssumption
    PROVE  Spec => []NeverFrozen
  <1>1. Both!Spec => []Both!NeverFrozen
    BY Both!NeverFrozenForAll
  <1>2. Both!Deck!Spec => []Both!Deck!NeverStuck
    BY Both!NeverStuckForAll
  <1>3. Init => Both!Init /\ Both!Deck!Init
    BY SameCoup, SameDeck DEF Init
  <1>4. [Next]_allVars => [Both!Next]_(Both!vars) /\ [Both!Deck!Next]_(Both!Deck!vars)
    <2> SUFFICES ASSUME [Next]_allVars
                 PROVE  [Both!Next]_(Both!vars) /\ [Both!Deck!Next]_(Both!Deck!vars)
      OBVIOUS
    <2>1. [Coup!Next]_(Coup!vars) /\ [Deck!Next]_(Deck!vars)
      BY EachGame
    <2> QED BY <2>1, SameCoup, SameDeck
           DEF Both!vars, Coup!vars, Both!Deck!vars, Deck!vars
  <1>5. Both!NeverFrozen /\ Both!Deck!NeverStuck => NeverFrozen
    BY SameCoup, SameDeck DEF NeverFrozen
  <1> QED BY <1>1, <1>2, <1>3, <1>4, <1>5, PTL DEF Spec, Both!Spec, Both!Deck!Spec

\* What is at stake is kept: the influences and coins of Coup, and who has died of which
\* bullet in Dead Man's Deck (CoupPlayer.reveal_influence, _announce_roulette_result).
THEOREM StakesKeptForAll ==
    ASSUME Both!CoupAssumption, Both!TableAssumption
    PROVE  Spec => []StakesKept
  <1>1. Both!Spec => []Both!StakesKept
    BY Both!StakesKeptForAll
  <1>2. Both!Deck!Spec => []Both!Deck!RevolversTrue
    BY Both!RevolversForAll
  <1>3. Init => Both!Init /\ Both!Deck!Init
    BY SameCoup, SameDeck DEF Init
  <1>4. [Next]_allVars => [Both!Next]_(Both!vars) /\ [Both!Deck!Next]_(Both!Deck!vars)
    <2> SUFFICES ASSUME [Next]_allVars
                 PROVE  [Both!Next]_(Both!vars) /\ [Both!Deck!Next]_(Both!Deck!vars)
      OBVIOUS
    <2>1. [Coup!Next]_(Coup!vars) /\ [Deck!Next]_(Deck!vars)
      BY EachGame
    <2> QED BY <2>1, SameCoup, SameDeck
           DEF Both!vars, Coup!vars, Both!Deck!vars, Deck!vars
  <1>5. Both!StakesKept /\ Both!Deck!RevolversTrue => StakesKept
    BY SameCoup, SameDeck DEF StakesKept
  <1> QED BY <1>1, <1>2, <1>3, <1>4, <1>5, PTL DEF Spec, Both!Spec, Both!Deck!Spec

\* There is a kitten for every player who is to be eliminated, and whoever has the
\* turn is alive and finds a card in the deck: after any sequence of plays, Nopes,
\* defused kittens and explosions (_prepare_match, _action_draw_card).
THEOREM KittensForAll ==
    ASSUME KittensAssumption
    PROVE  Spec => []KittensMatch
  <1>1. Init => KittenInv
    BY KittenInit DEF Init
  <1>2. KittenInv /\ [Next]_allVars => KittenInv'
    BY EachGame, KittenStep
  <1>3. KittenInv => KittensMatch
    BY KittensLeft DEF KittensMatch
  <1> QED BY <1>1, <1>2, <1>3, PTL DEF Spec

\* No sequence of plays, Nopes, favors and explosions leads to a state that
\* _repair_pending_state has to repair, or to an action that _resolve_nope_window has
\* to drop: whoever is to choose has something to choose from.
THEOREM NothingToRepairForAll ==
    ASSUME KittensAssumption
    PROVE  Spec => []NothingToRepair
  <1>1. Init => KittenInv /\ ActionInv
    BY KittenInit, ActionInit DEF Init
  <1>2. KittenInv /\ ActionInv /\ [Next]_allVars => (KittenInv /\ ActionInv)'
    BY EachGame, KittenStep, ActionStep
  <1>3. KittenInv /\ ActionInv => NothingToRepair
    BY NothingToMend DEF NothingToRepair
  <1> QED BY <1>1, <1>2, <1>3, PTL DEF Spec

\* The variables of a game keep their types; somebody is left in it, and whoever has
\* the turn has turns left (_complete_one_turn, _eliminate_player).
THEOREM KittensTypeCorrect ==
    ASSUME KittensAssumption
    PROVE  Spec => []Kittens!TypeOK
  <1>1. Init => KittenInv /\ ActionInv
    BY KittenInit, ActionInit DEF Init
  <1>2. KittenInv /\ ActionInv /\ [Next]_allVars => (KittenInv /\ ActionInv)'
    BY EachGame, KittenStep, ActionStep
  <1>3. KittenInv /\ ActionInv => Kittens!TypeOK
    BY KittensTyped
  <1> QED BY <1>1, <1>2, <1>3, PTL DEF Spec

\* No draw, reshuffle, swap or rotation of hands loses a card or copies one, whatever the
\* options: while a hand is played the cards are those dealt (_draw_cards,
\* _reshuffle_discard_into_deck, _rotate_hands, _action_swap_target).
THEOREM CardsKeptForAll ==
    ASSUME LastCardAssumption
    PROVE  Spec => []CardsKept
  <1>1. Init => LastCardInv
    BY LastCardInit DEF Init
  <1>2. LastCardInv /\ [Next]_allVars => LastCardInv'
    BY EachGame, LastCardKeeps
  <1>3. LastCardInv => CardsKept
    BY LastCardSound DEF CardsKept
  <1> QED BY <1>1, <1>2, <1>3, PTL DEF Spec

\* Whoever must move at a table of LastCard can move, and whoever is called out, challenged
\* or asked is the one the rules mean, whatever the options: after jump-ins, stacked
\* debts, skips, swaps and bluffs (_apply_card_effects, _start_turn, on_tick).
THEOREM TurnSoundForAll ==
    ASSUME LastCardAssumption
    PROVE  Spec => []TurnSound
  <1>1. Init => LastCardInv
    BY LastCardInit DEF Init
  <1>2. LastCardInv /\ [Next]_allVars => LastCardInv'
    BY EachGame, LastCardKeeps
  <1>3. LastCardInv => TurnSound
    BY LastCardSound DEF TurnSound
  <1> QED BY <1>1, <1>2, <1>3, PTL DEF Spec

\* The variables of LastCard keep their types, the counters included.
THEOREM LastCardTypeCorrect ==
    ASSUME LastCardAssumption
    PROVE  Spec => []LastCard!TypeOK
  <1>1. Init => LastCardInv
    BY LastCardInit DEF Init
  <1>2. LastCardInv /\ [Next]_allVars => LastCardInv'
    BY EachGame, LastCardKeeps
  <1>3. LastCardInv => LastCard!TypeOK
    BY LastCardSound
  <1> QED BY <1>1, <1>2, <1>3, PTL DEF Spec
=============================================================================
