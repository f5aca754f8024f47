------------------------------- MODULE Holdem -------------------------------
(***************************************************************************)
(* Texas Hold'em (server/games/holdem/game.py) with the helpers it shares  *)
(* with the other poker games (game_utils/poker_*.py): hands follow each   *)
(* other until one player has all the chips.                               *)
(*                                                                         *)
(* A handler runs to its end without interleaving, so a step is a key of   *)
(* the player whose turn it is, or a tick that reveals cards or deals the  *)
(* next hand.  What a helper does to the game is an operator on the record *)
(* `game`; those that may end in a showdown return the set of outcomes,    *)
(* one for each way the cards may rank the hands.  The turn timer, an      *)
(* option that is off by default, folds for the player, which is a Fold.   *)
(* Amounts of chips are scaled down; blinds are not raised; cards other    *)
(* than the number on the board are left out.                              *)
(***************************************************************************)
EXTENDS Integers, Sequences, FiniteSets, FiniteSetsExt, Lists

CONSTANTS
    Players,        \* the players that are no spectators
    Seats,          \* their order
    Bots,           \* those played by a bot
    Stack,          \* starting_chips
    Small, Big,     \* the blinds
    Ante,
    RaiseMode,      \* "no_limit", "pot_limit", "double_pot"
    MaxRaises,      \* max_raises, 0 for no limit
    Amounts,        \* bound: what a player may enter for a raise
    MaxHands,       \* bound: hands that are dealt
    MaxSettled      \* bound: times one hand is paid out

VARIABLES
    game,       \* the fields of HoldemGame, as a record; `timed': options.turn_timer is not 0
    paid,       \* what each player was paid in this hand (history)
    settled,    \* how often this hand was paid out (history)
    skewed      \* a blind or ante took somebody's last chip in this hand (history)

vars == <<game, paid, settled, skewed>>

Smaller(m, n) == IF m < n THEN m ELSE n
Larger(m, n) == IF m > n THEN m ELSE n
Total(f) == SumTo([i \in DOMAIN Seats |-> f[Seats[i]]], Len(Seats))
\* Where p sits among s, from 0 as in Python.
Place(p, s) == (CHOOSE i \in DOMAIN s : s[i] = p) - 1
SetOf(s) == {s[i] : i \in DOMAIN s}
Zero == [p \in Players |-> 0]

GameType ==
    [timed : BOOLEAN, chips : [Players -> Nat], folded : SUBSET Players, allin : SUBSET Players,
     contrib : [Players -> Nat], button : Players, index : Nat, sbPay : Nat, bbPay : Nat,
     order : Seq(Players), bets : [Players -> Nat], bet : Nat, last : Nat, raises : Nat,
     acted : SUBSET Players, turn : Players,
     phase : {"preflop", "flop", "turn", "river", "showdown"}, board : {0, 3, 4, 5},
     pending : BOOLEAN, wait : BOOLEAN, over : BOOLEAN, hand : 0..MaxHands]
TypeOK ==
    /\ game \in GameType
    /\ paid \in [Players -> Nat] /\ settled \in 0..MaxSettled /\ skewed \in BOOLEAN
-----------------------------------------------------------------------------
(* Pots (poker_pot.py, poker_payout.py).                                   *)

TotalPot(g) == Total(g.contrib)
Levels(g) == {g.contrib[p] : p \in Players} \ {0}
Below(g, l) == Max({m \in Levels(g) : m < l} \cup {0})
Contributors(g, l) == {p \in Players : g.contrib[p] >= l}

\* Mutant of Pot: the contributors of a pot are those of exactly that amount.
Pot_Exact(g, l) ==
    [level |-> l,
     amount |-> (l - Below(g, l)) * Cardinality({p \in Players : g.contrib[p] = l}),
     eligible |-> Contributors(g, l) \ g.folded]
\* get_pots: a pot for each amount somebody has put in.
Pot(g, l) ==
    [level |-> l,
     amount |-> (l - Below(g, l)) * Cardinality(Contributors(g, l)),
     eligible |-> Contributors(g, l) \ g.folded]
Pots(g) == {Pot(g, l) : l \in Levels(g)}
\* The sum over pots of a part of each.
OfAll(part) ==
    LET top(pots) == CHOOSE pot \in pots : \A other \in pots : pot.level >= other.level
        sum[pots \in SUBSET DOMAIN part] ==
            IF pots = {} THEN 0 ELSE part[top(pots)] + sum[pots \ {top(pots)}]
    IN  sum[DOMAIN part]

\* order_winners_by_button: the seats after the button come first.
After(g, p) == (Place(p, Seats) - Place(g.button, Seats) - 1) % Len(Seats)
Winners(pot, rank) == {p \in pot.eligible : \A q \in pot.eligible : rank[p] >= rank[q]}

\* Mutant of Share: odd chips go to nobody.
Share_Even(g, pot, rank, p) ==
    IF p \notin Winners(pot, rank) THEN 0 ELSE pot.amount \div Cardinality(Winners(pot, rank))
\* compute_ordered_payouts: equal shares, odd chips in the order of the winners.
Share(g, pot, rank, p) ==
    LET w == Winners(pot, rank)
        before == {q \in w : After(g, q) < After(g, p)}
    IN  IF p \notin w THEN 0
        ELSE pot.amount \div Cardinality(w)
             + (IF Cardinality(before) < pot.amount % Cardinality(w) THEN 1 ELSE 0)

\* resolve_pots_with_payouts: a pot nobody is eligible for is passed over.
Payout(g, pots, rank) ==
    [p \in Players |-> OfAll([pot \in pots |-> Share(g, pot, rank, p)])]
\* best_hand, as far as it matters: any ranking, with ties.
Ranks(in) == {r \in [in -> 1..Cardinality(in)] :
                 \A p \in in : r[p] = 1 \/ \E q \in in : r[q] = r[p] - 1}
-----------------------------------------------------------------------------
(* Button, blinds and the betting round (poker_table.py, poker_betting.py). *)

\* advance_button
NextButton(g, in) ==
    LET i == IF g.button \in SetOf(in) THEN Place(g.button, in) ELSE 0
    IN  (i + 1) % Len(in)
\* get_blind_indices
SmallBlind(g, n) == IF n = 2 THEN g.index % 2 ELSE (g.index + 1) % n
BigBlind(g, n) == (SmallBlind(g, n) + 1) % n

ToCall(g, p) == Larger(0, g.bet - g.bets[p])
MinRaise(g) == Larger(g.last, 1)
CanRaise(g) == MaxRaises = 0 \/ g.raises < MaxRaises

\* compute_pot_limit_caps and clamp_total_to_cap
Clamp(g, p, amount) ==
    CASE RaiseMode = "no_limit"   -> amount
      [] RaiseMode = "pot_limit"  -> Smaller(amount, TotalPot(g) + ToCall(g, p) * 2)
      [] RaiseMode = "double_pot" -> Smaller(amount, TotalPot(g) * 2 + ToCall(g, p) * 2)

\* Paying into the pot, and record_bet.
Pay(g, p, amount, isRaise) ==
    LET mine == g.bets[p] + amount
        left == g.chips[p] - amount
        h == [g EXCEPT !.chips[p] = left, !.contrib[p] = @ + amount, !.bets[p] = mine,
                       !.allin = IF left = 0 THEN @ \cup {p} ELSE @]
    IN  IF isRaise
        THEN [h EXCEPT !.raises = @ + 1, !.last = Larger(@, mine - g.bet), !.bet = mine,
                       !.acted = {p}]
        ELSE [h EXCEPT !.acted = @ \cup {p}]
\* _active_betting_ids: a player who lost everything in an earlier hand is still
\* marked all-in and not folded.
ActiveIds(g) == {p \in Players \ g.folded : g.chips[p] > 0 \/ p \in g.allin}
\* is_complete
Complete(g) ==
    \A p \in ActiveIds(g) \ g.allin : g.bets[p] = g.bet /\ p \in g.acted

\* _advance_turn, next_player and _start_turn: on to the next player who can act.
CanAct(g, p) == p \in ActiveIds(g) \ g.allin
AdvanceTurn(g) ==
    LET n == Len(g.order)
        start == IF g.turn \in SetOf(g.order) THEN Place(g.turn, g.order) + 1 ELSE 0
        nth(k) == g.order[((start + k) % n) + 1]
        able == {k \in 0..n - 1 : CanAct(g, nth(k))}
    IN  IF able = {} THEN g ELSE [g EXCEPT !.turn = nth(Min(able))]
-----------------------------------------------------------------------------
(* The course of a hand.  Each operator returns the set of outcomes.       *)

\* _showdown: pays all pots and queues the next hand.
PaidOut(g, pay) == [g EXCEPT !.phase = "showdown", !.wait = TRUE,
                             !.chips = [p \in Players |-> g.chips[p] + pay[p]]]
Showdown(g) ==
    {PaidOut(g, pay) :
        pay \in {Payout(g, pots, rank) : pots \in {Pots(g)}, rank \in Ranks(Players \ g.folded)}}

\* _award_uncontested: the pot stays on the books.
Award(g) ==
    IF ActiveIds(g) = {} THEN {g}
    ELSE {[g EXCEPT !.chips[p] = @ + TotalPot(g), !.wait = TRUE] : p \in ActiveIds(g)}

\* _start_all_in_showdown: the rest of the board is dealt by ticks.
StartAllIn(g) ==
    IF g.pending THEN {g}
    ELSE IF g.board = 5 THEN Showdown(g) ELSE {[g EXCEPT !.pending = TRUE]}

\* _start_betting_round, with _set_turn_by_index.  Who is all in by a blind is not
\* in the order, and the places of the blinds are counted without that player.
BettingRound(g, preflop) ==
    LET order == Keeping(Seats, {i \in DOMAIN Seats : g.chips[Seats[i]] > 0
                                                        /\ Seats[i] \notin g.folded})
        n == Len(order)
        sb == order[SmallBlind(g, n) + 1]
        bb == order[BigBlind(g, n) + 1]
        first == IF ~preflop THEN g.index + 1
                 ELSE IF n = 2 THEN SmallBlind(g, n) ELSE BigBlind(g, n) + 1
        turn == order[(first % n) + 1]
        fresh == [g EXCEPT !.order = order, !.bets = Zero, !.bet = 0, !.last = 0,
                           !.raises = 0, !.acted = {}]
        credited == [p \in Players |-> IF p = bb THEN g.bbPay ELSE IF p = sb THEN g.sbPay ELSE 0]
        h == [g EXCEPT !.order = order, !.bets = IF preflop THEN credited ELSE Zero,
                       !.bet = IF preflop THEN g.bbPay ELSE 0, !.last = Big,
                       !.raises = 0, !.acted = {}, !.turn = turn]
    IN  IF n = 0 THEN StartAllIn(fresh) ELSE {IF CanAct(h, turn) THEN h ELSE AdvanceTurn(h)}

\* Mutant of Deal: the burned card lands on the board.
Deal_Burned(g, phase, n) ==
    UNION {BettingRound(h, FALSE) : h \in {[g EXCEPT !.phase = phase, !.board = @ + n + 1]}}
\* _deal_community, and the next round.
Deal(g, phase, n) ==
    UNION {BettingRound(h, FALSE) : h \in {[g EXCEPT !.phase = phase, !.board = @ + n]}}

\* _advance_phase
AdvancePhase(g) ==
    CASE g.phase = "preflop" -> Deal(g, "flop", 3)
      [] g.phase = "flop"    -> Deal(g, "turn", 1)
      [] g.phase = "turn"    -> Deal(g, "river", 1)
      [] OTHER               -> Showdown(g)

\* _after_action
AfterAction(h) ==
    UNION {IF Cardinality(ActiveIds(g)) <= 1 THEN Award(g)
           ELSE IF ActiveIds(g) \subseteq g.allin THEN StartAllIn(g)
           ELSE IF Complete(g) THEN AdvancePhase(g)
           ELSE {AdvanceTurn(g)} : g \in {h}}

\* _post_antes and _post_blinds: who has too little is all in.
Forced(g, p, amount) ==
    LET pay == Smaller(g.chips[p], amount)
    IN  [g EXCEPT !.chips[p] = @ - pay, !.contrib[p] = @ + pay,
                  !.allin = IF pay = g.chips[p] THEN @ \cup {p} ELSE @]
PostAntes(g, in) ==
    [g EXCEPT !.chips = [p \in Players |-> @[p] - Smaller(@[p], Ante)],
              !.contrib = [p \in Players |-> Smaller(g.chips[p], Ante)],
              !.allin = @ \cup {p \in in : g.chips[p] <= Ante}]
PostBlinds(g, in) ==
    LET sb == in[SmallBlind(g, Len(in)) + 1]
        bb == in[BigBlind(g, Len(in)) + 1]
        h == [g EXCEPT !.sbPay = Smaller(g.chips[sb], Small),
                       !.bbPay = Smaller(g.chips[bb], Big)]
    IN  Forced(Forced(h, sb, Small), bb, Big)

\* _start_new_hand: only players with chips are dealt in and reset.
StartHand(g) ==
    LET in == Keeping(Seats, {i \in DOMAIN Seats : g.chips[Seats[i]] > 0})
        h == [g EXCEPT !.hand = @ + 1, !.phase = "preflop", !.contrib = Zero, !.board = 0,
                       !.pending = FALSE, !.wait = FALSE]
        i == NextButton(g, in)
        k == [h EXCEPT !.index = i, !.button = in[i + 1],
                       !.folded = @ \ SetOf(in), !.allin = @ \ SetOf(in)]
    IN  IF Len(in) <= 1 THEN {[h EXCEPT !.over = TRUE]}
        ELSE UNION {BettingRound(m, TRUE) : m \in {PostBlinds(PostAntes(k, SetOf(in)), in)}}
\* Somebody who put chips in has none left.
ShortHanded(g) == \E p \in Players : g.contrib[p] > 0 /\ g.chips[p] = 0

\* on_start.  The button is nobody's yet, so the second seat gets it.
Init ==
    /\ \E timed \in BOOLEAN : game \in StartHand(
          [timed |-> timed, chips |-> [p \in Players |-> Stack], folded |-> {}, allin |-> {},
           contrib |-> Zero, button |-> Seats[1], index |-> 0, sbPay |-> 0, bbPay |-> 0,
           order |-> <<>>, bets |-> Zero, bet |-> 0, last |-> 0, raises |-> 0, acted |-> {},
           turn |-> Seats[1], phase |-> "preflop", board |-> 0, pending |-> FALSE,
           wait |-> FALSE, over |-> FALSE, hand |-> 0])
    /\ paid = Zero /\ settled = 0 /\ skewed = ShortHanded(game)
-----------------------------------------------------------------------------
(* Steps.                                                                  *)

\* The hand was paid out in the step to g.
Settles(g) == \E p \in Players : g.chips[p] > game.chips[p]
Become(outcomes) ==
    /\ game' \in outcomes /\ UNCHANGED skewed
    /\ IF Settles(game')
       THEN /\ settled < MaxSettled /\ settled' = settled + 1
            /\ paid' = [p \in Players |-> paid[p] + Larger(0, game'.chips[p] - game.chips[p])]
       ELSE UNCHANGED <<paid, settled>>

\* _require_active_player.  Bots act on ticks that get as far as BotHelper; a
\* person may press a key at any time.
Enabled(p) ==
    /\ ~game.over /\ p = game.turn /\ p \notin game.folded
    /\ p \in Bots => ~game.wait /\ ~game.pending

Fold(p) == Enabled(p) /\ Become(AfterAction([game EXCEPT !.folded = @ \cup {p}]))

Call(p) ==
    /\ Enabled(p)
    /\ Become(AfterAction(Pay(game, p, Smaller(game.chips[p], ToCall(game, p)), FALSE)))

\* _action_all_in: a raise only if it is large enough.
AllInOutcomes(p) ==
    LET pay == Clamp(game, p, game.chips[p])
        more == pay - ToCall(game, p)
    IN  AfterAction(Pay(game, p, pay, more >= MinRaise(game) /\ more > 0))
AllIn(p) == Enabled(p) /\ game.chips[p] > 0 /\ Become(AllInOutcomes(p))

Raise(p, amount) ==
    /\ Enabled(p) /\ CanRaise(game) /\ amount <= game.chips[p]
    /\ LET total == Smaller(Clamp(game, p, ToCall(game, p) + amount), game.chips[p])
       IN  \/ /\ amount = game.chips[p]
              /\ Become(AllInOutcomes(p))
           \/ /\ amount < game.chips[p] /\ amount >= MinRaise(game)
              /\ IF total < ToCall(game, p) + MinRaise(game)
                 THEN Become(AllInOutcomes(p))
                 ELSE Become(AfterAction(Pay(game, p, total, TRUE)))

\* on_tick: the next cards of an all-in showdown, then the showdown itself.
Reveal ==
    /\ ~game.over /\ ~game.wait /\ game.pending
    /\ IF game.board < 5
       THEN Become({[game EXCEPT !.board = IF @ = 0 THEN 3 ELSE @ + 1]})
       ELSE Become(Showdown([game EXCEPT !.pending = FALSE]))

\* on_tick: the next hand, when the pause is over.
NextHand ==
    /\ ~game.over /\ game.wait /\ game.hand < MaxHands
    /\ game' \in StartHand(game)
    /\ paid' = Zero /\ settled' = 0 /\ skewed' = ShortHanded(game')

Plays(p) == Fold(p) \/ Call(p) \/ AllIn(p) \/ \E amount \in Amounts : Raise(p, amount)
Next == (\E p \in Players : Plays(p)) \/ Reveal \/ NextHand

Spec == Init /\ [][Next]_vars
\* The turn timer, when there is one, folds for a player who does nothing.
TimeUp == game.timed /\ \E p \in Players : Fold(p)
\* BotHelper.on_tick: the bot whose turn it is always finds a key (bot_think).
BotActs == \E p \in Bots : Plays(p)
\* Ticks go on.  Nothing makes a person press a key.
FairSpec == Spec /\ WF_vars(TimeUp) /\ WF_vars(BotActs) /\ WF_vars(Reveal)
-----------------------------------------------------------------------------
(* Properties.                                                             *)

\* During a betting round it is the turn of a player who can act, however others
\* folded, went all in, or were eliminated.
TurnCanAct ==
    ~game.over /\ ~game.wait /\ ~game.pending
        => game.turn \in SetOf(game.order) /\ CanAct(game, game.turn) /\ game.chips[game.turn] > 0

\* The pots hold all the chips put in, and what a player may win from them is
\* that player's share: from each player at most as much as he put in himself.
Claim(p) == Total([q \in Players |-> Smaller(game.contrib[p], game.contrib[q])])
Amount(pots) == OfAll([pot \in pots |-> pot.amount])
PotsAddUp ==
    \A pots \in {Pots(game)} :
        /\ Amount(pots) = TotalPot(game)
        /\ \A p \in Players \ game.folded :
              Amount({pot \in pots : p \in pot.eligible}) = Claim(p)

\* The state of the table in a betting round, as the two properties above say.
HandSound == TurnCanAct /\ PotsAddUp

\* The next cards are dealt only when all who are in the hand have put in the same
\* in this hand, or are all in; unless a blind took somebody's last chip, for then
\* the blinds are credited to the wrong players (see BettingRound).
BetsMatchedStep ==
    game'.board # game.board /\ game'.board # 0 /\ ~skewed =>
        \A p, q \in ActiveIds(game') \ game'.allin : game'.contrib[p] = game'.contrib[q]
BetsMatched == [][BetsMatchedStep]_vars

\* Until a hand has been paid out no chip is made or lost, and paying it out for the
\* first time pays the whole pot, except for a showdown's pots nobody is eligible for.
DeadPots(g) == Amount({pot \in Pots(g) : pot.eligible = {}})
ChipsKeptStep ==
    settled = 0 /\ game'.hand = game.hand =>
        LET before == Total(game.chips) + TotalPot(game)
        IN  IF settled' = 0 THEN Total(game'.chips) + TotalPot(game') = before
            ELSE Total(game'.chips) = before - (IF game'.phase = "showdown"
                                                THEN DeadPots(game') ELSE 0)
ChipsKept == [][ChipsKeptStep]_vars

\* What a step does with the chips, as the two properties above say.
ChipsRight == BetsMatched /\ ChipsKept

\* Every hand comes to its end, or to the turn of a person who may think for as long as
\* they like, there being no turn timer.
Thinking == ~game.timed /\ ~game.pending /\ game.turn \notin Bots
Undecided == ~game.wait /\ ~game.over /\ ~Thinking
HandEnds == Undecided ~> ~Undecided

\* A hand pays out no more than its pot: "the player with the best hand at showdown,
\* wins the pot" (documents/shared/holdem_rules/en.md:5).
PotPaidOnce == Total(paid) <= TotalPot(game)
=============================================================================
