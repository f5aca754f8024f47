------------------------------- MODULE Kittens -------------------------------
(***************************************************************************)
(* Exploding Kittens (server/games/explodingkittens/game.py): a player     *)
(* plays cards, which the others may answer with Nopes until a timer or    *)
(* their passes close the window, and draws; a drawn kitten is revealed,   *)
(* then defused and put back, or it eliminates its player.                 *)
(*                                                                         *)
(* The deck and the hands are bags of kinds: the deck is shuffled, so that *)
(* any of its cards may be drawn.  What a player knows of the deck, and    *)
(* picking cards one by one for a combo, are left out.  A seat may change  *)
(* between its person and a bot at any time: a bot presses the same keys.  *)
(***************************************************************************)
EXTENDS Integers, FiniteSets, Sequences

CONSTANTS
    Seats,      \* the players in their order
    None,
    Hand0,      \* the cards dealt to each
    Deck0       \* the rest of the cards, with a kitten less than players

VARIABLES
    deck,       \* kind -> number of cards
    hand,       \* player -> kind -> number of cards
    alive,      \* the players not eliminated
    turn,       \* [player, turns, attacked]: turns_remaining, attack_obligation
    phase,      \* PHASE_RESOLVING is "reveal" or "last", by its sequence
    pending,    \* pending_action, or None
    kitten      \* decision_player_id while drawn_kitten is set, or None

vars == <<deck, hand, alive, turn, phase, pending, kitten>>

Players == {Seats[i] : i \in DOMAIN Seats}
\* "quiet" stands for Shuffle and See the Future; cats, which are good for combos only,
\* are left out.
Kinds == {"kitten", "defuse", "nope", "attack", "skip", "favor", "quiet"}
Single == {"attack", "skip", "favor", "quiet"}
Requestable == Kinds \ {"kitten"}
Phases == {"normal", "combo", "target", "request", "nope", "favor_give", "reveal", "defuse",
           "reinsert", "last", "game_over"}
Pending == [kind : Single \cup {"pair", "triple"}, actor : Players, card : Requestable,
            target : Players \cup {None}, asked : Requestable \cup {None},
            nopes : Nat, last : Players \cup {None}, passed : SUBSET Players]

TypeOK ==
    /\ deck \in [Kinds -> Nat] /\ hand \in [Players -> [Kinds -> Nat]]
    /\ alive \in (SUBSET Players) \ {{}}
    /\ turn \in [player : Players, turns : Nat \ {0}, attacked : BOOLEAN]
    /\ phase \in Phases /\ pending \in Pending \cup {None}
    /\ kitten \in Players \cup {None}

\* _prepare_match, at the end of the opening sequence.
Init ==
    /\ deck = Deck0 /\ hand = Hand0 /\ alive = Players
    /\ \E p \in Players : turn = [player |-> p, turns |-> 1, attacked |-> FALSE]
    /\ phase = "normal" /\ pending = None /\ kitten = None
-----------------------------------------------------------------------------
Take(bag, k, n) == [bag EXCEPT ![k] = @ - n]
Put(bag, k) == [bag EXCEPT ![k] = @ + 1]
NoCards(bag) == \A k \in Kinds : bag[k] = 0
OneCard(bag) == \E k \in Kinds : bag[k] = 1 /\ NoCards(Take(bag, k, 1))

\* _valid_targets
Targets(p, h) == {q \in alive \ {p} : ~NoCards(h[q])}

\* _advance_to_next_alive
NextAlive(p, left) ==
    LET i == CHOOSE k \in DOMAIN Seats : Seats[k] = p
        at(n) == Seats[IF i + n > Len(Seats) THEN i + n - Len(Seats) ELSE i + n]
        away == CHOOSE n \in 1..Len(Seats) : at(n) \in left /\ \A m \in 1..n - 1 : at(m) \notin left
    IN  at(away)
Turn(p, n, attacked) == [player |-> p, turns |-> n, attacked |-> attacked]

\* _complete_one_turn, in the flow that set phase and pending aside.
TurnDone ==
    turn' = IF turn.turns > 1 THEN [turn EXCEPT !.turns = @ - 1]
            ELSE Turn(NextAlive(turn.player, alive), 1, FALSE)

\* The pending action is over, as by _cancel_stale_action and the ends of the _resolves.
Over == phase' = "normal" /\ pending' = None

NewPending(kind, p, card) ==
    [kind |-> kind, actor |-> p, card |-> card, target |-> None, asked |-> None,
     nopes |-> 0, last |-> None, passed |-> {}]
Size(a) == IF a.kind = "pair" THEN 2 ELSE IF a.kind = "triple" THEN 3 ELSE 1
Targeted == {"favor", "pair", "triple"}

\* _commit_pending_action and _begin_nope_window: the cards are discarded.
Commit(a) ==
    /\ hand' = [hand EXCEPT ![a.actor] = Take(@, a.card, Size(a))]
    /\ phase' = "nope" /\ pending' = a

\* _focus_first_target and _action_choose_target, once the target is known.
Aim(a, q) ==
    \E b \in {[a EXCEPT !.target = q]} :
       IF a.kind = "triple" THEN phase' = "request" /\ pending' = b /\ UNCHANGED hand
       ELSE Commit(b)
\* _focus_first_target: without a choice the only target is taken.
ChooseTarget(a) ==
    \/ /\ Cardinality(Targets(a.actor, hand)) = 1
       /\ \E q \in Targets(a.actor, hand) : Aim(a, q)
    \/ /\ Cardinality(Targets(a.actor, hand)) > 1
       /\ phase' = "target" /\ pending' = a /\ UNCHANGED hand
-----------------------------------------------------------------------------
(* The player whose turn it is.                                            *)

MayAct(p) == phase = "normal" /\ turn.player = p /\ p \in alive

\* _action_play_card
PlayCard(p) ==
    /\ MayAct(p)
    /\ \E k \in Single :
          /\ hand[p][k] > 0
          /\ IF k = "favor" THEN Targets(p, hand) # {} /\ ChooseTarget(NewPending(k, p, k))
             ELSE Commit(NewPending(k, p, k))
    /\ UNCHANGED <<deck, alive, turn, kitten>>

\* _action_start_combo, _action_confirm_combo: two or three cards of a kind.
StartCombo(p) ==
    /\ MayAct(p) /\ ~NoCards(deck) /\ Targets(p, hand) # {}
    /\ \E k \in Requestable : hand[p][k] >= 2
    /\ phase' = "combo" /\ pending' = None
    /\ UNCHANGED <<deck, hand, alive, turn, kitten>>
ConfirmCombo(p) ==
    /\ phase = "combo" /\ turn.player = p
    /\ \E k \in Requestable, kind \in {"pair", "triple"} :
          \E a \in {NewPending(kind, p, k)} : hand[p][k] >= Size(a) /\ ChooseTarget(a)
    /\ UNCHANGED <<deck, alive, turn, kitten>>

\* _action_choose_target, _action_choose_request, _action_cancel_selection
PickTarget(p) ==
    /\ phase = "target" /\ pending.actor = p
    /\ \E q \in Targets(p, hand) : Aim(pending, q)
    /\ UNCHANGED <<deck, alive, turn, kitten>>
Request(p) ==
    /\ phase = "request" /\ pending.actor = p
    /\ \E k \in Requestable : Commit([pending EXCEPT !.asked = k])
    /\ UNCHANGED <<deck, alive, turn, kitten>>
Cancel(p) ==
    /\ \/ phase = "combo" /\ turn.player = p
       \/ phase \in {"target", "request"} /\ pending.actor = p
    /\ Over /\ UNCHANGED <<deck, hand, alive, turn, kitten>>

\* _action_draw_card: a kitten starts the sequence that reveals it.
Draw(p) ==
    /\ MayAct(p)
    /\ \E k \in Kinds :
          /\ deck[k] > 0 /\ deck' = Take(deck, k, 1)
          /\ IF k = "kitten"
             THEN kitten' = p /\ phase' = "reveal" /\ UNCHANGED <<hand, turn, pending>>
             ELSE hand' = [hand EXCEPT ![p] = Put(@, k)] /\ TurnDone /\ Over /\ UNCHANGED kitten
    /\ UNCHANGED alive
-----------------------------------------------------------------------------
(* Nopes.                                                                  *)

\* _nope_responder_ids, and those of them who have not passed.
Responders == alive \ {IF pending.nopes = 0 THEN pending.actor ELSE pending.last}
Silent == Responders \ pending.passed

\* _play_nope_card
Nope(p) ==
    /\ phase = "nope" /\ p \in Silent /\ hand[p]["nope"] > 0
    /\ hand' = [hand EXCEPT ![p] = Take(@, "nope", 1)]
    /\ pending' = [pending EXCEPT !.nopes = @ + 1, !.last = p, !.passed = {}]
    /\ UNCHANGED <<deck, alive, turn, phase, kitten>>

\* _resolve_attack, _resolve_skip
Attack == turn' = Turn(NextAlive(turn.player, alive),
                       IF turn.attacked THEN turn.turns + 2 ELSE 2, TRUE)
\* _finish_transfer
Transfer(a, k) ==
    hand' = [hand EXCEPT ![a.target] = Take(@, k, 1), ![a.actor] = Put(@, k)]
\* Mutant: the target of a favor is asked though it has one card or none.
Favor_Asks(a) == phase' = "favor_give" /\ pending' = a /\ UNCHANGED hand
\* _resolve_favor_request
Favor(a) ==
    \/ NoCards(hand[a.target]) /\ Over /\ UNCHANGED hand
    \/ /\ OneCard(hand[a.target]) /\ Over
       /\ \E k \in Kinds : hand[a.target][k] = 1 /\ Transfer(a, k)
    \/ /\ ~NoCards(hand[a.target]) /\ ~OneCard(hand[a.target])
       /\ phase' = "favor_give" /\ pending' = a /\ UNCHANGED hand

\* _resolve_nope_window, of the action as it now is: an odd number of Nopes cancels it.
Effect(a) ==
    IF a.nopes % 2 = 1 THEN Over /\ UNCHANGED <<hand, turn>>
    ELSE \/ a.kind = "attack" /\ Attack /\ Over /\ UNCHANGED hand
         \/ a.kind = "skip" /\ TurnDone /\ Over /\ UNCHANGED hand
         \/ a.kind = "quiet" /\ Over /\ UNCHANGED <<hand, turn>>
         \/ a.kind = "favor" /\ Favor(a) /\ UNCHANGED turn
         \/ /\ a.kind = "pair" /\ Over /\ UNCHANGED turn
            /\ IF NoCards(hand[a.target]) THEN UNCHANGED hand
               ELSE \E k \in Kinds : hand[a.target][k] > 0 /\ Transfer(a, k)
         \/ /\ a.kind = "triple" /\ Over /\ UNCHANGED turn
            /\ IF hand[a.target][a.asked] = 0 THEN UNCHANGED hand ELSE Transfer(a, a.asked)

\* _action_pass_nope: the last one to pass closes the window.
Pass(p) ==
    /\ phase = "nope" /\ p \in Silent
    /\ \E a \in {[pending EXCEPT !.passed = @ \cup {p}]} :
          IF Silent = {p} THEN Effect(a)
          ELSE pending' = a /\ UNCHANGED <<hand, turn, phase>>
    /\ UNCHANGED <<deck, alive, kitten>>

\* Mutant: the timer runs only until somebody has answered.
NopeTimeUp_Once ==
    /\ phase = "nope" /\ pending.nopes = 0 /\ pending.passed = {} /\ Effect(pending)
    /\ UNCHANGED <<deck, alive, kitten>>
\* on_tick: the timer, which every Nope sets anew.
NopeTimeUp ==
    /\ phase = "nope" /\ Effect(pending) /\ UNCHANGED <<deck, alive, kitten>>

\* _give_favor_card
Give(p) ==
    /\ phase = "favor_give" /\ pending.target = p
    /\ \E k \in Kinds : hand[p][k] > 0 /\ Transfer(pending, k)
    /\ Over /\ UNCHANGED <<deck, alive, turn, kitten>>
-----------------------------------------------------------------------------
(* A kitten.                                                               *)

\* _eliminate_player: its cards and the kitten leave the game.
Eliminate(p) ==
    /\ alive' = alive \ {p} /\ kitten' = None /\ pending' = None
    /\ hand' = [hand EXCEPT ![p] = [k \in Kinds |-> 0]]

\* _start_explosion_sequence: the last explosion is a sequence, in whose first beat
\* the player is eliminated.
Explode(p) ==
    /\ Eliminate(p)
    /\ IF Cardinality(alive) <= 2 THEN phase' = "last" /\ UNCHANGED turn
       ELSE phase' = "normal" /\ turn' = Turn(NextAlive(turn.player, alive \ {p}), 1, FALSE)
    /\ UNCHANGED deck

\* _finish_kitten_reveal
Reveal ==
    /\ phase = "reveal"
    /\ IF hand[kitten]["defuse"] > 0
       THEN phase' = "defuse" /\ UNCHANGED <<deck, hand, alive, turn, pending, kitten>>
       ELSE Explode(kitten)
\* Mutant: the kitten is put aside with the defuse.
Reinsert_Drops == UNCHANGED deck /\ kitten' = None /\ TurnDone /\ Over
\* _reinsert_kitten
Reinsert == deck' = Put(deck, "kitten") /\ kitten' = None /\ TurnDone /\ Over
\* _action_use_defuse, _finish_defuse: into an empty deck the kitten goes at once.
UseDefuse(p) ==
    /\ phase = "defuse" /\ kitten = p
    /\ hand' = [hand EXCEPT ![p] = Take(@, "defuse", 1)]
    /\ IF NoCards(deck) THEN Reinsert
       ELSE phase' = "reinsert" /\ UNCHANGED <<deck, turn, pending, kitten>>
    /\ UNCHANGED alive
\* _action_accept_explosion, _action_reinsert_kitten
Accept(p) == phase = "defuse" /\ kitten = p /\ Explode(p)
PutBack(p) == phase = "reinsert" /\ kitten = p /\ Reinsert /\ UNCHANGED <<hand, alive>>
\* resolve_final_explosion and _end_game.
End ==
    /\ phase = "last" /\ phase' = "game_over"
    /\ UNCHANGED <<deck, hand, alive, turn, pending, kitten>>
-----------------------------------------------------------------------------
Answer(p) == Nope(p) \/ Pass(p) \/ Give(p) \/ UseDefuse(p) \/ Accept(p) \/ PutBack(p)
Play(p) == PlayCard(p) \/ StartCombo(p) \/ ConfirmCombo(p) \/ PickTarget(p) \/ Request(p)
           \/ Cancel(p) \/ Draw(p)
Tick == NopeTimeUp \/ Reveal \/ End
Next == Tick \/ \E p \in Players : Play(p) \/ Answer(p)
Spec == Init /\ [][Next]_vars
\* The tick counts the window down and runs the sequences, whatever players do.
FairSpec == Spec /\ WF_vars(Tick)
-----------------------------------------------------------------------------
(* Properties.                                                             *)

\* There is a kitten for every player who is to be eliminated, in the deck or just
\* drawn; so whoever has the turn is alive and has a card to draw, and the game can end.
KittensMatch ==
    /\ deck["kitten"] + (IF kitten = None THEN 0 ELSE 1) = Cardinality(alive) - 1
    /\ phase = "normal" => turn.player \in alive /\ ~NoCards(deck)

\* _repair_pending_state is for "impossible restored or externally changed" states
\* (game.py:2089): no sequence of plays, Nopes, favors and explosions leads to one,
\* nor to an action that _resolve_nope_window would have to drop.
NothingToRepair ==
    /\ phase \in {"target", "request", "nope", "favor_give"} =>
          pending # None /\ pending.actor \in alive /\ pending.actor = turn.player
    /\ phase \in {"target", "request"} =>
          /\ hand[pending.actor][pending.card] >= Size(pending)
          /\ Targets(pending.actor, hand) # {}
    /\ phase \in {"request", "nope"} /\ pending.kind \in Targeted =>
          pending.target \in alive \ {pending.actor}
    /\ phase = "request" => ~NoCards(hand[pending.target])
    /\ phase = "favor_give" =>
          /\ pending.target \in alive \ {pending.actor}
          /\ ~NoCards(hand[pending.target]) /\ ~OneCard(hand[pending.target])
    /\ phase \in {"defuse", "reinsert"} =>
          /\ kitten \in alive
          /\ phase = "defuse" => hand[kitten]["defuse"] > 0
          /\ phase = "reinsert" => ~NoCards(deck)

\* Whatever is answered, and whoever keeps silent, a played card takes effect or is
\* cancelled, and a revealed kitten comes to its end.
Unsettled == phase \in {"nope", "reveal", "last"}
Settles == Unsettled ~> ~Unsettled
=============================================================================
