------------------------------ MODULE LastCard ------------------------------
(***************************************************************************)
(* LastCard (server/games/lastcard): shedding cards, with skips, reversed  *)
(* turns, stacked draws, swapped hands, and three windows in which others  *)
(* may interrupt.  A handler runs to its end, so each is one step; what a  *)
(* helper can make of the record `game` is a set, for a card is drawn from *)
(* a shuffled deck.                                                        *)
(*                                                                         *)
(* Left out: points (whether a round ends the game is left to choice), the *)
(* order of hands, the cards a player has toggled, and called_last_card:   *)
(* playing clears it, and a call in the window ends the window.            *)
(***************************************************************************)
EXTENDS Integers, Sequences, FiniteSets, FiniteSetsExt

CONSTANTS
    Seats,      \* who may play, in the order of turns: the first opt.seats of them do
    Pack,       \* the cards: a sequence of records of rank and color
    Dealings,   \* bound: how many play, options, the deals a hand may start with, and how
                \*   often cards are played in a hand (opt.plays)
    Colors,
    None

VARIABLE game   \* the fields of LastCardGame, and its options

Players == {Seats[i] : i \in DOMAIN Seats}
Seated(g) == {Seats[i] : i \in 1..g.opt.seats}
Cards == DOMAIN Pack
Rank(c) == Pack[c].rank
Color(c) == Pack[c].color
Wilds == {"wild", "wild4"}
Deals(opt) == {d \in Dealings : d.opt = opt}
Phases == {"", "last_card_callout", "challenge_wd4", "jump_in_window"}

GameType ==
    [opt : {d.opt : d \in Dealings}, plays : Nat, hands : [Players -> SUBSET Cards],
     deck : SUBSET Cards, pile : SUBSET Cards, top : Cards, color : Colors \cup {"wild"},
     dealer : DOMAIN Seats, turn : DOMAIN Seats, dir : {1, -1}, skips : Nat,
     drawn : BOOLEAN, draws : Nat, pending : Nat, plus4 : BOOLEAN,
     asking : BOOLEAN, swapper : Players \cup {None}, phase : Phases,
     target : Players \cup {None}, wd4 : Players \cup {None}, matching : BOOLEAN,
     jumped : BOOLEAN, passes : 0..Len(Seats), colorWait : BOOLEAN,
     handWait : BOOLEAN, hasty : BOOLEAN, over : BOOLEAN]
TypeOK == game \in GameType

\* k places on, of n.
Shift(n, seat, k) == ((seat - 1 + k) % n) + 1
SeatOf(g, p) == CHOOSE i \in 1..g.opt.seats : Seats[i] = p
Current(g) == Seats[g.turn]
\* _next_player
NextPlayer(g) == Seats[Shift(g.opt.seats, g.turn, g.dir)]

\* _start_new_hand: the dealer moves on, and every card is dealt again.  `hasty` is
\* history: somebody went on playing while the choice of a colour was being shown.
NewDeal(opt, dealer) ==
    {[opt |-> opt, plays |-> 0, hands |-> d.hands, top |-> d.top, color |-> Color(d.top),
      pile |-> {}, deck |-> d.deck,
      dealer |-> Shift(opt.seats, dealer, 1), turn |-> Shift(opt.seats, dealer, 2),
      dir |-> 1, skips |-> 0, drawn |-> FALSE, draws |-> 0, pending |-> 0, plus4 |-> FALSE,
      asking |-> FALSE, swapper |-> None, phase |-> "", target |-> None, wd4 |-> None,
      matching |-> FALSE, jumped |-> FALSE, passes |-> 0, colorWait |-> FALSE, handWait |-> FALSE,
      hasty |-> FALSE, over |-> FALSE] : d \in Deals(opt)}
Init == \E d \in Dealings : game \in NewDeal(d.opt, d.opt.seats)
-----------------------------------------------------------------------------
(* Cards.                                                                  *)

\* Mutant of Drawn: the reshuffled cards stay on the pile.
Drawn_KeepsPile(g, p, n) ==
    LET short == n - Cardinality(g.deck)
    IN  IF short <= 0
        THEN {[g EXCEPT !.hands[p] = @ \cup S, !.deck = @ \ S] : S \in kSubset(n, g.deck)}
        ELSE {[g EXCEPT !.hands[p] = @ \cup g.deck \cup S, !.deck = g.pile \ S] :
                 S \in kSubset(Min({short, Cardinality(g.pile)}), g.pile)}
\* _draw_for_player: the deck, then the reshuffled pile, up to max_hand_size.
Drawn(g, p, n) ==
    LET room == g.opt.maxHand - Cardinality(g.hands[p])
        want == IF g.opt.maxHand = 0 THEN n ELSE Min({n, Max({0, room})})
        short == want - Cardinality(g.deck)
    IN  IF short <= 0
        THEN {[g EXCEPT !.hands[p] = @ \cup S, !.deck = @ \ S] : S \in kSubset(want, g.deck)}
        ELSE {[g EXCEPT !.hands[p] = @ \cup g.deck \cup S, !.deck = g.pile \ S, !.pile = {}] :
                 S \in kSubset(Min({short, Cardinality(g.pile)}), g.pile)}
Exhausted(g) == g.deck = {} /\ g.pile = {}

\* _can_stack
Stacks(g, c) ==
    IF g.opt.stacking = "progressive" THEN Rank(c) \in {"draw2", "wild4"}
    ELSE Rank(c) = IF g.plus4 THEN "wild4" ELSE "draw2"
CanStack(g, p) == \E c \in g.hands[p] : Stacks(g, c)

\* _is_card_playable.  A debt of cards is there only with stacking.
Playable(g, c) ==
    IF g.pending > 0 THEN Stacks(g, c)
    ELSE \/ Rank(c) \in Wilds
         \/ Color(c) = g.color
         \/ Rank(c) = Rank(g.top) /\ Rank(g.top) \notin Wilds
HasPlayable(g, p) == \E c \in g.hands[p] : Playable(g, c)

Swapped(g, p, t) == [g EXCEPT !.hands[p] = g.hands[t], !.hands[t] = g.hands[p]]
\* _rotate_all_hands, as often as n says.
Rotated(g, n) ==
    [g EXCEPT !.hands = [p \in Players |->
        IF p \in Seated(g) THEN g.hands[Seats[Shift(g.opt.seats, SeatOf(g, p), -(g.dir * n))]]
        ELSE {}]]

\* _end_round and _end_round_deadlock: hands are cleared; the game may be over.
EndRound(g) ==
    LET h == [g EXCEPT !.hands = [p \in Players |-> {}]]
    IN  {[h EXCEPT !.handWait = TRUE], [h EXCEPT !.over = TRUE]}
-----------------------------------------------------------------------------
(* Turns.                                                                  *)

Skip(g, n) == [g EXCEPT !.skips = @ + n]
\* advance_turn
Move(g) ==
    [g EXCEPT !.turn = Shift(g.opt.seats, @, g.dir * (g.skips + 1)), !.skips = 0]

\* _start_turn and _force_draw_pending: who cannot stack draws the debt, and the turn
\* moves on, past the next player.
Fresh(g) == [g EXCEPT !.drawn = FALSE, !.draws = 0, !.jumped = FALSE]
\* Mutant of StartTurn: whoever has the turn is asked, able to stack or not.
StartTurn_AsksAnyone(g) == {Fresh(g)}
StartTurn(g) ==
    IF g.pending = 0 \/ CanStack(g, Current(g)) THEN {Fresh(g)}
    ELSE {Fresh(Move(Skip([d EXCEPT !.pending = 0, !.plus4 = FALSE], 1))) :
             d \in Drawn(g, Current(g), g.pending)}
Advance(g) == StartTurn(Move(g))

\* _apply_card_effects_and_advance and its like in _do_play_multiple, for n cards.
Debt(g, n, plus4) == [g EXCEPT !.pending = @ + n, !.plus4 = plus4]
Charged(g, n, plus4) ==
    IF g.opt.stacking # "off" THEN {Debt(g, n, plus4)}
    ELSE {Skip(d, 1) : d \in Drawn(g, NextPlayer(g), n)}
Struck(g, rank, n) ==
    CASE rank = "skip"    -> {Skip(g, n)}
      [] rank = "reverse" -> {IF g.opt.seats = 2 /\ g.opt.reverseSkips THEN Skip(g, n)
                              ELSE [g EXCEPT !.dir = IF n % 2 = 0 THEN @ ELSE -@]}
      [] rank = "draw2"   -> Charged(g, 2 * n, FALSE)
      [] rank = "wild4"   -> Charged(g, 4, TRUE)
      [] rank = "seven" /\ g.opt.swap /\ g.opt.seats = 2
                          -> {Swapped(g, Current(g), NextPlayer(g))}
      [] rank = "zero" /\ g.opt.rotate -> {Rotated(g, n)}
      [] OTHER            -> {g}
Effects(g, rank, n) ==
    IF rank = "skip" /\ g.opt.skipAll THEN StartTurn(g)
    ELSE IF rank = "seven" /\ g.opt.swap /\ g.opt.seats > 2
         THEN {[g EXCEPT !.swapper = Current(g)]}
    ELSE IF g.opt.jumpIn /\ ~g.jumped
         THEN {[h EXCEPT !.phase = "jump_in_window"] : h \in Struck(g, rank, n)}
    ELSE UNION {Advance(h) : h \in Struck(g, rank, n)}

Callout(g, p, wd4, matching) ==
    [g EXCEPT !.phase = "last_card_callout", !.target = p, !.wd4 = wd4,
              !.matching = matching]
\* _start_wd4_challenge
WD4Window(g, p, matching) ==
    [g EXCEPT !.phase = "challenge_wd4", !.target = p, !.wd4 = p, !.matching = matching]

\* _check_last_card_and_advance
Check(g, p, matching) ==
    LET rank == Rank(g.top)
        wd4 == IF rank = "wild4" THEN p ELSE None
    IN  IF g.hands[p] = {} THEN EndRound(g)
        ELSE IF g.opt.callout /\ Cardinality(g.hands[p]) = 1
             THEN {Callout(g, p, wd4, matching)}
        ELSE IF rank = "wild4" /\ g.opt.challenge THEN {WD4Window(g, p, matching)}
        ELSE Effects(g, rank, 1)

\* What playing the cards in S does first, last on top.
Laid(g, p, S, last) ==
    [g EXCEPT !.hands[p] = @ \ S, !.pile = @ \cup {g.top} \cup (S \ {last}), !.top = last,
              !.drawn = FALSE, !.draws = 0, !.passes = 0, !.plays = @ + 1]

\* _do_play_card: a wild card asks for its colour first, unless it was the last.
PlayOne(g, p, c) ==
    LET h == Laid(g, p, {c}, c)
        matching == Rank(c) = "wild4" /\ \E d \in h.hands[p] : Color(d) = g.color
    IN  IF Rank(c) \notin Wilds THEN Check([h EXCEPT !.color = Color(c)], p, FALSE)
        ELSE IF h.hands[p] = {} THEN Check(h, p, matching)
        ELSE {[h EXCEPT !.asking = TRUE, !.wd4 = p, !.matching = matching]}

\* _do_play_multiple
PlayMany(g, p, S, last) ==
    LET h == [Laid(g, p, S, last) EXCEPT !.color = Color(last)]
    IN  IF h.hands[p] = {} THEN EndRound(h)
        ELSE IF g.opt.callout /\ Cardinality(h.hands[p]) = 1
             THEN {Callout(h, p, None, FALSE)}
        ELSE Effects(h, Rank(last), Cardinality(S))

\* _resolve_interrupt: the window closes; what it held up goes on.
TakeFour(g) == UNION {Advance(Skip(d, 1)) : d \in Drawn(g, NextPlayer(g), 4)}
Resolve(g) ==
    LET h == [g EXCEPT !.phase = ""]
    IN  CASE g.phase = "last_card_callout" ->
                IF Rank(g.top) = "wild4" /\ g.opt.challenge
                THEN {WD4Window(h, IF g.wd4 = None THEN g.target ELSE g.wd4, g.matching)}
                ELSE Effects(h, Rank(g.top), 1)
          [] g.phase = "challenge_wd4"  -> TakeFour(h)
          [] g.phase = "jump_in_window" -> Advance(h)
-----------------------------------------------------------------------------
(* Keys.                                                                   *)

\* Whose turn it is may play, draw or pass, also while a chosen colour is shown.
Turn(p) ==
    /\ ~game.over /\ ~game.handWait /\ p = Current(game)
    /\ ~game.asking /\ game.swapper = None /\ game.phase = ""
Acting == [game EXCEPT !.hasty = @ \/ game.colorWait]

\* _action_play_card and _action_play_selected
Play(p, c) ==
    /\ Turn(p) /\ c \in game.hands[p] /\ Playable(game, c) /\ game.plays < game.opt.plays
    /\ game' \in PlayOne(Acting, p, c)
PlaySelected(p, S, last) ==
    /\ Turn(p) /\ game.opt.multiple /\ S \subseteq game.hands[p] /\ last \in S
    /\ \A c \in S : Rank(c) = Rank(last) /\ Rank(c) \notin Wilds
    /\ \E lead \in S \ {last} : Playable(game, lead)
    /\ game.plays < game.opt.plays
    /\ game' \in PlayMany(Acting, p, S, last)

\* _can_draw
CanDraw(p) ==
    /\ game.opt.maxHand > 0 => Cardinality(game.hands[p]) < game.opt.maxHand
    /\ HasPlayable(game, p) => game.opt.untilPlayable /\ ~game.opt.forcePlay
    /\ game.opt.untilPlayable /\ game.opt.drawLimit > 0 => game.draws < game.opt.drawLimit
    /\ ~game.drawn /\ ~Exhausted(game)
\* _action_draw: who draws until a card can be played has drawn when one can, or when
\* a limit is reached.
Draw(p) ==
    /\ Turn(p) /\ CanDraw(p)
    /\ \E g \in Drawn(Acting, p, 1) :
          LET playable == \E c \in g.hands[p] \ game.hands[p] : Playable(game, c)
              draws == IF g.opt.drawLimit = 0 THEN 0 ELSE g.draws + 1
              full == \/ g.opt.drawLimit > 0 /\ draws >= g.opt.drawLimit
                      \/ g.opt.maxHand > 0 /\ Cardinality(g.hands[p]) >= g.opt.maxHand
          IN  game' = [g EXCEPT !.drawn = playable \/ full \/ ~g.opt.untilPlayable,
                                !.draws = draws, !.passes = 0]

\* _is_pass_enabled and _action_pass: when all have passed and no card is left to
\* draw, the round is over.
MayPass(p) ==
    /\ Turn(p) /\ (game.drawn \/ ~CanDraw(p))
    /\ game.opt.forcePlay => ~HasPlayable(game, p)
Pass(p) ==
    /\ MayPass(p)
    /\ LET g == [Acting EXCEPT !.drawn = FALSE, !.draws = 0,
                               !.passes = Min({@ + 1, game.opt.seats})]
       IN  game' \in IF g.passes = game.opt.seats /\ Exhausted(g) THEN EndRound(g)
                     ELSE Advance(g)

\* _action_choose_color: shown for a moment before the game goes on.
ChooseColor(p, color) ==
    /\ ~game.over /\ ~game.handWait /\ game.asking /\ p = Current(game)
    /\ game' = [game EXCEPT !.color = color, !.asking = FALSE, !.colorWait = TRUE]

\* _action_buzzer: who has one card calls it, or is caught and draws two.
Buzz(p) ==
    /\ ~game.over /\ game.opt.buzzer /\ game.phase = "last_card_callout"
    /\ IF p = game.target THEN game' \in Resolve(game)
       ELSE \E g \in Drawn(game, game.target, 2) : game' \in Resolve(g)

\* _action_challenge_wd4: four cards for who had the colour, or six for who asked.
ChallengeWD4(p) ==
    /\ ~game.over /\ game.phase = "challenge_wd4" /\ p = NextPlayer(game)
    /\ LET h == [game EXCEPT !.phase = ""]
       IN  IF game.matching
           THEN \E g \in Drawn([h EXCEPT !.pending = 0], game.wd4, 4) : game' \in Advance(g)
           ELSE \E g \in Drawn(h, p, 6) : game' \in Advance(Skip(g, 1))
AcceptDraw(p) ==
    /\ ~game.over /\ game.phase = "challenge_wd4" /\ p = NextPlayer(game)
    /\ game' \in TakeFour([game EXCEPT !.phase = ""])

\* _action_jump_in: the same card takes the turn.
JumpIn(p, c) ==
    /\ ~game.over /\ game.phase = "jump_in_window" /\ p # Current(game)
    /\ game.plays < game.opt.plays
    /\ c \in game.hands[p] /\ Pack[c] = Pack[game.top]
    /\ game' \in PlayOne([game EXCEPT !.phase = "", !.jumped = TRUE,
                                     !.turn = SeatOf(game, p)], p, c)

\* _action_swap_target
SwapTarget(p, t) ==
    /\ ~game.over /\ p = game.swapper /\ t \in Seated(game) \ {p}
    /\ game' \in Advance([Swapped(game, p, t) EXCEPT !.swapper = None])
-----------------------------------------------------------------------------
(* on_tick: the first of these that is due.                                *)

\* _post_play_advance
ColorShown ==
    /\ ~game.over /\ game.colorWait
    /\ LET p == IF game.wd4 = None THEN Current(game) ELSE game.wd4
       IN  game' \in Check([game EXCEPT !.colorWait = FALSE], p, game.matching)
NewHand ==
    /\ ~game.over /\ ~game.colorWait /\ game.handWait
    /\ game' \in NewDeal(game.opt, game.dealer)
CloseWindow ==
    /\ ~game.over /\ ~game.colorWait /\ ~game.handWait /\ game.phase # ""
    /\ game' \in Resolve(game)
-----------------------------------------------------------------------------
Tick == ColorShown \/ NewHand \/ CloseWindow
Key(p) ==
    \/ \E c \in game.hands[p] : Play(p, c) \/ JumpIn(p, c)
    \/ \E S \in SUBSET game.hands[p] : \E last \in S : PlaySelected(p, S, last)
    \/ Draw(p) \/ Pass(p) \/ Buzz(p) \/ ChallengeWD4(p) \/ AcceptDraw(p)
    \/ \E color \in Colors : ChooseColor(p, color)
    \/ \E t \in Players : SwapTarget(p, t)
Next == Tick \/ \E p \in Seated(game) : Key(p)

Spec == Init /\ [][Next]_game
\* The tick never stops; nobody has to press a key.
FairSpec == Spec /\ WF_game(Tick)
-----------------------------------------------------------------------------
(* Properties.                                                             *)

\* The cards of a deal, or of a game without its pile.
Held(d) == d.deck \cup {d.top} \cup UNION {d.hands[p] : p \in Players}
\* No card is in two places.
Apart(d) ==
    /\ d.deck \cap d.pile = {} /\ d.top \notin d.deck \cup d.pile
    /\ \A p \in Players : /\ d.hands[p] \cap (d.deck \cup d.pile \cup {d.top}) = {}
                          /\ \A q \in Players \ {p} : d.hands[p] \cap d.hands[q] = {}
\* While a hand is played every card dealt is in one place: no draw, reshuffle, swap or
\* rotation of hands loses or copies one.
CardsKept ==
    ~game.handWait /\ ~game.over =>
        /\ Apart(game)
        /\ \A d \in Deals(game.opt) : Held(game) \cup game.pile = Held(d)

\* Whoever must move can move: a debt of cards on an ordinary turn is one the player can
\* pass on, and there is a key that is enabled.  Unless somebody was hasty in this hand,
\* nobody is left to be skipped then; who is called out has just played and has one
\* card; who is challenged has just played the card; and who is to swap hands or to
\* name a colour has the turn.
TurnSound ==
    ~game.over /\ ~game.handWait =>
        LET p == Current(game)
            ordinary == Turn(p) /\ ~game.colorWait
        IN  /\ ordinary => /\ game.pending > 0 => CanStack(game, p)
                           /\ HasPlayable(game, p) \/ CanDraw(p) \/ MayPass(p)
            /\ ~game.hasty =>
                  /\ ordinary => game.skips = 0
                  /\ game.phase = "last_card_callout" =>
                        game.target = p /\ Cardinality(game.hands[p]) = 1
                  /\ game.swapper # None => game.swapper = p /\ game.phase = ""
                  /\ game.asking \/ game.colorWait => game.wd4 = p /\ Rank(game.top) \in Wilds
                  /\ game.phase = "challenge_wd4" => game.wd4 = p /\ Rank(game.top) = "wild4"

\* Windows and pauses end without anybody pressing a key.
WindowOpen == ~game.over /\ (game.phase # "" \/ game.handWait \/ game.colorWait)
WindowCloses == WindowOpen ~> ~WindowOpen
=============================================================================
