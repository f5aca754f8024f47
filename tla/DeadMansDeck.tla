----------------------------- MODULE DeadMansDeck -----------------------------
(***************************************************************************)
(* Dead Man's Deck (server/games/deadmansdeck/game.py): players lay cards  *)
(* face down and claim a rank, the next one may call them a liar, and who  *)
(* was wrong pulls a trigger.  Everything between two turns is played by   *)
(* sequences: each hands over to the next in its last callback, and the    *)
(* keys are locked meanwhile.                                              *)
(*                                                                         *)
(* A hand is two numbers: cards of the rank asked for (jokers included)    *)
(* and others.  The order of turns is drawn once, in the first round, and  *)
(* later rounds only leave out the dead and start elsewhere: it is Seats.  *)
(* Left out: which cards are toggled, statistics, what bots choose.        *)
(***************************************************************************)
EXTENDS Integers, Sequences, FiniteSets, FiniteSetsExt, SequenceRunner

CONSTANTS
    Seats,      \* who plays, in the order of turns
    HandSize, MaxClaim, Chambers,
    Good, Bad,  \* cards of the deck that are of a rank or jokers, and others
    None

Players == {Seats[i] : i \in DOMAIN Seats}
Names == {"preparation", "round_start", "claim", "challenge", "roulette", "game_over"}
Phases == {"preparing", "round_start", "playing", "claim", "challenge", "roulette",
           "game_over"}

VARIABLES
    phase,
    hands,      \* player -> cards in hand
    eliminated, \* the players who are dead
    bullet,     \* player -> bullet_position
    chamber,    \* player -> chamber_index
    turn,       \* current_player
    claim,      \* last_claim: by whom, and whether it is true
    starter,    \* next_round_starter_id
    penalty,    \* pending_penalty_player_id
    active,     \* active_sequences
    over        \* finish_game has run

vars == <<phase, hands, eliminated, bullet, chamber, turn, claim, starter, penalty, active, over>>

Hands == [good : 0..HandSize, bad : 0..HandSize]
TypeOK ==
    /\ phase \in Phases /\ over \in BOOLEAN
    /\ hands \in [Players -> Hands] /\ eliminated \subseteq Players
    /\ bullet \in [Players -> 0..Chambers - 1] /\ chamber \in [Players -> 0..Chambers]
    /\ turn \in Players \cup {None}
    /\ claim \in [by : Players, true : BOOLEAN] \cup {None}
    /\ starter \in Players \cup {None} /\ penalty \in Players \cup {None}
    /\ active \in [Names -> Seq(STRING)]

Alive == Players \ eliminated
NoCards == [good |-> 0, bad |-> 0]
Empty(h) == h = NoCards
Holders(held) == {p \in Alive : ~Empty(held[p])}
Seat(p) == CHOOSE i \in DOMAIN Seats : Seats[i] = p
\* How many seats q is after p, and who of S comes first from p on.
Distance(p, q) == Seat(q) - Seat(p) + (IF Seat(q) < Seat(p) THEN Len(Seats) ELSE 0)
First(p, S) == CHOOSE q \in S : \A r \in S : Distance(p, q) <= Distance(p, r)
After(p) == Seats[IF Seat(p) = Len(Seats) THEN 1 ELSE Seat(p) + 1]

\* on_start and _start_preparation_sequence
Init ==
    /\ phase = "preparing" /\ hands = [p \in Players |-> NoCards] /\ eliminated = {}
    /\ bullet \in [Players -> 0..Chambers - 1] /\ chamber = [p \in Players |-> 0]
    /\ turn = None /\ claim = None /\ starter = None /\ penalty = None /\ over = FALSE
    /\ active = Started(Idle(Names), "preparation", <<"finish_preparation">>)
-----------------------------------------------------------------------------
(* What the callbacks call.  `name` is the sequence whose beat called.     *)

\* _start_game_over_sequence
GameOver(name) ==
    /\ phase' = "game_over"
    /\ active' = Played(Started(Cancelled(active, Names \ {"preparation"}), "game_over",
                                <<"finish_game">>), name)
    /\ UNCHANGED <<hands, turn, claim, starter, penalty>>

\* _start_round, _round_order: who lost the last challenge begins, or the next alive.
StartRound(name) ==
    IF Cardinality(Alive) <= 1 THEN GameOver(name)
    ELSE /\ phase' = "round_start" /\ claim' = None /\ penalty' = None /\ starter' = None
         /\ hands' = [p \in Players |-> IF p \in Alive THEN NoCards ELSE hands[p]]
         /\ IF starter = None THEN turn' \in Alive ELSE turn' = First(starter, Alive)
         /\ active' = Played(Started(active, "round_start", <<"announce_round_start">>), name)

\* _start_challenge_sequence, in whatever is left of `sequences`.
Challenge(challenger, sequences) ==
    /\ penalty' = IF claim.true THEN challenger ELSE claim.by
    /\ phase' = "challenge"
    /\ active' = Started(sequences, "challenge", <<"finish_challenge">>)

\* Mutant of Forced: somebody must call only when nobody has cards left.
Forced_AllEmpty(p) ==
    IF claim = None \/ Cardinality(Alive) < 2 \/ Holders(hands) # {} THEN None
    ELSE First(p, Alive \ {claim.by})
\* _forced_challenger: when at most one player has cards left, somebody must call.
Forced(p) ==
    LET holders == Holders(hands)
    IN  IF claim = None \/ Cardinality(Alive) < 2 \/ Cardinality(holders) > 1 THEN None
        ELSE IF holders \ {claim.by} # {} THEN CHOOSE q \in holders : TRUE
        ELSE First(p, Alive \ {claim.by})

\* _advance_after_claim and _start_turn: the turn passes to the next player alive who
\* has cards, if nobody is forced to call.
NextTurn(name) ==
    LET forced == Forced(turn)
    IN  IF forced # None
        THEN /\ turn' = forced /\ Challenge(forced, Played(active, name))
             /\ UNCHANGED <<hands, claim, starter>>
        ELSE IF Holders(hands) # {}
        THEN /\ turn' = First(After(turn), Holders(hands))
             /\ phase' = "playing" /\ active' = Played(active, name)
             /\ UNCHANGED <<hands, claim, starter, penalty>>
        ELSE StartRound(name)
-----------------------------------------------------------------------------
(* Keys of the player whose turn it is, people or bots.                    *)

\* _is_current_player_action_enabled
MayAct(p) == phase = "playing" /\ Running(active) = {} /\ p = turn /\ p \in Alive
\* _action_play_selected
PlaySelected(p) ==
    /\ MayAct(p)
    /\ \E good \in 0..hands[p].good, bad \in 0..hands[p].bad :
          /\ good + bad \in 1..MaxClaim
          /\ hands' = [hands EXCEPT ![p] = [good |-> @.good - good, bad |-> @.bad - bad]]
          /\ claim' = [by |-> p, true |-> bad = 0]
    /\ phase' = "claim" /\ active' = Started(active, "claim", <<"finish_claim">>)
    /\ UNCHANGED <<eliminated, bullet, chamber, turn, starter, penalty, over>>
\* _action_call_liar
CallLiar(p) ==
    /\ MayAct(p) /\ claim # None /\ claim.by # p
    /\ Challenge(p, active)
    /\ UNCHANGED <<hands, eliminated, bullet, chamber, turn, claim, starter, over>>
-----------------------------------------------------------------------------
(* on_sequence_callback                                                    *)

Prepared ==
    /\ Due(active, "preparation", "finish_preparation")
    /\ StartRound("preparation")
    /\ UNCHANGED <<eliminated, bullet, chamber, over>>

\* _announce_round_start, _deal_round_hands: everybody alive gets as many cards.
RoundStarts ==
    /\ Due(active, "round_start", "announce_round_start")
    /\ \E dealt \in [Alive -> 0..HandSize] :
          /\ FoldSet(LAMBDA p, n : n + dealt[p], 0, Alive) <= Good
          /\ FoldSet(LAMBDA p, n : n + HandSize - dealt[p], 0, Alive) <= Bad
          /\ hands' = [p \in Players |-> IF p \in Alive
                          THEN [good |-> dealt[p], bad |-> HandSize - dealt[p]] ELSE hands[p]]
    /\ phase' = "playing" /\ active' = Played(active, "round_start")
    /\ UNCHANGED <<eliminated, bullet, chamber, turn, claim, starter, penalty, over>>

ClaimTold ==
    /\ Due(active, "claim", "finish_claim")
    /\ NextTurn("claim")
    /\ UNCHANGED <<eliminated, bullet, chamber, over>>

\* _finish_challenge and _start_roulette_sequence
ChallengeLost ==
    /\ Due(active, "challenge", "finish_challenge")
    /\ claim' = None /\ starter' = penalty /\ phase' = "roulette"
    /\ active' = Played(Started(active, "roulette",
                     IF chamber[penalty] = bullet[penalty]
                     THEN <<"announce_roulette_elimination", "finish_roulette_elimination">>
                     ELSE <<"announce_roulette_survival", "finish_roulette_survival">>), "challenge")
    /\ UNCHANGED <<hands, eliminated, bullet, chamber, turn, penalty, over>>

Survived ==
    /\ Due(active, "roulette", "announce_roulette_survival")
    /\ chamber' = [chamber EXCEPT ![penalty] = @ + 1]
    /\ active' = Played(active, "roulette")
    /\ UNCHANGED <<phase, hands, eliminated, bullet, turn, claim, starter, penalty, over>>
Shot ==
    /\ Due(active, "roulette", "announce_roulette_elimination")
    /\ eliminated' = eliminated \cup {penalty} /\ hands' = [hands EXCEPT ![penalty] = NoCards]
    /\ active' = Played(active, "roulette")
    /\ UNCHANGED <<phase, bullet, chamber, turn, claim, starter, penalty, over>>
RouletteOver ==
    /\ \E callback \in {"finish_roulette_survival", "finish_roulette_elimination"} :
          Due(active, "roulette", callback)
    /\ StartRound("roulette")
    /\ UNCHANGED <<eliminated, bullet, chamber, over>>
GameEnds ==
    /\ Due(active, "game_over", "finish_game")
    /\ over' = TRUE /\ active' = Played(active, "game_over")
    /\ UNCHANGED <<phase, hands, eliminated, bullet, chamber, turn, claim, starter, penalty>>
-----------------------------------------------------------------------------
Tick == Prepared \/ RoundStarts \/ ClaimTold \/ ChallengeLost \/ Survived \/ Shot
        \/ RouletteOver \/ GameEnds
Next == Tick \/ \E p \in Players : PlaySelected(p) \/ CallLiar(p)
Spec == Init /\ [][Next]_vars
\* The tick never stops; nobody has to press a key.
FairSpec == Spec /\ WF_vars(Tick)
-----------------------------------------------------------------------------
(* Properties.                                                             *)

Follows(name, last) == Running(active) = {name} /\ active[name][Len(active[name])] = last
\* The game is never stuck: one sequence runs in every phase but the turns, and it ends
\* the phase; on a turn none does, and whoever has it is alive, has cards to play and
\* need not answer his own claim.
NeverStuck ==
    /\ phase = "playing" =>
          /\ Running(active) = {} /\ turn \in Holders(hands)
          /\ claim # None => claim.by # turn
    /\ phase = "preparing" => Follows("preparation", "finish_preparation")
    /\ phase = "round_start" => Follows("round_start", "announce_round_start")
    /\ phase = "claim" => Follows("claim", "finish_claim")
    /\ phase = "challenge" => Follows("challenge", "finish_challenge")
    /\ phase = "roulette" => \/ Follows("roulette", "finish_roulette_survival")
                             \/ Follows("roulette", "finish_roulette_elimination")
    /\ phase = "game_over" /\ ~over => Follows("game_over", "finish_game")

\* Nobody survives the chamber with the bullet or dies of another; of those who play
\* on there are two, until the game is over and one is left.
RevolversTrue ==
    /\ \A p \in Players : chamber[p] <= bullet[p]
    /\ \A p \in eliminated : chamber[p] = bullet[p] /\ Empty(hands[p])
    /\ Alive # {} /\ (phase \notin {"roulette", "game_over"} => Cardinality(Alive) > 1)
    /\ phase = "game_over" => Cardinality(Alive) = 1

\* The keys are locked for a time only.
Locked == Running(active) # {}
KeysUnlocked == Locked ~> ~Locked
=============================================================================
