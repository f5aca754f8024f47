-------------------------------- MODULE Games --------------------------------
(***************************************************************************)
(* The games side by side, as the tables of a server: each has its own     *)
(* state, and no step of one touches another.  `playing` says which of     *)
(* them goes on; the others stay as they are dealt.                        *)
(***************************************************************************)
EXTENDS Integers, Sequences

CONSTANTS
    Everybody, Seats, None,
    Bots, Stack, Small, Big, Ante, RaiseMode, MaxRaises, Amounts,   \* Holdem
    MaxHands, MaxSettled,
    Start, CoupCost, MurderCost, Threshold, Aid, Tax, Loot,         \* Coup
    CourtCards, StartBots, Leaving, MaxSwaps,
    Hand0, Deck0,                                                   \* Kittens
    Pack, Dealings, Colors,                                         \* LastCard
    HandSize, MaxClaim, Chambers, Good, Bad                         \* DeadMansDeck

VARIABLES
    playing,
    hGame, hPaid, hSettled, hSkewed,        \* Holdem
    cGame, cBots, cSwaps, cHalfway,         \* Coup
    deck, hand, alive, turn, phase, pending, kitten,        \* Kittens
    lGame,                                  \* LastCard
    dPhase, dHands, dEliminated, dBullet, dChamber, dTurn, dClaim, dStarter, dPenalty,
    dActive, dOver                          \* DeadMansDeck

holdemVars == <<hGame, hPaid, hSettled, hSkewed>>
coupVars == <<cGame, cBots, cSwaps, cHalfway>>
kittenVars == <<deck, hand, alive, turn, phase, pending, kitten>>
deckVars == <<dPhase, dHands, dEliminated, dBullet, dChamber, dTurn, dClaim, dStarter, dPenalty,
              dActive, dOver>>
allVars == <<playing, holdemVars, coupVars, kittenVars, lGame, deckVars>>

Holdem == INSTANCE Holdem WITH
    Players <- Everybody, game <- hGame, paid <- hPaid, settled <- hSettled, skewed <- hSkewed
Coup == INSTANCE Coup WITH
    Players <- Everybody, Cards <- CourtCards, game <- cGame, bots <- cBots, swaps <- cSwaps,
    halfway <- cHalfway
Kittens == INSTANCE Kittens
LastCard == INSTANCE LastCard WITH game <- lGame
Deck == INSTANCE DeadMansDeck WITH
    phase <- dPhase, hands <- dHands, eliminated <- dEliminated, bullet <- dBullet,
    chamber <- dChamber, turn <- dTurn, claim <- dClaim, starter <- dStarter,
    penalty <- dPenalty, active <- dActive, over <- dOver
-----------------------------------------------------------------------------
HoldemStep ==
    playing = "holdem" /\ Holdem!Next /\ UNCHANGED <<coupVars, kittenVars, lGame, deckVars>>
CoupStep == playing = "coup" /\ Coup!Next /\ UNCHANGED <<holdemVars, kittenVars, lGame, deckVars>>
KittensStep ==
    playing = "kittens" /\ Kittens!Next /\ UNCHANGED <<holdemVars, coupVars, lGame, deckVars>>
LastCardStep ==
    /\ playing = "lastcard" /\ LastCard!Next
    /\ UNCHANGED <<holdemVars, coupVars, kittenVars, deckVars>>
DeckStep == playing = "deck" /\ Deck!Next /\ UNCHANGED <<holdemVars, coupVars, kittenVars, lGame>>

Init == /\ playing \in {"holdem", "coup", "kittens", "lastcard", "deck"}
        /\ Holdem!Init /\ Coup!Init /\ Kittens!Init /\ LastCard!Init /\ Deck!Init
Next == UNCHANGED playing /\ (HoldemStep \/ CoupStep \/ KittensStep \/ LastCardStep \/ DeckStep)
Fairness ==
    /\ WF_holdemVars(playing = "holdem" /\ Holdem!TimeUp)
    /\ WF_holdemVars(playing = "holdem" /\ Holdem!BotActs)
    /\ WF_holdemVars(playing = "holdem" /\ Holdem!Reveal)
    /\ WF_coupVars(playing = "coup" /\ Coup!Tick)
    /\ WF_kittenVars(playing = "kittens" /\ Kittens!Tick)
    /\ WF_lGame(playing = "lastcard" /\ LastCard!Tick)
    /\ WF_deckVars(playing = "deck" /\ Deck!Tick)
Spec == Init /\ [][Next]_allVars /\ Fairness

TypeOK == /\ playing = "holdem" => Holdem!TypeOK
          /\ playing = "coup" => Coup!TypeOK
          /\ playing = "kittens" => Kittens!TypeOK
          /\ playing = "lastcard" => LastCard!TypeOK
          /\ playing = "deck" => Deck!TypeOK
HandSound == playing = "holdem" => Holdem!HandSound
ChipsRight == Holdem!ChipsRight
NeverFrozen == /\ playing = "coup" => Coup!NeverFrozen
               /\ playing = "deck" => Deck!NeverStuck
StakesKept == /\ playing = "coup" => Coup!StakesKept
              /\ playing = "deck" => Deck!RevolversTrue
KittensMatch == Kittens!KittensMatch
NothingToRepair == Kittens!NothingToRepair
CardsKept == LastCard!CardsKept
TurnSound == LastCard!TurnSound
\* What a game waits for comes, or its timer runs out: a claim, a played card and a window to
\* interrupt are settled, a sequence that locks the keys ends, and a hand of poker ends,
\* or without a turn timer (the default) at least gets to a person's turn.
Waiting == \/ playing = "holdem" /\ Holdem!Undecided
           \/ playing = "coup" /\ Coup!ClaimOpen
           \/ playing = "kittens" /\ Kittens!Unsettled
           \/ playing = "lastcard" /\ LastCard!WindowOpen
           \/ playing = "deck" /\ Deck!Locked
Settles == Waiting ~> ~Waiting
=============================================================================
