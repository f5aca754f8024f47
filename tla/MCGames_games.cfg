CONSTANTS
    a = a
    b = b
    c = c
    None = None
    Everybody <- Three
    Seats <- Order
\* Holdem: two people and a bot; four chips, so that blinds and raises put players all in.
    Bots <- Robots
    Stack = 4
    Small = 1
    Big = 2
    Ante = 0
    RaiseMode = "no_limit"
    MaxRaises = 0
    Amounts = {2}
    MaxHands = 2
    MaxSettled = 1
\* Coup: prices and incomes are scaled down; a player with two coins has to coup.
    Start = 2
    CoupCost = 2
    MurderCost = 1
    Threshold = 2
    Aid = 1
    Tax = 1
    Loot = 1
    CourtCards = 8
    StartBots <- Robots
    Leaving = {a}
    MaxSwaps = 1
\* Kittens
    Hand0 <- Dealt
    Deck0 <- Left
\* LastCard
    Pack <- Twelve
    Dealings <- FewDealings
    Colors = {"red", "blue"}
\* DeadMansDeck: two cards each and revolvers of two chambers.
    HandSize = 2
    MaxClaim = 2
    Chambers = 2
    Good = 3
    Bad = 3
SPECIFICATION MCSpec
\* A game ends.
CHECK_DEADLOCK FALSE
INVARIANTS TypeOK HandSound NeverFrozen StakesKept KittensMatch NothingToRepair CardsKept TurnSound
PROPERTIES ChipsRight Settles
