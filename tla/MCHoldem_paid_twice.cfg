SPECIFICATION Spec
CONSTANTS
    a = a
    b = b
    c = c
    Players <- MCPlayers
    Seats <- MCSeats
    Bots = {c}
    Stack = 4
    Small = 1
    Big = 2
    Ante = 0
    RaiseMode = "no_limit"
    MaxRaises = 0
    Amounts = {2}
    MaxHands = 2
    MaxSettled = 2
INVARIANT PotPaidOnce

CHECK_DEADLOCK FALSE
