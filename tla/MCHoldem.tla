------------------------------ MODULE MCHoldem ------------------------------
EXTENDS Holdem
CONSTANTS a, b, c
MCPlayers == {a, b, c}
MCSeats == <<a, b, c>>
=============================================================================
