------------------------------- MODULE MCSeats -------------------------------
(***************************************************************************)
(* Instances of Seats for TLC.  In the scenario "lobby" three users and a  *)
(* bot share one table, which each joins once; people may watch, and the   *)
(* running game is in the snapshots.  In "tables" two users create, join,  *)
(* save and restore across all tables.                                     *)
(***************************************************************************)
EXTENDS Seats, TLC

CONSTANTS t1, t2, t3
VARIABLE scenario

TableOrder == <<t1, t2, t3>>

\* Table ids are used in this order.
InOrder == \A i \in DOMAIN TableOrder :
    i > 1 /\ tstate'[TableOrder[i]] # "unused" => tstate'[TableOrder[i - 1]] # "unused"

LobbyBound ==
    /\ \A u \in Users : joins'[u] <= 1
    /\ Cardinality({t \in Tables : tstate'[t] # "unused"}) <= 1
    /\ \A t \in Tables : row'[t] \notin {row[t], None} => row'[t].status = "playing"
TablesBound ==
    /\ Cardinality({u \in Users : presence'[u] # "offline" \/ joins'[u] > 0}) <= 2
    /\ \A t \in Tables : \A p \in DOMAIN players'[t] :
          ~players'[t][p].spec /\ players'[t][p].id \in Users
MCInit == Init /\ scenario \in {"lobby", "tables"}
MCNext ==
    /\ Next /\ InOrder /\ UNCHANGED scenario
    /\ IF scenario = "lobby" THEN LobbyBound ELSE TablesBound
MCSpec == MCInit /\ [][MCNext]_<<vars, scenario>>

\* Users are interchangeable.
SeatSymmetry == Permutations(Users)
=============================================================================
