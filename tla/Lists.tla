-------------------------------- MODULE Lists --------------------------------
(***************************************************************************)
(* Lists from which the server takes entries out: game.players, which is a *)
(* Python list, and AuthManager._sessions, a dict in order of insertion;   *)
(* and sums over lists.                                                    *)
(***************************************************************************)
EXTENDS Integers, FiniteSets, Sequences

\* The entries at the positions kept, in their order.
Keeping(s, kept) ==
    LET Rank(i) == Cardinality({j \in kept : j <= i})
    IN  [k \in 1..Cardinality(kept) |-> s[CHOOSE i \in kept : Rank(i) = k]]

\* f[1] + ... + f[n]: Python's sum.
SumTo(f, n) ==
    LET upTo[i \in 0..n] == IF i = 0 THEN 0 ELSE upTo[i - 1] + f[i]
    IN  upTo[n]
=============================================================================
