--------------------------- MODULE AccountSession ---------------------------
(***************************************************************************)
(* What the session layer promises, whatever handlers, locks and grace     *)
(* periods it is made of: an account is owned by at most one connection;   *)
(* it is handed to another connection only once the owner's socket is      *)
(* shut, and given up only then; and a connection that has lost an account *)
(* owns none ever after.  The takeover and grace-period code of            *)
(* server/core/server.py (module Sessions) implements this.                *)
(***************************************************************************)
CONSTANTS Conns, Accounts, Nobody

VARIABLES
    owner,      \* account -> the connection its session is bound to
    shut,       \* connections whose socket is closed
    lost        \* connections that have owned an account and do not any more

abstractVars == <<owner, shut, lost>>

AbstractInit ==
    /\ owner = [u \in Accounts |-> Nobody]
    /\ shut = {}
    /\ lost = {}

Unbound(c) == c \notin lost /\ \A u \in Accounts : owner[u] # c

\* A connection starts a session on an account nobody owns.
Open(u, c) ==
    /\ owner[u] = Nobody
    /\ Unbound(c)
    /\ owner' = [owner EXCEPT ![u] = c]
    /\ UNCHANGED <<shut, lost>>

\* A session passes from a connection that is shut to a new one.
Handover(u, c) ==
    /\ owner[u] \in shut
    /\ Unbound(c)
    /\ owner' = [owner EXCEPT ![u] = c]
    /\ lost' = lost \cup {owner[u]}
    /\ UNCHANGED shut

\* A session whose connection is shut ends.
Release(u) ==
    /\ owner[u] \in shut
    /\ owner' = [owner EXCEPT ![u] = Nobody]
    /\ lost' = lost \cup {owner[u]}
    /\ UNCHANGED shut

Shut(c) ==
    /\ shut' = shut \cup {c}
    /\ UNCHANGED <<owner, lost>>

AbstractNext ==
    \/ \E u \in Accounts : Release(u)
    \/ \E c \in Conns : Shut(c)
    \/ \E u \in Accounts, c \in Conns : Open(u, c) \/ Handover(u, c)

AbstractSpec == AbstractInit /\ [][AbstractNext]_abstractVars
=============================================================================
