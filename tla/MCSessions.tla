------------------------------ MODULE MCSessions ------------------------------
(***************************************************************************)
(* Instances of Sessions for TLC.  In the scenario "once" every connection *)
(* sends one auth packet, the server's own steps are fair, a virtual bot   *)
(* shares the account's name and an admin may ban it.  In "again", which   *)
(* runs on a second set of variables, connections send a second packet,    *)
(* for the same account or another.                                        *)
(***************************************************************************)
EXTENDS Sessions, TLC

CONSTANTS AgainClients, AgainUsers, AgainAuth     \* of the scenario "again"

VARIABLES
    scenario,
    sock2, uname2, replaced2, auths2, pc2, login2, rec2, fresh2, prev2,
    index2, users2, pending2, sleeping2, queue2, db2, trust2, ban2, heard2

vars2 == <<sock2, uname2, replaced2, auths2, pc2, login2, rec2, fresh2,
           prev2, index2, users2, pending2, sleeping2, queue2, db2, trust2,
           ban2, heard2>>

Again == INSTANCE Sessions WITH
    Clients <- AgainClients, Users <- AgainUsers, BotNames <- {}, Bannable <- {}, MaxAuth <- AgainAuth,
    sock <- sock2, uname <- uname2, replaced <- replaced2, auths <- auths2,
    pc <- pc2, login <- login2, rec <- rec2, fresh <- fresh2,
    prev <- prev2, index <- index2, users <- users2, pending <- pending2,
    sleeping <- sleeping2, queue <- queue2, db <- db2, trust <- trust2,
    ban <- ban2, heard <- heard2

MCInit == scenario \in {"once", "again"} /\ Init /\ Again!Init
MCNext ==
    /\ UNCHANGED scenario
    /\ \/ scenario = "once" /\ Next /\ UNCHANGED vars2
       \/ scenario = "again" /\ Again!Next /\ UNCHANGED vars
MCSpec == MCInit /\ [][MCNext]_<<scenario, vars, vars2>> /\ Fairness

\* However often connections authorize, for whichever account: one connection acts
\* for an account, and its comings and goings are announced in turn.
AgainPaired == Again!SingleSession /\ Again!PresencePaired

\* Connections are interchangeable (safety runs only).
ConnectionSymmetry == Permutations(Clients)
=============================================================================
