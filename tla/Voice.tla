-------------------------------- MODULE Voice --------------------------------
(***************************************************************************)
(* Voice chat at the tables (server/core/voice_mixin.py, the mutes of      *)
(* administration.py, Table.remove_member).  A client asks to join and is  *)
(* granted a token for its table, connects to the media server, and        *)
(* reports that it is connected; the server records its presence.  What    *)
(* ends it comes from elsewhere: leaving the table schedules a task, a     *)
(* mute first tells the client and awaits that, a table may be closed.     *)
(*                                                                         *)
(* All of it is in memory: a restart empties it.  What an authorization    *)
(* needs of a clock (it lapses, requests are limited) is a choice.         *)
(***************************************************************************)
CONSTANTS Users, Tables, None

VARIABLES
    open,       \* the tables that exist
    table,      \* the table a user is a member of, or None
    auth,       \* _voice_join_authorizations_by_user: a table or None
    presence,   \* _voice_presence_by_user: a table or None
    muted,      \* users with an active mute in the database
    tearing,    \* users for whom the task that clears their presence is scheduled
    evicting    \* users whose mute awaits the message to their client

vars == <<open, table, auth, presence, muted, tearing, evicting>>

TypeOK ==
    /\ open \subseteq Tables /\ table \in [Users -> open \cup {None}]
    /\ auth \in [Users -> Tables \cup {None}] /\ presence \in [Users -> Tables \cup {None}]
    /\ muted \subseteq Users /\ tearing \subseteq Users /\ evicting \subseteq Users

Nobody == [u \in Users |-> None]
Init ==
    /\ open = Tables /\ table = Nobody
    /\ auth = Nobody /\ presence = Nobody
    /\ muted = {} /\ tearing = {} /\ evicting = {}
-----------------------------------------------------------------------------
(* Tables.                                                                 *)

\* Table.add_member.  The menu that offers another table is sent by a later tick: a task
\* scheduled before has run.
Enter(u, t) ==
    /\ table[u] = None /\ t \in open /\ u \notin tearing
    /\ table' = [table EXCEPT ![u] = t]
    /\ UNCHANGED <<open, auth, presence, muted, tearing, evicting>>

Members(t) == {u \in Users : table[u] = t}

\* Mutant: the task is scheduled for somebody whose client holds a token.
Removed_NeedsToken(u) ==
    /\ auth' = [auth EXCEPT ![u] = None]
    /\ tearing' = IF auth[u] = None THEN tearing ELSE tearing \cup {u}
\* on_table_member_removed
Removed(u) ==
    /\ auth' = [auth EXCEPT ![u] = None]
    /\ tearing' = IF presence[u] = None THEN tearing ELSE tearing \cup {u}

\* Table.remove_member: a table without members is destroyed.
Leave(u) ==
    /\ table[u] # None
    /\ table' = [table EXCEPT ![u] = None]
    /\ open' = IF Members(table[u]) = {u} THEN open \ {table[u]} ELSE open
    /\ Removed(u)
    /\ UNCHANGED <<presence, muted, evicting>>

\* Table.destroy and on_table_save: nobody is removed, the table is gone.
Close(t) ==
    /\ t \in open /\ open' = open \ {t}
    /\ table' = [u \in Users |-> IF table[u] = t THEN None ELSE table[u]]
    /\ UNCHANGED <<auth, presence, muted, tearing, evicting>>

\* The task runs _clear_voice_presence, whatever presence is recorded by now.
TearDown(u) ==
    /\ u \in tearing /\ tearing' = tearing \ {u}
    /\ presence' = [presence EXCEPT ![u] = None] /\ auth' = [auth EXCEPT ![u] = None]
    /\ UNCHANGED <<open, table, muted, evicting>>
-----------------------------------------------------------------------------
(* Requests of the client.                                                 *)

\* _handle_voice_join for table t, None for the user's own: an earlier authorization is
\* void.  The limit on requests may refuse any.
Join(u, t) ==
    /\ \E limited \in BOOLEAN :
          auth' = [auth EXCEPT ![u] = IF limited \/ u \in muted \/ t \notin {None, table[u]}
                                      THEN None ELSE table[u]]
    /\ UNCHANGED <<open, table, presence, muted, tearing, evicting>>

\* An authorization is found to have lapsed when it is consumed.
Lapse(u) ==
    /\ auth[u] # None /\ auth' = [auth EXCEPT ![u] = None]
    /\ UNCHANGED <<open, table, presence, muted, tearing, evicting>>

\* _register_voice_presence.  A muted user's authorization is dropped; one for another
\* table is kept, and nothing happens.
Connected(u, t) ==
    /\ table[u] # None /\ t \in {None, table[u]}
    /\ u \in muted \/ auth[u] = table[u]
    /\ auth' = [auth EXCEPT ![u] = None]
    /\ presence' = IF u \in muted THEN presence ELSE [presence EXCEPT ![u] = table[u]]
    /\ UNCHANGED <<open, table, muted, tearing, evicting>>

\* _handle_voice_leave, and _handle_voice_presence for a lost connection, which leaves
\* the authorization alone when the presence is not meant.
Disconnected(u, t) ==
    LET meant == presence[u] # None /\ t \in {None, presence[u]} IN
    /\ auth' = [auth EXCEPT ![u] = None] \/ (~meant /\ auth' = auth)
    /\ presence' = IF meant THEN [presence EXCEPT ![u] = None] ELSE presence
    /\ UNCHANGED <<open, table, muted, tearing, evicting>>
-----------------------------------------------------------------------------
(* Mutes.                                                                  *)

\* _mute_user: the row is written, and the client told before its presence is cleared.
Mute(u) ==
    /\ muted' = muted \cup {u}
    /\ auth' = [auth EXCEPT ![u] = None]
    /\ evicting' = IF presence[u] = None THEN evicting ELSE evicting \cup {u}
    /\ UNCHANGED <<open, table, presence, tearing>>
\* The client has been told.
Evict(u) ==
    /\ u \in evicting /\ evicting' = evicting \ {u}
    /\ presence' = [presence EXCEPT ![u] = None] /\ auth' = [auth EXCEPT ![u] = None]
    /\ UNCHANGED <<open, table, muted, tearing>>
\* _unmute_user, or the mute ends.
Unmute(u) ==
    /\ u \in muted /\ muted' = muted \ {u}
    /\ UNCHANGED <<open, table, auth, presence, tearing, evicting>>
-----------------------------------------------------------------------------
Request(u, t) == Join(u, t) \/ Connected(u, t) \/ Disconnected(u, t)
Next ==
    \/ \E u \in Users, t \in Tables : Enter(u, t)
    \/ \E u \in Users, t \in Tables \cup {None} : Request(u, t)
    \/ \E u \in Users : Leave(u) \/ TearDown(u) \/ Lapse(u) \/ Mute(u) \/ Evict(u) \/ Unmute(u)
    \/ \E t \in Tables : Close(t)
Spec == Init /\ [][Next]_vars
-----------------------------------------------------------------------------
(* Properties.                                                             *)

\* Whoever is in the voice of a table that exists is a member of the table, or the task
\* that ends it is scheduled; nobody muted is in voice, but while the client is told;
\* and no token is honoured of somebody muted or who has left (voice_mixin.py:3-6).
VoiceOfMembers ==
    \A u \in Users :
        /\ presence[u] \in open => table[u] = presence[u] \/ u \in tearing
        /\ presence[u] # None /\ u \in muted => u \in evicting
        /\ auth[u] # None => u \notin muted /\ (auth[u] \in open => table[u] = auth[u])
=============================================================================
