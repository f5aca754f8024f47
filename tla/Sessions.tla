------------------------------ MODULE Sessions ------------------------------
(***************************************************************************)
(* Connections, logins and session takeover of the PlayPalace server:      *)
(* server/network/websocket_server.py and the session half of              *)
(* server/core/server.py.                                                  *)
(*                                                                         *)
(* The server is one asyncio loop.  A packet of a connection is handled by *)
(* that connection's own coroutine, so handlers of different connections   *)
(* interleave exactly at their awaits; here an action runs from one await  *)
(* to the next.  `pc' names the await a connection's handler is suspended  *)
(* at:                                                                     *)
(*   idle     in `async for message in websocket'                          *)
(*   verify   in `await self._auth.authenticate' (a worker thread)         *)
(*   wait     in `async with lock', the per-username login lock            *)
(*   notify   in `await old_client.send'  of _handoff_existing_session     *)
(*   closing  in `await old_client.close' of _handoff_existing_session     *)
(*   sending  in the sends of _finalize_login, after the lock is released  *)
(* A socket is `closed' once it is closed and its coroutine has not ended: *)
(* packets buffered before the close are still handled, as websockets      *)
(* delivers them.  It is `gone' once _handle_client's finally has run.     *)
(*                                                                         *)
(* Effects of these handlers on tables are modelled in module Seats.       *)
(***************************************************************************)
EXTENDS Integers, Sequences, FiniteSets

CONSTANTS
    Clients,        \* ClientConnection objects; one is made per socket
    Users,          \* accounts
    None,           \* Python's None
    Bot,            \* the VirtualUser object a virtual bot puts in _users
    BotNames,       \* accounts whose name a configured virtual bot also has
    Bannable,       \* accounts an admin may ban
    MaxConnections, \* WebSocketServer._max_connections
    MaxAuth         \* bound: auth packets one connection sends

ASSUME IdentityAssumption ==
    /\ None \notin Clients \cup Users \cup {Bot}
    /\ Bot \notin Clients
    /\ BotNames \subseteq Users
    /\ Bannable \subseteq Users
ASSUME BoundAssumption == MaxConnections \in Nat /\ MaxAuth \in Nat

VARIABLES
    sock,       \* connection -> "new" | "open" | "closed" | "gone"
    uname,      \* ClientConnection.username; .authenticated is set with it
    replaced,   \* ClientConnection.replaced
    auths,      \* auth packets a connection has sent (for MaxAuth)
    pc,         \* the await a connection's handler is at
    login,      \* the account its current auth packet is for
    rec,        \* trust_level of the user record that handler has read
    fresh,      \* is_new_login of that handler
    prev,       \* old_client of that handler
    index,      \* WebSocketServer._username_index
    users,      \* Server._users: the connection of the user object, or Bot
    pending,    \* Server._pending_disconnects: the connection of the task
    sleeping,   \* connections whose _delayed_disconnect_cleanup sleeps
    queue,      \* Server._login_locks: holder first, then waiters
    db,         \* trust level stored in the database
    trust,      \* trust level of the live user object
    ban,        \* progress of _ban_user: "no" | "sending" | "done"
    heard       \* "user-online" minus "user-offline" announcements

connVars    == <<sock, uname, replaced, auths>>
handlerVars == <<pc, login, rec, fresh, prev>>
serverVars  == <<index, users, pending, sleeping, queue>>
accountVars == <<db, trust, ban, heard>>
vars == <<connVars, handlerVars, serverVars, accountVars>>

Trust == {"user", "banned"}

TypeOK ==
    /\ sock \in [Clients -> {"new", "open", "closed", "gone"}]
    /\ uname \in [Clients -> Users \cup {None}]
    /\ replaced \in [Clients -> BOOLEAN]
    /\ auths \in [Clients -> 0..MaxAuth]
    /\ pc \in [Clients -> {"idle", "verify", "wait", "notify", "closing", "sending"}]
    /\ login \in [Clients -> Users \cup {None}]
    /\ rec \in [Clients -> Trust]
    /\ fresh \in [Clients -> BOOLEAN]
    /\ prev \in [Clients -> Clients \cup {None}]
    /\ index \in [Users -> Clients \cup {None}]
    /\ users \in [Users -> Clients \cup {None, Bot}]
    /\ pending \in [Users -> Clients \cup {None}]
    /\ sleeping \subseteq Clients
    /\ queue \in [Users -> Seq(Clients)]
    /\ db \in [Users -> Trust]
    /\ trust \in [Users -> Trust]
    /\ ban \in [Users -> {"no", "sending", "done"}]
    /\ heard \in [Users -> Int]

Init ==
    /\ sock = [c \in Clients |-> "new"]
    /\ uname = [c \in Clients |-> None]
    /\ replaced = [c \in Clients |-> FALSE]
    /\ auths = [c \in Clients |-> 0]
    /\ pc = [c \in Clients |-> "idle"]
    /\ login = [c \in Clients |-> None]
    /\ rec = [c \in Clients |-> "user"]
    /\ fresh = [c \in Clients |-> FALSE]
    /\ prev = [c \in Clients |-> None]
    /\ index = [u \in Users |-> None]
    /\ users = [u \in Users |-> None]
    /\ pending = [u \in Users |-> None]
    /\ sleeping = {}
    /\ queue = [u \in Users |-> <<>>]
    /\ db = [u \in Users |-> "user"]
    /\ trust = [u \in Users |-> "user"]
    /\ ban = [u \in Users |-> "no"]
    /\ heard = [u \in Users |-> 0]
-----------------------------------------------------------------------------
(* Sockets.                                                                *)

\* `_clients': sockets whose coroutine has registered and not yet ended.
Registered == {c \in Clients : sock[c] \in {"open", "closed"}}

\* A socket is accepted below the connection limit and registered; the
\* server is RUNNING.
Connect(c) ==
    /\ sock[c] = "new"
    /\ Cardinality(Registered) < MaxConnections
    /\ sock' = [sock EXCEPT ![c] = "open"]
    /\ UNCHANGED <<uname, replaced, auths, handlerVars, serverVars, accountVars>>

\* The network, the peer, the flood limit or a server stop closes a socket.
SocketCloses(c) ==
    /\ sock[c] = "open"
    /\ sock' = [sock EXCEPT ![c] = "closed"]
    /\ UNCHANGED <<uname, replaced, auths, handlerVars, serverVars, accountVars>>

\* Mutant: a failed login disarms the timeout.
AuthTimeout_FailedLoginExempt(c) ==
    /\ sock[c] = "open"
    /\ uname[c] = None
    /\ auths[c] = 0
    /\ sock' = [sock EXCEPT ![c] = "closed"]
    /\ UNCHANGED <<uname, replaced, auths, handlerVars, serverVars, accountVars>>

\* _enforce_auth_timeout: thirty seconds passed and nobody is logged in.  The
\* handler may be in the middle of a login that is still waiting.
AuthTimeout(c) ==
    /\ sock[c] = "open"
    /\ uname[c] = None
    /\ sock' = [sock EXCEPT ![c] = "closed"]
    /\ UNCHANGED <<uname, replaced, auths, handlerVars, serverVars, accountVars>>

\* The identity checks of _on_client_disconnect pass: this connection was not
\* replaced, is logged in, and the user object (if any) is still bound to it.
OwnsSession(c) ==
    /\ ~replaced[c]
    /\ uname[c] # None
    /\ users[uname[c]] \in {None, c}

\* Mutant: the index entry is dropped without checking whose it is.
HandlerEnds_DropsAnyEntry(c) ==
    /\ sock[c] = "closed"
    /\ pc[c] = "idle"
    /\ sock' = [sock EXCEPT ![c] = "gone"]
    /\ index' = [u \in Users |-> IF u = uname[c] THEN None ELSE index[u]]
    /\ IF OwnsSession(c)
       THEN /\ pending' = [pending EXCEPT ![uname[c]] = c]
            /\ sleeping' = sleeping \cup {c}
       ELSE UNCHANGED <<pending, sleeping>>
    /\ UNCHANGED <<uname, replaced, auths, handlerVars, users, queue, accountVars>>

\* Mutant: ownership is looked up in the index, after it was cleared.
HandlerEnds_AsksIndex(c) ==
    /\ sock[c] = "closed"
    /\ pc[c] = "idle"
    /\ sock' = [sock EXCEPT ![c] = "gone"]
    /\ index' = [u \in Users |->
                   IF u = uname[c] /\ index[u] = c THEN None ELSE index[u]]
    /\ IF OwnsSession(c) /\ index'[uname[c]] = c
       THEN /\ pending' = [pending EXCEPT ![uname[c]] = c]
            /\ sleeping' = sleeping \cup {c}
       ELSE UNCHANGED <<pending, sleeping>>
    /\ UNCHANGED <<uname, replaced, auths, handlerVars, users, queue, accountVars>>

\* The end of _handle_client: unregister the socket, drop the username index
\* entry if it is still this socket's, and run _on_client_disconnect, which
\* starts the grace period of a session this connection still owns.
HandlerEnds(c) ==
    /\ sock[c] = "closed"
    /\ pc[c] = "idle"
    /\ sock' = [sock EXCEPT ![c] = "gone"]
    /\ index' = [u \in Users |->
                   IF u = uname[c] /\ index[u] = c THEN None ELSE index[u]]
    /\ IF OwnsSession(c)
       THEN /\ pending' = [pending EXCEPT ![uname[c]] = c]
            /\ sleeping' = sleeping \cup {c}
       ELSE UNCHANGED <<pending, sleeping>>
    /\ UNCHANGED <<uname, replaced, auths, handlerVars, users, queue, accountVars>>
-----------------------------------------------------------------------------
(* Login.                                                                  *)

\* A socket's handler can take its next packet.
Reading(c) ==
    /\ sock[c] \in {"open", "closed"}
    /\ pc[c] = "idle"

\* Mutant: the handoff marks the new connection instead of the old one.
Attach_MarksNew(c, u, r, rest) ==
    /\ pending' = [pending EXCEPT ![u] = None]
    /\ sleeping' = sleeping \ {pending[u]}
    /\ IF users[u] \in Clients
       THEN /\ replaced' = [replaced EXCEPT ![c] = TRUE]
            /\ prev' = [prev EXCEPT ![c] = users[u]]
            /\ pc' = [pc EXCEPT ![c] = "notify"]
            /\ queue' = [queue EXCEPT ![u] = rest]
            /\ UNCHANGED <<uname, fresh, index, users, trust>>
       ELSE /\ uname' = [uname EXCEPT ![c] = u]
            /\ index' = [index EXCEPT ![u] = c]
            /\ users' = [users EXCEPT ![u] = c]
            /\ trust' = [trust EXCEPT ![u] = r]
            /\ fresh' = [fresh EXCEPT ![c] = TRUE]
            /\ pc' = [pc EXCEPT ![c] = "sending"]
            /\ queue' = [queue EXCEPT ![u] = Tail(rest)]
            /\ UNCHANGED <<replaced, prev>>

\* Mutant: a virtual bot is not told from a person, and handed over like one.
Attach_BotHandedOver(c, u, r, rest) ==
    /\ pending' = [pending EXCEPT ![u] = None]
    /\ sleeping' = sleeping \ {pending[u]}
    /\ IF users[u] # None
       THEN /\ replaced' = [d \in Clients |-> replaced[d] \/ d = users[u]]
            /\ prev' = [prev EXCEPT ![c] = users[u]]
            /\ pc' = [pc EXCEPT ![c] = "notify"]
            /\ queue' = [queue EXCEPT ![u] = rest]
            /\ UNCHANGED <<uname, fresh, index, users, trust>>
       ELSE /\ uname' = [uname EXCEPT ![c] = u]
            /\ index' = [index EXCEPT ![u] = c]
            /\ users' = [users EXCEPT ![u] = c]
            /\ trust' = [trust EXCEPT ![u] = r]
            /\ fresh' = [fresh EXCEPT ![c] = TRUE]
            /\ pc' = [pc EXCEPT ![c] = "sending"]
            /\ queue' = [queue EXCEPT ![u] = Tail(rest)]
            /\ UNCHANGED <<replaced, prev>>

\* A connection enters u's login lock and finds it free, or is next in line:
\* the body of _attach_or_update_user_locked up to its first await.  A pending
\* cleanup is cancelled.  A live user object is handed over: its connection is
\* marked replaced and told so.  Otherwise (no object, or a virtual bot's,
\* which is taken offline) a new object is made and the lock is released.
\* `r' is the trust level of the record read before the lock; `rest' is the
\* lock's queue once c has it: c first.
Attach(c, u, r, rest) ==
    /\ pending' = [pending EXCEPT ![u] = None]
    /\ sleeping' = sleeping \ {pending[u]}
    /\ IF users[u] \in Clients
       THEN /\ replaced' = [replaced EXCEPT ![users[u]] = TRUE]
            /\ prev' = [prev EXCEPT ![c] = users[u]]
            /\ pc' = [pc EXCEPT ![c] = "notify"]
            /\ queue' = [queue EXCEPT ![u] = rest]
            /\ UNCHANGED <<uname, fresh, index, users, trust>>
       ELSE /\ uname' = [uname EXCEPT ![c] = u]
            /\ index' = [index EXCEPT ![u] = c]
            /\ users' = [users EXCEPT ![u] = c]
            /\ trust' = [trust EXCEPT ![u] = r]
            /\ fresh' = [fresh EXCEPT ![c] = TRUE]
            /\ pc' = [pc EXCEPT ![c] = "sending"]
            /\ queue' = [queue EXCEPT ![u] = Tail(rest)]
            /\ UNCHANGED <<replaced, prev>>

\* Mutant: no login lock.
Finalize_NoLock(c, u) ==
    /\ login' = [login EXCEPT ![c] = u]
    /\ rec' = [rec EXCEPT ![c] = db[u]]
    /\ Attach(c, u, db[u], Append(queue[u], c))

\* _finalize_login up to its first await: read the user record, then take the
\* login lock, or queue for it when another login of the account holds it.
Finalize(c, u) ==
    /\ login' = [login EXCEPT ![c] = u]
    /\ rec' = [rec EXCEPT ![c] = db[u]]
    /\ IF queue[u] = <<>>
       THEN Attach(c, u, db[u], <<c>>)
       ELSE /\ queue' = [queue EXCEPT ![u] = Append(@, c)]
            /\ pc' = [pc EXCEPT ![c] = "wait"]
            /\ UNCHANGED <<uname, replaced, fresh, prev, index, users, pending,
                           sleeping, trust>>

\* `authorize' with a password: suspended while the hash is verified.
PasswordLogin(c, u) ==
    /\ Reading(c)
    /\ auths[c] < MaxAuth
    /\ auths' = [auths EXCEPT ![c] = @ + 1]
    /\ pc' = [pc EXCEPT ![c] = "verify"]
    /\ login' = [login EXCEPT ![c] = u]
    /\ UNCHANGED <<sock, uname, replaced, rec, fresh, prev, serverVars, accountVars>>

\* The password is right: go on to _finalize_login.
Verified(c) ==
    /\ pc[c] = "verify"
    /\ Finalize(c, login[c])
    /\ UNCHANGED <<sock, auths, db, ban, heard>>

\* Wrong password: the client is told, nothing else changes.
Refused(c) ==
    /\ pc[c] = "verify"
    /\ pc' = [pc EXCEPT ![c] = "idle"]
    /\ UNCHANGED <<connVars, login, rec, fresh, prev, serverVars, accountVars>>

\* `authorize' with a session token, or `refresh_session': no await before
\* _finalize_login.  A ban revokes both kinds of token.
TokenLogin(c, u) ==
    /\ Reading(c)
    /\ auths[c] < MaxAuth
    /\ db[u] # "banned"
    /\ auths' = [auths EXCEPT ![c] = @ + 1]
    /\ Finalize(c, u)
    /\ UNCHANGED <<sock, db, ban, heard>>

\* The login lock was released and c is the first waiter.
LockGranted(c) ==
    /\ pc[c] = "wait"
    /\ queue[login[c]] # <<>> /\ Head(queue[login[c]]) = c
    /\ Attach(c, login[c], rec[c], queue[login[c]])
    /\ UNCHANGED <<sock, auths, login, rec, db, ban, heard>>

\* The "already logged in" packet is out (or failed): start closing the old
\* connection.
OldNotified(c) ==
    /\ pc[c] = "notify"
    /\ pc' = [pc EXCEPT ![c] = "closing"]
    /\ sock' = [sock EXCEPT ![prev[c]] = IF @ = "open" THEN "closed" ELSE @]
    /\ UNCHANGED <<uname, replaced, auths, login, rec, fresh, prev, serverVars,
                   accountVars>>

\* Mutant: a takeover reports a new login.
Rebind_AlwaysNew(c) ==
    LET u == login[c] IN
    /\ pc[c] = "closing"
    /\ uname' = [uname EXCEPT ![c] = u]
    /\ index' = [index EXCEPT ![u] = c]
    /\ users' = IF users[u] = None THEN users ELSE [users EXCEPT ![u] = c]
    /\ trust' = [trust EXCEPT ![u] = rec[c]]
    /\ fresh' = [fresh EXCEPT ![c] = TRUE]
    /\ queue' = [queue EXCEPT ![u] = Tail(@)]
    /\ pc' = [pc EXCEPT ![c] = "sending"]
    /\ UNCHANGED <<sock, replaced, auths, login, rec, prev, pending, sleeping,
                   db, ban, heard>>

\* Mutant: the lock is not released after a handoff.
Rebind_KeepsLock(c) ==
    LET u == login[c] IN
    /\ pc[c] = "closing"
    /\ uname' = [uname EXCEPT ![c] = u]
    /\ index' = [index EXCEPT ![u] = c]
    /\ users' = IF users[u] = None THEN users ELSE [users EXCEPT ![u] = c]
    /\ trust' = [trust EXCEPT ![u] = rec[c]]
    /\ fresh' = [fresh EXCEPT ![c] = FALSE]
    /\ UNCHANGED queue
    /\ pc' = [pc EXCEPT ![c] = "sending"]
    /\ UNCHANGED <<sock, replaced, auths, login, rec, prev, pending, sleeping,
                   db, ban, heard>>

\* The old connection is closed: bind the user object to the new one, refresh
\* it from the record read before the handoff, release the lock.
Rebind(c) ==
    LET u == login[c] IN
    /\ pc[c] = "closing"
    /\ uname' = [uname EXCEPT ![c] = u]
    /\ index' = [index EXCEPT ![u] = c]
    /\ users' = IF users[u] = None THEN users ELSE [users EXCEPT ![u] = c]
    /\ trust' = [trust EXCEPT ![u] = rec[c]]
    /\ fresh' = [fresh EXCEPT ![c] = FALSE]
    /\ queue' = [queue EXCEPT ![u] = Tail(@)]
    /\ pc' = [pc EXCEPT ![c] = "sending"]
    /\ UNCHANGED <<sock, replaced, auths, login, rec, prev, pending, sleeping,
                   db, ban, heard>>

\* The end of _finalize_login: a banned user is only told so; a new login is
\* announced.
LoginDone(c) ==
    LET u == login[c] IN
    /\ pc[c] = "sending"
    /\ pc' = [pc EXCEPT ![c] = "idle"]
    /\ heard' = IF fresh[c] /\ trust[u] # "banned"
                THEN [heard EXCEPT ![u] = @ + 1] ELSE heard
    /\ UNCHANGED <<connVars, login, rec, fresh, prev, serverVars, db, trust, ban>>
-----------------------------------------------------------------------------
(* The grace period, bans and virtual bots.                                *)

\* Handlers the loop can resume at once: their sends go to a socket that is
\* not open, so they return without waiting.
Resumable(c) == pc[c] = "sending" /\ sock[c] # "open"

\* _delayed_disconnect_cleanup after its sleep.  Two seconds are longer than
\* the loop takes to resume a login handler that is not waiting for a peer.
GraceExpires(c) ==
    LET u == uname[c] IN
    /\ c \in sleeping
    /\ \A d \in Clients : login[d] = u => ~Resumable(d)
    /\ sleeping' = sleeping \ {c}
    /\ pending' = [pending EXCEPT ![u] = None]
    /\ IF users[u] \in {None, c}
       THEN /\ users' = [users EXCEPT ![u] = None]
            /\ heard' = IF trust[u] # "banned" THEN [heard EXCEPT ![u] = @ - 1]
                        ELSE heard
            /\ ban' = [ban EXCEPT ![u] = IF @ = "sending" THEN "done" ELSE @]
       ELSE UNCHANGED <<users, heard, ban>>
    /\ UNCHANGED <<connVars, handlerVars, index, queue, db, trust>>

\* _ban_user up to its first await: the database row and the tokens at once,
\* the live object if there is one, then the ban message is sent.
Ban(u) ==
    /\ u \in Bannable
    /\ db[u] = "user"
    /\ db' = [db EXCEPT ![u] = "banned"]
    /\ IF users[u] \in Clients
       THEN /\ trust' = [trust EXCEPT ![u] = "banned"]
            /\ ban' = [ban EXCEPT ![u] = "sending"]
       ELSE /\ ban' = [ban EXCEPT ![u] = "done"]
            /\ UNCHANGED trust
    /\ UNCHANGED <<connVars, handlerVars, serverVars, heard>>

\* The last line of _ban_user: close whichever connection the user object has
\* by now.  (Once the object is released its connection is closed already:
\* GraceExpires ends the ban.)
BanCloses(u) ==
    /\ ban[u] = "sending"
    /\ ban' = [ban EXCEPT ![u] = "done"]
    /\ sock' = [c \in Clients |->
                  IF c = users[u] /\ sock[c] = "open" THEN "closed" ELSE sock[c]]
    /\ UNCHANGED <<uname, replaced, auths, handlerVars, serverVars, db, trust, heard>>

\* VirtualBotManager._bring_bot_online: only under a name nobody holds.
BotOnline(u) ==
    /\ u \in BotNames
    /\ users[u] = None
    /\ users' = [users EXCEPT ![u] = Bot]
    /\ UNCHANGED <<connVars, handlerVars, index, pending, sleeping, queue, accountVars>>

\* VirtualBotManager._take_bot_offline.
BotOffline(u) ==
    /\ users[u] = Bot
    /\ users' = [users EXCEPT ![u] = None]
    /\ UNCHANGED <<connVars, handlerVars, index, pending, sleeping, queue, accountVars>>
-----------------------------------------------------------------------------
\* What the loop does on its own, once started.
ServerStep(c) ==
    \/ AuthTimeout(c)  \/ HandlerEnds(c) \/ Verified(c) \/ Refused(c)
    \/ LockGranted(c)  \/ OldNotified(c) \/ Rebind(c)   \/ LoginDone(c)
    \/ GraceExpires(c)

Next ==
    \/ \E c \in Clients :
         \/ Connect(c)
         \/ SocketCloses(c)
         \/ \E u \in Users : PasswordLogin(c, u) \/ TokenLogin(c, u)
         \/ ServerStep(c)
    \/ \E u \in Users : Ban(u) \/ BanCloses(u) \/ BotOnline(u) \/ BotOffline(u)

Spec == Init /\ [][Next]_vars
Fairness ==
    /\ \A c \in Clients :
         /\ WF_vars(AuthTimeout(c))
         /\ WF_vars(HandlerEnds(c))
         /\ WF_vars(Verified(c) \/ Refused(c))
         /\ WF_vars(LockGranted(c))
         /\ WF_vars(OldNotified(c))
         /\ WF_vars(Rebind(c))
         /\ WF_vars(LoginDone(c))
         /\ WF_vars(GraceExpires(c))
    /\ \A u \in Users : WF_vars(BanCloses(u))
FairSpec == Spec /\ Fairness
-----------------------------------------------------------------------------
(* Properties.                                                             *)

\* A login of u is between marking the old connection and binding the new one.
HandingOver(u) == \E d \in Clients : login[d] = u /\ pc[d] \in {"notify", "closing"}

\* "a failure can't strand them as permanently online" (the finally of
\* _delayed_disconnect_cleanup): every user object in _users has somebody who
\* will release it: a live connection that still owns it, or a running grace
\* period that can still be cancelled, or a handoff that is about to rebind it.
NoStrandedUser ==
    \A u \in Users : users[u] \in Clients =>
        LET c == users[u] IN
        \/ c \in Registered /\ OwnsSession(c) /\ uname[c] = u
        \/ c \in sleeping /\ pending[u] = c
        \/ HandingOver(u)

\* "two concurrent authorizes for the same name cannot both win the session
\* handoff and leave a duplicate session" (_attach_or_update_user): of the
\* sockets logged in to one account at most one may act, the others are
\* replaced; and a virtual bot never shares a name with a logged-in socket.
Acting(c, u) == c \in Registered /\ uname[c] = u /\ ~replaced[c]
SingleSession ==
    \A u \in Users, c, d \in Clients :
        Acting(c, u) => (Acting(d, u) => c = d) /\ users[u] # Bot

\* Queued messages of a user go to get_client_by_username: the index and the
\* user object name the same connection while that is registered and no
\* handoff is under way, and the index never keeps an ended connection.
IndexAgrees ==
    \A u \in Users :
        /\ users[u] \in Registered /\ ~HandingOver(u) => index[u] = users[u]
        /\ index[u] # None => index[u] \in Registered /\ uname[index[u]] = u

\* Presence announcements pair up: nobody is announced online twice, or
\* offline without having been announced online.
PresencePaired == \A u \in Users : heard[u] \in 0..1

\* A grace period only ever releases a session whose socket has ended; a
\* session with a registered socket is released by nobody, only handed over.
ReleaseOnlyDead ==
    [][\A u \in Users : users[u] \in Clients /\ users'[u] \notin Clients
            => sock[users[u]] = "gone" /\ ~HandingOver(u)]_vars

\* "close the socket server-side so a banned client can't keep acting"
\* (_ban_user): once a ban is through, no open socket acts for the account.
BannedCannotAct ==
    \A u \in Users, c \in Clients :
        ban[u] = "done" /\ Acting(c, u) /\ sock[c] = "open" /\ users[u] = c
            => trust[u] = "banned"

\* Every login that queued for the lock gets through the handoff.
LoginServed ==
    \A c \in Clients : pc[c] \in {"wait", "notify", "closing"} ~> pc[c] = "sending"

\* Every user object whose socket has ended is released or handed over.
DeadReleased ==
    \A u \in Users, c \in Clients :
        users[u] = c /\ sock[c] = "gone" ~> users[u] # c

\* A socket nobody logs in on is closed and its slot freed, whatever its
\* handler waits for.
SlotFreed ==
    \A c \in Clients :
        sock[c] = "open" /\ uname[c] = None ~> uname[c] # None \/ sock[c] = "gone"

(* The inductive strengthening of NoStrandedUser, SingleSession and         *)
(* IndexAgrees for connections that log in at most once (MaxAuth = 1).     *)

\* A connection has a name once its login got through, and is replaced, or has
\* a grace period, only after that.
LoginInv ==
    \A c \in Clients :
        /\ auths[c] = 0 => pc[c] = "idle" /\ uname[c] = None
        /\ pc[c] \in {"verify", "wait", "notify", "closing"} => uname[c] = None
        /\ pc[c] # "idle" => sock[c] \in {"open", "closed"}
        /\ uname[c] = None => ~replaced[c] /\ c \notin sleeping
        /\ sock[c] = "new" => auths[c] = 0

\* A connection that was not replaced owns its account until its grace period
\* is over.
OwnerInv ==
    \A c \in Clients :
        /\ uname[c] # None /\ ~replaced[c] /\ sock[c] # "gone" => users[uname[c]] = c
        /\ c \in sleeping => /\ sock[c] = "gone"
                             /\ ~replaced[c]
                             /\ users[uname[c]] = c
                             /\ pending[uname[c]] = c

\* During a handoff the user object stays, bound to the replaced connection.
HandoffInv ==
    \A c \in Clients :
        /\ pc[c] \in {"notify", "closing"} => /\ users[login[c]] = prev[c]
                                              /\ uname[prev[c]] = login[c]
                                              /\ replaced[prev[c]]
        /\ pc[c] = "closing" => sock[prev[c]] # "open"

\* A user object is bound to a connection of that name, which is alive, in its
\* grace period, or being replaced.
UserInv ==
    \A u \in Users :
        /\ users[u] \in Clients =>
             /\ uname[users[u]] = u
             /\ replaced[users[u]] => HandingOver(u)
             /\ ~replaced[users[u]] /\ sock[users[u]] = "gone" => users[u] \in sleeping
        /\ pending[u] # None => pending[u] \in sleeping /\ uname[pending[u]] = u

IndexInv ==
    \A u \in Users :
        /\ index[u] # None => index[u] \in Registered /\ uname[index[u]] = u
        /\ users[u] \in Registered /\ ~replaced[users[u]] => index[u] = users[u]

\* What every step keeps true, and what makes the session properties hold.
SessionInv == LoginInv /\ OwnerInv /\ HandoffInv /\ UserInv /\ IndexInv

(* Sessions implements AccountSession: the owner of an account is the      *)
(* connection its user object is bound to.                                 *)
ownerBar == [u \in Users |-> IF users[u] = Bot THEN None ELSE users[u]]
shutBar == {c \in Clients : sock[c] \in {"closed", "gone"}}
lostBar == {c \in Clients : uname[c] # None /\ users[uname[c]] # c}

Abstract == INSTANCE AccountSession WITH
    Conns <- Clients, Accounts <- Users, Nobody <- None,
    owner <- ownerBar, shut <- shutBar, lost <- lostBar

\* Every step of logins, takeovers, disconnects and grace periods is a step of
\* the abstract session (or none of its business).
SessionRefinement == Abstract!AbstractSpec
=============================================================================
