----------------------------- MODULE AuthTokens -----------------------------
(***************************************************************************)
(* Credentials of the PlayPalace server: refresh tokens, which live in the *)
(* database and are exchanged for a successor each time they are used, and *)
(* access sessions, which live in the memory of one server process.        *)
(*   server/auth/auth.py              AuthManager                          *)
(*   server/persistence/database.py   the refresh_tokens table             *)
(*   server/core/server.py            authorize and refresh_session        *)
(*   server/core/administration.py    ban and unban                        *)
(*   clients/desktop/network_manager.py  what a device stores and presents *)
(*                                                                         *)
(* A handler runs to its first await in one step.  A refresh has no await  *)
(* before its answer is sent, a password login waits for the hash in a     *)
(* worker thread.  An answer may be lost with the connection, and answers  *)
(* of two connections of one device may overtake each other.  Each of the  *)
(* two writes of a rotation is a transaction, so the process may die       *)
(* between them.                                                           *)
(***************************************************************************)
EXTENDS Integers, FiniteSets, Sequences, Lists

CONSTANTS
    Users,          \* accounts
    Devices,        \* clients that store credentials
    None,           \* Python's None, SQL's NULL
    Grace,          \* _REFRESH_REUSE_GRACE_SECONDS
    AccessTTL,      \* access_token_ttl_seconds
    RefreshTTL,     \* refresh_token_ttl_seconds
    MaxSessions,    \* _MAX_SESSIONS_PER_USER
    MaxFlight,      \* bound: unanswered or undelivered requests of a device
    Punctual,       \* TRUE: devices retry within Grace and before expiry
    Bannable,       \* bound: accounts an administrator bans
    MaxTokens,      \* bound: rows of refresh_tokens
    MaxTime         \* bound: the clock

ASSUME AuthAssumption ==
    /\ Grace \in Nat /\ AccessTTL \in Nat \ {0} /\ RefreshTTL \in Nat \ {0}
    /\ MaxSessions \in Nat \ {0} /\ MaxFlight \in Nat /\ MaxTokens \in Nat /\ MaxTime \in Nat
    /\ Punctual \in BOOLEAN
    /\ Bannable \subseteq Users
    /\ None \notin Nat /\ None \notin Users
    /\ IsFiniteSet(Devices)

VARIABLES
    now,        \* int(time.time())
    tokens,     \* the refresh_tokens table, in the order of insertion
    sessions,   \* AuthManager._sessions, in the order of insertion
    banned,     \* users with trust_level BANNED
    attempt,    \* the user whose password a device's login is verifying, or None
    replies,    \* success and failure packets on their way to a device
    held,       \* the refresh token a device has stored, or None
    access,     \* the access session a device has stored, or None
    cut,        \* history: rows of the table when a user's family was revoked
    barred      \* history: rows of the table when the user was banned

serverVars == <<tokens, sessions, banned, attempt>>
deviceVars == <<replies, held, access>>
history    == <<cut, barred>>
vars == <<now, serverVars, deviceVars, history>>

\* A token is named by its row.  `sent` is history: FALSE when the process
\* died before any packet carried the token.  `chain`, history too, is the row
\* of the login the token descends from.
Token == [user : Users, exp : Nat, revoked : Nat \cup {None}, next : Nat \cup {None},
          chain : Nat, sent : BOOLEAN]
\* `tok` is history: the refresh token sent in the same packet.
Session == [id : Nat, user : Users, exp : Nat, tok : Nat]
Failure == [tok |-> None, acc |-> None]
Reply == [tok : Nat, acc : Nat] \cup {Failure}

TypeOK ==
    /\ now \in 0..MaxTime
    /\ tokens \in Seq(Token) /\ Len(tokens) <= MaxTokens
    /\ \A t \in DOMAIN tokens : tokens[t].next # None => tokens[t].next \in DOMAIN tokens
    /\ sessions \in Seq(Session)
    /\ banned \subseteq Users
    /\ attempt \in [Devices -> Users \cup {None}]
    /\ replies \in [Devices -> SUBSET Reply]
    /\ held \in [Devices -> DOMAIN tokens \cup {None}]
    /\ access \in [Devices -> Nat \cup {None}]
    /\ cut \in [Users -> Nat] /\ barred \in [Users -> Nat]

Init ==
    /\ now = 0
    /\ tokens = <<>> /\ sessions = <<>>
    /\ banned = {}
    /\ attempt = [d \in Devices |-> None]
    /\ replies = [d \in Devices |-> {}]
    /\ held = [d \in Devices |-> None]
    /\ access = [d \in Devices |-> None]
    /\ cut = [u \in Users |-> 0] /\ barred = [u \in Users |-> 0]

-----------------------------------------------------------------------------
(* The refresh_tokens table. *)

Live(t) == tokens[t].revoked = None
Rotated(t) == tokens[t].next # None
Expired(t) == tokens[t].exp <= now
InGrace(t) == tokens[t].revoked \in (now - Grace)..now

\* Mutant: the row is given a successor when it is inserted.
NewToken_BeforeInsert(u, chain, sent) ==
    [user |-> u, exp |-> now + RefreshTTL, revoked |-> None, next |-> Len(tokens) + 2,
     chain |-> chain, sent |-> sent]

NewToken(u, chain, sent) ==
    [user |-> u, exp |-> now + RefreshTTL, revoked |-> None, next |-> None,
     chain |-> chain, sent |-> sent]
NextRow == Len(tokens) + 1

\* Mutant: the successor's row is stored but the presented token is not revoked.
Rotate_KeepsOld(t) ==
    Append([tokens EXCEPT ![t].next = NextRow],
           NewToken(tokens[t].user, tokens[t].chain, TRUE))

\* store_refresh_token, then revoke_refresh_token(t, replaced_by=...).
Rotate(t) ==
    Append([tokens EXCEPT ![t].revoked = now, ![t].next = NextRow],
           NewToken(tokens[t].user, tokens[t].chain, TRUE))

\* Mutant: the UPDATE without AND revoked_at IS NULL.
RevokeFamily_Restamps(u) ==
    [t \in DOMAIN tokens |->
        IF tokens[t].user = u THEN [tokens[t] EXCEPT !.revoked = now] ELSE tokens[t]]

\* Mutant: only tokens that were never rotated into are revoked: the first of a chain.
RevokeFamily_ChainHeads(u) ==
    [t \in DOMAIN tokens |->
        IF tokens[t].user = u /\ tokens[t].chain = t /\ Live(t)
        THEN [tokens[t] EXCEPT !.revoked = now] ELSE tokens[t]]

\* UPDATE ... WHERE the user's AND revoked_at IS NULL
RevokeFamily(u) ==
    [t \in DOMAIN tokens |->
        IF tokens[t].user = u /\ Live(t) THEN [tokens[t] EXCEPT !.revoked = now]
                                         ELSE tokens[t]]

-----------------------------------------------------------------------------
(* AuthManager._sessions. *)

SessionsOf(u) == {i \in DOMAIN sessions : sessions[i].user = u}

\* create_session: drop what has expired, then the user's soonest to expire
\* until one place is free.  All sessions get the same time to live, so the
\* order of insertion is the order of expiry.
CreateSession(u, id, tok) ==
    LET valid == {i \in DOMAIN sessions : sessions[i].exp > now}
        mine  == SessionsOf(u) \cap valid
        kept  == {i \in valid :
                    i \in mine => Cardinality({j \in mine : j >= i}) < MaxSessions}
    IN  Append(Keeping(sessions, kept),
               [id |-> id, user |-> u, exp |-> now + AccessTTL, tok |-> tok])

\* secrets.token_hex: an id nobody has.
UsedIds ==
    {sessions[i].id : i \in DOMAIN sessions}
        \cup ({access[d] : d \in Devices} \ {None})
        \cup {r.acc : r \in UNION {replies[d] : d \in Devices}}
FreshId == CHOOSE n \in 1..(Cardinality(UsedIds) + 1) : n \notin UsedIds

-----------------------------------------------------------------------------
(* Logins: _handle_authorize. *)

InFlight(d) == Cardinality(replies[d]) + (IF attempt[d] = None THEN 0 ELSE 1)
MayAsk(d) == InFlight(d) < MaxFlight
Answer(d, r) == replies' = [replies EXCEPT ![d] = @ \cup {r}]

\* create_session and create_refresh_token of a login, and the packet.
Grant(d, u) ==
    /\ NextRow <= MaxTokens
    /\ tokens' = Append(tokens, NewToken(u, NextRow, TRUE))
    /\ sessions' = CreateSession(u, FreshId, NextRow)
    /\ Answer(d, [tok |-> NextRow, acc |-> FreshId])

\* authenticate reads the record; the hash is verified in a worker thread.
PasswordLogin(d, u) ==
    /\ MayAsk(d) /\ attempt[d] = None
    /\ attempt' = [attempt EXCEPT ![d] = u]
    /\ UNCHANGED <<now, tokens, sessions, banned, deviceVars, history>>

\* The record is not read again: a ban in the meantime goes unnoticed here.
PasswordVerified(d) ==
    /\ attempt[d] # None
    /\ Grant(d, attempt[d])
    /\ attempt' = [attempt EXCEPT ![d] = None]
    /\ UNCHANGED <<now, banned, held, access, history>>

\* validate_session, then the same grant.  A session that has expired is
\* dropped, and the device sends a password next time.
SessionLogin(d) ==
    /\ MayAsk(d)
    /\ \E i \in DOMAIN sessions, u \in Users :
         /\ sessions[i].id = access[d] /\ sessions[i].user = u
         /\ sessions[i].exp > now
         /\ Grant(d, u)
    /\ UNCHANGED <<now, banned, attempt, held, access, history>>

SessionRejected(d) ==
    /\ MayAsk(d)
    /\ access[d] # None
    /\ \A i \in DOMAIN sessions : sessions[i].id = access[d] => sessions[i].exp <= now
    /\ sessions' = Keeping(sessions, {i \in DOMAIN sessions : sessions[i].id # access[d]})
    /\ access' = [access EXCEPT ![d] = None]
    /\ UNCHANGED <<now, tokens, banned, attempt, replies, held, history>>

-----------------------------------------------------------------------------
(* refresh_session: one action for each way out of it. *)

\* A device presents the token it has stored; `fits` says whether the account
\* name it sends along, if any, is the token's.  A punctual device does so
\* before the token expires and within Grace of a rotation whose answer it
\* missed, with the right name.
Presents(d, fits) ==
    /\ MayAsk(d)
    /\ held[d] # None
    /\ Punctual => /\ fits /\ ~Expired(held[d])
                   /\ Live(held[d]) \/ InGrace(held[d])

\* Mutant: the grace window is exclusive.
Replayable_Exclusive(t, fits) ==
    /\ InGrace(t) /\ tokens[t].revoked # now - Grace /\ fits
    /\ LET s == tokens[t].next
       IN  ~Rotated(s) /\ Live(s) /\ ~Expired(s)
    /\ tokens[t].user \notin banned

Replayable(t, fits) ==
    /\ InGrace(t) /\ fits
    /\ LET s == tokens[t].next
       IN  ~Rotated(s) /\ Live(s) /\ ~Expired(s)
    /\ tokens[t].user \notin banned

\* The common case: a live token becomes its successor.
RefreshRotates(d, fits) ==
    /\ Presents(d, fits)
    /\ LET t == held[d]
           u == tokens[t].user
       IN  /\ ~Rotated(t) /\ Live(t) /\ ~Expired(t)
           /\ u \notin banned /\ fits
           /\ NextRow <= MaxTokens
           /\ tokens' = Rotate(t)
           /\ sessions' = CreateSession(u, FreshId, NextRow)
           /\ Answer(d, [tok |-> NextRow, acc |-> FreshId])
    /\ UNCHANGED <<now, banned, attempt, held, access, history>>

\* A rotated token again, within the grace window: its successor is sent again.
RefreshReplays(d, fits) ==
    /\ Presents(d, fits)
    /\ LET t == held[d]
           s == tokens[t].next
       IN  /\ Rotated(t) /\ Replayable(t, fits)
           /\ sessions' = CreateSession(tokens[t].user, FreshId, s)
           /\ Answer(d, [tok |-> s, acc |-> FreshId])
    /\ UNCHANGED <<now, tokens, banned, attempt, held, access, history>>

\* Any other use of a revoked token counts as theft: every token of the user
\* is revoked.
RefreshReuse(d, fits) ==
    /\ Presents(d, fits)
    /\ LET t == held[d]
       IN  /\ Rotated(t) \/ ~Live(t)
           /\ ~(Rotated(t) /\ Replayable(t, fits))
           /\ tokens' = RevokeFamily(tokens[t].user)
           /\ cut' = [cut EXCEPT ![tokens[t].user] = Len(tokens)]
    /\ Answer(d, Failure)
    /\ UNCHANGED <<now, sessions, banned, attempt, held, access, barred>>

RefreshExpired(d, fits) ==
    /\ Presents(d, fits)
    /\ LET t == held[d]
       IN  /\ ~Rotated(t) /\ Live(t) /\ Expired(t)
           /\ tokens' = [tokens EXCEPT ![t].revoked = now]
    /\ Answer(d, Failure)
    /\ UNCHANGED <<now, sessions, banned, attempt, held, access, history>>

\* A banned user, or a name that does not fit: the token is left as it is.
RefreshRefused(d, fits) ==
    /\ Presents(d, fits)
    /\ LET t == held[d]
       IN  /\ ~Rotated(t) /\ Live(t) /\ ~Expired(t)
           /\ tokens[t].user \in banned \/ ~fits
    /\ Answer(d, Failure)
    /\ UNCHANGED <<now, serverVars, held, access, history>>

-----------------------------------------------------------------------------
(* Devices. *)

\* A success packet's credentials replace what the device had; a failure
\* clears them.
Deliver(d, r) ==
    /\ r \in replies[d]
    /\ replies' = [replies EXCEPT ![d] = @ \ {r}]
    /\ held' = [held EXCEPT ![d] = r.tok]
    /\ access' = [access EXCEPT ![d] = r.acc]
    /\ UNCHANGED <<now, serverVars, history>>

\* The connection breaks first.
Lose(d, r) ==
    /\ r \in replies[d]
    /\ replies' = [replies EXCEPT ![d] = @ \ {r}]
    /\ UNCHANGED <<now, serverVars, held, access, history>>

-----------------------------------------------------------------------------
(* Administration, the clock and the process. *)

\* Mutant: the ban revokes the refresh tokens only.
Ban_KeepsSessions(u) ==
    /\ u \notin banned
    /\ banned' = banned \cup {u}
    /\ tokens' = RevokeFamily(u)
    /\ cut' = [cut EXCEPT ![u] = Len(tokens)]
    /\ barred' = [barred EXCEPT ![u] = Len(tokens)]
    /\ UNCHANGED <<now, sessions, attempt, deviceVars>>

Ban(u) ==
    /\ u \notin banned
    /\ banned' = banned \cup {u}
    /\ sessions' = Keeping(sessions, DOMAIN sessions \ SessionsOf(u))
    /\ tokens' = RevokeFamily(u)
    /\ cut' = [cut EXCEPT ![u] = Len(tokens)]
    /\ barred' = [barred EXCEPT ![u] = Len(tokens)]
    /\ UNCHANGED <<now, attempt, deviceVars>>

Unban(u) ==
    /\ u \in banned
    /\ banned' = banned \ {u}
    /\ UNCHANGED <<now, tokens, sessions, attempt, deviceVars, history>>

Tick ==
    /\ now < MaxTime
    /\ now' = now + 1
    /\ UNCHANGED <<serverVars, deviceVars, history>>

\* What a dead process takes with it.
Forget ==
    /\ sessions' = <<>>
    /\ attempt' = [d \in Devices |-> None]
    /\ replies' = [d \in Devices |-> {}]

Restart ==
    /\ Forget
    /\ UNCHANGED <<now, tokens, banned, held, access, history>>

\* The successor is stored, the process dies, the presented token lives on.
CrashInRotation(d, fits) ==
    /\ Presents(d, fits)
    /\ LET t == held[d]
           u == tokens[t].user
       IN  /\ ~Rotated(t) /\ Live(t) /\ ~Expired(t)
           /\ u \notin banned /\ fits
           /\ NextRow <= MaxTokens
           /\ tokens' = Append(tokens, NewToken(u, tokens[t].chain, FALSE))
    /\ Forget
    /\ UNCHANGED <<now, banned, held, access, history>>

Next ==
    \/ \E d \in Devices :
         \/ \E u \in Users : PasswordLogin(d, u)
         \/ PasswordVerified(d) \/ SessionLogin(d) \/ SessionRejected(d)
         \/ \E fits \in BOOLEAN :
              \/ RefreshRotates(d, fits) \/ RefreshReplays(d, fits)
              \/ RefreshReuse(d, fits) \/ RefreshExpired(d, fits)
              \/ RefreshRefused(d, fits) \/ CrashInRotation(d, fits)
         \/ \E r \in replies[d] : Deliver(d, r) \/ Lose(d, r)
    \/ \E u \in Bannable : Ban(u) \/ Unban(u)
    \/ Tick \/ Restart

Spec == Init /\ [][Next]_vars

-----------------------------------------------------------------------------
(* Properties. *)

\* However refreshes, retries and crashes interleave, of the tokens that were
\* sent for one login at most one can still be exchanged.
OneLiveTip ==
    \A s, t \in DOMAIN tokens :
        /\ tokens[s].chain = tokens[t].chain
        /\ tokens[s].sent /\ tokens[t].sent
        /\ Live(s) /\ Live(t)
        => s = t

\* What was revoked stays as it was: neither a later revocation of the family
\* nor a replay moves the moment the grace window counts from, or the successor.
RevokedIsFinal ==
    [][\A t \in DOMAIN tokens : ~Live(t) => tokens'[t] = tokens[t]]_vars

\* A ban or the reuse of a token ends every token the user had at that moment,
\* on all devices, also after an unban and also for answers still on their way.
CutIsFinal == \A t \in DOMAIN tokens : Live(t) => t > cut[tokens[t].user]

\* No access session issued before a ban can be used after it, and the table of
\* sessions stays within its cap for every user.
SessionsSound ==
    /\ \A i \in DOMAIN sessions : sessions[i].tok > barred[sessions[i].user]
    /\ \A u \in Users : Cardinality(SessionsOf(u)) <= MaxSessions

\* As long as nobody is banned, a device with one request at a time that
\* retries in time is not taken for a thief, whatever packets it missed: the
\* token it holds can be exchanged, or was exchanged for one that can.
HonestDeviceKeepsToken ==
    \A d \in Devices :
        held[d] # None =>
            \/ Live(held[d])
            \/ Rotated(held[d]) /\ Live(tokens[held[d]].next)
=============================================================================
