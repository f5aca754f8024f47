------------------------------- MODULE Seats -------------------------------
(***************************************************************************)
(* Tables of the PlayPalace server: who is a member, who sits in the game, *)
(* which seat a bot keeps for somebody, and what survives a restart.       *)
(*   server/core/tables/table.py, manager.py        members of a table     *)
(*   server/game_utils/lobby_actions_mixin.py       players of its game    *)
(*   server/core/server.py                          menus, logins, saves   *)
(*                                                                         *)
(* A table and its game keep separate books: Table.members (by name),      *)
(* Game.players (by uuid, a mid-game leaver's seat goes on as a bot) and   *)
(* Game._users (the object that gets a player's packets).  The handlers    *)
(* below touch all three without an await, so each is one action.  A login *)
(* is two: the user is in Server._users (`arriving') while the success     *)
(* packets are sent, and is put back at a table after that; module         *)
(* Sessions models what happens to the connection in between.              *)
(*                                                                         *)
(* Players' names are their ids here.  Games that override                 *)
(* _perform_leave_game (chess, uno, crazyeights, numberchain, backgammon)  *)
(* and virtual bots are not modelled.                                      *)
(***************************************************************************)
EXTENDS Integers, FiniteSets, Sequences, Lists

CONSTANTS
    Users,          \* accounts; a player's uuid is its account's
    Bots,           \* uuids of the bots a host may add
    Tables,         \* table ids; uuid4 gives every table a new one
    None,           \* Python's None
    MinPlayers,     \* Game.get_min_players()
    MaxPlayers,     \* Game.get_max_players()
    Spectating,     \* bound: users who press the spectator key
    MaxJoins        \* bound: tables a user creates or joins

ASSUME SeatAssumption ==
    /\ Users \cap Bots = {}
    /\ None \notin Users
    /\ MinPlayers \in Nat /\ MaxPlayers \in Nat /\ MaxJoins \in Nat
    /\ 0 < MinPlayers /\ MinPlayers <= MaxPlayers
    /\ Spectating \subseteq Users

VARIABLES
    tstate,     \* "unused" | "open" (in TableManager._tables) | "gone"
    members,    \* Table.members, the usernames
    players,    \* Game.players
    gusers,     \* Game._users: "user" (the live NetworkUser), "bot", "none"
    status,     \* Game.status
    host,       \* Game.host
    presence,   \* "offline" | "arriving" | "online" (in Server._users)
    screen,     \* what the user's client shows: "menu", "game" or "none"
    joins,      \* tables a user has created or joined (for MaxJoins)
    doubled,    \* somebody has joined a table where a seat was kept (history)
    row,        \* the table's row in the database, or None
    saved       \* the user-saved game, or None (one at a time)

tableVars == <<tstate, members, players, gusers, status, host>>
userVars  == <<presence, screen, joins, doubled>>
dbVars    == <<row, saved>>
vars == <<tableVars, userVars, dbVars>>

Ids == Users \cup Bots
Player == [id : Ids, bot : BOOLEAN, spec : BOOLEAN]
Statuses == {"waiting", "playing", "finished"}
Snapshot == [members : SUBSET Users, players : Seq(Player), status : Statuses,
             host : Users]
Nobody == [i \in Ids |-> "none"]

TypeOK ==
    /\ tstate \in [Tables -> {"unused", "open", "gone"}]
    /\ members \in [Tables -> SUBSET Users]
    /\ players \in [Tables -> Seq(Player)]
    /\ gusers \in [Tables -> [Ids -> {"none", "user", "bot"}]]
    /\ status \in [Tables -> Statuses]
    /\ host \in [Tables -> Users \cup {None}]
    /\ presence \in [Users -> {"offline", "arriving", "online"}]
    /\ screen \in [Users -> {"none", "menu", "game"}]
    /\ joins \in [Users -> 0..MaxJoins]
    /\ doubled \in BOOLEAN
    /\ row \in [Tables -> Snapshot \cup {None}]
    /\ saved \in Snapshot \cup {None}

Init ==
    /\ tstate = [t \in Tables |-> "unused"]
    /\ members = [t \in Tables |-> {}]
    /\ players = [t \in Tables |-> <<>>]
    /\ gusers = [t \in Tables |-> Nobody]
    /\ status = [t \in Tables |-> "waiting"]
    /\ host = [t \in Tables |-> None]
    /\ presence = [u \in Users |-> "offline"]
    /\ screen = [u \in Users |-> "none"]
    /\ joins = [u \in Users |-> 0] /\ doubled = FALSE
    /\ row = [t \in Tables |-> None]
    /\ saved = None
-----------------------------------------------------------------------------
(* Lookups.                                                                *)

\* TableManager.find_user_table: the open tables u is a member of.
At(u) == {t \in Tables : tstate[t] = "open" /\ u \in members[t]}

\* Game.get_player_by_id: the first player of that id.
Sits(ps, id) == \E i \in DOMAIN ps : ps[i].id = id
SeatOf(ps, id) == CHOOSE i \in DOMAIN ps :
    ps[i].id = id /\ \A j \in DOMAIN ps : ps[j].id = id => i <= j

Humans(ps) == {ps[i].id : i \in {j \in DOMAIN ps : ~ps[j].bot}}
Active(ps) == {i \in DOMAIN ps : ~ps[i].spec}
\* The players left once id is taken off the list.
Without(ps, id) == Keeping(ps, {i \in DOMAIN ps : ps[i].id # id})

InServer(u) == presence[u] # "offline"
HostAt(u, t) == /\ presence[u] = "online" /\ t \in At(u)
                /\ Sits(players[t], u) /\ host[t] = u
-----------------------------------------------------------------------------
(* Leaving and destroying.                                                 *)

\* Mutant: a mid-game leaver's seat is removed.
PlayersAfter_RemovesSeat(t, u) ==
    IF ~Sits(players[t], u) THEN players[t] ELSE Without(players[t], u)

\* Mutant: a spectator who leaves is not removed from the game.
PlayersAfter_SpectatorStays(t, u) ==
    LET ps == players[t]
        i  == SeatOf(ps, u)
    IN  IF ~Sits(ps, u) \/ ps[i].spec THEN ps
        ELSE IF status[t] = "playing" /\ ~ps[i].bot
             THEN [ps EXCEPT ![i].bot = TRUE]
             ELSE Without(ps, u)

\* Game.players after _perform_leave_game of u: a human's seat in a running
\* game goes on as a bot of the same id; everybody else is removed.
PlayersAfter(t, u) ==
    LET ps == players[t]
        i  == SeatOf(ps, u)
    IN  IF ~Sits(ps, u) THEN ps
        ELSE IF status[t] = "playing" /\ ~ps[i].bot /\ ~ps[i].spec
             THEN [ps EXCEPT ![i].bot = TRUE]
             ELSE Without(ps, u)

\* No human is left, unless it is a spectator who leaves.
Deserted(t, u) ==
    /\ Sits(players[t], u)
    /\ ~players[t][SeatOf(players[t], u)].spec
    /\ Humans(PlayersAfter(t, u)) = {}

\* Mutant: the first player becomes the host, human or not.
HostAfter_AnyPlayer(t, u) ==
    IF /\ status[t] = "waiting" /\ host[t] = u /\ Sits(players[t], u)
       /\ Humans(PlayersAfter(t, u)) # {}
    THEN PlayersAfter(t, u)[1].id
    ELSE host[t]

\* A host who leaves the lobby hands over to the first human.
HostAfter(t, u) ==
    LET ps == PlayersAfter(t, u) IN
    IF /\ status[t] = "waiting" /\ host[t] = u /\ Sits(players[t], u)
       /\ ~players[t][SeatOf(players[t], u)].spec /\ Humans(ps) # {}
    THEN LET i == CHOOSE i \in DOMAIN ps :
                      ~ps[i].bot /\ \A j \in DOMAIN ps : ~ps[j].bot => i <= j
         IN  ps[i].id
    ELSE host[t]

UserAfter(t, u) ==
    IF ~Sits(players[t], u) THEN gusers[t][u]
    ELSE IF Sits(PlayersAfter(t, u), u) THEN "bot" ELSE "none"

\* Mutant: the row of a destroyed table stays in the database.
Destroy_KeepsRow(t) ==
    /\ tstate' = [tstate EXCEPT ![t] = "gone"]
    /\ members' = [members EXCEPT ![t] = {}]
    /\ players' = [players EXCEPT ![t] = <<>>]
    /\ gusers' = [gusers EXCEPT ![t] = Nobody]
    /\ status' = [status EXCEPT ![t] = "waiting"]
    /\ host' = [host EXCEPT ![t] = None]
    /\ UNCHANGED row

\* Table.destroy: the manager forgets the table and its row is deleted.  The
\* objects that go with it are reset here.
Destroy(t) ==
    /\ tstate' = [tstate EXCEPT ![t] = "gone"]
    /\ members' = [members EXCEPT ![t] = {}]
    /\ players' = [players EXCEPT ![t] = <<>>]
    /\ gusers' = [gusers EXCEPT ![t] = Nobody]
    /\ status' = [status EXCEPT ![t] = "waiting"]
    /\ host' = [host EXCEPT ![t] = None]
    /\ row' = [row EXCEPT ![t] = None]

\* The users Server.on_table_destroy sends back to the main menu.
SentHome(ps) == {v \in Humans(ps) : InServer(v)}

\* u has left table t, which keeps the members ms.
TableAfter(t, u, ms) ==
    IF Deserted(t, u) \/ ms = {}
    THEN Destroy(t)
    ELSE /\ members' = [members EXCEPT ![t] = ms]
         /\ players' = [players EXCEPT ![t] = PlayersAfter(t, u)]
         /\ gusers' = [gusers EXCEPT ![t][u] = UserAfter(t, u)]
         /\ host' = [host EXCEPT ![t] = HostAfter(t, u)]
         /\ UNCHANGED <<tstate, status, row>>

\* The screens after that; `mine' is what u itself sees.
ScreensAfter(t, u, ms, mine) ==
    screen' = [v \in Users |->
                 IF v = u THEN mine
                 ELSE IF /\ Deserted(t, u) \/ ms = {}
                         /\ v \in SentHome(PlayersAfter(t, u))
                      THEN "menu" ELSE screen[v]]

\* Mutant: the leaver stays a member.
Leave_KeepsMember(u, t) ==
    LET ms == members[t] IN
    /\ presence[u] = "online" /\ t \in At(u) /\ Sits(players[t], u)
    /\ TableAfter(t, u, ms)
    /\ ScreensAfter(t, u, ms, "menu")
    /\ UNCHANGED <<presence, joins, doubled, saved>>

\* A player confirms "leave table": _perform_leave_game, after which
\* _handle_menu finds the game no longer has this user and drops the member.
Leave(u, t) ==
    LET ms == members[t] \ {u} IN
    /\ presence[u] = "online" /\ t \in At(u) /\ Sits(players[t], u)
    /\ TableAfter(t, u, ms)
    /\ ScreensAfter(t, u, ms, "menu")
    /\ UNCHANGED <<presence, joins, doubled, saved>>

\* _delayed_disconnect_cleanup: leave the game, but stay a member unless
\* nobody else is one.
Disconnect(u) ==
    /\ presence[u] = "online"
    /\ presence' = [presence EXCEPT ![u] = "offline"]
    /\ IF At(u) = {}
       THEN /\ screen' = [screen EXCEPT ![u] = "none"]
            /\ UNCHANGED <<tableVars, row>>
       ELSE \E t \in At(u) :
              LET ms == IF Cardinality(members[t]) <= 1 THEN {} ELSE members[t] IN
              TableAfter(t, u, ms) /\ ScreensAfter(t, u, ms, "none")
    /\ UNCHANGED <<joins, doubled, saved>>
-----------------------------------------------------------------------------
(* Logging in, creating and joining.                                       *)

\* The user object is in Server._users; packets are being sent.
Login(u) ==
    /\ presence[u] = "offline"
    /\ presence' = [presence EXCEPT ![u] = "arriving"]
    /\ UNCHANGED <<tableVars, screen, joins, doubled, dbVars>>

\* Mutant: a returning player does not get the seat back from the bot.
Arrive_LeavesBot(u) ==
    /\ InServer(u)
    /\ presence' = [presence EXCEPT ![u] = "online"]
    /\ IF At(u) = {}
       THEN screen' = [screen EXCEPT ![u] = "menu"] /\ UNCHANGED <<players, gusers>>
       ELSE \E t \in At(u) :
              IF Sits(players[t], u)
              THEN /\ gusers' = [gusers EXCEPT ![t][u] = "user"]
                   /\ screen' = [screen EXCEPT ![u] = "game"]
                   /\ UNCHANGED players
              ELSE UNCHANGED <<players, gusers, screen>>
    /\ UNCHANGED <<tstate, members, status, host, joins, doubled, dbVars>>

\* The end of _finalize_login, of a new login or of one that took over a live
\* session: _restore_login_table puts a member back into its seat, taking it
\* from the bot that kept it; a member without a seat is shown nothing; who
\* is at no table gets the main menu.
Arrive(u) ==
    /\ InServer(u)
    /\ presence' = [presence EXCEPT ![u] = "online"]
    /\ IF At(u) = {}
       THEN screen' = [screen EXCEPT ![u] = "menu"] /\ UNCHANGED <<players, gusers>>
       ELSE \E t \in At(u) :
              IF Sits(players[t], u)
              THEN /\ players' = [players EXCEPT ![t][SeatOf(players[t], u)].bot = FALSE]
                   /\ gusers' = [gusers EXCEPT ![t][u] = "user"]
                   /\ screen' = [screen EXCEPT ![u] = "game"]
              ELSE UNCHANGED <<players, gusers, screen>>
    /\ UNCHANGED <<tstate, members, status, host, joins, doubled, dbVars>>

\* A user at no table whose client shows the menus.
Browsing(u) == presence[u] = "online" /\ screen[u] = "menu" /\ At(u) = {}

\* "create table": the table, its game and the host's seat.
Create(u, t) ==
    /\ Browsing(u) /\ joins[u] < MaxJoins
    /\ tstate[t] = "unused"
    /\ tstate' = [tstate EXCEPT ![t] = "open"]
    /\ members' = [members EXCEPT ![t] = {u}]
    /\ players' = [players EXCEPT ![t] = <<[id |-> u, bot |-> FALSE, spec |-> FALSE]>>]
    /\ gusers' = [gusers EXCEPT ![t][u] = "user"]
    /\ status' = [status EXCEPT ![t] = "waiting"]
    /\ host' = [host EXCEPT ![t] = u]
    /\ screen' = [screen EXCEPT ![u] = "game"]
    /\ joins' = [joins EXCEPT ![u] = @ + 1]
    /\ UNCHANGED <<presence, doubled, dbVars>>

\* _auto_join_table: as a player if the game is not running and not full, or
\* else as a spectator.
Join(u, t) ==
    /\ Browsing(u) /\ joins[u] < MaxJoins
    /\ tstate[t] = "open"
    /\ LET full == status[t] = "playing" \/ Cardinality(Active(players[t])) >= MaxPlayers
       IN  players' = [players EXCEPT ![t] =
                         Append(@, [id |-> u, bot |-> FALSE, spec |-> full])]
    /\ members' = [members EXCEPT ![t] = @ \cup {u}]
    /\ gusers' = [gusers EXCEPT ![t][u] = "user"]
    /\ screen' = [screen EXCEPT ![u] = "game"]
    /\ joins' = [joins EXCEPT ![u] = @ + 1]
    /\ doubled' = (doubled \/ Sits(players[t], u))
    /\ UNCHANGED <<tstate, status, host, presence, dbVars>>
-----------------------------------------------------------------------------
(* The lobby and the game.                                                 *)

\* The host adds a bot to a lobby that is not full.
AddBot(u, t, b) ==
    /\ HostAt(u, t) /\ status[t] = "waiting"
    /\ Cardinality(Active(players[t])) < MaxPlayers
    /\ ~Sits(players[t], b)
    /\ players' = [players EXCEPT ![t] =
                     Append(@, [id |-> b, bot |-> TRUE, spec |-> FALSE])]
    /\ gusers' = [gusers EXCEPT ![t][b] = "bot"]
    /\ UNCHANGED <<tstate, members, status, host, userVars, dbVars>>

\* The host removes the last bot.
RemoveBot(u, t) ==
    LET ps == players[t]
        bots == {i \in DOMAIN ps : ps[i].bot}
        last == CHOOSE i \in bots : \A j \in bots : j <= i
    IN
    /\ HostAt(u, t) /\ status[t] = "waiting"
    /\ bots # {}
    /\ players' = [players EXCEPT ![t] = Keeping(ps, DOMAIN ps \ {last})]
    /\ gusers' = [gusers EXCEPT ![t][ps[last].id] = "none"]
    /\ UNCHANGED <<tstate, members, status, host, userVars, dbVars>>

\* F3 in the lobby.  A spectator may sit down again even if the table is full.
ToggleSpectator(u, t) ==
    /\ u \in Spectating
    /\ presence[u] = "online" /\ t \in At(u) /\ Sits(players[t], u)
    /\ status[t] = "waiting"
    /\ players' = [players EXCEPT ![t][SeatOf(players[t], u)].spec = ~@]
    /\ UNCHANGED <<tstate, members, gusers, status, host, userVars, dbVars>>

\* The host starts the game, if validate_start has no objection.
Start(u, t) ==
    /\ HostAt(u, t) /\ status[t] = "waiting"
    /\ Cardinality(Active(players[t])) \in MinPlayers..MaxPlayers
    /\ status' = [status EXCEPT ![t] = "playing"]
    /\ UNCHANGED <<tstate, members, players, gusers, host, userVars, dbVars>>

\* finish_game: the end screen, or the end of the table when only bots played.
Finish(t) ==
    /\ tstate[t] = "open" /\ status[t] = "playing"
    /\ IF Humans(players[t]) = {}
       THEN Destroy(t)
       ELSE /\ status' = [status EXCEPT ![t] = "finished"]
            /\ UNCHANGED <<tstate, members, players, gusers, host, row>>
    /\ UNCHANGED <<userVars, saved>>
-----------------------------------------------------------------------------
(* The database.                                                           *)

Picture(t) == [members |-> members[t], players |-> players[t], status |-> status[t],
               host |-> host[t]]

\* The periodic snapshot of all tables, or the one a graceful stop takes.
Persist ==
    /\ row' = [t \in Tables |-> IF tstate[t] = "open" THEN Picture(t) ELSE row[t]]
    /\ UNCHANGED <<tableVars, userVars, saved>>

\* The users of a game that is loaded: its bots; humans attach when they log in.
LoadedUsers(ps) == [i \in Ids |-> IF \E j \in DOMAIN ps : ps[j].id = i /\ ps[j].bot
                                  THEN "bot" ELSE "none"]

\* The server dies at any moment and is started again: _load_tables.
Restart ==
    /\ presence' = [u \in Users |-> "offline"]
    /\ screen' = [u \in Users |-> "none"]
    /\ tstate' = [t \in Tables |-> IF row[t] # None THEN "open"
                                   ELSE IF tstate[t] = "open" THEN "gone" ELSE tstate[t]]
    /\ members' = [t \in Tables |-> IF row[t] # None THEN row[t].members ELSE {}]
    /\ players' = [t \in Tables |-> IF row[t] # None THEN row[t].players ELSE <<>>]
    /\ gusers' = [t \in Tables |-> IF row[t] # None THEN LoadedUsers(row[t].players)
                                   ELSE Nobody]
    /\ status' = [t \in Tables |-> IF row[t] # None THEN row[t].status ELSE "waiting"]
    /\ host' = [t \in Tables |-> IF row[t] # None THEN row[t].host ELSE None]
    /\ UNCHANGED <<joins, doubled, dbVars>>

\* The host saves the game to play on some other day: on_table_save records
\* it and destroys the table.
Save(u, t) ==
    /\ HostAt(u, t) /\ saved = None
    /\ saved' = Picture(t)
    /\ Destroy(t)
    /\ screen' = [v \in Users |-> IF v \in SentHome(players[t]) THEN "menu" ELSE screen[v]]
    /\ UNCHANGED <<presence, joins, doubled>>

\* Mutant: people who are at another table are pulled over.
Restore_TakesAnyone(u, t) ==
    /\ Browsing(u) /\ saved # None /\ saved.host = u
    /\ tstate[t] = "unused"
    /\ LET ps == saved.players
           hs == Humans(ps)
       IN  /\ \A v \in hs : InServer(v)
           /\ members' = [members EXCEPT ![t] = hs \cup {u}]
           /\ players' = [players EXCEPT ![t] = ps]
           /\ gusers' = [gusers EXCEPT ![t] =
                           [i \in Ids |-> IF i \in hs THEN "user"
                                          ELSE IF Sits(ps, i) THEN "bot" ELSE "none"]]
           /\ screen' = [v \in Users |-> IF v \in hs THEN "game" ELSE screen[v]]
    /\ tstate' = [tstate EXCEPT ![t] = "open"]
    /\ status' = [status EXCEPT ![t] = saved.status]
    /\ host' = [host EXCEPT ![t] = u]
    /\ saved' = None
    /\ UNCHANGED <<presence, joins, doubled, row>>

\* _restore_saved_table: a new table for the saved game, when every human of
\* it is online and at no table; all of them are put into their seats.
Restore(u, t) ==
    /\ Browsing(u) /\ saved # None /\ saved.host = u
    /\ tstate[t] = "unused"
    /\ LET ps == saved.players
           hs == Humans(ps)
       IN  /\ \A v \in hs : InServer(v) /\ At(v) = {}
           /\ members' = [members EXCEPT ![t] = hs \cup {u}]
           /\ players' = [players EXCEPT ![t] = ps]
           /\ gusers' = [gusers EXCEPT ![t] =
                           [i \in Ids |-> IF i \in hs THEN "user"
                                          ELSE IF Sits(ps, i) THEN "bot" ELSE "none"]]
           /\ screen' = [v \in Users |-> IF v \in hs THEN "game" ELSE screen[v]]
    /\ tstate' = [tstate EXCEPT ![t] = "open"]
    /\ status' = [status EXCEPT ![t] = saved.status]
    /\ host' = [host EXCEPT ![t] = u]
    /\ saved' = None
    /\ UNCHANGED <<presence, joins, doubled, row>>
-----------------------------------------------------------------------------
Next ==
    \/ \E u \in Users :
         \/ Login(u) \/ Arrive(u) \/ Disconnect(u)
         \/ \E t \in Tables :
              \/ Create(u, t) \/ Join(u, t) \/ Leave(u, t)
              \/ \E b \in Bots : AddBot(u, t, b)
              \/ RemoveBot(u, t) \/ ToggleSpectator(u, t) \/ Start(u, t)
              \/ Save(u, t) \/ Restore(u, t)
    \/ \E t \in Tables : Finish(t)
    \/ Persist \/ Restart

Spec == Init /\ [][Next]_vars
-----------------------------------------------------------------------------
(* Properties.                                                             *)
(* Joining a game that keeps one's seat gives a second one, and most of    *)
(* what follows breaks with that; see SeatKept.                            *)

\* Nobody is a member of two tables at once (find_user_table returns the first
\* it finds, so the other one would never get this user's packets).
OneTable == \A u \in Users : Cardinality(At(u)) <= 1

\* Who sits in a game as a human is a member of its table: _perform_leave_game
\* and remove_member are called apart, and no path forgets one of them.  A running
\* game has a legal number of players, whatever the lobby had.
SeatingSound ==
    ~doubled => \A t \in Tables : tstate[t] = "open" =>
        /\ Humans(players[t]) \subseteq members[t]
        /\ status[t] = "playing" => Cardinality(Active(players[t])) \in MinPlayers..MaxPlayers

\* What a client shows is where its packets go: who sees the menus is at no
\* table, who sees a game has a seat in it and is the user the game talks to.
ScreenAgrees ==
    ~doubled => \A u \in Users : presence[u] = "online" =>
        /\ screen[u] = "menu" => At(u) = {}
        /\ screen[u] = "game" => \E t \in At(u) :
                                    Sits(players[t], u) /\ gusers[t][u] = "user"

\* "Drop the persisted row so a closed table doesn't reappear as a zombie at
\* next startup" (Server.on_table_destroy).
NoZombie == [][\A t \in Tables : tstate[t] = "gone" => tstate'[t] = "gone"]_vars

\* "Mid-game: replace human with bot instead of removing.  Keep the same
\* player ID so they can rejoin and take over" (_perform_leave_game): a seat of
\* a running game is there until the game is over.
SeatKept ==
    [][\A t \in Tables, i \in Ids :
          /\ tstate[t] = "open" /\ status[t] = "playing"
          /\ tstate'[t] = "open" /\ status'[t] = "playing"
          /\ \E p \in Active(players[t]) : players[t][p].id = i
          => \E p \in Active(players'[t]) : players'[t][p].id = i]_vars

\* The same as long as nobody has joined a game that keeps a seat for him, which
\* SeatKept does not survive.
FirstSeatKept ==
    [][\A t \in Tables, i \in Ids :
          /\ ~doubled'
          /\ tstate[t] = "open" /\ status[t] = "playing"
          /\ tstate'[t] = "open" /\ status'[t] = "playing"
          /\ \E p \in Active(players[t]) : players[t][p].id = i
          => \E p \in Active(players'[t]) : players'[t][p].id = i]_vars

\* A seat is played by exactly one of its owner and a bot: it is a bot's if and
\* only if the game talks to a bot there, and a game never talks to a user
\* object that the server has released.
SeatControl ==
    ~doubled => \A t \in Tables : tstate[t] = "open" => \A p \in DOMAIN players[t] :
        LET i == players[t][p].id IN
        /\ players[t][p].bot <=> gusers[t][i] = "bot"
        /\ gusers[t][i] = "user" => InServer(i)

\* "If host left, assign new host" (_perform_leave_game): the host of a lobby,
\* without whom it cannot start, is one of the humans in it.
HostSeated ==
    \A t \in Tables : tstate[t] = "open" /\ status[t] = "waiting" =>
        host[t] \in Humans(players[t])

\* "Keep the seat for reconnect unless this was the last member; a non-last
\* disconnected player can rejoin and resume" (_delayed_disconnect_cleanup): a
\* member who is back online has a seat.
ReturnsToSeat ==
    \A u \in Users : presence[u] = "online" =>
        \A t \in At(u) : Sits(players[t], u)
=============================================================================
