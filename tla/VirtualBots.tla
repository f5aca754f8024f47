---------------------------- MODULE VirtualBots ----------------------------
(***************************************************************************)
(* The bots that pretend to be users (server/core/virtual_bots.py).  The   *)
(* manager keeps a record per bot; what others see of a bot is kept        *)
(* elsewhere: its entry in Server._users, its membership of a table, its   *)
(* seat in the table's game.  Bots share names, tables and the database    *)
(* with people.                                                            *)
(*                                                                         *)
(* Every operation runs without an await, so each is one action.  A tick   *)
(* refreshes the guided-table rule and then processes every bot; here      *)
(* Refresh and BotTick(b) interleave freely, which allows all orders the   *)
(* code has.  Cooldowns and thinking times only delay a step and are left  *)
(* out; random decisions are choices.                                      *)
(***************************************************************************)
EXTENDS Integers, FiniteSets

CONSTANTS
    Bots,           \* VirtualBotConfig.names
    People,         \* accounts that are no bot's namesake
    Namesakes,      \* bots whose name is also somebody's account
    Tables,         \* table ids
    None,           \* Python's None
    MinPlayers, MaxPlayers,     \* of the game
    MaxTables,      \* max_tables_per_game, 0 for no limit
    RuleSets,       \* the sets of bots a guided table may be configured for
    Hosts,          \* bots whose min_bots_per_table is 0
    RuleMax,        \* max_bots of the guided table, 0 for no limit
    MaxRestarts     \* bound: stops and crashes of the server

ASSUME BotsAssumption ==
    /\ Bots \cap People = {} /\ Namesakes \subseteq Bots /\ Hosts \subseteq Bots
    /\ None \notin Bots \cup People \cup Tables
    /\ MinPlayers \in Nat \ {0} /\ MaxPlayers \in Nat /\ MaxTables \in Nat
    /\ RuleMax \in Nat /\ MaxRestarts \in Nat
    /\ RuleSets \subseteq SUBSET Bots

Names == Bots \cup People
Accounts == People \cup Namesakes

VARIABLES
    rule,       \* the bots of the guided table's groups; {} if none is configured
    bots,       \* VirtualBotManager._bots: a record per bot, None if there is none
    assigned,   \* GuidedTableState.assigned_bots
    link,       \* GuidedTableState.table_id
    users,      \* Server._users: "person", "bot" (a VirtualUser), "none"
    status,     \* of a table's game; "unused" and "closed" before and after its life
    members,    \* Table.members
    seats,      \* Game.players: <<name, kind>>
    host,       \* Game.host
    author,     \* what created the table: "person" or "vbot" (history)
    botRows,    \* the rows of table virtual_bots
    tableRows,  \* the rows of table tables
    restarts,   \* for MaxRestarts
    stale       \* a crash has restored rows of different times (history)

botVars == <<bots, assigned, link>>
gameVars == <<status, members, seats, host>>
disk == <<botRows, tableRows>>
vars == <<rule, botVars, users, gameVars, author, disk, restarts, stale>>

States == {"offline", "online_idle", "in_game", "leaving_game", "waiting_for_table"}
Record == [state : States, table : Tables \cup {None}]
ASSUME RecordAssumption == None \notin Record
\* A seat is played by a person, a virtual bot, or a bot that keeps it for a
\* person who left; or its holder only watches.
Kinds == {"person", "vbot", "kept", "watch"}
Live == {"waiting", "playing", "finished"}
Picture == [status : Live, members : SUBSET Names, seats : SUBSET (Names \X Kinds),
            host : Names]

TypeOK ==
    /\ rule \in RuleSets
    /\ bots \in [Bots -> Record \cup {None}]
    /\ assigned \subseteq Bots
    /\ link \in Tables \cup {None}
    /\ users \in [Names -> {"none", "person", "bot"}]
    /\ status \in [Tables -> {"unused", "closed"} \cup Live]
    /\ members \in [Tables -> SUBSET Names]
    /\ seats \in [Tables -> SUBSET (Names \X Kinds)]
    /\ host \in [Tables -> Names \cup {None}]
    /\ \A t \in Tables : status[t] \in Live => host[t] # None
    /\ author \in [Tables -> {"person", "vbot", None}]
    /\ botRows \in [Bots -> Record \cup {None}]
    /\ tableRows \in [Tables -> Picture \cup {None}]
    /\ restarts \in 0..MaxRestarts
    /\ stale \in BOOLEAN

Init ==
    /\ rule \in RuleSets
    /\ bots = [b \in Bots |-> None]
    /\ assigned = {} /\ link = None
    /\ users = [n \in Names |-> "none"]
    /\ status = [t \in Tables |-> "unused"]
    /\ members = [t \in Tables |-> {}]
    /\ seats = [t \in Tables |-> {}]
    /\ host = [t \in Tables |-> None]
    /\ author = [t \in Tables |-> None]
    /\ botRows = [b \in Bots |-> None]
    /\ tableRows = [t \in Tables |-> None]
    /\ restarts = 0 /\ stale = FALSE
-----------------------------------------------------------------------------
(* Tables and games.                                                       *)

Open(t) == t \in Tables /\ status[t] \in Live
Playing(s) == {p \in s : p[2] # "watch"}
HasRoom(t) == Cardinality(Playing(seats[t])) < MaxPlayers
SeatsOf(n, t) == {p \in seats[t] : p[1] = n}
Humans(s) == {p \in s : p[2] \in {"person", "watch"}}

\* Mutant of Destroy: the game's status is left as it was.
Destroy_StatusStays(ts) ==
    /\ members' = [t \in Tables |-> IF t \in ts THEN {} ELSE members[t]]
    /\ seats' = [t \in Tables |-> IF t \in ts THEN {} ELSE seats[t]]
    /\ host' = [t \in Tables |-> IF t \in ts THEN None ELSE host[t]]
    /\ tableRows' = [t \in Tables |-> IF t \in ts THEN None ELSE tableRows[t]]
    /\ UNCHANGED status
\* Table.destroy: the manager forgets the table, the server its row.
Destroy(ts) ==
    /\ status' = [t \in Tables |-> IF t \in ts THEN "closed" ELSE status[t]]
    /\ members' = [t \in Tables |-> IF t \in ts THEN {} ELSE members[t]]
    /\ seats' = [t \in Tables |-> IF t \in ts THEN {} ELSE seats[t]]
    /\ host' = [t \in Tables |-> IF t \in ts THEN None ELSE host[t]]
    /\ tableRows' = [t \in Tables |-> IF t \in ts THEN None ELSE tableRows[t]]

\* create_table and initialize_lobby.  Ids are fresh, and which one is no matter.
Create(n, kind, t) ==
    /\ status[t] = "unused" /\ t = CHOOSE u \in Tables : status[u] = "unused"
    /\ status' = [status EXCEPT ![t] = "waiting"]
    /\ members' = [members EXCEPT ![t] = {n}]
    /\ seats' = [seats EXCEPT ![t] = {<<n, kind>>}]
    /\ host' = [host EXCEPT ![t] = n]
    /\ author' = [author EXCEPT ![t] = kind]

\* add_member and add_player or add_spectator.
Enter(n, kind, t) ==
    /\ members' = [members EXCEPT ![t] = @ \cup {n}]
    /\ seats' = [seats EXCEPT ![t] = @ \cup {<<n, kind>>}]
    /\ UNCHANGED <<status, host, author>>

\* Mutant of RemoveMember: an empty table stays.
RemoveMember_Empty(n, t) ==
    /\ members' = [members EXCEPT ![t] = @ \ {n}]
    /\ UNCHANGED <<status, seats, host, tableRows>>
\* Table.remove_member: the last one to go closes the table.
RemoveMember(n, t) ==
    IF members[t] \subseteq {n} THEN Destroy({t})
    ELSE /\ members' = [members EXCEPT ![t] = @ \ {n}]
         /\ UNCHANGED <<status, seats, host, tableRows>>
-----------------------------------------------------------------------------
(* The manager's helpers.                                                  *)

Exists(b) == bots[b] # None
Online(b) == Exists(b) /\ bots[b].state # "offline"
SetBot(b, state, t) == bots' = [bots EXCEPT ![b] = [state |-> state, table |-> t]]
\* get_table(bot.table_id)
TableOf(b) == IF Exists(b) /\ Open(bots[b].table) THEN bots[b].table ELSE None

\* _can_create_game_type: bots may own so many tables.
OwnedByBots == {t \in Tables : Open(t) /\ host[t] \in Bots /\ Exists(host[t])}
\* Mutant of CanCreate: the limit is forgotten.
CanCreate_Always == TRUE
CanCreate == MaxTables = 0 \/ Cardinality(OwnedByBots) < MaxTables

\* _try_create_game and _create_guided_table.
BotCreates(b, t) ==
    /\ users[b] # "none" /\ CanCreate
    /\ Create(b, "vbot", t)
    /\ SetBot(b, "in_game", t)

\* _try_join_game and _join_specific_table.
BotJoins(b, t) ==
    /\ users[b] # "none"
    /\ Open(t) /\ status[t] = "waiting" /\ HasRoom(t)
    /\ Enter(b, "vbot", t)
    /\ SetBot(b, "in_game", t)

\* _leave_current_table.  The game is asked to execute the action "leave",
\* which no game has (it is "leave_game"): the seat stays.
LeaveTable(b) ==
    IF TableOf(b) = None THEN UNCHANGED <<gameVars, tableRows>>
    ELSE RemoveMember(b, TableOf(b))

\* What a bot that is offline, waiting for a table, or leaving does next.
\* _process_offline_bot, _bring_bot_online: not while somebody has the name.
ComeOnline(b) ==
    /\ bots[b].state = "offline" /\ users[b] = "none"
    /\ users' = [users EXCEPT ![b] = "bot"]
    /\ SetBot(b, "online_idle", bots[b].table)
    /\ UNCHANGED <<link, gameVars, author, tableRows>>
\* _process_waiting_bot
StopWaiting(b) ==
    /\ bots[b].state = "waiting_for_table"
    /\ SetBot(b, "online_idle", bots[b].table)
    /\ UNCHANGED <<link, users, gameVars, author, tableRows>>

\* _take_bot_offline
GoOffline(b) ==
    /\ LeaveTable(b)
    /\ users' = [users EXCEPT ![b] = "none"]
    /\ SetBot(b, "offline", None)
    /\ UNCHANGED <<link, author>>

\* Mutant of PlayOn: a missing table is not noticed.
PlayOn_NeedsTable(b) ==
    /\ bots[b].state = "in_game" /\ Open(bots[b].table)
    /\ \/ /\ status[bots[b].table] = "finished"
          /\ SetBot(b, "leaving_game", bots[b].table)
          /\ UNCHANGED status
       \/ LET t == bots[b].table IN
          /\ status[t] = "waiting" /\ host[t] = b
          /\ Cardinality(Playing(seats[t])) \in MinPlayers..MaxPlayers
          /\ status' = [status EXCEPT ![t] = "playing"]
          /\ UNCHANGED bots
    /\ UNCHANGED <<link, users, members, seats, host, author, tableRows>>
\* _process_in_game_bot: a finished or missing table is left soon; a host
\* starts a game that has enough players.  No table id, nothing happens.
PlayOn(b) ==
    /\ bots[b].state = "in_game" /\ bots[b].table # None
    /\ \/ /\ ~Open(bots[b].table) \/ status[bots[b].table] = "finished"
          /\ SetBot(b, "leaving_game", bots[b].table)
          /\ UNCHANGED status
       \/ LET t == bots[b].table IN
          /\ Open(t) /\ status[t] = "waiting" /\ host[t] = b
          /\ Cardinality(Playing(seats[t])) \in MinPlayers..MaxPlayers
          /\ SeatsOf(b, t) # {}
          /\ status' = [status EXCEPT ![t] = "playing"]
          /\ UNCHANGED bots
    /\ UNCHANGED <<link, users, members, seats, host, author, tableRows>>

\* _process_leaving_game_bot: stays online for a while, or logs off.
QuitTable(b) ==
    /\ bots[b].state = "leaving_game"
    /\ \/ GoOffline(b)
       \/ /\ LeaveTable(b)
          /\ SetBot(b, "online_idle", None)
          /\ UNCHANGED <<link, users, author>>

\* _process_online_idle_bot without a guided table: log off, join, create.
Idle(b) ==
    \/ GoOffline(b)
    \/ \E t \in Tables : BotJoins(b, t) /\ UNCHANGED <<link, users, tableRows>>
    \/ \E t \in Tables : BotCreates(b, t) /\ UNCHANGED <<link, users, tableRows>>

\* _enter_waiting_for_table
Wait(b) ==
    /\ SetBot(b, "waiting_for_table", bots[b].table)
    /\ UNCHANGED <<users, gameVars, author, tableRows>>

\* _count_rule_bots, _should_bot_join_rule
RuleBots(b, t) == {a \in assigned \ {b} :
    Exists(a) /\ bots[a].table = t /\ bots[a].state \in {"in_game", "leaving_game"}}
ShouldJoin(b, t) ==
    /\ status[t] = "waiting" /\ HasRoom(t)
    /\ b \in Hosts \/ RuleBots(b, t) # {}
    /\ RuleMax = 0 \/ Cardinality(RuleBots(b, t)) < RuleMax

\* _handle_guided_bot
Guided(b) ==
    LET l == IF Open(link) THEN link ELSE None
        mine == bots[b].table
    IN  \/ /\ mine # None /\ l # None /\ mine # l
           /\ LeaveTable(b)
           /\ SetBot(b, "waiting_for_table", None)
           /\ link' = l /\ UNCHANGED <<users, author>>
        \/ /\ l = None
           /\ \/ \E t \in Tables : /\ b \in Hosts /\ BotCreates(b, t)
                                   /\ link' = t /\ UNCHANGED <<users, tableRows>>
              \/ /\ b \notin Hosts \/ ~CanCreate
                 /\ Wait(b) /\ link' = None
        \/ /\ l # None /\ mine = l /\ Idle(b)
        \/ /\ l # None /\ mine = None
           /\ IF ShouldJoin(b, l)
              THEN BotJoins(b, l) /\ UNCHANGED <<link, users, tableRows>>
              ELSE Wait(b) /\ UNCHANGED link

\* _process_bot_tick
BotTick(b) ==
    /\ Exists(b)
    /\ \/ ComeOnline(b)
       \/ StopWaiting(b)
       \/ PlayOn(b)
       \/ QuitTable(b)
       \/ bots[b].state = "online_idle" /\ (IF b \in assigned THEN Guided(b) ELSE Idle(b))
    /\ UNCHANGED <<rule, assigned, botRows, restarts, stale>>

\* _refresh_guided_tables: a vanished table is forgotten, by the rule and by its
\* bots; then the rule, if its window is open, takes as many bots as it may.
\* Which of the eligible bots it takes is left open.
Refresh ==
    /\ rule # {}
    /\ LET gone == link # None /\ ~Open(link)
           eligible == {b \in rule : Exists(b)}
           kept == assigned \cap eligible
       IN  /\ link' = IF gone THEN None ELSE link
           /\ bots' = [b \in Bots |->
                 IF gone /\ b \in assigned /\ Exists(b) /\ bots[b].table = link
                 THEN [bots[b] EXCEPT !.table = None] ELSE bots[b]]
           /\ \/ assigned' = {}
              \/ /\ assigned' \in {a \in SUBSET eligible : kept \subseteq a}
                 /\ \/ assigned' = eligible
                    \/ RuleMax > 0 /\ assigned' # kept /\ Cardinality(assigned') = RuleMax
                    \/ RuleMax > 0 /\ assigned' = kept /\ Cardinality(kept) >= RuleMax
    /\ UNCHANGED <<rule, users, gameVars, author, disk, restarts, stale>>
-----------------------------------------------------------------------------
(* The administrator.                                                      *)

\* fill_server, then save_state.
Fill ==
    LET new == {b \in Bots : ~Exists(b)}
    IN  /\ new # {}
        /\ \E half \in SUBSET new :
              LET up == {b \in half : users[b] = "none"}
              IN  /\ Cardinality(half) = Cardinality(new) \div 2
                  /\ bots' = [b \in Bots |->
                        IF b \in up THEN [state |-> "online_idle", table |-> None]
                        ELSE IF b \in new THEN [state |-> "offline", table |-> None]
                        ELSE bots[b]]
                  /\ users' = [n \in Names |-> IF n \in up THEN "bot" ELSE users[n]]
        /\ botRows' = bots'
        /\ UNCHANGED <<rule, assigned, link, gameVars, author, tableRows, restarts, stale>>

\* Mutant of Clear: the tables the bots sit at stay.
Clear_TablesStay ==
    /\ \E b \in Bots : Exists(b)
    /\ users' = [n \in Names |->
          IF n \in Bots /\ Exists(n) /\ bots[n].state \in {"online_idle", "in_game", "leaving_game"}
          THEN "none" ELSE users[n]]
    /\ bots' = [b \in Bots |-> None]
    /\ botRows' = [b \in Bots |-> None]
    /\ UNCHANGED <<rule, assigned, link, gameVars, author, tableRows, restarts, stale>>
\* clear_bots: a bot that waits for a table is forgotten, but stays in _users.
Clear ==
    /\ \E b \in Bots : Exists(b)
    /\ Destroy({TableOf(b) : b \in Bots} \ {None})
    /\ users' = [n \in Names |->
          IF n \in Bots /\ Exists(n) /\ bots[n].state \in {"online_idle", "in_game", "leaving_game"}
          THEN "none" ELSE users[n]]
    /\ bots' = [b \in Bots |-> None]
    /\ botRows' = [b \in Bots |-> None]
    /\ UNCHANGED <<rule, assigned, link, author, restarts, stale>>
-----------------------------------------------------------------------------
(* People.                                                                 *)

\* Mutant of TakeOffline: the record is left as it is.
TakeOffline_RecordStays(b) ==
    /\ Destroy({TableOf(b)} \ {None})
    /\ UNCHANGED bots
\* take_bot_offline_by_name: also the table the bot merely sits at is closed.
TakeOffline(b) ==
    /\ Destroy({TableOf(b)} \ {None})
    /\ SetBot(b, "offline", None)

\* A person logs in.  A bot of that name is taken offline first; if the manager
\* does not know that bot the login fails: a VirtualUser has no connection.
Login(n) ==
    /\ users[n] # "person"
    /\ users' = [users EXCEPT ![n] = "person"]
    /\ IF users[n] = "bot"
       THEN Exists(n) /\ TakeOffline(n)
       ELSE UNCHANGED <<bots, gameVars, tableRows>>
    /\ UNCHANGED <<rule, assigned, link, author, botRows, restarts, stale>>

\* _restore_login_table, at the end of the login: the seat a bot kept.
Return(n) ==
    /\ users[n] = "person"
    /\ \E t \in Tables :
          /\ n \in members[t] /\ <<n, "kept">> \in seats[t]
          /\ seats' = [seats EXCEPT ![t] = (@ \ {<<n, "kept">>}) \cup {<<n, "person">>}]
    /\ UNCHANGED <<rule, botVars, users, status, members, host, author, disk, restarts, stale>>

\* _perform_leave_game: what is left of the seats.
SeatsAfter(n, t) ==
    LET mine == {p \in SeatsOf(n, t) : p[2] # "vbot"}
    IN  IF <<n, "person">> \in mine /\ status[t] = "playing"
        THEN (seats[t] \ {<<n, "person">>}) \cup {<<n, "kept">>}
        ELSE seats[t] \ mine
\* It closes the table when it leaves no human, unless a spectator left.
Abandoned(n, t) ==
    /\ \E p \in SeatsOf(n, t) : p[2] \in {"person", "kept"}
    /\ Humans(SeatsAfter(n, t)) = {}

\* A person leaves; the membership goes too, or stays for a reconnection.
LeaveGame(n, t, leaves) ==
    IF Abandoned(n, t) \/ (leaves /\ members[t] = {n})
    THEN Destroy({t})
    ELSE /\ seats' = [seats EXCEPT ![t] = SeatsAfter(n, t)]
         /\ members' = [members EXCEPT ![t] = IF leaves THEN @ \ {n} ELSE @]
         /\ host' = [host EXCEPT ![t] =
               IF @ = n /\ status[t] = "waiting" /\ <<n, "person">> \in seats[t]
               THEN (CHOOSE p \in Humans(SeatsAfter(n, t)) : TRUE)[1] ELSE @]
         /\ UNCHANGED <<status, tableRows>>

\* The clean-up two seconds after a connection was lost.
Drop(n) ==
    /\ users[n] = "person"
    /\ users' = [users EXCEPT ![n] = "none"]
    /\ \/ (\A t \in Tables : n \notin members[t]) /\ UNCHANGED <<gameVars, tableRows>>
       \/ \E t \in Tables : n \in members[t] /\ LeaveGame(n, t, members[t] = {n})
    /\ UNCHANGED <<rule, botVars, author, botRows, restarts, stale>>

\* What a person at the keyboard does: create, join, leave, start, remove a bot.
Acts(n) ==
    /\ users[n] = "person"
    /\ \/ /\ \A t \in Tables : n \notin members[t]
          /\ \E t \in Tables : Create(n, "person", t) \/
                /\ Open(t)
                /\ Enter(n, IF status[t] # "playing" /\ HasRoom(t) THEN "person" ELSE "watch", t)
          /\ UNCHANGED tableRows
       \/ \E t \in Tables :
            /\ n \in members[t] /\ SeatsOf(n, t) \cap {<<n, "person">>, <<n, "watch">>} # {}
            /\ LeaveGame(n, t, TRUE) /\ UNCHANGED author
       \/ \E t \in Tables :
            /\ n \in members[t] /\ host[t] = n /\ status[t] = "waiting"
            /\ \/ /\ Cardinality(Playing(seats[t])) \in MinPlayers..MaxPlayers
                  /\ status' = [status EXCEPT ![t] = "playing"]
                  /\ UNCHANGED seats
               \/ \E p \in seats[t] : /\ p[2] = "vbot"
                                      /\ seats' = [seats EXCEPT ![t] = @ \ {p}]
                                      /\ UNCHANGED status
            /\ UNCHANGED <<members, host, author, tableRows>>
    /\ UNCHANGED <<rule, botVars, users, botRows, restarts, stale>>

\* finish_game: the table stays if a person or a virtual bot plays.
Finish(t) ==
    /\ Open(t) /\ status[t] = "playing"
    /\ IF \E p \in seats[t] : p[2] # "kept"
       THEN /\ status' = [status EXCEPT ![t] = "finished"]
            /\ UNCHANGED <<members, seats, host, tableRows>>
       ELSE Destroy({t})
    /\ UNCHANGED <<rule, botVars, users, author, botRows, restarts, stale>>
-----------------------------------------------------------------------------
(* The database.                                                           *)

TablePicture(t) == [status |-> status[t], members |-> members[t], seats |-> seats[t],
                    host |-> host[t]]
Pictures == [t \in Tables |-> IF Open(t) THEN TablePicture(t) ELSE None]

\* _save_tables on the tick.  (After the last restart it would have no effect.)
Persist ==
    /\ restarts < MaxRestarts
    /\ tableRows' = Pictures
    /\ UNCHANGED <<rule, botVars, users, gameVars, author, botRows, restarts, stale>>

\* _load_tables and load_state from the given rows; nobody is logged in.
Load(records, pictures) ==
    /\ restarts < MaxRestarts /\ restarts' = restarts + 1
    /\ bots' = records
    /\ users' = [n \in Names |->
          IF n \in Bots /\ records[n] # None /\ records[n].state # "offline"
          THEN "bot" ELSE "none"]
    /\ status' = [t \in Tables |-> IF pictures[t] # None THEN pictures[t].status
                                   ELSE IF status[t] = "unused" THEN "unused" ELSE "closed"]
    /\ members' = [t \in Tables |-> IF pictures[t] # None THEN pictures[t].members ELSE {}]
    /\ seats' = [t \in Tables |-> IF pictures[t] # None THEN pictures[t].seats ELSE {}]
    /\ host' = [t \in Tables |-> IF pictures[t] # None THEN pictures[t].host ELSE None]
    /\ assigned' = {} /\ link' = None
    /\ UNCHANGED <<rule, author>>

\* A graceful stop saves the tables and the bots together; the server starts again.
Stop == /\ Load(bots, Pictures)
        /\ botRows' = bots /\ tableRows' = Pictures /\ UNCHANGED stale
\* A crash leaves the last snapshot of the tables, and the bots as they were
\* when an administrator filled the server or it was stopped.
Crash == Load(botRows, tableRows) /\ stale' = TRUE /\ UNCHANGED disk
-----------------------------------------------------------------------------
Next ==
    \/ \E b \in Bots : BotTick(b)
    \/ Refresh \/ Fill \/ Clear \/ Persist \/ Stop \/ Crash
    \/ \E n \in Accounts : Login(n) \/ Return(n) \/ Drop(n) \/ Acts(n)
    \/ \E t \in Tables : Finish(t)

Spec == Init /\ [][Next]_vars
\* The tick runs for ever and processes every bot.
FairSpec == Spec /\ \A b \in Bots : WF_vars(BotTick(b))
-----------------------------------------------------------------------------
(* Properties.                                                             *)

\* A bot whose record says it is online is in Server._users; and, unless a guided
\* table makes bots wait, a bot in _users is one whose record says so, so that
\* a person can always have the name (virtual_bots.py:765, server.py:1340).
OnlineTogether ==
    \A b \in Bots : /\ Online(b) => users[b] = "bot"
                    /\ rule = {} /\ users[b] = "bot" => Online(b)

\* A bot that sits in a waiting or running game is at that table, by its record
\* and by the table's list of members; whoever has a table in its record is a
\* member there.  Only a crash mixes rows of different times.
SeatHeld ==
    ~stale => \A b \in Bots, t \in Tables :
        /\ status[t] \in {"waiting", "playing"} /\ <<b, "vbot">> \in seats[t]
              => Exists(b) /\ bots[b] = [state |-> "in_game", table |-> t]
        /\ Exists(b) /\ Open(t) /\ bots[b].table = t => b \in members[t]

\* Bots never have more tables than max_tables_per_game, whichever way they
\* create them, although hosts log off and records are forgotten.
BotTableLimit ==
    MaxTables > 0 => Cardinality({t \in Tables : Open(t) /\ author[t] = "vbot"}) <= MaxTables

\* A bot in a game that is over, or whose table was closed under it by somebody else,
\* does not stay there (with a guided table it does, see the README).
BotsMoveOn ==
    \A b \in Bots : (rule = {} /\ Exists(b) /\ bots[b].state \in {"in_game", "leaving_game"}
                        /\ (~Open(bots[b].table) \/ status[bots[b].table] = "finished"))
                    ~> (~Exists(b) \/ bots[b].state \in {"offline", "online_idle"})

\* A table whose game is over is closed once only bots are left at it.
BotTableCloses ==
    \A t \in Tables : (status[t] = "finished" /\ ~stale /\ members[t] \subseteq Bots \ Namesakes)
                      ~> (stale \/ status[t] # "finished" \/ ~(members[t] \subseteq Bots \ Namesakes))

=============================================================================
