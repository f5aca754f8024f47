---------------------------- MODULE ServicesProofs ----------------------------
(***************************************************************************)
(* Theorems about the services of a server, for any number of bots, users, *)
(* tables and connections and any lengths of the queues: what the manager  *)
(* believes of a bot and what the server shows of it agree                 *)
(* (BotsShownAsTheyAre), the bots own no more tables than they may, and a  *)
(* bot at a table is there by every account of it; the voice of a table is *)
(* of its members; and a player is shown what the game has on the screen.  *)
(*                                                                         *)
(* The strengthening for the first says why nothing but a guided table     *)
(* lets a bot fall between the two: only its rule makes bots wait, in      *)
(* memory or in the rows a restart reads.  For the others of the bots it   *)
(* says what a record, in memory or as a row, may name: a table once       *)
(* opened, and while the bot is leaving one that is over.                  *)
(*                                                                         *)
(* The voice invariant is inductive with the types: what a leaving member  *)
(* leaves behind is paid for by the scheduled task, what a muted one leaves*)
(* behind by the message under way.                                        *)
(*                                                                         *)
(* The one for the screen is about the last packet on its way to the       *)
(* client: what precedes it will be painted over.  While the connection is *)
(* open, it is the packet the server remembers as the last one sent, so    *)
(* that leaving out a repaint of that one loses nothing.                   *)
(***************************************************************************)
EXTENDS Services, ListsProofs, FiniteSetTheorems, TLAPS

(* The bots.                                                               *)

BotTypes ==
    /\ bots \in [Bots -> Record \cup {None}]
    /\ botRows \in [Bots -> Record \cup {None}]
    /\ users \in [Names -> {"none", "person", "bot"}]

\* Nobody but a bot is shown as a bot.
PeopleArePeople == \A n \in People : users[n] # "bot"

Waits(record) == record # None /\ record.state = "waiting_for_table"
NobodyWaits ==
    rule = {} => /\ assigned = {}
                 /\ \A b \in Bots : ~Waits(bots[b]) /\ ~Waits(botRows[b])

BotInv == BotTypes /\ PeopleArePeople /\ NobodyWaits /\ OnlineTogether
-----------------------------------------------------------------------------
\* A bot gets a new record, and is shown as a bot if and only if that is online.
LEMMA SetBotKeeps ==
    ASSUME BotInv, NEW b \in Bots, NEW s \in States, NEW t \in Tables \cup {None},
           SetBot(b, s, t),
           botRows' = botRows, assigned' = assigned, rule' = rule,
           users' \in [Names -> {"none", "person", "bot"}],
           \A n \in Names \ {b} : users'[n] = users[n],
           (users'[b] = "bot") <=> (s # "offline"),
           s = "waiting_for_table" => rule # {}
    PROVE  BotInv'
  <1> DEFINE r == [state |-> s, table |-> t]
  <1>1. r \in Record /\ r.state = s /\ r # None
    BY RecordAssumption DEF Record
  <1>2. bots' = [bots EXCEPT ![b] = r]
    BY DEF SetBot
  <1> HIDE DEF r
  <1>3. BotTypes'
    BY <1>1, <1>2 DEF BotInv, BotTypes
  <1>4. bots'[b] = r /\ \A a \in Bots \ {b} : bots'[a] = bots[a]
    BY <1>2 DEF BotInv, BotTypes
  <1>5. PeopleArePeople'
    BY BotsAssumption DEF BotInv, PeopleArePeople, Names
  <1>6. NobodyWaits'
    BY <1>1, <1>4 DEF BotInv, NobodyWaits, Waits
  <1>7. OnlineTogether'
    BY <1>1, <1>4 DEF BotInv, OnlineTogether, Online, Exists, Names
  <1> QED BY <1>3, <1>5, <1>6, <1>7 DEF BotInv

\* Nothing changes that the invariant speaks of.
LEMMA QuietKeeps ==
    ASSUME BotInv, UNCHANGED <<bots, botRows, users, assigned, rule>>
    PROVE  BotInv'
  BY DEF BotInv, BotTypes, PeopleArePeople, NobodyWaits, Waits, OnlineTogether, Online, Exists

\* The invariant of a bot the manager knows.
LEMMA KnownBot ==
    ASSUME BotInv, NEW b \in Bots, Exists(b)
    PROVE  /\ bots[b] \in Record
           /\ bots[b].state \in States /\ bots[b].table \in Tables \cup {None}
           /\ bots[b].state # "offline" => users[b] = "bot"
  BY DEF BotInv, BotTypes, Record, OnlineTogether, Online, Exists
-----------------------------------------------------------------------------
\* What an idle bot does: log off, or sit down somewhere.
LEMMA IdleKeeps ==
    ASSUME BotInv, NEW b \in Bots, Exists(b), bots[b].state = "online_idle", Idle(b),
           UNCHANGED <<rule, assigned, botRows>>
    PROVE  BotInv'
  <1>1. CASE GoOffline(b)
    <2>1. users' = [users EXCEPT ![b] = "none"] /\ SetBot(b, "offline", None)
      BY <1>1 DEF GoOffline
    <2> QED BY <2>1, SetBotKeeps DEF BotInv, BotTypes, States, Names
  <1>2. ASSUME NEW t \in Tables, BotJoins(b, t), UNCHANGED users PROVE BotInv'
    BY <1>2, SetBotKeeps, KnownBot DEF BotJoins, BotInv, BotTypes, States, Names
  <1>3. ASSUME NEW t \in Tables, BotCreates(b, t), UNCHANGED users PROVE BotInv'
    BY <1>3, SetBotKeeps, KnownBot DEF BotCreates, BotInv, BotTypes, States, Names
  <1> QED BY <1>1, <1>2, <1>3 DEF Idle

\* What a bot of a guided table does: there is a rule then.
LEMMA GuidedKeeps ==
    ASSUME BotInv, NEW b \in Bots, Exists(b), bots[b].state = "online_idle", b \in assigned,
           Guided(b), UNCHANGED <<rule, assigned, botRows>>
    PROVE  BotInv'
  <1>1. rule # {} /\ users[b] = "bot" /\ bots[b].table \in Tables \cup {None}
    BY KnownBot DEF BotInv, NobodyWaits
  <1>2. ASSUME NEW t \in Tables \cup {None}, SetBot(b, "waiting_for_table", t), UNCHANGED users
        PROVE  BotInv'
    BY <1>1, <1>2, SetBotKeeps DEF BotInv, BotTypes, States, Names
  <1>3. ASSUME NEW t \in Tables, SetBot(b, "in_game", t), UNCHANGED users
        PROVE  BotInv'
    BY <1>1, <1>3, SetBotKeeps DEF BotInv, BotTypes, States, Names
  <1>4. ASSUME Wait(b) PROVE BotInv'
    BY <1>1, <1>2, <1>4 DEF Wait
  <1> DEFINE l == IF Open(link) THEN link ELSE None
             mine == bots[b].table
  <1>5. CASE mine # None /\ l # None /\ mine # l /\ LeaveTable(b)
             /\ SetBot(b, "waiting_for_table", None) /\ link' = l /\ UNCHANGED <<users, author>>
    BY <1>2, <1>5
  <1>6. ASSUME NEW t \in Tables, BotCreates(b, t), UNCHANGED users PROVE BotInv'
    BY <1>3, <1>6 DEF BotCreates
  <1>7. CASE mine = l /\ Idle(b)
    BY <1>7, IdleKeeps
  <1>8. ASSUME l # None, BotJoins(b, l), UNCHANGED users PROVE BotInv'
    <2>1. l \in Tables
      BY <1>8 DEF Open
    <2> QED BY <1>3, <1>8, <2>1 DEF BotJoins
  <1> QED BY <1>4, <1>5, <1>6, <1>7, <1>8 DEF Guided

LEMMA TickKeeps ==
    ASSUME BotInv, NEW b \in Bots, BotTick(b)
    PROVE  BotInv'
  <1> UNCHANGED <<rule, assigned, botRows>> /\ Exists(b)
    BY DEF BotTick
  <1>1. CASE ComeOnline(b)
    <2>1. /\ users' = [users EXCEPT ![b] = "bot"]
          /\ SetBot(b, "online_idle", bots[b].table)
          /\ bots[b].table \in Tables \cup {None}
      BY <1>1, KnownBot DEF ComeOnline
    <2> QED BY <2>1, SetBotKeeps DEF BotInv, BotTypes, States, Names
  <1>2. CASE StopWaiting(b)
    <2>1. /\ SetBot(b, "online_idle", bots[b].table) /\ users' = users
          /\ users[b] = "bot" /\ bots[b].table \in Tables \cup {None}
      BY <1>2, KnownBot DEF StopWaiting
    <2> QED BY <2>1, SetBotKeeps DEF BotInv, BotTypes, States, Names
  <1>3. CASE PlayOn(b)
    <2>1. /\ users' = users /\ users[b] = "bot" /\ bots[b].table \in Tables \cup {None}
          /\ SetBot(b, "leaving_game", bots[b].table) \/ UNCHANGED bots
      BY <1>3, KnownBot DEF PlayOn
    <2>2. CASE SetBot(b, "leaving_game", bots[b].table)
      BY <2>1, <2>2, SetBotKeeps DEF BotInv, BotTypes, States, Names
    <2>3. CASE UNCHANGED bots
      BY <2>1, <2>3, QuietKeeps
    <2> QED BY <2>1, <2>2, <2>3
  <1>4. CASE QuitTable(b)
    <2>1. CASE GoOffline(b)
      <3>1. users' = [users EXCEPT ![b] = "none"] /\ SetBot(b, "offline", None)
        BY <2>1 DEF GoOffline
      <3> QED BY <3>1, SetBotKeeps DEF BotInv, BotTypes, States, Names
    <2>2. CASE SetBot(b, "online_idle", None) /\ users' = users
      <3>1. users[b] = "bot"
        BY <1>4, KnownBot DEF QuitTable
      <3> QED BY <2>2, <3>1, SetBotKeeps DEF BotInv, BotTypes, States, Names
    <2> QED BY <1>4, <2>1, <2>2 DEF QuitTable
  <1>5. CASE bots[b].state = "online_idle" /\ b \in assigned /\ Guided(b)
    BY <1>5, GuidedKeeps
  <1>6. CASE bots[b].state = "online_idle" /\ b \notin assigned /\ Idle(b)
    BY <1>6, IdleKeeps
  <1> QED BY <1>1, <1>2, <1>3, <1>4, <1>5, <1>6 DEF BotTick

LEMMA RefreshKeeps == ASSUME BotInv, Refresh PROVE BotInv'
  <1>1. rule' = rule /\ rule # {} /\ UNCHANGED <<botRows, users>>
    BY DEF Refresh, disk
  <1>2. bots' \in [Bots -> Record \cup {None}]
    <2> SUFFICES \A b \in Bots : bots[b] # None => [bots[b] EXCEPT !.table = None] \in Record
      BY DEF Refresh, BotInv, BotTypes, Exists
    <2> QED BY DEF BotInv, BotTypes, Record
  <1>3. \A b \in Bots : /\ bots'[b] # None <=> bots[b] # None
                        /\ bots[b] # None => bots'[b].state = bots[b].state
    <2> SUFFICES ASSUME NEW b \in Bots
                 PROVE  /\ bots'[b] # None <=> bots[b] # None
                        /\ bots[b] # None => bots'[b].state = bots[b].state
      OBVIOUS
    <2>1. CASE bots'[b] = bots[b]
      BY <2>1
    <2>2. CASE bots'[b] # bots[b]
      <3>1. bots[b] # None /\ bots'[b] = [bots[b] EXCEPT !.table = None]
        BY <2>2 DEF Refresh, Exists
      <3>2. bots[b] \in Record
        BY <3>1 DEF BotInv, BotTypes
      <3>3. bots'[b] \in Record /\ bots'[b].state = bots[b].state
        BY <3>1, <3>2 DEF Record
      <3> QED BY <3>1, <3>3, RecordAssumption
    <2> QED BY <2>1, <2>2
  <1> QED
    BY <1>1, <1>2, <1>3
    DEF BotInv, BotTypes, PeopleArePeople, NobodyWaits, OnlineTogether, Online, Exists
-----------------------------------------------------------------------------
LEMMA FillKeeps == ASSUME BotInv, Fill PROVE BotInv'
  <1> DEFINE new == {b \in Bots : ~Exists(b)}
             idle == [state |-> "online_idle", table |-> None]
             off == [state |-> "offline", table |-> None]
  <1>1. PICK half \in SUBSET new :
          LET up == {b \in half : users[b] = "none"}
          IN  /\ bots' = [b \in Bots |-> IF b \in up THEN idle
                                         ELSE IF b \in new THEN off ELSE bots[b]]
              /\ users' = [n \in Names |-> IF n \in up THEN "bot" ELSE users[n]]
    BY DEF Fill
  <1>2. botRows' = bots' /\ UNCHANGED <<rule, assigned>>
    BY DEF Fill
  <1>3. /\ idle \in Record /\ idle # None /\ idle.state = "online_idle"
        /\ off \in Record /\ off # None /\ off.state = "offline"
    BY RecordAssumption DEF Record, States
  <1> HIDE DEF idle, off
  <1>4. BotTypes'
    BY <1>1, <1>2, <1>3 DEF BotInv, BotTypes, Exists
  <1>5. PeopleArePeople'
    BY <1>1, BotsAssumption DEF BotInv, PeopleArePeople, Names
  <1>6. NobodyWaits'
    BY <1>1, <1>2, <1>3 DEF BotInv, NobodyWaits, Waits
  <1>7. OnlineTogether'
    BY <1>1, <1>2, <1>3 DEF BotInv, OnlineTogether, Online, Exists, Names
  <1> QED BY <1>4, <1>5, <1>6, <1>7 DEF BotInv

LEMMA ClearKeeps == ASSUME BotInv, Clear PROVE BotInv'
  <1>1. /\ bots' = [b \in Bots |-> None] /\ botRows' = [b \in Bots |-> None]
        /\ UNCHANGED <<rule, assigned>>
        /\ users' = [n \in Names |->
              IF n \in Bots /\ Exists(n)
                 /\ bots[n].state \in {"online_idle", "in_game", "leaving_game"}
              THEN "none" ELSE users[n]]
    BY DEF Clear
  <1>2. BotTypes' /\ PeopleArePeople' /\ NobodyWaits'
    BY <1>1 DEF BotInv, BotTypes, PeopleArePeople, NobodyWaits, Waits, Names
  <1>3. OnlineTogether'
    <2> SUFFICES ASSUME NEW b \in Bots, rule = {} PROVE users'[b] # "bot"
      BY <1>1 DEF OnlineTogether, Online, Exists
    <2>1. users[b] = "bot" => /\ Exists(b) /\ bots[b].state # "offline"
                              /\ bots[b].state # "waiting_for_table"
      BY DEF BotInv, OnlineTogether, Online, NobodyWaits, Waits, Exists
    <2>2. Exists(b) => bots[b].state \in States
      BY KnownBot
    <2> QED BY <1>1, <2>1, <2>2 DEF States, Names
  <1> QED BY <1>2, <1>3 DEF BotInv

\* A person takes the name: a bot of that name is offline from then on.
LEMMA LoginKeeps == ASSUME BotInv, NEW n \in Accounts, Login(n) PROVE BotInv'
  <1>1. /\ n \in Names /\ users[n] # "person" /\ users' = [users EXCEPT ![n] = "person"]
        /\ UNCHANGED <<rule, assigned, botRows>>
    BY BotsAssumption DEF Login, Accounts, Names
  <1>2. CASE users[n] = "bot"
    <2>1. n \in Bots
      BY <1>2, BotsAssumption DEF BotInv, PeopleArePeople, Accounts
    <2>2. SetBot(n, "offline", None)
      BY <1>2 DEF Login, TakeOffline
    <2> QED BY <1>1, <2>1, <2>2, SetBotKeeps DEF BotInv, BotTypes, States
  <1>3. CASE users[n] # "bot"
    <2>1. bots' = bots
      BY <1>3 DEF Login
    <2> QED
      BY <1>1, <1>3, <2>1
      DEF BotInv, BotTypes, PeopleArePeople, NobodyWaits, OnlineTogether, Online, Exists, Names
  <1> QED BY <1>2, <1>3

LEMMA DropKeeps == ASSUME BotInv, NEW n \in Accounts, Drop(n) PROVE BotInv'
  <1>1. /\ n \in Names /\ users[n] = "person" /\ users' = [users EXCEPT ![n] = "none"]
        /\ UNCHANGED <<rule, assigned, botRows, bots>>
    BY BotsAssumption DEF Drop, Accounts, Names, botVars
  <1> QED
    BY <1>1
    DEF BotInv, BotTypes, PeopleArePeople, NobodyWaits, OnlineTogether, Online, Exists, Names

\* A restart shows the bots as the rows have them.
LEMMA LoadKeeps ==
    ASSUME BotInv, NEW records \in {bots, botRows}, NEW pictures, Load(records, pictures),
           botRows' \in {bots, botRows}
    PROVE  BotInv'
  <1>1. /\ bots' = records /\ assigned' = {} /\ rule' = rule
        /\ users' = [n \in Names |->
              IF n \in Bots /\ records[n] # None /\ records[n].state # "offline"
              THEN "bot" ELSE "none"]
    BY DEF Load
  <1>2. BotTypes' /\ PeopleArePeople'
    BY <1>1, BotsAssumption DEF BotInv, BotTypes, PeopleArePeople, Names
  <1>3. NobodyWaits'
    BY <1>1 DEF BotInv, NobodyWaits
  <1>4. OnlineTogether'
    BY <1>1 DEF OnlineTogether, Online, Exists, Names
  <1> QED BY <1>2, <1>3, <1>4 DEF BotInv
-----------------------------------------------------------------------------
LEMMA BotInit == Init => BotInv
  BY DEF Init, BotInv, BotTypes, PeopleArePeople, NobodyWaits, Waits, OnlineTogether, Online,
         Exists, Names

LEMMA BotStep == ASSUME BotInv, [Next]_vars PROVE BotInv'
  <1>1. ASSUME NEW b \in Bots, BotTick(b) PROVE BotInv'
    BY <1>1, TickKeeps
  <1>2. CASE Refresh
    BY <1>2, RefreshKeeps
  <1>3. CASE Fill
    BY <1>3, FillKeeps
  <1>4. CASE Clear
    BY <1>4, ClearKeeps
  <1>5. CASE Persist
    BY <1>5, QuietKeeps DEF Persist, botVars
  <1>6. CASE Stop
    BY <1>6, LoadKeeps DEF Stop
  <1>7. CASE Crash
    BY <1>7, LoadKeeps DEF Crash, disk
  <1>8. ASSUME NEW n \in Accounts, Login(n) PROVE BotInv'
    BY <1>8, LoginKeeps
  <1>9. ASSUME NEW n \in Accounts, Return(n) \/ Acts(n) PROVE BotInv'
    BY <1>9, QuietKeeps DEF Return, Acts, botVars, disk
  <1>10. ASSUME NEW n \in Accounts, Drop(n) PROVE BotInv'
    BY <1>10, DropKeeps
  <1>11. ASSUME NEW t \in Tables, Finish(t) PROVE BotInv'
    BY <1>11, QuietKeeps DEF Finish, botVars
  <1>12. CASE UNCHANGED vars
    BY <1>12, QuietKeeps DEF vars, botVars, disk
  <1> QED
    BY <1>1, <1>2, <1>3, <1>4, <1>5, <1>6, <1>7, <1>8, <1>9, <1>10, <1>11, <1>12 DEF Next

\* A bot the manager has online is shown online, and without a guided table the other
\* way round: so a person who owns a bot's name can always log in (server.py:1340),
\* after any ticks, fills, clears, logins, crashes and restarts.
THEOREM BotsShownAsTheyAre == Spec => []OnlineTogether
  <1>1. BotInv => OnlineTogether
    BY DEF BotInv
  <1>2. BotInv /\ [Next]_vars => BotInv'
    BY BotStep
  <1> QED BY <1>1, <1>2, BotInit, PTL DEF Spec
-----------------------------------------------------------------------------
(* The tables.  GameInv is about the tables and their rows alone; RecordInv  *)
(* about what the manager's records, in memory and as rows, say of them.     *)

GameTypes ==
    /\ status \in [Tables -> {"unused", "closed"} \cup Live]
    /\ members \in [Tables -> SUBSET Names]
    /\ seats \in [Tables -> SUBSET (Names \X Kinds)]
    /\ host \in [Tables -> Names \cup {None}]
    /\ \A t \in Tables : status[t] \in Live => host[t] # None
    /\ author \in [Tables -> {"person", "vbot", None}]
    /\ tableRows \in [Tables -> Picture \cup {None}]

\* A table the bots created is hosted by one of them; until its game starts, that
\* one is a member and has no seat but its own.
BotHosted(picture) ==
    /\ picture.host \in Bots
    /\ picture.status = "waiting" =>
          /\ picture.host \in picture.members
          /\ \A k \in Kinds \ {"vbot"} : <<picture.host, k>> \notin picture.seats
HostsSound == \A t \in Tables : author[t] = "vbot" =>
    /\ Open(t) => BotHosted(TablePicture(t))
    /\ tableRows[t] # None => BotHosted(tableRows[t])

RowsOpen == \A t \in Tables : tableRows[t] # None => Open(t)
OpenTables == {t \in Tables : Open(t)}

GameInv == GameTypes /\ HostsSound /\ RowsOpen /\ IsFiniteSet(OpenTables)

\* A record names a table only in a game or on the way out of one; the table has been
\* opened; and who is on the way out has seen the game finished, or the table closed.
RecordSound(record) == record # None /\ record.table # None =>
    /\ record.state \in {"in_game", "leaving_game"}
    /\ status[record.table] # "unused"
    /\ record.state = "leaving_game" => status[record.table] \in {"finished", "closed"}
RowSound(record) ==
    /\ RecordSound(record)
    /\ record # None /\ record.table # None /\ record.state = "leaving_game" =>
          LET row == tableRows[record.table] IN row # None => row.status = "finished"

\* The manager knows every bot or none.
AllKnown(records) == (\A b \in Bots : records[b] # None) \/ (\A b \in Bots : records[b] = None)

RecordInv ==
    /\ bots \in [Bots -> Record \cup {None}] /\ botRows \in [Bots -> Record \cup {None}]
    /\ \A b \in Bots : RecordSound(bots[b]) /\ RowSound(botRows[b])
    /\ AllKnown(bots) /\ AllKnown(botRows)

\* What every step but a restart does to the tables: none goes back, no row is new,
\* and no table of the bots is opened.
Onward == \A t \in Tables :
    /\ status[t] # "unused" => status'[t] # "unused"
    /\ status[t] \in {"finished", "closed"} => status'[t] \in {"finished", "closed"}
    /\ tableRows'[t] # None => tableRows'[t] = tableRows[t]
NoBotTable == \A t \in Tables :
    Open(t)' /\ author'[t] = "vbot" => Open(t) /\ author[t] = "vbot"
-----------------------------------------------------------------------------
LEMMA DestroyGame ==
    ASSUME GameInv, NEW ts, Destroy(ts), author' = author
    PROVE  GameInv' /\ Onward /\ NoBotTable
  <1>1. /\ status' = [t \in Tables |-> IF t \in ts THEN "closed" ELSE status[t]]
        /\ members' = [t \in Tables |-> IF t \in ts THEN {} ELSE members[t]]
        /\ seats' = [t \in Tables |-> IF t \in ts THEN {} ELSE seats[t]]
        /\ host' = [t \in Tables |-> IF t \in ts THEN None ELSE host[t]]
        /\ tableRows' = [t \in Tables |-> IF t \in ts THEN None ELSE tableRows[t]]
    BY DEF Destroy
  <1>2. GameTypes'
    BY <1>1 DEF GameInv, GameTypes, Live
  <1>3. \A t \in Tables : Open(t)' => Open(t) /\ t \notin ts
    BY <1>1 DEF Open, Live
  <1>4. HostsSound'
    BY <1>1, <1>3 DEF GameInv, HostsSound, BotHosted, TablePicture
  <1>5. RowsOpen'
    BY <1>1 DEF GameInv, RowsOpen, Open
  <1>6. IsFiniteSet(OpenTables')
    <2>1. OpenTables' \in SUBSET OpenTables
      BY <1>3 DEF OpenTables
    <2> QED BY <2>1, FS_Subset DEF GameInv
  <1>7. Onward /\ NoBotTable
    BY <1>1, <1>3 DEF Onward, NoBotTable
  <1> QED BY <1>2, <1>4, <1>5, <1>6, <1>7 DEF GameInv

\* A new table, by a person or, as a virtual bot's, by a bot.
LEMMA CreateGame ==
    ASSUME GameInv, NEW n \in Names, NEW kind \in {"person", "vbot"}, NEW t \in Tables,
           kind = "vbot" => n \in Bots,
           Create(n, kind, t), tableRows' = tableRows
    PROVE  /\ GameInv' /\ Onward
           /\ kind = "person" => NoBotTable
           /\ status[t] = "unused" /\ OpenTables' = OpenTables \cup {t}
           /\ \A s \in Tables \ {t} : author'[s] = author[s]
  <1>1. /\ status[t] = "unused"
        /\ status' = [status EXCEPT ![t] = "waiting"]
        /\ members' = [members EXCEPT ![t] = {n}]
        /\ seats' = [seats EXCEPT ![t] = {<<n, kind>>}]
        /\ host' = [host EXCEPT ![t] = n]
        /\ author' = [author EXCEPT ![t] = kind]
    BY DEF Create
  <1>2. n # None /\ n \in Names /\ kind \in Kinds /\ "waiting" \in Live
    BY BotsAssumption DEF Names, Kinds, Live
  <1>3. GameTypes'
    <2>1. status' \in [Tables -> {"unused", "closed"} \cup Live]
      BY <1>1, <1>2 DEF GameInv, GameTypes
    <2>2. members' \in [Tables -> SUBSET Names] /\ host' \in [Tables -> Names \cup {None}]
      BY <1>1, <1>2 DEF GameInv, GameTypes
    <2>3. seats' \in [Tables -> SUBSET (Names \X Kinds)]
      BY <1>1, <1>2 DEF GameInv, GameTypes
    <2>4. \A s \in Tables : status'[s] \in Live => host'[s] # None
      BY <1>1, <1>2 DEF GameInv, GameTypes
    <2>5. author' \in [Tables -> {"person", "vbot", None}]
      BY <1>1 DEF GameInv, GameTypes
    <2> QED BY <2>1, <2>2, <2>3, <2>4, <2>5 DEF GameInv, GameTypes
  <1>4. /\ ~Open(t) /\ Open(t)' /\ tableRows[t] = None
        /\ \A s \in Tables \ {t} : /\ Open(s)' <=> Open(s)
                                   /\ TablePicture(s)' = TablePicture(s)
                                   /\ author'[s] = author[s]
    BY <1>1 DEF Open, Live, TablePicture, GameInv, GameTypes, RowsOpen
  <1>5. HostsSound'
    <2>1. author'[t] = "vbot" => BotHosted(TablePicture(t))'
      BY <1>1 DEF BotHosted, TablePicture, GameInv, GameTypes
    <2> QED BY <1>4, <2>1 DEF GameInv, HostsSound, BotHosted
  <1>6. RowsOpen'
    BY <1>4 DEF GameInv, RowsOpen
  <1>7. OpenTables' = OpenTables \cup {t}
    BY <1>4 DEF OpenTables
  <1>8. IsFiniteSet(OpenTables')
    BY <1>7, FS_AddElement DEF GameInv
  <1>9. Onward /\ (kind = "person" => NoBotTable)
    BY <1>1, <1>4 DEF Onward, NoBotTable, GameInv, GameTypes
  <1> QED BY <1>1, <1>3, <1>4, <1>5, <1>6, <1>7, <1>8, <1>9 DEF GameInv

\* Somebody enters a table: a bot takes its seat, or somebody who was at no table.
LEMMA EnterGame ==
    ASSUME GameInv, NEW n \in Names, NEW kind \in Kinds, NEW t \in Tables, Open(t),
           kind = "vbot" \/ n \notin members[t],
           Enter(n, kind, t), tableRows' = tableRows
    PROVE  GameInv' /\ Onward /\ NoBotTable
  <1>1. /\ members' = [members EXCEPT ![t] = @ \cup {n}]
        /\ seats' = [seats EXCEPT ![t] = @ \cup {<<n, kind>>}]
        /\ UNCHANGED <<status, host, author>>
    BY DEF Enter
  <1>2. GameTypes'
    BY <1>1 DEF GameInv, GameTypes
  <1>3. HostsSound'
    <2> SUFFICES ASSUME NEW s \in Tables, author[s] = "vbot", Open(s), s = t
                 PROVE  BotHosted(TablePicture(s))'
      BY <1>1 DEF GameInv, GameTypes, HostsSound, BotHosted, TablePicture, Open
    <2>1. BotHosted(TablePicture(t))
      BY DEF GameInv, HostsSound
    <2> QED BY <1>1, <2>1 DEF BotHosted, TablePicture, GameInv, GameTypes
  <1> QED
    BY <1>1, <1>2, <1>3 DEF GameInv, RowsOpen, OpenTables, Open, Onward, NoBotTable

\* A bot leaves a table whose game is finished, or that is closed.
LEMMA RemoveGame ==
    ASSUME GameInv, NEW n \in Names, NEW t \in Tables, status[t] # "waiting",
           RemoveMember(n, t), author' = author
    PROVE  GameInv' /\ Onward /\ NoBotTable
  <1>1. CASE members[t] \subseteq {n}
    BY <1>1, DestroyGame DEF RemoveMember
  <1>2. CASE ~(members[t] \subseteq {n})
    <2>1. /\ members' = [members EXCEPT ![t] = @ \ {n}]
          /\ UNCHANGED <<status, seats, host, tableRows>>
      BY <1>2 DEF RemoveMember
    <2>2. GameTypes'
      BY <2>1 DEF GameInv, GameTypes
    <2>3. HostsSound'
      BY <2>1 DEF GameInv, GameTypes, HostsSound, BotHosted, TablePicture, Open
    <2> QED
      BY <2>1, <2>2, <2>3 DEF GameInv, RowsOpen, OpenTables, Open, Onward, NoBotTable
  <1> QED BY <1>1, <1>2
\* A person leaves a game, for good or until the reconnection.  The host of a waiting
\* table of the bots is none of those who can.
LEMMA LeaveGameKeeps ==
    ASSUME GameInv, NEW n \in Names, NEW t \in Tables, NEW leaves \in BOOLEAN,
           leaves => members[t] = {n} \/ SeatsOf(n, t) \cap {<<n, "person">>, <<n, "watch">>} # {},
           LeaveGame(n, t, leaves), author' = author
    PROVE  GameInv' /\ Onward /\ NoBotTable
  <1>1. CASE Abandoned(n, t) \/ (leaves /\ members[t] = {n})
    BY <1>1, DestroyGame DEF LeaveGame
  <1>2. CASE ~(Abandoned(n, t) \/ (leaves /\ members[t] = {n}))
    <2> DEFINE heir == (CHOOSE p \in Humans(SeatsAfter(n, t)) : TRUE)[1]
               hands == host[t] = n /\ status[t] = "waiting" /\ <<n, "person">> \in seats[t]
    <2>1. /\ seats' = [seats EXCEPT ![t] = SeatsAfter(n, t)]
          /\ members' = [members EXCEPT ![t] = IF leaves THEN members[t] \ {n} ELSE members[t]]
          /\ host' = [host EXCEPT ![t] = IF hands THEN heir ELSE host[t]]
          /\ UNCHANGED <<status, tableRows>>
      BY <1>2 DEF LeaveGame
    <2>2. SeatsAfter(n, t) \in SUBSET (Names \X Kinds)
      BY DEF SeatsAfter, GameInv, GameTypes, Kinds
    <2>3. hands => heir \in Names
      <3> SUFFICES ASSUME hands PROVE heir \in Names
        OBVIOUS
      <3>1. <<n, "person">> \in SeatsOf(n, t)
        BY DEF SeatsOf
      <3>2. Humans(SeatsAfter(n, t)) # {}
        BY <1>2, <3>1 DEF Abandoned
      <3>3. (CHOOSE p \in Humans(SeatsAfter(n, t)) : TRUE) \in Humans(SeatsAfter(n, t))
        BY <3>2
      <3>4. Humans(SeatsAfter(n, t)) \subseteq Names \X Kinds
        BY <2>2 DEF Humans
      <3> QED BY <3>3, <3>4
    <2> HIDE DEF heir
    <2>4. GameTypes'
      <3>1. host' \in [Tables -> Names \cup {None}]
        BY <2>1, <2>3 DEF GameInv, GameTypes
      <3>2. \A s \in Tables : status'[s] \in Live => host'[s] # None
        BY <2>1, <2>3, BotsAssumption DEF GameInv, GameTypes, Names
      <3>3. seats' \in [Tables -> SUBSET (Names \X Kinds)]
        BY <2>1, <2>2 DEF GameInv, GameTypes
      <3>4. members' \in [Tables -> SUBSET Names]
        BY <2>1 DEF GameInv, GameTypes
      <3> QED BY <2>1, <3>1, <3>2, <3>3, <3>4 DEF GameInv, GameTypes
    <2>5. HostsSound'
      <3> SUFFICES ASSUME NEW s \in Tables, author[s] = "vbot", Open(s), s = t
                   PROVE  BotHosted(TablePicture(s))'
        BY <2>1 DEF GameInv, GameTypes, HostsSound, BotHosted, TablePicture, Open
      <3>1. /\ host[t] \in Bots
            /\ status[t] = "waiting" =>
                 /\ host[t] \in members[t]
                 /\ \A k \in Kinds \ {"vbot"} : <<host[t], k>> \notin seats[t]
        BY DEF GameInv, HostsSound, BotHosted, TablePicture
      <3>2. host'[t] = host[t] /\ status' = status
        BY <2>1, <3>1 DEF GameInv, GameTypes, Kinds
      <3>3. ASSUME status[t] = "waiting" PROVE host[t] \in members'[t]
        <4>1. SeatsOf(host[t], t) \cap {<<host[t], "person">>, <<host[t], "watch">>} = {}
          BY <3>1, <3>3 DEF Kinds, SeatsOf
        <4> QED BY <1>2, <2>1, <3>1, <3>3, <4>1 DEF GameInv, GameTypes
      <3>4. ASSUME status[t] = "waiting", NEW k \in Kinds \ {"vbot"}
            PROVE  <<host[t], k>> \notin seats'[t]
        <4>1. SeatsAfter(n, t) \subseteq seats[t]
          BY <3>4 DEF SeatsAfter
        <4> QED BY <2>1, <3>1, <3>4, <4>1 DEF GameInv, GameTypes
      <3> QED BY <3>1, <3>2, <3>3, <3>4 DEF BotHosted, TablePicture
    <2> QED
      BY <2>1, <2>4, <2>5 DEF GameInv, RowsOpen, OpenTables, Open, Onward, NoBotTable
  <1> QED BY <1>1, <1>2

\* A waiting game starts, or a bot is sent away from it.
LEMMA LobbyGame ==
    ASSUME GameInv, NEW t \in Tables, status[t] = "waiting",
           \/ status' = [status EXCEPT ![t] = "playing"] /\ UNCHANGED seats
           \/ \E p \in seats[t] : seats' = [seats EXCEPT ![t] = @ \ {p}] /\ UNCHANGED status,
           UNCHANGED <<members, host, author, tableRows>>
    PROVE  GameInv' /\ Onward /\ NoBotTable
  <1>1. \A s \in Tables : /\ Open(s)' <=> Open(s)
                          /\ seats'[s] \subseteq seats[s]
                          /\ status'[s] \in {status[s], "playing"}
    BY DEF GameInv, GameTypes, Open, Live
  <1>2. GameTypes'
    <2>1. status' \in [Tables -> {"unused", "closed"} \cup Live]
      BY DEF GameInv, GameTypes, Live
    <2>2. seats' \in [Tables -> SUBSET (Names \X Kinds)]
      BY DEF GameInv, GameTypes
    <2>3. \A s \in Tables : status'[s] \in Live => host'[s] # None
      BY <1>1 DEF Open, GameInv, GameTypes
    <2> QED BY <2>1, <2>2, <2>3 DEF GameInv, GameTypes
  <1>3. HostsSound'
    BY <1>1 DEF GameInv, HostsSound, BotHosted, TablePicture
  <1>4. Onward
    BY DEF Onward, GameInv, GameTypes
  <1> QED BY <1>1, <1>2, <1>3, <1>4 DEF GameInv, RowsOpen, OpenTables, NoBotTable

LEMMA QuietGame ==
    ASSUME GameInv, UNCHANGED <<gameVars, author, tableRows>>
    PROVE  GameInv' /\ Onward /\ NoBotTable
  BY DEF GameInv, GameTypes, HostsSound, BotHosted, TablePicture, RowsOpen, OpenTables, Open,
         Onward, NoBotTable, gameVars
-----------------------------------------------------------------------------
\* The manager changes one record of a bot it knows.
LEMMA SetRecord ==
    ASSUME RecordInv, GameTypes, Onward, NEW b \in Bots, Exists(b),
           NEW s \in States, NEW t \in Tables \cup {None}, SetBot(b, s, t), botRows' = botRows,
           t # None => /\ s \in {"in_game", "leaving_game"} /\ status'[t] # "unused"
                       /\ s = "leaving_game" => status'[t] \in {"finished", "closed"}
    PROVE  RecordInv'
  <1> DEFINE r == [state |-> s, table |-> t]
  <1>1. r \in Record /\ r.state = s /\ r.table = t /\ r # None
    BY RecordAssumption DEF Record
  <1>2. bots' = [bots EXCEPT ![b] = r]
    BY DEF SetBot
  <1> HIDE DEF r
  <1>3. bots' \in [Bots -> Record \cup {None}]
    BY <1>1, <1>2 DEF RecordInv
  <1>4. \A a \in Bots : RecordSound(bots[a])' /\ RowSound(botRows[a])'
    <2> SUFFICES ASSUME NEW a \in Bots PROVE RecordSound(bots[a])' /\ RowSound(botRows[a])'
      OBVIOUS
    <2>1. RecordSound(bots[a])'
      <3>1. CASE a = b
        BY <1>1, <1>2, <3>1 DEF RecordInv, RecordSound
      <3>2. CASE a # b
        BY <1>2, <3>2 DEF RecordInv, RecordSound, Record, Onward
      <3> QED BY <3>1, <3>2
    <2>2. RowSound(botRows[a])'
      BY DEF RecordInv, RecordSound, RowSound, Record, Onward
    <2> QED BY <2>1, <2>2
  <1>5. AllKnown(bots)' /\ AllKnown(botRows)'
    BY <1>1, <1>2 DEF RecordInv, AllKnown, Exists
  <1> QED BY <1>3, <1>4, <1>5 DEF RecordInv

LEMMA QuietRecords ==
    ASSUME RecordInv, Onward, UNCHANGED <<bots, botRows>>
    PROVE  RecordInv'
  BY DEF RecordInv, RecordSound, RowSound, AllKnown, Record, Onward

\* What the record of a known bot says.
LEMMA RecordOf ==
    ASSUME RecordInv, NEW b \in Bots, Exists(b)
    PROVE  /\ bots[b].state \in States /\ bots[b].table \in Tables \cup {None}
           /\ bots[b].table # None =>
                /\ bots[b].state \in {"in_game", "leaving_game"}
                /\ status[bots[b].table] # "unused"
                /\ bots[b].state = "leaving_game" =>
                      status[bots[b].table] \in {"finished", "closed"}
  BY DEF RecordInv, RecordSound, Record, Exists
-----------------------------------------------------------------------------
(* One step.  A bot's step may open a table for the bots; nothing else does. *)

BotOpens == \E b \in Bots, t \in Tables : Exists(b) /\ BotCreates(b, t)
Kept == GameInv' /\ RecordInv' /\ (NoBotTable \/ BotOpens)

\* A bot at an open table leaves it only when the game is finished.
LEMMA LeaveTableKeeps ==
    ASSUME GameInv, RecordInv, NEW b \in Bots, Exists(b),
           bots[b].state \in {"online_idle", "leaving_game"}, LeaveTable(b), author' = author,
           NEW s \in States, SetBot(b, s, None), botRows' = botRows
    PROVE  Kept
  <1>1. GameInv' /\ Onward /\ NoBotTable
    <2>1. CASE TableOf(b) = None
      BY <2>1, QuietGame DEF LeaveTable
    <2>2. CASE TableOf(b) # None
      <3>1. TableOf(b) = bots[b].table /\ TableOf(b) \in Tables
        BY <2>2 DEF TableOf, Open
      <3>2. status[TableOf(b)] # "waiting"
        BY <3>1, RecordOf, BotsAssumption
      <3> QED BY <2>2, <3>1, <3>2, RemoveGame DEF LeaveTable, Names
    <2> QED BY <2>1, <2>2
  <1>2. RecordInv'
    BY <1>1, SetRecord DEF GameInv
  <1> QED BY <1>1, <1>2 DEF Kept

LEMMA IdleTables ==
    ASSUME GameInv, RecordInv, NEW b \in Bots, Exists(b), bots[b].state = "online_idle",
           Idle(b), botRows' = botRows
    PROVE  Kept
  <1>1. CASE GoOffline(b)
    BY <1>1, LeaveTableKeeps DEF GoOffline, States
  <1>2. ASSUME NEW t \in Tables, BotJoins(b, t), UNCHANGED tableRows PROVE Kept
    <2>1. Open(t) /\ Enter(b, "vbot", t) /\ SetBot(b, "in_game", t)
      BY <1>2 DEF BotJoins
    <2>2. GameInv' /\ Onward /\ NoBotTable
      BY <1>2, <2>1, EnterGame DEF Names, Kinds
    <2>3. status'[t] # "unused"
      BY <2>1 DEF Enter, Open, Live
    <2>4. RecordInv'
      BY <2>1, <2>2, <2>3, SetRecord DEF GameInv, States
    <2> QED BY <2>2, <2>4 DEF Kept
  <1>3. ASSUME NEW t \in Tables, BotCreates(b, t), UNCHANGED tableRows PROVE Kept
    <2>1. Create(b, "vbot", t) /\ SetBot(b, "in_game", t)
      BY <1>3 DEF BotCreates
    <2>2. GameInv' /\ Onward
      BY <1>3, <2>1, CreateGame DEF Names
    <2>3. status'[t] # "unused"
      BY <2>1 DEF Create, GameInv, GameTypes
    <2>4. RecordInv'
      BY <2>1, <2>2, <2>3, SetRecord DEF GameInv, States
    <2> QED BY <1>3, <2>2, <2>4 DEF Kept, BotOpens
  <1> QED BY <1>1, <1>2, <1>3 DEF Idle
\* A bot of a guided table.  When it is idle its record names no table, so it leaves none.
LEMMA GuidedTables ==
    ASSUME GameInv, RecordInv, NEW b \in Bots, Exists(b), bots[b].state = "online_idle",
           Guided(b), botRows' = botRows
    PROVE  Kept
  <1> DEFINE l == IF Open(link) THEN link ELSE None
  <1>1. bots[b].table = None
    BY RecordOf
  <1>2. ASSUME Wait(b) PROVE Kept
    <2>1. GameInv' /\ Onward /\ NoBotTable
      BY <1>2, QuietGame DEF Wait
    <2>2. RecordInv'
      BY <1>1, <1>2, <2>1, SetRecord DEF Wait, GameInv, States
    <2> QED BY <2>1, <2>2 DEF Kept
  <1>3. ASSUME NEW t \in Tables, BotCreates(b, t) \/ BotJoins(b, t), UNCHANGED tableRows
        PROVE  Kept
    <2>1. SetBot(b, "in_game", t) /\ GameInv' /\ Onward /\ (NoBotTable \/ BotOpens)
      <3>1. CASE BotCreates(b, t)
        BY <1>3, <3>1, CreateGame DEF BotCreates, BotOpens, Names
      <3>2. CASE BotJoins(b, t)
        BY <1>3, <3>2, EnterGame DEF BotJoins, Names, Kinds
      <3> QED BY <1>3, <3>1, <3>2
    <2>2. status'[t] # "unused"
      BY <1>3 DEF BotCreates, BotJoins, Create, Enter, Open, Live, GameInv, GameTypes
    <2>3. RecordInv'
      BY <2>1, <2>2, SetRecord DEF GameInv, States
    <2> QED BY <2>1, <2>3 DEF Kept
  <1>4. ASSUME l # None, Idle(b) PROVE Kept
    BY <1>4, IdleTables
  <1>5. l # None => l \in Tables
    BY DEF Open
  <1> QED BY <1>1, <1>2, <1>3, <1>4, <1>5 DEF Guided

LEMMA TickTables ==
    ASSUME GameInv, RecordInv, NEW b \in Bots, BotTick(b)
    PROVE  Kept
  <1> botRows' = botRows /\ Exists(b)
    BY DEF BotTick
  <1>1. CASE ComeOnline(b) \/ StopWaiting(b)
    <2>1. bots[b].table = None /\ SetBot(b, "online_idle", bots[b].table)
      BY <1>1, RecordOf DEF ComeOnline, StopWaiting
    <2>2. GameInv' /\ Onward /\ NoBotTable
      BY <1>1, QuietGame DEF ComeOnline, StopWaiting
    <2>3. RecordInv'
      BY <2>1, <2>2, SetRecord DEF GameInv, States
    <2> QED BY <2>2, <2>3 DEF Kept
  <1>2. CASE PlayOn(b)
    <2> DEFINE t == bots[b].table
    <2>1. /\ t \in Tables /\ status[t] # "unused"
          /\ UNCHANGED <<members, seats, host, author, tableRows>>
      BY <1>2, RecordOf DEF PlayOn
    <2>2. CASE /\ ~Open(t) \/ status[t] = "finished"
               /\ SetBot(b, "leaving_game", t) /\ UNCHANGED status
      <3>1. GameInv' /\ Onward /\ NoBotTable
        BY <2>1, <2>2, QuietGame DEF gameVars
      <3>2. status'[t] \in {"finished", "closed"}
        BY <2>1, <2>2 DEF Open, Live, GameInv, GameTypes
      <3>3. RecordInv'
        BY <2>1, <2>2, <3>1, <3>2, SetRecord DEF GameInv, States
      <3> QED BY <3>1, <3>3 DEF Kept
    <2>3. CASE /\ status[t] = "waiting" /\ status' = [status EXCEPT ![t] = "playing"]
               /\ UNCHANGED bots /\ SeatsOf(b, t) # {}
      <3>1. PICK p \in seats[t] : TRUE
        BY <2>3 DEF SeatsOf
      <3>2. seats' = seats
        BY <2>1
      <3>3. GameInv' /\ Onward /\ NoBotTable
        BY <2>1, <2>3, <3>2, LobbyGame
      <3> QED BY <2>3, <3>3, QuietRecords DEF Kept
    <2> QED BY <1>2, <2>2, <2>3 DEF PlayOn
  <1>3. CASE QuitTable(b)
    BY <1>3, LeaveTableKeeps DEF QuitTable, GoOffline, States
  <1>4. CASE bots[b].state = "online_idle" /\ Guided(b)
    BY <1>4, GuidedTables
  <1>5. CASE bots[b].state = "online_idle" /\ Idle(b)
    BY <1>5, IdleTables
  <1> QED BY <1>1, <1>2, <1>3, <1>4, <1>5 DEF BotTick

LEMMA RefreshTables == ASSUME GameInv, RecordInv, Refresh PROVE Kept
  <1>1. GameInv' /\ Onward /\ NoBotTable /\ botRows' = botRows
    BY QuietGame DEF Refresh, disk
  <1>2. \A b \in Bots : \/ bots'[b] = bots[b]
                        \/ /\ bots[b] # None /\ bots'[b] \in Record
                           /\ bots'[b].table = None
    <2> SUFFICES ASSUME NEW b \in Bots, bots'[b] # bots[b]
                 PROVE  bots[b] # None /\ bots'[b] \in Record /\ bots'[b].table = None
      OBVIOUS
    <2>1. bots[b] # None /\ bots'[b] = [bots[b] EXCEPT !.table = None]
      BY DEF Refresh, Exists
    <2> QED BY <2>1 DEF RecordInv, Record
  <1>3. bots' \in [Bots -> Record \cup {None}]
    <2>1. bots' = [b \in Bots |-> bots'[b]]
      BY DEF Refresh
    <2> QED BY <1>2, <2>1 DEF RecordInv
  <1>4. \A b \in Bots : RecordSound(bots[b])' /\ RowSound(botRows[b])'
    BY <1>1, <1>2 DEF RecordInv, RecordSound, RowSound, Record, Onward
  <1>5. AllKnown(bots)' /\ AllKnown(botRows)'
    BY <1>1, <1>2, RecordAssumption DEF RecordInv, AllKnown
  <1> QED BY <1>1, <1>3, <1>4, <1>5 DEF Kept, RecordInv

\* The server is filled: all bots are known, in memory and as rows, and no new one has a table.
LEMMA FillTables == ASSUME GameInv, RecordInv, Fill PROVE Kept
  <1> DEFINE new == {b \in Bots : ~Exists(b)}
             idle == [state |-> "online_idle", table |-> None]
             off == [state |-> "offline", table |-> None]
  <1>1. new = Bots
    BY DEF Fill, RecordInv, AllKnown, Exists
  <1>2. botRows' = bots' /\ GameInv' /\ Onward /\ NoBotTable
    BY QuietGame DEF Fill
  <1>3. /\ idle \in Record /\ idle # None /\ idle.table = None
        /\ off \in Record /\ off # None /\ off.table = None
    BY RecordAssumption DEF Record, States
  <1>4. bots' \in [Bots -> {idle, off}]
    BY <1>1 DEF Fill
  <1> HIDE DEF idle, off, new
  <1>5. \A b \in Bots : bots'[b] # None /\ bots'[b].table = None /\ bots'[b] \in Record
    BY <1>3, <1>4
  <1>6. bots' \in [Bots -> Record \cup {None}]
    BY <1>3, <1>4
  <1>7. \A b \in Bots : RecordSound(bots[b])' /\ RowSound(botRows[b])'
    BY <1>2, <1>5 DEF RecordSound, RowSound
  <1>8. AllKnown(bots)' /\ AllKnown(botRows)'
    BY <1>2, <1>5 DEF AllKnown
  <1> QED BY <1>2, <1>6, <1>7, <1>8 DEF Kept, RecordInv

LEMMA ClearTables == ASSUME GameInv, RecordInv, Clear PROVE Kept
  <1>1. bots' = [b \in Bots |-> None] /\ botRows' = [b \in Bots |-> None]
    BY DEF Clear
  <1>2. GameInv' /\ Onward /\ NoBotTable
    BY DestroyGame DEF Clear
  <1>3. RecordInv'
    BY <1>1 DEF RecordInv, RecordSound, RowSound, AllKnown
  <1> QED BY <1>2, <1>3 DEF Kept

\* A person takes the name of a bot: its record is offline and its table is closed.
LEMMA LoginTables == ASSUME GameInv, RecordInv, BotInv, NEW n \in Accounts, Login(n) PROVE Kept
  <1>1. CASE users[n] = "bot"
    <2>1. n \in Bots
      BY <1>1, BotsAssumption DEF BotInv, PeopleArePeople, Accounts
    <2>2. /\ Exists(n) /\ SetBot(n, "offline", None) /\ botRows' = botRows
          /\ Destroy({TableOf(n)} \ {None}) /\ author' = author
      BY <1>1 DEF Login, TakeOffline
    <2>3. GameInv' /\ Onward /\ NoBotTable
      BY <2>2, DestroyGame
    <2> QED BY <2>1, <2>2, <2>3, SetRecord DEF Kept, GameInv, States
  <1>2. CASE users[n] # "bot"
    BY <1>2, QuietGame, QuietRecords DEF Login, Kept
  <1> QED BY <1>1, <1>2

LEMMA ReturnTables == ASSUME GameInv, RecordInv, NEW n \in Accounts, Return(n) PROVE Kept
  <1>1. n \in Names /\ UNCHANGED <<bots, botRows>>
    BY BotsAssumption DEF Return, Accounts, Names, botVars, disk
  <1>2. PICK t \in Tables :
          /\ n \in members[t] /\ <<n, "kept">> \in seats[t]
          /\ seats' = [seats EXCEPT ![t] = (@ \ {<<n, "kept">>}) \cup {<<n, "person">>}]
    BY DEF Return
  <1>3. UNCHANGED <<status, members, host, author, tableRows>>
    BY DEF Return, disk
  <1>4. GameTypes'
    BY <1>1, <1>2, <1>3 DEF GameInv, GameTypes, Kinds
  <1>5. HostsSound'
    <2> SUFFICES ASSUME NEW s \in Tables, author[s] = "vbot", Open(s), s = t
                 PROVE  BotHosted(TablePicture(s))'
      BY <1>2, <1>3 DEF GameInv, GameTypes, HostsSound, BotHosted, TablePicture, Open
    <2>1. BotHosted(TablePicture(t))
      BY DEF GameInv, HostsSound
    <2>2. status[t] = "waiting" => n # host[t]
      BY <1>2, <2>1 DEF BotHosted, TablePicture, Kinds
    <2> QED BY <1>2, <1>3, <2>1, <2>2 DEF BotHosted, TablePicture, GameInv, GameTypes
  <1>6. GameInv' /\ Onward /\ NoBotTable
    BY <1>3, <1>4, <1>5 DEF GameInv, RowsOpen, OpenTables, Open, Onward, NoBotTable
  <1> QED BY <1>1, <1>6, QuietRecords DEF Kept

LEMMA DropTables == ASSUME GameInv, RecordInv, NEW n \in Accounts, Drop(n) PROVE Kept
  <1>1. n \in Names /\ UNCHANGED <<bots, botRows, author>>
    BY BotsAssumption DEF Drop, Accounts, Names, botVars
  <1>2. GameInv' /\ Onward /\ NoBotTable
    <2>1. CASE UNCHANGED <<gameVars, tableRows>>
      BY <1>1, <2>1, QuietGame
    <2>2. ASSUME NEW t \in Tables, LeaveGame(n, t, members[t] = {n})
          PROVE  GameInv' /\ Onward /\ NoBotTable
      BY <1>1, <2>2, LeaveGameKeeps
    <2> QED BY <2>1, <2>2 DEF Drop
  <1> QED BY <1>1, <1>2, QuietRecords DEF Kept

LEMMA ActsTables == ASSUME GameInv, RecordInv, NEW n \in Accounts, Acts(n) PROVE Kept
  <1>1. n \in Names /\ UNCHANGED <<bots, botRows>>
    BY BotsAssumption DEF Acts, Accounts, Names, botVars
  <1>2. GameInv' /\ Onward /\ NoBotTable
    <2>1. ASSUME NEW t \in Tables, Create(n, "person", t), UNCHANGED tableRows
          PROVE  GameInv' /\ Onward /\ NoBotTable
      BY <1>1, <2>1, CreateGame
    <2>2. ASSUME \A s \in Tables : n \notin members[s], NEW t \in Tables, Open(t),
                 NEW kind \in Kinds, Enter(n, kind, t), UNCHANGED tableRows
          PROVE  GameInv' /\ Onward /\ NoBotTable
      BY <1>1, <2>2, EnterGame
    <2>3. ASSUME NEW t \in Tables, SeatsOf(n, t) \cap {<<n, "person">>, <<n, "watch">>} # {},
                 LeaveGame(n, t, TRUE), UNCHANGED author
          PROVE  GameInv' /\ Onward /\ NoBotTable
      BY <1>1, <2>3, LeaveGameKeeps
    <2>4. ASSUME NEW t \in Tables, status[t] = "waiting",
                 \/ status' = [status EXCEPT ![t] = "playing"] /\ UNCHANGED seats
                 \/ \E p \in seats[t] : seats' = [seats EXCEPT ![t] = @ \ {p}] /\ UNCHANGED status,
                 UNCHANGED <<members, host, author, tableRows>>
          PROVE  GameInv' /\ Onward /\ NoBotTable
      BY <2>4, LobbyGame
    <2> QED BY <2>1, <2>2, <2>3, <2>4 DEF Acts, Kinds
  <1> QED BY <1>1, <1>2, QuietRecords DEF Kept

LEMMA FinishTables == ASSUME GameInv, RecordInv, NEW t \in Tables, Finish(t) PROVE Kept
  <1>1. Open(t) /\ status[t] = "playing" /\ UNCHANGED <<bots, botRows, author>>
    BY DEF Finish, botVars
  <1>2. GameInv' /\ Onward /\ NoBotTable
    <2>1. CASE Destroy({t})
      BY <1>1, <2>1, DestroyGame
    <2>2. CASE /\ status' = [status EXCEPT ![t] = "finished"]
               /\ UNCHANGED <<members, seats, host, tableRows>>
      <3>1. \A s \in Tables : /\ Open(s)' <=> Open(s)
                              /\ status'[s] \in {status[s], "finished"}
        BY <1>1, <2>2 DEF GameInv, GameTypes, Open, Live
      <3>2. GameTypes'
        <4>1. status' \in [Tables -> {"unused", "closed"} \cup Live]
          BY <2>2 DEF GameInv, GameTypes, Live
        <4>2. \A s \in Tables : status'[s] \in Live => host'[s] # None
          BY <2>2, <3>1 DEF Open, GameInv, GameTypes
        <4> QED BY <1>1, <2>2, <4>1, <4>2 DEF GameInv, GameTypes
      <3>3. HostsSound'
        BY <1>1, <2>2, <3>1 DEF GameInv, HostsSound, BotHosted, TablePicture
      <3>4. Onward
        BY <2>2 DEF Onward, GameInv, GameTypes
      <3> QED BY <1>1, <2>2, <3>1, <3>2, <3>3, <3>4 DEF GameInv, RowsOpen, OpenTables, NoBotTable
    <2> QED BY <2>1, <2>2 DEF Finish
  <1> QED BY <1>1, <1>2, QuietRecords DEF Kept
\* The picture of an open table is one a row may hold.
LEMMA PicturesSound ==
    ASSUME GameInv
    PROVE  /\ Pictures \in [Tables -> Picture \cup {None}]
           /\ \A t \in Tables : Pictures[t] # None => Open(t) /\ Pictures[t] = TablePicture(t)
  <1>1. ASSUME NEW t \in Tables, Open(t) PROVE TablePicture(t) \in Picture
    BY <1>1 DEF GameInv, GameTypes, Open, TablePicture, Picture
  <1> QED BY <1>1 DEF Pictures

LEMMA PersistTables == ASSUME GameInv, RecordInv, Persist PROVE Kept
  <1>1. /\ tableRows' = Pictures
        /\ UNCHANGED <<status, members, seats, host, author, bots, botRows>>
    BY DEF Persist, botVars, gameVars
  <1>2. GameInv' /\ NoBotTable
    <2>1. GameTypes' /\ RowsOpen'
      BY <1>1, PicturesSound DEF GameInv, GameTypes, RowsOpen, Open
    <2>2. HostsSound'
      BY <1>1, PicturesSound DEF GameInv, HostsSound, BotHosted, TablePicture, Open
    <2> QED BY <1>1, <2>1, <2>2 DEF GameInv, OpenTables, Open, NoBotTable
  <1>3. RecordInv'
    <2> SUFFICES ASSUME NEW b \in Bots, botRows[b] # None, botRows[b].table # None,
                        botRows[b].state = "leaving_game",
                        Pictures[botRows[b].table] # None
                 PROVE  Pictures[botRows[b].table].status = "finished"
      BY <1>1 DEF RecordInv, RecordSound, RowSound, AllKnown
    <2> DEFINE t == botRows[b].table
    <2>1. t \in Tables /\ status[t] \in {"finished", "closed"}
      BY DEF RecordInv, RowSound, RecordSound, Record
    <2>2. Open(t) /\ Pictures[t].status = status[t]
      BY <2>1, PicturesSound DEF TablePicture
    <2> QED BY <2>1, <2>2 DEF Open, Live
  <1> QED BY <1>2, <1>3 DEF Kept

\* A restart, from records and pictures that are the rows afterwards.
LEMMA LoadTables ==
    ASSUME GameInv, RecordInv, NEW records, NEW pictures, Load(records, pictures),
           botRows' = records, tableRows' = pictures,
           records \in [Bots -> Record \cup {None}], AllKnown(records),
           \A b \in Bots : RecordSound(records[b]),
           \A b \in Bots : /\ records[b] # None /\ records[b].table # None
                           /\ records[b].state = "leaving_game"
                           /\ pictures[records[b].table] # None
                           => pictures[records[b].table].status = "finished",
           pictures \in [Tables -> Picture \cup {None}],
           \A t \in Tables : pictures[t] # None =>
                Open(t) /\ (author[t] = "vbot" => BotHosted(pictures[t]))
    PROVE  Kept
  <1>1. /\ bots' = records /\ author' = author
        /\ status' = [t \in Tables |-> IF pictures[t] # None THEN pictures[t].status
                                       ELSE IF status[t] = "unused" THEN "unused" ELSE "closed"]
        /\ members' = [t \in Tables |-> IF pictures[t] # None THEN pictures[t].members ELSE {}]
        /\ seats' = [t \in Tables |-> IF pictures[t] # None THEN pictures[t].seats ELSE {}]
        /\ host' = [t \in Tables |-> IF pictures[t] # None THEN pictures[t].host ELSE None]
    BY DEF Load
  <1>2. \A t \in Tables : pictures[t] # None => pictures[t] \in Picture
    OBVIOUS
  <1>3. \A t \in Tables : Open(t)' <=> pictures[t] # None
    BY <1>1, <1>2 DEF Open, Picture, Live
  <1>4. GameTypes'
    <2>1. status' \in [Tables -> {"unused", "closed"} \cup Live]
      BY <1>1, <1>2 DEF Picture
    <2>2. members' \in [Tables -> SUBSET Names] /\ host' \in [Tables -> Names \cup {None}]
      BY <1>1, <1>2 DEF Picture
    <2>3. seats' \in [Tables -> SUBSET (Names \X Kinds)]
      BY <1>1, <1>2 DEF Picture
    <2>4. \A t \in Tables : status'[t] \in Live => host'[t] # None
      BY <1>1, <1>2, <1>3, BotsAssumption DEF Open, Picture, Names
    <2> QED BY <1>1, <2>1, <2>2, <2>3, <2>4 DEF GameInv, GameTypes
  <1>5. HostsSound' /\ RowsOpen' /\ NoBotTable
    BY <1>1, <1>3 DEF HostsSound, BotHosted, TablePicture, RowsOpen, NoBotTable
  <1>6. IsFiniteSet(OpenTables')
    <2>1. OpenTables' \in SUBSET OpenTables
      BY <1>3 DEF OpenTables
    <2> QED BY <2>1, FS_Subset DEF GameInv
  <1>7. \A b \in Bots : RecordSound(records[b])' /\ RowSound(records[b])'
    <2> SUFFICES ASSUME NEW b \in Bots, records[b] # None, records[b].table # None
                 PROVE  RecordSound(records[b])' /\ RowSound(records[b])'
      BY DEF RecordSound, RowSound
    <2> DEFINE t == records[b].table
    <2>1. t \in Tables /\ records[b].state \in {"in_game", "leaving_game"} /\ status[t] # "unused"
      BY DEF RecordSound, Record
    <2>2. status'[t] # "unused"
      BY <1>1, <1>2, <2>1 DEF Picture, Live
    <2>3. records[b].state = "leaving_game" => status'[t] \in {"finished", "closed"}
      BY <1>1, <2>1
    <2> QED BY <2>1, <2>2, <2>3 DEF RecordSound, RowSound
  <1> QED
    BY <1>1, <1>4, <1>5, <1>6, <1>7 DEF Kept, GameInv, RecordInv, AllKnown

LEMMA StopTables == ASSUME GameInv, RecordInv, Stop PROVE Kept
  <1>1. Load(bots, Pictures) /\ botRows' = bots /\ tableRows' = Pictures
    BY DEF Stop
  <1>2. \A t \in Tables : Pictures[t] # None =>
            Open(t) /\ (author[t] = "vbot" => BotHosted(Pictures[t]))
    BY PicturesSound DEF GameInv, HostsSound
  <1>3. \A b \in Bots : /\ bots[b] # None /\ bots[b].table # None
                        /\ bots[b].state = "leaving_game" /\ Pictures[bots[b].table] # None
                        => Pictures[bots[b].table].status = "finished"
    <2> SUFFICES ASSUME NEW b \in Bots, bots[b] # None, bots[b].table # None,
                        bots[b].state = "leaving_game", Pictures[bots[b].table] # None
                 PROVE  Pictures[bots[b].table].status = "finished"
      OBVIOUS
    <2>1. bots[b].table \in Tables /\ status[bots[b].table] \in {"finished", "closed"}
      BY DEF RecordInv, RecordSound, Record
    <2> QED BY <2>1, PicturesSound DEF TablePicture, Open, Live
  <1> QED BY <1>1, <1>2, <1>3, PicturesSound, LoadTables DEF RecordInv

LEMMA CrashTables == ASSUME GameInv, RecordInv, Crash PROVE Kept
  <1>1. Load(botRows, tableRows) /\ UNCHANGED <<botRows, tableRows>>
    BY DEF Crash, disk
  <1>2. \A t \in Tables : tableRows[t] # None =>
            Open(t) /\ (author[t] = "vbot" => BotHosted(tableRows[t]))
    BY DEF GameInv, HostsSound, RowsOpen
  <1>3. \A b \in Bots : /\ RecordSound(botRows[b])
                        /\ botRows[b] # None /\ botRows[b].table # None
                           /\ botRows[b].state = "leaving_game"
                           /\ tableRows[botRows[b].table] # None
                           => tableRows[botRows[b].table].status = "finished"
    BY DEF RecordInv, RowSound
  <1> QED BY <1>1, <1>2, <1>3, LoadTables DEF RecordInv, GameInv, GameTypes
-----------------------------------------------------------------------------
TableInv == GameInv /\ RecordInv

LEMMA TableInit == Init => TableInv /\ BotTableLimit
  <1> SUFFICES ASSUME Init PROVE TableInv /\ BotTableLimit
    OBVIOUS
  <1>1. \A t \in Tables : ~Open(t)
    BY DEF Init, Open, Live
  <1>2. GameTypes /\ HostsSound /\ RowsOpen
    BY <1>1 DEF Init, GameTypes, HostsSound, RowsOpen, Live
  <1>3. OpenTables = {} /\ {t \in Tables : Open(t) /\ author[t] = "vbot"} = {}
    BY <1>1 DEF OpenTables
  <1>4. RecordInv
    BY DEF Init, RecordInv, RecordSound, RowSound, AllKnown
  <1>5. IsFiniteSet(OpenTables)
    BY <1>3, FS_EmptySet
  <1>6. BotTableLimit
    <2> SUFFICES Cardinality({}) <= MaxTables
      BY <1>3 DEF BotTableLimit
    <2> QED BY FS_EmptySet, BotsAssumption
  <1> QED BY <1>2, <1>4, <1>5, <1>6 DEF TableInv, GameInv

LEMMA TableStep == ASSUME TableInv, BotInv, [Next]_vars PROVE Kept
  <1> USE DEF TableInv
  <1>1. ASSUME NEW b \in Bots, BotTick(b) PROVE Kept
    BY <1>1, TickTables
  <1>2. CASE Refresh
    BY <1>2, RefreshTables
  <1>3. CASE Fill
    BY <1>3, FillTables
  <1>4. CASE Clear
    BY <1>4, ClearTables
  <1>5. CASE Persist
    BY <1>5, PersistTables
  <1>6. CASE Stop
    BY <1>6, StopTables
  <1>7. CASE Crash
    BY <1>7, CrashTables
  <1>8. ASSUME NEW n \in Accounts, Login(n) PROVE Kept
    BY <1>8, LoginTables
  <1>9. ASSUME NEW n \in Accounts, Return(n) PROVE Kept
    BY <1>9, ReturnTables
  <1>10. ASSUME NEW n \in Accounts, Drop(n) PROVE Kept
    BY <1>10, DropTables
  <1>11. ASSUME NEW n \in Accounts, Acts(n) PROVE Kept
    BY <1>11, ActsTables
  <1>12. ASSUME NEW t \in Tables, Finish(t) PROVE Kept
    BY <1>12, FinishTables
  <1>13. CASE UNCHANGED vars
    BY <1>13, QuietGame, QuietRecords DEF vars, botVars, disk, Kept
  <1> QED
    BY <1>1, <1>2, <1>3, <1>4, <1>5, <1>6, <1>7, <1>8, <1>9, <1>10, <1>11, <1>12, <1>13 DEF Next

\* Every table the bots created counts against the limit as long as a bot is known to
\* create another: no host of one is a person, and known bots are all known.
LEMMA LimitStep == ASSUME TableInv, Kept, BotTableLimit PROVE BotTableLimit'
  <1> DEFINE mine == {t \in Tables : Open(t) /\ author[t] = "vbot"}
             after == {t \in Tables : Open(t)' /\ author'[t] = "vbot"}
  <1> SUFFICES ASSUME MaxTables > 0 PROVE Cardinality(after) <= MaxTables
    BY DEF BotTableLimit
  <1>1. IsFiniteSet(mine) /\ Cardinality(mine) \in Nat /\ Cardinality(mine) <= MaxTables
    <2>1. mine \in SUBSET OpenTables
      BY DEF OpenTables
    <2> QED BY <2>1, FS_Subset, FS_CardinalityType DEF TableInv, GameInv, BotTableLimit
  <1>2. CASE NoBotTable
    <2>1. after \in SUBSET mine
      BY <1>2 DEF NoBotTable
    <2>2. Cardinality(after) \in Nat /\ Cardinality(after) <= Cardinality(mine)
      BY <1>1, <2>1, FS_Subset, FS_CardinalityType
    <2> QED BY <1>1, <2>2, BotsAssumption
  <1>3. CASE BotOpens
    <2>1. PICK b \in Bots, t \in Tables : Exists(b) /\ BotCreates(b, t)
      BY <1>3 DEF BotOpens
    <2>2. mine \in SUBSET OwnedByBots
      <3> SUFFICES ASSUME NEW s \in mine PROVE s \in OwnedByBots
        OBVIOUS
      <3>1. s \in Tables /\ Open(s) /\ host[s] \in Bots
        BY DEF TableInv, GameInv, HostsSound, BotHosted, TablePicture
      <3>2. Exists(host[s])
        BY <2>1, <3>1 DEF TableInv, RecordInv, AllKnown, Exists
      <3> QED BY <3>1, <3>2 DEF OwnedByBots
    <2>3. IsFiniteSet(OwnedByBots) /\ Cardinality(OwnedByBots) \in Nat
      <3>1. OwnedByBots \in SUBSET OpenTables
        BY DEF OwnedByBots, OpenTables
      <3> QED BY <3>1, FS_Subset, FS_CardinalityType DEF TableInv, GameInv
    <2>4. Cardinality(mine) < MaxTables
      <3>1. Cardinality(OwnedByBots) < MaxTables
        BY <2>1, BotsAssumption DEF BotCreates, CanCreate
      <3>2. Cardinality(mine) <= Cardinality(OwnedByBots)
        BY <2>2, <2>3, FS_Subset
      <3> QED BY <1>1, <2>3, <3>1, <3>2, BotsAssumption
    <2>5. after \in SUBSET (mine \cup {t})
      <3>1. author' = [author EXCEPT ![t] = "vbot"]
            /\ status' = [status EXCEPT ![t] = "waiting"]
        BY <2>1 DEF BotCreates, Create
      <3> QED BY <3>1 DEF TableInv, GameInv, GameTypes, Open
    <2>6. /\ IsFiniteSet(mine \cup {t}) /\ Cardinality(mine \cup {t}) \in Nat
          /\ Cardinality(mine \cup {t}) <= Cardinality(mine) + 1
      <3> HIDE DEF mine
      <3>1. /\ IsFiniteSet(mine \cup {t})
            /\ Cardinality(mine \cup {t}) = IF t \in mine THEN Cardinality(mine)
                                                          ELSE Cardinality(mine) + 1
        BY <1>1, FS_AddElement
      <3> QED BY <1>1, <3>1
    <2>7. Cardinality(after) \in Nat /\ Cardinality(after) <= Cardinality(mine \cup {t})
      BY <2>5, <2>6, FS_Subset, FS_CardinalityType
    <2> QED BY <1>1, <2>4, <2>6, <2>7, BotsAssumption
  <1> QED BY <1>2, <1>3 DEF Kept

LEMMA TableInvHolds == Spec => [](TableInv /\ BotInv)
  <1>1. TableInv /\ BotInv /\ [Next]_vars => TableInv' /\ BotInv'
    BY TableStep, BotStep DEF Kept, TableInv
  <1> QED BY <1>1, TableInit, BotInit, PTL DEF Spec

\* Bots never own more tables than the limit, although hosts log off, lose
\* their names to people or are forgotten while their tables stay: _can_create_game_type counts a
\* table by its host, and none is lost from that count when it matters.
THEOREM BotTablesLimited == Spec => []BotTableLimit
  <1>1. TableInv /\ BotInv /\ BotTableLimit /\ [Next]_vars => BotTableLimit'
    BY TableStep, LimitStep
  <1> QED BY <1>1, TableInit, TableInvHolds, PTL DEF Spec
-----------------------------------------------------------------------------
(* The seats of the bots.                                                  *)

Lobby == {"waiting", "playing"}
Held(b, t) ==
    /\ status[t] \in Lobby /\ <<b, "vbot">> \in seats[t]
          => Exists(b) /\ bots[b] = [state |-> "in_game", table |-> t]
    /\ Exists(b) /\ Open(t) /\ bots[b].table = t => b \in members[t]
AllHeld == \A b \in Bots, t \in Tables : Held(b, t)

\* What happens at the tables does a bot no harm if its record stays: it gets no seat,
\* keeps its memberships, and no table opens that it has a record of.
LEMMA RecordStays ==
    ASSUME NEW b \in Bots, NEW t \in Tables, Held(b, t), bots'[b] = bots[b],
           Open(t)' => Open(t),
           status'[t] \in Lobby => status[t] \in Lobby,
           <<b, "vbot">> \in seats'[t] => <<b, "vbot">> \in seats[t],
           Open(t)' /\ Exists(b) /\ bots[b].table = t /\ b \in members[t] => b \in members'[t]
    PROVE  Held(b, t)'
  BY DEF Held, Exists

\* A bot with a new record that names no table, and no seat in a game to come or under way.
LEMMA RecordNamesNone ==
    ASSUME TableInv, NEW b \in Bots, NEW t \in Tables, NEW s, SetBot(b, s, None),
           status'[t] \in Lobby => <<b, "vbot">> \notin seats'[t]
    PROVE  Held(b, t)'
  <1> DEFINE r == [state |-> s, table |-> None]
  <1>1. bots'[b] = r /\ r.table = None
    BY DEF SetBot, TableInv, RecordInv
  <1>2. None # t
    BY BotsAssumption
  <1> HIDE DEF r
  <1> QED BY <1>1, <1>2 DEF Held, Exists

LEMMA OthersRecords ==
    ASSUME TableInv, NEW b \in Bots, NEW s, NEW t, SetBot(b, s, t), NEW a \in Bots \ {b}
    PROVE  bots'[a] = bots[a]
  BY DEF SetBot, TableInv, RecordInv

\* A bot that is not in a game sits in none that is waiting or being played.
LEMMA NoSeat ==
    ASSUME AllHeld, NEW b \in Bots, Exists(b) => bots[b].state # "in_game", NEW t \in Tables,
           status[t] \in Lobby
    PROVE  <<b, "vbot">> \notin seats[t]
  <1>1. Held(b, t)
    BY DEF AllHeld
  <1>2. [state |-> "in_game", table |-> t].state = "in_game"
    OBVIOUS
  <1> QED BY <1>1, <1>2 DEF Held

LEMMA DestroyHeld ==
    ASSUME TableInv, AllHeld, NEW ts, Destroy(ts), NEW b \in Bots, bots'[b] = bots[b],
           NEW t \in Tables
    PROVE  Held(b, t)'
  <1>1. /\ status'[t] = IF t \in ts THEN "closed" ELSE status[t]
        /\ members'[t] = IF t \in ts THEN {} ELSE members[t]
        /\ seats'[t] = IF t \in ts THEN {} ELSE seats[t]
    BY DEF Destroy
  <1> QED BY <1>1, RecordStays DEF AllHeld, Open, Live, Lobby

\* A bot that leaves its table, which is over, or is at none.
LEMMA LeaveHeld ==
    ASSUME TableInv, AllHeld, NEW b \in Bots, Exists(b),
           bots[b].state \in {"online_idle", "leaving_game"}, LeaveTable(b),
           NEW s \in States, SetBot(b, s, None)
    PROVE  AllHeld'
  <1> SUFFICES ASSUME NEW a \in Bots, NEW t \in Tables PROVE Held(a, t)'
    BY DEF AllHeld
  <1>1. /\ Open(t)' => Open(t)
        /\ status'[t] \in Lobby => status[t] \in Lobby
        /\ seats'[t] \subseteq seats[t]
        /\ Open(t)' /\ a # b /\ a \in members[t] => a \in members'[t]
    <2>1. CASE TableOf(b) = None
      BY <2>1 DEF LeaveTable, gameVars, Open
    <2>2. CASE TableOf(b) # None /\ Destroy({TableOf(b)})
      <3>1. /\ status'[t] = IF t = TableOf(b) THEN "closed" ELSE status[t]
            /\ members'[t] = IF t = TableOf(b) THEN {} ELSE members[t]
            /\ seats'[t] = IF t = TableOf(b) THEN {} ELSE seats[t]
        BY <2>2 DEF Destroy
      <3> QED BY <3>1 DEF Open, Live, Lobby
    <2>3. CASE /\ TableOf(b) # None /\ members' = [members EXCEPT ![TableOf(b)] = @ \ {b}]
               /\ UNCHANGED <<status, seats>>
      BY <2>3 DEF Open, TableInv, GameInv, GameTypes
    <2> QED BY <2>1, <2>2, <2>3 DEF LeaveTable, RemoveMember
  <1>2. CASE a # b
    BY <1>1, <1>2, RecordStays, OthersRecords DEF AllHeld
  <1>3. CASE a = b
    BY <1>1, <1>3, NoSeat, RecordNamesNone
  <1> QED BY <1>2, <1>3

\* A bot joins a table, or makes one that no record names yet.
LEMMA JoinHeld ==
    ASSUME TableInv, AllHeld, NEW b \in Bots, Exists(b), bots[b].state = "online_idle",
           NEW t \in Tables, BotJoins(b, t) \/ BotCreates(b, t)
    PROVE  AllHeld'
  <1> SUFFICES ASSUME NEW a \in Bots, NEW s \in Tables PROVE Held(a, s)'
    BY DEF AllHeld
  <1>1. /\ SetBot(b, "in_game", t) /\ b \in members'[t]
        /\ s # t => seats'[s] = seats[s] /\ members'[s] = members[s] /\ status'[s] = status[s]
    BY DEF BotJoins, BotCreates, Enter, Create, TableInv, GameInv, GameTypes
  <1>2. CASE a = b
    <2>1. bots'[b] = [state |-> "in_game", table |-> t] /\ bots'[b] # None
      BY <1>1, RecordAssumption DEF SetBot, TableInv, RecordInv, Record, States
    <2>2. CASE s = t
      BY <1>1, <1>2, <2>1, <2>2 DEF Held, Exists
    <2>3. CASE s # t
      BY <1>1, <1>2, <2>1, <2>3, NoSeat DEF Held
    <2> QED BY <2>2, <2>3
  <1>3. CASE a # b
    <2>1. bots'[a] = bots[a] /\ Held(a, s)
      BY <1>1, <1>3, OthersRecords DEF AllHeld
    <2>2. CASE s # t
      BY <1>1, <2>1, <2>2, RecordStays DEF Open
    <2>3. CASE s = t /\ BotJoins(b, t)
      <3>1. /\ status' = status /\ members[t] \subseteq members'[t]
            /\ <<a, "vbot">> \in seats'[t] => <<a, "vbot">> \in seats[t]
        BY <1>3, <2>3 DEF BotJoins, Enter, TableInv, GameInv, GameTypes
      <3> QED BY <2>1, <2>3, <3>1, RecordStays DEF Open
    <2>4. CASE s = t /\ BotCreates(b, t)
      <3>1. status[t] = "unused" /\ <<a, "vbot">> \notin seats'[t]
        BY <1>3, <2>4 DEF BotCreates, Create, TableInv, GameInv, GameTypes
      <3>2. Exists(a) => bots[a].table # t
        BY <3>1, RecordOf, BotsAssumption DEF TableInv
      <3> QED BY <2>1, <2>4, <3>1, <3>2 DEF Held, Exists
    <2> QED BY <2>2, <2>3, <2>4
  <1> QED BY <1>2, <1>3

LEMMA IdleHeld ==
    ASSUME TableInv, AllHeld, NEW b \in Bots, Exists(b), bots[b].state = "online_idle", Idle(b)
    PROVE  AllHeld'
  BY LeaveHeld, JoinHeld DEF Idle, GoOffline, States

\* The record gets another state at the same table, or at none.
LEMMA StateHeld ==
    ASSUME TableInv, AllHeld, NEW b \in Bots, Exists(b), NEW s \in States,
           SetBot(b, s, bots[b].table), gameVars' = gameVars,
           \A t \in Tables : status[t] \in Lobby => <<b, "vbot">> \notin seats[t]
    PROVE  AllHeld'
  <1> SUFFICES ASSUME NEW a \in Bots, NEW t \in Tables PROVE Held(a, t)'
    BY DEF AllHeld
  <1>1. CASE a # b
    BY <1>1, RecordStays, OthersRecords DEF AllHeld, gameVars, Open
  <1>2. CASE a = b
    <2>1. bots'[b].table = bots[b].table
      BY DEF SetBot, TableInv, RecordInv
    <2>2. Held(b, t)
      BY DEF AllHeld
    <2> QED BY <1>2, <2>1, <2>2 DEF Held, gameVars, Open
  <1> QED BY <1>1, <1>2

LEMMA TickHeld == ASSUME TableInv, AllHeld, NEW b \in Bots, BotTick(b) PROVE AllHeld'
  <1>1. Exists(b)
    BY DEF BotTick
  <1>2. CASE ComeOnline(b) \/ StopWaiting(b)
    <2>1. bots[b].state # "in_game" /\ SetBot(b, "online_idle", bots[b].table)
          /\ gameVars' = gameVars
      BY <1>2 DEF ComeOnline, StopWaiting
    <2> QED BY <1>1, <2>1, NoSeat, StateHeld DEF States
  <1>3. CASE PlayOn(b)
    <2> DEFINE t == bots[b].table
    <2>1. CASE /\ ~Open(t) \/ status[t] = "finished"
               /\ SetBot(b, "leaving_game", t) /\ gameVars' = gameVars
      <3>1. ASSUME NEW s \in Tables, status[s] \in Lobby PROVE <<b, "vbot">> \notin seats[s]
        <4>1. t # s
          BY <2>1, <3>1 DEF Open, Live, Lobby
        <4>2. bots[b] # [state |-> "in_game", table |-> s]
          BY <4>1
        <4> QED BY <3>1, <4>2 DEF AllHeld, Held
      <3> QED BY <1>1, <2>1, <3>1, StateHeld DEF States
    <2>2. CASE /\ status[t] = "waiting" /\ status' = [status EXCEPT ![t] = "playing"]
               /\ UNCHANGED <<bots, members, seats>>
      BY <2>2, RecordStays DEF AllHeld, Open, Live, Lobby, TableInv, GameInv, GameTypes
    <2> QED BY <1>3, <2>1, <2>2 DEF PlayOn, gameVars
  <1>4. CASE QuitTable(b)
    BY <1>1, <1>4, LeaveHeld DEF QuitTable, GoOffline, States
  <1>5. CASE bots[b].state = "online_idle" /\ Idle(b)
    BY <1>1, <1>5, IdleHeld
  <1>6. CASE bots[b].state = "online_idle" /\ Guided(b)
    <2>1. bots[b].table = None
      BY <1>1, <1>6, RecordOf DEF TableInv
    <2>2. ASSUME Wait(b) PROVE AllHeld'
      BY <1>1, <1>6, <2>2, NoSeat, StateHeld DEF Wait, States
    <2>3. ASSUME NEW t \in Tables, BotJoins(b, t) \/ BotCreates(b, t) PROVE AllHeld'
      BY <1>1, <1>6, <2>3, JoinHeld
    <2>4. ASSUME Open(link), BotJoins(b, link) PROVE AllHeld'
      BY <2>3, <2>4 DEF Open
    <2> QED BY <1>1, <1>6, <2>1, <2>2, <2>3, <2>4, IdleHeld DEF Guided
  <1> QED BY <1>2, <1>3, <1>4, <1>5, <1>6 DEF BotTick
\* The rule forgets a vanished table, and so do its bots: nobody sits in one.
LEMMA RefreshHeld == ASSUME TableInv, AllHeld, Refresh PROVE AllHeld'
  <1> SUFFICES ASSUME NEW b \in Bots, NEW t \in Tables PROVE Held(b, t)'
    BY DEF AllHeld
  <1>1. UNCHANGED <<status, members, seats>> /\ Held(b, t)
    BY DEF Refresh, gameVars, AllHeld
  <1>2. CASE bots'[b] = bots[b]
    BY <1>1, <1>2, RecordStays DEF Open
  <1>3. CASE bots'[b] # bots[b]
    <2>1. /\ Exists(b) /\ ~Open(link) /\ bots[b].table = link
          /\ bots'[b] = [bots[b] EXCEPT !.table = None]
      BY <1>3 DEF Refresh
    <2>2. bots'[b].table = None /\ None # t
      BY <2>1, BotsAssumption DEF TableInv, RecordInv, Record, Exists
    <2>3. status[t] \in Lobby => bots[b] # [state |-> "in_game", table |-> t]
      BY <2>1 DEF Open, Live, Lobby
    <2> QED BY <1>1, <2>2, <2>3 DEF Held
  <1> QED BY <1>2, <1>3

LEMMA FillHeld == ASSUME TableInv, AllHeld, Fill PROVE AllHeld'
  <1> DEFINE idle == [state |-> "online_idle", table |-> None]
             off == [state |-> "offline", table |-> None]
  <1> SUFFICES ASSUME NEW b \in Bots, NEW t \in Tables PROVE Held(b, t)'
    BY DEF AllHeld
  <1>1. ~Exists(b) /\ UNCHANGED <<status, members, seats>> /\ Held(b, t)
    BY DEF Fill, TableInv, RecordInv, AllKnown, Exists, gameVars, AllHeld
  <1>2. bots'[b] \in {idle, off}
    BY <1>1 DEF Fill
  <1>3. idle.table = None /\ off.table = None /\ None # t
    BY BotsAssumption
  <1> HIDE DEF idle, off
  <1>4. bots'[b].table # t
    BY <1>2, <1>3
  <1> QED BY <1>1, <1>4 DEF Held

\* The tables of all bots are closed, so that none of them sits anywhere.
LEMMA ClearHeld == ASSUME TableInv, AllHeld, Clear PROVE AllHeld'
  <1> SUFFICES ASSUME NEW b \in Bots, NEW t \in Tables PROVE Held(b, t)'
    BY DEF AllHeld
  <1> DEFINE ts == {TableOf(a) : a \in Bots} \ {None}
  <1>1. bots'[b] = None /\ Destroy(ts) /\ Held(b, t)
    BY DEF Clear, AllHeld
  <1>2. /\ status'[t] = IF t \in ts THEN "closed" ELSE status[t]
        /\ seats'[t] = IF t \in ts THEN {} ELSE seats[t]
    BY <1>1 DEF Destroy
  <1>3. ASSUME t \notin ts, status[t] \in Lobby, <<b, "vbot">> \in seats[t] PROVE FALSE
    <2>1. Exists(b) /\ bots[b].table = t /\ Open(t)
      BY <1>1, <1>3 DEF Held, Open, Live, Lobby
    <2>2. TableOf(b) = t /\ t # None
      BY <2>1, BotsAssumption DEF TableOf
    <2> QED BY <1>3, <2>2
  <1> HIDE DEF ts
  <1> QED BY <1>1, <1>2, <1>3 DEF Held, Exists, Lobby

\* The bot whose name is taken loses its table with its record.
LEMMA LoginHeld == ASSUME TableInv, BotInv, AllHeld, NEW n \in Accounts, Login(n) PROVE AllHeld'
  <1> SUFFICES ASSUME NEW b \in Bots, NEW t \in Tables PROVE Held(b, t)'
    BY DEF AllHeld
  <1>1. CASE users[n] = "bot"
    <2>1. n \in Bots
      BY <1>1, BotsAssumption DEF BotInv, PeopleArePeople, Accounts
    <2>2. Exists(n) /\ SetBot(n, "offline", None) /\ Destroy({TableOf(n)} \ {None})
      BY <1>1 DEF Login, TakeOffline
    <2>3. CASE b # n
      BY <2>1, <2>2, <2>3, OthersRecords, DestroyHeld
    <2>4. CASE b = n
      <3>1. ASSUME status'[t] \in Lobby, <<b, "vbot">> \in seats'[t] PROVE FALSE
        <4>1. /\ status[t] \in Lobby /\ <<b, "vbot">> \in seats[t]
              /\ t \notin {TableOf(n)} \ {None}
          BY <2>2, <3>1 DEF Destroy, Lobby
        <4>2. Held(b, t)
          BY DEF AllHeld
        <4>3. bots[b].table = t /\ Open(t)
          BY <4>1, <4>2 DEF Held, Open, Live, Lobby
        <4>4. TableOf(n) = t /\ t # None
          BY <2>2, <2>4, <4>3, BotsAssumption DEF TableOf
        <4> QED BY <4>1, <4>4
      <3> QED BY <2>1, <2>2, <2>4, <3>1, RecordNamesNone
    <2> QED BY <2>3, <2>4
  <1>2. CASE users[n] # "bot"
    BY <1>2, RecordStays DEF Login, gameVars, AllHeld, Open
  <1> QED BY <1>1, <1>2

\* A person leaves a game: nobody in whose name a record has a table, since who bears the
\* name of a bot that is about is no person.
LEMMA LeaveGameHeld ==
    ASSUME TableInv, BotInv, AllHeld, NEW n \in Accounts, users[n] = "person",
           NEW t \in Tables, NEW leaves \in BOOLEAN, LeaveGame(n, t, leaves), bots' = bots
    PROVE  AllHeld'
  <1> SUFFICES ASSUME NEW b \in Bots, NEW s \in Tables PROVE Held(b, s)'
    BY DEF AllHeld
  <1>1. CASE Destroy({t})
    BY <1>1, DestroyHeld
  <1>2. CASE /\ seats' = [seats EXCEPT ![t] = SeatsAfter(n, t)]
             /\ members' = [members EXCEPT ![t] = IF leaves THEN members[t] \ {n} ELSE members[t]]
             /\ status' = status
    <2>1. <<b, "vbot">> \in SeatsAfter(n, t) => <<b, "vbot">> \in seats[t]
      BY DEF SeatsAfter
    <2>2. <<b, "vbot">> \in seats'[s] => <<b, "vbot">> \in seats[s]
      BY <1>2, <2>1 DEF TableInv, GameInv, GameTypes
    <2>3. Exists(b) /\ bots[b].table = s => b # n
      BY RecordOf, BotsAssumption
      DEF TableInv, BotInv, OnlineTogether, Online
    <2>4. Exists(b) /\ bots[b].table = s /\ b \in members[s] => b \in members'[s]
      BY <1>2, <2>3 DEF TableInv, GameInv, GameTypes
    <2> QED BY <1>2, <2>2, <2>4, RecordStays DEF AllHeld, Open
  <1> QED BY <1>1, <1>2 DEF LeaveGame

LEMMA ActsHeld == ASSUME TableInv, BotInv, AllHeld, NEW n \in Accounts, Acts(n) PROVE AllHeld'
  <1> SUFFICES ASSUME NEW b \in Bots, NEW s \in Tables PROVE Held(b, s)'
    BY DEF AllHeld
  <1>1. bots' = bots /\ users[n] = "person"
    BY DEF Acts, botVars
  <1>2. ASSUME NEW t \in Tables, Create(n, "person", t) PROVE Held(b, s)'
    <2>1. /\ s # t => UNCHANGED <<status[s], seats[s], members[s]>>
          /\ status[t] = "unused" /\ seats'[t] = {<<n, "person">>}
      BY <1>2 DEF Create, TableInv, GameInv, GameTypes
    <2>2. CASE s = t
      <3>1. Exists(b) => bots[b].table # t
        BY <2>1, RecordOf, BotsAssumption DEF TableInv
      <3> QED BY <1>1, <2>1, <2>2, <3>1 DEF Held, Exists
    <2>3. CASE s # t
      BY <1>1, <2>1, <2>3, RecordStays DEF AllHeld, Open
    <2> QED BY <2>2, <2>3
  <1>3. ASSUME NEW t \in Tables, NEW kind \in {"person", "watch"}, Enter(n, kind, t)
        PROVE  Held(b, s)'
    <2>1. /\ status' = status /\ members[s] \subseteq members'[s]
          /\ <<b, "vbot">> \in seats'[s] => <<b, "vbot">> \in seats[s]
      BY <1>3 DEF Enter, TableInv, GameInv, GameTypes
    <2> QED BY <1>1, <2>1, RecordStays DEF AllHeld, Open
  <1>4. ASSUME NEW t \in Tables, LeaveGame(n, t, TRUE) PROVE AllHeld'
    BY <1>1, <1>4, LeaveGameHeld
  <1>5. ASSUME NEW t \in Tables, status[t] = "waiting",
               \/ status' = [status EXCEPT ![t] = "playing"] /\ UNCHANGED seats
               \/ \E p \in seats[t] : seats' = [seats EXCEPT ![t] = @ \ {p}] /\ UNCHANGED status,
               UNCHANGED members
        PROVE  Held(b, s)'
    <2>1. /\ Open(s)' => Open(s)
          /\ status'[s] \in Lobby => status[s] \in Lobby
          /\ seats'[s] \subseteq seats[s]
      BY <1>5 DEF TableInv, GameInv, GameTypes, Open, Live, Lobby
    <2> QED BY <1>1, <1>5, <2>1, RecordStays DEF AllHeld
  <1> QED BY <1>2, <1>3, <1>4, <1>5 DEF Acts, AllHeld
LEMMA ReturnHeld == ASSUME TableInv, AllHeld, NEW n \in Accounts, Return(n) PROVE AllHeld'
  <1> SUFFICES ASSUME NEW b \in Bots, NEW s \in Tables PROVE Held(b, s)'
    BY DEF AllHeld
  <1>1. UNCHANGED <<bots, status, members>>
    BY DEF Return, botVars
  <1>2. <<b, "vbot">> \in seats'[s] => <<b, "vbot">> \in seats[s]
    BY DEF Return, TableInv, GameInv, GameTypes
  <1> QED BY <1>1, <1>2, RecordStays DEF AllHeld, Open

LEMMA DropHeld == ASSUME TableInv, BotInv, AllHeld, NEW n \in Accounts, Drop(n) PROVE AllHeld'
  <1>1. bots' = bots /\ users[n] = "person"
    BY DEF Drop, botVars
  <1>2. CASE UNCHANGED gameVars
    BY <1>1, <1>2, RecordStays DEF AllHeld, gameVars, Open
  <1>3. ASSUME NEW t \in Tables, LeaveGame(n, t, members[t] = {n}) PROVE AllHeld'
    BY <1>1, <1>3, LeaveGameHeld
  <1> QED BY <1>2, <1>3 DEF Drop

LEMMA FinishHeld == ASSUME TableInv, AllHeld, NEW t \in Tables, Finish(t) PROVE AllHeld'
  <1> SUFFICES ASSUME NEW b \in Bots, NEW s \in Tables PROVE Held(b, s)'
    BY DEF AllHeld
  <1>1. bots' = bots
    BY DEF Finish, botVars
  <1>2. CASE Destroy({t})
    BY <1>1, <1>2, DestroyHeld
  <1>3. CASE status' = [status EXCEPT ![t] = "finished"] /\ UNCHANGED <<members, seats>>
    <2>1. /\ Open(s)' => Open(s)
          /\ status'[s] \in Lobby => status[s] \in Lobby
      BY <1>3 DEF Finish, TableInv, GameInv, GameTypes, Open, Live, Lobby
    <2> QED BY <1>1, <1>3, <2>1, RecordStays DEF AllHeld
  <1> QED BY <1>2, <1>3 DEF Finish

\* A graceful stop writes what the manager and the tables agree on.
LEMMA StopHeld == ASSUME TableInv, AllHeld, Stop PROVE AllHeld'
  <1> SUFFICES ASSUME NEW b \in Bots, NEW t \in Tables PROVE Held(b, t)'
    BY DEF AllHeld
  <1>1. /\ bots' = bots
        /\ status'[t] = IF Pictures[t] # None THEN Pictures[t].status
                        ELSE IF status[t] = "unused" THEN "unused" ELSE "closed"
        /\ members'[t] = IF Pictures[t] # None THEN Pictures[t].members ELSE {}
        /\ seats'[t] = IF Pictures[t] # None THEN Pictures[t].seats ELSE {}
    BY DEF Stop, Load
  <1>2. Pictures[t] # None => /\ Open(t) /\ Pictures[t].status = status[t]
                              /\ Pictures[t].members = members[t]
                              /\ Pictures[t].seats = seats[t]
    BY PicturesSound DEF TablePicture, TableInv
  <1>3. Open(t)' => Pictures[t] # None
    BY <1>1 DEF Open, Live
  <1> QED BY <1>1, <1>2, <1>3, RecordStays DEF AllHeld, Open, Live, Lobby

LEMMA HeldStep ==
    ASSUME TableInv, BotInv, AllHeld, [Next]_vars
    PROVE  AllHeld' \/ Crash
  <1>1. ASSUME NEW b \in Bots, BotTick(b) PROVE AllHeld'
    BY <1>1, TickHeld
  <1>2. CASE Refresh
    BY <1>2, RefreshHeld
  <1>3. CASE Fill
    BY <1>3, FillHeld
  <1>4. CASE Clear
    BY <1>4, ClearHeld
  <1>5. CASE Persist \/ UNCHANGED vars
    BY <1>5, RecordStays DEF Persist, vars, botVars, gameVars, AllHeld, Open
  <1>6. CASE Stop
    BY <1>6, StopHeld
  <1>7. ASSUME NEW n \in Accounts, Login(n) PROVE AllHeld'
    BY <1>7, LoginHeld
  <1>8. ASSUME NEW n \in Accounts, Return(n) PROVE AllHeld'
    BY <1>8, ReturnHeld
  <1>9. ASSUME NEW n \in Accounts, Drop(n) PROVE AllHeld'
    BY <1>9, DropHeld
  <1>10. ASSUME NEW n \in Accounts, Acts(n) PROVE AllHeld'
    BY <1>10, ActsHeld
  <1>11. ASSUME NEW t \in Tables, Finish(t) PROVE AllHeld'
    BY <1>11, FinishHeld
  <1> QED
    BY <1>1, <1>2, <1>3, <1>4, <1>5, <1>6, <1>7, <1>8, <1>9, <1>10, <1>11 DEF Next

\* A crash is remembered.
LEMMA StaleStays ==
    ASSUME [Next]_vars
    PROVE  (Crash /\ stale' = TRUE) \/ stale' = stale
  BY DEF Next, BotTick, Refresh, Fill, Clear, Persist, Stop, Crash, Login, Return, Drop, Acts,
         Finish, vars

\* The seat, the record and the membership of a bot agree, over all the ways in and out:
\* games that end, tables closed under a bot, names taken by people, fills, clears and
\* graceful restarts; only a crash, which reads rows of different times, breaks them apart.
THEOREM BotSeatsHeld == Spec => []SeatHeld
  <1> DEFINE Apart == stale = TRUE \/ (stale = FALSE /\ AllHeld)
  <1>1. Init => Apart
    BY DEF Init, AllHeld, Held, Exists, Lobby
  <1>2. TableInv /\ BotInv /\ Apart /\ [Next]_vars => Apart'
    <2> SUFFICES ASSUME TableInv, BotInv, Apart, [Next]_vars PROVE Apart'
      OBVIOUS
    <2>1. CASE stale' = TRUE
      BY <2>1
    <2>2. CASE stale' = stale /\ ~Crash
      BY <2>2, HeldStep
    <2> QED BY <2>1, <2>2, StaleStays DEF Crash
  <1>3. Apart => SeatHeld
    BY DEF AllHeld, Held, SeatHeld, Lobby
  <1> QED BY <1>1, <1>2, <1>3, TableInvHolds, PTL DEF Spec

-----------------------------------------------------------------------------
(* The types that are left.                                                *)

RuleTypes ==
    /\ rule \in RuleSets /\ assigned \subseteq Bots /\ link \in Tables \cup {None}
    /\ restarts \in 0..MaxRestarts /\ stale \in BOOLEAN

LEMMA RuleTypesStep ==
    ASSUME RuleTypes, [Next]_vars
    PROVE  RuleTypes'
  <1>1. ASSUME NEW b \in Bots, BotTick(b) PROVE RuleTypes'
    <2>1. UNCHANGED <<rule, assigned, restarts, stale>>
      BY <1>1 DEF BotTick
    <2>2. ASSUME Idle(b) PROVE link' = link
      BY <2>2 DEF Idle, GoOffline
    <2>3. ASSUME Guided(b) PROVE link' \in Tables \cup {None}
      <3> DEFINE l == IF Open(link) THEN link ELSE None
      <3>1. l \in Tables \cup {None}
        BY DEF Open
      <3>2. l = link' \/ link' = link \/ link' \in Tables \cup {None}
        BY <2>2, <2>3 DEF Guided
      <3> QED BY <3>1, <3>2 DEF RuleTypes
    <2>4. link' \in Tables \cup {None}
      BY <1>1, <2>2, <2>3
      DEF BotTick, ComeOnline, StopWaiting, PlayOn, QuitTable, GoOffline, RuleTypes
    <2> QED BY <2>1, <2>4 DEF RuleTypes
  <1>2. CASE Refresh
    <2>1. rule \subseteq Bots
      BY BotsAssumption DEF RuleTypes
    <2>2. UNCHANGED <<rule, restarts, stale>> /\ assigned' \subseteq rule
          /\ link' \in {None, link}
      BY <1>2 DEF Refresh
    <2> QED BY <2>1, <2>2 DEF RuleTypes
  <1>3. CASE Fill \/ Clear \/ Persist
    BY <1>3 DEF Fill, Clear, Persist, RuleTypes, botVars
  <1>4. CASE Stop \/ Crash
    <2>1. /\ rule' = rule /\ assigned' = {} /\ link' = None /\ stale' \in {stale, TRUE}
          /\ restarts < MaxRestarts /\ restarts' = restarts + 1
      BY <1>4 DEF Stop, Crash, Load
    <2>2. stale' \in BOOLEAN
      BY <2>1 DEF RuleTypes
    <2>3. restarts' \in 0..MaxRestarts
      <3>1. MaxRestarts \in Nat /\ restarts \in 0..MaxRestarts
        BY BotsAssumption DEF RuleTypes
      <3> QED BY <2>1, <3>1
    <2> QED BY <2>1, <2>2, <2>3 DEF RuleTypes
  <1>5. ASSUME NEW n \in Accounts, Login(n) \/ Return(n) \/ Drop(n) \/ Acts(n) PROVE RuleTypes'
    BY <1>5 DEF Login, Return, Drop, Acts, RuleTypes, botVars, disk
  <1>6. ASSUME NEW t \in Tables, Finish(t) PROVE RuleTypes'
    BY <1>6 DEF Finish, RuleTypes, botVars
  <1>7. CASE UNCHANGED vars
    BY <1>7 DEF vars, botVars, RuleTypes
  <1> QED BY <1>1, <1>2, <1>3, <1>4, <1>5, <1>6, <1>7 DEF Next

\* Every variable keeps its type: in particular a table that is open has a host, also
\* one loaded from a row (Table.destroy, the leave of a host), and a guided table is
\* bound to a table or none.
THEOREM BotTypeCorrect == Spec => []TypeOK
  <1>1. Init => RuleTypes
    <2> SUFFICES ASSUME Init PROVE RuleTypes
      OBVIOUS
    <2>1. rule \in RuleSets /\ assigned = {} /\ link = None /\ restarts = 0 /\ stale = FALSE
      BY DEF Init
    <2>2. restarts \in 0..MaxRestarts
      BY <2>1, BotsAssumption
    <2>3. stale \in BOOLEAN
      BY <2>1
    <2> QED BY <2>1, <2>2, <2>3 DEF RuleTypes
  <1>2. RuleTypes /\ [Next]_vars => RuleTypes'
    BY RuleTypesStep
  <1>3. TableInv /\ BotInv /\ RuleTypes => TypeOK
    BY DEF TableInv, GameInv, GameTypes, BotInv, BotTypes, RuleTypes, TypeOK
  <1> QED BY <1>1, <1>2, <1>3, TableInvHolds, PTL DEF Spec
-----------------------------------------------------------------------------
(* The screen.                                                             *)

UserType == [conn : Conns, queue : Seq(Screen!Packets), last : Screen!Packets \cup {None}]
GameType == [content : Screen!Contents, box : {None, "status_box", "live_status_box"},
             over : BOOLEAN, bot : BOOLEAN]

\* None is nothing else.
ScreenAssumption ==
    /\ Conns # {} /\ None \notin Conns /\ None \notin Screen!Packets /\ None \notin UserType
    /\ None \notin {"status_box", "live_status_box", "handoff", "success"}

\* What the client will display.
DueOf(u) == IF u.queue # <<>> THEN Screen!Last(u.queue)
            ELSE IF wire[u.conn] # <<>> THEN Screen!Last(wire[u.conn])
            ELSE shown[u.conn]
Due == DueOf(user)

\* Wanted, of a game.
WantedOf(g) ==
    IF g.over THEN {Screen!Menu("game_over", 0)} \cup Screen!Prompts
    ELSE CASE g.box = "status_box"      -> {Screen!Menu("transient_display", 0)}
           [] g.box = "live_status_box" -> {Screen!Menu("transient_display", g.content)}
           [] g.box = None              -> {Screen!Menu("turn_menu", g.content)} \cup Screen!Prompts

\* A login names an open connection of the user; an open one is found by the index.
Bound ==
    /\ user # None => /\ socket[user.conn] # "new"
                      /\ socket[user.conn] = "open" => index = user.conn
    /\ login.awaits = None => login.conn = None
    /\ login.awaits # None => user # None /\ login.conn \in Conns /\ socket[login.conn] = "open"
    /\ login.awaits = "handoff" => login.conn # user.conn
    /\ login.awaits = "success" => login.conn = user.conn
    /\ user # None /\ login.awaits # "success" => ~game.bot
    /\ game.box # None => ~game.over

\* What is remembered as sent last is what the client will display.
Linked(u) == u.last # None => DueOf(u) = u.last
Link == user # None /\ socket[user.conn] = "open" /\ (~lapse \/ login.awaits = "success")
            => Linked(user)

\* While a box is open nothing is painted over it, and nothing is over before its end.
BoxOk(g, u) ==
    u.last # None =>
        /\ g.box = "status_box" => u.last = Screen!Menu("transient_display", 0)
        /\ g.box = "live_status_box" => u.last.id = "transient_display"
        /\ ~g.over => u.last.id # "game_over"
BoxInv == user # None => BoxOk(game, user)

Right == user # None /\ login = Screen!NoLogin /\ socket[user.conn] = "open" /\ ~lapse
             => Due \in WantedOf(game)

ScreenInv == Screen!TypeOK /\ Bound /\ Link /\ BoxInv /\ Right
-----------------------------------------------------------------------------
(* What painting does to a user.                                           *)

LEMMA MenuType ==
    ASSUME NEW m \in Screen!Menus, NEW i \in Screen!Contents \cup {Screen!Empty}
    PROVE  /\ Screen!Menu(m, i) \in Screen!Packets /\ Screen!Menu(m, i).id = m
           /\ Screen!Menu(m, i).items = i
           /\ Screen!Menu(m, i).kind = "menu"
  BY DEF Screen!Menu, Screen!Packets

LEMMA Queued ==
    ASSUME NEW u \in UserType, NEW p \in Screen!Packets, NEW l \in Screen!Packets \cup {None},
           NEW w, w = Screen!Queue([u EXCEPT !.last = l], p)
    PROVE  /\ w \in UserType /\ w.conn = u.conn /\ w.last = l
           /\ w.queue = Append(u.queue, p) /\ w.queue # u.queue
           /\ w.queue # <<>> /\ Screen!Last(w.queue) = p
  <1>1. u.queue \in Seq(Screen!Packets) /\ u.conn \in Conns
    BY DEF UserType
  <1>2. /\ w \in UserType /\ w.conn = u.conn /\ w.last = l
        /\ w.queue = Append(u.queue, p)
    <2> DEFINE q == Append(u.queue, p)
    <2>1. q \in Seq(Screen!Packets)
      BY <1>1
    <2>2. w = [[u EXCEPT !.last = l] EXCEPT !.queue = q]
      BY DEF Screen!Queue, UserType
    <2> HIDE DEF q
    <2>3. w \in UserType /\ w.conn = u.conn /\ w.last = l /\ w.queue = q
      BY <2>1, <2>2 DEF UserType
    <2> QED BY <2>3 DEF q
  <1>3. Len(w.queue) = Len(u.queue) + 1 /\ w.queue[Len(w.queue)] = p /\ Len(u.queue) \in Nat
    BY <1>1, <1>2
  <1> QED BY <1>2, <1>3 DEF Screen!Last

\* A menu is painted, or it was sent last.
Paints(u, w, p) ==
    /\ p \in Screen!Packets /\ w \in UserType /\ w.conn = u.conn /\ w.last = p
    /\ w = u \/ w.queue = Append(u.queue, p)

LEMMA ShowMenuPaints ==
    ASSUME ScreenAssumption, NEW u \in UserType, NEW m \in Screen!Menus, NEW i \in Screen!Contents
    PROVE  Paints(u, Screen!ShowMenu(u, m, i), Screen!Menu(m, i))
  <1>1. u # None /\ Screen!Menu(m, i) \in Screen!Packets
    BY MenuType DEF ScreenAssumption
  <1>2. CASE u.last = Screen!Menu(m, i)
    BY <1>1, <1>2 DEF Screen!ShowMenu, Paints
  <1>3. CASE u.last # Screen!Menu(m, i)
    <2>1. Screen!ShowMenu(u, m, i)
          = Screen!Queue([u EXCEPT !.last = Screen!Menu(m, i)], Screen!Menu(m, i))
      BY <1>1, <1>3 DEF Screen!ShowMenu
    <2> QED BY <1>1, <2>1, Queued DEF Paints
  <1> QED BY <1>2, <1>3

LEMMA RemoveMenuDoes ==
    ASSUME ScreenAssumption, NEW u \in UserType, NEW m \in Screen!Menus,
           NEW w, w = Screen!RemoveMenu(u, m)
    PROVE  /\ w \in UserType /\ w.conn = u.conn
           /\ w.last = IF u.last # None /\ u.last.id = m THEN None ELSE u.last
           /\ w.queue # u.queue /\ w.queue # <<>>
           /\ Screen!Last(w.queue) = Screen!Menu(m, Screen!Empty)
           /\ u.queue \in Seq(Screen!Packets)
           /\ w.queue = Append(u.queue, Screen!Menu(m, Screen!Empty))
  <1> DEFINE l == IF u.last # None /\ u.last.id = m THEN None ELSE u.last
  <1>1. u # None /\ Screen!Menu(m, Screen!Empty) \in Screen!Packets
        /\ l \in Screen!Packets \cup {None}
        /\ u.queue \in Seq(Screen!Packets)
    BY MenuType DEF ScreenAssumption, UserType
  <1> DEFINE p == Screen!Menu(m, Screen!Empty)
  <1>2. w = Screen!Queue([u EXCEPT !.last = l], p)
    BY <1>1 DEF Screen!RemoveMenu
  <1>3. p \in Screen!Packets
    BY <1>1
  <1> HIDE DEF l, p
  <1>4. /\ w \in UserType /\ w.conn = u.conn /\ w.last = l
        /\ w.queue = Append(u.queue, p) /\ w.queue # u.queue
        /\ w.queue # <<>> /\ Screen!Last(w.queue) = p
    BY <1>1, <1>2, <1>3, Queued
  <1> QED BY <1>1, <1>4 DEF l, p

\* rebuild_player_menu: nothing, or what the game wants on the screen.
Rest(g) == g.over \/ g.bot \/ g.box = "status_box"
LEMMA RebuildDoes ==
    ASSUME ScreenAssumption, NEW u \in UserType, NEW g \in GameType,
           NEW w, w = Screen!Rebuild(g, u)
    PROVE  /\ Rest(g) => w = u
           /\ ~Rest(g) => \E p \in WantedOf(g) :
                 /\ Paints(u, w, p) /\ p # None /\ p.id # "game_over"
                 /\ g.box = "live_status_box" => p.id = "transient_display"
  <1>1. g.content \in Screen!Contents /\ g.box \in {None, "status_box", "live_status_box"}
    BY DEF GameType
  <1>2. CASE Rest(g)
    BY <1>2 DEF Rest, Screen!Rebuild
  <1>3. CASE ~Rest(g) /\ g.box = "live_status_box"
    <2> DEFINE p == Screen!Menu("transient_display", g.content)
    <2>1. w = Screen!ShowMenu(u, "transient_display", g.content)
      BY <1>3 DEF Rest, Screen!Rebuild
    <2>2. Paints(u, w, p)
      BY <1>1, <2>1, ShowMenuPaints DEF Screen!Menus
    <2>3. p \in Screen!Packets /\ p.id = "transient_display"
      BY <1>1, MenuType DEF Screen!Menus
    <2>4. p \in WantedOf(g)
      BY <1>3 DEF Rest, WantedOf, ScreenAssumption
    <2> HIDE DEF p
    <2> QED BY <1>3, <2>2, <2>3, <2>4 DEF ScreenAssumption
  <1>4. CASE ~Rest(g) /\ g.box = None
    <2> DEFINE p == Screen!Menu("turn_menu", g.content)
    <2>1. w = Screen!ShowMenu(u, "turn_menu", g.content)
      BY <1>4 DEF Rest, Screen!Rebuild, ScreenAssumption
    <2>2. Paints(u, w, p)
      BY <1>1, <2>1, ShowMenuPaints DEF Screen!Menus
    <2>3. p \in Screen!Packets /\ p.id = "turn_menu"
      BY <1>1, MenuType DEF Screen!Menus
    <2>4. p \in WantedOf(g)
      BY <1>4 DEF Rest, WantedOf, ScreenAssumption
    <2> HIDE DEF p
    <2> QED BY <1>4, <2>2, <2>3, <2>4 DEF ScreenAssumption
  <1> QED BY <1>1, <1>2, <1>3, <1>4 DEF Rest

LEMMA Appended ==
    ASSUME NEW q \in Seq(Screen!Packets), NEW p \in Screen!Packets, NEW o \in Screen!Packets
    PROVE  /\ Append(q, p) # q /\ Append(q, p) # <<>> /\ Screen!Last(Append(q, p)) = p
           /\ Append(Append(q, o), p) # q
  <1>1. /\ Len(Append(q, p)) = Len(q) + 1 /\ Append(q, p)[Len(q) + 1] = p
        /\ Len(q) \in Nat /\ Append(q, o) \in Seq(Screen!Packets)
    OBVIOUS
  <1>2. Len(Append(Append(q, o), p)) = Len(q) + 2
    BY <1>1
  <1> QED BY <1>1, <1>2 DEF Screen!Last

-----------------------------------------------------------------------------
(* The player's screen after a step of the game.                           *)

\* What the step leaves in the queue: nothing new, and nothing was needed; or, at the
\* end, what the game wants shown; or the removal of a prompt.
Fine(g, w) ==
    /\ w \in UserType /\ w.conn = user.conn /\ BoxOk(g, w)
    /\ \/ /\ w = user
          /\ login = Screen!NoLogin /\ socket[user.conn] = "open" /\ ~lapse => Due \in WantedOf(g)
       \/ /\ w.queue # user.queue /\ w.queue # <<>>
          /\ \/ /\ Screen!Last(w.queue) \in WantedOf(g)
                /\ w.last # None => Screen!Last(w.queue) = w.last
             \/ login = Screen!NoLogin
                /\ Screen!Last(w.queue) = Screen!Menu("leave_game_confirm", Screen!Empty)

LEMMA BecomeKeeps ==
    ASSUME ScreenAssumption, ScreenInv, NEW g \in GameType, NEW w, Screen!Become(g, w),
           g.bot = game.bot, g.box # None => ~g.over,
           user = None => w = None, user # None => Fine(g, w)
    PROVE  ScreenInv'
  <1>1. /\ game' = g /\ user' = w /\ index' = index /\ socket' = socket /\ login' = login
        /\ wire' = wire /\ shown' = shown
        /\ lapse' = IF w = None \/ w.queue = user.queue THEN lapse
                    ELSE Screen!Last(w.queue) = Screen!Menu("leave_game_confirm", Screen!Empty)
    BY DEF Screen!Become, Screen!connVars
  <1>2. Screen!TypeOK'
    <2>1. user' = None \/ user' \in UserType
      BY <1>1 DEF Fine
    <2>2. lapse' \in BOOLEAN /\ game' \in GameType
      BY <1>1 DEF ScreenInv, Screen!TypeOK
    <2> QED BY <1>1, <2>1, <2>2 DEF ScreenInv, Screen!TypeOK, UserType, GameType
  <1>3. CASE user = None
    BY <1>1, <1>2, <1>3 DEF ScreenInv, Bound, Link, BoxInv, Right
  <1>4. CASE user # None
    <2>1. w # None /\ w.conn = user.conn /\ BoxOk(g, w) /\ Fine(g, w)
      BY <1>4 DEF Fine, ScreenAssumption
    <2>2. Bound'
      BY <1>1, <1>4, <2>1 DEF ScreenInv, Bound
    <2>3. BoxInv'
      BY <1>1, <2>1 DEF BoxInv, BoxOk
    <2>4. CASE w = user
      <3>1. Due' = Due /\ lapse' = lapse /\ Linked(user)' = Linked(user)
        BY <1>1, <2>4 DEF Due, DueOf, Linked
      <3>2. WantedOf(g)' = WantedOf(g) /\ WantedOf(game)' = WantedOf(g)
        BY <1>1 DEF WantedOf, Screen!Prompts
      <3>3. Link'
        BY <1>1, <2>4, <3>1 DEF ScreenInv, Link
      <3>4. login = Screen!NoLogin /\ socket[user.conn] = "open" /\ ~lapse => Due \in WantedOf(g)
        <4>1. Due = Screen!Last(user.queue) \/ user.queue = <<>>
          BY DEF Due, DueOf
        <4> QED BY <2>1, <2>4 DEF Fine
      <3>5. Right'
        BY <1>1, <2>4, <3>1, <3>2, <3>4 DEF Right, Screen!NoLogin
      <3> QED BY <1>2, <2>2, <2>3, <3>3, <3>5 DEF ScreenInv
    <2>5. CASE w # user
      <3>1. /\ w.queue # user.queue /\ w.queue # <<>>
            /\ \/ /\ Screen!Last(w.queue) \in WantedOf(g)
                  /\ w.last # None => Screen!Last(w.queue) = w.last
               \/ login = Screen!NoLogin
                /\ Screen!Last(w.queue) = Screen!Menu("leave_game_confirm", Screen!Empty)
        BY <2>1, <2>5 DEF Fine
      <3>2. Due' = Screen!Last(w.queue)
            /\ (Linked(user)' <=> (w.last # None => Screen!Last(w.queue) = w.last))
        BY <1>1, <3>1 DEF Due, DueOf, Linked
      <3>3. lapse' = (Screen!Last(w.queue) = Screen!Menu("leave_game_confirm", Screen!Empty))
        BY <1>1, <2>1, <3>1
      <3>4. WantedOf(game)' = WantedOf(g)
        BY <1>1 DEF WantedOf, Screen!Prompts
      <3>5. login.awaits = "success" => login # Screen!NoLogin
        BY DEF Screen!NoLogin, ScreenAssumption
      <3>6. Link'
        BY <1>1, <3>1, <3>2, <3>3, <3>5 DEF Link
      <3>7. Right'
        BY <1>1, <3>1, <3>2, <3>3, <3>4 DEF Right
      <3> QED BY <1>2, <2>2, <2>3, <3>6, <3>7 DEF ScreenInv
    <2> QED BY <2>4, <2>5
  <1> QED BY <1>3, <1>4

\* One paint on the user's screen.
LEMMA PaintFine ==
    ASSUME ScreenAssumption, ScreenInv, user # None, NEW g \in GameType, NEW w,
           NEW p \in WantedOf(g), Paints(user, w, p), BoxOk(g, w)
    PROVE  Fine(g, w)
  <1>1. user \in UserType /\ user.queue \in Seq(Screen!Packets) /\ p # None
    BY DEF ScreenInv, Screen!TypeOK, UserType, Paints, ScreenAssumption
  <1>2. w \in UserType /\ w.conn = user.conn /\ w.last = p /\ p \in Screen!Packets
    BY DEF Paints
  <1>3. CASE w = user
    <2>1. socket[user.conn] = "open" /\ ~lapse => Due \in WantedOf(g)
      BY <1>1, <1>2, <1>3 DEF ScreenInv, Link, Linked, Due
    <2> QED BY <1>2, <1>3, <2>1 DEF Fine
  <1>4. CASE w.queue = Append(user.queue, p)
    BY <1>1, <1>2, <1>4, Appended DEF Fine
  <1> QED BY <1>3, <1>4 DEF Paints

LEMMA Free == ScreenAssumption /\ ScreenInv /\ user # None /\ login = Screen!NoLogin => ~game.bot
  BY DEF ScreenInv, Bound, Screen!NoLogin, ScreenAssumption

LEMMA GameTyped == ScreenInv => game \in GameType /\ (user = None \/ user \in UserType)
  BY DEF ScreenInv, Screen!TypeOK, GameType, UserType

LEMMA Nothing ==
    ASSUME NEW g
    PROVE  Screen!Rebuild(g, None) = None /\ Screen!EndScreen(g, None) = None
  BY DEF Screen!Rebuild, Screen!EndScreen, Screen!ShowMenu, Screen!RemoveMenu

\* The contents may change: what covers them stays right.
LEMMA RebuildFine ==
    ASSUME ScreenAssumption, ScreenInv, user # None, NEW g \in GameType,
           g.box = game.box, g.over = game.over, g.bot = game.bot
    PROVE  Fine(g, Screen!Rebuild(g, user))
  <1> DEFINE w == Screen!Rebuild(g, user)
  <1>1. user \in UserType
    BY GameTyped
  <1>2. /\ Rest(g) => w = user
        /\ ~Rest(g) => \E p \in WantedOf(g) :
              /\ Paints(user, w, p) /\ p # None /\ p.id # "game_over"
              /\ g.box = "live_status_box" => p.id = "transient_display"
    BY <1>1, RebuildDoes
  <1> HIDE DEF w
  <1>3. CASE Rest(g)
    <2>1. BoxOk(g, user)
      BY DEF ScreenInv, BoxInv, BoxOk
    <2>2. login = Screen!NoLogin => WantedOf(g) = WantedOf(game)
      <3>1. login = Screen!NoLogin => ~g.bot
        BY Free
      <3> QED BY <1>3, <3>1 DEF Rest, WantedOf, ScreenAssumption
    <2>3. login = Screen!NoLogin /\ socket[user.conn] = "open" /\ ~lapse => Due \in WantedOf(g)
      BY <2>2 DEF ScreenInv, Right
    <2> QED BY <1>1, <1>2, <1>3, <2>1, <2>3 DEF Fine, w
  <1>4. CASE ~Rest(g)
    <2>1. PICK p \in WantedOf(g) :
              /\ Paints(user, w, p) /\ p # None /\ p.id # "game_over"
              /\ g.box = "live_status_box" => p.id = "transient_display"
      BY <1>2, <1>4
    <2>2. BoxOk(g, w)
      BY <1>4, <2>1 DEF Rest, BoxOk, Paints
    <2> QED BY <2>1, <2>2, PaintFine DEF w
  <1> QED BY <1>3, <1>4

LEMMA ContentStep ==
    ASSUME ScreenAssumption, ScreenInv, NEW new \in Screen!Contents,
           Screen!Become([game EXCEPT !.content = new],
                         Screen!Rebuild([game EXCEPT !.content = new], user))
    PROVE  ScreenInv'
  <1> DEFINE g == [game EXCEPT !.content = new]
  <1>1. g \in GameType /\ g.box = game.box /\ g.over = game.over /\ g.bot = game.bot
    BY GameTyped DEF GameType
  <1>2. Screen!Become(g, Screen!Rebuild(g, user))
    OBVIOUS
  <1> HIDE DEF g
  <1>3. user = None => Screen!Rebuild(g, user) = None
    BY Nothing
  <1>4. user # None => Fine(g, Screen!Rebuild(g, user))
    BY <1>1, RebuildFine
  <1>5. g.box # None => ~g.over
    BY <1>1 DEF ScreenInv, Bound
  <1> QED BY <1>1, <1>2, <1>3, <1>4, <1>5, BecomeKeeps

\* After the removal of a prompt or a box: what is painted then, or nothing.
LEMMA RemovedFine ==
    ASSUME ScreenAssumption, ScreenInv, user # None,
           NEW g \in GameType, NEW m \in Screen!Menus, NEW r, r = Screen!RemoveMenu(user, m),
           NEW w, NEW p \in WantedOf(g), Paints(r, w, p), BoxOk(g, w),
           r.last = None \/ (m = "leave_game_confirm" /\ login = Screen!NoLogin)
    PROVE  Fine(g, w)
  <1> DEFINE o == Screen!Menu(m, Screen!Empty)
  <1>1. /\ user \in UserType /\ r.conn = user.conn /\ user.queue \in Seq(Screen!Packets)
        /\ r.queue = Append(user.queue, o)
        /\ r.queue # user.queue /\ r.queue # <<>> /\ Screen!Last(r.queue) = o
    BY GameTyped, RemoveMenuDoes
  <1>2. o \in Screen!Packets
    BY MenuType
  <1>3. r.queue \in Seq(Screen!Packets)
    BY <1>1, <1>2
  <1> HIDE DEF o
  <1>4. w \in UserType /\ w.conn = user.conn /\ w.last = p /\ p \in Screen!Packets /\ p # None
    BY <1>1 DEF Paints, ScreenAssumption
  <1>5. CASE w = r
    BY <1>1, <1>4, <1>5 DEF Fine, o
  <1>6. CASE w.queue = Append(r.queue, p)
    <2>1. w.queue # user.queue /\ w.queue # <<>> /\ Screen!Last(w.queue) = p
      <3>1. w.queue # <<>> /\ Screen!Last(w.queue) = p
        BY <1>3, <1>4, <1>6, Appended
      <3>2. Append(Append(user.queue, o), p) # user.queue
        BY <1>1, <1>2, <1>4, Appended
      <3> QED BY <1>1, <1>6, <3>1, <3>2
    <2> QED BY <1>4, <2>1 DEF Fine
  <1> QED BY <1>5, <1>6 DEF Paints

\* The end screen, over a box or not.
LEMMA EndPaints ==
    ASSUME ScreenAssumption, NEW g \in GameType, NEW u \in UserType, BoxOk(g, u)
    PROVE  LET r == IF g.box = None THEN u ELSE Screen!RemoveMenu(u, "transient_display") IN
           /\ Paints(r, Screen!EndScreen(g, u), Screen!Menu("game_over", 0))
           /\ g.box # None => r.last = None
  <1> DEFINE r == IF g.box = None THEN u ELSE Screen!RemoveMenu(u, "transient_display")
  <1>1. r \in UserType /\ (g.box # None => r.last = None)
    <2>1. CASE g.box = None
      BY <2>1
    <2>2. CASE g.box # None
      <3>1. u.last # None => u.last.id = "transient_display"
        BY <2>2 DEF BoxOk, GameType, Screen!Menu
      <3>2. "transient_display" \in Screen!Menus
        BY DEF Screen!Menus
      <3> QED BY <2>2, <3>1, <3>2, RemoveMenuDoes
    <2> QED BY <2>1, <2>2
  <1>2. Screen!EndScreen(g, u) = Screen!ShowMenu(r, "game_over", 0)
    BY DEF Screen!EndScreen
  <1> HIDE DEF r
  <1>3. "game_over" \in Screen!Menus /\ 0 \in Screen!Contents
    BY DEF Screen!Menus, Screen!Contents
  <1>4. Paints(r, Screen!EndScreen(g, u), Screen!Menu("game_over", 0))
    BY <1>1, <1>2, <1>3, ShowMenuPaints
  <1> QED BY <1>1, <1>4 DEF r

-----------------------------------------------------------------------------
(* The steps of the game and of the player.                                *)

LEMMA FinishKeeps == ASSUME ScreenAssumption, ScreenInv, Screen!Finish PROVE ScreenInv'
  <1> DEFINE g == [game EXCEPT !.over = TRUE, !.box = None]
             w == Screen!EndScreen(game, user)
             r == IF game.box = None THEN user ELSE Screen!RemoveMenu(user, "transient_display")
             p == Screen!Menu("game_over", 0)
  <1>1. Screen!Become(g, w) /\ game \in GameType
    BY GameTyped DEF Screen!Finish
  <1>2. g \in GameType /\ g.over /\ g.box = None /\ g.bot = game.bot
    BY <1>1 DEF GameType
  <1>3. user = None => w = None
    BY Nothing
  <1>4. p \in WantedOf(g)
    BY <1>2 DEF WantedOf
  <1> HIDE DEF g
  <1>5. ASSUME user # None PROVE Fine(g, w)
    <2>1. user \in UserType /\ BoxOk(game, user)
      BY <1>5, GameTyped DEF ScreenInv, BoxInv
    <2>2. Paints(r, w, p) /\ (game.box # None => r.last = None)
      BY <1>1, <2>1, EndPaints
    <2> HIDE DEF w, p
    <2>3. BoxOk(g, w)
      BY <1>2 DEF BoxOk, ScreenAssumption
    <2>4. CASE game.box = None
      BY <1>2, <1>4, <1>5, <2>2, <2>3, <2>4, PaintFine
    <2>5. CASE game.box # None
      <3>1. r = Screen!RemoveMenu(user, "transient_display") /\ r.last = None
        BY <2>2, <2>5
      <3>2. "transient_display" \in Screen!Menus
        BY DEF Screen!Menus
      <3> HIDE DEF r
      <3> QED BY <1>2, <1>4, <1>5, <2>2, <2>3, <3>1, <3>2, RemovedFine
    <2> QED BY <2>4, <2>5
  <1> HIDE DEF w
  <1> QED BY <1>1, <1>2, <1>3, <1>5, BecomeKeeps

\* Whoever acts is logged in.
LEMMA Acting ==
    ASSUME ScreenAssumption, ScreenInv, NEW c, NEW screens, Screen!Acts(c, screens)
    PROVE  /\ socket[c] = "open" /\ login = Screen!NoLogin /\ user # None /\ user.conn = c
           /\ user \in UserType /\ game \in GameType /\ BoxOk(game, user) /\ ~game.bot
  BY Free, GameTyped DEF Screen!Acts, ScreenInv, BoxInv

\* A menu, or a prompt, over what the game shows.
LEMMA PaintKeeps ==
    ASSUME ScreenAssumption, ScreenInv, user # None, NEW g \in GameType,
           g.bot = game.bot, g.box # None => ~g.over,
           NEW m \in Screen!Menus, NEW i \in Screen!Contents, Screen!Menu(m, i) \in WantedOf(g),
           BoxOk(g, Screen!ShowMenu(user, m, i)), Screen!Become(g, Screen!ShowMenu(user, m, i))
    PROVE  ScreenInv'
  <1> DEFINE w == Screen!ShowMenu(user, m, i)
             p == Screen!Menu(m, i)
  <1>1. Paints(user, w, p) /\ p \in WantedOf(g) /\ BoxOk(g, w)
    BY GameTyped, ShowMenuPaints
  <1>2. Screen!Become(g, w)
    OBVIOUS
  <1> HIDE DEF w, p
  <1>3. Fine(g, w)
    BY <1>1, PaintFine
  <1> QED BY <1>2, <1>3, BecomeKeeps

LEMMA OpenBoxKeeps ==
    ASSUME ScreenAssumption, ScreenInv, NEW c \in Conns, Screen!OpenBox(c)
    PROVE  ScreenInv'
  <1>1. /\ user # None /\ user \in UserType /\ game \in GameType /\ ~game.over
    BY Acting DEF Screen!OpenBox
  <1>2. PICK kind \in {"status_box", "live_status_box"} :
            Screen!Become([game EXCEPT !.box = kind],
                   Screen!ShowMenu(user, "transient_display", IF kind = "status_box" THEN 0
                                                       ELSE game.content))
    BY DEF Screen!OpenBox
  <1> DEFINE g == [game EXCEPT !.box = kind]
             i == IF kind = "status_box" THEN 0 ELSE game.content
             w == Screen!ShowMenu(user, "transient_display", i)
  <1>3. /\ g \in GameType /\ g.bot = game.bot /\ ~g.over /\ g.box = kind
        /\ g.content = game.content /\ i \in Screen!Contents /\ "transient_display" \in Screen!Menus
    BY <1>1 DEF GameType, Screen!Contents, Screen!Menus
  <1>4. Screen!Become(g, w)
    BY <1>2
  <1>5. Screen!Menu("transient_display", i) \in WantedOf(g)
    BY <1>3 DEF WantedOf, ScreenAssumption
  <1> HIDE DEF g
  <1>6. Paints(user, w, Screen!Menu("transient_display", i))
    BY <1>1, <1>3, ShowMenuPaints
  <1>7. BoxOk(g, w)
    <2>1. w.last = Screen!Menu("transient_display", i) /\ w.last.id = "transient_display"
      BY <1>3, <1>6, MenuType DEF Paints
    <2>2. kind = "status_box" => i = 0
      OBVIOUS
    <2> HIDE DEF i, w
    <2> QED BY <1>3, <2>1, <2>2 DEF BoxOk
  <1> HIDE DEF i
  <1> QED BY <1>1, <1>3, <1>4, <1>5, <1>7, PaintKeeps

LEMMA AskKeeps ==
    ASSUME ScreenAssumption, ScreenInv, NEW c \in Conns, Screen!Ask(c)
    PROVE  ScreenInv'
  <1>1. /\ user # None /\ user \in UserType /\ game \in GameType
        /\ game.box = None /\ ~game.over
    BY Acting DEF Screen!Ask
  <1>2. Screen!Prompts \subseteq WantedOf(game)
    BY <1>1 DEF WantedOf, ScreenAssumption
  <1>3. CASE Screen!Become(game, Screen!ShowMenu(user, "action_input_menu", 0))
    <2>1. /\ "action_input_menu" \in Screen!Menus /\ 0 \in Screen!Contents
          /\ Screen!Menu("action_input_menu", 0) \in WantedOf(game)
      BY <1>2 DEF Screen!Menus, Screen!Contents, Screen!Prompts
    <2>2. BoxOk(game, Screen!ShowMenu(user, "action_input_menu", 0))
      <3>1. Screen!ShowMenu(user, "action_input_menu", 0).last.id = "action_input_menu"
        BY <1>1, <2>1, ShowMenuPaints, MenuType DEF Paints
      <3> QED BY <1>1, <3>1 DEF BoxOk, ScreenAssumption
    <2> QED BY <1>1, <1>3, <2>1, <2>2, PaintKeeps
  <1>4. CASE Screen!Become(game, Screen!ShowEditbox(user))
    <2> DEFINE w == Screen!ShowEditbox(user)
    <2>1. w = Screen!Queue([user EXCEPT !.last = None], Screen!Editbox)
          /\ Screen!Editbox \in Screen!Packets
      BY <1>1 DEF Screen!ShowEditbox, Screen!Packets
    <2> HIDE DEF w
    <2>2. /\ w \in UserType /\ w.conn = user.conn /\ w.last = None
          /\ w.queue # user.queue /\ w.queue # <<>> /\ Screen!Last(w.queue) = Screen!Editbox
      <3>1. None \in Screen!Packets \cup {None}
        OBVIOUS
      <3> QED BY <1>1, <2>1, <3>1, Queued
    <2>3. Screen!Last(w.queue) \in WantedOf(game)
      BY <1>2, <2>2 DEF Screen!Prompts
    <2>4. Fine(game, w)
      BY <2>2, <2>3 DEF Fine, BoxOk
    <2> QED BY <1>1, <1>4, <2>4, BecomeKeeps DEF w
  <1> QED BY <1>3, <1>4 DEF Screen!Ask

LEMMA AskLeaveKeeps ==
    ASSUME ScreenAssumption, ScreenInv, NEW c \in Conns, Screen!AskLeave(c)
    PROVE  ScreenInv'
  <1>1. /\ user # None /\ user \in UserType /\ game \in GameType /\ game.box = None
    BY Acting DEF Screen!AskLeave
  <1>2. Screen!Become(game, Screen!ShowMenu(user, "leave_game_confirm", 0))
    BY DEF Screen!AskLeave
  <1>3. /\ "leave_game_confirm" \in Screen!Menus /\ 0 \in Screen!Contents
        /\ Screen!Menu("leave_game_confirm", 0) \in WantedOf(game)
    BY <1>1 DEF Screen!Menus, Screen!Contents, Screen!Prompts, WantedOf, ScreenAssumption
  <1>4. BoxOk(game, Screen!ShowMenu(user, "leave_game_confirm", 0))
    <2>1. Screen!ShowMenu(user, "leave_game_confirm", 0).last.id = "leave_game_confirm"
      BY <1>1, <1>3, ShowMenuPaints, MenuType DEF Paints
    <2> QED BY <1>1, <2>1 DEF BoxOk, ScreenAssumption
  <1> QED BY <1>1, <1>2, <1>3, <1>4, PaintKeeps

LEMMA StayInGameKeeps ==
    ASSUME ScreenAssumption, ScreenInv, NEW c \in Conns, Screen!StayInGame(c)
    PROVE  ScreenInv'
  <1>1. /\ user # None /\ user \in UserType /\ game \in GameType /\ game.box = None
        /\ login = Screen!NoLogin /\ ~game.bot /\ BoxOk(game, user)
    BY Acting DEF Screen!StayInGame
  <1> DEFINE r == Screen!RemoveMenu(user, "leave_game_confirm")
             w == IF game.over THEN Screen!EndScreen(game, r) ELSE Screen!Rebuild(game, r)
  <1>2. Screen!Become(game, w)
    BY DEF Screen!StayInGame
  <1>3. "leave_game_confirm" \in Screen!Menus
    BY DEF Screen!Menus
  <1>4. r \in UserType
    BY <1>1, <1>3, RemoveMenuDoes
  <1>5. \E p \in WantedOf(game) : Paints(r, w, p) /\ (~game.over => p.id # "game_over")
    <2>1. CASE game.over
      <3>1. w = Screen!ShowMenu(r, "game_over", 0)
        BY <1>1, <2>1 DEF Screen!EndScreen
      <3>2. "game_over" \in Screen!Menus /\ 0 \in Screen!Contents
        BY DEF Screen!Menus, Screen!Contents
      <3> HIDE DEF r, w
      <3>3. Paints(r, w, Screen!Menu("game_over", 0))
        BY <1>4, <3>1, <3>2, ShowMenuPaints
      <3> QED BY <2>1, <3>3 DEF WantedOf
    <2>2. CASE ~game.over
      <3>1. w = Screen!Rebuild(game, r) /\ ~Rest(game)
        BY <1>1, <2>2 DEF Rest, ScreenAssumption
      <3> HIDE DEF r, w
      <3> QED BY <1>1, <1>4, <3>1, RebuildDoes
    <2> QED BY <2>1, <2>2
  <1>6. r = Screen!RemoveMenu(user, "leave_game_confirm")
    OBVIOUS
  <1> HIDE DEF r, w
  <1>7. PICK p \in WantedOf(game) : Paints(r, w, p) /\ (~game.over => p.id # "game_over")
    BY <1>5
  <1>8. BoxOk(game, w)
    BY <1>1, <1>7 DEF BoxOk, Paints, ScreenAssumption
  <1>9. Fine(game, w)
    BY <1>1, <1>3, <1>6, <1>7, <1>8, RemovedFine
  <1> QED BY <1>1, <1>2, <1>9, BecomeKeeps

LEMMA CloseBoxKeeps ==
    ASSUME ScreenAssumption, ScreenInv, NEW c \in Conns, Screen!CloseBox(c)
    PROVE  ScreenInv'
  <1>1. /\ user # None /\ user \in UserType /\ game \in GameType /\ game.box # None
        /\ ~game.bot /\ BoxOk(game, user) /\ ~game.over
    BY Acting DEF Screen!CloseBox, ScreenInv, Bound
  <1> DEFINE g == [game EXCEPT !.box = None]
             r == Screen!RemoveMenu(user, "transient_display")
             w == Screen!Rebuild(g, r)
  <1>2. Screen!Become(g, w)
    BY DEF Screen!CloseBox
  <1>3. /\ g \in GameType /\ g.box = None /\ ~g.over /\ ~g.bot /\ g.bot = game.bot
        /\ "transient_display" \in Screen!Menus
    BY <1>1 DEF GameType, Screen!Menus
  <1> HIDE DEF g
  <1>4. user.last # None => user.last.id = "transient_display"
    BY <1>1 DEF BoxOk, GameType, Screen!Menu
  <1>5. r \in UserType /\ r.last = None /\ r = Screen!RemoveMenu(user, "transient_display")
    BY <1>1, <1>3, <1>4, RemoveMenuDoes
  <1> HIDE DEF r
  <1>6. ~Rest(g)
    BY <1>3 DEF Rest, ScreenAssumption
  <1>7. PICK p \in WantedOf(g) : Paints(r, w, p) /\ p # None /\ p.id # "game_over"
    BY <1>3, <1>5, <1>6, RebuildDoes
  <1> HIDE DEF w
  <1>8. BoxOk(g, w)
    BY <1>3, <1>7 DEF BoxOk, Paints, ScreenAssumption
  <1>9. Fine(g, w)
    BY <1>1, <1>3, <1>5, <1>7, <1>8, RemovedFine
  <1> QED BY <1>1, <1>2, <1>3, <1>9, BecomeKeeps

-----------------------------------------------------------------------------
(* Packets on their way, and connections.                                  *)

LEMMA CoalescedKeepsLast ==
    ASSUME NEW q \in Seq(Screen!Packets), q # <<>>
    PROVE  /\ Screen!Coalesced(q) \in Seq(Screen!Packets) /\ Screen!Coalesced(q) # <<>>
           /\ Screen!Last(Screen!Coalesced(q)) = Screen!Last(q)
  <1> DEFINE hidden == {i \in DOMAIN q : \E j \in i + 1..Len(q) :
                           q[i].kind = "menu" /\ q[j].kind = "menu" /\ q[j].id = q[i].id}
             kept == DOMAIN q \ hidden
  <1>1. Len(q) \in Nat \ {0} /\ DOMAIN q = 1..Len(q)
    OBVIOUS
  <1>2. Len(q) \notin hidden /\ kept \subseteq DOMAIN q /\ Len(q) \in kept
    BY <1>1
  <1>3. Screen!Coalesced(q) = Screen!Keeping(q, kept)
    BY DEF Screen!Coalesced
  <1>4. Screen!Keeping(q, kept) = Keeping(q, kept)
    BY DEF Screen!Keeping, Keeping, Screen!Cardinality, Cardinality, Screen!IsFiniteSet,
           IsFiniteSet
  <1> HIDE DEF kept
  <1>5. Keeping(q, kept) \in Seq(Screen!Packets)
    BY <1>1, <1>2, KeepingType
  <1>6. Keeping(q, kept) # <<>> /\ Keeping(q, kept)[Len(Keeping(q, kept))] = q[Len(q)]
    BY <1>1, <1>2, KeepingLast
  <1> QED BY <1>3, <1>4, <1>5, <1>6 DEF Screen!Last

LEMMA FlushKeeps == ASSUME ScreenAssumption, ScreenInv, Screen!Flush PROVE ScreenInv'
  <1> DEFINE new == Screen!Coalesced(user.queue)
  <1>1. /\ user # None /\ user.queue # <<>> /\ user \in UserType
        /\ user.queue \in Seq(Screen!Packets) /\ user.conn \in Conns
        /\ user' = [user EXCEPT !.queue = <<>>]
        /\ wire' = IF index = None \/ socket[index] = "ended" THEN wire
                   ELSE [wire EXCEPT ![index] = wire[index] \o new]
        /\ index' = index /\ socket' = socket /\ login' = login
        /\ shown' = shown /\ game' = game /\ lapse' = lapse
    BY GameTyped DEF Screen!Flush, Screen!connVars, UserType
  <1>2. new \in Seq(Screen!Packets) /\ new # <<>> /\ Screen!Last(new) = Screen!Last(user.queue)
    BY <1>1, CoalescedKeepsLast
  <1> HIDE DEF new
  <1>3. /\ user' \in UserType /\ user'.queue = <<>> /\ user'.conn = user.conn
        /\ user'.last = user.last /\ user' # None
    <2>1. <<>> \in Seq(Screen!Packets)
      OBVIOUS
    <2>2. /\ user' \in UserType /\ user'.queue = <<>> /\ user'.conn = user.conn
          /\ user'.last = user.last
      BY <1>1, <2>1 DEF UserType
    <2> QED BY <2>2 DEF ScreenAssumption
  <1>4. wire' \in [Conns -> Seq(Screen!Packets)]
    <2>1. wire \in [Conns -> Seq(Screen!Packets)] /\ index \in Conns \cup {None}
      BY DEF ScreenInv, Screen!TypeOK
    <2>2. \A c \in Conns : wire[c] \o new \in Seq(Screen!Packets)
      BY <1>2, <2>1
    <2> QED BY <1>1, <2>1, <2>2
  <1>5. Screen!TypeOK'
    BY <1>1, <1>3, <1>4 DEF ScreenInv, Screen!TypeOK, UserType
  <1>6. Bound' /\ BoxInv'
    BY <1>1, <1>3 DEF ScreenInv, Bound, BoxInv, BoxOk
  <1>7. ASSUME socket[user.conn] = "open" PROVE Due' = Due
    <2>1. index = user.conn
      BY <1>1, <1>7 DEF ScreenInv, Bound
    <2>2. wire'[user.conn] = wire[user.conn] \o new /\ wire[user.conn] \in Seq(Screen!Packets)
      BY <1>1, <1>7, <2>1 DEF ScreenInv, Screen!TypeOK, ScreenAssumption
    <2>3. wire'[user.conn] # <<>> /\ Screen!Last(wire'[user.conn]) = Screen!Last(new)
      <3> DEFINE a == wire[user.conn]
      <3>1. a \in Seq(Screen!Packets) /\ wire'[user.conn] = a \o new
        BY <2>2
      <3> HIDE DEF a
      <3>2. /\ Len(a) \in Nat /\ Len(new) \in Nat \ {0} /\ Len(a \o new) = Len(a) + Len(new)
            /\ (a \o new)[Len(a) + Len(new)] = new[Len(new)]
        BY <1>2, <3>1
      <3>3. a \o new # <<>>
        BY <3>2
      <3> QED BY <3>1, <3>2, <3>3 DEF Screen!Last
    <2> QED BY <1>1, <1>2, <1>3, <2>3 DEF Due, DueOf
  <1>8. Link' /\ Right'
    <2>1. WantedOf(game)' = WantedOf(game)
      BY <1>1 DEF WantedOf, Screen!Prompts
    <2> QED BY <1>1, <1>3, <1>7, <2>1 DEF ScreenInv, Link, Linked, Due, Right, Screen!NoLogin
  <1> QED BY <1>5, <1>6, <1>8 DEF ScreenInv

LEMMA ReceiveKeeps ==
    ASSUME ScreenAssumption, ScreenInv, NEW c \in Conns, Screen!Receive(c)
    PROVE  ScreenInv'
  <1> DEFINE a == wire[c]
  <1>1. /\ a \in Seq(Screen!Packets) /\ a # <<>>
        /\ shown' = [shown EXCEPT ![c] = Head(a)] /\ wire' = [wire EXCEPT ![c] = Tail(a)]
        /\ index' = index /\ socket' = socket /\ login' = login
        /\ user' = user /\ game' = game /\ lapse' = lapse
    BY DEF Screen!Receive, Screen!connVars, ScreenInv, Screen!TypeOK
  <1>2. wire[c] = a
    OBVIOUS
  <1> HIDE DEF a
  <1>3. Head(a) \in Screen!Packets /\ Tail(a) \in Seq(Screen!Packets)
    BY <1>1
  <1>4. Screen!Last(a) = IF Tail(a) = <<>> THEN Head(a) ELSE Screen!Last(Tail(a))
    <2>1. Len(a) \in Nat \ {0} /\ Len(Tail(a)) = Len(a) - 1 /\ Head(a) = a[1]
      BY <1>1
    <2>2. CASE Tail(a) = <<>>
      BY <2>1, <2>2 DEF Screen!Last
    <2>3. CASE Tail(a) # <<>>
      <3>1. Len(Tail(a)) \in 1..Len(Tail(a))
        BY <1>3, <2>3
      <3>2. Tail(a)[Len(a) - 1] = a[Len(a)]
        BY <1>1, <2>1, <3>1
      <3> QED BY <2>1, <2>3, <3>2 DEF Screen!Last
    <2> QED BY <2>2, <2>3
  <1>5. Screen!TypeOK'
    BY <1>1, <1>3 DEF ScreenInv, Screen!TypeOK
  <1>6. Bound' /\ BoxInv'
    BY <1>1 DEF ScreenInv, Bound, BoxInv, BoxOk
  <1>7. ASSUME user # None PROVE Due' = Due
    <2>1. user.conn \in Conns
      BY <1>7, GameTyped DEF UserType
    <2>2. wire \in [Conns -> Seq(Screen!Packets)]
          /\ shown \in [Conns -> Screen!Packets \cup {Screen!Blank}]
      BY DEF ScreenInv, Screen!TypeOK
    <2>3. CASE user.conn = c
      BY <1>1, <1>2, <1>4, <2>1, <2>2, <2>3 DEF Due, DueOf
    <2>4. CASE user.conn # c
      BY <1>1, <2>1, <2>2, <2>4 DEF Due, DueOf
    <2> QED BY <2>3, <2>4
  <1>8. Link' /\ Right'
    <2>1. WantedOf(game)' = WantedOf(game)
      BY <1>1 DEF WantedOf, Screen!Prompts
    <2> QED BY <1>1, <1>7, <2>1 DEF ScreenInv, Link, Linked, Due, Right, Screen!NoLogin
  <1> QED BY <1>5, <1>6, <1>8 DEF ScreenInv

\* A new user has nothing on its screen.
LEMMA Fresh == ASSUME NEW c \in Conns
               PROVE  /\ Screen!NewUser(c) \in UserType /\ Screen!NewUser(c).conn = c
                      /\ Screen!NewUser(c).last = None
  <1>1. <<>> \in Seq(Screen!Packets)
    OBVIOUS
  <1> QED BY <1>1 DEF Screen!NewUser, UserType

LEMMA LogInKeeps ==
    ASSUME ScreenAssumption, ScreenInv, NEW c \in Conns, Screen!Login(c)
    PROVE  ScreenInv'
  <1>1. /\ socket[c] = "new" /\ login = Screen!NoLogin /\ socket' = [socket EXCEPT ![c] = "open"]
        /\ wire' = wire /\ shown' = shown /\ game' = game /\ lapse' = lapse
        /\ socket \in [Conns -> {"new", "open", "ended"}]
    BY DEF Screen!Login, ScreenInv, Screen!TypeOK
  <1>2. \A a \in {"handoff", "success"} :
            LET l == [conn |-> c, awaits |-> a] IN l.conn = c /\ l.awaits = a /\ a # None
    BY DEF ScreenAssumption
  <1>3. CASE user = None
    <2>1. /\ index' = c /\ user' = Screen!NewUser(c) /\ login' = [conn |-> c, awaits |-> "success"]
      BY <1>3 DEF Screen!Login
    <2>2. user' \in UserType /\ user'.conn = c /\ user'.last = None /\ user' # None
      BY <2>1, Fresh DEF ScreenAssumption
    <2>3. login'.conn = c /\ login'.awaits = "success" /\ login' # Screen!NoLogin
      BY <1>2, <2>1 DEF Screen!NoLogin
    <2>4. Screen!TypeOK'
      BY <1>1, <2>1, <2>2 DEF ScreenInv, Screen!TypeOK, UserType
    <2>5. Bound'
      BY <1>1, <2>1, <2>2, <2>3 DEF ScreenInv, Bound, ScreenAssumption
    <2>6. Link' /\ BoxInv' /\ Right'
      BY <2>2, <2>3 DEF Link, Linked, BoxInv, BoxOk, Right, Screen!NoLogin
    <2> QED BY <2>4, <2>5, <2>6 DEF ScreenInv
  <1>4. CASE user # None
    <2>1. /\ index' = index /\ user' = user /\ login' = [conn |-> c, awaits |-> "handoff"]
      BY <1>4 DEF Screen!Login
    <2>2. login'.conn = c /\ login'.awaits = "handoff" /\ login' # Screen!NoLogin
      BY <1>2, <2>1 DEF Screen!NoLogin
    <2>3. user.conn # c /\ user.conn \in Conns /\ socket'[user.conn] = socket[user.conn]
      BY <1>1, <1>4, GameTyped DEF ScreenInv, Bound, UserType
    <2>4. Screen!TypeOK'
      BY <1>1, <2>1 DEF ScreenInv, Screen!TypeOK
    <2>5. Bound'
      BY <1>1, <1>4, <2>1, <2>2, <2>3 DEF ScreenInv, Bound, ScreenAssumption, Screen!NoLogin
    <2>6. BoxInv' /\ Right'
      BY <1>1, <2>1, <2>2 DEF ScreenInv, BoxInv, BoxOk, Right, Screen!NoLogin
    <2>7. Link'
      BY <1>1, <2>1, <2>2, <2>3 DEF ScreenInv, Link, Linked, DueOf
    <2> QED BY <2>4, <2>5, <2>6, <2>7 DEF ScreenInv
  <1> QED BY <1>3, <1>4

LEMMA HandoffKeeps == ASSUME ScreenAssumption, ScreenInv, Screen!Handoff PROVE ScreenInv'
  <1> DEFINE old == user.conn
             new == login.conn
  <1>1. /\ user # None /\ user \in UserType /\ login.awaits = "handoff"
        /\ old \in Conns /\ new \in Conns /\ old # new /\ socket[new] = "open"
    BY GameTyped DEF Screen!Handoff, ScreenInv, Bound, UserType, ScreenAssumption
  <1>2. /\ index' = new /\ user' = Screen!SetConnection(user, new)
        /\ login' = [login EXCEPT !.awaits = "success"]
        /\ socket' = [socket EXCEPT ![old] = "ended"]
        /\ wire' = [wire EXCEPT ![old] = <<>>] /\ shown' = [shown EXCEPT ![old] = Screen!Blank]
        /\ game' = game /\ lapse' = lapse
    BY DEF Screen!Handoff, Screen!Gone
  <1>3. user' \in UserType /\ user'.conn = new /\ user'.last = None /\ user' # None
    BY <1>1, <1>2 DEF Screen!SetConnection, UserType, ScreenAssumption
  <1>4. /\ login' \in [conn : Conns \cup {None}, awaits : {None, "handoff", "success"}]
        /\ login'.conn = new /\ login'.awaits = "success" /\ login' # Screen!NoLogin
    BY <1>2 DEF ScreenInv, Screen!TypeOK, Screen!NoLogin, ScreenAssumption
  <1>5. socket'[new] = "open"
    BY <1>1, <1>2 DEF ScreenInv, Screen!TypeOK
  <1>6. Screen!TypeOK'
    <2>1. <<>> \in Seq(Screen!Packets)
      OBVIOUS
    <2>2. user' \in [conn : Conns, queue : Seq(Screen!Packets), last : Screen!Packets \cup {None}]
      BY <1>3 DEF UserType
    <2> QED BY <1>1, <1>2, <1>4, <2>1, <2>2 DEF ScreenInv, Screen!TypeOK
  <1>7. Bound'
    BY <1>1, <1>2, <1>3, <1>4, <1>5 DEF ScreenInv, Bound, ScreenAssumption
  <1>8. Link' /\ BoxInv' /\ Right'
    BY <1>3, <1>4 DEF Link, Linked, BoxInv, BoxOk, Right, Screen!NoLogin
  <1> QED BY <1>6, <1>7, <1>8 DEF ScreenInv

LEMMA RestoreKeeps == ASSUME ScreenAssumption, ScreenInv, Screen!Restore PROVE ScreenInv'
  <1> DEFINE g == [game EXCEPT !.bot = FALSE]
             w == Screen!Rebuild(g, user)
  <1>1. /\ user # None /\ user \in UserType /\ login.awaits = "success" /\ game \in GameType
        /\ socket[user.conn] = "open"
    BY GameTyped DEF Screen!Restore, ScreenInv, Bound, ScreenAssumption
  <1>2. /\ game' = g /\ user' = w /\ login' = Screen!NoLogin
        /\ lapse' = (g.over \/ g.box = "status_box")
        /\ index' = index /\ socket' = socket /\ wire' = wire /\ shown' = shown
    BY DEF Screen!Restore
  <1>3. g \in GameType /\ g.box = game.box /\ g.over = game.over /\ ~g.bot
    BY <1>1 DEF GameType
  <1> HIDE DEF g
  <1>4. /\ Rest(g) => w = user
        /\ ~Rest(g) => \E p \in WantedOf(g) :
              /\ Paints(user, w, p) /\ p # None /\ p.id # "game_over"
              /\ g.box = "live_status_box" => p.id = "transient_display"
    BY <1>1, <1>3, RebuildDoes
  <1> HIDE DEF w
  <1>5. lapse' = Rest(g)
    BY <1>2, <1>3 DEF Rest
  <1>6. w \in UserType /\ w.conn = user.conn /\ w # None /\ BoxOk(g, w)
    <2>1. CASE Rest(g)
      BY <1>1, <1>3, <1>4, <2>1 DEF ScreenInv, BoxInv, BoxOk
    <2>2. CASE ~Rest(g)
      BY <1>4, <2>2 DEF Paints, Rest, BoxOk, ScreenAssumption
    <2> QED BY <2>1, <2>2
  <1>7. Screen!TypeOK'
    <2>1. login' \in [conn : Conns \cup {None}, awaits : {None, "handoff", "success"}]
      BY <1>2 DEF Screen!NoLogin
    <2>2. user' \in [conn : Conns, queue : Seq(Screen!Packets), last : Screen!Packets \cup {None}]
      BY <1>2, <1>6 DEF UserType
    <2>3. game' \in [content : Screen!Contents, box : {None, "status_box", "live_status_box"},
                     over : BOOLEAN, bot : BOOLEAN]
      BY <1>2, <1>3 DEF GameType
    <2>4. lapse' \in BOOLEAN
      <3>1. g.over \in BOOLEAN /\ (g.box = "status_box") \in BOOLEAN
        BY <1>3 DEF GameType
      <3> QED BY <1>2, <3>1
    <2> QED BY <1>2, <2>1, <2>2, <2>3, <2>4 DEF ScreenInv, Screen!TypeOK
  <1>8. Bound' /\ BoxInv'
    <2>1. login'.conn = None /\ login'.awaits = None
      BY <1>2 DEF Screen!NoLogin
    <2> QED BY <1>1, <1>2, <1>3, <1>6, <2>1
            DEF ScreenInv, Bound, BoxInv, BoxOk, ScreenAssumption
  <1>9. ASSUME ~Rest(g) PROVE Linked(user)' /\ Due' \in WantedOf(g)
    <2>1. PICK p \in WantedOf(g) : Paints(user, w, p) /\ p # None
      BY <1>4, <1>9
    <2>2. w.last = p /\ p \in Screen!Packets /\ user.queue \in Seq(Screen!Packets)
      BY <1>1, <2>1 DEF Paints, UserType
    <2>3. Due' = p
      <3>1. CASE w = user
        <4>1. Due' = Due
          BY <1>2, <3>1 DEF Due, DueOf
        <4> QED BY <1>1, <2>1, <2>2, <3>1, <4>1 DEF ScreenInv, Link, Linked, Due
      <3>2. CASE w.queue = Append(user.queue, p)
        <4>1. w.queue # <<>> /\ Screen!Last(w.queue) = p
          BY <2>2, <3>2, Appended
        <4> QED BY <1>2, <4>1 DEF Due, DueOf
      <3> QED BY <2>1, <3>1, <3>2 DEF Paints
    <2> QED BY <1>2, <2>1, <2>2, <2>3 DEF Linked, Due
  <1>10. Link' /\ Right'
    <2>1. WantedOf(game)' = WantedOf(g)
      BY <1>2 DEF WantedOf, Screen!Prompts
    <2>2. login'.awaits # "success"
      BY <1>2 DEF Screen!NoLogin, ScreenAssumption
    <2> QED BY <1>5, <1>9, <2>1, <2>2 DEF Link, Right
  <1> QED BY <1>7, <1>8, <1>10 DEF ScreenInv

LEMMA LoseKeeps ==
    ASSUME ScreenAssumption, ScreenInv, NEW c \in Conns, Screen!Lose(c)
    PROVE  ScreenInv'
  <1>1. /\ socket[c] = "open" /\ login.conn # c
        /\ socket' = [socket EXCEPT ![c] = "ended"]
        /\ wire' = [wire EXCEPT ![c] = <<>>] /\ shown' = [shown EXCEPT ![c] = Screen!Blank]
        /\ index' = IF index = c THEN None ELSE index
        /\ login' = login /\ user' = user /\ game' = game /\ lapse' = lapse
    BY DEF Screen!Lose, Screen!Gone
  <1>2. /\ socket \in [Conns -> {"new", "open", "ended"}] /\ socket'[c] = "ended"
        /\ \A d \in Conns \ {c} : /\ socket'[d] = socket[d] /\ wire'[d] = wire[d]
                                 /\ shown'[d] = shown[d]
    BY <1>1 DEF ScreenInv, Screen!TypeOK
  <1>3. user # None => user.conn \in Conns
    BY GameTyped DEF UserType
  <1>4. Screen!TypeOK'
    <2>1. <<>> \in Seq(Screen!Packets)
      OBVIOUS
    <2> QED BY <1>1, <2>1 DEF ScreenInv, Screen!TypeOK
  <1>5. Bound'
    BY <1>1, <1>2, <1>3 DEF ScreenInv, Bound
  <1>6. BoxInv'
    BY <1>1 DEF ScreenInv, BoxInv, BoxOk
  <1>7. CASE user # None /\ user.conn = c
    BY <1>1, <1>2, <1>4, <1>5, <1>6, <1>7 DEF ScreenInv, Link, Right
  <1>8. CASE user # None /\ user.conn # c
    <2>1. WantedOf(game)' = WantedOf(game)
      BY <1>1 DEF WantedOf, Screen!Prompts
    <2>2. Due' = Due /\ socket'[user.conn] = socket[user.conn]
      BY <1>1, <1>2, <1>3, <1>8 DEF Due, DueOf
    <2>3. Link'
      BY <1>1, <2>2 DEF ScreenInv, Link, Linked, Due
    <2>4. Right'
      BY <1>1, <2>1, <2>2 DEF ScreenInv, Right, Screen!NoLogin
    <2> QED BY <1>4, <1>5, <1>6, <2>3, <2>4 DEF ScreenInv
  <1>9. CASE user = None
    BY <1>1, <1>4, <1>5, <1>6, <1>9 DEF ScreenInv, Link, Right
  <1> QED BY <1>7, <1>8, <1>9

LEMMA ReleaseKeeps == ASSUME ScreenAssumption, ScreenInv, Screen!Release PROVE ScreenInv'
  <1>1. /\ login = Screen!NoLogin /\ user' = None /\ game' = [game EXCEPT !.bot = TRUE]
        /\ index' = index /\ socket' = socket /\ login' = login
        /\ wire' = wire /\ shown' = shown /\ lapse' = lapse
    BY DEF Screen!Release, Screen!connVars
  <1>2. game' \in GameType /\ game'.box = game.box /\ game'.over = game.over
    BY <1>1, GameTyped DEF GameType
  <1>3. Screen!TypeOK'
    BY <1>1, <1>2 DEF ScreenInv, Screen!TypeOK, GameType
  <1>4. Bound'
    BY <1>1, <1>2 DEF ScreenInv, Bound, Screen!NoLogin, ScreenAssumption
  <1> QED BY <1>1, <1>3, <1>4 DEF ScreenInv, Link, BoxInv, Right
-----------------------------------------------------------------------------
LEMMA ScreenStarts == ScreenAssumption /\ Screen!Init => ScreenInv
  <1> SUFFICES ASSUME ScreenAssumption, Screen!Init PROVE ScreenInv
    OBVIOUS
  <1> DEFINE p == Screen!Menu("turn_menu", 0)
  <1>1. p \in Screen!Packets /\ p.id = "turn_menu" /\ 0 \in Screen!Contents
    BY MenuType DEF Screen!Menus, Screen!Contents
  <1>2. index \in Conns
    BY DEF Screen!Init, ScreenAssumption
  <1>3. /\ user = [Screen!NewUser(index) EXCEPT !.last = p] /\ socket[index] = "open"
        /\ login = Screen!NoLogin /\ wire[index] = <<>> /\ shown[index] = p
        /\ game = [content |-> 0, box |-> None, over |-> FALSE, bot |-> FALSE]
        /\ lapse = FALSE
    BY <1>2 DEF Screen!Init
  <1> HIDE DEF p
  <1>4. /\ user \in UserType /\ user.conn = index /\ user.last = p /\ user.queue = <<>>
        /\ user # None
    <2>1. <<>> \in Seq(Screen!Packets)
      OBVIOUS
    <2>2. user \in UserType /\ user.conn = index /\ user.last = p /\ user.queue = <<>>
      BY <1>1, <1>2, <1>3, <2>1 DEF Screen!NewUser, UserType
    <2> QED BY <2>2 DEF ScreenAssumption
  <1>5. Screen!TypeOK
    <2>1. <<>> \in Seq(Screen!Packets)
      OBVIOUS
    <2>2. shown \in [Conns -> Screen!Packets \cup {Screen!Blank}]
      BY <1>1 DEF Screen!Init, p
    <2>3. game \in GameType /\ login \in [conn : Conns \cup {None},
                                           awaits : {None, "handoff", "success"}]
      BY <1>1, <1>3 DEF GameType, Screen!NoLogin
    <2> QED BY <1>2, <1>3, <1>4, <2>1, <2>2, <2>3 DEF Screen!Init, Screen!TypeOK, UserType, GameType
  <1>6. Bound
    BY <1>3, <1>4 DEF Bound, Screen!NoLogin, ScreenAssumption
  <1>7. Due = p
    BY <1>3, <1>4 DEF Due, DueOf
  <1>8. BoxInv
    BY <1>1, <1>3, <1>4 DEF BoxInv, BoxOk, ScreenAssumption
  <1>9. p \in WantedOf(game)
    BY <1>3 DEF WantedOf, ScreenAssumption, p
  <1> QED BY <1>4, <1>5, <1>6, <1>7, <1>8, <1>9 DEF ScreenInv, Link, Linked, Due, Right

LEMMA ScreenKeeps == ScreenAssumption /\ ScreenInv /\ [Screen!Next]_(Screen!vars) => ScreenInv'
  <1> SUFFICES ASSUME ScreenAssumption, ScreenInv, [Screen!Next]_(Screen!vars) PROVE ScreenInv'
    OBVIOUS
  <1>1. \A new \in Screen!Contents : game.content = new => 1 - game.content \in Screen!Contents
    BY DEF Screen!Contents
  <1>2. game.content \in Screen!Contents
    BY GameTyped DEF GameType
  <1>3. CASE Screen!Tick
    <2>1. ASSUME Screen!OthersPlay PROVE ScreenInv'
      BY <1>1, <1>2, <2>1, ContentStep DEF Screen!OthersPlay
    <2> QED BY <1>3, <2>1, FinishKeeps, FlushKeeps DEF Screen!Tick
  <1>4. ASSUME NEW c \in Conns, Screen!Event(c) PROVE ScreenInv'
    <2>1. ASSUME Screen!Play(c) PROVE ScreenInv'
      BY <1>1, <1>2, <2>1, ContentStep DEF Screen!Play
    <2>2. ASSUME Screen!Answer(c) PROVE ScreenInv'
      BY <1>2, <2>2, ContentStep DEF Screen!Answer
    <2> QED BY <1>4, <2>1, <2>2, OpenBoxKeeps, AskKeeps, AskLeaveKeeps, StayInGameKeeps,
               CloseBoxKeeps DEF Screen!Event
  <1>5. ASSUME NEW c \in Conns, Screen!Receive(c) \/ Screen!Login(c) \/ Screen!Lose(c)
        PROVE  ScreenInv'
    BY <1>5, ReceiveKeeps, LogInKeeps, LoseKeeps
  <1>6. CASE UNCHANGED Screen!vars
    BY <1>6 DEF Screen!vars, Screen!connVars, ScreenInv, Screen!TypeOK, Bound, Link, Linked,
                BoxInv, BoxOk, Right, Due, DueOf, WantedOf, Screen!Prompts, Screen!NoLogin,
                Screen!Menu
  <1> QED BY <1>3, <1>4, <1>5, <1>6, HandoffKeeps, RestoreKeeps, ReleaseKeeps DEF Screen!Next

LEMMA ScreenShown ==
    ASSUME ScreenInv
    PROVE  Screen!ScreenFollows
  <1> SUFFICES ASSUME Screen!Settled, ~lapse PROVE shown[user.conn] \in Screen!Wanted
    BY DEF Screen!ScreenFollows
  <1>1. Due = shown[user.conn]
    BY DEF Screen!Settled, Due, DueOf
  <1>2. Due \in WantedOf(game)
    BY DEF Screen!Settled, ScreenInv, Right
  <1> QED BY <1>1, <1>2 DEF Screen!Wanted, WantedOf
-----------------------------------------------------------------------------
(* The voice.                                                              *)

VoiceInv == Voice!TypeOK /\ Voice!VoiceOfMembers

\* The types alone.
LEMMA VoiceTypes == Voice!TypeOK /\ [Voice!Next]_(Voice!vars) => Voice!TypeOK'
  <1> SUFFICES ASSUME Voice!TypeOK, [Voice!Next]_(Voice!vars) PROVE Voice!TypeOK'
    OBVIOUS
  <1> USE DEF Voice!TypeOK
  <1>1. ASSUME NEW u \in Users, NEW t \in Tables, Voice!Enter(u, t) PROVE Voice!TypeOK'
    BY <1>1 DEF Voice!Enter
  <1>2. ASSUME NEW u \in Users, NEW t \in Tables \cup {None}, Voice!Request(u, t)
        PROVE  Voice!TypeOK'
    <2>1. CASE Voice!Join(u, t)
      BY <2>1 DEF Voice!Join
    <2>2. CASE Voice!Connected(u, t)
      BY <2>2 DEF Voice!Connected
    <2>3. CASE Voice!Disconnected(u, t)
      BY <2>3 DEF Voice!Disconnected
    <2> QED BY <1>2, <2>1, <2>2, <2>3 DEF Voice!Request
  <1>3. ASSUME NEW u \in Users, Voice!Leave(u) PROVE Voice!TypeOK'
    <2>1. \A v \in Users \ {u} : table[v] # None => table[v] \in open'
      BY <1>3 DEF Voice!Leave, Voice!Members
    <2>2. \A v \in Users \ {u} : table'[v] = table[v]
      BY <1>3 DEF Voice!Leave
    <2>3. table'[u] = None
      BY <1>3 DEF Voice!Leave
    <2>4. table' \in [Users -> open' \cup {None}]
      BY <1>3, <2>1, <2>2, <2>3 DEF Voice!Leave
    <2> QED BY <1>3, <2>4 DEF Voice!Leave, Voice!Removed
  <1>4. ASSUME NEW u \in Users,
               \/ Voice!TearDown(u) \/ Voice!Lapse(u) \/ Voice!Mute(u)
               \/ Voice!Evict(u) \/ Voice!Unmute(u)
        PROVE  Voice!TypeOK'
    BY <1>4 DEF Voice!TearDown, Voice!Lapse, Voice!Mute, Voice!Evict, Voice!Unmute
  <1>5. ASSUME NEW t \in Tables, Voice!Close(t) PROVE Voice!TypeOK'
    BY <1>5 DEF Voice!Close
  <1>6. CASE UNCHANGED Voice!vars
    BY <1>6 DEF Voice!vars
  <1> QED BY <1>1, <1>2, <1>3, <1>4, <1>5, <1>6 DEF Voice!Next

LEMMA VoiceKeeps ==
    ASSUME None \notin Tables, VoiceInv, [Voice!Next]_(Voice!vars)
    PROVE  Voice!VoiceOfMembers'
  <1> USE DEF VoiceInv, Voice!TypeOK, Voice!VoiceOfMembers
  <1>1. ASSUME NEW u \in Users, NEW t \in Tables, Voice!Enter(u, t) PROVE Voice!VoiceOfMembers'
    BY <1>1 DEF Voice!Enter
  <1>2. ASSUME NEW u \in Users, NEW t \in Tables \cup {None}, Voice!Request(u, t)
        PROVE  Voice!VoiceOfMembers'
    <2>1. CASE Voice!Join(u, t)
      BY <2>1 DEF Voice!Join
    <2>2. CASE Voice!Connected(u, t)
      BY <2>2 DEF Voice!Connected
    <2>3. CASE Voice!Disconnected(u, t)
      BY <2>3 DEF Voice!Disconnected
    <2> QED BY <1>2, <2>1, <2>2, <2>3 DEF Voice!Request
  <1>3. ASSUME NEW u \in Users, Voice!Leave(u) PROVE Voice!VoiceOfMembers'
    <2>1. open' \subseteq open
      BY <1>3 DEF Voice!Leave
    <2> QED BY <1>3, <2>1 DEF Voice!Leave, Voice!Removed
  <1>4. ASSUME NEW u \in Users,
               \/ Voice!TearDown(u) \/ Voice!Lapse(u) \/ Voice!Mute(u)
               \/ Voice!Evict(u) \/ Voice!Unmute(u)
        PROVE  Voice!VoiceOfMembers'
    BY <1>4 DEF Voice!TearDown, Voice!Lapse, Voice!Mute, Voice!Evict, Voice!Unmute
  <1>5. ASSUME NEW t \in Tables, Voice!Close(t) PROVE Voice!VoiceOfMembers'
    BY <1>5 DEF Voice!Close
  <1>6. CASE UNCHANGED Voice!vars
    BY <1>6 DEF Voice!vars
  <1> QED BY <1>1, <1>2, <1>3, <1>4, <1>5, <1>6 DEF Voice!Next

LEMMA VoiceStarts == Voice!Init => VoiceInv
  BY DEF Voice!Init, VoiceInv, Voice!TypeOK, Voice!VoiceOfMembers, Voice!Nobody
-----------------------------------------------------------------------------
(* The services side by side.                                              *)

\* A step of the services is one of each, or leaves that one alone.
LEMMA EachService ==
    ASSUME [ServicesNext]_servicesVars
    PROVE  [Next]_vars /\ [Voice!Next]_(Voice!vars) /\ [Screen!Next]_(Screen!vars)
  <1> USE DEF voiceVars, screenVars, Voice!vars, Screen!vars, Screen!connVars
  <1>1. CASE UNCHANGED servicesVars
    BY <1>1 DEF servicesVars
  <1>2. CASE Next /\ UNCHANGED <<voiceVars, screenVars>>
    BY <1>2
  <1>3. CASE VoiceStep
    BY <1>3 DEF VoiceStep
  <1>4. CASE ScreenStep
    BY <1>4 DEF ScreenStep
  <1> QED BY <1>1, <1>2, <1>3, <1>4 DEF ServicesNext

\* Whoever is in the voice of a table is a member of it or about to be taken out, nobody
\* muted is, and no token outlives what it was granted for, whatever the order in which
\* leaving, mutes and requests take effect (on_table_member_removed, _mute_user,
\* _register_voice_presence).
THEOREM VoiceOfMembersForAll ==
    ASSUME None \notin Tables
    PROVE  ServicesSpec => []VoiceOfMembers
  <1>1. ServicesInit => VoiceInv
    BY VoiceStarts DEF ServicesInit
  <1>2. VoiceInv /\ [ServicesNext]_servicesVars => VoiceInv'
    BY EachService, VoiceTypes, VoiceKeeps DEF VoiceInv
  <1>3. VoiceInv => VoiceOfMembers
    BY DEF VoiceInv, VoiceOfMembers
  <1> QED BY <1>1, <1>2, <1>3, PTL DEF ServicesSpec

\* Once everything painted has arrived the player sees what the game has on the screen,
\* whatever connections came and went and whichever repaints the server left out as
\* nothing new (NetworkUser.show_menu, set_connection and get_queued_messages), but for
\* the two known lapses.
THEOREM ScreenFollowsForAll ==
    ASSUME ScreenAssumption
    PROVE  ServicesSpec => []ScreenFollows
  <1>1. ServicesInit => ScreenInv
    BY ScreenStarts DEF ServicesInit
  <1>2. ScreenInv /\ [ServicesNext]_servicesVars => ScreenInv'
    BY EachService, ScreenKeeps
  <1>3. ScreenInv => ScreenFollows
    BY ScreenShown DEF ScreenFollows
  <1> QED BY <1>1, <1>2, <1>3, PTL DEF ServicesSpec

\* Every variable of the three services keeps its type: in particular a packet on its way
\* is one of those the game paints, and nobody is a member of a table that is gone
\* (Server._flush_user_messages, Table.destroy).
THEOREM ServicesTypeCorrect ==
    ASSUME ScreenAssumption
    PROVE  ServicesSpec => []ServicesTypeOK
  <1>1. Spec => []TypeOK
    BY BotTypeCorrect
  <1>2. ServicesInit => Init /\ ScreenInv /\ Voice!TypeOK
    BY ScreenStarts, VoiceStarts DEF ServicesInit, VoiceInv
  <1>3. [ServicesNext]_servicesVars => [Next]_vars
    BY EachService
  <1>4. ScreenInv /\ Voice!TypeOK /\ [ServicesNext]_servicesVars
        => (ScreenInv /\ Voice!TypeOK)'
    BY EachService, ScreenKeeps, VoiceTypes
  <1>5. TypeOK /\ ScreenInv /\ Voice!TypeOK => ServicesTypeOK
    BY DEF ServicesTypeOK, ScreenInv
  <1> QED BY <1>1, <1>2, <1>3, <1>4, <1>5, PTL DEF ServicesSpec, Spec
=============================================================================
