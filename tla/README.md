# PlayPalace: TLA+ models

PlayPalace is a server of audio games (`src/server`, one Python asyncio
process) and its clients (`src/clients`: web, desktop, mobile), which talk to it over
WebSockets. This directory holds TLA+ specifications of the server's core and of
five of its games, the TLC configurations that check them, and TLAPS proofs. All line
numbers refer to the files under `src/server` unless another path is given.

1. [The system](#1-the-system)
2. [Modules](#2-modules)
3. [What the runs show](#3-what-the-runs-show)
4. [What is proved](#4-what-is-proved)
5. [Disagreements and flaws](#5-disagreements-and-flaws)
6. [What is not modelled](#6-what-is-not-modelled)
7. [Plan](#7-plan)

To run: `tlc -config MCSessions_sessions.cfg MCSessions`, and so on (the name of a
configuration is the module's, an underscore, and the run's); `tlapm SessionsProofs.tla`,
and likewise the other modules whose names end in `Proofs`.

## 1. The system

Everything below runs on one event loop, except the hashing of passwords, which
runs in worker threads. Each connection has a coroutine that takes one packet
at a time; a second packet of the same connection is not read before the first is
handled. So two handlers interleave only at awaits, and only handlers of
different connections (or a task: the tick, a timeout, a clean-up) do. Code
between two awaits is atomic. That is the granularity of all the models. The
handlers of games never await: a key or a tick of a game is one step, and what is
hard there is the order of steps.

| component | state | operations | hard behaviour | what makes it correct | model |
|---|---|---|---|---|---|
| **WebSocket server** `network/websocket_server.py` | `_clients`, `_username_index`; per connection `username`, `authenticated`, `replaced` | connect (limits), authentication timeout, message loop, close, end of handler | a socket ends while its handler is in an await; slots of a limited table | the index leads to the live connection; every slot is freed | `Sessions` |
| **Login sessions** `core/server.py` | `_users`, `_pending_disconnects`, `_login_locks` | authorize, refresh_session, handoff of a live session, two-second grace period, ban | takeover racing disconnect, clean-up racing reconnection, records read before a lock | one session per account; nobody stays "online" for ever | `Sessions` |
| **Credentials** `auth/auth.py`, table `refresh_tokens` | access sessions (memory), refresh tokens (database) | login, refresh with rotation, replay in a grace window, reuse detection, revocation by ban | lost and overtaking answers, a crash between two writes, clock boundaries | one usable token per login; revoked is revoked; honest clients are not locked out | `AuthTokens` |
| **Tables** `tables/table.py`, `tables/manager.py` | `_tables`, `Table.members` | create, add and remove member, destroy, save | four ways of leaving a table, each a different sequence of calls | a user is at one table; destroyed tables do not come back | `Seats` |
| **Seats and lobby** `game_utils/lobby_actions_mixin.py`, `games/base.py` | `Game.players`, `_users`, `status`, `host` | join, leave, replace by bot, return, bots, spectators, start, finish | members (by name) and players (by uuid) are separate books | a seat is controlled by its user or by a bot; the lobby has a host | `Seats` |
| **Table persistence** `core/server.py`, `persistence/database.py` | rows of `tables` and `saved_tables` | snapshot, load, save, restore | stale snapshot after a crash; people are elsewhere when a game is restored | nobody ends up at two tables | `Seats` |
| **Virtual bots** `core/virtual_bots.py` | bot records with a state, guided tables, entries in `_users`, rows | online, offline, create, join, wait for a table, leave, fill, clear, save, load | they share `_users`, tables and names with people | a bot is online iff its record says so; it moves on when its game is over | `VirtualBots` |
| **Voice** `core/voice_mixin.py` | presence, join authorizations, mutes | authorize, join, leave, mute, tear-down task after a member left | the tear-down is scheduled by one table and run later; a mute awaits a message | whoever is in a table's voice is a member, or is being torn out | `Voice` |
| **Message queue and menus** `users/network_user.py`, `game_utils/menu_management_mixin.py`, `event_handling_mixin.py` | per-user queue of packets, last menu painted, open boxes and prompts | paint, coalesce, skip a repaint that changes nothing, flush each tick, new connection | a flush during a handoff; a repaint taken for known | the client shows what the game has on the player's screen | `Screen` |
| **Turn order** `game_utils/turn_management_mixin.py` | list, index, direction, skips | advance, reverse, skip | an index modulo the number of players, skips that add up | the current player can move | part of `LastCard` |
| **Sequences** `game_utils/sequence_runner_mixin.py` | active sequences of beats with callbacks | start, cancel, tick | each locks the keys and starts the next in its last callback | a lock is released | `SequenceRunner`, `DeadMansDeck` |
| **Coup** `games/coup` | hands, coins, a claim with a timer, a queue of events | actions, challenge, block, pass, lose an influence, exchange | timer against keys; keys locked until a queued event unlocks them | never frozen; two influences each | `Coup` |
| **Hold'em** `games/holdem`, `game_utils/poker_*.py` | chips, bets, order, pots | blinds, fold, call, raise, all in, showdown, next hand | side pots, all-ins, eliminations, pauses with live keys | chips are kept; pots add up; the turn finds somebody | `Holdem` |
| **Exploding Kittens** `games/explodingkittens` | deck, hands, a pending action in a window | cards, combos, Nopes, favors, draw, defuse | the last pass, a Nope and the timer meet; targets lose their cards meanwhile | a kitten for everybody who must die; nothing to repair | `Kittens` |
| **LastCard** `games/lastcard` | hands, deck, pile, three windows to interrupt | play, draw, stack, challenge, call out, jump in, swap, rotate | effects, skips and windows pending while the turn moves | no card is lost; whoever must move can | `LastCard` |
| **Dead Man's Deck** `games/deadmansdeck` | hands, revolvers, the last claim, sequences | play cards, call a liar, roulette | everything between turns is a chain of callbacks | never stuck; the right player dies | `DeadMansDeck` |
| **Lifecycle** `core/state.py`, **chat and rate limits**, **administration** beyond bans, **menus and options**, **documents**, **localization**, **other games**, **clients' interfaces**, **command line** | | | | | section 6 |

How they interact: a packet reaches `Server._on_client_message`; an authorize
or refresh_session packet asks `AuthManager` and goes to `_finalize_login`,
which puts a `NetworkUser` in `_users` and binds it to the connection and, at
the end, calls `_restore_login_table` to put a returning member back into the
seat (Tables, Seats). Other packets go through `_users` and
`TableManager.find_user_table` to the game. Games and tables call back into the
server (`on_table_member_removed`, which also ends the member's voice, `on_table_destroy`,
`on_table_save`). When a connection ends, `_on_client_disconnect` starts a clean-up
task that, two seconds later, takes the user out of the game, keeps or drops the
membership, and releases the user object. A tick every 50 ms lets each table's game
play its timers, sequences and bots, lets the virtual bots act as users do, and sends
everything queued for a user through `_username_index`.

`PROJECT.json` lists all components with their status, and the hazards of the
code, each at its line.

## 2. Modules

| module | what it is |
|---|---|
| `Sessions` | connections, logins, takeover, grace period, bans, name clashes with virtual bots |
| `AccountSession` | what the session layer promises: an abstract one-owner register per account |
| `Seats` | tables, members, seats, lobby, snapshots and saved games |
| `AuthTokens` | access sessions and refresh tokens |
| `VirtualBots` | the virtual bots, with the users, tables and rows they share with people |
| `Voice` | authorizations, presence, mutes and tear-down tasks of voice chat |
| `Screen` | what the client of one player shows, across connections |
| `Holdem`, `Coup`, `Kittens`, `LastCard`, `DeadMansDeck` | five games |
| `SequenceRunner` | operators for the sequences of `DeadMansDeck` |
| `Lists` | what is left of a list when entries are taken out of it, for `Seats`, `AuthTokens`, `Screen` and `Holdem`; sums |
| `Services` | `VirtualBots`, `Voice` and `Screen` side by side, as they run in one server |
| `Games` | the five games side by side, as tables of a server |
| `SessionsProofs`, `SeatsProofs`, `AuthTokensProofs` | theorems about the module of that name |
| `ServicesProofs` | theorems about `VirtualBots`, and about `Voice` and `Screen` as parts of `Services` |
| `CoupAndDeckProofs`, `GamesProofs`, `HoldemProofs` | theorems about `Coup` and `DeadMansDeck`; about the tables of `Games` that play `Kittens` and `LastCard`, and those two; about those that play `Holdem` |
| `ListsProofs` | lemmas about `Lists`, sums and remainders |
| `MCSessions`, `MCSeats`, `MCAuthTokens`, `MCServices`, `MCGames`, `MCHoldem` | instances for TLC |

Definitions named `X_Something` and marked "Mutant" are faulty variants of
definition `X`, as a plausible bug would make it. Each property is known to
fail when `X` is replaced by its variant, so that no property is vacuous; the
pairs are in `PROJECT.json` ("mutants"). No specification uses them.

### Sessions

A connection is a model value that is made once: `sock` goes from `new` through
`open` and `closed` (the socket is shut, the coroutine has not ended) to `gone`
(the `finally` of `_handle_client` has run). `pc` is the await the handler of
its current packet is suspended at, and `login`, `rec`, `fresh`, `prev` are the
handler's local variables that live across it.

| action | code |
|---|---|
| `Connect`, `SocketCloses`, `AuthTimeout`, `HandlerEnds` | `_handle_client`, `_enforce_auth_timeout` (websocket_server.py), `_on_client_disconnect` (server.py) |
| `PasswordLogin`, `Verified`, `Refused` | `_handle_authorize` around the hash in the worker thread |
| `TokenLogin` | `_handle_authorize` with a session token and `_handle_refresh_session`, which do not await before `_finalize_login` |
| `Attach`, `LockGranted` | `_attach_or_update_user_locked` up to its first await, when the lock is free, and when it is granted |
| `OldNotified`, `Rebind` | `_handoff_existing_session`: the awaits on the old connection; then binding the new one and releasing the lock |
| `LoginDone` | the rest of `_finalize_login` |
| `GraceExpires` | `_delayed_disconnect_cleanup` after its sleep |
| `Ban`, `BanCloses` | `_ban_user` before and after its sends |
| `BotOnline`, `BotOffline` | the two places where a virtual bot enters and leaves `_users` |

Abstractions. Accounts are approved. The server is RUNNING. Passwords and tokens
are right or wrong by choice (module `AuthTokens` says when a token is good). Sends
to a peer may take any time; a send to a socket that is not open returns at
once. One guard is about time: `GraceExpires` waits until no login of that
account is one loop iteration from its end (`Resumable`), because the clean-up
sleeps two seconds and such a handler is resumed in the next iteration.

`AccountSession` has four steps: an account nobody owns gets an owner, passes
from a shut connection to a new one, is given up by a shut connection, and a
connection is shut. The refinement mapping reads the owner off the user object
(a virtual bot's object counts as nobody), the shut connections off `sock`, and
takes a connection to have lost an account if it has that name and the user
object is bound elsewhere.

### Seats

One table and its game keep three books: `members` (names), `players` (ids, a
seat kept by a bot has the id of the user it is kept for) and `gusers` (who
gets the packets of a player). Handlers that touch them do not await between,
so each is one action: `Leave` (leave in the game, then the removal of the
member in `_handle_menu`), `Disconnect` (the clean-up, which keeps the
membership unless it was the last), `Login` and `Arrive` (the two halves of a
login as far as tables are concerned; `Arrive` of a user who is online already
is a takeover), `Create`, `Join`, `AddBot`, `RemoveBot`, `ToggleSpectator`,
`Start`, `Finish`, `Persist`, `Restart`, `Save`, `Restore`. What other users see
after such a step (`ScreensAfter`) is part of it.

Abstractions. A player's name is its id. `tstate` gives each table one life; its
id is never used again (uuid4). One saved game exists at a time. `Save` is one
step, though the code uses two transactions. Games that override
`_perform_leave_game` (chess, uno, crazyeights, numberchain, backgammon) and teams
are left out; virtual bots at tables are in `VirtualBots`. `Finish` may happen at any
time in a running game.

`doubled` is history: somebody has joined a game that was keeping a seat for them, and
so has two seats in it (the flaw `rejoin` of section 5). From then on the books need not
agree, since the code finds a player by id: `SeatingSound`, `SeatControl`, `ScreenAgrees` and `FirstSeatKept`
are stated of histories in which that has not happened. `OneTable` and `NoZombie` hold of all.

### AuthTokens

`tokens` is the database table in the order of insertion; a token is named by its
row. `sessions` is `AuthManager._sessions`. What a device stores and what is on
its way to it are variables too, since the point of rotation is what happens
when the answer is lost, late, or overtaken. There is one action for each way
out of `refresh_session`: it rotates, replays, detects reuse, finds the token
expired, or refuses. `CrashInRotation` is a crash between the insertion of the
successor and the update of the token presented; `Restart` a crash anywhere
else. Integer seconds are modelled as they are; comparisons are those of the
code, so both ends of each window are exercised (Grace = 1).

Abstractions. The history variables `cut`, `barred`, and the fields `chain`,
`sent` and `tok` are not in the code. A right password is presumed. Not
modelled: the upgrade of old hashes, account deletion, rate limits.
After a ban and unban, or the detection of a reuse, every other device of the
user that presents its now dead token sets off the detection again: that is
what the code intends (auth.py:318: "Revoked without rotation ... no grace"). It is
why the scenario with honest devices has no bans. Reuse detection revokes refresh
tokens only; access sessions live on until they expire.

### VirtualBots

A bot's record (`bots`) has a state and a table, as `VirtualBot` does. What others see of
it is kept in `users`, `members`, `seats` and `host`. `BotTick(b)` is
`_process_bot_tick`: it comes online, idles (creates or joins a table, or goes
offline), plays on, quits a game that is over, waits for its guided table.
`Refresh` is the guided tables' part of the tick, `Fill` and `Clear` the administrator's
commands, `Persist`, `Stop` and `Crash` what is saved and what a restart reads back.
People log in, drop, return, act at a table and finish games. There is one
guided table at most (`rule` is the set of bots of its groups); cooldowns, thinking
times, time windows and profiles only delay or choose and are nondeterminism.

### Voice and Screen

`Voice` keeps what the mixin's two dictionaries hold, and the two things under way that
end a presence: `tearing`, the task that `on_table_member_removed` schedules, and
`evicting`, a mute that awaits its message. Clients send what they like (`Request`).

`Screen` follows one player of a running game: the packets queued in the `NetworkUser`, those on the
`wire` to each connection, and what each client shows. What is skipped as a repaint that
changes nothing is skipped by the code's own comparison (`_last_menu_packet_id` and
the content). The game part keeps only what decides what is painted: an open
status box, a prompt, the end. `lapse` is history: it says that the last paint left out
a menu that was needed, in one of the two ways of section 5.

### Games

Each game is a record of its fields (or a variable per field), a key or event is an
action, and a helper is an operator on the record; where cards are drawn from a shuffled
deck or hands are compared, the operator yields the set of outcomes. Every module's
heading says what is left out. Points common to all:

- A timer of so many ticks may expire at any tick while it runs. What it does is
  modelled, how long it takes is not; a pause in which keys are dead is one step of the tick,
  a pause in which they are live is a state.
- Bots press the keys that people press, any that is enabled. In `Coup` the seat of a player
  who leaves is taken over by a bot and back, since the code has a state in between (`halfway`).
- `Holdem` ranks hands in any order, so all showdowns are covered; blinds do not rise. The turn timer is an option,
  off by default (games/holdem/game.py:115), so a table has one or has none (`timed`). `paid`,
  `settled` and `skewed` are history: what a hand paid, how often it was paid, and that a blind took
  a last chip.
- `Coup` leaves out which characters are held: a challenge finds a bluff or the truth.
- `Kittens` and `DeadMansDeck` keep bags of kinds for hands and deck.
- `LastCard` takes its options from the deal (`opt`, one of `Dealings`), how many of the seats play among them, so that
  one model has stacking, callouts, challenges, jumping in, several cards at once, swapped and rotated hands. `hasty` is history: a key was
  used in the pause after a colour was chosen (section 5).
- `DeadMansDeck` gives each sequence the callbacks that are left of it; beats without callbacks only take time.

## 3. What the runs show

One run puts scenarios together that share nothing but the checker: the first variable
of the instance (`scenario`, `part`, `playing`) is chosen at the start and never changes. Each instance has a
specification of its own, `MCSpec`, which fixes that choice and what the parts that stand still start with; what it
allows, the specification of the module allows too, so an invariant proved of `Services` or `Games` holds in it.
States are distinct states. `CHECK_DEADLOCK FALSE` is
set where a run may rightly end: every connection has come and gone, every
table is gone and every user has used up the tables it may create or join, or a game is over.

| run | instance | shows |
|---|---|---|
| `sessions` | "once": 3 connections, 2 slots, 1 account that a virtual bot is also named after and an administrator may ban; each connection logs in once. "again": 2 connections, 2 accounts, up to 3 logins per connection (99,000 states) | `NoStrandedUser`: whoever is in `_users` has a live connection, a running grace period, or a handoff that will rebind it. `SingleSession`: at most one connection acts for an account. `IndexAgrees`: packets of a user go to the connection its user object is bound to. `SessionRefinement`: all of it implements `AccountSession`. `LoginServed`: a login that waits for the lock or for the old connection gets through. `DeadReleased`: a user object on a dead connection is released or handed over. `SlotFreed`: a connection that does not log in gives its slot back. `AgainPaired`: in "again" still only one connection acts, and online and offline announcements alternate |
| `seats` | "lobby": 3 users and a bot at one table for 2, who create or join once, and may watch. "tables": 2 users, 3 tables, each user creates or joins twice (306,000 states) | `SeatControl`: the game talks to a bot where the seat is a bot's, and never to a released user object. `SeatingSound`: who sits as a human is a member, and a running game has a legal number of players, whatever the lobby had. `FirstSeatKept`: nobody's seat in a running game disappears (unless joined twice, section 5). `OneTable`: snapshots, crashes and restored games never put anybody at two tables. `ScreenAgrees`: what a client shows is where its packets go. `NoZombie`: a closed table stays closed, also after a restart |
| `tokens` | "races": 1 device with 2 requests under way, 2 seconds, bans and crashes. "honest": 2 devices, 1 request each at a time, 3 seconds, no bans, retries within the grace window. 3 tokens (1.3 million states) | `OneLiveTip`: of the tokens ever sent for one login at most one can be exchanged. `CutIsFinal`: a ban or a reuse ends every earlier token for good. `SessionsSound`: the same for access sessions, and their number is capped. `RevokedIsFinal`: a revoked row is never changed again, so the grace window cannot be extended. `HonestKeepsToken`: lost answers, crashes between the two writes and refreshes of another device never make an honest device look like a thief |
| `services` | "bots": 2 bots, one a person's namesake, with and without a guided table, 2 tables, bots may own 1, a restart. "people": two people and the tables, without bots. "voice": 2 users, 2 tables. "screen": one player, 3 connections, 2 packets queued (202,000 states) | `OnlineTogether`: a bot whose record says it is online is among the users, and the converse where no guided table is configured (section 5 says why only there). `SeatHeld`: bots sit, are members and are recorded at the same table. `BotTableLimit`: bots do not own more tables than they may. `BotsMoveOn`: a bot whose game is over or whose table is closed does not stay. `BotTableCloses`: a finished table where only bots are left is closed. `VoiceOfMembers`: voice ends with membership and with a mute. `ScreenFollows`: once all is flushed, the client shows what the game has on the screen |
| `games` | Hold'em with 3 players and 4 chips each, two hands; Coup with 3 players and 2 coins; Exploding Kittens with 3 players and 12 cards; LastCard with 3 players under four sets of options and with 2 players under two; Dead Man's Deck with 3 players, two cards each and two chambers (399,000 states) | `HandSound`: in Hold'em the turn finds a player who can act, and the side pots give everybody the right share. `ChipsRight`: bets are matched before cards come, no chip is made or lost until a hand is paid. `NeverFrozen`: Coup's locked keys are unlocked by exactly one queued event, and one sequence of Dead Man's Deck runs in each phase and leads out of it. `StakesKept`: two influences each and small purses in Coup; in Dead Man's Deck the bullet is where the chamber was, and one survivor ends the game. `KittensMatch`: a kitten for everybody who must still die. `NothingToRepair`: what `_repair_pending_state` mends never occurs. `CardsKept`, `TurnSound`: no card of LastCard is lost or copied, and whoever has the turn has a key that works. `Settles`: claims, windows, pauses and sequences end although nobody presses a key; a hand of poker ends too if there is a turn timer, and without one it ends or comes to a person's turn |
| `refresh_same_socket`, `ban_race`, `lobby_disconnect`, `rejoin`, `host_left`, `box_reconnect`, `paid_twice` | smallest instances | the disagreements of section 5 |

Every module has a type invariant, checked with the others.

**Why the bounds are enough.** In `Sessions` the roles in a conflict over one
account are: the connection that has or is losing the account, the one that holds the
lock, and a waiter: three connections fill them, and two slots make the limit bite. Accounts
interact only through a connection that changes its account, which needs two of each
("again"). In `Seats`, three users at a table for two give a player, a host and
someone who does not fit; two users and three tables give each user a table it has
left, one it saved and one it is at. In `AuthTokens`, three tokens make a chain
with an old, a rotated and a live token, and two devices, or two requests of one
device, give two chains. Grace = 1 makes the first second, the last second and the
second after the window different. In `VirtualBots` a table is full with two, so that one bot
hosts and another joins, and a second table is what the limit of one refuses; one
restart, by a stop or a crash, brings rows of two times together. In `Voice` a user needs a table to leave and one
to go to. In `Screen`, three connections are an old one, the one that replaces it and one more
in a handoff. In the games three seats have a player who acts, one who
answers and one who is passed over, and stay two after an elimination; four chips are enough for a
blind, a raise, and side pots of different stacks; cards and deals are chosen so that every effect
and combination of options comes up. `MaxAuth`, `MaxJoins`, `MaxFlight`,
`MaxTokens`, `MaxTime`, `MaxRestarts`, `MaxQueue`, `MaxHands`, `MaxSettled`, `MaxSwaps` and LastCard's `plays` are bounds of
the models alone.

**`MaxAuth = 1` is not only a bound.** A second login over the socket
that already holds the session breaks `NoStrandedUser` (section 5). The scenario "once" and
those theorems of section 4 that say so assume that connections log in once. `PresencePaired` is
checked and proved without bans: the ban race of section 5 breaks it as well, since a user whose
ban is overwritten is announced offline without having been announced online.

**Fairness.** `Sessions` has weak fairness of each step the server takes without
outside help: the authentication timeout, the end of a handler, the result of a
hash, the grant of the lock (asyncio locks are first in, first out), the
awaits on the old connection (its send fails or its close has a timeout of its own), the end of a
login, the clean-up, the closing after a ban. asyncio runs every ready callback
in each iteration, and the timers are set before. `VirtualBots` has weak fairness of
each bot's tick: the server's tick processes every bot. The games have weak fairness of their ticks: the tick task is never
stopped while the server runs. In Hold'em the tick reveals cards, lets the bot act whose turn it is, which always
finds a key that works (games/holdem/bot.py), and lets the turn timer run out. `TimeUp` needs a timer: with the option
at its default, "0", `_start_turn_timer` clears it (games/holdem/game.py:667-674), and a person may hold up a hand for
ever. `Settles` therefore does not count a hand without a timer at a person's turn among what is waited for
(`Thinking`); both values of the option are checked. Nothing is assumed of clients, of the network, of players, or of
administrators: they need never act. `Voice`, `Screen`, `Seats` and `AuthTokens` are checked for safety only.

## 4. What is proved

Each theorem holds for every value of the constants that satisfies the named
assumptions of its module (the identifiers differ, the bounds are naturals, the
times to live are positive, the devices are finitely many). For `Screen`, `Voice` and the
games the assumptions are hypotheses of the theorems, as the table says. The bounds
of the runs (`MaxAuth`, `MaxJoins`, `MaxFlight`, `MaxTokens`, `MaxTime`, `MaxRestarts`, `MaxQueue`) are constants like the others, so
the theorems hold whatever their values, but where the table says otherwise.

| module | theorem | statement | also needs |
|---|---|---|---|
| `SessionsProofs` | `TypeCorrect` | `Spec => []TypeOK` | |
| | `OneActingSession` | `Spec => []SingleSession` | |
| | `OnlyDeadReleased` | `Spec => ReleaseOnlyDead` | |
| | `AnnouncedInTurn` | `Spec => []PresencePaired` | nobody is banned |
| | `NoUserStranded` | `Spec => []NoStrandedUser` | `MaxAuth = 1` |
| | `IndexFindsUser` | `Spec => []IndexAgrees` | `MaxAuth = 1` |
| | `SessionsImplementsAccountSession` | `Spec => SessionRefinement` | `MaxAuth = 1` |
| `SeatsProofs` | `SeatsTypeCorrect` | `Spec => []TypeOK` | |
| | `MembersAtOneTable` | `Spec => []OneTable` | |
| | `NoTableReappears` | `Spec => NoZombie` | |
| | `SeatsAreSound` | `Spec => []SeatingSound` | |
| | `SeatsInOneHand` | `Spec => []SeatControl` | |
| | `ScreensAgree` | `Spec => []ScreenAgrees` | |
| | `SeatStaysInGame` | `Spec => FirstSeatKept` | |
| `AuthTokensProofs` | `AuthTypeCorrect` | `Spec => []TypeOK` | |
| | `OneUsableToken` | `Spec => []OneLiveTip` | |
| | `FamilyCutIsFinal` | `Spec => []CutIsFinal` | |
| | `RevokedStays` | `Spec => RevokedIsFinal` | |
| | `SessionsStaySound` | `Spec => []SessionsSound` | |
| | `HonestDevicesKeepToken` | `Spec => []HonestDeviceKeepsToken` | `Punctual`, one request at a time, nobody is banned |
| `ServicesProofs` | `BotTypeCorrect` | `Spec => []TypeOK` | |
| | `BotsShownAsTheyAre` | `Spec => []OnlineTogether` | |
| | `BotTablesLimited` | `Spec => []BotTableLimit` | |
| | `BotSeatsHeld` | `Spec => []SeatHeld` | |
| | `VoiceOfMembersForAll` | `ServicesSpec => []VoiceOfMembers` | `None` is no table |
| | `ScreenFollowsForAll` | `ServicesSpec => []ScreenFollows` | `ScreenAssumption`: there is a connection, `None` is nothing else |
| | `ServicesTypeCorrect` | `ServicesSpec => []ServicesTypeOK` | `ScreenAssumption` |
| `GamesProofs` | `NeverFrozenForAll` | `Spec => []NeverFrozen`, of `Games` | `CoupAssumption` and `TableAssumption`, below |
| | `StakesKeptForAll` | `Spec => []StakesKept`, of `Games` | `CoupAssumption` and `TableAssumption` |
| | `KittensForAll` | `Spec => []KittensMatch` | `KittensAssumption`: two players or more, a kitten less than players |
| | `NothingToRepairForAll` | `Spec => []NothingToRepair` | `KittensAssumption` |
| | `KittensTypeCorrect` | `Spec => []Kittens!TypeOK` | `KittensAssumption` |
| | `CardsKeptForAll` | `Spec => []CardsKept` | `LastCardAssumption`: every deal deals cards of a finite pack to two players or more in an order, each once, and keeps the start card |
| | `TurnSoundForAll` | `Spec => []TurnSound` | `LastCardAssumption` |
| | `LastCardTypeCorrect` | `Spec => []LastCard!TypeOK` | `LastCardAssumption` |
| `HoldemProofs` | `HandSoundForAll` | `Spec => []HandSound` | `HoldemAssumption`: two players or more in an order, stacks and a big blind of at least a chip |
| | `ChipsRightForAll` | `Spec => ChipsRight` | `HoldemAssumption` |
| | `HoldemTypeCorrect` | `Spec => []Holdem!TypeOK` | `HoldemAssumption` |
| `CoupAndDeckProofs` | `NeverFrozenForAll` | `Spec => []NeverFrozen`, of `Coup` | `CoupAssumption`: two players or more in an order, no negative costs, nobody starts above the threshold of a forced coup |
| | `StakesKeptForAll` | `Spec => []StakesKept`, of `Coup` | `CoupAssumption` |
| | `NeverStuckForAll` | `Spec => []NeverStuck`, of `DeadMansDeck` | `TableAssumption`: two players or more in an order, hands of at least one card |
| | `RevolversForAll` | `Spec => []RevolversTrue`, of `DeadMansDeck` | `TableAssumption` |

**`SessionsProofs`.** The types need more than `TypeOK`: that a suspended handler knows
its account and the connection it replaces, and that the handler of a handoff is
at the head of the login lock's queue (`HandlerInv`). The last fact is mutual
exclusion: two handoffs of one account cannot be under way. It is kept by every
step because only the holder removes itself.

None of the session properties is inductive. `NoStrandedUser` says that
somebody will release a user object; that this stays so needs to be known of the
connections, not only of the accounts:
`LoginInv` (a connection gets its name once, and is neither replaced nor
cleaned up before), `OwnerInv` (a connection that has a name and was not
replaced is the one its user object is bound to, through the grace period),
`HandoffInv` (during a handoff the user object stays where it is, and the old
connection is marked before it is told and shut before the new one is bound), `UserInv` (the converse of `OwnerInv`)
and `IndexInv`. `SessionInv` is their conjunction, `InvariantHolds` shows by
one step per action that it is kept, and each property follows from it.
`LoginInv` is where `MaxAuth = 1` is used.

What holds however often connections authorize rests on `AccountInv`, which is about accounts:
a registered connection that was not replaced is the one its user object is bound to (`ActInv`); a
grace period runs for a dead connection that still owns its account (`GraceInv`); and during a handoff the user
object stays where it is and no grace period runs (`TakeInv`). `SingleSession` follows since the user object is
bound to one connection. Announcements (`PresenceInv`) need a count: an account has at most one login that made its
user object and has not announced it, and counts as heard of exactly when there is a user object and no such
login. That the two are announced in turn is then a matter of each step; a banned user is announced offline by
the ban and again by the clean-up, hence the hypothesis.

The refinement shows that each step
of `Sessions` is one step of `AccountSession` under the mapping, or changes
nothing the mapping sees.

**`SeatsProofs`.** `OneTable` is about the tables in memory, but a restart
replaces them by the rows. So the invariant `TableInv` says three things: tables in memory
share no member (`MemberInv`), rows share no member (`RowMemberInv`), and
only an open table has a row (`RowInv`). The second holds because a snapshot
takes all tables in one transaction, and what happens to rows after that is
only deletion; the third because `Table.destroy` deletes the row, and it is all that
`NoZombie` needs. Two lemmas do the steps: members and tables only
disappear (`ShrinkKeeps`), or one table gets members who are at no other (`GrowKeeps`).

The books of a table need more than their agreement now (`TableSound`): the invariant `SeatInv` says of a row that it can be loaded,
and that a running game loaded from it has every seat the game has now (`RowSound`), of a saved game that its
host sits in it (`SavedSound`), and of a person that the screen, the members and the game agree on where
that person is (`ScreenSound`), whether logged in or in the grace period. All that under `~doubled`; that a table which is still
to be created talks to nobody holds always. A list of players from which one is taken is
described by lemmas of `ListsProofs`: its entries are the others, in their order, and as many as were kept. From
these come the lemmas about what leaving does to a list (`PlayersAfter`), to which each of the ways
to leave refers.

**`ListsProofs`.** `Keeping` numbers the positions that are kept by how many of them come before, which needs that the numbering is
one to one. It is proved by the least element of a set of naturals (`Least`), not by induction. With `SelectSeq`, which is recursive, nothing of this
could be proved, which is why the models use `Keeping`.

What is shown of a sum (`SumTo`) goes the same way: `Upwards` says that a set with 0 that has `n + 1` with every `n`
has all naturals, and each lemma applies it to the set of those numbers for which the equation holds. So there is a function of
partial sums (`PartialExists`), a sum is computed as it should be (`SumOf`), sums add up (`SumPlus`) and may be
taken by rows or by columns (`SumSwap`), the first few of a list get one more (`FirstFew`).

**`AuthTokensProofs`.** A rotation adds a row to a chain and revokes the row presented. That at
most one row of a chain is live then needs to be known of the rows that
were sent only: a crash in a rotation leaves a second live row, which nobody has ever seen.
`SentInv` says that whatever a device holds, is being sent, or can be replayed was
sent. `ChainInv` says that a chain is named by its first row, which makes the
chain of a login new, and that a cut is at an existing row. `TokenStepKeeps` states once
which changes of the table keep all that (`TableStep`, `CutStep`,
`DeviceStep`); every handler is then shown to make such a change.

`SessionsSound` needs that a ban also cuts the family of tokens, so that what is newer than the cut is newer
than the ban (`BarInv`); that no user has too many sessions is a count of the positions that `CreateSession` keeps.

`HonestDeviceKeepsToken` is the other direction: not what an old token cannot do, but what a
good one can. `HonestInv` adds that no two devices have rows of one login (`AloneInv`), that a device has one answer
on its way (`OneAtATime`) and that the token in it can be exchanged (`AnsweredLive`), and that a successor lives at
least as long as the row it replaced, so that a device which retries within the window finds it.

**`ServicesProofs`, the bots.** `OnlineTogether` has an exception, for `clear_bots` forgets a bot that waits
for its guided table and leaves it in `_users`. To show that this is the only one, `BotInv` adds that nobody
waits, in memory or in a row, unless a guided table is configured (`NobodyWaits`), and that nobody but
a bot is shown as one.

The limit of tables counts tables by their hosts and the property counts them by who created them. `GameInv` says that the two
agree: a table the bots created is hosted by a bot, and as long as it waits the host is a member with no other
seat there, so that the role cannot pass to a person (`HostsSound`). A bot that is forgotten would leave the count; but
the manager knows every bot or none (`AllKnown`), so it is not asked then. `RecordInv` says what a record or its row may name: a
table that has been opened, and, for a bot on its way out, one that is over. With that, `SeatHeld` is kept by every step until a crash reads
rows of different times (`stale`).

**`ServicesProofs`, screen and voice.** For `Screen` the question is which packet will be displayed at last: the last one queued, or if there is
none the last one on its way, or what is shown (`Due`). `Link` says that while the connection is open
this is the menu the server remembers as painted last, so leaving out a repaint of that one loses
nothing; but it need not be if nothing is remembered, as after a prompt for text, a removal or a new connection. `Right` says that it is what the game
wants. `Bound` says that the user's open connection is the one the index names, so that a flush goes there,
and `BoxInv` that what is remembered while a box is open is the box, so that closing it forgets what was painted and the menu
under it is painted again. Coalescing keeps the last packet of all (`CoalescedKeepsLast`, from `ListsProofs`). The steps
of the game are shown to do one of three things to the queue (`Fine`): nothing, and nothing was needed; to put what is wanted at
its end; or to put the removal of a prompt there, which is the first of the two lapses. TLC has checked `ScreenInv`
on three connections with three packets queued.

`VoiceOfMembers` with the types is inductive: what a leaving member leaves behind is paid
for by the scheduled task, and what a muted one leaves behind by the message under way.

A step of the server is a step of the bots, of the voice or of the screen and leaves the variables of the others alone; so what
each part keeps the server keeps.

**`GamesProofs`.** A step of the tables is a step of one game and leaves the others alone (`EachGame`), so what a
game keeps the tables keep. `Coup` and `DeadMansDeck` are proved in a module of their own; `SameCoup` and `SameDeck` say
that what it is about is the Coup and the deck of the tables.

Of Exploding Kittens, `KittenInv` follows the kitten that has been drawn: it is set aside exactly in the
phases in which its player must answer it, and otherwise counted in the deck. Kittens leave the game only with a
player. That the player who has the turn is alive after an explosion needs a lemma about the
next seat (from `ListsProofs`' least element of a set of naturals: that a seat is found).
`ActionInv` follows the pending action through the phases: while its target is chosen, its player still has the
cards for it; while it may be noped, its target is another living player; while a favor is owed, the target has two cards
or more (`Chosen`). A Nope changes who has cards, and the effect looks again: that is what the last part is about.

Of LastCard, a handler is a composition: play the cards, apply what they do, move the turn, draw for somebody, open a
window. Between two of these calls the hand is in a state that no key ever finds. So there are two
predicates. `Going` is what is true inside a handler: the cards are all there (`Kept`) and, unless
somebody was `hasty`, no window, pause or question is open. `Sound` is what is true between the handlers, `LastCardInv`: besides, the current player owes something only if it can be
stacked (`DebtStacked`), nobody is to be skipped when a turn begins (`Orderly`), and each window names players and cards that exist. Each
operator has one lemma, which says that it makes a hand that is Going, or Sound, of one that is Going, for every deal
and every order of the draw; the proof of a step then only follows the calls. While a window is open, its hand is only
`HeldUp`: what the code does when it closes depends on what was played before. The cards ask for
three lemmas about places: that drawing, laying and reshuffling move cards between disjoint sets, that two hands exchanged are
still disjoint (`HandsExchanged`), and that handing the hands on to the next seat is one to one, which is arithmetic with
remainders (`ShiftBack`). `Orderly` and the end of a callout hold only unless `hasty`, and so do those clauses of
`TurnSound` (section 5). TLC has checked `LastCardInv` on the deals of the run.

**`HoldemProofs`.** A key is pressed in a `Round`; what the handler has made of the hand before it looks where to go on is a `Mid`; and
each way on from there, to the next player, through the streets, into the showdown or the end without one, leads to a `Round` again (`Onward`).
`HoldemInv` says that between the handlers the hand is a `Round`. In it the turn is that of a player who can act
(`Live`), everybody who can act is in the order, and there are two in the hand. That somebody is found to have the turn
needs that a round which is not complete has somebody left who can act. Two things make that hard. A player who lost
everything in an earlier hand is never dealt in again, but is still marked all in and not folded,
so the code's active players may be more than those in the hand. And the code ends a street when all who can act have bet what the highest bet is; that they
have then put the same into the pot needs the amount they all brought into the street (`Matched`: what each who can act has put in is this base and their own bet),
which a blind that takes a last chip breaks, since the blinds are then credited to others. From then on the hand is `Skewed`: somebody
else who is in it is all in with chips in the pot, and that is enough to go on, and to be paid something.

`ChipsRight` is about sums. The pots are layers between the different amounts put in: up to each level they hold what each
player put in up to there (`PotsUpTo`), by going up level by level (`Upwards`), so in all they hold what was put in (`PotsAddUpAll`), and
those that one player is eligible for hold what that player's chips cover (`PotsOfPlayer`). A pot is paid in full, odd chips
included, as the players in front of whom there are fewer winners than odd chips are as many as the odd chips (`SharesAddUp`). Summing a showdown by pots instead
of by players (`PayingIs`) gives that all pots are paid but the dead ones (`PayingAll`). That a hand counts as paid exactly when somebody has more chips than
before needs that a showdown pays something (`PayingDue`, `DueMore`).

**`CoupAndDeckProofs`.** In `Coup` the hard question is what a queued event may count on when it fires. `LockInv` says that with the
keys locked one event is queued, of which it knows by its kind what is needed (`Awaits`): a challenge is of somebody else's claim that can
still be challenged, and an action that is put off until an influence is lost is still that of the player whose turn it is
(`Pursued`, `Continues`). With the keys unlocked it says for each phase who can move (`Unpressed`). `Fair` is the count of influences,
including the one the doer of an exchange must still lose; `Purse` bounds the coins between the steps, for a coup is forced before a purse can grow twice beyond
the threshold. TLC has checked `CoupInv` with three seat changes. The type of the deck is weaker
than in `TypeOK`: a seat that changes hands between the two cards of an exchange leaves a player, then or
after the next exchange, with a card too many or too few, and the deck accordingly. So with enough changes the model's deck, which only counts, may fall below zero; `TypeOK` of `Coup` is checked by TLC only.

In `DeadMansDeck`, `DeckInv` says of each phase which sequence runs, that no other does, and which of
its callbacks are left (`PhaseInv`), and of the state who may be dead or alive then (`StateInv`). Each callback is
shown to lead from its phase to the next. The hard step is the end of a claim, which has to find a turn: if
nobody is forced to call, two players have cards, so somebody other than the claimer has.

**Only model-checked.** Liveness and anything that speaks of ENABLED (out of the
prover's reach): `LoginServed`, `DeadReleased`, `SlotFreed`, `BotsMoveOn`, `BotTableCloses`, `Settles`. Of `Sessions`, the three theorems that
need `MaxAuth = 1` are false without it (section 5). The type of `Coup`'s deck, see above, and so `TypeOK` of `Games` as a whole;
what is proved of types in the games is that of `Holdem`, `Kittens` and `LastCard`, and `DeckInv` of `DeadMansDeck`.

Some theorems are about a specification that a run checks under another name, as one scenario of several:
`AnnouncedInTurn` and `OneActingSession` are what `AgainPaired` checks, `HonestDevicesKeepToken` is
`HonestKeepsToken`.

## 5. Disagreements and flaws

The first seven are counterexamples of the run of that name.

- **`refresh_same_socket`** (core/server.py:1339). A `refresh_session` or `authorize`
  on the socket that already holds the session hands the session over from the
  socket to itself. The socket is marked replaced and closed; the user object is
  bound to it again; its disconnect is skipped because it was replaced. The
  user stays online until somebody logs in again. core/server.py:1086 says: "Always release the user, even if cleanup
  raised, so a failure can't strand them as permanently "online"". The web client
  does send `refresh_session` on a live connection shortly before the session expires.
- **`ban_race`** (core/server.py:1231). `_finalize_login` reads the user's record,
  waits for the login lock and for the old connection, and then writes the trust
  level it read to the live object. A ban in that time is overwritten, and the
  ban closes the connection it was talking to. core/administration.py:1252 says "close the
  socket server-side so a banned client can't keep acting".
- **`lobby_disconnect`** (core/server.py:1074). Whoever loses the connection in a
  lobby is removed from the game but stays a member of the table. At the next
  login `_restore_login_table` finds the table, no player, and shows neither the
  game nor the main menu. core/server.py:1073: "Keep the seat for reconnect".
- **`rejoin`** (core/server.py:3097). Joining, from the menu, a running game in which
  a bot keeps one's seat adds a second player with the same id, a spectator. When that
  user leaves again, the bot's seat is found first and every player of that id
  is removed: the game loses a seat. game_utils/lobby_actions_mixin.py:182: "Keep the same
  player ID so they can rejoin and take over".
- **`host_left`** (game_utils/lobby_actions_mixin.py:169). A spectator leaves through an early
  return, also one who is the host. The lobby keeps a host who is not
  there, and nobody can start it. lobby_actions_mixin.py:221: "If host left, assign new host".
- **`box_reconnect`** (game_utils/menu_management_mixin.py:241). With a status box open,
  `_transient_display_state` survives the loss of the connection. At the next login the menu is
  not rebuilt because a box is open, and the new client, which shows no box, can neither close it nor do
  anything else. core/users/network_user.py:121: "A fresh socket has no UI; the next menu paint must
  go out in full".
- **`paid_twice`** (games/holdem/game.py:1221). While a hand that has been paid waits for the next, the
  keys of the player whose turn it was work on, and the pot is paid again.
  documents/shared/holdem_rules/en.md:5: "the player with the best hand at showdown, wins the pot".
  Five card draw is built the same way (games/fivecarddraw/game.py:526, 761).

These were met while reading the code, and the models follow the code in them; no
text of the repository promises the contrary in so many words, or the property in question names the histories it excepts.

- *Screen.* `remove_menu` keeps `_last_menu_packet_id` when it names another menu
  (network_user.py:449-453): who answers "no" to the question whether to leave, after a tick has
  painted the turn menu over it, is left with no menu, for the repaint is skipped as identical.
  A login within the grace period at a game that is over paints nothing. (`lapse`)
- *Voice.* Closing or saving a table calls no tear-down, so the presence of its members names a table that is
  gone. Losing the connection does not end a presence.
- *Virtual bots.* With a guided table, a bot in a game whose table is gone stays there for ever
  (core/virtual_bots.py:567-580), and `clear_bots` leaves those who wait in `_users` (747), where the manager
  no longer knows them and their namesakes cannot log in, although it means to "remove all instantiated bots" (725): both only with a
  `rule`. A bot leaves a table by an action called "leave", which no game has (1359), so its seat stays. Strict
  allocation with too few bots raises in every tick (598). Bots' rows may be older than tables' rows after a crash (`stale`).
- *Coup.* If a bot takes over a seat in the middle of an exchange, it returns two cards as if none had been returned
  (games/coup/bot.py:103). The seat is then a card short; a player with one influence is left with none, and is not eliminated. (`halfway`)
- *Hold'em.* A blind that takes somebody's last chip drops the player from the order, and the blinds are
  credited to the wrong players (games/holdem/game.py:599-620). (`skewed`) A side pot that only players who folded put
  chips in vanishes at a showdown (`DeadPots`). The timer folds also for a player who could check (1276).
- *LastCard.* In the pause after a colour was chosen keys work on: a player can play or draw, and
  the turn then advances twice (games/lastcard/game.py:1496, 2017). A turn may then begin with players still to be
  skipped, and a hand that was called out may have been swapped for another while its window is open. (`hasty`) Further: an early call is wiped by the play it announces (1349);
  `_force_draw_pending` skips one player too many (1910); a multiple play that leaves one card applies one effect only;
  the challenge of a wild four leaves an earlier debt pending; a swap whose target is not chosen in time waits
  for ever, which is why choosing a target is not among what `Settles` waits for; with everybody at the
  limit of the hand and nothing playable, players pass for ever (1604).
- *Administration.* `_reset_user_password` (core/administration.py:1002) calls the coroutine
  `AuthManager.reset_password` without await. The administrator is told it is done; the password
  and the tokens stay as they were. `AuthTokens` therefore has no action for it.
- *Persistence.* `_restore_saved_table` (core/server.py:3321) creates the table before it parses the game, and
  saving a game and deleting its table's row are two transactions (4457).
- *Lifecycle.* A gate added and resolved during maintenance ends the maintenance (core/state.py:39).

No flaw was found in Exploding Kittens, Dead Man's Deck, and the credentials.

## 6. What is not modelled

See `PROJECT.json` for the list with reasons. In short:

- *Sequential code.* Presentation (menus, options, localization, documents), file storage, the command line,
  packaging, the audio and screen-reader code of the clients: no state shared by several actors. Of
  the clients, `AuthTokens` keeps what they store and present as credentials.
- *Fifty rule sets.* Five games are modelled, chosen for what makes games hard: timers that race keys,
  windows to interrupt, queued events, sequences that lock, money. Most of the others are turn by turn on the
  same framework. They make up most of the lines of the repository.
- *Lifecycle gates and maintenance.* Maintenance has no caller in the server; `Sessions` takes the server to be RUNNING.
- *Chat and rate limits, administration beyond bans.* Sliding windows and plain writes.
- *The round timer*, and the turn timer apart from the games that have one.

Of the modelled parts, these are left out: approval of new accounts, transport failures
between two packets of one send, limits per address, the games that override
`_perform_leave_game`, teams, invitations, rows that cannot be parsed, several guided
tables, and a game that loses a seat by the flaw `rejoin`.

## 7. Plan

Done: `Sessions`, `Seats`, `AuthTokens`, `VirtualBots`, `Voice`, `Screen`, and five games, each with its runs;
the proofs of section 4, which cover the safety properties of all of them.

In this order:

1. The refinement of `AccountSession` without `MaxAuth = 1`, for an abstract register that allows what a second
   login does.
2. An abstract one-time token that `AuthTokens` implements.
3. `Sessions` and `Seats` composed, with the tables' clean-up inside
   the grace period, and `Save` split into its two transactions.
4. `Lifecycle`, the sliding windows of chat and logins, and the games that override `_perform_leave_game`.

No module to be proved about declares a RECURSIVE operator.
