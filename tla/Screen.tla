------------------------------- MODULE Screen -------------------------------
(***************************************************************************)
(* What a player at a table is shown: the game paints menus into the       *)
(* player's NetworkUser, which leaves out repaints that change nothing and *)
(* queues the rest; a tick flushes the queue to the connection that the    *)
(* username index names (server/core/users/network_user.py,                *)
(* game_utils/menu_management_mixin.py, event_handling_mixin.py and        *)
(* Server._flush_user_messages).  Meanwhile the player may lose the        *)
(* connection, come back, or log in from elsewhere.                        *)
(*                                                                         *)
(* One player of a running game; what the others do changes the contents   *)
(* of the menu.  Every event and every tick ends in flush_menus, so that   *)
(* what is marked dirty in it is painted in it, and the two flags are left *)
(* out.  Focus is left out too: a repaint that moves it is always sent.    *)
(***************************************************************************)
EXTENDS Integers, FiniteSets, Sequences, SequencesExt, Lists

CONSTANTS
    Conns,      \* connections of the player, each used once
    None,
    MaxQueue    \* bound: packets in the queue, and on the way to a client

VARIABLES
    index,      \* WebSocketServer._username_index: a connection or None
    socket,     \* of each connection: "new", "open", or "ended" with its handler
    user,       \* the NetworkUser, or None when the server has released it
    login,      \* the login under way: its connection and what it awaits
    wire,       \* packets on their way to each client
    shown,      \* what each client displays
    game,       \* what the game knows of the player's screen
    lapse       \* the last paint left out a menu that was needed (history)

connVars == <<index, socket, login>>
vars == <<connVars, user, wire, shown, game, lapse>>

Menus == {"turn_menu", "transient_display", "action_input_menu", "leave_game_confirm",
          "game_over"}
Contents == 0..1
Empty == 2
Menu(id, items) == [kind |-> "menu", id |-> id, items |-> items]
Editbox == [kind |-> "editbox", id |-> None, items |-> None]
Blank == [kind |-> "blank", id |-> None, items |-> None]
Packets == [kind : {"menu"}, id : Menus, items : Contents \cup {Empty}] \cup {Editbox}

NoLogin == [conn |-> None, awaits |-> None]
NewUser(c) == [conn |-> c, queue |-> <<>>, last |-> None]

TypeOK ==
    /\ index \in Conns \cup {None}
    /\ socket \in [Conns -> {"new", "open", "ended"}]
    /\ user = None \/ user \in [conn : Conns, queue : Seq(Packets), last : Packets \cup {None}]
    /\ login \in [conn : Conns \cup {None}, awaits : {None, "handoff", "success"}]
    /\ wire \in [Conns -> Seq(Packets)] /\ shown \in [Conns -> Packets \cup {Blank}]
    /\ game \in [content : Contents, box : {None, "status_box", "live_status_box"},
                 over : BOOLEAN, bot : BOOLEAN]
    /\ lapse \in BOOLEAN

\* The player sits at the table.
Init ==
    /\ index = CHOOSE c \in Conns : TRUE
    /\ socket = [c \in Conns |-> IF c = index THEN "open" ELSE "new"]
    /\ user = [NewUser(index) EXCEPT !.last = Menu("turn_menu", 0)]
    /\ login = NoLogin
    /\ wire = [c \in Conns |-> <<>>]
    /\ shown = [c \in Conns |-> IF c = index THEN Menu("turn_menu", 0) ELSE Blank]
    /\ game = [content |-> 0, box |-> None, over |-> FALSE, bot |-> FALSE]
    /\ lapse = FALSE
-----------------------------------------------------------------------------
(* NetworkUser.                                                            *)

\* `last` is _last_menu_packet_id with that menu's entry in _current_menus; no other
\* entry decides whether a packet is sent.
Queue(u, packet) == [u EXCEPT !.queue = Append(@, packet)]

\* show_menu, and update_menu, which remembers less: a repaint of the menu sent last,
\* with the same contents, is not sent.
ShowMenu(u, m, items) ==
    IF u = None \/ u.last = Menu(m, items) THEN u
    ELSE Queue([u EXCEPT !.last = Menu(m, items)], Menu(m, items))

\* remove_menu
RemoveMenu(u, m) ==
    IF u = None THEN u
    ELSE Queue([u EXCEPT !.last = IF @ # None /\ @.id = m THEN None ELSE @], Menu(m, Empty))

\* show_editbox
ShowEditbox(u) == IF u = None THEN u ELSE Queue([u EXCEPT !.last = None], Editbox)

\* Mutant: the new connection is taken to show what the old one did.
SetConnection_KeepsLast(u, c) == [u EXCEPT !.conn = c]
\* set_connection: "A fresh socket has no UI".
SetConnection(u, c) == [u EXCEPT !.conn = c, !.last = None]

\* get_queued_messages: of the repaints of one menu only the last survives.
Coalesced(q) ==
    LET stale == {i \in DOMAIN q : \E j \in i + 1..Len(q) :
                     q[i].kind = "menu" /\ q[j].kind = "menu" /\ q[j].id = q[i].id}
    IN  Keeping(q, DOMAIN q \ stale)
-----------------------------------------------------------------------------
(* The game's menus (MenuManagementMixin, GameResultMixin).  The user is    *)
(* painted on as long as a human plays the seat.                           *)

\* rebuild_player_menu, update_player_menu: nothing is painted over a status box or the end screen; a
\* live box repaints itself.
Rebuild(g, u) ==
    IF g.over \/ g.bot \/ g.box = "status_box" THEN u
    ELSE IF g.box = "live_status_box" THEN ShowMenu(u, "transient_display", g.content)
    ELSE ShowMenu(u, "turn_menu", g.content)
\* _show_end_screen: closes a box.
EndScreen(g, u) ==
    ShowMenu(IF g.box = None THEN u ELSE RemoveMenu(u, "transient_display"), "game_over", 0)

\* The game and the user become g and w.
Become(g, w) ==
    /\ game' = g /\ user' = w
    /\ w # None => Len(w.queue) <= MaxQueue
    /\ lapse' = IF w = None \/ w.queue = user.queue THEN lapse
                ELSE Last(w.queue) = Menu("leave_game_confirm", Empty)
    /\ UNCHANGED <<connVars, wire, shown>>
-----------------------------------------------------------------------------
(* Others play, and ticks.                                                 *)

\* Something happens in the game; menus are rebuilt.
OthersPlay ==
    /\ ~game.over
    /\ \E g \in {[game EXCEPT !.content = 1 - @]} : Become(g, Rebuild(g, user))

\* finish_game
Finish ==
    /\ ~game.over
    /\ Become([game EXCEPT !.over = TRUE, !.box = None], EndScreen(game, user))

\* _flush_user_messages, in a tick.
Flush ==
    /\ user # None /\ user.queue # <<>>
    /\ user' = [user EXCEPT !.queue = <<>>]
    /\ wire' = IF index = None \/ socket[index] = "ended" THEN wire
               ELSE [wire EXCEPT ![index] = @ \o Coalesced(user.queue)]
    /\ \A c \in Conns : Len(wire'[c]) <= MaxQueue
    /\ UNCHANGED <<connVars, shown, game, lapse>>

\* A packet reaches the client, which displays the menu or the editbox.
Receive(c) ==
    /\ socket[c] = "open" /\ wire[c] # <<>>
    /\ shown' = [shown EXCEPT ![c] = Head(wire[c])]
    /\ wire' = [wire EXCEPT ![c] = Tail(@)]
    /\ UNCHANGED <<connVars, user, game, lapse>>
-----------------------------------------------------------------------------
(* What the player does with the menu the client displays.                 *)

\* The connection may act for the player, and the menu displayed is of these.
Acts(c, screens) ==
    /\ socket[c] = "open" /\ login = NoLogin /\ user # None /\ user.conn = c
    /\ \E s \in screens : shown[c].kind = s \/ (shown[c].id = s /\ shown[c].items # Empty)

\* _handle_turn_menu_selection: an action, which opens a status box, asks for more
\* input, or changes the game.  An event of another menu than the box is ignored.  A
\* key opens a box over a prompt as well.
OpenBox(c) ==
    /\ Acts(c, {"turn_menu", "action_input_menu", "leave_game_confirm"}) /\ game.box = None /\ ~game.over
    /\ \E kind \in {"status_box", "live_status_box"} :
          Become([game EXCEPT !.box = kind],
                 ShowMenu(user, "transient_display", IF kind = "status_box" THEN 0
                                                     ELSE game.content))
Ask(c) ==
    /\ Acts(c, {"turn_menu"}) /\ game.box = None /\ ~game.over
    /\ \E w \in {ShowMenu(user, "action_input_menu", 0), ShowEditbox(user)} :
          Become(game, w)
\* _action_leave_game asks whether the player means it.
AskLeave(c) ==
    /\ Acts(c, {"turn_menu", "game_over"}) /\ game.box = None
    /\ Become(game, ShowMenu(user, "leave_game_confirm", 0))
Play(c) ==
    /\ Acts(c, {"turn_menu"}) /\ game.box = None /\ ~game.over
    /\ \E g \in {[game EXCEPT !.content = 1 - @]} : Become(g, Rebuild(g, user))

\* _handle_action_input_menu, _handle_editbox_event: the action may change the game,
\* and the menu is painted again.
Answer(c) ==
    /\ Acts(c, {"action_input_menu", "editbox"}) /\ game.box = None
    /\ \E g \in {[game EXCEPT !.content = new] :
                    new \in IF game.over THEN {game.content} ELSE Contents} :
          Become(g, Rebuild(g, user))

\* _handle_leave_game_confirm, with the answer no.
StayInGame(c) ==
    /\ Acts(c, {"leave_game_confirm"}) /\ game.box = None
    /\ \E w \in {RemoveMenu(user, "leave_game_confirm")} :
          Become(game, IF game.over THEN EndScreen(game, w) ELSE Rebuild(game, w))

\* _close_transient_display
CloseBox(c) ==
    /\ Acts(c, {"transient_display"}) /\ game.box # None
    /\ \E g \in {[game EXCEPT !.box = None]} :
          Become(g, Rebuild(g, RemoveMenu(user, "transient_display")))
-----------------------------------------------------------------------------
(* Connections.                                                            *)

\* The player logs in; a session is handed over, one login at a time.  Which new
\* connection it is does not matter.
Login(c) ==
    /\ socket[c] = "new" /\ c = CHOOSE d \in Conns : socket[d] = "new"
    /\ login = NoLogin
    /\ socket' = [socket EXCEPT ![c] = "open"]
    /\ IF user = None
       THEN /\ index' = c /\ user' = NewUser(c)
            /\ login' = [conn |-> c, awaits |-> "success"]
       ELSE /\ login' = [conn |-> c, awaits |-> "handoff"]
            /\ UNCHANGED <<index, user>>
    /\ UNCHANGED <<wire, shown, game, lapse>>

\* A client is gone, with what was on its way.
Gone(c) ==
    /\ socket' = [socket EXCEPT ![c] = "ended"]
    /\ wire' = [wire EXCEPT ![c] = <<>>] /\ shown' = [shown EXCEPT ![c] = Blank]

\* _handoff_existing_session: the old connection has been told and closed.
Handoff ==
    /\ login.awaits = "handoff"
    /\ index' = login.conn /\ user' = SetConnection(user, login.conn)
    /\ login' = [login EXCEPT !.awaits = "success"]
    /\ Gone(user.conn) /\ UNCHANGED <<game, lapse>>

\* _finalize_login and _restore_login_table, after the success packet: back from the
\* bot that played, and a rebuild of the player's menu.
Restore ==
    /\ login.awaits = "success"
    /\ game' = [game EXCEPT !.bot = FALSE]
    /\ user' = Rebuild(game', user)
    /\ lapse' = (game'.over \/ game'.box = "status_box")
    /\ login' = NoLogin
    /\ UNCHANGED <<index, socket, wire, shown>>

\* The connection is lost and its handler ends.
Lose(c) ==
    /\ socket[c] = "open" /\ login.conn # c
    /\ Gone(c) /\ index' = IF index = c THEN None ELSE index
    /\ UNCHANGED <<login, user, game, lapse>>

\* _delayed_disconnect_cleanup: a bot takes the seat of a player who does not come back.
Release ==
    /\ login = NoLogin /\ user # None /\ socket[user.conn] = "ended" /\ ~game.over
    /\ user' = None /\ game' = [game EXCEPT !.bot = TRUE]
    /\ UNCHANGED <<connVars, wire, shown, lapse>>
-----------------------------------------------------------------------------
Tick == OthersPlay \/ Finish \/ Flush
Event(c) == OpenBox(c) \/ Ask(c) \/ AskLeave(c) \/ Play(c) \/ Answer(c) \/ StayInGame(c) \/ CloseBox(c)
Next ==
    \/ Tick \/ Handoff \/ Restore \/ Release
    \/ \E c \in Conns : Receive(c) \/ Event(c) \/ Login(c) \/ Lose(c)
Spec == Init /\ [][Next]_vars
-----------------------------------------------------------------------------
(* Properties.                                                             *)

\* What the game has on the player's screen, or a prompt for the player to answer.
Prompts == {Menu("action_input_menu", 0), Menu("leave_game_confirm", 0), Editbox}
Wanted ==
    IF game.over THEN {Menu("game_over", 0)} \cup Prompts
    ELSE CASE game.box = "status_box"      -> {Menu("transient_display", 0)}
           [] game.box = "live_status_box" -> {Menu("transient_display", game.content)}
           [] game.box = None              -> {Menu("turn_menu", game.content)} \cup Prompts

\* The player is logged in and everything painted has reached the client.
Settled == login = NoLogin /\ user # None /\ user.queue = <<>>
           /\ socket[user.conn] = "open" /\ wire[user.conn] = <<>>

\* Once everything painted has been flushed and has arrived, the client displays what
\* the game has on the player's screen: no repaint is skipped or dropped that was
\* needed, whatever connections came and went; unless nothing was painted at login
\* (NeverBlank), or a prompt was answered and removed that had been painted over: the
\* menu over it is taken to be on display, and not painted again.
ScreenFollows == Settled /\ ~lapse => shown[user.conn] \in Wanted

\* "A fresh socket has no UI; the next menu paint must go out in full"
\* (network_user.py:121): a player who came back to a running game has a menu.
NeverBlank == Settled /\ ~game.over => shown[user.conn] # Blank
=============================================================================
