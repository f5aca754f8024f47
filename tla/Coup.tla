-------------------------------- MODULE Coup --------------------------------
(***************************************************************************)
(* Coup (server/games/coup): a turn is a claim that others may challenge   *)
(* or block while a timer runs; what follows is put in a queue of events   *)
(* that fire when a sound has been played.  `is_resolving` locks the keys  *)
(* meanwhile, and the only thing that unlocks them is the queued event.    *)
(*                                                                         *)
(* A handler or an event runs to its end, so each is one step; what a      *)
(* helper does is an operator on the record `game`.  Which characters the  *)
(* cards show is left out: a challenge finds a bluff or the truth.  The    *)
(* timer runs or does not; when it runs it may expire on any tick, so that  *)
(* making it expire on the next one, when all have passed, changes nothing. *)
(***************************************************************************)
EXTENDS Integers, Sequences, FiniteSets, FiniteSetsExt

CONSTANTS
    Players,                \* who plays
    Seats,                  \* in the order of turns
    None,
    Start,                  \* coins at the start: 2
    CoupCost, MurderCost,   \* 7 and 3
    Threshold,              \* mandatory_coup_threshold
    Aid, Tax, Loot,         \* 2, 3 and 2
    Cards,                  \* cards in the deck: 15
    StartBots,              \* seats a bot plays from the start
    Leaving,                \* bound: who may leave the table, and come back
    MaxSwaps                \* bound: how often

VARIABLES
    game,       \* the fields of CoupGame, as a record
    bots,       \* seats a bot plays: its player has left the table
    swaps,      \* for MaxSwaps
    halfway     \* a seat changed hands between the two cards of an exchange (history)

vars == <<game, bots, swaps, halfway>>

Actions == {"foreign_aid", "tax", "assassinate", "steal", "exchange"}
Phases == {"main", "action_declared", "waiting_block", "losing_influence", "exchanging"}
Events == {"prompt_lose_influence", "resolve_challenge", "post_block_success",
           "post_lose_influence"}

TypeOK ==
    /\ game \in [turn : DOMAIN Seats, phase : Phases, action : Actions \cup {None},
                 target : Players \cup {None}, claimer : Players \cup {None},
                 doer : Players \cup {None}, passed : SUBSET Players, timer : BOOLEAN,
                 resolving : BOOLEAN,
                 queue : Seq([kind : Events, who : Players \cup {None}]),
                 losing : Players \cup {None}, next : {"end_turn", "resolve_action"},
                 returned : 0..1, coins : [Players -> Nat], live : [Players -> Nat],
                 lost : [Players -> Nat], dead : SUBSET Players, deck : Nat,
                 over : BOOLEAN]
    /\ bots \subseteq Players /\ swaps \in 0..MaxSwaps /\ halfway \in BOOLEAN

Alive(g) == Players \ g.dead
Current == Seats[game.turn]

\* on_start
Init ==
    /\ game = [turn |-> 1, phase |-> "main", action |-> None, target |-> None,
               claimer |-> None, doer |-> None, passed |-> {}, timer |-> FALSE,
               resolving |-> FALSE, queue |-> <<>>, losing |-> None,
               next |-> "end_turn", returned |-> 0,
               coins |-> [p \in Players |-> Start], live |-> [p \in Players |-> 2],
               lost |-> [p \in Players |-> 0], dead |-> {},
               deck |-> Cards - 2 * Len(Seats), over |-> FALSE]
    /\ bots = StartBots /\ swaps = 0 /\ halfway = FALSE
-----------------------------------------------------------------------------
(* What the helpers make of the game.                                      *)

Enqueue(g, kind, who) ==
    [g EXCEPT !.resolving = TRUE, !.queue = Append(@, [kind |-> kind, who |-> who])]
Earn(g, p, n) == [g EXCEPT !.coins[p] = @ + n]

\* _end_turn and _start_turn: the next player who is alive, or the end of the game.
EndTurn(g) ==
    LET n == Len(Seats)
        seat(k) == ((g.turn - 1 + k) % n) + 1
        k == Min({j \in 1..n : Seats[seat(j)] \notin g.dead})
    IN  IF Cardinality(Alive(g)) <= 1 THEN [g EXCEPT !.over = TRUE, !.turn = seat(1)]
        ELSE [g EXCEPT !.turn = seat(k), !.phase = "main", !.action = None,
                       !.target = None, !.claimer = None, !.doer = None,
                       !.timer = FALSE, !.passed = {}]

\* _resolve_action: nobody stopped the claim, or who tried has failed.
Resolve(g) ==
    LET p == g.doer
        stolen == IF g.coins[g.target] < Loot THEN g.coins[g.target] ELSE Loot
    IN  CASE g.action = "foreign_aid" -> EndTurn(Earn(g, p, Aid))
          [] g.action = "tax"         -> EndTurn(Earn(g, p, Tax))
          [] g.action = "assassinate" -> Enqueue(g, "prompt_lose_influence", g.target)
          [] g.action = "steal"       -> EndTurn(Earn(Earn(g, g.target, -stolen), p, stolen))
          [] g.action = "exchange"    ->
                [g EXCEPT !.live[p] = @ + 2, !.deck = @ - 2, !.phase = "exchanging",
                          !.timer = FALSE]

\* _post_lose_influence
PostLose(g) ==
    LET h == [g EXCEPT !.losing = None, !.next = "end_turn"]
    IN  IF g.next = "end_turn" THEN EndTurn(h) ELSE Resolve(h)

\* CoupPlayer.reveal_influence
Reveal(g, p) ==
    [g EXCEPT !.live[p] = @ - 1, !.lost[p] = @ + 1,
              !.dead = IF g.live[p] = 1 THEN @ \cup {p} ELSE @]

\* _prompt_lose_influence: who has one card loses it, who has more may choose.
Prompt(g, p) ==
    IF p \in g.dead \/ g.live[p] = 0 THEN PostLose(g)
    ELSE IF g.live[p] = 1 THEN PostLose(Reveal(g, p))
    ELSE [g EXCEPT !.losing = p, !.phase = "losing_influence"]

\* _execute_challenge, with its two outcomes.  A truthful claimer swaps the card.
Truth(g, p) ==
    Enqueue([g EXCEPT !.next = IF g.phase = "action_declared" THEN "resolve_action"
                               ELSE "end_turn"], "prompt_lose_influence", p)
Bluff(g) ==
    Enqueue([g EXCEPT !.next = IF g.phase = "action_declared" THEN "end_turn"
                               ELSE "resolve_action"], "prompt_lose_influence", g.claimer)
Challenged(g, p) == {Bluff(g)} \cup IF g.live[g.claimer] > 0 THEN {Truth(g, p)} ELSE {}

\* Mutant of Handled: a challenge unlocks the keys before its loser is asked.
Handled_Unlocks(g, e) ==
    CASE e.kind = "resolve_challenge"     -> {[h EXCEPT !.resolving = FALSE] :
                                                 h \in Challenged(g, e.who)}
      [] e.kind = "prompt_lose_influence" -> {Prompt([g EXCEPT !.resolving = FALSE], e.who)}
      [] e.kind = "post_block_success"    -> {EndTurn([g EXCEPT !.resolving = FALSE])}
      [] e.kind = "post_lose_influence"   -> {PostLose([g EXCEPT !.resolving = FALSE])}
\* _handle_event
Handled(g, e) ==
    CASE e.kind = "prompt_lose_influence" -> {Prompt([g EXCEPT !.resolving = FALSE], e.who)}
      [] e.kind = "resolve_challenge"     -> Challenged(g, e.who)
      [] e.kind = "post_block_success"    -> {EndTurn([g EXCEPT !.resolving = FALSE])}
      [] e.kind = "post_lose_influence"   -> {PostLose([g EXCEPT !.resolving = FALSE])}
-----------------------------------------------------------------------------
(* Keys.  Nothing can be pressed while the game is resolving something.     *)

Unlocked == ~game.over /\ ~game.resolving
Become(g) == game' = g /\ UNCHANGED <<bots, swaps, halfway>>

\* _is_action_enabled: it is p's turn, and p is not rich enough to be forced.
MainTurn(p) == Unlocked /\ game.phase = "main" /\ p = Current
Free(p) == MainTurn(p) /\ game.coins[p] < Threshold
Others(p) == Alive(game) \ {p}

\* _declare_action
Declare(g, p, action, target) ==
    [g EXCEPT !.action = action, !.target = target, !.claimer = p, !.doer = p,
              !.phase = "action_declared", !.timer = TRUE, !.passed = {}]
Income(p) == Free(p) /\ Become(EndTurn(Earn(game, p, 1)))
Claim(p, action) == Free(p) /\ Become(Declare(game, p, action, None))
Steal(p, t) == Free(p) /\ t \in Others(p) /\ Become(Declare(game, p, "steal", t))
Assassinate(p, t) ==
    /\ Free(p) /\ t \in Others(p) /\ game.coins[p] >= MurderCost
    /\ Become(Declare(Earn(game, p, -MurderCost), p, "assassinate", t))
PlayCoup(p, t) ==
    /\ MainTurn(p) /\ t \in Others(p) /\ game.coins[p] >= CoupCost
    /\ Become(Enqueue(Earn(game, p, -CoupCost), "prompt_lose_influence", t))

\* _action_challenge, _action_block, _action_pass: while the timer runs.
Window(p) ==
    /\ Unlocked /\ p \in Alive(game) /\ p # game.claimer
    /\ game.phase \in {"action_declared", "waiting_block"}
Challenge(p) ==
    /\ Window(p) /\ game.timer
    /\ game.phase = "action_declared" => game.action # "foreign_aid"
    /\ Become(Enqueue([game EXCEPT !.timer = FALSE], "resolve_challenge", p))
Block(p) ==
    /\ Window(p) /\ game.timer /\ game.phase = "action_declared"
    /\ \/ game.action = "foreign_aid"
       \/ game.action \in {"assassinate", "steal"} /\ p = game.target
    /\ Become([game EXCEPT !.phase = "waiting_block", !.claimer = p, !.timer = TRUE,
                           !.passed = {}])
Pass(p) ==
    /\ Window(p) /\ p \notin game.passed
    /\ LET passed == game.passed \cup {p}
       IN  Become([game EXCEPT !.passed = passed,
                 !.timer = @ \/ Cardinality(passed) >= Cardinality(Alive(game) \ {game.claimer})])

\* _action_lose_influence
LoseInfluence(p) ==
    /\ Unlocked /\ game.phase = "losing_influence" /\ p = game.losing
    /\ Become(Enqueue(Reveal(game, p), "post_lose_influence", None))

\* Mutant of ReturnCard: the count of returned cards is not reset.
ReturnCard_NoReset(p) ==
    /\ Unlocked /\ game.phase = "exchanging" /\ p = Current /\ p \notin bots
    /\ game.live[p] > 0
    /\ LET g == [game EXCEPT !.live[p] = @ - 1, !.deck = @ + 1, !.returned = 1]
       IN  Become(IF game.returned = 0 THEN g ELSE EndTurn(g))
\* _action_return_card: the second card ends the exchange.
ReturnCard(p) ==
    /\ Unlocked /\ game.phase = "exchanging" /\ p = Current /\ p \notin bots
    /\ game.live[p] > 0
    /\ LET g == [game EXCEPT !.live[p] = @ - 1, !.deck = @ + 1, !.returned = 1 - @]
       IN  Become(IF game.returned = 0 THEN g ELSE EndTurn(g))

\* CoupBot.bot_resolve_exchange: two cards at once, whatever was returned before.
BotExchange(p) ==
    /\ Unlocked /\ game.phase = "exchanging" /\ p = Current /\ p \in bots
    /\ LET kept == IF game.live[p] < 2 THEN 0 ELSE game.live[p] - 2
       IN  Become(EndTurn([game EXCEPT !.live[p] = kept, !.deck = @ + game.live[p] - kept]))
-----------------------------------------------------------------------------
(* Ticks, and people who leave and come back.                              *)

\* _process_events: an event that is due.
Fire ==
    /\ ~game.over
    /\ \E i \in DOMAIN game.queue :
          \E g \in Handled([game EXCEPT !.queue = SubSeq(@, 1, i - 1) \o
                                                  SubSeq(@, i + 1, Len(@))], game.queue[i]) :
             Become(g)

\* on_tick: the timer has run out.
Expire ==
    /\ Unlocked /\ game.timer
    /\ LET g == [game EXCEPT !.timer = FALSE]
       IN  Become(IF game.phase = "action_declared" THEN Resolve(g)
                  ELSE IF game.phase = "waiting_block" THEN Enqueue(g, "post_block_success", None)
                  ELSE g)

\* A bot takes the seat of a player who leaves; a player comes back.
Swap(p) ==
    /\ ~game.over /\ p \in Alive(game) \cap Leaving /\ swaps < MaxSwaps
    /\ bots' = IF p \in bots THEN bots \ {p} ELSE bots \cup {p}
    /\ swaps' = swaps + 1
    /\ halfway' = (halfway \/ (game.phase = "exchanging" /\ p = Current /\ game.returned = 1))
    /\ UNCHANGED game
-----------------------------------------------------------------------------
Tick == Fire \/ Expire
Key(p) ==
    \/ Income(p)
    \/ \E a \in {"foreign_aid", "tax", "exchange"} : Claim(p, a)
    \/ \E t \in Players : Steal(p, t) \/ Assassinate(p, t) \/ PlayCoup(p, t)
    \/ Challenge(p) \/ Block(p) \/ Pass(p)
    \/ LoseInfluence(p) \/ ReturnCard(p) \/ BotExchange(p)
Next == Tick \/ \E p \in Players : Key(p) \/ Swap(p)

Spec == Init /\ [][Next]_vars
\* The tick never stops; nobody has to press a key.
FairSpec == Spec /\ WF_vars(Tick)
-----------------------------------------------------------------------------
(* Properties.                                                             *)

\* The keys are locked if and only if one event is queued that unlocks them, and
\* while they are not locked somebody can move the game on: it never freezes.
\* A timer that runs belongs to a claim that somebody can still answer.
NeverFrozen ==
    ~game.over =>
        /\ Len(game.queue) = IF game.resolving THEN 1 ELSE 0
        /\ ~game.resolving =>
              CASE game.phase = "losing_influence"           -> game.losing \in Alive(game)
                [] game.phase \in {"main", "exchanging"}     -> Current \in Alive(game)
                [] OTHER                                     -> game.timer
        /\ game.timer =>
              /\ game.phase \in {"action_declared", "waiting_block"} /\ ~game.resolving
              /\ game.claimer \in Alive(game) /\ game.doer \in Alive(game)
              /\ Others(game.claimer) # {}

\* Everybody has two influences, face up or down, but for an exchange under way, and
\* is eliminated when none is face down; as long as no seat changes hands in the
\* middle of an exchange.
InfluencesFair ==
    ~halfway => \A p \in Players :
        /\ game.live[p] + game.lost[p] =
              IF game.phase = "exchanging" /\ p = Current /\ ~game.over
              THEN 4 - game.returned ELSE 2
        /\ (p \in game.dead) <=> (game.live[p] = 0)

\* Nobody pays with coins that are not there, and the forced coup keeps everybody's
\* purse small, whatever is stolen.
PurseBounded ==
    \A p \in Players : game.coins[p] \in 0..(Threshold - 1 + Max({1, Aid, Tax, Loot}))
StakesKept == InfluencesFair /\ PurseBounded

\* A claim or a block is settled without anybody pressing a key.
ClaimOpen == game.phase \in {"action_declared", "waiting_block"} /\ ~game.over
ClaimSettled == ClaimOpen ~> ~ClaimOpen
=============================================================================
