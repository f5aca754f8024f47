------------------------------- MODULE MCGames -------------------------------
(***************************************************************************)
(* An instance of Games for TLC.                                           *)
(***************************************************************************)
EXTENDS Games, TLC

CONSTANTS a, b, c

Three == {a, b, c}
Order == <<a, b, c>>
Robots == {c}

\* Kittens: few cards of each kind, but three alike for a triple and an attack on an
\* attack.
Bag(d, n, at, sk, f, q, k) == [defuse |-> d, nope |-> n, attack |-> at, skip |-> sk,
                               favor |-> f, quiet |-> q, kitten |-> k]
Dealt == (a :> Bag(1, 0, 1, 0, 1, 0, 0)) @@ (b :> Bag(0, 1, 1, 0, 0, 3, 0))
         @@ (c :> Bag(1, 0, 0, 1, 0, 0, 0))
Left == Bag(0, 1, 0, 0, 0, 0, 2)

\* LastCard: twelve cards; each game is played with those that show its options.
Card(rank, color) == [rank |-> rank, color |-> color]
Twelve == <<Card("one", "red"), Card("draw2", "red"), Card("draw2", "blue"),
            Card("wild4", "wild"), Card("wild4", "wild"), Card("skip", "red"),
            Card("skip", "blue"), Card("reverse", "red"), Card("zero", "blue"),
            Card("seven", "blue"), Card("skip", "red"), Card("wild", "wild")>>
Plain == [seats |-> 3, callout |-> FALSE, challenge |-> FALSE, jumpIn |-> FALSE,
          buzzer |-> FALSE, untilPlayable |-> FALSE, forcePlay |-> FALSE,
          multiple |-> FALSE, skipAll |-> FALSE, reverseSkips |-> FALSE,
          rotate |-> FALSE, swap |-> FALSE, stacking |-> "off", drawLimit |-> 0,
          maxHand |-> 0, plays |-> 3]
Interrupted == [Plain EXCEPT !.callout = TRUE, !.buzzer = TRUE, !.challenge = TRUE,
                             !.stacking = "standard"]
Swapping == [Plain EXCEPT !.callout = TRUE, !.jumpIn = TRUE, !.multiple = TRUE,
                          !.rotate = TRUE, !.swap = TRUE]
Forced == [Plain EXCEPT !.untilPlayable = TRUE, !.forcePlay = TRUE, !.skipAll = TRUE,
                        !.stacking = "progressive", !.maxHand = 4, !.drawLimit = 2]
Hoarding == [Plain EXCEPT !.untilPlayable = TRUE, !.challenge = TRUE,
                          !.stacking = "progressive", !.maxHand = 3, !.drawLimit = 2]
Deal(opt, x, y, z, left) ==
    [opt |-> opt, hands |-> (a :> x) @@ (b :> y) @@ (c :> z), deck |-> left, top |-> 1]
FewDealings ==
    {Deal([Interrupted EXCEPT !.plays = 2], {2, 4}, {3, 5}, {6, 12}, {}),
     Deal(Swapping, {6, 10}, {7, 12}, {9, 11}, {2}),
     Deal([Forced EXCEPT !.plays = 4], {2, 6}, {3, 7}, {4, 8}, {9, 10}),
     Deal([Hoarding EXCEPT !.plays = 2], {2, 6}, {3, 7}, {4, 8}, {}),
     Deal([Interrupted EXCEPT !.seats = 2, !.reverseSkips = TRUE], {2, 4, 8}, {3, 5, 12}, {}, {}),
     Deal([Swapping EXCEPT !.seats = 2, !.plays = 4], {6, 8, 10}, {7, 9, 11}, {}, {2})}

\* Few of the first states: the game that is played has all of its own, the others one.
MCInit == /\ Init
          /\ IF playing = "kittens" THEN turn.player # c ELSE turn.player = a
          /\ playing = "deck" \/ \A p \in Three : dBullet[p] = 0
          /\ playing = "lastcard" \/ lGame.opt.maxHand = 4
          /\ playing = "holdem" \/ hGame.timed
MCSpec == MCInit /\ [][Next]_allVars /\ Fairness
=============================================================================
