---------------------------- MODULE SequenceRunner ----------------------------
(***************************************************************************)
(* game_utils/sequence_runner_mixin.py: sequences of beats that the tick   *)
(* plays one after the other, each beat with callbacks into the game.      *)
(* While one with a lock runs, the keys of the game are disabled.          *)
(*                                                                         *)
(* A function from the names of sequences to the callbacks still to come   *)
(* stands for active_sequences: none are left of one that has ended, was   *)
(* cancelled or never began.  Beats without callbacks are delays, and how  *)
(* long a delay takes is left to choice, so a beat may be due at any time. *)
(***************************************************************************)
EXTENDS Sequences

Idle(Names) == [name \in Names |-> <<>>]
Running(active) == {name \in DOMAIN active : active[name] # <<>>}

\* start_sequence with replace_existing, and cancel_sequences_by_tag.
Started(active, name, beats) == [active EXCEPT ![name] = beats]
Cancelled(active, names) == [name \in DOMAIN active |-> IF name \in names THEN <<>> ELSE active[name]]

\* _process_sequence: `callback` of `name` is due.
Due(active, name, callback) == active[name] # <<>> /\ Head(active[name]) = callback
\* Then the beat is done, unless the callback cancelled the sequence; with the last
\* beat the sequence ends.  `after` is what the callback made of the sequences.
Played(after, name) == [after EXCEPT ![name] = IF @ = <<>> THEN <<>> ELSE Tail(@)]
=============================================================================
