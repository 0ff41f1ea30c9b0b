----------------------------- MODULE MCJournal ------------------------------
(* Two threads; or one, for the histories in which appends do not overlap. *)
EXTENDS Journal, TLC

Threads == Permutations(Worker)
=============================================================================
