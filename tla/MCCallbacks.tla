---------------------------- MODULE MCCallbacks ----------------------------
(* Callbacks for TLC. *)
EXTENDS Callbacks, TLC

\* Threads do not differ, nor do keys.
Symmetry == Permutations(Threads) \cup Permutations(Keys)
=============================================================================
