-------------------------- MODULE MCAdaptivePolicy --------------------------
(* AdaptivePolicy for TLC: at first process is faster, then wasm. *)
EXTENDS AdaptivePolicy

MCBefore == [b \in Backends |-> IF b = "process" THEN 1 ELSE 3]
MCAfter == [b \in Backends |-> IF b = "process" THEN 2 ELSE 1]
=============================================================================
