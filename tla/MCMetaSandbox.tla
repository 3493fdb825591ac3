--------------------------- MODULE MCMetaSandbox ---------------------------
(* Model checking of MetaSandbox.                                          *)
EXTENDS MetaSandbox, TLC

\* Threads, addresses, offsets and structs are interchangeable.
Symmetry == Permutations(Threads) \cup Permutations(ProcBits) \cup Permutations(WasmBits)
            \cup Permutations(Structs)
=============================================================================
