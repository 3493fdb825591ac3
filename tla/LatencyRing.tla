---------------------------- MODULE LatencyRing ----------------------------
(***************************************************************************)
(* latency_ring (include/rlbox_meta_sandbox.hpp): the last N latencies of  *)
(* a symbol on a backend, and their median.  Latencies are numbers.        *)
(***************************************************************************)
EXTENDS Naturals, Sequences

CONSTANT N

ASSUME RingAssumption == N \in Nat \ {0}

Ring == [samples : [0 .. N - 1 -> Nat], writes : 0 .. 2 * N - 1]

EmptyRing == [samples |-> [i \in 0 .. N - 1 |-> 0], writes |-> 0]

\* Mutant: the writes are counted first.
Push_After(r, ms) ==
    [samples |-> [r.samples EXCEPT ![(r.writes + 1) % N] = ms],
     writes  |-> IF r.writes = 2 * N - 1 THEN N ELSE r.writes + 1]

\* writes is kept below 2N: only its remainder and whether it is N matter.
Push(r, ms) ==
    [samples |-> [r.samples EXCEPT ![r.writes % N] = ms],
     writes  |-> IF r.writes = 2 * N - 1 THEN N ELSE r.writes + 1]

Size(r) == IF r.writes < N THEN r.writes ELSE N

\* std::sort: where the first n samples stand when they are in order.
Order(samples, n) ==
    CHOOSE p \in [1 .. n -> 0 .. n - 1] :
        \A j \in 2 .. n : \A i \in 1 .. j - 1 :
            p[i] # p[j] /\ samples[p[i]] <= samples[p[j]]

\* The first Size(r) samples are sorted and the middle one taken.
Median(r) ==
    LET n == Size(r)
        middle == IF n \div 2 = 0 THEN 0 ELSE (n - 1) \div 2
    IN  IF n = 0 THEN 0 ELSE r.samples[Order(r.samples, n)[middle + 1]]
=============================================================================
