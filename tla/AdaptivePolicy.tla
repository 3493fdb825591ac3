--------------------------- MODULE AdaptivePolicy ---------------------------
(***************************************************************************)
(* make_adaptive_policy and the calls it steers                            *)
(* (include/rlbox_meta_sandbox.hpp): each call of a symbol asks the policy *)
(* for a backend, runs there, and leaves its latency in the ring of that   *)
(* symbol and backend; the policy compares the sums of the medians.        *)
(*                                                                         *)
(* One thread calls: the policy's state has no lock, and two threads in it *)
(* are a data race.  Latencies are those of the backend, which may shift   *)
(* once.  An allocation only reads current_best, and a pointer's owner     *)
(* overrides the pick of every call of a symbol in Owned (MetaSandbox has  *)
(* both).  The pinning that set_pin_threshold asks for is kept as the code *)
(* keeps it: set, and read by nobody.                                      *)
(***************************************************************************)
EXTENDS LatencyRing, FiniteSets

CONSTANTS
    Symbols,
    Bound,          \* symbols with a wasm binding
    Owned,          \* symbols whose calls take process-owned pointers
    AllocWarmup, ReexplorePeriod,
    PinThreshold,   \* pin_threshold_; 0: off
    Before, After,  \* the backends' latencies, before and after the shift
    None

Backends == {"process", "wasm"}

ASSUME PolicyAssumption ==
    /\ Bound \subseteq Symbols /\ Owned \subseteq Symbols
    /\ AllocWarmup \in Nat /\ ReexplorePeriod \in Nat /\ PinThreshold \in Nat
    /\ Before \in [Backends -> Nat] /\ After \in [Backends -> Nat]

VARIABLES
    current_best,  \* of the policy
    count,         \* named_invoke_count
    ring,          \* ring[s][b]: process_latency, wasm_latency
    pin,           \* pin[s]: pinned, consecutive_same_picks, last_pick
    shifted,       \* have the latencies shifted?
    running,       \* the call under way: symbol and backend, or None
    by,            \* what the last decision went by: "random", "measured"
    recent         \* recent[s][b]: the last N latencies, in order (history)

policyVars == <<current_best, count, by>>
recordVars == <<ring, pin, recent>>
vars == <<policyVars, recordVars, shifted, running>>

Init ==
    /\ current_best = "process" /\ count = 0 /\ by = None
    /\ ring = [s \in Symbols |-> [b \in Backends |-> EmptyRing]]
    /\ pin = [s \in Symbols |-> [pinned |-> None, streak |-> 0, last |-> "process"]]
    /\ recent = [s \in Symbols |-> [b \in Backends |-> <<>>]]
    /\ shifted = FALSE /\ running = None

Latency(b) == IF shifted THEN After[b] ELSE Before[b]

-----------------------------------------------------------------------------
\* The symbols that snapshot_median_sums adds up.
Compared == {s \in Bound : \A b \in Backends : Size(ring[s][b]) > 0}

MedianSum(b) ==
    LET add[S \in SUBSET Compared] ==
            IF S = {} THEN 0
            ELSE LET s == CHOOSE x \in S : TRUE IN Median(ring[s][b]) + add[S \ {s}]
    IN  add[Compared]

\* The count is kept until the warmup is over, then modulo the period.
NextCount(n) ==
    IF n + 1 < AllocWarmup + (IF ReexplorePeriod = 0 THEN 1 ELSE ReexplorePeriod)
      THEN n + 1 ELSE AllocWarmup

\* Mutant: the reexploration is forgotten.
Explores_Warmup(n) == n < AllocWarmup

Explores(n) ==
    \/ n < AllocWarmup
    \/ ReexplorePeriod # 0 /\ (n - AllocWarmup) % ReexplorePeriod = 0

\* A call of s: the policy picks for this one what current_best was, with the
\* fallback for a symbol wasm does not have, and decides for the next.
Call(s) ==
    /\ running = None
    /\ running' = <<s, IF s \in Bound \ Owned THEN current_best ELSE "process">>
    /\ count' = NextCount(count)
    /\ LET p == MedianSum("process")
           w == MedianSum("wasm")
       IN  \/ /\ Explores(count) \/ p = w
              /\ by' = "random"
              /\ current_best' \in Backends
           \/ /\ ~Explores(count) /\ p # w
              /\ by' = "measured"
              /\ current_best' = IF p < w THEN "process" ELSE "wasm"
    /\ UNCHANGED <<recordVars, shifted>>

\* The streak of dispatches to one backend (counted up to the threshold).
Longer(n) == IF n < PinThreshold THEN n + 1 ELSE n

\* The pin state after a dispatch to b.
Pinned(p, b) ==
    IF PinThreshold = 0 THEN p
    ELSE IF p.last = b
      THEN [p EXCEPT !.streak = Longer(@),
                     !.pinned = IF Longer(p.streak) >= PinThreshold THEN b ELSE @]
      ELSE [p EXCEPT !.streak = 1, !.last = b]

\* sample_pusher: the call is over.
Finish ==
    /\ running # None
    /\ LET s == running[1]
           b == running[2]
           q == recent[s][b]
       IN  /\ ring' = [ring EXCEPT ![s][b] = Push(@, Latency(b))]
           /\ pin' = [pin EXCEPT ![s] = Pinned(@, b)]
           /\ recent' = [recent EXCEPT ![s][b] =
                           Append(IF Len(q) = N THEN Tail(q) ELSE q, Latency(b))]
    /\ running' = None
    /\ UNCHANGED <<policyVars, shifted>>

\* The environment: the load of the machine changes.
Shift ==
    /\ ~shifted /\ shifted' = TRUE
    /\ UNCHANGED <<policyVars, recordVars, running>>

Next == Finish \/ Shift \/ \E s \in Symbols : Call(s)

Spec == Init /\ [][Next]_vars

-----------------------------------------------------------------------------
(* The application goes on calling and calls end.  The random numbers take *)
(* the value of the backend that is faster in the end again and again, and *)
(* not all calls made while it is current_best are of symbols that cannot  *)
(* run there.                                                              *)
Faster == IF After["process"] < After["wasm"] THEN "process" ELSE "wasm"

Fairness ==
    /\ WF_vars(Finish \/ \E s \in Symbols : Call(s))
    /\ SF_vars(\E s \in Symbols : Call(s) /\ by' = "random" /\ current_best' = Faster)
    /\ SF_vars(\E s \in Bound \ Owned : Call(s) /\ current_best = Faster)

FairSpec == Spec /\ Fairness

-----------------------------------------------------------------------------
\* Every variable keeps to its set, and a call runs where its symbol is.
TypeOK ==
    /\ current_best \in Backends /\ count \in 0 .. AllocWarmup + ReexplorePeriod
    /\ by \in {"random", "measured", None}
    /\ \A s \in Symbols, b \in Backends :
         /\ DOMAIN ring[s][b].samples = 0 .. N - 1 /\ ring[s][b].writes \in 0 .. 2 * N - 1
         /\ Len(recent[s][b]) <= N
    /\ pin \in [Symbols -> [pinned : Backends \cup {None}, streak : 0 .. PinThreshold,
                            last : Backends]]
    /\ shifted \in BOOLEAN
    /\ running \in (Symbols \X {"process"}) \cup (Bound \X {"wasm"}) \cup {None}

\* x is a lower median of q: half of q is not above it, less than half below.
IsMedian(x, q) ==
    /\ \E i \in DOMAIN q : q[i] = x
    /\ 2 * Cardinality({i \in DOMAIN q : q[i] <= x}) >= Len(q)
    /\ 2 * Cardinality({i \in DOMAIN q : q[i] < x}) < Len(q)

\* The median of a ring is that of the last N latencies of its symbol on its
\* backend, however often the ring has gone round.  (And the types are right.)
MedianIsRecent ==
    /\ TypeOK
    /\ \A s \in Symbols, b \in Backends :
         recent[s][b] # <<>> => IsMedian(Median(ring[s][b]), recent[s][b])

\* Once the latencies stay what they are, every decision by measurement is in
\* the end for the faster backend: the policy forgets what it measured before
\* the shift, also on the backend that it does not use.
TracksSteadyState ==
    shifted ~> [](by = "measured" => current_best = Faster)
=============================================================================
