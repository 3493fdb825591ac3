---------------------------- MODULE MCWorkerPool ----------------------------
(* Model checking of WorkerPool.                                           *)
EXTENDS WorkerPool, TLC

\* Children and calls are interchangeable; used by safety runs only.  Calls
\* of Rejected are told apart from the others.
Symmetry == Permutations(Kids) \cup Permutations(Jobs \ Rejected)
=============================================================================
