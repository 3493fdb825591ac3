---------------------------- MODULE CallService ----------------------------
(***************************************************************************)
(* What an invoke request promises to the host, without workers, pipes or  *)
(* threads: the shim takes one request at a time, the library function is  *)
(* entered at most once per request, and a request is answered once, with  *)
(* its own result (only after the function was entered) or with 0.         *)
(* When the shim is gone nothing is accepted or answered any more, though  *)
(* a call already handed to a child may still be entered.                  *)
(*                                                                         *)
(* The request loop is the one of start_rpc_server in                      *)
(* src/src/rlbox_process_sandbox_shim.cpp; WorkerPool implements this      *)
(* specification.                                                          *)
(***************************************************************************)
EXTENDS Naturals

CONSTANTS Jobs, Zero, None

VARIABLES alive, phase, reply, runs

callVars == <<alive, phase, reply, runs>>

Init == /\ alive = TRUE
        /\ phase = [j \in Jobs |-> "new"]
        /\ reply = [j \in Jobs |-> None]
        /\ runs = [j \in Jobs |-> 0]

\* One request at a time: the next one is read after the answer is written.
Accept(j) ==
    /\ alive /\ phase[j] = "new"
    /\ \A i \in Jobs : phase[i] # "active"
    /\ phase' = [phase EXCEPT ![j] = "active"]
    /\ UNCHANGED <<alive, reply, runs>>

Execute(j) ==
    /\ phase[j] = "active" /\ runs[j] = 0
    /\ runs' = [runs EXCEPT ![j] = 1]
    /\ UNCHANGED <<alive, phase, reply>>

Answer(j) ==
    /\ alive /\ phase[j] = "active"
    /\ \E r \in {j, Zero} :
         /\ r = j => runs[j] = 1
         /\ reply' = [reply EXCEPT ![j] = r]
    /\ phase' = [phase EXCEPT ![j] = "done"]
    /\ UNCHANGED <<alive, runs>>

Stop == alive /\ alive' = FALSE /\ UNCHANGED <<phase, reply, runs>>

Next == \/ \E j \in Jobs : Accept(j) \/ Execute(j) \/ Answer(j)
        \/ Stop

Spec == Init /\ [][Next]_callVars
=============================================================================
