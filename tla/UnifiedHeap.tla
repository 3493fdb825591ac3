---------------------------- MODULE UnifiedHeap ----------------------------
(***************************************************************************)
(* What the meta sandbox promises its application: one heap.  An object is *)
(* born on a backend and stays there, <<backend, address>>; a call runs on *)
(* the backend of all the objects it is given; objects come and go by      *)
(* allocation and release, or by what a call makes or destroys there.      *)
(***************************************************************************)
EXTENDS Naturals

CONSTANTS Clients, Objects, Backends, None

VARIABLES
    live,   \* the objects there are
    call    \* call[c]: the backend and the objects of c's call, or None

vars == <<live, call>>

Init == live = {} /\ call = [c \in Clients |-> None]

UsedBy(o, others) == \E c \in others : call[c] # None /\ o \in call[c].uses

Allocate ==
    /\ \E o \in Objects \ live : live' = live \cup {o}
    /\ UNCHANGED call

Release ==
    /\ \E o \in live : ~UsedBy(o, Clients) /\ live' = live \ {o}
    /\ UNCHANGED call

Enter(c) ==
    /\ call[c] = None
    /\ \E b \in Backends : \E U \in SUBSET {o \in live : o[1] = b} :
         call' = [call EXCEPT ![c] = [on |-> b, uses |-> U]]
    /\ UNCHANGED live

\* The call may have made an object where it ran, or destroyed one it used.
Leave(c) ==
    /\ call[c] # None
    /\ \/ live' = live
       \/ \E o \in Objects \ live : o[1] = call[c].on /\ live' = live \cup {o}
       \/ \E o \in live : /\ UsedBy(o, {c}) /\ ~UsedBy(o, Clients \ {c})
                          /\ live' = live \ {o}
    /\ call' = [call EXCEPT ![c] = None]

Next == Allocate \/ Release \/ \E c \in Clients : Enter(c) \/ Leave(c)

Spec == Init /\ [][Next]_vars
=============================================================================
