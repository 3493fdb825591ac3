----------------------------- MODULE Lifecycle -----------------------------
(***************************************************************************)
(* Creation and destruction of meta sandboxes over Cap'n Proto             *)
(* (impl_create_sandbox, impl_destroy_sandbox of                           *)
(* include/rlbox_meta_sandbox.hpp and include/rlbox_process_sandbox.hpp):  *)
(* mappings, the two registries, socket pairs, and the shim processes with *)
(* the descriptors they inherit.  Each sandbox has a thread of its own     *)
(* that creates and destroys it; every system call of a creation may fail. *)
(*                                                                         *)
(* What a shim has forked (the workers, idle or in a call) has copies of   *)
(* its descriptors and lives on when the shim is killed: `workers` has the *)
(* descriptors of these processes, by the life of the sandbox they are from.*)
(* When they end is the matter of WorkerPool.  HostChannel has what goes   *)
(* over the sockets, and the callback thread.  The thread local sandbox    *)
(* pointer is left out: it is read in callbacks only, which set it         *)
(* (Callbacks).                                                            *)
(***************************************************************************)
EXTENDS Naturals, FiniteSets

CONSTANTS
    Sandboxes,   \* meta sandbox objects
    Host,        \* the host process
    Bases,       \* places in the address space (bound the creations)
    MaxCreates,  \* creations per object (bound)
    None

ASSUME LifecycleAssumption ==
    Host \notin Sandboxes /\ None \notin Sandboxes \cup Bases /\ MaxCreates \in Nat

Procs == Sandboxes \cup {Host}
Ends == {"shm", "req0", "req1", "cb0", "cb1"}   \* 0: host side, 1: shim side
Lives == Sandboxes \X (1 .. MaxCreates)

VARIABLES
    pc,        \* pc[s]: how far creation or destruction of s is
    gen,       \* gen[s]: creations of s so far
    wasm,      \* the sandboxes whose wasm backend is up
    metaMap,   \* process_to_meta_map
    base,      \* base[s]: shared_memory_local_base
    mapped,    \* the mappings of the host
    registry,  \* global_registry
    holds,     \* holds[p]: the descriptors of process p, <<s, gen, end>>
    workers,   \* workers[<<s, g>>]: those of the processes that the shim of
               \* creation g of s has forked; {} if there are none
    shut,      \* the socket pairs that were shut down, <<s, gen>>
    shim,      \* shim[s]: the child process of s
    alive      \* is the host process there?

hostVars == <<pc, gen, wasm, metaMap, base, mapped, registry>>
procVars == <<holds, workers, shut, shim, alive>>
vars == <<hostVars, procVars>>

Init ==
    /\ pc = [s \in Sandboxes |-> "down"] /\ gen = [s \in Sandboxes |-> 0]
    /\ wasm = {} /\ metaMap = {}
    /\ base = [s \in Sandboxes |-> None] /\ mapped = {}
    /\ registry = [b \in Bases |-> None]
    /\ holds = [p \in Procs |-> {}] /\ workers = [l \in Lives |-> {}] /\ shut = {}
    /\ shim = [s \in Sandboxes |-> "none"] /\ alive = TRUE

At(s, label) == alive /\ pc[s] = label
Go(s, label) == pc' = [pc EXCEPT ![s] = label]
Fd(s, e) == <<s, gen[s], e>>
Fds(s, E) == {Fd(s, e) : e \in E}
HostOpens(s, E) == holds' = [holds EXCEPT ![Host] = @ \cup Fds(s, E)]
HostCloses(s, E) == holds' = [holds EXCEPT ![Host] = @ \ Fds(s, E)]

-----------------------------------------------------------------------------
(* Create.  A wasm backend that does not come up leaves nothing.           *)

CreateWasm(s) ==
    /\ alive /\ pc[s] \in {"down", "failed"} /\ gen[s] < MaxCreates
    /\ gen' = [gen EXCEPT ![s] = @ + 1]
    /\ wasm' = wasm \cup {s}
    /\ Go(s, "memfd")
    /\ UNCHANGED <<metaMap, base, mapped, registry, procVars>>

\* The process backend fails: wasm is torn down.
Fails(s) == Go(s, "failed") /\ wasm' = wasm \ {s}

Memfd(s) ==
    /\ At(s, "memfd")
    /\ \/ Go(s, "map") /\ HostOpens(s, {"shm"}) /\ UNCHANGED wasm
       \/ Fails(s) /\ UNCHANGED holds
    /\ UNCHANGED <<gen, metaMap, base, mapped, registry, shut, shim, alive, workers>>

\* Mutant: any base, as if the address space were not reserved first.
Map_Anywhere(s) ==
    /\ At(s, "map")
    /\ \/ /\ \E b \in Bases :
               /\ mapped' = mapped \cup {b}
               /\ base' = [base EXCEPT ![s] = b]
          /\ Go(s, "register") /\ UNCHANGED <<wasm, holds>>
       \/ Fails(s) /\ HostCloses(s, {"shm"}) /\ UNCHANGED <<mapped, base>>
    /\ UNCHANGED <<gen, metaMap, registry, shut, shim, alive, workers>>

Map(s) ==
    /\ At(s, "map")
    /\ \/ /\ \E b \in Bases \ mapped :
               /\ mapped' = mapped \cup {b}
               /\ base' = [base EXCEPT ![s] = b]
          /\ Go(s, "register") /\ UNCHANGED <<wasm, holds>>
       \/ Fails(s) /\ HostCloses(s, {"shm"}) /\ UNCHANGED <<mapped, base>>
    /\ UNCHANGED <<gen, metaMap, registry, shut, shim, alive, workers>>

Register(s) ==
    /\ At(s, "register")
    /\ registry' = [registry EXCEPT ![base[s]] = s]
    /\ Go(s, "reqPair")
    /\ UNCHANGED <<gen, wasm, metaMap, base, mapped, procVars>>

ReqPair(s) ==
    /\ At(s, "reqPair")
    /\ \/ Go(s, "cbPair") /\ HostOpens(s, {"req0", "req1"}) /\ UNCHANGED wasm
       \/ Fails(s) /\ HostCloses(s, {"shm"})
    /\ UNCHANGED <<gen, metaMap, base, mapped, registry, shut, shim, alive, workers>>

CbPair(s) ==
    /\ At(s, "cbPair")
    /\ \/ Go(s, "fork") /\ HostOpens(s, {"cb0", "cb1"}) /\ UNCHANGED wasm
       \/ Fails(s) /\ HostCloses(s, {"shm", "req0", "req1"})
    /\ UNCHANGED <<gen, metaMap, base, mapped, registry, shut, shim, alive, workers>>

\* The child has copies of all that the host has open at this moment.
Fork(s) ==
    /\ At(s, "fork")
    /\ \/ /\ Go(s, "close") /\ UNCHANGED wasm
          /\ holds' = [holds EXCEPT ![s] = holds[Host]]
          /\ shim' = [shim EXCEPT ![s] = "forked"]
       \/ Fails(s) /\ HostCloses(s, {"shm"}) /\ UNCHANGED shim
    /\ UNCHANGED <<gen, metaMap, base, mapped, registry, shut, alive, workers>>

CloseEnds(s) ==
    /\ At(s, "close")
    /\ HostCloses(s, {"shm", "req1", "cb1"})
    /\ Go(s, "publish")
    /\ UNCHANGED <<gen, wasm, metaMap, base, mapped, registry, shut, shim, alive, workers>>

Publish(s) ==
    /\ At(s, "publish")
    /\ metaMap' = metaMap \cup {s}
    /\ Go(s, "up")
    /\ UNCHANGED <<gen, wasm, base, mapped, registry, procVars>>

-----------------------------------------------------------------------------
(* Destroy.                                                                *)

Unpublish(s) ==
    /\ At(s, "up")
    /\ metaMap' = metaMap \ {s} /\ wasm' = wasm \ {s}
    /\ Go(s, "unregister")
    /\ UNCHANGED <<gen, base, mapped, registry, procVars>>

\* Mutant: the entry stays.
Unregister_Not(s) ==
    /\ At(s, "unregister")
    /\ Go(s, "shutdown")
    /\ UNCHANGED <<gen, wasm, metaMap, base, mapped, registry, procVars>>

Unregister(s) ==
    /\ At(s, "unregister")
    /\ registry' = [registry EXCEPT ![base[s]] = None]
    /\ Go(s, "shutdown")
    /\ UNCHANGED <<gen, wasm, metaMap, base, mapped, procVars>>

Shutdown(s) ==
    /\ At(s, "shutdown")
    /\ HostCloses(s, {"req0", "cb0"})
    /\ shut' = shut \cup {<<s, gen[s]>>}
    /\ Go(s, "kill")
    /\ UNCHANGED <<gen, wasm, metaMap, base, mapped, registry, shim, alive, workers>>

\* SIGTERM to the shim, and waitpid for it: what it has forked is left alone.
Kill(s) ==
    /\ At(s, "kill")
    /\ shim' = [shim EXCEPT ![s] = "none"]
    /\ holds' = [holds EXCEPT ![s] = {}]
    /\ Go(s, "down")
    /\ UNCHANGED <<gen, wasm, metaMap, base, mapped, registry, shut, alive, workers>>

-----------------------------------------------------------------------------
(* The shim process.                                                       *)

\* Mutant: the child keeps the host's ends.
Exec_KeepsEnds(s) ==
    /\ shim[s] = "forked"
    /\ shim' = [shim EXCEPT ![s] = "serving"]
    /\ UNCHANGED <<hostVars, holds, shut, alive, workers>>

\* The child closes the host's ends of its own pairs and execs.
Exec(s) ==
    /\ shim[s] = "forked"
    /\ shim' = [shim EXCEPT ![s] = "serving"]
    /\ holds' = [holds EXCEPT ![s] = @ \ Fds(s, {"req0", "cb0"})]
    /\ UNCHANGED <<hostVars, shut, alive, workers>>

\* It may not be able to exec, or crash; if the host lives it is a zombie.
ShimDies(s) ==
    /\ shim[s] \in {"forked", "serving", "ended"}
    /\ shim' = [shim EXCEPT ![s] = "dead"]
    /\ holds' = [holds EXCEPT ![s] = {}]
    /\ UNCHANGED <<hostVars, shut, alive, workers>>

\* spawn_worker, and the fork of a call without a worker.
Spawn(s) ==
    /\ shim[s] \in {"serving", "ended"}
    /\ workers' = [workers EXCEPT ![<<s, gen[s]>>] = holds[s]]
    /\ UNCHANGED <<hostVars, holds, shut, shim, alive>>

\* The workers end, with their shim or any time after it.
WorkersEnd(l) ==
    /\ workers[l] # {} /\ workers' = [workers EXCEPT ![l] = {}]
    /\ UNCHANGED <<hostVars, holds, shut, shim, alive>>

Eof(s) ==
    \/ <<s, gen[s]>> \in shut
    \/ /\ \A p \in Procs : Fd(s, "req0") \notin holds[p]
       /\ \A l \in Lives : Fd(s, "req0") \notin workers[l]

\* start_rpc_server: the request loop ends.  The process does not: its main
\* thread waits for signals.
LoopEnds(s) ==
    /\ shim[s] = "serving" /\ Eof(s)
    /\ shim' = [shim EXCEPT ![s] = "ended"]
    /\ UNCHANGED <<hostVars, holds, shut, alive, workers>>

\* The host process ends without destroying anything (it aborts, say).
HostDies ==
    /\ alive /\ alive' = FALSE
    /\ holds' = [holds EXCEPT ![Host] = {}]
    /\ UNCHANGED <<hostVars, shut, shim, workers>>

Create(s) == CreateWasm(s) \/ Memfd(s) \/ Map(s) \/ Register(s) \/ ReqPair(s)
             \/ CbPair(s) \/ Fork(s) \/ CloseEnds(s) \/ Publish(s)
Destroy(s) == Unpublish(s) \/ Unregister(s) \/ Shutdown(s) \/ Kill(s)
Shim(s) == Exec(s) \/ LoopEnds(s)

Next ==
    \/ HostDies
    \/ \E s \in Sandboxes : Create(s) \/ Destroy(s) \/ Shim(s) \/ ShimDies(s) \/ Spawn(s)
    \/ \E l \in Lives : WorkersEnd(l)

Spec == Init /\ [][Next]_vars

\* Processes run.
FairSpec == Spec /\ \A s \in Sandboxes : WF_vars(Shim(s))

-----------------------------------------------------------------------------
\* Every variable keeps to its set; a callback finds a meta sandbox only while
\* that has its wasm backend.
TypeOK ==
    /\ pc \in [Sandboxes -> {"down", "failed", "memfd", "map", "register", "reqPair",
                             "cbPair", "fork", "close", "publish", "up", "unregister",
                             "shutdown", "kill"}]
    /\ gen \in [Sandboxes -> 0 .. MaxCreates]
    /\ wasm \subseteq Sandboxes /\ metaMap \subseteq wasm
    /\ base \in [Sandboxes -> Bases \cup {None}] /\ mapped \subseteq Bases
    /\ registry \in [Bases -> Sandboxes \cup {None}]
    /\ holds \in [Procs -> SUBSET (Sandboxes \X (1 .. MaxCreates) \X Ends)]
    /\ workers \in [Lives -> SUBSET (Sandboxes \X (1 .. MaxCreates) \X Ends)]
    /\ shut \subseteq Lives
    /\ shim \in [Sandboxes -> {"none", "forked", "serving", "ended", "dead"}]
    /\ alive \in BOOLEAN

\* The range lookup of impl_is_in_same_sandbox finds each sandbox that is up
\* and no other, whatever entries failed creations have left.  (And the types
\* are right.)
RegistryRight ==
    /\ TypeOK
    /\ \A s \in Sandboxes : pc[s] \in {"reqPair", "cbPair", "fork", "close", "publish", "up"} =>
         /\ registry[base[s]] = s
         /\ \A r \in Sandboxes \ {s} : pc[r] \in {"publish", "up"} => base[r] # base[s]

\* A sandbox whose destroy has returned has in the host nothing of that life
\* but its mapping: no backend, no entry, no descriptor.  Its shim has been
\* waited for, and the sockets are shut down: what the shim has forked may
\* still run, but whatever it reads there is at its end.
DownIsDown ==
    \A s \in Sandboxes : pc[s] = "down" =>
        /\ s \notin wasm /\ s \notin metaMap /\ shim[s] = "none" /\ holds[s] = {}
        /\ base[s] # None => registry[base[s]] # s
        /\ \A e \in Ends : Fd(s, e) \notin holds[Host]
        /\ gen[s] > 0 => <<s, gen[s]>> \in shut

\* When the host is gone, a shim leaves its request loop, unless another
\* sandbox's shim, or what that has forked, has inherited its host end.
LoopEndsAlone ==
    \A s \in Sandboxes :
        (/\ ~alive
         /\ \A r \in Sandboxes \ {s} : Fd(s, "req0") \notin holds[r]
         /\ \A l \in Lives : l[1] # s => Fd(s, "req0") \notin workers[l])
            ~> shim[s] \in {"none", "ended", "dead"}
=============================================================================
