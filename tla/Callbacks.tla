----------------------------- MODULE Callbacks -----------------------------
(***************************************************************************)
(* Callbacks of the meta sandbox over Cap'n Proto: the tables a callback   *)
(* is registered in (callback_map of the host, the trampoline slots of the *)
(* shim, the wasm table, callback_registry of the meta sandbox), the calls *)
(* that fire them, and the thread locals by which a running callback finds *)
(* out which one it is (include/rlbox_meta_sandbox.hpp,                    *)
(* include/rlbox_process_sandbox.hpp, src/rlbox_process_sandbox_shim.cpp). *)
(*                                                                         *)
(* A request holds request_mutex until it is answered, so that one that    *)
(* the shim handles at once is one step, and a call holds it throughout;   *)
(* HostChannel has the steps between, and create and destroy.  rlbox       *)
(* registers a callback, named by its key, once at a time.  The library is *)
(* not trusted and may have kept any handle: it calls any trampoline, and  *)
(* the wasm code any index.  A child may die while it waits for a callback *)
(* or give up waiting; a reply does not say whose it is.                   *)
(***************************************************************************)
EXTENDS Naturals, SequencesExt

CONSTANTS
    Threads,     \* application threads
    Cb,          \* the callback thread
    Keys,        \* callbacks
    NSlots,      \* RLBOX_CALLBACK_SLOTS
    NWasm,       \* size of the wasm table
    MaxDepth,    \* nested frames on a stack (bound)
    MaxOrphans,  \* children that stop waiting for a callback (bound)
    None

ASSUME CallbacksAssumption ==
    /\ Cb \notin Threads /\ NSlots \in Nat /\ NWasm \in Nat
    /\ MaxDepth \in Nat \ {0} /\ MaxOrphans \in Nat
    /\ None \notin Keys \cup Threads \cup (1 .. NSlots) \cup (1 .. NWasm) \cup ((1 .. NWasm) \X Keys)

Slots == 1 .. NSlots
WSlots == 1 .. NWasm
Stacks == Threads \cup {Cb}

VARIABLES
    st,        \* st[k]: what rlbox knows of callback k
    handle,    \* handle[k]: the slot whose trampoline is k's handle
    map,       \* callback_map: the keys with a dispatcher
    slots,     \* g_callback_keys
    wslots,    \* the wasm table
    registry,  \* callback_registry: handle -> wasm index and key
    aborted,   \* did the wasm table run out?
    op, opKey, opWasm,   \* the operation of each application thread
    mutex,     \* holder of request_mutex
    child,     \* the child that runs a call
    sent,      \* callback_fd: callbacks not read yet
    replies,   \* callback_fd: how many replies are not read yet
    orphans,   \* children that no longer wait for the callback they sent
    fired,     \* the key the callback thread works on
    cb,        \* the callback thread's loop
    stack,     \* stack[t]: frames of the sandbox on t's stack
    fresh,     \* fresh[t]: has t just entered a callback?
    tlMeta,    \* tl_invoking_meta is set
    tlKey,     \* thread_local_callback_key
    wKey       \* the key of the callback that wasm called last, in the wasm
               \* calls under way on t (nobody asks for it when there is none)

tables == <<st, handle, map, slots, wslots, registry, aborted>>
opVars == <<op, opKey, opWasm>>
wireVars == <<sent, replies, orphans>>
callVars == <<mutex, child, wireVars, fired, cb>>
stackVars == <<stack, fresh, tlMeta, tlKey, wKey>>
vars == <<tables, opVars, callVars, stackVars>>

Init ==
    /\ st = [k \in Keys |-> "none"] /\ handle = [k \in Keys |-> None]
    /\ map = {} /\ slots = [i \in Slots |-> None] /\ wslots = [w \in WSlots |-> None]
    /\ registry = [i \in Slots |-> None] /\ aborted = FALSE
    /\ op = [t \in Threads |-> "idle"] /\ opKey = [t \in Threads |-> None]
    /\ opWasm = [t \in Threads |-> None]
    /\ mutex = None
    /\ child = "none" /\ sent = <<>> /\ replies = 0 /\ orphans = 0 /\ fired = None /\ cb = "idle"
    /\ stack = [t \in Stacks |-> <<>>] /\ fresh = [t \in Stacks |-> FALSE]
    /\ tlMeta = [t \in Stacks |-> FALSE] /\ tlKey = [t \in Stacks |-> None]
    /\ wKey = [t \in Stacks |-> None]

At(t, label) == ~aborted /\ op[t] = label
Go(t, label) == op' = [op EXCEPT ![t] = label]

\* Application code runs at the bottom of a stack and in a callback.
Top(t) == IF stack[t] = <<>> THEN "app" ELSE Last(stack[t])[1]
InApp(t) == Top(t) # "wasm"
Idle(t) == At(t, "idle") /\ InApp(t)

Push(t, frame) == stack' = [stack EXCEPT ![t] = Append(@, frame)]
Pop(t) == stack' = [stack EXCEPT ![t] = Front(@)]
NotFresh == fresh' = [t \in Stacks |-> FALSE]
Entered(t) == fresh' = [u \in Stacks |-> u = t]

\* The lowest index of table f with value v.
First(f, v) == CHOOSE i \in DOMAIN f : f[i] = v /\ \A j \in 1 .. i - 1 : f[j] # v
Has(f, v) == \E i \in DOMAIN f : f[i] = v

-----------------------------------------------------------------------------
(* impl_register_callback.                                                 *)

RegMap(t) ==
    /\ Idle(t)
    /\ \E k \in Keys :
         /\ st[k] = "none"
         /\ st' = [st EXCEPT ![k] = "busy"] /\ map' = map \cup {k}
         /\ opKey' = [opKey EXCEPT ![t] = k]
    /\ Go(t, "regSlot")
    /\ UNCHANGED <<handle, slots, wslots, registry, aborted, opWasm, callVars, stackVars>>

\* handle_register_callback; without a free slot the handle is 0 and the
\* dispatcher stays.
RegSlot(t) ==
    /\ At(t, "regSlot") /\ mutex = None
    /\ IF Has(slots, None)
         THEN /\ handle' = [handle EXCEPT ![opKey[t]] = First(slots, None)]
              /\ slots' = [slots EXCEPT ![First(slots, None)] = opKey[t]]
              /\ Go(t, "regWasm") /\ UNCHANGED <<st, opKey>>
         ELSE /\ st' = [st EXCEPT ![opKey[t]] = "registered"]
              /\ opKey' = [opKey EXCEPT ![t] = None]
              /\ Go(t, "idle") /\ UNCHANGED <<handle, slots>>
    /\ UNCHANGED <<map, wslots, registry, aborted, opWasm, callVars, stackVars>>

\* wasm2c aborts on slot exhaustion.
RegWasm(t) ==
    /\ At(t, "regWasm")
    /\ IF Has(wslots, None)
         THEN /\ wslots' = [wslots EXCEPT ![First(wslots, None)] = opKey[t]]
              /\ opWasm' = [opWasm EXCEPT ![t] = First(wslots, None)]
              /\ Go(t, "regPublish") /\ UNCHANGED aborted
         ELSE aborted' = TRUE /\ UNCHANGED <<wslots, op, opWasm>>
    /\ UNCHANGED <<st, handle, map, slots, registry, opKey, callVars, stackVars>>

\* emplace: an entry that is there stays.
RegPublish(t) ==
    /\ At(t, "regPublish")
    /\ registry' = [registry EXCEPT ![handle[opKey[t]]] =
                      IF @ = None THEN <<opWasm[t], opKey[t]>> ELSE @]
    /\ st' = [st EXCEPT ![opKey[t]] = "registered"]
    /\ opKey' = [opKey EXCEPT ![t] = None] /\ opWasm' = [opWasm EXCEPT ![t] = None]
    /\ Go(t, "idle")
    /\ UNCHANGED <<handle, map, slots, wslots, aborted, callVars, stackVars>>

-----------------------------------------------------------------------------
(* impl_unregister_callback.                                               *)

UnregPublish(t) ==
    /\ Idle(t)
    /\ \E k \in Keys :
         /\ st[k] = "registered"
         /\ st' = [st EXCEPT ![k] = "busy"] /\ opKey' = [opKey EXCEPT ![t] = k]
         /\ registry' = [i \in Slots |->
                IF registry[i] # None /\ registry[i][2] = k THEN None ELSE registry[i]]
    /\ Go(t, "unregMap")
    /\ UNCHANGED <<handle, map, slots, wslots, aborted, opWasm, callVars, stackVars>>

\* Mutant: the dispatcher stays.
UnregMap_Not(t) ==
    /\ At(t, "unregMap")
    /\ Go(t, "unregSlot")
    /\ UNCHANGED <<tables, opKey, opWasm, callVars, stackVars>>

UnregMap(t) ==
    /\ At(t, "unregMap")
    /\ map' = map \ {opKey[t]}
    /\ Go(t, "unregSlot")
    /\ UNCHANGED <<st, handle, slots, wslots, registry, aborted, opKey, opWasm, callVars, stackVars>>

ClearSlot(k) ==
    slots' = IF Has(slots, k) THEN [slots EXCEPT ![First(slots, k)] = None] ELSE slots

\* Mutant: the request is not waited for, as over rpclib.
UnregSlot_Async(t) ==
    /\ At(t, "unregSlot")
    /\ ClearSlot(opKey[t])
    /\ Go(t, "unregWasm")
    /\ UNCHANGED <<st, handle, map, wslots, registry, aborted, opKey, opWasm, callVars, stackVars>>

UnregSlot(t) ==
    /\ At(t, "unregSlot") /\ mutex = None
    /\ ClearSlot(opKey[t])
    /\ Go(t, "unregWasm")
    /\ UNCHANGED <<st, handle, map, wslots, registry, aborted, opKey, opWasm, callVars, stackVars>>

UnregWasm(t) ==
    /\ At(t, "unregWasm")
    /\ wslots' = [w \in WSlots |-> IF wslots[w] = opKey[t] THEN None ELSE wslots[w]]
    /\ st' = [st EXCEPT ![opKey[t]] = "none"]
    /\ handle' = [handle EXCEPT ![opKey[t]] = None]
    /\ opKey' = [opKey EXCEPT ![t] = None]
    /\ Go(t, "idle")
    /\ UNCHANGED <<map, slots, registry, aborted, opWasm, callVars, stackVars>>
-----------------------------------------------------------------------------
(* A call on the process backend and the callbacks it makes.               *)

Call(t) ==
    /\ Idle(t) /\ mutex = None
    /\ mutex' = t /\ child' = "run"
    /\ Go(t, "call")
    /\ UNCHANGED <<tables, opKey, opWasm, wireVars, fired, cb, stackVars>>

\* trampoline_impl; that of an empty slot returns 0 and nobody hears of it.
ChildFires ==
    /\ ~aborted /\ child = "run"
    /\ \E i \in Slots : slots[i] # None /\ sent' = Append(sent, slots[i])
    /\ child' = "wait"
    /\ UNCHANGED <<tables, opVars, mutex, replies, orphans, fired, cb, stackVars>>

\* fire_callback takes any reply for its own.
ChildResumes ==
    /\ ~aborted /\ child = "wait" /\ replies > 0
    /\ child' = "run" /\ replies' = replies - 1
    /\ UNCHANGED <<tables, opVars, mutex, sent, orphans, fired, cb, stackVars>>

\* The read of the reply fails and the callback returns 0 to the library.
ChildGivesUp ==
    /\ ~aborted /\ child = "wait" /\ orphans < MaxOrphans
    /\ child' = "run" /\ orphans' = orphans + 1
    /\ UNCHANGED <<tables, opVars, mutex, sent, replies, fired, cb, stackVars>>

\* start_callback_loop: a key without a dispatcher gets the reply 0.
CbLookup ==
    /\ ~aborted /\ cb = "idle" /\ sent # <<>>
    /\ fired' = Head(sent) /\ sent' = Tail(sent)
    /\ IF Head(sent) \in map
         THEN /\ Push(Cb, <<"pcb", Head(sent)>>) /\ Entered(Cb)
              /\ tlKey' = [tlKey EXCEPT ![Cb] = Head(sent)]
              /\ cb' = "handler"
         ELSE cb' = "reply" /\ UNCHANGED <<stack, fresh, tlKey>>
    /\ UNCHANGED <<tables, opVars, mutex, child, replies, orphans, tlMeta, wKey>>

CbHandled ==
    /\ ~aborted /\ cb = "handler" /\ Top(Cb) = "pcb"
    /\ Pop(Cb) /\ NotFresh
    /\ tlKey' = [tlKey EXCEPT ![Cb] = None]
    /\ cb' = "reply"
    /\ UNCHANGED <<tables, opVars, mutex, child, wireVars, fired, tlMeta, wKey>>

CbReply ==
    /\ ~aborted /\ cb = "reply"
    /\ cb' = "idle" /\ fired' = None /\ replies' = replies + 1
    /\ UNCHANGED <<tables, opVars, mutex, child, sent, orphans, stackVars>>

\* The shim answers and capnp_call returns.
CallEnds(t) ==
    /\ At(t, "call") /\ child = "run"
    /\ mutex' = None /\ child' = "none"
    /\ Go(t, "idle")
    /\ UNCHANGED <<tables, opKey, opWasm, wireVars, fired, cb, stackVars>>

\* The child dies while it waits: the shim reads end of file and answers 0,
\* and what the callback thread does or has yet to do goes on.
ChildDies(t) ==
    /\ At(t, "call") /\ child = "wait" /\ orphans < MaxOrphans
    /\ mutex' = None /\ child' = "none" /\ orphans' = orphans + 1
    /\ Go(t, "idle")
    /\ UNCHANGED <<tables, opKey, opWasm, sent, replies, fired, cb, stackVars>>

-----------------------------------------------------------------------------
(* A call on the wasm backend: it runs on the thread that makes it, be it  *)
(* an application thread or the callback thread in a handler.              *)

MayCall(t) == ~aborted /\ InApp(t) /\ (IF t = Cb THEN cb = "handler" ELSE op[t] = "idle")

\* translate rewrites the handles among the arguments to the indices that
\* callback_registry has for them; wasm may have kept others from before.
WasmEnter(t) ==
    /\ MayCall(t) /\ Len(stack[t]) < MaxDepth
    /\ Push(t, <<"wasm", tlMeta[t]>>) /\ NotFresh
    /\ tlMeta' = [tlMeta EXCEPT ![t] = TRUE]
    /\ UNCHANGED <<tables, opVars, mutex, child, wireVars, fired, cb, tlKey, wKey>>

InWasm(t) == ~aborted /\ Top(t) = "wasm"

WasmFires(t) ==
    /\ InWasm(t) /\ Len(stack[t]) < MaxDepth
    /\ \E w \in WSlots :
         /\ wslots[w] # None
         /\ Push(t, <<"wcb", wslots[w]>>) /\ Entered(t)
         /\ wKey' = [wKey EXCEPT ![t] = wslots[w]]
    /\ UNCHANGED <<tables, opVars, callVars, tlMeta, tlKey>>

WasmReturns(t) ==
    /\ MayCall(t) /\ Top(t) = "wcb"
    /\ Pop(t) /\ NotFresh
    /\ UNCHANGED <<tables, opVars, callVars, tlMeta, tlKey, wKey>>

KeepKey(t) == wKey' = [wKey EXCEPT ![t] = IF Last(stack[t])[2] THEN @ ELSE None]

\* Mutant: tl_invoking_meta is cleared, not restored.
WasmLeave_Clear(t) ==
    /\ InWasm(t)
    /\ tlMeta' = [tlMeta EXCEPT ![t] = FALSE]
    /\ Pop(t) /\ NotFresh /\ KeepKey(t)
    /\ UNCHANGED <<tables, opVars, callVars, tlKey>>

WasmLeave(t) ==
    /\ InWasm(t)
    /\ tlMeta' = [tlMeta EXCEPT ![t] = Last(stack[t])[2]]
    /\ Pop(t) /\ NotFresh /\ KeepKey(t)
    /\ UNCHANGED <<tables, opVars, callVars, tlKey>>

\* impl_get_executed_callback_sandbox_and_key; None: abort.
Recovered(t) ==
    IF tlKey[t] # None THEN tlKey[t] ELSE IF tlMeta[t] THEN wKey[t] ELSE None

-----------------------------------------------------------------------------
Register(t) == RegMap(t) \/ RegSlot(t) \/ RegWasm(t) \/ RegPublish(t)
Unregister(t) == UnregPublish(t) \/ UnregMap(t) \/ UnregSlot(t) \/ UnregWasm(t)
ProcessCall(t) == Call(t) \/ CallEnds(t) \/ ChildDies(t)
Child == ChildFires \/ ChildResumes \/ ChildGivesUp
CbLoop == CbLookup \/ CbHandled \/ CbReply
Wasm(t) == WasmEnter(t) \/ WasmFires(t) \/ WasmReturns(t) \/ WasmLeave(t)

Next ==
    \/ \E t \in Threads : Register(t) \/ Unregister(t) \/ ProcessCall(t)
    \/ Child \/ CbLoop
    \/ \E t \in Stacks : Wasm(t)

Spec == Init /\ [][Next]_vars

-----------------------------------------------------------------------------
Frames == ({"pcb", "wcb"} \X Keys) \cup ({"wasm"} \X BOOLEAN)

\* Every variable keeps to its set.
TypeOK ==
    /\ st \in [Keys -> {"none", "busy", "registered"}]
    /\ handle \in [Keys -> Slots \cup {None}]
    /\ map \subseteq Keys
    /\ slots \in [Slots -> Keys \cup {None}] /\ wslots \in [WSlots -> Keys \cup {None}]
    /\ registry \in [Slots -> (WSlots \X Keys) \cup {None}]
    /\ aborted \in BOOLEAN
    /\ op \in [Threads -> {"idle", "regSlot", "regWasm", "regPublish", "unregMap",
                           "unregSlot", "unregWasm", "call"}]
    /\ opKey \in [Threads -> Keys \cup {None}] /\ opWasm \in [Threads -> WSlots \cup {None}]
    /\ mutex \in Threads \cup {None}
    /\ child \in {"none", "run", "wait"} /\ fired \in Keys \cup {None}
    /\ sent \in Seq(Keys) /\ replies \in Nat /\ orphans \in 0 .. MaxOrphans
    /\ cb \in {"idle", "handler", "reply"}
    /\ stack \in [Stacks -> Seq(Frames)] /\ \A t \in Stacks : Len(stack[t]) <= MaxDepth
    /\ fresh \in [Stacks -> BOOLEAN] /\ tlMeta \in [Stacks -> BOOLEAN]
    /\ tlKey \in [Stacks -> Keys \cup {None}] /\ wKey \in [Stacks -> Keys \cup {None}]

\* A callback whose handle the application has is in all four tables, and
\* they agree: the trampoline sends its key, the key has its dispatcher, and
\* the handle is rewritten to the wasm index of the same callback.  One that
\* is unregistered is in none of them.  (And the types are right.)
TablesAgree ==
    /\ TypeOK
    /\ \A k \in Keys : st[k] = "registered" /\ handle[k] # None =>
         /\ k \in map /\ slots[handle[k]] = k
         /\ registry[handle[k]] # None
         /\ registry[handle[k]][2] = k /\ wslots[registry[handle[k]][1]] = k
    /\ \A k \in Keys : st[k] = "none" =>
         /\ k \notin map /\ ~Has(slots, k) /\ ~Has(wslots, k)
         /\ \A i \in Slots : registry[i] # None => registry[i][2] # k

\* Once unregister has returned no handler of the callback runs on the
\* callback thread, though the loop dropped callback_mutex before it called
\* the dispatcher: unregister waits for the call that fired it.  That holds as
\* long as every child that fired waited for its handler; when one died or
\* gave up, its handler may still run, and replies are taken by others.
NoHandlerAfterUnregister ==
    orphans = 0 =>
        \A k \in Keys : <<"pcb", k>> \in Range(stack[Cb]) => st[k] # "none"

\* A callback that asks who it is on entry is told its own key, whatever
\* calls are under way on its thread and on others.  The exception is a wasm
\* callback inside a process handler: the process backend is asked first.
ContextIsFirer ==
    \A t \in Stacks : fresh[t] =>
        \/ t = Cb /\ Top(t) = "wcb"
        \/ Recovered(t) = Last(stack[t])[2]

=============================================================================
