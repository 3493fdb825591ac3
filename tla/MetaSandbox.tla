---------------------------- MODULE MetaSandbox ----------------------------
(***************************************************************************)
(* The meta sandbox (include/rlbox_meta_sandbox.hpp): one heap made of the *)
(* process backend's and the wasm backend's, the registry that says which  *)
(* of them owns a pointer, the scratch blocks of registered structs, and   *)
(* the choice of the backend that runs a call.  Threads work at once; each *)
(* step of an operation is one critical section or one backend call.       *)
(*                                                                         *)
(* A T_PointerType is <<tag, bits>>; what it points to, the address the    *)
(* application sees, is <<backend, bits>>.  ProcBits and WasmBits do not   *)
(* meet: wasm offsets are below the size of linear memory and process      *)
(* addresses above it.                                                     *)
(*                                                                         *)
(* Abstractions.  The policy is any that keeps to the bindings a symbol    *)
(* has; AdaptivePolicy models the one the code comes with.  A library      *)
(* function returns nothing, a new object, an argument, or destroys an     *)
(* object it made.  Latency samples and counters are left out.             *)
(***************************************************************************)
EXTENDS Naturals, FiniteSets

CONSTANTS
    Threads,
    ProcBits, WasmBits,   \* addresses and offsets (bound the heaps)
    Symbols,              \* library functions
    Bound,                \* those that have a wasm binding
    Structs,              \* struct types of one host size
    MaxArgs,              \* pointer arguments of a call (bound)
    Interior,             \* do arguments point into objects, too?
    None

Backends == {"process", "wasm"}
Bits == ProcBits \cup WasmBits
Pointers == {0, 1} \X Bits
Objects == ({"process"} \X ProcBits) \cup ({"wasm"} \X WasmBits)

ASSUME MetaAssumption ==
    /\ ProcBits \cap WasmBits = {}
    /\ None \notin Bits \cup Backends \cup [on : Backends, uses : SUBSET Objects]
    /\ Bound \subseteq Symbols
    /\ MaxArgs \in Nat /\ Interior \in BOOLEAN

\* A pointer argument: what it points to, as which pointer, base or inside.
Args == [obj : Objects, ptr : Pointers, inside : BOOLEAN]

VARIABLES
    mem,       \* mem[b]: live blocks of backend b
    owner,     \* alloc_owner
    scratchOf, \* struct_allocs
    types,     \* struct_types
    held,      \* allocations the application holds
    made,      \* objects that library calls returned
    aborted,   \* why the program aborted
    pc,        \* pc[t]: where t is
    ptr,       \* ptr[t]: the pointer t allocates, frees or got
    asked,     \* asked[t]: does the size match the registered structs?
    choice,    \* choice[t]: the backend
    scratch,   \* scratch[t]: a scratch block in t's hands
    sym,       \* sym[t]: the function t calls
    args,      \* args[t]: its pointer arguments
    todo,      \* todo[t]: those still to be inspected
    saw,       \* saw[t]: the owners found
    passed     \* passed[t]: the pointers handed to the backend

heapVars == <<mem, owner, scratchOf>>
appVars == <<types, held, made, aborted>>
callVars == <<sym, args, todo, saw, passed>>
vars == <<heapVars, appVars, pc, ptr, asked, choice, scratch, callVars>>

-----------------------------------------------------------------------------
(* Pointers.                                                               *)

TagOwner(p) == IF p[1] = 1 THEN "wasm" ELSE "process"
TagStrip(p) == <<0, p[2]>>
TagWasm(p) == <<1, p[2]>>

Unsandboxed(p) ==
    IF p[1] = 1 \/ p[2] \in WasmBits THEN <<"wasm", p[2]>> ELSE <<"process", p[2]>>

Sandboxed(o) == <<0, o[2]>>

\* The pointers under which an object reaches the meta sandbox: as rlbox
\* passes it on, or, if it is wasm's, with the tag still on.
Forms(o) == {Sandboxed(o)} \cup (IF o[1] = "wasm" THEN {TagWasm(Sandboxed(o))} ELSE {})

\* The pointer that malloc returned for an object.
KeyOf(o) == IF o[1] = "wasm" THEN <<1, o[2]>> ELSE <<0, o[2]>>

\* Mutant: untagged pointers are looked up as they are.
Entry_Plain(p) == p

\* The entry that stands for p: its own, or that of its tagged form.
Entry(p) ==
    IF owner[p] # None \/ p[1] = 1 THEN p
    ELSE IF owner[TagWasm(p)] # None THEN TagWasm(p) ELSE p

\* owner_of; None: not found.
OwnerOf(p) == owner[Entry(p)]

Init ==
    /\ mem = [b \in Backends |-> {}]
    /\ owner = [p \in Pointers |-> None]
    /\ scratchOf = [p \in Pointers |-> None]
    /\ types = {} /\ held = {} /\ made = {} /\ aborted = None
    /\ pc = [t \in Threads |-> "idle"]
    /\ ptr = [t \in Threads |-> None] /\ asked = [t \in Threads |-> FALSE]
    /\ choice = [t \in Threads |-> "process"] /\ scratch = [t \in Threads |-> None]
    /\ sym = [t \in Threads |-> None] /\ args = [t \in Threads |-> {}]
    /\ todo = [t \in Threads |-> {}] /\ saw = [t \in Threads |-> {}]
    /\ passed = [t \in Threads |-> {}]

Free(b) == (IF b = "wasm" THEN WasmBits ELSE ProcBits) \ mem[b]
Alive == aborted = None
At(t, label) == Alive /\ pc[t] = label
Go(t, label) == pc' = [pc EXCEPT ![t] = label]

\* The locals of an operation end with it.
Forget(t) ==
    /\ choice' = [choice EXCEPT ![t] = "process"]
    /\ asked' = [asked EXCEPT ![t] = FALSE]

-----------------------------------------------------------------------------
(* impl_malloc_in_sandbox.                                                 *)

\* The application gets the address.
MallocDone(t) ==
    /\ held' = held \cup {Unsandboxed(ptr[t])}
    /\ ptr' = [ptr EXCEPT ![t] = None]
    /\ Forget(t)
    /\ Go(t, "idle")

\* Ask the policy, allocate there; an allocation that fails changes nothing.
MallocBackend(t) ==
    /\ At(t, "idle")
    /\ \E b \in Backends : \E x \in Free(b) :
         /\ mem' = [mem EXCEPT ![b] = @ \cup {x}]
         /\ choice' = [choice EXCEPT ![t] = b]
         /\ ptr' = [ptr EXCEPT ![t] = KeyOf(<<b, x>>)]
    /\ \E a \in BOOLEAN : asked' = [asked EXCEPT ![t] = a]
    /\ Go(t, "mallocOwner")
    /\ UNCHANGED <<owner, scratchOf, appVars, scratch, callVars>>

MallocOwner(t) ==
    /\ At(t, "mallocOwner")
    /\ owner' = [owner EXCEPT ![ptr[t]] = choice[t]]
    /\ Go(t, "mallocMatch")
    /\ UNCHANGED <<mem, scratchOf, appVars, ptr, asked, choice, scratch, callVars>>

\* Two registered structs of this size cannot be told apart: abort.
MallocMatch(t) ==
    /\ At(t, "mallocMatch")
    /\ \/ /\ asked[t] => types = {}
          /\ MallocDone(t) /\ UNCHANGED aborted
       \/ /\ asked[t] /\ Cardinality(types) = 1
          /\ Go(t, "mallocScratch")
          /\ UNCHANGED <<held, ptr, asked, choice, aborted>>
       \/ /\ asked[t] /\ Cardinality(types) > 1
          /\ aborted' = "structs" /\ UNCHANGED <<held, ptr, asked, choice, pc>>
    /\ UNCHANGED <<heapVars, types, made, scratch, callVars>>

MallocScratch(t) ==
    /\ At(t, "mallocScratch")
    /\ \/ /\ \E x \in Free("wasm") :
               /\ mem' = [mem EXCEPT !["wasm"] = @ \cup {x}]
               /\ scratch' = [scratch EXCEPT ![t] = x]
          /\ Go(t, "mallocPublish") /\ UNCHANGED <<held, ptr, asked, choice>>
       \/ MallocDone(t) /\ UNCHANGED <<mem, scratch>>
    /\ UNCHANGED <<owner, scratchOf, types, made, aborted, callVars>>

MallocPublish(t) ==
    /\ At(t, "mallocPublish")
    /\ scratchOf' = [scratchOf EXCEPT ![ptr[t]] = scratch[t]]
    /\ scratch' = [scratch EXCEPT ![t] = None]
    /\ MallocDone(t)
    /\ UNCHANGED <<mem, owner, types, made, aborted, callVars>>

RegisterStruct ==
    /\ Alive
    /\ \E s \in Structs \ types : types' = types \cup {s}
    /\ UNCHANGED <<heapVars, held, made, aborted, pc, ptr, asked, choice, scratch, callVars>>

-----------------------------------------------------------------------------
(* impl_free_in_sandbox.  The application frees what it holds, or what a   *)
(* library function gave it, once, and not under a call that uses it.      *)

InUse(o, others) == \E t \in others : \E a \in args[t] : a.obj = o

FreeOwner(t) ==
    /\ At(t, "idle")
    /\ \E o \in held \cup made : \E p \in Forms(o) :
         /\ ~InUse(o, Threads)
         /\ held' = held \ {o} /\ made' = made \ {o}
         /\ ptr' = [ptr EXCEPT ![t] = Entry(p)]
         /\ owner' = [owner EXCEPT ![Entry(p)] = None]
         /\ choice' = [choice EXCEPT ![t] =
                         IF OwnerOf(p) = None THEN TagOwner(p) ELSE OwnerOf(p)]
    /\ Go(t, "freeStruct")
    /\ UNCHANGED <<mem, scratchOf, types, aborted, asked, scratch, callVars>>

\* Mutant: the entry stays.
FreeStruct_Keep(t) ==
    /\ At(t, "freeStruct")
    /\ scratch' = [scratch EXCEPT ![t] = scratchOf[ptr[t]]]
    /\ Go(t, IF scratchOf[ptr[t]] = None THEN "freeBackend" ELSE "freeScratch")
    /\ UNCHANGED <<heapVars, appVars, ptr, asked, choice, callVars>>

\* Mutant: the untagged pointer is looked up.
FreeStruct_Untagged(t) ==
    /\ At(t, "freeStruct")
    /\ scratch' = [scratch EXCEPT ![t] = scratchOf[TagStrip(ptr[t])]]
    /\ scratchOf' = [scratchOf EXCEPT ![TagStrip(ptr[t])] = None]
    /\ Go(t, IF scratchOf[TagStrip(ptr[t])] = None THEN "freeBackend" ELSE "freeScratch")
    /\ UNCHANGED <<mem, owner, appVars, ptr, asked, choice, callVars>>

FreeStruct(t) ==
    /\ At(t, "freeStruct")
    /\ scratch' = [scratch EXCEPT ![t] = scratchOf[ptr[t]]]
    /\ scratchOf' = [scratchOf EXCEPT ![ptr[t]] = None]
    /\ Go(t, IF scratchOf[ptr[t]] = None THEN "freeBackend" ELSE "freeScratch")
    /\ UNCHANGED <<mem, owner, appVars, ptr, asked, choice, callVars>>

FreeScratch(t) ==
    /\ At(t, "freeScratch")
    /\ mem' = [mem EXCEPT !["wasm"] = @ \ {scratch[t]}]
    /\ scratch' = [scratch EXCEPT ![t] = None]
    /\ Go(t, "freeBackend")
    /\ UNCHANGED <<owner, scratchOf, appVars, ptr, asked, choice, callVars>>

FreeBackend(t) ==
    /\ At(t, "freeBackend")
    /\ mem' = [mem EXCEPT ![choice[t]] = @ \ {TagStrip(ptr[t])[2]}]
    /\ ptr' = [ptr EXCEPT ![t] = None]
    /\ Forget(t) /\ Go(t, "idle")
    /\ UNCHANGED <<owner, scratchOf, appVars, scratch, callVars>>

-----------------------------------------------------------------------------
(* impl_invoke_with_func_ptr.                                              *)

LegalArgs ==
    {a \in Args : /\ a.obj \in held \cup made /\ a.ptr \in Forms(a.obj)
                  /\ a.inside => Interior}

\* Start a call and ask the policy, which knows whether wasm has the symbol.
InvokePick(t) ==
    /\ At(t, "idle")
    /\ \E s \in Symbols : \E A \in SUBSET LegalArgs :
         /\ Cardinality(A) <= MaxArgs
         /\ sym' = [sym EXCEPT ![t] = s]
         /\ args' = [args EXCEPT ![t] = A] /\ todo' = [todo EXCEPT ![t] = A]
         /\ \E b \in {"process"} \cup (IF s \in Bound THEN {"wasm"} ELSE {}) :
              choice' = [choice EXCEPT ![t] = b]
    /\ saw' = [saw EXCEPT ![t] = {}]
    /\ Go(t, "inspect")
    /\ UNCHANGED <<heapVars, appVars, ptr, asked, scratch, passed>>

\* The registry knows base pointers only.
InvokeInspect(t) ==
    /\ At(t, "inspect")
    /\ \E a \in todo[t] :
         /\ todo' = [todo EXCEPT ![t] = @ \ {a}]
         /\ saw' = [saw EXCEPT ![t] =
                      @ \cup (IF a.inside THEN {} ELSE {OwnerOf(a.ptr)} \ {None})]
    /\ UNCHANGED <<heapVars, appVars, pc, ptr, asked, choice, scratch, sym, args, passed>>

\* Mutant: the policy's pick wins.
InvokeDispatch_Policy(t) ==
    /\ At(t, "inspect") /\ todo[t] = {} /\ saw[t] # Backends
    /\ Go(t, "translate")
    /\ UNCHANGED <<heapVars, appVars, ptr, asked, choice, scratch, callVars>>

\* The owner of the pointers overrides the policy.
InvokeDispatch(t) ==
    /\ At(t, "inspect") /\ todo[t] = {}
    /\ LET b == IF saw[t] = {} THEN choice[t] ELSE CHOOSE x \in saw[t] : TRUE
       IN  \/ /\ saw[t] = Backends
              /\ aborted' = "mixed" /\ UNCHANGED <<choice, pc>>
           \/ /\ saw[t] # Backends /\ b = "wasm" /\ sym[t] \notin Bound
              /\ aborted' = "unbound" /\ UNCHANGED <<choice, pc>>
           \/ /\ saw[t] # Backends /\ (b = "process" \/ sym[t] \in Bound)
              /\ choice' = [choice EXCEPT ![t] = b] /\ Go(t, "translate")
              /\ UNCHANGED aborted
    /\ UNCHANGED <<heapVars, types, held, made, ptr, asked, scratch, callVars>>

\* What wasm gets for an argument: the scratch block of a registered struct,
\* or the bare offset.
ForWasm(a) ==
    IF ~a.inside /\ scratchOf[a.ptr] # None THEN <<1, scratchOf[a.ptr]>> ELSE TagStrip(a.ptr)

InvokeTranslate(t) ==
    /\ At(t, "translate")
    /\ passed' = [passed EXCEPT ![t] =
                    {<<a, IF choice[t] = "wasm" THEN ForWasm(a) ELSE a.ptr>> : a \in args[t]}]
    /\ Go(t, "run")
    /\ UNCHANGED <<heapVars, appVars, ptr, asked, choice, scratch, sym, args, todo, saw>>

\* The call is over.
InvokeDone(t) ==
    /\ sym' = [sym EXCEPT ![t] = None] /\ args' = [args EXCEPT ![t] = {}]
    /\ saw' = [saw EXCEPT ![t] = {}] /\ passed' = [passed EXCEPT ![t] = {}]
    /\ Forget(t) /\ Go(t, "idle")

RunPlain(t) ==
    /\ At(t, "run")
    /\ InvokeDone(t)
    /\ UNCHANGED <<heapVars, appVars, ptr, scratch, todo>>

RunDestroys(t) ==
    /\ At(t, "run")
    /\ \E o \in made :
         /\ InUse(o, {t}) /\ ~InUse(o, Threads \ {t}) /\ o[1] = choice[t]
         /\ made' = made \ {o}
         /\ mem' = [mem EXCEPT ![o[1]] = @ \ {o[2]}]
    /\ InvokeDone(t)
    /\ UNCHANGED <<owner, scratchOf, types, held, aborted, ptr, scratch, todo>>

RunMakes(t) ==
    /\ At(t, "run")
    /\ \E x \in Free(choice[t]) :
         /\ mem' = [mem EXCEPT ![choice[t]] = @ \cup {x}]
         /\ ptr' = [ptr EXCEPT ![t] = KeyOf(<<choice[t], x>>)]
    /\ Go(t, "record")
    /\ UNCHANGED <<owner, scratchOf, appVars, asked, choice, scratch, callVars>>

RunReturnsArg(t) ==
    /\ At(t, "run")
    /\ \E a \in args[t] :
         /\ ~a.inside /\ a.obj[1] = choice[t]
         /\ ptr' = [ptr EXCEPT ![t] = KeyOf(a.obj)]
    /\ Go(t, "record")
    /\ UNCHANGED <<heapVars, appVars, asked, choice, scratch, callVars>>

\* Mutant: a returned pointer is not entered.
InvokeRecord_Not(t) ==
    /\ At(t, "record")
    /\ made' = made \cup ({Unsandboxed(ptr[t])} \ held)
    /\ ptr' = [ptr EXCEPT ![t] = None]
    /\ InvokeDone(t)
    /\ UNCHANGED <<heapVars, types, held, aborted, scratch, todo>>

\* emplace: an entry that is there stays.
InvokeRecord(t) ==
    /\ At(t, "record")
    /\ owner' = [owner EXCEPT ![ptr[t]] = IF @ = None THEN choice[t] ELSE @]
    /\ made' = made \cup ({Unsandboxed(ptr[t])} \ held)
    /\ ptr' = [ptr EXCEPT ![t] = None]
    /\ InvokeDone(t)
    /\ UNCHANGED <<mem, scratchOf, types, held, aborted, scratch, todo>>

-----------------------------------------------------------------------------
Malloc(t) == MallocBackend(t) \/ MallocOwner(t) \/ MallocMatch(t)
             \/ MallocScratch(t) \/ MallocPublish(t)
FreeStep(t) == FreeOwner(t) \/ FreeStruct(t) \/ FreeScratch(t) \/ FreeBackend(t)
Invoke(t) == InvokePick(t) \/ InvokeInspect(t) \/ InvokeDispatch(t) \/ InvokeTranslate(t)
             \/ RunPlain(t) \/ RunDestroys(t) \/ RunMakes(t) \/ RunReturnsArg(t)
             \/ InvokeRecord(t)

Next == RegisterStruct \/ \E t \in Threads : Malloc(t) \/ FreeStep(t) \/ Invoke(t)

Spec == Init /\ [][Next]_vars

-----------------------------------------------------------------------------
\* Every variable keeps to its set.
TypeOK ==
    /\ mem \in [Backends -> SUBSET Bits]
    /\ mem["process"] \subseteq ProcBits /\ mem["wasm"] \subseteq WasmBits
    /\ owner \in [Pointers -> Backends \cup {None}]
    /\ scratchOf \in [Pointers -> WasmBits \cup {None}]
    /\ types \subseteq Structs
    /\ held \subseteq Objects /\ made \subseteq Objects
    /\ aborted \in {None, "mixed", "unbound", "structs"}
    /\ pc \in [Threads -> {"idle", "mallocOwner", "mallocMatch", "mallocScratch",
                           "mallocPublish", "freeStruct", "freeScratch", "freeBackend",
                           "inspect", "translate", "run", "record"}]
    /\ ptr \in [Threads -> Pointers \cup {None}]
    /\ asked \in [Threads -> BOOLEAN]
    /\ choice \in [Threads -> Backends]
    /\ scratch \in [Threads -> WasmBits \cup {None}]
    /\ sym \in [Threads -> Symbols \cup {None}]
    /\ args \in [Threads -> SUBSET Args] /\ todo \in [Threads -> SUBSET Args]
    /\ saw \in [Threads -> SUBSET Backends]
    /\ passed \in [Threads -> SUBSET (Args \X Pointers)]

\* For whatever the application holds the registry knows the backend, under
\* every pointer it may come back as, although entries of objects that a
\* library function destroyed stay behind and heaps reuse addresses.  (And
\* the types are right.)
OwnerKnown == TypeOK /\ \A o \in held \cup made : \A p \in Forms(o) : OwnerOf(p) = o[1]

\* A call runs on the backend that owns every object it is given, and wasm
\* gets for an object its offset or the scratch block of that very struct.
RunsOnOwner ==
    \A t \in Threads :
        /\ pc[t] \in {"translate", "run"} => \A a \in args[t] : a.obj[1] = choice[t]
        /\ pc[t] = "run" /\ choice[t] = "wasm" =>
             \A q \in passed[t] : q[2][2] \in {q[1].obj[2], scratchOf[KeyOf(q[1].obj)]}

(* Who answers for a block of memory: the application, an operation under  *)
(* way, the table of struct scratch blocks, or the thread that moves one.  *)
InFlight(t) ==
    \/ pc[t] \in {"mallocOwner", "mallocMatch", "mallocScratch", "mallocPublish",
                  "freeStruct", "freeScratch", "freeBackend"}
    \/ pc[t] = "record" /\ Unsandboxed(ptr[t]) \notin held \cup made

Claims ==
    {<<"app", o, o>> : o \in held \cup made}
    \cup {<<"op", t, Unsandboxed(ptr[t])>> : t \in {u \in Threads : InFlight(u)}}
    \cup {<<"struct", p, <<"wasm", scratchOf[p]>>>> : p \in {q \in Pointers : scratchOf[q] # None}}
    \cup {<<"hand", t, <<"wasm", scratch[t]>>>> : t \in {u \in Threads : scratch[u] # None}}

Live == ({"process"} \X mem["process"]) \cup ({"wasm"} \X mem["wasm"])

\* Each live block has exactly one that answers for it, and nobody answers
\* for a dead one: nothing leaks, nothing is freed twice or shared, and the
\* scratch block of a struct goes with the allocation it belongs to.
BlocksOwned ==
    /\ \A c, d \in Claims : c[3] = d[3] => c = d
    /\ {c[3] : c \in Claims} = Live

\* A struct has a scratch block only while its allocation lives: the next
\* allocation at that address starts without.
ScratchHasStruct ==
    \A p \in Pointers : scratchOf[p] # None =>
        \/ Unsandboxed(p) \in held \cup made
        \/ \E t \in Threads : pc[t] = "freeStruct" /\ ptr[t] = p

-----------------------------------------------------------------------------
(* The meta sandbox is one heap: see UnifiedHeap.                          *)

Heap == INSTANCE UnifiedHeap WITH
    Clients <- Threads,
    live <- held \cup made,
    call <- [t \in Threads |->
               IF pc[t] \in {"translate", "run", "record"}
                 THEN [on |-> choice[t], uses |-> {a.obj : a \in args[t]}]
                 ELSE None]

\* Objects live on one backend from birth to death and each call runs where
\* all its objects are.
HeapSpec == Heap!Spec
=============================================================================
