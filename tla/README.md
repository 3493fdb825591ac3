# A TLA+ model of rlbox_dynamic_sandbox

These modules model the process backend of RLBox (host class, Cap'n Proto
channel, shim with its worker pool), the meta sandbox that joins it with the
wasm2c backend, its dispatch policy, callbacks, the life of a sandbox, the heap
that host and sandbox share, and what a value becomes on its way across.
They are checked with TLC; every safety property that a passing run checks is
also proved with TLAPS for every value of the constants. Paths below are relative to the repository.

## 1. The system

| Component | Where | State | Operations |
| --- | --- | --- | --- |
| Worker pool, call execution | `src/rlbox_process_sandbox_shim.cpp` 395-697 | `g_pool`, refill thread, per worker two pipes, child processes | `try_acquire_worker`, `dispatch_to_worker`, inline fork, `refill_loop`, `spawn_worker`, `worker_main` |
| Transport, callback loop | `include/rlbox_process_sandbox.hpp` 76-222, 447-494, shim 139-165, 779-885 | two sockets, `request_mutex`, `callback_thread(_stop)` | `capnp_call`, request loop, `fire_callback`, callback loop, destroy |
| Callbacks | the same and `include/rlbox_meta_sandbox.hpp` 1034-1103 | `callback_map`, `g_callback_keys`, wasm table, `callback_registry`, thread locals | register, unregister, trampolines, `rewrite_for_wasm`, who-am-I |
| Meta sandbox heap | meta 384-419, 553-762, 793-990 | `alloc_owner`, `struct_types`, `struct_allocs`, two heaps | malloc, free, invoke with ownership override, struct registration |
| Policy | meta 110-157, 224-267, 600-630, 765-791 | `current_best`, counter, latency rings, pin state | decide, push a sample, pin |
| Lifecycle | host 284-494, meta 355-382 | mapping, `global_registry`, `process_to_meta_map`, descriptors, child | create, destroy |
| Shim allocator | shim 50-135, 214-299, 617-640 | bootstrap buffer, shared mspace and its lock | malloc, free, calloc, realloc, allocate, release |
| Wire ABI, ffi | `include/rlbox_process_abi.hpp`, host 577-735, shim 170-200, 304-390, meta 640-740 | none | tag, pack, call, unpack, narrow, translate for wasm |
| Struct translators | meta 1107-1184 | scratch copies | copy in, copy back |
| rpclib transport, seccomp table, pointer predicates, tests | various | | |

**How they interact.** An application thread calls the meta sandbox. It asks
the policy, looks up who owns the pointer arguments, and calls either wasm (on
the same thread) or the process backend. That one takes `request_mutex`,
writes a request and reads the response. The shim's one request thread
executes a call by handing it to a pre-forked worker or by forking; the child
shares the heap with the host and the callback socket with all other children.
A callback travels the other way, to a thread of its own in the host.

**What is hard here.**

* Two threads of the shim fork, and every fork copies every open descriptor.
  Whether a reader ever sees end of file depends on how they interleave; the
  same is true of a host with several sandboxes.
* Workers die idle, in the filter, in a call, after the result.
* Responses do not say whose they are; the mutex and the order must do.
* Callbacks run while their caller holds the mutex; create and destroy cut
  across everything.
* Two heaps reuse addresses at once while their registry is updated in
  separate critical sections; library functions make and destroy objects that
  nobody reports.
* Policy and registries keep what they learned from an earlier situation.
* One heap, with its lock inside it, serves the shim's threads, the host and
  every forked child, and children die anywhere. When it is full, the shim
  itself has no memory to answer with.
* The code is built for 32 bits (`CMakeLists.txt`) and for 64; the sandbox's
  widths, the host's, libffi's and wasm's are four different sets.

**What makes each part correct.** Pool: a call runs at most once, its answer
is its own or 0, no child, descriptor or call is lost, every call is answered.
Channel: responses and callback replies reach who asked; handlers run inside
their call; destroy ends and leaves quiet. Callbacks: four tables agree, an
unregistered callback does not run, a running one knows its key. Meta: each
block has one owner and calls run where their objects are. Policy: medians are
of recent samples and the faster backend wins in the end. Lifecycle: what is
up is registered, what is down is gone, processes notice that the host left.
Allocator: blocks do not overlap, what the host holds stays its own, no failed
request leaves a block behind, requests are answered. Wire: a value arrives as
it was sent, at every width.

## 2. The modules

| Module | Models | Of |
| --- | --- | --- |
| `CallService` | abstract: one request at a time, entered at most once, answered once | |
| `WorkerPool` | the pool, descriptor by descriptor | implements `CallService` |
| `WorkerPoolProofs` | theorems about it | |
| `HostChannel` | threads, sockets, request and callback loop, destroy | |
| `HostChannelProofs` | theorems about it | |
| `Callbacks` | tables, nested calls, thread locals | |
| `CallbacksProofs` | theorems about it | |
| `UnifiedHeap` | abstract: objects live on one backend, calls run there | |
| `MetaSandbox` | malloc, free, invoke by critical section | implements `UnifiedHeap` |
| `MetaSandboxProofs` | theorems about it | |
| `LatencyRing` | ring and median | used by `AdaptivePolicy` |
| `AdaptivePolicy` | decisions, samples, pins | |
| `AdaptivePolicyProofs` | theorems about it | |
| `Lifecycle` | creation and destruction of several sandboxes | |
| `LifecycleProofs` | theorems about it | |
| `ShimHeap` | the shared heap, its users and its lock | |
| `ShimHeapProofs` | theorems about it | |
| `WireAbi` | a value on its way to a function, a handler, wasm, a struct | |
| `WireAbiProofs` | theorems about it | |
| `MC*` | symmetry sets and constant functions for TLC | |

Actions have the names of the steps of the functions they model;
`PROJECT.json` maps each definition to its lines. Definitions called
`X_Something` with the comment "Mutant" are wrong variants of the definition
`X` after them: put in its place, they make the property fail that they are
listed with, which shows that the run can see such an error. Where a module
does not check its `TypeOK` alone, the invariant that its comment names has it
as first conjunct.

### WorkerPool and CallService

`srv` is where the request loop is (in `handle_invoke`, `dispatch_to_worker` or
the inline path), `rpc` where the refill thread is, `kst[k]` the state of child
`k`. `fds[p]` is the set of pipe ends that process `p` holds; a fork copies the
shim's. End of file is then a state predicate. Each system call that can fail
has a failing action. Children may die wherever `CrashAt` says. `KillShim` is
the SIGTERM of destroy.

### HostChannel

`pc[t]` follows a caller through lock, write, read. Messages carry the call they
were made for, which the code does not look at: a mix-up is then visible. The
shim, the child of the call in execution, the callback thread and the main thread
that creates and destroys are processes of their own. `cache` is the holder of
the meta sandbox's `symbol_cache_mutex`, which a lookup keeps across its request
and which whoever asks the policy needs: a handler that calls wasm only
(`CbAsksPolicy`) needs it too. `orphan` is history: a child has died with a
callback under way.

An invoke looks at `request_fd` before it takes the mutex (`Check`, host 597):
once destroy has closed it, `dynamic_check` ends the program (`Abort`, `main` is
`"aborted"`). `dynamic_check` belongs to rlbox and is external; a build with
`RLBOX_USE_EXCEPTIONS` throws instead, which an application thread may catch, but
the callback loop catches `kj::Exception` only, so that there too a handler ends
the program. A call whose socket is closed under it returns 0 from the handlers
of `kj::Exception` and `std::exception`; `catch (...)` at host 175-178 falls off
the end of the function, so that the result is anything (`Garbage`), or the
program ends, as it does when the write raises SIGPIPE.

### Callbacks

The handle of a callback is its slot. `stack[t]` are the sandbox frames on a
thread: wasm calls, wasm callbacks, and on the callback thread a process
handler. `fresh[t]` is true in the state after a callback was entered, when
rlbox asks who it is; `Recovered` is the answer. The library is not trusted: the
process side fires any trampoline, the wasm side any index, given to it or not.

`sent` and `replies` are the callback socket, on which nothing says whose a reply
is. A child that waits for its handler may resume, give up (its read of the reply
fails, shim 158-163, and the callback returns 0 to the library) or die (shim
546-557 and 689-696: the call is answered 0 and `request_mutex` is free). In the
last two cases nobody waits for the handler any more: `orphans` counts them. `wKey`,
the key that wasm called last, is reset when the outermost wasm call of a thread
ends, since nobody asks for it then.

### MetaSandbox and UnifiedHeap

A pointer is `<<tag, bits>>`, an object `<<backend, bits>>`. One action per
critical section or backend call. Heaps reuse addresses the moment they are
free. The policy of this module is arbitrary (within the bindings), so what
holds here holds under any policy. The application frees once, what it holds,
and not what a call in execution uses, which is what rlbox's types leave to it.

### AdaptivePolicy and LatencyRing

A call asks and decides in one step (there is one calling thread), runs, and
pushes its latency. `recent` is history: the last N latencies in order. The
counter is kept modulo the period. Pinning is modelled as far as the code goes:
`pinned` is set but the invoke path never reads it, against the comments at
meta 259-262 and 319-321.

### Lifecycle

`holds[p]` are the descriptors of a process, by sandbox, creation and end; a
fork copies the host's. Failing branches close what the code closes there.
`workers[<<s, g>>]` are the copies that the children of a shim have, idle workers
and calls alike, by the life of the sandbox that forked them (`Spawn`). Destroy
signals and waits for the shim only (host 485-494): its children stay, here for as
long as they like (`WorkersEnd`), since when they end is shown in `WorkerPool`
(`NoOrphans`). End of file needs them gone too, unless the socket was shut down.

### ShimHeap

`blocks` are the blocks in use with their places, the lengths their owners
believe in, and the owners. `op[u]` is what a thread or the child is doing in
the allocator: it wants something, is inside with the lock, or is done and has
the address. Which free place dlmalloc chooses is open. The request loop has one
label per allocation it makes in a turn: the message of the answer first, then
the request, then what the request asks for: a block for the host, or for a call
the two vectors of its arguments (`ReserveTags`, `ReserveVals`, shim 826-835),
which are freed before the answer is written (`FreeVectors`); a call without
arguments allocates neither. An allocation that fails throws in the loop (which
ends, after freeing its messages and vectors; the exception object itself comes from the
C++ runtime's emergency pool and is left out), terminates the process in the
refill thread (which catches nothing), and is visible to library code.
`calloc(k, 0)` gives a smallest block on the mapped heap, where it goes to
`mspace_calloc`, and NULL on the bootstrap buffer. A call is
a child that allocates, frees, reallocates, returns or dies: what it had and did
not return belongs to `nobody` from then on, and if it was inside, the lock is
`dead`. Without a region (`mapped` is FALSE) everything goes to the bootstrap
buffer, where the sum of offset and size is taken modulo `W`.

### WireAbi

`given` are the arguments or fields, a type and the bits of a value each. A
call packs them in slots, libffi lays the slots out as machine words by their
tags, and the function reads the words by its own types: nothing but the
agreement of tags and types makes them meet. The same for trampolines, which
read four slots whatever the library passed; for results; for wasm, where
`Translated` has the code's test on the converted type and `WasmResult` tags a
pointer unless it is NULL (meta 720-728); and for structs, which
the host lays out with its own widths. `noise` is what the calling convention
leaves undefined in the upper bits of a register. `word` is the build.

A width is given by how many values it holds (`CHAR` is 256), so that casts are
remainders and the sign of a value is a comparison with half its width. `Place`
counts the words in front of an argument, and `Layout` is the rule by which
compilers lay out a struct, at the host's widths and at the library's. Where the
library looks in the middle of a host's field, or between two, it may read
anything (`stray`); the properties claim nothing there.

## 3. The runs

| Run | Shows | Bounds |
| --- | --- | --- |
| `pool_safety` | nine invariants and the implementation of `CallService` | 3 calls (one rejected), pool of 2, 4 children, all failures and deaths |
| `pool_liveness` | calls are answered, the pool is refilled, no orphans | 2 calls, pool of 1, deaths anywhere but inline |
| `pool_inline_crash` | *violated*: an inline child that dies can hang the shim | 1 call |
| `channel` | own responses and replies, handlers within calls, quiet after destroy, destroy ends, progress | 2 threads and the callback thread, 1 call each, 2 creations, aborts |
| `channel_child_dies` | *violated*: the next child takes a dead child's reply | 1 thread, 2 calls |
| `callbacks` | tables agree, gone means gone, context is the firer | 2 threads, 3 keys, 2 slots, 2 table entries, 3 frames, 1 child that stops waiting (`MaxOrphans`) |
| `meta` | owner known, calls on owners, every block owned, implements `UnifiedHeap` | 2 threads, 1 process address, 2 wasm offsets, 2 symbols, 2 structs, 2 pointers per call |
| `policy` | medians are of the recent samples, the faster backend wins in the end | 2 symbols, ring of 3, warmup 1, period 2 |
| `lifecycle` | registry, down is down, loops end | 2 sandboxes, 2 creations each, 2 bases, children of the shims that outlive them |
| `shim_heap` | blocks apart, the host's kept, nothing left behind, requests served | a region of 11 units, a bootstrap buffer of 6, size_t of 4 bits, one huge size, calls of 0 or 1 argument (`ArgCounts`), library sizes 0, 1, 9 (`LibSizes`) |
| `wire` | arguments, callback arguments, results and fields arrive | 3 arguments of 10 types, 3 values each; char 2, int 4, slot 8 bits (`CHAR = 4`, `INT = 16`, `SLOT = 256`); 2 slots; both builds |
| `wire_pointer_args` | *violated*: on 32 bits wasm gets an unsigned int without its top bit | 1 argument |

**Why the bounds are enough to be interesting.** Four children allow a full
pool, a worker in use and one being made, so that every pair of forks that can
overlap does. Two creations of the channel cover leftovers of the first. Three
keys on two slots reach a full slot table and a full wasm table (which aborts). Two
threads with one process address and two offsets make addresses change hands
between any two steps. A ring of three goes round and has odd and even sizes;
`TracksSteadyState` fails when the period is 0. Two bases run out after a failed
creation, and two sandboxes are enough for one to inherit from the other.
The region holds the keys, a message, a request and two units more, so that the
heap is full, and in pieces, within one call; `calloc` of two nines overflows
`W`. One argument needs two vectors, and with two units free the second may fail
after the first is there; sizes of 0 meet the difference between `malloc` and
`mspace_calloc`. The message does not fit in the bootstrap buffer, as the 8192 bytes of
Cap'n Proto's first segment do not fit in 4096. The build has `HAVE_MMAP=0`;
`HugeSizes` is there because `handle_allocate` (shim 617-619) guards against the
other. Three arguments put two of any width in front of the last, and one more
than a trampoline has slots; the widths keep the ratios that matter (an int is
two chars, a slot two ints, a word one or the other), and the values are the
last before the sign bit, the sign bit alone and all ones.

**Fairness.** Threads and processes that are not blocked run (weak fairness of
each loop); calls of library functions and handlers return. The lock of the
heap is taken by spinning, so that a thread that is kept trying gets it in the
end (strong fairness), unless its owner is gone. Requests, deaths,
creation and destruction are never forced. The policy needs more: random
numbers do not avoid one value for ever, and calls that find the faster backend in
`current_best` are not for ever of symbols it lacks (strong fairness). The
standard generator gives the first; the second is about the application.
Deadlock checking is off where the system may stop: no more requests, children or
creations, an abort, the host gone.

**Conditions in the properties.** `RequestsAnswered` excepts calls held up by
a handler that calls in, calls held up by a handler that calls wasm while a
symbol is looked up, and objects created a second time:
`callback_thread_stop` (host 468) is never reset, so the new callback loop ends
at once; and a program that has ended. `OwnResponse` promises a call whose socket
destroy closed under it nothing (`CutOff`). `DestroyEnds` says that destroy never
hangs: it returns, or the program ends because somebody invoked meanwhile (host
597) or was cut off. `OwnCallbackReply` and `HandlerWithinCall` except the time
after a child has died with a callback under way, and `NoHandlerAfterUnregister` a
child that has died or given up with one (`orphans`): its handler runs on while
unregister returns. `DownIsDown` is about the host, the shim and its sockets; what
the shim has forked is not waited for and may still run. `ContextIsFirer` excepts a wasm
callback under a wasm call that a process handler makes, where the code answers
with the handler's key (meta 1084). `LoopEndsAlone` excepts shims whose host end
another shim, or what that has forked, has inherited. `RequestsServed` excepts a child that died in the
allocator and a loop that has ended for want of memory. `ArgsArrive` excepts
integers of the type of `T_PointerType` on their way to wasm, and numbers that
their wasm type cannot hold. `CallbackArgsArrive` excepts arguments past the
slots, bools, and on 32 bits what does not come as two words.
`ResultsArrive` excepts bools and, on 32 bits, 64-bit results of library
functions. `FieldsArrive` excepts, on 32 bits, fields after a long.

**What the exceptions mean for the code.** Each names a case in which the
unconditional statement does not hold; the violated runs show three of them.
The others, found while modelling:

* A callback handler that calls into the sandbox never returns: `capnp_call`
  holds `request_mutex` until the response is read (host 155-165), the handler
  waits for it on the callback thread, and the child for the handler.
* A lookup keeps `symbol_cache_mutex` while it waits for `request_mutex` (meta
  507-514). When the holder of the latter is a call whose callback handler
  calls wasm or allocates, the handler waits for the former to ask the policy
  (meta 570, 774, 801), and nobody goes on.
* A creation that fails after line 353 of the host leaves its entry in
  `global_registry`, and after a failed fork the socket pairs too; meta 355-356
  has it "both up or neither up".
* A child keeps the host's ends of the sockets of every other sandbox open at
  its fork: when the host dies, those shims get no end of file (shim 798:
  "EOF on req_fd ends the loop").
* `T_LongType` is 64 bits on a 32-bit host (host 59, "widths mirror the host"):
  rlbox lays out a struct with a long, as zlib's `z_stream` is, otherwise than
  the library does.
* On a 32-bit host `ret_buf` (shim 369) has room for half of a 64-bit result.
* A registered struct is looked up for translation by the pointer as rlbox
  passes it (meta 653), which has no tag (meta 406-419), while `struct_allocs`
  has a wasm object under its tagged pointer (meta 869) and a process object
  never comes to wasm, since its owner overrides the policy. The translator and
  the scratch therefore stay unused, against the comment at meta 970-971: "the
  translator runs on every wasm dispatch".
* A child that dies in the allocator, or a library that fills the heap, ends
  the service of its sandbox without an error to the host.
* A child that dies with its callback under way is answered 0 at once (shim
  546-557, 689-696): the handler still runs in the host, and unregister does not
  wait for it (host 191-210).
* Destroy waits for the shim only: the child of a call in progress may write to
  the shared memory after destroy has returned.

## 4. What is proved

`WorkerPoolProofs` proves, for every set of calls and children and every pool
size, under `ConstantsAssumption` only (failures and deaths allowed anywhere):
type correctness, `AtMostOnce`, `AnswerIsOwn`, `AnsweredMeansOver`,
`ZeroMeansDead`, `NoLostChild` (with `OneOwner`, which it rests on), `PoolBounded`, `NoFdLeak`,
`WorkerDeathSeen`, and that the pool implements `CallService` (`Refinement`).

None of these is inductive. The invariant `IInv` has four layers, each proved
with the help of those before it: where a thread is determines what it refers to
(`ControlOK`); who owns which child, and that a thread past its size check still
finds room (`RoomOK`, `OwnersOK`); who holds which end of which pipe
(`ShimFdsOK`, `WriteEndsOK`), which needs ownership, because a fork copies what
the owners have open; and which child can still enter which call and what an
answer may say (`CallsOK`, `LifeSignsOK`, `AnswersOK`), which needs the ends,
since end of file is what the shim concludes death from. Each layer has one
lemma with one step per action. The refinement maps every step to a step of
`CallService` or a stutter.

`LifecycleProofs` proves `RegistryRight` and `DownIsDown` for any set of
sandboxes, any number of creations and any address space, whichever system call
fails and whoever dies, under `LifecycleAssumption` only. `DownIsDown` says what the registries
and the host hold once a sandbox is down, which its last step does not
establish alone: the invariant follows it through the creation. `GenOK` counts
creations, `ShutOK` says which creations' sockets are shut down, `BasesOK` says that no two sandboxes share a base (or one could
erase the other's entry), `EntriesOK`, `BackendsOK` and `FdsOK` say what each
program counter accounts for in the registries, the backends and the
descriptors (`Left`). Descriptors are named with the creation they belong to, so
`FdsOK` also bounds that number, or a new creation could meet an old one's.

`CallbacksProofs` proves `TablesAgree`, `NoHandlerAfterUnregister` and
`ContextIsFirer` for any number of threads, callbacks, slots and frames, under
`CallbacksAssumption` only. Layers: who is at which step of an operation has that
callback to itself and a call has the mutex (`OpsOK`); what each table has of a
callback at each step (`TablesOK`); the fired callback stays in its slot because
the call that fired it has the mutex, and at any time one callback is on the socket,
with the loop or a reply, as long as no child has stopped waiting (`FiringOK`), from
which, with the handler
being the lowest frame of the callback thread (`HandlerLowest`),
`NoHandlerAfterUnregister` follows; and the thread locals are determined by
the stack (`MetaKnown`, `KeysKnown`). That `First` finds an index when there
is one is proved from the well-foundedness of the naturals.

`HostChannelProofs` proves `OwnResponse`, `OwnCallbackReply`, `HandlerWithinCall`
and `QuietAfterDestroy` for any number of threads, calls and creations, under
`ChannelAssumption` only. Nothing on the wire names its call, so the invariant
says where what is: a caller that has written to the sockets there are now
(`Waits`) has its request, its number in the shim or its response in exactly one
place, and nothing is on its way when nobody waits (`OneRequest`; the mutex gives
that only one does, `CallsOK`). `OneCallback` says the same of a callback and its
reply, as long as no child has died with one under way, and `ChildOK` that the
shim waits while there is a child, which puts a handler inside its call.
`PhasesOK` relates the steps of destroy to what is open and who may still run. What
an old creation left is told apart by the creation it was written in.

`MetaSandboxProofs` proves `OwnerKnown`, `ScratchHasStruct` and `BlocksOwned` for
any number of threads and any heaps, structs and symbols, under `MetaAssumption` only,
and `RunsOnOwner` and the implementation of `UnifiedHeap` where no argument points
into an object (`~Interior`, as in the run): with such pointers the code asks the
policy (meta 582), so neither holds. `BlocksOwned` carries the rest, in a form
that induction needs (`Apart`, `Covered`): every live block is claimed, by the
application, by an operation in progress, by a struct's entry or by the hand
that moves one, and no block twice. So an address can be reused only after the
entry of its last object is gone or about to be written over by its new owner, which
is what `EntriesOK` (an object is entered before it is handed out) and `KeysOK`
(an entry names the backend of its key) need. `ArgsOK` and `CallsOK` follow a
call from the look at its arguments to its end, `StructsOK` a scratch block.

`ShimHeapProofs` proves `BlocksApart`, `HostBlocksKept` and `LoopKeepsNothing` for any
region, sizes and places, under `ShimHeapAssumption`, which says that sizes are
values of a `size_t`, that the sums that constructors and the message reach do not
wrap (of the others, `calloc`'s product may), that the message does not fit in the
bootstrap buffer, that only huge sizes are mapped by dlmalloc itself and only
`handle_allocate` asks for them, and that what it maps lies behind the region and
apart from the rest; with `HAVE_MMAP=0`, as built, there is nothing of that. An operation that is
inside has found a place (`SpotOK`) and, for a free or a move, its block
(`TargetsOK`); both stay as they are until it leaves because only who is inside
changes `blocks` of a mapped heap (`LockOK`), and because what others hold is not
theirs. `OpsOK` and `LoopOpOK` tie an operation to the label that asked for it,
`ResultOK`, `ReqOK` and `AnswerOK` follow an address from the allocator to the
host, `MessagesOK` counts the loop's messages label by label, on the error
paths too, and `VectorsOK` says at which labels there may be vectors. A child that dies in the allocator leaves the lock `dead` and the
heap as it was.

`AdaptivePolicyProofs` proves `MedianIsRecent` for rings of any length and any
latencies, under `RingAssumption` and the assumption on the periods.
The invariant is short (`RingsOK`: a ring holds the last latencies in order, the oldest
where the next is written); the work is in three lemmas. `PushFacts` is the
arithmetic of `writes % N` and of its wrap at `2 * N`. `OrderFacts` shows that places can be
sorted: were there a number of samples that cannot, there would be a least, and
`Insert` sorts one sample more; the least element comes from
the well-foundedness of inclusion on finite sets, since the induction theorems of
the library cannot be instantiated by the provers. `MiddleIsMedian` counts: half of the
samples are below the middle and half above.

`WireAbiProofs` proves `ArgsArrive`, `CallbackArgsArrive`, `ResultsArrive` and
`FieldsArrive` for any number of arguments, fields and slots and any values of the
types, under `WireAbiAssumption` only: a char holds an even number of values, of which
an int holds a multiple and a slot the square of an int's, as 2^8, 2^32 and 2^64 are.
Three kinds of facts carry it. *Low parts*: from `LowLow` and `LowSum` (remainders of
remainders and of sums), `CastLow`, `FirstWord`, `PackFacts` and `LowOfLow` show that a
cast, a machine word with noise above it, and a slot each keep the low part of a value;
`CastNumber` and `CastFits` that a cast keeps the number when it widens, or when the
number fits (a pointer of wasm is NULL, or its tag and an offset: `ValueFacts`).
*Places*: `Flattening` shows that words joined one argument after another
stand where `Place` counts them, and `SamePlace` that only the arguments of more than
one word count; a tag is wider than its type within one word only (`TagWidths`), so the
function reads where libffi wrote. *Layouts*: `LayoutFacts` and `LayoutIncreases` give
each field a place of its own, and `SameLayout` the same one to host and library as
long as the widths before it agree; a long itself may still differ, being aligned to a
word either way. The invariant adds to the four properties only what the slots hold
while a call is packed (`PackedOK`) or a trampoline has fired (`FiredOK`), and that what
was given has its types (`GivenOK`). Since the induction theorems of the library take an
operator, `Induction` states it for the members of a set, and `Recursion` that a
function defined step by step exists; both follow from `Least`.

Model-checked only: liveness (`RequestsAnswered`, `DestroyEnds`, `InvokeAnswered`,
`PoolRefills`, `NoOrphans`, `LoopEndsAlone`, `TracksSteadyState`, `RequestsServed`).
Fairness and `ENABLED` are out of reach of the proof system.

## 5. Not modelled, and why

* rpclib: the transport can be chosen instead of Cap'n Proto; requests may be
  pipelined and `free` and `unregister` are not waited for. Its code is not in
  the repository. `UnregSlot_Async` in `Callbacks` shows what not waiting costs.
* Descriptor numbers: a number that destroy closes and another thread reopens
  while `capnp_call` uses it. SIGPIPE in the host.
* The contents of memory: pointers stored in structs are not inspected by the
  code either (meta 577-579), nor are pointers into the middle of an object
  (meta 582): `MetaSandbox` gives base pointers only.
* What a library keeps in its globals: a child starts with the shim's copy, and
  with a heap in which earlier children may have freed what it points to.
* Sums that wrap near `SIZE_MAX` in the bootstrap path (shim 225), and its
  unlocked offset (shim 230): constructors ask for small sizes, one after
  another.
* Results of library functions that dlmalloc placed outside the region: only
  `handle_allocate` looks. With `HAVE_MMAP=0` there are none.
* After a destroy, `alloc_owner`, `struct_allocs` and `symbol_cache` keep their
  entries: `MetaSandbox` has one creation.
* The filter's system call table; only that installing it may fail.
* Several threads in the policy at once: its state has no lock.
* Tests, ports and benchmarks.

## 6. Plan

Done in this order, the most important behaviour first: `WorkerPool` with
`CallService` and its proofs; `HostChannel`; `MetaSandbox` with `UnifiedHeap`;
`Callbacks`; `AdaptivePolicy` with `LatencyRing`; `Lifecycle`; `ShimHeap`;
`WireAbi`.

Next, model:

1. `MetaSandbox`: destroy and a second creation with stale registries and
   symbols; pointers into objects.
2. A composition of `Callbacks` and `HostChannel`.
3. Two threads in `AdaptivePolicy`.

Next, prove: the safety properties of what is modelled next. Of the present modules
no safety property that a run finds true is left without a theorem.
