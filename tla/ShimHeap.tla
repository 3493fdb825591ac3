------------------------------ MODULE ShimHeap ------------------------------
(***************************************************************************)
(* The heap of a sandboxed process: malloc, free, calloc and realloc of    *)
(* src/rlbox_process_sandbox_shim.cpp over one dlmalloc mspace in the      *)
(* memory it shares with the host, and everyone who uses it there: the     *)
(* request loop (Cap'n Proto messages, handle_allocate, handle_release),   *)
(* the refill thread, and the forked child that runs library code.  They   *)
(* take one lock, which lies in that memory too.                           *)
(*                                                                         *)
(* WorkerPool has the children, HostChannel the messages; here a call is a *)
(* child that allocates and frees, and ends or dies.  Sizes and addresses  *)
(* are in units of sizeof(size_t); the alignment is two of them.           *)
(***************************************************************************)
EXTENDS Integers, FiniteSets

CONSTANTS
    RegionSize,   \* g_shm_size
    BootSize,     \* sizeof(g_bootstrap_buf)
    W,            \* values of a size_t
    Elsewhere,    \* where dlmalloc maps blocks of HugeSizes; with HAVE_MMAP=0,
    HugeSizes,    \* as the build has it, both are {}
    KeysSize, MessageSize, RequestSize, NodeSize,   \* fixed allocations
    ArgCounts,    \* numbers of arguments of the calls
    HostSizes,    \* sizes the host asks for
    LibSizes,     \* sizes library code asks for
    BootSizes,    \* sizes asked for before, when there is no region
    None

\* The threads of the shim, and the forked child of the call in progress.
Users == {"loop", "refill", "main", "child"}

ASSUME ShimHeapAssumption ==
    /\ {RegionSize, BootSize, W} \subseteq Nat \ {0}
    /\ {KeysSize, MessageSize, RequestSize, NodeSize} \subseteq (1 .. W - 1) \ HugeSizes
    /\ HostSizes \subseteq 0 .. W - 1 /\ LibSizes \subseteq 0 .. W - 1
    /\ ArgCounts \subseteq 0 .. W - 1
    /\ 1 \notin HugeSizes
    /\ \A n \in LibSizes : n \notin HugeSizes /\ 2 * n \notin HugeSizes
    /\ \A k \in ArgCounts : k \notin HugeSizes /\ (k + 1) \div 2 \notin HugeSizes
    /\ KeysSize <= RegionSize /\ BootSize < MessageSize
    /\ MessageSize + 2 + BootSize < W      \* no sum wraps
    /\ \A n \in BootSizes : n \in Nat /\ 2 * n + 2 + BootSize < W
    /\ Elsewhere \subseteq {n \in Nat : n > RegionSize}
    /\ \A a, b \in Elsewhere : \A n \in HugeSizes : a < b => a + n <= b
    /\ None \notin Int \cup Users \cup {"dead"}

VARIABLES
    mapped,   \* g_mspace and g_shm_base are set
    blocks,   \* the blocks in use: where, how long for their owner, whose
    offset,   \* g_bootstrap_offset
    lock,     \* who has the lock of the mspace; "dead": a process that is gone
    op,       \* op[u]: what u is doing in the allocator, or has from it
    pc,       \* where the request loop is
    child,    \* the child of the call in progress
    result,   \* what the loop will answer
    req,      \* the request the host waits for
    held      \* the blocks the host may use

heapVars == <<mapped, blocks, offset, lock>>
hostVars == <<req, held>>
vars == <<heapVars, op, pc, child, result, hostVars>>

Extent(b) == b.at .. b.at + b.len - 1
Of(u) == {b \in blocks : b.of = u}
At(a) == {b \in blocks : b.at = a}
Region == 0 .. RegionSize - 1
BootBase == 3 * RegionSize

-----------------------------------------------------------------------------
(* What a call of the four functions wants of the allocator: a size, or a  *)
(* block to free or to move.  len is the size its caller believes in, spot *)
(* the place found for it under the lock.                                  *)

Op(do, a, n, len) ==
    [step |-> "want", do |-> do, at |-> a, size |-> n, len |-> len, spot |-> None]
Idle == [Op("none", None, 0, 0) EXCEPT !.step = "idle"]
Done(a) == [Idle EXCEPT !.step = "done", !.at = a]

Malloc(n) == IF n = 0 THEN Done(None) ELSE Op("malloc", None, n, n)

Free(a) == Op("free", a, 0, 0)

\* mspace_calloc gives a smallest block for nothing, malloc none.
Calloc(k, n) ==
    IF k * n >= W THEN Done(None) ELSE Malloc(IF mapped /\ k * n = 0 THEN 1 ELSE k * n)

Realloc(a, n) == IF n = 0 THEN Free(a) ELSE Op("realloc", a, n, n)

Got(u) == op[u].step = "done"
Ready(u) == op[u].step \in {"idle", "done"}
Runs(u) == u = "child" \/ pc # "dead"

\* The process is new: the environment names a region that could be mapped
\* at the host's address, or not.  The callback keys are its first block.
Init ==
    /\ mapped \in BOOLEAN
    /\ blocks = IF mapped THEN {[at |-> 0, len |-> KeysSize, of |-> "keys"]} ELSE {}
    /\ offset = 0 /\ lock = None
    /\ op = [u \in Users |-> Idle]
    /\ pc = "top" /\ child = "none" /\ result = None
    /\ req = None /\ held = {}

-----------------------------------------------------------------------------
(* The mspace: under the lock, find a place, then take it.  dlmalloc cuts a *)
(* block off the low end of a free chunk; which chunk is left open.        *)

Fits(a, n, others) ==
    /\ a + n <= RegionSize
    /\ \A b \in others : Extent(b) \cap (a .. a + n - 1) = {}

Places(o) ==
    {a \in {b.at + b.len : b \in blocks} : Fits(a, o.size, blocks)}
    \cup {a \in Region \cap {o.at} : Fits(a, o.size, blocks \ At(a))}
    \cup {a \in Elsewhere : o.size \in HugeSizes /\ At(a) = {}}

\* Mutant: the mspace is made without a lock (locked = 0).
Enter_Unlocked(u) ==
    /\ mapped /\ Runs(u) /\ op[u].step = "want"
    /\ \E a \in IF op[u].do = "free" \/ Places(op[u]) = {} THEN {None} ELSE Places(op[u]) :
         op' = [op EXCEPT ![u] = [@ EXCEPT !.step = "in", !.spot = a]]
    /\ UNCHANGED <<heapVars, pc, child, result, hostVars>>

\* Mutant: the lock is in each process's own memory: a child has another one.
Enter_PerProcess(u) ==
    /\ mapped /\ Runs(u) /\ op[u].step = "want"
    /\ IF u = "child" THEN lock' = lock ELSE lock = None /\ lock' = u
    /\ \E a \in IF op[u].do = "free" \/ Places(op[u]) = {} THEN {None} ELSE Places(op[u]) :
         op' = [op EXCEPT ![u] = [@ EXCEPT !.step = "in", !.spot = a]]
    /\ UNCHANGED <<mapped, blocks, offset, pc, child, result, hostVars>>

Enter(u) ==
    /\ mapped /\ Runs(u) /\ op[u].step = "want"
    /\ lock = None /\ lock' = u
    /\ \E a \in IF op[u].do = "free" \/ Places(op[u]) = {} THEN {None} ELSE Places(op[u]) :
         op' = [op EXCEPT ![u] = [@ EXCEPT !.step = "in", !.spot = a]]
    /\ UNCHANGED <<mapped, blocks, offset, pc, child, result, hostVars>>

\* Whose a new block is: what the loop gets is a message, what it will answer,
\* or a vector of arguments.
Owner(u) ==
    CASE u = "loop" /\ pc = "allocate" -> "answer"
      [] u = "loop" /\ pc \in {"tags", "vals"} -> "args"
      [] OTHER -> u

\* Operation o of u got place a: a block that is freed or moved is gone.
Outcome(u, o, a) ==
    /\ blocks' = (IF o.do = "free" \/ (o.do = "realloc" /\ a # None)
                    THEN blocks \ At(o.at) ELSE blocks)
                 \cup (IF a = None THEN {} ELSE {[at |-> a, len |-> o.len, of |-> Owner(u)]})
    /\ op' = [op EXCEPT ![u] = Done(a)]

Leave(u) ==
    /\ Runs(u) /\ op[u].step = "in"
    /\ lock' = None
    /\ Outcome(u, op[u], op[u].spot)
    /\ UNCHANGED <<mapped, offset, pc, child, result, hostVars>>

(* Without a region: the bootstrap buffer, of which nothing comes back.    *)

\* ((size + 7) & ~7) + sizeof(size_t), in words of w bits.
BootTotal(n) == ((((n + 1) % W) \div 2) * 2 + 1) % W

Bootstrap(u) ==
    /\ ~mapped /\ Runs(u) /\ op[u].step = "want"
    /\ LET o == op[u]
           total == BootTotal(o.size)
           fits == o.do # "free" /\ (offset + total) % W <= BootSize
       IN  /\ Outcome(u, o, IF fits THEN BootBase + offset + 1 ELSE None)
           /\ offset' = IF fits THEN (offset + total) % W ELSE offset
    /\ UNCHANGED <<mapped, lock, pc, child, result, hostVars>>

-----------------------------------------------------------------------------
(* The request loop (start_rpc_server).  Each turn makes the message of the *)
(* answer first; an exception of Cap'n Proto or of new ends the loop.      *)

LoopGoes(label, o) == pc' = label /\ op' = [op EXCEPT !["loop"] = o]
LoopAt(label) == pc = label /\ Ready("loop")
Answers(v) == result' = v /\ LoopGoes("reply", Idle)

NewMessage ==
    /\ LoopAt("top")
    /\ LoopGoes("message", Calloc(1, MessageSize))
    /\ UNCHANGED <<heapVars, child, result, hostVars>>

MessageMade ==
    /\ pc = "message" /\ Got("loop")
    /\ LoopGoes(IF op["loop"].at = None THEN "unwind" ELSE "read", Idle)
    /\ UNCHANGED <<heapVars, child, result, hostVars>>

ReadRequest ==
    /\ LoopAt("read") /\ req # None
    /\ LoopGoes("reading", Malloc(RequestSize))
    /\ UNCHANGED <<heapVars, child, result, hostVars>>

NoRoomForRequest ==
    /\ pc = "reading" /\ Got("loop") /\ op["loop"].at = None
    /\ LoopGoes("unwind", Idle)
    /\ UNCHANGED <<heapVars, child, result, hostVars>>

HasRequest(kind) == pc = "reading" /\ Got("loop") /\ op["loop"].at # None /\ req.kind = kind

Allocate ==
    /\ HasRequest("allocate")
    /\ LoopGoes("allocate", Malloc(req.size))
    /\ UNCHANGED <<heapVars, child, result, hostVars>>

Allocated ==
    /\ pc = "allocate" /\ Got("loop")
    /\ LET p == op["loop"].at
       IN  IF mapped /\ p # None /\ p + req.size > RegionSize
             THEN LoopGoes("free", Free(p)) /\ UNCHANGED result
             ELSE Answers(IF mapped THEN p ELSE None)
    /\ UNCHANGED <<heapVars, child, hostVars>>

Release ==
    /\ HasRequest("release")
    /\ LoopGoes("free", Free(req.at))
    /\ UNCHANGED <<heapVars, child, result, hostVars>>

Freed ==
    /\ pc = "free" /\ Got("loop")
    /\ Answers(None)
    /\ UNCHANGED <<heapVars, child, hostVars>>

\* The arguments are copied to two vectors first: 4 bytes for a tag, 8 for a
\* value, and for none at all no allocation.
Reserve(label, n) == LoopGoes(label, IF n = 0 THEN Done(None) ELSE Malloc(n))
Reserved == Got("loop") /\ (req.size = 0 \/ op["loop"].at # None)

ReserveTags ==
    /\ HasRequest("invoke")
    /\ Reserve("tags", (req.size + 1) \div 2)
    /\ UNCHANGED <<heapVars, child, result, hostVars>>

ReserveVals ==
    /\ pc = "tags" /\ Reserved
    /\ Reserve("vals", req.size)
    /\ UNCHANGED <<heapVars, child, result, hostVars>>

\* bad_alloc is caught at the end of the loop.
NoRoomForVector ==
    /\ pc \in {"tags", "vals"} /\ Got("loop") /\ ~Reserved
    /\ LoopGoes("unwind", Idle)
    /\ UNCHANGED <<heapVars, child, result, hostVars>>

\* Taking a worker may free a node of the pool's queue.
TakeWorker ==
    /\ pc = "vals" /\ Reserved
    /\ \/ LoopGoes("take", Done(None))
       \/ \E b \in Of("refill") : Ready("refill") /\ LoopGoes("take", Free(b.at))
    /\ UNCHANGED <<heapVars, child, result, hostVars>>

Invoke ==
    /\ pc = "take" /\ Got("loop")
    /\ LoopGoes("call", Idle) /\ child' = "runs"
    /\ UNCHANGED <<heapVars, result, hostVars>>

CallOver ==
    /\ LoopAt("call") /\ child = "over"
    /\ child' = "none"
    /\ LoopGoes("args", Idle)
    /\ UNCHANGED <<heapVars, result, hostVars>>

\* The vectors go out of scope before the answer is written.
FreeVectors ==
    /\ pc = "args" /\ Ready("loop")
    /\ IF Of("args") = {}
         THEN LoopGoes("reply", Idle)
         ELSE \E b \in Of("args") : LoopGoes("args", Free(b.at))
    /\ UNCHANGED <<heapVars, child, result, hostVars>>

\* Mutant: a release is not answered.
Reply_NotRelease ==
    /\ LoopAt("reply")
    /\ LoopGoes("drop", Idle) /\ result' = None
    /\ req' = IF req.kind = "release" THEN req ELSE None
    /\ LET given == IF result = None THEN {} ELSE At(result)
       IN  /\ held' = held \cup {[at |-> b.at, len |-> b.len] : b \in given}
           /\ blocks' = (blocks \ given) \cup {[b EXCEPT !.of = "host"] : b \in given}
    /\ UNCHANGED <<mapped, offset, lock, child>>

Reply ==
    /\ LoopAt("reply")
    /\ LoopGoes("drop", Idle) /\ result' = None
    /\ req' = None
    /\ LET given == IF result = None THEN {} ELSE At(result)
       IN  /\ held' = held \cup {[at |-> b.at, len |-> b.len] : b \in given}
           /\ blocks' = (blocks \ given) \cup {[b EXCEPT !.of = "host"] : b \in given}
    /\ UNCHANGED <<mapped, offset, lock, child>>

\* Mutant: the arguments are in arrays of malloc's, which no unwinding frees.
Drop_NotVectors ==
    /\ pc \in {"drop", "unwind"} /\ Ready("loop")
    /\ IF Of("loop") = {}
         THEN LoopGoes(IF pc = "drop" THEN "top" ELSE "ended", Idle)
         ELSE \E b \in Of("loop") : LoopGoes(pc, Free(b.at))
    /\ UNCHANGED <<heapVars, child, result, hostVars>>

\* The turn ends, or an exception unwinds it: its messages, and what vectors
\* there are, are freed.
Drop ==
    /\ pc \in {"drop", "unwind"} /\ Ready("loop")
    /\ LET left == Of("loop") \cup Of("args")
       IN  IF left = {}
             THEN LoopGoes(IF pc = "drop" THEN "top" ELSE "ended", Idle)
             ELSE \E b \in left : LoopGoes(pc, Free(b.at))
    /\ UNCHANGED <<heapVars, child, result, hostVars>>

-----------------------------------------------------------------------------
(* The refill thread: push_back may need a node for the queue.  It catches *)
(* nothing: without one the process is terminated, and the call fails.     *)

Refill ==
    /\ mapped /\ Runs("refill") /\ op["refill"].step = "idle" /\ Of("refill") = {}
    /\ op' = [op EXCEPT !["refill"] = Malloc(NodeSize)]
    /\ UNCHANGED <<heapVars, pc, child, result, hostVars>>

\* A process that is gone has not given back the lock.
LockOfDead(U) == lock' = IF lock \in U THEN "dead" ELSE lock

Refilled ==
    /\ Runs("refill") /\ Got("refill")
    /\ op' = [op EXCEPT !["refill"] = Idle]
    /\ IF op["refill"].at # None
         THEN UNCHANGED <<lock, pc, req, result>>
         ELSE LockOfDead({"loop"}) /\ pc' = "dead" /\ req' = None /\ result' = None
    /\ UNCHANGED <<mapped, blocks, offset, child, held>>

-----------------------------------------------------------------------------
(* Library code: the child of a call, which sees the blocks that it makes; *)
(* and, before the first request, constructors in the shim's main thread.  *)

LibraryOps(u, sizes) ==
    {Malloc(n) : n \in sizes} \cup {Calloc(2, n) : n \in sizes}
    \cup {Free(b.at) : b \in Of(u)} \cup {Realloc(b.at, n) : b \in Of(u), n \in sizes}

LibraryAsks(u, sizes) ==
    /\ Ready(u)
    /\ \E o \in LibraryOps(u, sizes) : op' = [op EXCEPT ![u] = o]
    /\ UNCHANGED <<heapVars, pc, child, result, hostVars>>

Constructor == ~mapped /\ Runs("main") /\ LibraryAsks("main", BootSizes)

ChildAsks == child = "runs" /\ LibraryAsks("child", LibSizes)

\* The blocks of a child that is gone are known to no one, except the one
\* whose address it returned.
Loses(kept) ==
    blocks' = {b \in blocks : b.of # "child" \/ b.at = kept}
              \cup {[b EXCEPT !.of = "nobody"] : b \in {c \in Of("child") : c.at # kept}}

ChildReturns ==
    /\ child = "runs" /\ Ready("child")
    /\ \E v \in {None} \cup {b.at : b \in Of("child")} : result' = v /\ Loses(v)
    /\ child' = "over" /\ op' = [op EXCEPT !["child"] = Idle]
    /\ UNCHANGED <<mapped, offset, lock, pc, hostVars>>

ChildDies ==
    /\ child = "runs"
    /\ result' = None /\ Loses(None) /\ LockOfDead({"child"})
    /\ child' = "over" /\ op' = [op EXCEPT !["child"] = Idle]
    /\ UNCHANGED <<mapped, offset, pc, hostVars>>

-----------------------------------------------------------------------------
(* The host: one request at a time.  It releases what it was given, once.  *)

HostAsks ==
    /\ req = None /\ pc # "dead"
    /\ \/ \E n \in HostSizes :
            req' = [kind |-> "allocate", size |-> n, at |-> None] /\ UNCHANGED held
       \/ \E h \in held :
            /\ req' = [kind |-> "release", size |-> 0, at |-> h.at]
            /\ held' = held \ {h}
       \/ \E k \in ArgCounts :
            req' = [kind |-> "invoke", size |-> k, at |-> None] /\ UNCHANGED held
    /\ UNCHANGED <<heapVars, op, pc, child, result>>

LoopStep ==
    \/ NewMessage \/ MessageMade \/ ReadRequest \/ NoRoomForRequest \/ Allocate
    \/ Allocated \/ Release \/ Freed \/ ReserveTags \/ ReserveVals \/ NoRoomForVector
    \/ TakeWorker \/ Invoke \/ CallOver \/ FreeVectors \/ Reply \/ Drop

HeapStep(u) == Enter(u) \/ Leave(u) \/ Bootstrap(u)

Next ==
    \/ LoopStep \/ Refill \/ Refilled \/ Constructor \/ HostAsks
    \/ ChildAsks \/ ChildReturns \/ ChildDies
    \/ \E u \in Users : HeapStep(u)

Spec == Init /\ [][Next]_vars

\* Threads run, and get the spinning lock in the end; library calls end.
FairSpec ==
    /\ Spec
    /\ SF_vars(LoopStep \/ HeapStep("loop"))
    /\ SF_vars(Refilled \/ HeapStep("refill"))
    /\ SF_vars(HeapStep("child")) /\ SF_vars(ChildReturns)

-----------------------------------------------------------------------------
(* Properties                                                              *)

Blocks == [at : Region \cup Elsewhere \cup BootBase .. BootBase + BootSize,
           len : 1 .. W - 1,
           of : Users \cup {"keys", "answer", "args", "host", "nobody"}]

\* The types.
TypeOK ==
    /\ mapped \in BOOLEAN /\ blocks \subseteq Blocks /\ offset \in 0 .. BootSize
    /\ lock \in Users \cup {None, "dead"}
    /\ child \in {"none", "runs", "over"}
    /\ \A h \in held : h.at \in Region \cup Elsewhere

\* Blocks in use do not overlap, whoever made them and whatever was freed,
\* moved or lost in between, and lie in the memory they are taken from.
\* (And the types are right.)
BlocksApart ==
    /\ TypeOK
    /\ \A b \in blocks :
         /\ \/ Extent(b) \subseteq Region
            \/ b.at \in Elsewhere
            \/ Extent(b) \subseteq BootBase .. BootBase + BootSize - 1
         /\ \A c \in blocks \ {b} : Extent(b) \cap Extent(c) = {}

\* What the host was given and has not released is a block of the region, as
\* long as the host believes, and nobody else's, whatever children did.
HostBlocksKept ==
    \A h \in held :
        /\ h.at .. h.at + h.len - 1 \subseteq Region
        /\ [at |-> h.at, len |-> h.len, of |-> "host"] \in blocks

\* Between two requests the loop keeps the message of the next answer and
\* nothing else; and a loop that ended keeps nothing at all: no request, however
\* it failed, leaves a block behind, be it a message, a refused block or a vector.
LoopKeepsNothing ==
    pc \in {"read", "ended"} /\ op["loop"].step = "idle" =>
        /\ Cardinality(Of("loop")) = (IF pc = "read" THEN 1 ELSE 0)
        /\ Of("answer") = {} /\ Of("args") = {}

\* A request is answered, except when a child died in the allocator, when
\* the loop has ended for want of memory, or had no region from the start.
RequestsServed == req # None ~> req = None \/ lock = "dead" \/ pc = "ended"
=============================================================================
