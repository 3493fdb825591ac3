--------------------------- MODULE ShimHeapProofs ---------------------------
(***************************************************************************)
(* BlocksApart, HostBlocksKept and LoopKeepsNothing of ShimHeap, for any   *)
(* region, any sizes and any places outside it.  Under the lock a place    *)
(* that was found stays free; and nobody frees or moves a block that is    *)
(* another's.                                                              *)
(***************************************************************************)
EXTENDS ShimHeap, FiniteSetTheorems, TLAPS

(* What TypeOK says, and more: the operations are records of a kind.       *)
Labels == {"top", "message", "read", "reading", "allocate", "free", "tags", "vals", "take",
           "call", "args", "reply", "drop", "unwind", "ended", "dead"}

OpRecords == [step : {"idle", "want", "in", "done"},
              do : {"none", "malloc", "free", "realloc"},
              at : Nat \cup {None}, size : 0 .. W - 1, len : 0 .. W - 1,
              spot : Nat \cup {None}]

BlockRecords == [at : Nat, len : 1 .. W - 1,
                 of : Users \cup {"keys", "answer", "args", "host", "nobody"}]

HeapTypes ==
    /\ mapped \in BOOLEAN /\ offset \in 0 .. BootSize
    /\ blocks \subseteq BlockRecords
    /\ lock \in Users \cup {None, "dead"}

OpTypes == op \in [Users -> OpRecords]

LoopTypes ==
    /\ pc \in Labels /\ child \in {"none", "runs", "over"}
    /\ result \in Nat \cup {None}
    /\ req \in {None} \cup [kind : {"allocate", "release", "invoke"},
                            size : 0 .. W - 1, at : Nat \cup {None}]
    /\ req # None /\ req.kind = "invoke" => req.size \in ArgCounts
    /\ held \subseteq [at : Nat, len : 1 .. W - 1]

\* u wants something of the allocator or is in it.
Busy(u) == op[u].step \in {"want", "in"}

\* What an operation asks for.
OpsOK ==
    /\ \A u \in Users : Busy(u) =>
         /\ op[u].do # "none"
         /\ op[u].do # "free" => op[u].len >= 1 /\ op[u].size = op[u].len
         /\ op[u].do = "malloc" => op[u].at = None
         /\ op[u].do = "free" => op[u].spot = None
         /\ mapped /\ op[u].do # "free" /\ op[u].len \in HugeSizes =>
              u = "loop" /\ pc \in {"allocate", "dead"}
    /\ Busy("refill") => op["refill"].do = "malloc"
    /\ Busy("child") => child = "runs"
    /\ Busy("main") => ~mapped /\ (op["main"].do # "free" => op["main"].size + 2 + BootSize < W)

\* Where the request loop is, what it asks for.
LoopOpOK ==
    /\ pc \in {"top", "read", "call", "reply", "ended"} => op["loop"].step = "idle"
    /\ pc = "message" /\ Busy("loop") => op["loop"].do = "malloc" /\ op["loop"].size = MessageSize
    /\ pc \in {"reading", "allocate", "tags", "vals"} /\ Busy("loop") => op["loop"].do = "malloc"
    /\ pc = "allocate" /\ Busy("loop") => op["loop"].len = req.size
    /\ pc \in {"free", "take", "args", "drop", "unwind"} /\ Busy("loop") => op["loop"].do = "free"
    /\ pc \in {"reading", "allocate", "free", "tags", "vals", "take", "call", "args", "reply"} =>
         req # None
    /\ pc \in {"tags", "vals"} => req.kind = "invoke"
    /\ child # "none" => pc \in {"call", "dead"}

\* One at a time is in the mspace.
LockOK == \A u \in Users : Runs(u) => (op[u].step = "in" <=> lock = u)

\* Without a region, only constructors get blocks.
UnmappedOK == ~mapped =>
    /\ pc \in {"top", "message", "unwind", "ended"} /\ child = "none" /\ held = {}
    /\ op["refill"].step = "idle" /\ op["loop"].at = None
    /\ \A u \in Users : op[u].step # "in"

\* Where the blocks are.
PlacesOK ==
    \A b \in blocks :
        /\ mapped => b.at + b.len <= RegionSize
                     \/ (b.at \in Elsewhere /\ b.len \in HugeSizes /\ b.of = "answer")
        /\ ~mapped => b.of = "main" /\ BootBase < b.at /\ b.at + b.len <= BootBase + offset

Disjoint(b, c) == b.at + b.len <= c.at \/ c.at + c.len <= b.at

Apart == \A b, c \in blocks : b = c \/ Disjoint(b, c)

\* The place that was found stays free while the lock is held.
SpotOK ==
    \A u \in Users : Runs(u) /\ op[u].step = "in" /\ op[u].spot # None =>
        /\ op[u].spot + op[u].len <= RegionSize
           \/ (op[u].spot \in Elsewhere /\ op[u].len \in HugeSizes)
        /\ \A b \in blocks :
             b.at = op[u].at \/ b.at + b.len <= op[u].spot \/ op[u].spot + op[u].len <= b.at

\* Whose blocks u may free or move.
May(u, b) ==
    \/ u \in {"child", "main"} /\ b.of = u
    \/ u = "loop" /\ pc = "free" /\ b.of = "answer"
    \/ u = "loop" /\ pc = "free" /\ b.of = "host" /\ \A h \in held : h.at # b.at
    \/ u = "loop" /\ pc = "take" /\ b.of = "refill"
    \/ u = "loop" /\ pc \in {"args", "drop", "unwind"} /\ b.of = "args"
    \/ u = "loop" /\ pc \in {"drop", "unwind"} /\ b.of = "loop"

TargetsOK ==
    \A u \in Users : Runs(u) /\ Busy(u) /\ op[u].do # "malloc" =>
        \E b \in blocks : b.at = op[u].at /\ May(u, b)

\* What will be answered is a block of the region that nobody else knows.
ResultOK ==
    result # None =>
        /\ child # "runs" /\ pc \in {"call", "args", "reply", "dead"}
        /\ \E b \in blocks : /\ b.at = result /\ b.of \in {"child", "answer"}
                             /\ b.at + b.len <= RegionSize

\* What the host releases is its own, and not in its hands any more.
ReqOK ==
    /\ req # None /\ req.kind = "release" /\ pc \in {"drop", "top", "message", "read", "reading"} =>
         \E b \in blocks : b.at = req.at /\ b.of = "host" /\ \A h \in held : h.at # req.at
    /\ \A h \in held : [at |-> h.at, len |-> h.len, of |-> "host"] \in blocks

\* What handle_allocate got, and where it is on its way.
AnswerOK ==
    /\ pc = "allocate" /\ Got("loop") /\ op["loop"].at # None =>
         \E b \in blocks : b.at = op["loop"].at /\ b.of = "answer" /\ b.len = req.size
    /\ pc # "dead" => \A b \in Of("answer") :
         \/ pc = "allocate" /\ Got("loop") /\ b.at = op["loop"].at
         \/ pc = "free" /\ Busy("loop") /\ b.at = op["loop"].at
         \/ pc = "reply" /\ b.at = result

\* The messages of the loop.
MessagesOK ==
    /\ pc = "top" \/ (pc = "message" /\ ~Got("loop")) => Of("loop") = {}
    /\ pc = "message" /\ Got("loop") /\ op["loop"].at # None => \E b \in blocks : Of("loop") = {b}
    /\ pc = "read" => \E b \in blocks : Of("loop") = {b}
    /\ pc = "ended" => Of("loop") = {}

\* The vectors of the loop.
VectorsOK ==
    Of("args") # {} => pc \in {"tags", "vals", "take", "call", "args", "unwind", "dead"}

IInv ==
    /\ HeapTypes /\ OpTypes /\ LoopTypes
    /\ OpsOK /\ LoopOpOK /\ LockOK /\ UnmappedOK
    /\ PlacesOK /\ Apart /\ SpotOK /\ TargetsOK
    /\ ResultOK /\ ReqOK /\ AnswerOK /\ MessagesOK /\ VectorsOK

-----------------------------------------------------------------------------
(* Operations.                                                             *)

LEMMA IdleFacts == Idle \in OpRecords /\ Idle.step = "idle" /\ Idle.at = None
  BY ShimHeapAssumption DEF Idle, Op, OpRecords

LEMMA DoneFacts ==
  ASSUME NEW a \in Nat \cup {None}
  PROVE  Done(a) \in OpRecords /\ Done(a).step = "done" /\ Done(a).at = a
  BY IdleFacts DEF Done, OpRecords

LEMMA MallocFacts ==
  ASSUME NEW n \in 0 .. W - 1
  PROVE  /\ Malloc(n) \in OpRecords /\ Malloc(n).at = None
         /\ n = 0 => Malloc(n).step = "done"
         /\ n # 0 => /\ Malloc(n).step = "want" /\ Malloc(n).do = "malloc"
                     /\ Malloc(n).size = n /\ Malloc(n).len = n
  BY ShimHeapAssumption, DoneFacts DEF Malloc, Op, OpRecords

LEMMA FreeFacts ==
  ASSUME NEW a \in Nat
  PROVE  /\ Free(a) \in OpRecords /\ Free(a).step = "want" /\ Free(a).do = "free"
         /\ Free(a).at = a /\ Free(a).spot = None
  BY ShimHeapAssumption DEF Free, Op, OpRecords

LEMMA ReallocFacts ==
  ASSUME NEW a \in Nat, NEW n \in 1 .. W - 1
  PROVE  /\ Realloc(a, n) \in OpRecords /\ Realloc(a, n).step = "want"
         /\ Realloc(a, n).do = "realloc" /\ Realloc(a, n).at = a
         /\ Realloc(a, n).size = n /\ Realloc(a, n).len = n
  BY ShimHeapAssumption DEF Realloc, Op, OpRecords

LEMMA CallocFacts ==
  /\ Calloc(1, MessageSize) = Malloc(MessageSize)
  /\ \A n \in Nat : \/ Calloc(2, n) = Done(None)
                    \/ 2 * n \in 0 .. W - 1 /\ Calloc(2, n) = Malloc(2 * n)
                    \/ mapped /\ 1 \in 0 .. W - 1 /\ Calloc(2, n) = Malloc(1)
  BY ShimHeapAssumption DEF Calloc

\* The fixed sizes.
LEMMA SizeFacts ==
  /\ {MessageSize, RequestSize, NodeSize} \subseteq 0 .. W - 1
  /\ MessageSize >= 1 /\ RequestSize >= 1 /\ NodeSize >= 1
  /\ MessageSize \notin HugeSizes /\ RequestSize \notin HugeSizes /\ NodeSize \notin HugeSizes
  BY ShimHeapAssumption

\* The places outside the region.
LEMMA ElsewhereFacts ==
  /\ \A e \in Elsewhere : e \in Nat /\ e > RegionSize
  /\ \A d, e \in Elsewhere : \A m, n \in HugeSizes : d # e => d + m <= e \/ e + n <= d
  <1>1. \A e \in Elsewhere : e \in Nat /\ e > RegionSize
    BY ShimHeapAssumption
  <1>2. \A d, e \in Elsewhere : \A n \in HugeSizes : d < e => d + n <= e
    BY ShimHeapAssumption
  <1>3. \A d, e \in Elsewhere : d # e => d < e \/ e < d
    BY <1>1
  <1>4. QED
    BY <1>1, <1>2, <1>3

\* What library code asks for: some memory, or something for a block of its.
Asks(u, sizes, o) ==
    /\ o \in OpRecords /\ o.step \in {"want", "done"}
    /\ o.step = "done" => o.at = None
    /\ o.step = "want" =>
         /\ o.do # "none"
         /\ o.do # "free" => /\ o.size = o.len /\ o.len >= 1
                             /\ \/ \E n \in sizes : o.len = n \/ o.len = 2 * n
                                \/ mapped /\ o.len = 1
         /\ o.do = "malloc" => o.at = None
         /\ o.do = "free" => o.spot = None
         /\ o.do # "malloc" => \E b \in blocks : b.at = o.at /\ b.of = u

LEMMA LibraryFacts ==
  ASSUME HeapTypes, NEW u \in Users, NEW sizes \in SUBSET (0 .. W - 1), LibraryAsks(u, sizes)
  PROVE  \E o : op' = [op EXCEPT ![u] = o] /\ Asks(u, sizes, o)
  <1>1. PICK o \in LibraryOps(u, sizes) : op' = [op EXCEPT ![u] = o]
    BY DEF LibraryAsks
  <1>2. ASSUME NEW n \in sizes, o = Malloc(n) \/ o = Calloc(2, n) PROVE Asks(u, sizes, o)
    <2>1. n \in 0 .. W - 1 /\ n \in Nat
      BY ShimHeapAssumption
    <2>2. CASE o = Malloc(n)
      BY <2>1, <2>2, MallocFacts DEF Asks
    <2>3. CASE o = Calloc(2, n)
      <3>1. CASE o = Done(None)
        <4>1. None \in Nat \cup {None}
          OBVIOUS
        <4>2. QED
          BY <3>1, <4>1, DoneFacts DEF Asks
      <3>2. CASE 2 * n \in 0 .. W - 1 /\ o = Malloc(2 * n)
        BY <2>1, <3>2, MallocFacts DEF Asks
      <3>3. CASE mapped /\ 1 \in 0 .. W - 1 /\ o = Malloc(1)
        BY <3>3, MallocFacts DEF Asks
      <3>4. QED
        BY <2>1, <2>3, <3>1, <3>2, <3>3, CallocFacts
    <2>4. QED
      BY <1>2, <2>2, <2>3
  <1>3. ASSUME NEW b \in Of(u), o = Free(b.at) PROVE Asks(u, sizes, o)
    BY <1>3, FreeFacts DEF Asks, Of, HeapTypes, BlockRecords
  <1>4. ASSUME NEW b \in Of(u), NEW n \in sizes, o = Realloc(b.at, n) PROVE Asks(u, sizes, o)
    <2>1. b \in blocks /\ b.of = u /\ b.at \in Nat
      BY DEF Of, HeapTypes, BlockRecords
    <2>2. CASE n = 0
      BY <1>4, <2>1, <2>2, FreeFacts DEF Asks, Realloc
    <2>3. CASE n # 0
      <3>1. n \in 1 .. W - 1
        BY <2>3, ShimHeapAssumption
      <3>2. QED
        BY <1>4, <2>1, <3>1, ReallocFacts DEF Asks
    <2>4. QED
      BY <2>2, <2>3
  <1>5. \/ \E n \in sizes : o = Malloc(n) \/ o = Calloc(2, n)
        \/ \E b \in Of(u) : o = Free(b.at)
        \/ \E b \in Of(u) : \E n \in sizes : o = Realloc(b.at, n)
    BY DEF LibraryOps
  <1>6. QED
    BY <1>1, <1>2, <1>3, <1>4, <1>5

LEMMA ChildAsksFacts ==
  ASSUME HeapTypes, ChildAsks
  PROVE  \E o : op' = [op EXCEPT !["child"] = o] /\ Asks("child", LibSizes, o)
  BY ShimHeapAssumption, LibraryFacts DEF ChildAsks, Users

LEMMA ConstructorFacts ==
  ASSUME HeapTypes, Constructor
  PROVE  \E o : op' = [op EXCEPT !["main"] = o] /\ Asks("main", BootSizes, o)
  <1>1. BootSizes \subseteq 0 .. W - 1
    BY ShimHeapAssumption
  <1>2. QED
    BY <1>1, LibraryFacts DEF Constructor, Users

-----------------------------------------------------------------------------
(* The bootstrap buffer.                                                   *)

LEMMA NoWrap ==
  ASSUME NEW x \in 0 .. W - 1
  PROVE  (x % W) = x
  <1>1. W \in Nat /\ W > 0
    BY ShimHeapAssumption
  <1>2. QED
    BY <1>1

\* A block and its header, rounded up.
LEMMA BootTotalFacts ==
  ASSUME NEW n \in Nat, n + 2 < W
  PROVE  BootTotal(n) \in {n + 1, n + 2}
  <1>1. ((n + 1) \div 2) * 2 \in {n, n + 1}
    OBVIOUS
  <1>2. (n + 1) % W = n + 1
    BY NoWrap, ShimHeapAssumption
  <1>3. ASSUME NEW m \in {n, n + 1} PROVE (m + 1) % W = m + 1
    BY NoWrap, ShimHeapAssumption
  <1>4. QED
    BY <1>1, <1>2, <1>3 DEF BootTotal

\* Who takes from it: constructors only.
LEMMA BootstrapFacts ==
  ASSUME HeapTypes, OpTypes, LoopTypes, OpsOK, LoopOpOK, UnmappedOK, NEW u \in Users, Bootstrap(u)
  PROVE  /\ u \in {"main", "loop"}
         /\ \/ Outcome(u, op[u], None) /\ offset' = offset
            \/ /\ u = "main" /\ op[u].do # "free"
               /\ offset + 1 + op[u].size <= offset' /\ offset' \in 0 .. BootSize
               /\ Outcome(u, op[u], BootBase + offset + 1)
  <1>1. /\ ~mapped /\ Runs(u) /\ op[u].step = "want" /\ Busy(u)
        /\ Outcome(u, op[u], IF op[u].do # "free" /\ (offset + BootTotal(op[u].size)) % W <= BootSize
                             THEN BootBase + offset + 1 ELSE None)
        /\ offset' = IF op[u].do # "free" /\ (offset + BootTotal(op[u].size)) % W <= BootSize
                     THEN (offset + BootTotal(op[u].size)) % W ELSE offset
    BY DEF Bootstrap, Busy
  <1>2. u \in {"main", "loop"} /\ (u = "loop" => pc \in {"message", "unwind"})
    BY <1>1 DEF UnmappedOK, OpsOK, LoopOpOK, Busy, Users
  <1>3. op[u].do # "free" => op[u].size + 2 + BootSize < W /\ op[u].size \in Nat
    BY <1>1, <1>2, ShimHeapAssumption DEF OpsOK, LoopOpOK, OpTypes, OpRecords
  <1>4. op[u].do # "free" => /\ BootTotal(op[u].size) \in {op[u].size + 1, op[u].size + 2}
                            /\ (offset + BootTotal(op[u].size)) % W = offset + BootTotal(op[u].size)
    <2> SUFFICES ASSUME op[u].do # "free"
                 PROVE  /\ BootTotal(op[u].size) \in {op[u].size + 1, op[u].size + 2}
                        /\ (offset + BootTotal(op[u].size)) % W = offset + BootTotal(op[u].size)
      OBVIOUS
    <2>1. BootTotal(op[u].size) \in {op[u].size + 1, op[u].size + 2}
      BY <1>3, BootTotalFacts, ShimHeapAssumption
    <2>2. offset + BootTotal(op[u].size) \in 0 .. W - 1
      BY <1>3, <2>1, ShimHeapAssumption DEF HeapTypes
    <2>3. QED
      BY <2>1, <2>2, NoWrap
  <1>5. u = "loop" => op[u].do = "free" \/ offset + BootTotal(op[u].size) > BootSize
    BY <1>1, <1>2, <1>3, <1>4, ShimHeapAssumption DEF LoopOpOK, HeapTypes
  <1>6. CASE op[u].do = "free" \/ offset + BootTotal(op[u].size) > BootSize
    <2>1. ~(op[u].do # "free" /\ (offset + BootTotal(op[u].size)) % W <= BootSize)
      BY <1>3, <1>4, <1>6, ShimHeapAssumption DEF HeapTypes
    <2>2. QED
      BY <1>1, <1>2, <2>1
  <1>7. CASE op[u].do # "free" /\ ~(offset + BootTotal(op[u].size) > BootSize)
    <2>1. /\ op[u].do # "free" /\ (offset + BootTotal(op[u].size)) % W <= BootSize
          /\ offset + 1 + op[u].size <= offset + BootTotal(op[u].size)
          /\ offset + BootTotal(op[u].size) <= BootSize
      BY <1>3, <1>4, <1>7, ShimHeapAssumption DEF HeapTypes
    <2>2. offset' = offset + BootTotal(op[u].size) /\ Outcome(u, op[u], BootBase + offset + 1)
      BY <1>1, <1>4, <2>1
    <2>3. offset' \in 0 .. BootSize
      BY <1>3, <1>4, <2>1, <2>2, ShimHeapAssumption DEF HeapTypes
    <2>4. QED
      BY <1>2, <1>5, <1>7, <2>1, <2>2, <2>3
  <1>8. QED
    BY <1>6, <1>7

-----------------------------------------------------------------------------
(* What an operation does to the blocks.                                   *)

\* u's operation got place a: what is new and what is gone.
LEMMA OutcomeFacts ==
  ASSUME HeapTypes, OpTypes, NEW u \in Users, NEW a \in Nat \cup {None}, Outcome(u, op[u], a),
         op[u].do # "free" => op[u].len >= 1, op[u].do = "malloc" => op[u].at = None,
         op[u].do \in {"malloc", "free", "realloc"}
  PROVE  /\ \A b \in blocks' : \/ b \in blocks /\ (op[u].do = "free" \/ a # None => b.at # op[u].at)
                               \/ a # None /\ b = [at |-> a, len |-> op[u].len, of |-> Owner(u)]
         /\ \A b \in blocks : b \in blocks' \/ (op[u].do # "malloc" /\ b.at = op[u].at)
         /\ a # None => [at |-> a, len |-> op[u].len, of |-> Owner(u)] \in blocks'
         /\ op' = [op EXCEPT ![u] = Done(a)]
  <1>1. \A b \in blocks : b.at # None
    BY ShimHeapAssumption DEF HeapTypes, BlockRecords
  <1>2. At(op[u].at) \subseteq blocks /\ \A b \in blocks : b \in At(op[u].at) <=> b.at = op[u].at
    BY DEF At
  <1>3. QED
    BY <1>1, <1>2 DEF Outcome

\* A place that fits.
LEMMA PlacesFacts ==
  ASSUME HeapTypes, NEW o \in OpRecords, o.size >= 1, NEW a \in Places(o)
  PROVE  /\ a \in Nat
         /\ \/ /\ a + o.size <= RegionSize
               /\ \A b \in blocks : b.at = o.at \/ b.at + b.len <= a \/ a + o.size <= b.at
            \/ /\ a \in Elsewhere /\ o.size \in HugeSizes
               /\ \A b \in blocks : b.at # a
  <1>1. \A b \in blocks : b.at \in Nat /\ b.len \in Nat /\ b.len >= 1
    BY DEF HeapTypes, BlockRecords
  <1>2. ASSUME NEW x \in Nat, NEW S \in SUBSET blocks, Fits(x, o.size, S)
        PROVE  /\ x + o.size <= RegionSize
               /\ \A b \in S : b.at + b.len <= x \/ x + o.size <= b.at
    <2> SUFFICES ASSUME NEW b \in S PROVE b.at + b.len <= x \/ x + o.size <= b.at
      BY <1>2 DEF Fits
    <2>1. o.size \in Nat
      BY ShimHeapAssumption DEF OpRecords
    <2>2. (b.at .. b.at + b.len - 1) \cap (x .. x + o.size - 1) = {}
      BY <1>2 DEF Fits, Extent
    <2>3. b.at \notin x .. x + o.size - 1 \/ b.at \notin b.at .. b.at + b.len - 1
      BY <2>2
    <2>4. x \notin x .. x + o.size - 1 \/ x \notin b.at .. b.at + b.len - 1
      BY <2>2
    <2>5. QED
      BY <1>1, <2>1, <2>3, <2>4
  <1>3. CASE a \in {b.at + b.len : b \in blocks} /\ Fits(a, o.size, blocks)
    BY <1>1, <1>2, <1>3
  <1>4. CASE a \in Region \cap {o.at} /\ Fits(a, o.size, blocks \ At(o.at))
    <2>1. a \in Nat /\ a = o.at
      BY <1>4, ShimHeapAssumption DEF Region
    <2>2. \A b \in blocks : b.at = o.at \/ b \in blocks \ At(o.at)
      BY DEF At
    <2>3. QED
      BY <1>2, <1>4, <2>1, <2>2
  <1>5. CASE a \in Elsewhere /\ o.size \in HugeSizes /\ At(a) = {}
    BY <1>5, ShimHeapAssumption DEF At
  <1>6. QED
    BY <1>3, <1>4, <1>5 DEF Places

\* Entering the mspace.
LEMMA EnterFacts ==
  ASSUME HeapTypes, OpTypes, OpsOK, NEW u \in Users, Enter(u)
  PROVE  \E r \in OpRecords :
           /\ op' = [op EXCEPT ![u] = r]
           /\ r.step = "in" /\ r.do = op[u].do /\ r.at = op[u].at
           /\ r.size = op[u].size /\ r.len = op[u].len
           /\ r.do = "free" => r.spot = None
           /\ r.spot # None =>
                \/ /\ r.spot + r.len <= RegionSize
                   /\ \A b \in blocks : b.at = r.at \/ b.at + b.len <= r.spot \/ r.spot + r.len <= b.at
                \/ /\ r.spot \in Elsewhere /\ r.len \in HugeSizes
                   /\ \A b \in blocks : b.at # r.spot
  <1>1. PICK a \in IF op[u].do = "free" \/ Places(op[u]) = {} THEN {None} ELSE Places(op[u]) :
           op' = [op EXCEPT ![u] = [@ EXCEPT !.step = "in", !.spot = a]]
    BY DEF Enter
  <1>2. op[u] \in OpRecords
    BY DEF OpTypes
  <1>3. a = None \/ (op[u].do # "free" /\ a \in Places(op[u]))
    BY <1>1
  <1>4. a # None => op[u].size = op[u].len /\ op[u].size >= 1
    BY <1>3 DEF Enter, OpsOK, Busy
  <1>5. a # None => /\ a \in Nat
                    /\ \/ /\ a + op[u].size <= RegionSize
                          /\ \A b \in blocks : b.at = op[u].at \/ b.at + b.len <= a \/ a + op[u].size <= b.at
                       \/ /\ a \in Elsewhere /\ op[u].size \in HugeSizes
                          /\ \A b \in blocks : b.at # a
    BY <1>2, <1>3, <1>4, PlacesFacts
  <1>6. PICK r : r = [op[u] EXCEPT !.step = "in", !.spot = a]
    OBVIOUS
  <1>7. /\ r \in OpRecords /\ r.step = "in" /\ r.do = op[u].do /\ r.at = op[u].at
        /\ r.size = op[u].size /\ r.len = op[u].len /\ r.spot = a
    BY <1>2, <1>5, <1>6 DEF OpRecords
  <1>8. op' = [op EXCEPT ![u] = r]
    BY <1>1, <1>6
  <1>9. r.do = "free" => r.spot = None
    BY <1>3, <1>7
  <1>10. r.spot # None =>
                \/ /\ r.spot + r.len <= RegionSize
                   /\ \A b \in blocks : b.at = r.at \/ b.at + b.len <= r.spot \/ r.spot + r.len <= b.at
                \/ /\ r.spot \in Elsewhere /\ r.len \in HugeSizes
                   /\ \A b \in blocks : b.at # r.spot
    BY <1>4, <1>5, <1>7
  <1>11. QED
    BY <1>7, <1>8, <1>9, <1>10

\* Leaving the mspace.
LEMMA LeaveFacts ==
  ASSUME HeapTypes, OpTypes, OpsOK, NEW u \in Users, Leave(u)
  PROVE  /\ Runs(u) /\ op[u].step = "in" /\ Busy(u) /\ lock' = None
         /\ op[u].spot \in Nat \cup {None} /\ Outcome(u, op[u], op[u].spot)
         /\ op[u].do # "free" => op[u].len >= 1
         /\ op[u].do = "malloc" => op[u].at = None
         /\ op[u].do \in {"malloc", "free", "realloc"}
         /\ op[u].spot # None => op[u].do # "free" /\ op[u].len \in 1 .. W - 1
  BY DEF Leave, OpTypes, OpRecords, OpsOK, Busy

\* The blocks and who uses them change hands only where they are given up.
LEMMA LosesFacts ==
  ASSUME HeapTypes, NEW v \in Nat \cup {None}, Loses(v)
  PROVE  /\ \A b \in blocks' : \/ b \in blocks /\ (b.of = "child" => b.at = v)
                               \/ \E c \in blocks : /\ c.of = "child" /\ c.at # v
                                                    /\ b = [c EXCEPT !.of = "nobody"]
         /\ \A c \in blocks : \/ c \in blocks'
                              \/ c.of = "child" /\ c.at # v /\ [c EXCEPT !.of = "nobody"] \in blocks'
  BY DEF Loses, Of

LEMMA ReplyFacts ==
  ASSUME HeapTypes, LoopTypes, Reply
  PROVE  /\ \A b \in blocks' : \/ b \in blocks /\ b.at # result
                               \/ \E c \in blocks : c.at = result /\ b = [c EXCEPT !.of = "host"]
         /\ \A c \in blocks : \/ c \in blocks' /\ c.at # result
                              \/ c.at = result /\ [c EXCEPT !.of = "host"] \in blocks'
         /\ held \subseteq held'
         /\ \A h \in held' : h \in held \/ \E c \in blocks : c.at = result /\ h = [at |-> c.at, len |-> c.len]
  <1> DEFINE given == IF result = None THEN {} ELSE At(result)
  <1>1. /\ held' = held \cup {[at |-> b.at, len |-> b.len] : b \in given}
        /\ blocks' = (blocks \ given) \cup {[b EXCEPT !.of = "host"] : b \in given}
    BY DEF Reply
  <1>2. given \subseteq blocks /\ \A b \in blocks : b \in given <=> b.at = result
    BY ShimHeapAssumption DEF At, HeapTypes, BlockRecords
  <1> HIDE DEF given
  <1>3. QED
    BY <1>1, <1>2

\* The loop asks for a vector.
LEMMA ReserveFacts ==
  ASSUME OpTypes, LoopTypes, LoopOpOK, ReserveTags \/ ReserveVals
  PROVE  /\ pc \in {"reading", "tags"} /\ pc' \in {"tags", "vals"} /\ op["loop"].step = "done"
         /\ req # None /\ req.kind = "invoke" /\ UNCHANGED <<heapVars, child, result, hostVars>>
         /\ \E r \in OpRecords :
              /\ op' = [op EXCEPT !["loop"] = r] /\ r.step \in {"want", "done"} /\ r.at = None
              /\ r.step = "want" => /\ r.do = "malloc" /\ r.size = r.len /\ r.len >= 1
                                    /\ r.len \notin HugeSizes
  <1>1. /\ pc \in {"reading", "tags"} /\ pc' \in {"tags", "vals"} /\ op["loop"].step = "done"
        /\ req # None /\ req.kind = "invoke" /\ UNCHANGED <<heapVars, child, result, hostVars>>
    BY DEF ReserveTags, ReserveVals, HasRequest, Reserve, Reserved, Got, LoopGoes, LoopOpOK
  <1>2. req.size \in ArgCounts /\ req.size \in 0 .. W - 1 /\ req.size \in Nat
    BY <1>1, ShimHeapAssumption DEF LoopTypes
  <1>3. PICK n \in {(req.size + 1) \div 2, req.size} :
          op' = [op EXCEPT !["loop"] = IF n = 0 THEN Done(None) ELSE Malloc(n)]
    BY DEF ReserveTags, ReserveVals, Reserve, LoopGoes
  <1>4. n \in 0 .. W - 1 /\ n \notin HugeSizes
    <2>1. \A k \in Nat : ((k + 1) \div 2) \in Nat /\ ((k + 1) \div 2) <= k
      OBVIOUS
    <2>2. QED
      BY <1>2, <1>3, <2>1, ShimHeapAssumption
  <1>5. None \in Nat \cup {None}
    OBVIOUS
  <1>6. CASE n = 0
    BY <1>1, <1>3, <1>5, <1>6, DoneFacts
  <1>7. CASE n # 0
    <2>1. n >= 1
      BY <1>4, <1>7, ShimHeapAssumption
    <2>2. QED
      BY <1>1, <1>3, <1>4, <1>7, <2>1, MallocFacts
  <1>8. QED
    BY <1>6, <1>7

-----------------------------------------------------------------------------
\* Every step keeps the types: of the loop and the host,
LEMMA LoopTypesStep ==
  ASSUME HeapTypes, OpTypes, LoopTypes, OpsOK, [Next]_vars
  PROVE  LoopTypes'
  <1> USE ShimHeapAssumption DEF LoopTypes, Labels, heapVars, hostVars, Got, Ready
  <1>1. CASE NewMessage
    BY <1>1 DEF NewMessage, LoopGoes, LoopAt
  <1>2. CASE MessageMade
    BY <1>2 DEF MessageMade, LoopGoes
  <1>3. CASE ReadRequest
    BY <1>3 DEF ReadRequest, LoopGoes, LoopAt
  <1>4. CASE NoRoomForRequest
    BY <1>4 DEF NoRoomForRequest, LoopGoes
  <1>5. CASE Allocate
    BY <1>5 DEF Allocate, HasRequest, LoopGoes
  <1>6. CASE Allocated
    <2>1. op["loop"].at \in Nat \cup {None}
      BY DEF OpTypes, OpRecords, Users
    <2>2. QED
      BY <1>6, <2>1 DEF Allocated, Answers, LoopGoes
  <1>7. CASE Release
    BY <1>7 DEF Release, HasRequest, LoopGoes
  <1>8. CASE Freed
    BY <1>8 DEF Freed, Answers, LoopGoes
  <1>9a. CASE ReserveTags
    BY <1>9a DEF ReserveTags, Reserve, LoopGoes
  <1>9b. CASE ReserveVals
    BY <1>9b DEF ReserveVals, Reserve, LoopGoes
  <1>9c. CASE NoRoomForVector
    BY <1>9c DEF NoRoomForVector, LoopGoes
  <1>9. CASE TakeWorker
    BY <1>9 DEF TakeWorker, Reserved, LoopGoes
  <1>10. CASE Invoke
    BY <1>10 DEF Invoke, LoopGoes
  <1>11. CASE CallOver
    BY <1>11 DEF CallOver, LoopGoes, LoopAt
  <1>11a. CASE FreeVectors
    BY <1>11a DEF FreeVectors, LoopGoes
  <1>12. CASE Reply
    <2>1. \A h \in held' : h \in [at : Nat, len : 1 .. W - 1]
      BY <1>12, ReplyFacts DEF HeapTypes, BlockRecords
    <2>2. QED
      BY <1>12, <2>1 DEF Reply, LoopGoes
  <1>13. CASE Drop
    BY <1>13 DEF Drop, LoopGoes
  <1>14. CASE Refill
    BY <1>14 DEF Refill
  <1>15. CASE Refilled
    BY <1>15 DEF Refilled, LockOfDead
  <1>16. CASE Constructor
    BY <1>16 DEF Constructor, LibraryAsks
  <1>17. CASE HostAsks
    <2>1. \A h \in held : h.at \in Nat
      OBVIOUS
    <2>2. req' \in [kind : {"allocate", "release", "invoke"}, size : 0 .. W - 1, at : Nat \cup {None}]
      <3>1. 0 \in 0 .. W - 1 /\ HostSizes \subseteq 0 .. W - 1
        OBVIOUS
      <3>2. CASE \E z \in HostSizes : req' = [kind |-> "allocate", size |-> z, at |-> None]
        BY <3>1, <3>2
      <3>3. CASE \E h \in held : req' = [kind |-> "release", size |-> 0, at |-> h.at]
        BY <2>1, <3>1, <3>3
      <3>4. CASE req' = [kind |-> "invoke", size |-> 0, at |-> None]
        BY <3>1, <3>4
      <3>5. QED
        BY <1>17, <3>2, <3>3, <3>4 DEF HostAsks
    <2>3. held' \subseteq held
      BY <1>17 DEF HostAsks
    <2>4. QED
      BY <1>17, <2>2, <2>3 DEF HostAsks
  <1>18. CASE ChildAsks
    BY <1>18 DEF ChildAsks, LibraryAsks
  <1>19. CASE ChildReturns
    BY <1>19 DEF ChildReturns, HeapTypes, BlockRecords, Of
  <1>20. CASE ChildDies
    BY <1>20 DEF ChildDies, LockOfDead
  <1>21. ASSUME NEW u \in Users, Enter(u) PROVE LoopTypes'
    BY <1>21 DEF Enter
  <1>22. ASSUME NEW u \in Users, Leave(u) PROVE LoopTypes'
    BY <1>22 DEF Leave
  <1>23. ASSUME NEW u \in Users, Bootstrap(u) PROVE LoopTypes'
    BY <1>23 DEF Bootstrap
  <1>24. CASE UNCHANGED vars
    BY <1>24 DEF vars
  <1>25. QED
    BY <1>1, <1>2, <1>3, <1>4, <1>5, <1>6, <1>7, <1>8, <1>9, <1>9a, <1>9b, <1>9c, <1>10, <1>11, <1>11a, <1>12,
       <1>13, <1>14, <1>15, <1>16, <1>17, <1>18, <1>19, <1>20, <1>21, <1>22, <1>23, <1>24
    DEF Next, LoopStep, HeapStep

\* of the operations,
LEMMA OpTypesStep ==
  ASSUME HeapTypes, OpTypes, LoopTypes, OpsOK, LoopOpOK, UnmappedOK, ReqOK, [Next]_vars
  PROVE  OpTypes'
  <1> USE IdleFacts DEF OpTypes, heapVars, hostVars, Got, Ready
  <1>1. CASE NewMessage
    BY <1>1, MallocFacts, CallocFacts, SizeFacts DEF NewMessage, LoopGoes
  <1>2. CASE MessageMade
    BY <1>2 DEF MessageMade, LoopGoes
  <1>3. CASE ReadRequest
    BY <1>3, MallocFacts, SizeFacts DEF ReadRequest, LoopGoes
  <1>4. CASE NoRoomForRequest
    BY <1>4 DEF NoRoomForRequest, LoopGoes
  <1>5. CASE Allocate
    <2>1. req.size \in 0 .. W - 1
      BY <1>5 DEF Allocate, HasRequest, LoopTypes, LoopOpOK
    <2>2. QED
      BY <1>5, <2>1, MallocFacts DEF Allocate, LoopGoes
  <1>6. CASE Allocated
    <2>1. op["loop"].at \in Nat \cup {None}
      BY DEF OpRecords, Users
    <2>2. QED
      BY <1>6, <2>1, FreeFacts DEF Allocated, Answers, LoopGoes
  <1>7. CASE Release
    <2>1. req.at \in Nat
      BY <1>7 DEF Release, HasRequest, LoopOpOK, ReqOK, HeapTypes, BlockRecords
    <2>2. QED
      BY <1>7, <2>1, FreeFacts DEF Release, LoopGoes
  <1>8. CASE Freed
    BY <1>8 DEF Freed, Answers, LoopGoes
  <1>9a. CASE ReserveTags \/ ReserveVals
    <2>1. /\ pc \in {"reading", "tags"} /\ pc' \in {"tags", "vals"} /\ op["loop"].step = "done"
          /\ req # None /\ req.kind = "invoke" /\ UNCHANGED <<heapVars, child, result, hostVars>>
      BY <1>9a, ReserveFacts
    <2>2. PICK r \in OpRecords :
            /\ op' = [op EXCEPT !["loop"] = r] /\ r.step \in {"want", "done"} /\ r.at = None
            /\ r.step = "want" => /\ r.do = "malloc" /\ r.size = r.len /\ r.len >= 1
                                  /\ r.len \notin HugeSizes
      BY <1>9a, ReserveFacts
    <2>3. QED
      BY <2>1, <2>2
  <1>9c. CASE NoRoomForVector
    BY <1>9c DEF NoRoomForVector, LoopGoes
  <1>9. CASE TakeWorker
    <2>1. Done(None) \in OpRecords
      BY DoneFacts
    <2>2. \A b \in Of("refill") : Free(b.at) \in OpRecords
      BY FreeFacts DEF Of, HeapTypes, BlockRecords
    <2>3. QED
      BY <1>9, <2>1, <2>2 DEF TakeWorker, Reserved, LoopGoes
  <1>10. CASE Invoke
    BY <1>10 DEF Invoke, LoopGoes
  <1>11. CASE CallOver
    BY <1>11 DEF CallOver, LoopGoes, LoopAt
  <1>11a. CASE FreeVectors
    <2>1. \A b \in Of("args") : Free(b.at) \in OpRecords
      BY FreeFacts DEF Of, HeapTypes, BlockRecords
    <2>2. QED
      BY <1>11a, <2>1 DEF FreeVectors, LoopGoes
  <1>12. CASE Reply
    BY <1>12 DEF Reply, LoopGoes, LoopAt
  <1>13. CASE Drop
    <2>1. \A b \in Of("loop") \cup Of("args") : Free(b.at) \in OpRecords
      BY FreeFacts DEF Of, HeapTypes, BlockRecords
    <2>2. QED
      BY <1>13, <2>1 DEF Drop, LoopGoes
  <1>14. CASE Refill
    BY <1>14, MallocFacts, SizeFacts DEF Refill
  <1>15. CASE Refilled
    BY <1>15 DEF Refilled, LockOfDead
  <1>16. CASE Constructor
    BY <1>16, ConstructorFacts DEF Asks
  <1>17. CASE HostAsks
    BY <1>17 DEF HostAsks
  <1>18. CASE ChildAsks
    BY <1>18, ChildAsksFacts DEF Asks
  <1>19. CASE ChildReturns
    BY <1>19 DEF ChildReturns
  <1>20. CASE ChildDies
    BY <1>20 DEF ChildDies, LockOfDead
  <1>21. ASSUME NEW u \in Users, Enter(u) PROVE OpTypes'
    <2>1. PICK r \in OpRecords : op' = [op EXCEPT ![u] = r]
      BY <1>21, EnterFacts
    <2>2. QED
      BY <2>1
  <1>22. ASSUME NEW u \in Users, Leave(u) PROVE OpTypes'
    <2>1. op' = [op EXCEPT ![u] = Done(op[u].spot)] /\ op[u].spot \in Nat \cup {None}
      BY <1>22, LeaveFacts DEF Outcome
    <2>2. QED
      BY <2>1, DoneFacts
  <1>23. ASSUME NEW u \in Users, Bootstrap(u) PROVE OpTypes'
    <2>1. BootBase + offset + 1 \in Nat
      BY ShimHeapAssumption DEF HeapTypes, BootBase
    <2>2. op' = [op EXCEPT ![u] = Done(None)] \/ op' = [op EXCEPT ![u] = Done(BootBase + offset + 1)]
      BY <1>23, BootstrapFacts DEF Outcome
    <2>3. Done(None) \in OpRecords /\ Done(BootBase + offset + 1) \in OpRecords
      BY <2>1, DoneFacts
    <2>4. QED
      BY <2>2, <2>3
  <1>24. CASE UNCHANGED vars
    BY <1>24 DEF vars
  <1>25. QED
    BY <1>1, <1>2, <1>3, <1>4, <1>5, <1>6, <1>7, <1>8, <1>9, <1>9a, <1>9c, <1>10, <1>11, <1>11a, <1>12,
       <1>13, <1>14, <1>15, <1>16, <1>17, <1>18, <1>19, <1>20, <1>21, <1>22, <1>23, <1>24
    DEF Next, LoopStep, HeapStep

\* An operation asks for what its caller wants.
LEMMA OpsStep ==
  ASSUME HeapTypes, OpTypes, LoopTypes, OpsOK, LoopOpOK, UnmappedOK, ReqOK, [Next]_vars
  PROVE  OpsOK'
  <1> USE IdleFacts DEF OpsOK, OpTypes, Busy, Users, heapVars, hostVars, Got, Ready
  <1>1. CASE NewMessage
    BY <1>1, MallocFacts, CallocFacts, SizeFacts DEF NewMessage, LoopGoes
  <1>2. CASE MessageMade
    BY <1>2 DEF MessageMade, LoopGoes
  <1>3. CASE ReadRequest
    BY <1>3, MallocFacts, SizeFacts DEF ReadRequest, LoopGoes
  <1>4. CASE NoRoomForRequest
    BY <1>4 DEF NoRoomForRequest, LoopGoes
  <1>5. CASE Allocate
    <2>1. req.size \in 0 .. W - 1
      BY <1>5 DEF Allocate, HasRequest, LoopTypes, LoopOpOK
    <2>2. QED
      BY <1>5, <2>1, MallocFacts DEF Allocate, LoopGoes
  <1>6. CASE Allocated
    <2>1. op["loop"].at \in Nat \cup {None}
      BY DEF OpRecords
    <2>2. QED
      BY <1>6, <2>1, FreeFacts DEF Allocated, Answers, LoopGoes
  <1>7. CASE Release
    <2>1. req.at \in Nat
      BY <1>7 DEF Release, HasRequest, LoopOpOK, ReqOK, HeapTypes, BlockRecords
    <2>2. QED
      BY <1>7, <2>1, FreeFacts DEF Release, LoopGoes
  <1>8. CASE Freed
    BY <1>8 DEF Freed, Answers, LoopGoes
  <1>9a. CASE ReserveTags \/ ReserveVals
    <2>1. /\ pc \in {"reading", "tags"} /\ pc' \in {"tags", "vals"} /\ op["loop"].step = "done"
          /\ req # None /\ req.kind = "invoke" /\ UNCHANGED <<heapVars, child, result, hostVars>>
      BY <1>9a, ReserveFacts
    <2>2. PICK r \in OpRecords :
            /\ op' = [op EXCEPT !["loop"] = r] /\ r.step \in {"want", "done"} /\ r.at = None
            /\ r.step = "want" => /\ r.do = "malloc" /\ r.size = r.len /\ r.len >= 1
                                  /\ r.len \notin HugeSizes
      BY <1>9a, ReserveFacts
    <2>3. QED
      BY <2>1, <2>2
  <1>9c. CASE NoRoomForVector
    BY <1>9c DEF NoRoomForVector, LoopGoes
  <1>9. CASE TakeWorker
    <2>1. Done(None).step = "done"
      BY DoneFacts
    <2>2. \A b \in Of("refill") : Free(b.at).step = "want" /\ Free(b.at).do = "free" /\ Free(b.at).spot = None
      BY FreeFacts DEF Of, HeapTypes, BlockRecords
    <2>3. QED
      BY <1>9, <2>1, <2>2 DEF TakeWorker, Reserved, LoopGoes
  <1>10. CASE Invoke
    BY <1>10 DEF Invoke, LoopGoes
  <1>11. CASE CallOver
    BY <1>11 DEF CallOver, LoopGoes, LoopAt
  <1>11a. CASE FreeVectors
    <2>1. \A b \in Of("args") : Free(b.at).step = "want" /\ Free(b.at).do = "free" /\ Free(b.at).spot = None
      BY FreeFacts DEF Of, HeapTypes, BlockRecords
    <2>2. QED
      BY <1>11a, <2>1 DEF FreeVectors, LoopGoes
  <1>12. CASE Reply
    BY <1>12 DEF Reply, LoopGoes, LoopAt
  <1>13. CASE Drop
    <2>1. \A b \in Of("loop") \cup Of("args") : Free(b.at).step = "want" /\ Free(b.at).do = "free" /\ Free(b.at).spot = None
      BY FreeFacts DEF Of, HeapTypes, BlockRecords
    <2>2. QED
      BY <1>13, <2>1 DEF Drop, LoopGoes
  <1>14. CASE Refill
    BY <1>14, MallocFacts, SizeFacts DEF Refill
  <1>15. CASE Refilled
    BY <1>15 DEF Refilled, LockOfDead
  <1>16. CASE Constructor
    <2>1. PICK o : op' = [op EXCEPT !["main"] = o] /\ Asks("main", BootSizes, o)
      BY <1>16, ConstructorFacts
    <2>2. o.do # "free" /\ o.step = "want" => o.size + 2 + BootSize < W
      BY <2>1, ShimHeapAssumption DEF Asks
    <2>3. QED
      BY <1>16, <2>1, <2>2 DEF Asks, Constructor, LibraryAsks
  <1>17. CASE HostAsks
    BY <1>17 DEF HostAsks
  <1>18. CASE ChildAsks
    <2>1. PICK o : op' = [op EXCEPT !["child"] = o] /\ Asks("child", LibSizes, o)
      BY <1>18, ChildAsksFacts
    <2>2. o.do # "free" /\ o.step = "want" => o.len \notin HugeSizes
      BY <2>1, ShimHeapAssumption DEF Asks
    <2>3. QED
      BY <1>18, <2>1, <2>2 DEF Asks, ChildAsks, LibraryAsks
  <1>19. CASE ChildReturns
    BY <1>19 DEF ChildReturns
  <1>20. CASE ChildDies
    BY <1>20 DEF ChildDies, LockOfDead
  <1>21. ASSUME NEW u \in Users, Enter(u) PROVE OpsOK'
    <2>1. PICK r \in OpRecords :
            /\ op' = [op EXCEPT ![u] = r] /\ r.step = "in" /\ r.do = op[u].do /\ r.at = op[u].at
            /\ r.size = op[u].size /\ r.len = op[u].len /\ (r.do = "free" => r.spot = None)
      BY <1>21, EnterFacts
    <2>2. op[u].step = "want"
      BY <1>21 DEF Enter
    <2>3. op'[u] = r
      BY <2>1
    <2>4. \A v \in Users \ {u} : op'[v] = op[v]
      BY <2>1
    <2>5. QED
      BY <1>21, <2>1, <2>2, <2>3, <2>4 DEF Enter
  <1>22. ASSUME NEW u \in Users, Leave(u) PROVE OpsOK'
    <2>1. op' = [op EXCEPT ![u] = Done(op[u].spot)] /\ op[u].spot \in Nat \cup {None}
      BY <1>22, LeaveFacts DEF Outcome
    <2>2. op'[u].step = "done" /\ \A v \in Users \ {u} : op'[v] = op[v]
      BY <2>1, DoneFacts
    <2>3. QED
      BY <1>22, <2>2 DEF Leave
  <1>23. ASSUME NEW u \in Users, Bootstrap(u) PROVE OpsOK'
    <2>1. BootBase + offset + 1 \in Nat
      BY ShimHeapAssumption DEF HeapTypes, BootBase
    <2>2. op' = [op EXCEPT ![u] = Done(None)] \/ op' = [op EXCEPT ![u] = Done(BootBase + offset + 1)]
      BY <1>23, BootstrapFacts DEF Outcome
    <2>3. Done(None).step = "done" /\ Done(BootBase + offset + 1).step = "done"
      BY <2>1, DoneFacts
    <2>4. op'[u].step = "done" /\ \A v \in Users \ {u} : op'[v] = op[v]
      BY <2>2, <2>3
    <2>5. QED
      BY <1>23, <2>4 DEF Bootstrap
  <1>24. CASE UNCHANGED vars
    BY <1>24 DEF vars
  <1>25. QED
    BY <1>1, <1>2, <1>3, <1>4, <1>5, <1>6, <1>7, <1>8, <1>9, <1>9a, <1>9c, <1>10, <1>11, <1>11a, <1>12,
       <1>13, <1>14, <1>15, <1>16, <1>17, <1>18, <1>19, <1>20, <1>21, <1>22, <1>23, <1>24
    DEF Next, LoopStep, HeapStep

-----------------------------------------------------------------------------
(* A user leaves the mspace, or the bootstrap buffer.                      *)

New(u, a) == [at |-> a, len |-> op[u].len, of |-> Owner(u)]

\* What u's operation did: it got a place, or none.
Effect(u, a) ==
    /\ op' = [op EXCEPT ![u] = Done(a)]
    /\ offset' \in offset .. BootSize
    /\ \A b \in blocks' :
         \/ a # None /\ b = New(u, a)
         \/ /\ b \in blocks
            /\ op[u].do = "free" => b.at # op[u].at
            /\ a # None => Disjoint(b, New(u, a))
    /\ \A b \in blocks : \/ b \in blocks'
                         \/ op[u].do # "malloc" /\ b.at = op[u].at /\ May(u, b)
    /\ a # None =>
         /\ New(u, a) \in blocks' /\ op[u].do # "free" /\ op[u].len \in 1 .. W - 1
         /\ mapped => \/ a + op[u].len <= RegionSize
                      \/ a \in Elsewhere /\ op[u].len \in HugeSizes /\ Owner(u) = "answer"
         /\ ~mapped => /\ u = "main" /\ BootBase < a
                       /\ a + op[u].len <= BootBase + offset'

\* Two blocks at one place are one.
LEMMA SameBlock ==
  ASSUME HeapTypes, Apart, NEW b \in blocks, NEW c \in blocks, b.at = c.at
  PROVE  b = c
  <1>1. b.at \in Nat /\ b.len \in Nat /\ b.len >= 1 /\ c.len \in Nat /\ c.len >= 1
    BY DEF HeapTypes, BlockRecords
  <1>2. QED
    BY <1>1 DEF Apart, Disjoint

LEMMA TargetFacts ==
  ASSUME HeapTypes, Apart, TargetsOK, NEW u \in Users, Runs(u), Busy(u), op[u].do # "malloc",
         NEW b \in blocks, b.at = op[u].at
  PROVE  May(u, b)
  <1>1. PICK c \in blocks : c.at = op[u].at /\ May(u, c)
    BY DEF TargetsOK
  <1>2. b = c
    BY <1>1, SameBlock
  <1>3. QED
    BY <1>1, <1>2

LEMMA LeaveEffect ==
  ASSUME HeapTypes, OpTypes, LoopTypes, OpsOK, UnmappedOK, Apart, SpotOK, TargetsOK,
         NEW u \in Users, Leave(u)
  PROVE  /\ Runs(u) /\ Busy(u) /\ op[u].step = "in" /\ lock' = None /\ mapped
         /\ \E a \in Nat \cup {None} : Effect(u, a)
  <1> DEFINE a == op[u].spot
  <1>1. /\ Runs(u) /\ op[u].step = "in" /\ Busy(u) /\ lock' = None
        /\ a \in Nat \cup {None} /\ Outcome(u, op[u], a)
        /\ op[u].do # "free" => op[u].len >= 1
        /\ op[u].do = "malloc" => op[u].at = None
        /\ op[u].do \in {"malloc", "free", "realloc"}
        /\ a # None => op[u].do # "free" /\ op[u].len \in 1 .. W - 1
    BY LeaveFacts
  <1>2. mapped
    BY <1>1 DEF UnmappedOK
  <1>3. /\ \A b \in blocks' : \/ b \in blocks /\ (op[u].do = "free" \/ a # None => b.at # op[u].at)
                              \/ a # None /\ b = New(u, a)
        /\ \A b \in blocks : b \in blocks' \/ (op[u].do # "malloc" /\ b.at = op[u].at)
        /\ a # None => New(u, a) \in blocks'
        /\ op' = [op EXCEPT ![u] = Done(a)]
    BY <1>1, OutcomeFacts DEF New
  <1>4. offset' \in offset .. BootSize
    BY ShimHeapAssumption DEF Leave, HeapTypes
  <1>5. ASSUME a # None, NEW b \in blocks, b.at # op[u].at PROVE Disjoint(b, New(u, a))
    BY <1>1, <1>5 DEF SpotOK, Disjoint, New
  <1>6. ASSUME NEW b \in blocks, op[u].do # "malloc", b.at = op[u].at PROVE May(u, b)
    BY <1>1, <1>6, TargetFacts
  <1>7. ASSUME a # None
        PROVE  \/ a + op[u].len <= RegionSize
               \/ a \in Elsewhere /\ op[u].len \in HugeSizes /\ Owner(u) = "answer"
    <2>1. a + op[u].len <= RegionSize \/ (a \in Elsewhere /\ op[u].len \in HugeSizes)
      BY <1>1, <1>7 DEF SpotOK
    <2>2. op[u].len \in HugeSizes => Owner(u) = "answer"
      BY <1>1, <1>2, <1>7 DEF OpsOK, Owner, Runs
    <2>3. QED
      BY <2>1, <2>2
  <1> HIDE DEF a
  <1>8. Effect(u, a)
    BY <1>1, <1>2, <1>3, <1>4, <1>5, <1>6, <1>7 DEF Effect
  <1>9. QED
    BY <1>1, <1>2, <1>8

LEMMA BootstrapEffect ==
  ASSUME HeapTypes, OpTypes, LoopTypes, OpsOK, LoopOpOK, UnmappedOK, PlacesOK, Apart, TargetsOK,
         NEW u \in Users, Bootstrap(u)
  PROVE  /\ Runs(u) /\ Busy(u) /\ u \in {"main", "loop"} /\ lock' = lock /\ ~mapped
         /\ \E a \in Nat \cup {None} : Effect(u, a)
  <1>1. PICK a \in Nat \cup {None} :
           /\ Outcome(u, op[u], a)
           /\ \/ a = None /\ offset' = offset
              \/ /\ u = "main" /\ op[u].do # "free" /\ a = BootBase + offset + 1
                 /\ offset + 1 + op[u].size <= offset' /\ offset' \in 0 .. BootSize
    <2>1. BootBase + offset + 1 \in Nat
      BY ShimHeapAssumption DEF HeapTypes, BootBase
    <2>2. QED
      BY <2>1, BootstrapFacts
  <1>2. /\ Runs(u) /\ Busy(u) /\ lock' = lock /\ ~mapped /\ op[u].step = "want"
        /\ op[u].do # "free" => op[u].len >= 1 /\ op[u].size = op[u].len
        /\ op[u].do = "malloc" => op[u].at = None
        /\ op[u].do \in {"malloc", "free", "realloc"}
        /\ op[u].len \in 0 .. W - 1
    BY DEF Bootstrap, OpTypes, OpRecords, OpsOK, Busy
  <1>3. u \in {"main", "loop"}
    BY BootstrapFacts
  <1>4. /\ \A b \in blocks' : \/ b \in blocks /\ (op[u].do = "free" \/ a # None => b.at # op[u].at)
                              \/ a # None /\ b = New(u, a)
        /\ \A b \in blocks : b \in blocks' \/ (op[u].do # "malloc" /\ b.at = op[u].at)
        /\ a # None => New(u, a) \in blocks'
        /\ op' = [op EXCEPT ![u] = Done(a)]
    BY <1>1, <1>2, OutcomeFacts DEF New
  <1>5. /\ offset' \in offset .. BootSize
        /\ a # None => /\ op[u].len \in 1 .. W - 1 /\ u = "main" /\ op[u].do # "free" /\ BootBase < a
                       /\ a + op[u].len <= BootBase + offset'
    <2>1. offset \in Nat /\ BootSize \in Nat /\ BootBase \in Nat
      BY ShimHeapAssumption DEF HeapTypes, BootBase
    <2>2. CASE a = None
      BY <1>1, <1>2, <2>1, <2>2, ShimHeapAssumption DEF HeapTypes
    <2>3. CASE u = "main" /\ a = BootBase + offset + 1 /\ op[u].do # "free"
      <3>1. offset + 1 + op[u].size <= offset' /\ offset' \in 0 .. BootSize
        BY <1>1, <2>1, <2>3, ShimHeapAssumption
      <3>2. op[u].len \in Nat /\ op[u].size = op[u].len /\ op[u].len >= 1 /\ op[u].len \in 1 .. W - 1
        BY <1>2, <2>3, ShimHeapAssumption
      <3>3. QED
        BY <2>1, <2>3, <3>1, <3>2
    <2>4. QED
      BY <1>1, <2>2, <2>3
  <1>6. ASSUME a # None, NEW b \in blocks PROVE Disjoint(b, New(u, a))
    <2>1. b.at + b.len <= BootBase + offset /\ b.at \in Nat /\ b.len \in Nat
      BY <1>2 DEF PlacesOK, HeapTypes, BlockRecords
    <2>2. a = BootBase + offset + 1
      BY <1>1, <1>6
    <2>3. b.at + b.len <= a
      BY <2>1, <2>2, ShimHeapAssumption DEF BootBase, HeapTypes
    <2>4. QED
      BY <2>3 DEF Disjoint, New
  <1>7. ASSUME NEW b \in blocks, op[u].do # "malloc", b.at = op[u].at PROVE May(u, b)
    BY <1>2, <1>7, TargetFacts
  <1>8. Effect(u, a)
    BY <1>2, <1>4, <1>5, <1>6, <1>7 DEF Effect
  <1>9. QED
    BY <1>2, <1>3, <1>8

LEMMA EffectTypes ==
  ASSUME HeapTypes, OpTypes, NEW u \in Users, NEW a \in Nat \cup {None}, Effect(u, a)
  PROVE  blocks' \subseteq BlockRecords /\ offset' \in 0 .. BootSize
  <1>1. Owner(u) \in Users \cup {"answer", "args"}
    BY DEF Owner
  <1>2. offset' \in 0 .. BootSize
    BY ShimHeapAssumption DEF Effect, HeapTypes
  <1>3. ASSUME NEW b \in blocks' PROVE b \in BlockRecords
    BY <1>1 DEF Effect, HeapTypes, BlockRecords, New
  <1>4. QED
    BY <1>2, <1>3

-----------------------------------------------------------------------------
(* The invariant is kept.                                                  *)

\* The types of the heap,
LEMMA HeapTypesStep ==
  ASSUME HeapTypes, OpTypes, LoopTypes, OpsOK, LoopOpOK, LockOK, UnmappedOK,
         PlacesOK, Apart, SpotOK, TargetsOK, ResultOK, ReqOK, AnswerOK, MessagesOK, [Next]_vars
  PROVE  HeapTypes'
  <1> USE ShimHeapAssumption DEF HeapTypes, heapVars, hostVars, Got, Ready
  <1>1. CASE NewMessage
    BY <1>1 DEF NewMessage, LoopGoes, LoopAt
  <1>2. CASE MessageMade
    BY <1>2 DEF MessageMade, LoopGoes
  <1>3. CASE ReadRequest
    BY <1>3 DEF ReadRequest, LoopGoes, LoopAt
  <1>4. CASE NoRoomForRequest
    BY <1>4 DEF NoRoomForRequest, LoopGoes
  <1>5. CASE Allocate
    BY <1>5 DEF Allocate, HasRequest, LoopGoes
  <1>6. CASE Allocated
    BY <1>6 DEF Allocated, Answers, LoopGoes
  <1>7. CASE Release
    BY <1>7 DEF Release, HasRequest, LoopGoes
  <1>8. CASE Freed
    BY <1>8 DEF Freed, Answers, LoopGoes
  <1>9a. CASE ReserveTags \/ ReserveVals
    <2>1. /\ pc \in {"reading", "tags"} /\ pc' \in {"tags", "vals"} /\ op["loop"].step = "done"
          /\ req # None /\ req.kind = "invoke" /\ UNCHANGED <<heapVars, child, result, hostVars>>
      BY <1>9a, ReserveFacts
    <2>2. PICK r \in OpRecords :
            /\ op' = [op EXCEPT !["loop"] = r] /\ r.step \in {"want", "done"} /\ r.at = None
            /\ r.step = "want" => /\ r.do = "malloc" /\ r.size = r.len /\ r.len >= 1
                                  /\ r.len \notin HugeSizes
      BY <1>9a, ReserveFacts
    <2>3. QED
      BY <2>1, <2>2
  <1>9c. CASE NoRoomForVector
    BY <1>9c DEF NoRoomForVector, LoopGoes
  <1>9. CASE TakeWorker
    BY <1>9 DEF TakeWorker, Reserved, LoopGoes
  <1>10. CASE Invoke
    BY <1>10 DEF Invoke, LoopGoes
  <1>11. CASE CallOver
    BY <1>11 DEF CallOver, LoopGoes, LoopAt
  <1>11a. CASE FreeVectors
    BY <1>11a DEF FreeVectors, LoopGoes
  <1>12. CASE Reply
    <2>1. blocks' \subseteq BlockRecords
      BY <1>12, ReplyFacts DEF BlockRecords
    <2>2. QED
      BY <1>12, <2>1 DEF Reply
  <1>13. CASE Drop
    BY <1>13 DEF Drop, LoopGoes
  <1>14. CASE Refill
    BY <1>14 DEF Refill
  <1>15. CASE Refilled
    BY <1>15 DEF Refilled, LockOfDead
  <1>16. CASE Constructor
    BY <1>16 DEF Constructor, LibraryAsks
  <1>17. CASE HostAsks
    BY <1>17 DEF HostAsks
  <1>18. CASE ChildAsks
    BY <1>18 DEF ChildAsks, LibraryAsks
  <1>19. CASE ChildReturns
    <2>1. PICK v \in {None} \cup {b.at : b \in Of("child")} : Loses(v)
      BY <1>19 DEF ChildReturns
    <2>2. v \in Nat \cup {None}
      BY <2>1 DEF Of, BlockRecords
    <2>3. blocks' \subseteq BlockRecords
      BY <2>1, <2>2, LosesFacts DEF BlockRecords
    <2>4. QED
      BY <1>19, <2>3 DEF ChildReturns
  <1>20. CASE ChildDies
    <2>1. blocks' \subseteq BlockRecords
      BY <1>20, LosesFacts DEF BlockRecords, ChildDies
    <2>2. QED
      BY <1>20, <2>1 DEF ChildDies, LockOfDead
  <1>21. ASSUME NEW u \in Users, Enter(u) PROVE HeapTypes'
    BY <1>21 DEF Enter
  <1>22. ASSUME NEW u \in Users, Leave(u) PROVE HeapTypes'
    <2>1. PICK a \in Nat \cup {None} : Effect(u, a)
      BY <1>22, LeaveEffect
    <2>2. QED
      BY <1>22, <2>1, EffectTypes, LeaveEffect DEF Leave
  <1>23. ASSUME NEW u \in Users, Bootstrap(u) PROVE HeapTypes'
    <2>1. PICK a \in Nat \cup {None} : Effect(u, a)
      BY <1>23, BootstrapEffect
    <2>2. QED
      BY <1>23, <2>1, EffectTypes DEF Bootstrap
  <1>24. CASE UNCHANGED vars
    BY <1>24 DEF vars
  <1>25. QED
    BY <1>1, <1>2, <1>3, <1>4, <1>5, <1>6, <1>7, <1>8, <1>9, <1>9a, <1>9c, <1>10, <1>11, <1>11a, <1>12,
       <1>13, <1>14, <1>15, <1>16, <1>17, <1>18, <1>19, <1>20, <1>21, <1>22, <1>23, <1>24
    DEF Next, LoopStep, HeapStep

\* where the request loop is,
LEMMA LoopOpStep ==
  ASSUME HeapTypes, OpTypes, LoopTypes, OpsOK, LoopOpOK, LockOK, UnmappedOK,
         PlacesOK, Apart, SpotOK, TargetsOK, ResultOK, ReqOK, AnswerOK, MessagesOK, [Next]_vars
  PROVE  LoopOpOK'
  <1> USE IdleFacts DEF LoopOpOK, OpTypes, LoopTypes, Busy, Users, heapVars, hostVars, Got, Ready
  <1>1. CASE NewMessage
    BY <1>1, MallocFacts, CallocFacts, SizeFacts DEF NewMessage, LoopGoes, LoopAt
  <1>2. CASE MessageMade
    BY <1>2 DEF MessageMade, LoopGoes
  <1>3. CASE ReadRequest
    BY <1>3, MallocFacts, SizeFacts DEF ReadRequest, LoopGoes, LoopAt
  <1>4. CASE NoRoomForRequest
    BY <1>4 DEF NoRoomForRequest, LoopGoes
  <1>5. CASE Allocate
    <2>1. req.size \in 0 .. W - 1
      BY <1>5 DEF Allocate, HasRequest, LoopTypes, LoopOpOK
    <2>2. QED
      BY <1>5, <2>1, MallocFacts DEF Allocate, HasRequest, LoopGoes
  <1>6. CASE Allocated
    <2>1. op["loop"].at \in Nat \cup {None}
      BY DEF OpTypes, OpRecords, Users
    <2>2. QED
      BY <1>6, <2>1, FreeFacts DEF Allocated, Answers, LoopGoes
  <1>7. CASE Release
    <2>1. req.at \in Nat
      BY <1>7 DEF Release, HasRequest, LoopOpOK, ReqOK, HeapTypes, BlockRecords
    <2>2. QED
      BY <1>7, <2>1, FreeFacts DEF Release, HasRequest, LoopGoes
  <1>8. CASE Freed
    BY <1>8 DEF Freed, Answers, LoopGoes
  <1>9a. CASE ReserveTags \/ ReserveVals
    <2>1. /\ pc \in {"reading", "tags"} /\ pc' \in {"tags", "vals"} /\ op["loop"].step = "done"
          /\ req # None /\ req.kind = "invoke" /\ UNCHANGED <<heapVars, child, result, hostVars>>
      BY <1>9a, ReserveFacts
    <2>2. PICK r \in OpRecords :
            /\ op' = [op EXCEPT !["loop"] = r] /\ r.step \in {"want", "done"} /\ r.at = None
            /\ r.step = "want" => /\ r.do = "malloc" /\ r.size = r.len /\ r.len >= 1
                                  /\ r.len \notin HugeSizes
      BY <1>9a, ReserveFacts
    <2>3. QED
      BY <2>1, <2>2
  <1>9c. CASE NoRoomForVector
    BY <1>9c DEF NoRoomForVector, LoopGoes
  <1>9. CASE TakeWorker
    <2>1. \A b \in Of("refill") : Free(b.at).step = "want" /\ Free(b.at).do = "free" /\ Free(b.at).at = b.at
      BY FreeFacts DEF Of, HeapTypes, BlockRecords
    <2>2. Done(None).step = "done"
      BY DoneFacts
    <2>3. QED
      BY <1>9, <2>1, <2>2 DEF TakeWorker, Reserved, LoopGoes, Of
  <1>10. CASE Invoke
    BY <1>10 DEF Invoke, LoopGoes
  <1>11. CASE CallOver
    BY <1>11 DEF CallOver, LoopGoes, LoopAt
  <1>11a. CASE FreeVectors
    <2>1. \A b \in Of("args") : Free(b.at).step = "want" /\ Free(b.at).do = "free" /\ Free(b.at).at = b.at
      BY FreeFacts DEF Of, HeapTypes, BlockRecords
    <2>2. QED
      BY <1>11a, <2>1 DEF FreeVectors, LoopGoes
  <1>12. CASE Reply
    BY <1>12 DEF Reply, LoopGoes, LoopAt
  <1>13. CASE Drop
    <2>1. \A b \in Of("loop") \cup Of("args") : Free(b.at).step = "want" /\ Free(b.at).do = "free" /\ Free(b.at).at = b.at
      BY FreeFacts DEF Of, HeapTypes, BlockRecords
    <2>2. QED
      BY <1>13, <2>1 DEF Drop, LoopGoes
  <1>14. CASE Refill
    BY <1>14, MallocFacts, SizeFacts DEF Refill
  <1>15. CASE Refilled
    BY <1>15 DEF Refilled, LockOfDead
  <1>16. CASE Constructor
    <2>1. PICK o : op' = [op EXCEPT !["main"] = o] /\ o.step \in {"want", "done"}
      BY <1>16, ConstructorFacts DEF Asks
    <2>2. QED
      BY <1>16, <2>1 DEF Constructor, LibraryAsks
  <1>17. CASE HostAsks
    BY <1>17 DEF HostAsks
  <1>18. CASE ChildAsks
    <2>1. PICK o : op' = [op EXCEPT !["child"] = o] /\ o.step \in {"want", "done"}
      BY <1>18, ChildAsksFacts DEF Asks
    <2>2. QED
      BY <1>18, <2>1 DEF ChildAsks, LibraryAsks
  <1>19. CASE ChildReturns
    BY <1>19 DEF ChildReturns
  <1>20. CASE ChildDies
    BY <1>20 DEF ChildDies, LockOfDead
  <1>21. ASSUME NEW u \in Users, Enter(u) PROVE LoopOpOK'
    <2>1. PICK r \in OpRecords :
            /\ op' = [op EXCEPT ![u] = r] /\ r.step = "in" /\ r.do = op[u].do /\ r.at = op[u].at
            /\ r.size = op[u].size /\ r.len = op[u].len
      BY <1>21, EnterFacts
    <2>2. QED
      BY <1>21, <2>1 DEF Enter
  <1>22. ASSUME NEW u \in Users, Leave(u) PROVE LoopOpOK'
    <2>1. PICK a \in Nat \cup {None} : Effect(u, a)
      BY <1>22, LeaveEffect
    <2>2. op' = [op EXCEPT ![u] = Done(a)] /\ Done(a).step = "done" /\ Done(a).at = a
      BY <2>1, DoneFacts DEF Effect
    <2>3. QED
      BY <1>22, <2>2, LeaveEffect DEF Leave
  <1>23. ASSUME NEW u \in Users, Bootstrap(u) PROVE LoopOpOK'
    <2>1. PICK a \in Nat \cup {None} : Effect(u, a)
      BY <1>23, BootstrapEffect
    <2>2. op' = [op EXCEPT ![u] = Done(a)] /\ Done(a).step = "done" /\ Done(a).at = a
      BY <2>1, DoneFacts DEF Effect
    <2>3. QED
      BY <1>23, <2>2, BootstrapEffect DEF Bootstrap
  <1>24. CASE UNCHANGED vars
    BY <1>24 DEF vars
  <1>25. QED
    BY <1>1, <1>2, <1>3, <1>4, <1>5, <1>6, <1>7, <1>8, <1>9, <1>9a, <1>9c, <1>10, <1>11, <1>11a, <1>12,
       <1>13, <1>14, <1>15, <1>16, <1>17, <1>18, <1>19, <1>20, <1>21, <1>22, <1>23, <1>24
    DEF Next, LoopStep, HeapStep

\* the lock,
LEMMA LockStep ==
  ASSUME HeapTypes, OpTypes, LoopTypes, OpsOK, LoopOpOK, LockOK, UnmappedOK,
         PlacesOK, Apart, SpotOK, TargetsOK, ResultOK, ReqOK, AnswerOK, MessagesOK, [Next]_vars
  PROVE  LockOK'
  <1> USE IdleFacts, ShimHeapAssumption DEF LockOK, OpTypes, Runs, Busy, Users, heapVars, hostVars, Got, Ready
  <1>1. CASE NewMessage
    BY <1>1, MallocFacts, CallocFacts, SizeFacts DEF NewMessage, LoopGoes, LoopAt
  <1>2. CASE MessageMade
    BY <1>2 DEF MessageMade, LoopGoes
  <1>3. CASE ReadRequest
    BY <1>3, MallocFacts, SizeFacts DEF ReadRequest, LoopGoes, LoopAt
  <1>4. CASE NoRoomForRequest
    BY <1>4 DEF NoRoomForRequest, LoopGoes
  <1>5. CASE Allocate
    <2>1. req.size \in 0 .. W - 1
      BY <1>5 DEF Allocate, HasRequest, LoopTypes, LoopOpOK
    <2>2. QED
      BY <1>5, <2>1, MallocFacts DEF Allocate, HasRequest, LoopGoes
  <1>6. CASE Allocated
    <2>1. op["loop"].at \in Nat \cup {None}
      BY DEF OpTypes, OpRecords, Users
    <2>2. QED
      BY <1>6, <2>1, FreeFacts DEF Allocated, Answers, LoopGoes
  <1>7. CASE Release
    <2>1. req.at \in Nat
      BY <1>7 DEF Release, HasRequest, LoopOpOK, ReqOK, HeapTypes, BlockRecords
    <2>2. QED
      BY <1>7, <2>1, FreeFacts DEF Release, HasRequest, LoopGoes
  <1>8. CASE Freed
    BY <1>8 DEF Freed, Answers, LoopGoes
  <1>9a. CASE ReserveTags \/ ReserveVals
    <2>1. /\ pc \in {"reading", "tags"} /\ pc' \in {"tags", "vals"} /\ op["loop"].step = "done"
          /\ req # None /\ req.kind = "invoke" /\ UNCHANGED <<heapVars, child, result, hostVars>>
      BY <1>9a, ReserveFacts
    <2>2. PICK r \in OpRecords :
            /\ op' = [op EXCEPT !["loop"] = r] /\ r.step \in {"want", "done"} /\ r.at = None
            /\ r.step = "want" => /\ r.do = "malloc" /\ r.size = r.len /\ r.len >= 1
                                  /\ r.len \notin HugeSizes
      BY <1>9a, ReserveFacts
    <2>3. QED
      BY <2>1, <2>2
  <1>9c. CASE NoRoomForVector
    BY <1>9c DEF NoRoomForVector, LoopGoes
  <1>9. CASE TakeWorker
    <2>1. \A b \in Of("refill") : Free(b.at).step = "want" /\ Free(b.at).do = "free" /\ Free(b.at).at = b.at
      BY FreeFacts DEF Of, HeapTypes, BlockRecords
    <2>2. Done(None).step = "done"
      BY DoneFacts
    <2>3. QED
      BY <1>9, <2>1, <2>2 DEF TakeWorker, Reserved, LoopGoes, Of
  <1>10. CASE Invoke
    BY <1>10 DEF Invoke, LoopGoes
  <1>11. CASE CallOver
    BY <1>11 DEF CallOver, LoopGoes, LoopAt
  <1>11a. CASE FreeVectors
    <2>1. \A b \in Of("args") : Free(b.at).step = "want" /\ Free(b.at).do = "free" /\ Free(b.at).at = b.at
      BY FreeFacts DEF Of, HeapTypes, BlockRecords
    <2>2. QED
      BY <1>11a, <2>1 DEF FreeVectors, LoopGoes
  <1>12. CASE Reply
    BY <1>12 DEF Reply, LoopGoes, LoopAt
  <1>13. CASE Drop
    <2>1. \A b \in Of("loop") \cup Of("args") : Free(b.at).step = "want" /\ Free(b.at).do = "free" /\ Free(b.at).at = b.at
      BY FreeFacts DEF Of, HeapTypes, BlockRecords
    <2>2. QED
      BY <1>13, <2>1 DEF Drop, LoopGoes
  <1>14. CASE Refill
    BY <1>14, MallocFacts, SizeFacts DEF Refill
  <1>15. CASE Refilled
    BY <1>15 DEF Refilled, LockOfDead
  <1>16. CASE Constructor
    <2>1. PICK o : op' = [op EXCEPT !["main"] = o] /\ o.step \in {"want", "done"}
      BY <1>16, ConstructorFacts DEF Asks
    <2>2. QED
      BY <1>16, <2>1 DEF Constructor, LibraryAsks
  <1>17. CASE HostAsks
    BY <1>17 DEF HostAsks
  <1>18. CASE ChildAsks
    <2>1. PICK o : op' = [op EXCEPT !["child"] = o] /\ o.step \in {"want", "done"}
      BY <1>18, ChildAsksFacts DEF Asks
    <2>2. QED
      BY <1>18, <2>1 DEF ChildAsks, LibraryAsks
  <1>19. CASE ChildReturns
    BY <1>19 DEF ChildReturns
  <1>20. CASE ChildDies
    BY <1>20 DEF ChildDies, LockOfDead
  <1>21. ASSUME NEW u \in Users, Enter(u) PROVE LockOK'
    <2>1. PICK r \in OpRecords :
            /\ op' = [op EXCEPT ![u] = r] /\ r.step = "in" /\ r.do = op[u].do /\ r.at = op[u].at
            /\ r.size = op[u].size /\ r.len = op[u].len
      BY <1>21, EnterFacts
    <2>2. QED
      BY <1>21, <2>1 DEF Enter
  <1>22. ASSUME NEW u \in Users, Leave(u) PROVE LockOK'
    <2>1. PICK a \in Nat \cup {None} : Effect(u, a)
      BY <1>22, LeaveEffect
    <2>2. op' = [op EXCEPT ![u] = Done(a)] /\ Done(a).step = "done" /\ Done(a).at = a
      BY <2>1, DoneFacts DEF Effect
    <2>3. QED
      BY <1>22, <2>2, LeaveEffect DEF Leave
  <1>23. ASSUME NEW u \in Users, Bootstrap(u) PROVE LockOK'
    <2>1. PICK a \in Nat \cup {None} : Effect(u, a)
      BY <1>23, BootstrapEffect
    <2>2. op' = [op EXCEPT ![u] = Done(a)] /\ Done(a).step = "done" /\ Done(a).at = a
      BY <2>1, DoneFacts DEF Effect
    <2>3. QED
      BY <1>23, <2>2, BootstrapEffect DEF Bootstrap, UnmappedOK
  <1>24. CASE UNCHANGED vars
    BY <1>24 DEF vars
  <1>25. QED
    BY <1>1, <1>2, <1>3, <1>4, <1>5, <1>6, <1>7, <1>8, <1>9, <1>9a, <1>9c, <1>10, <1>11, <1>11a, <1>12,
       <1>13, <1>14, <1>15, <1>16, <1>17, <1>18, <1>19, <1>20, <1>21, <1>22, <1>23, <1>24
    DEF Next, LoopStep, HeapStep

\* who is there without a region,
LEMMA UnmappedStep ==
  ASSUME HeapTypes, OpTypes, LoopTypes, OpsOK, LoopOpOK, LockOK, UnmappedOK,
         PlacesOK, Apart, SpotOK, TargetsOK, ResultOK, ReqOK, AnswerOK, MessagesOK, [Next]_vars
  PROVE  UnmappedOK'
  <1> USE IdleFacts, ShimHeapAssumption DEF UnmappedOK, OpTypes, Runs, Busy, Users, heapVars, hostVars, Got, Ready
  <1>1. CASE NewMessage
    BY <1>1, MallocFacts, CallocFacts, SizeFacts DEF NewMessage, LoopGoes, LoopAt
  <1>2. CASE MessageMade
    BY <1>2 DEF MessageMade, LoopGoes
  <1>3. CASE ReadRequest
    BY <1>3, MallocFacts, SizeFacts DEF ReadRequest, LoopGoes, LoopAt
  <1>4. CASE NoRoomForRequest
    BY <1>4 DEF NoRoomForRequest, LoopGoes
  <1>5. CASE Allocate
    <2>1. req.size \in 0 .. W - 1
      BY <1>5 DEF Allocate, HasRequest, LoopTypes, LoopOpOK
    <2>2. QED
      BY <1>5, <2>1, MallocFacts DEF Allocate, HasRequest, LoopGoes
  <1>6. CASE Allocated
    <2>1. op["loop"].at \in Nat \cup {None}
      BY DEF OpTypes, OpRecords, Users
    <2>2. QED
      BY <1>6, <2>1, FreeFacts DEF Allocated, Answers, LoopGoes
  <1>7. CASE Release
    <2>1. req.at \in Nat
      BY <1>7 DEF Release, HasRequest, LoopOpOK, ReqOK, HeapTypes, BlockRecords
    <2>2. QED
      BY <1>7, <2>1, FreeFacts DEF Release, HasRequest, LoopGoes
  <1>8. CASE Freed
    BY <1>8 DEF Freed, Answers, LoopGoes
  <1>9a. CASE ReserveTags \/ ReserveVals
    <2>1. /\ pc \in {"reading", "tags"} /\ pc' \in {"tags", "vals"} /\ op["loop"].step = "done"
          /\ req # None /\ req.kind = "invoke" /\ UNCHANGED <<heapVars, child, result, hostVars>>
      BY <1>9a, ReserveFacts
    <2>2. PICK r \in OpRecords :
            /\ op' = [op EXCEPT !["loop"] = r] /\ r.step \in {"want", "done"} /\ r.at = None
            /\ r.step = "want" => /\ r.do = "malloc" /\ r.size = r.len /\ r.len >= 1
                                  /\ r.len \notin HugeSizes
      BY <1>9a, ReserveFacts
    <2>3. QED
      BY <2>1, <2>2
  <1>9c. CASE NoRoomForVector
    BY <1>9c DEF NoRoomForVector, LoopGoes
  <1>9. CASE TakeWorker
    <2>1. \A b \in Of("refill") : Free(b.at).step = "want" /\ Free(b.at).do = "free" /\ Free(b.at).at = b.at
      BY FreeFacts DEF Of, HeapTypes, BlockRecords
    <2>2. Done(None).step = "done"
      BY DoneFacts
    <2>3. QED
      BY <1>9, <2>1, <2>2 DEF TakeWorker, Reserved, LoopGoes, Of
  <1>10. CASE Invoke
    BY <1>10 DEF Invoke, LoopGoes
  <1>11. CASE CallOver
    BY <1>11 DEF CallOver, LoopGoes, LoopAt
  <1>11a. CASE FreeVectors
    <2>1. \A b \in Of("args") : Free(b.at).step = "want" /\ Free(b.at).do = "free" /\ Free(b.at).at = b.at
      BY FreeFacts DEF Of, HeapTypes, BlockRecords
    <2>2. QED
      BY <1>11a, <2>1 DEF FreeVectors, LoopGoes, PlacesOK, Of
  <1>12. CASE Reply
    BY <1>12 DEF Reply, LoopGoes, LoopAt
  <1>13. CASE Drop
    <2>1. \A b \in Of("loop") \cup Of("args") : Free(b.at).step = "want" /\ Free(b.at).do = "free" /\ Free(b.at).at = b.at
      BY FreeFacts DEF Of, HeapTypes, BlockRecords
    <2>2. QED
      BY <1>13, <2>1 DEF Drop, LoopGoes, PlacesOK, Of
  <1>14. CASE Refill
    BY <1>14, MallocFacts, SizeFacts DEF Refill
  <1>15. CASE Refilled
    BY <1>15 DEF Refilled, LockOfDead
  <1>16. CASE Constructor
    <2>1. PICK o : op' = [op EXCEPT !["main"] = o] /\ o.step \in {"want", "done"}
      BY <1>16, ConstructorFacts DEF Asks
    <2>2. QED
      BY <1>16, <2>1 DEF Constructor, LibraryAsks
  <1>17. CASE HostAsks
    BY <1>17 DEF HostAsks
  <1>18. CASE ChildAsks
    <2>1. PICK o : op' = [op EXCEPT !["child"] = o] /\ o.step \in {"want", "done"}
      BY <1>18, ChildAsksFacts DEF Asks
    <2>2. QED
      BY <1>18, <2>1 DEF ChildAsks, LibraryAsks
  <1>19. CASE ChildReturns
    BY <1>19 DEF ChildReturns
  <1>20. CASE ChildDies
    BY <1>20 DEF ChildDies, LockOfDead
  <1>21. ASSUME NEW u \in Users, Enter(u) PROVE UnmappedOK'
    <2>1. PICK r \in OpRecords :
            /\ op' = [op EXCEPT ![u] = r] /\ r.step = "in" /\ r.do = op[u].do /\ r.at = op[u].at
            /\ r.size = op[u].size /\ r.len = op[u].len
      BY <1>21, EnterFacts
    <2>2. QED
      BY <1>21, <2>1 DEF Enter
  <1>22. ASSUME NEW u \in Users, Leave(u) PROVE UnmappedOK'
    BY <1>22, LeaveEffect DEF Leave
  <1>23. ASSUME NEW u \in Users, Bootstrap(u) PROVE UnmappedOK'
    <2>1. PICK a \in Nat \cup {None} : Effect(u, a)
      BY <1>23, BootstrapEffect
    <2>2. op' = [op EXCEPT ![u] = Done(a)] /\ Done(a).step = "done" /\ Done(a).at = a
      BY <2>1, DoneFacts DEF Effect
    <2>3. u = "loop" => a = None
      BY <1>23, <2>1, BootstrapEffect DEF Effect
    <2>4. QED
      BY <1>23, <2>2, <2>3, BootstrapEffect DEF Bootstrap
  <1>24. CASE UNCHANGED vars
    BY <1>24 DEF vars
  <1>25. QED
    BY <1>1, <1>2, <1>3, <1>4, <1>5, <1>6, <1>7, <1>8, <1>9, <1>9a, <1>9c, <1>10, <1>11, <1>11a, <1>12,
       <1>13, <1>14, <1>15, <1>16, <1>17, <1>18, <1>19, <1>20, <1>21, <1>22, <1>23, <1>24
    DEF Next, LoopStep, HeapStep

\* where the blocks are,
LEMMA PlacesStep ==
  ASSUME HeapTypes, OpTypes, LoopTypes, OpsOK, LoopOpOK, LockOK, UnmappedOK,
         PlacesOK, Apart, SpotOK, TargetsOK, ResultOK, ReqOK, AnswerOK, MessagesOK, [Next]_vars
  PROVE  PlacesOK'
  <1> USE ShimHeapAssumption DEF PlacesOK, heapVars, hostVars, Got, Ready
  <1>1. CASE NewMessage
    BY <1>1 DEF NewMessage, LoopGoes, LoopAt
  <1>2. CASE MessageMade
    BY <1>2 DEF MessageMade, LoopGoes
  <1>3. CASE ReadRequest
    BY <1>3 DEF ReadRequest, LoopGoes, LoopAt
  <1>4. CASE NoRoomForRequest
    BY <1>4 DEF NoRoomForRequest, LoopGoes
  <1>5. CASE Allocate
    BY <1>5 DEF Allocate, HasRequest, LoopGoes
  <1>6. CASE Allocated
    BY <1>6 DEF Allocated, Answers, LoopGoes
  <1>7. CASE Release
    BY <1>7 DEF Release, HasRequest, LoopGoes
  <1>8. CASE Freed
    BY <1>8 DEF Freed, Answers, LoopGoes
  <1>9a. CASE ReserveTags \/ ReserveVals
    <2>1. /\ pc \in {"reading", "tags"} /\ pc' \in {"tags", "vals"} /\ op["loop"].step = "done"
          /\ req # None /\ req.kind = "invoke" /\ UNCHANGED <<heapVars, child, result, hostVars>>
      BY <1>9a, ReserveFacts
    <2>2. PICK r \in OpRecords :
            /\ op' = [op EXCEPT !["loop"] = r] /\ r.step \in {"want", "done"} /\ r.at = None
            /\ r.step = "want" => /\ r.do = "malloc" /\ r.size = r.len /\ r.len >= 1
                                  /\ r.len \notin HugeSizes
      BY <1>9a, ReserveFacts
    <2>3. QED
      BY <2>1, <2>2
  <1>9c. CASE NoRoomForVector
    BY <1>9c DEF NoRoomForVector, LoopGoes
  <1>9. CASE TakeWorker
    BY <1>9 DEF TakeWorker, Reserved, LoopGoes
  <1>10. CASE Invoke
    BY <1>10 DEF Invoke, LoopGoes
  <1>11. CASE CallOver
    BY <1>11 DEF CallOver, LoopGoes, LoopAt
  <1>11a. CASE FreeVectors
    BY <1>11a DEF FreeVectors, LoopGoes
  <1>12. CASE Reply
    <2>1. mapped /\ mapped' = mapped
      BY <1>12 DEF Reply, LoopAt, UnmappedOK
    <2>2. ASSUME NEW c \in blocks, c.at = result PROVE c.at + c.len <= RegionSize
      <3>1. result # None
        BY <2>2, ShimHeapAssumption DEF HeapTypes, BlockRecords
      <3>2. QED
        BY <2>2, <3>1, SameBlock DEF ResultOK
    <2>3. \A b \in blocks' : b \in blocks \/ \E c \in blocks : c.at = result /\ b = [c EXCEPT !.of = "host"]
      BY <1>12, ReplyFacts
    <2>4. QED
      BY <2>1, <2>2, <2>3 DEF HeapTypes, BlockRecords
  <1>13. CASE Drop
    BY <1>13 DEF Drop, LoopGoes
  <1>14. CASE Refill
    BY <1>14 DEF Refill
  <1>15. CASE Refilled
    BY <1>15 DEF Refilled, LockOfDead
  <1>16. CASE Constructor
    BY <1>16 DEF Constructor, LibraryAsks
  <1>17. CASE HostAsks
    BY <1>17 DEF HostAsks
  <1>18. CASE ChildAsks
    BY <1>18 DEF ChildAsks, LibraryAsks
  <1>19. CASE ChildReturns
    <2>1. PICK v \in {None} \cup {b.at : b \in Of("child")} : Loses(v)
      BY <1>19 DEF ChildReturns
    <2>2. v \in Nat \cup {None}
      BY <2>1 DEF Of, HeapTypes, BlockRecords
    <2>3. mapped /\ mapped' = mapped
      BY <1>19 DEF ChildReturns, UnmappedOK
    <2>4. \A b \in blocks' : b \in blocks \/ \E c \in blocks : c.of = "child" /\ b = [c EXCEPT !.of = "nobody"]
      BY <2>1, <2>2, LosesFacts
    <2>5. QED
      BY <2>3, <2>4 DEF HeapTypes, BlockRecords
  <1>20. CASE ChildDies
    <2>1. Loses(None)
      BY <1>20 DEF ChildDies
    <2>3. mapped /\ mapped' = mapped
      BY <1>20 DEF ChildDies, UnmappedOK
    <2>4. \A b \in blocks' : b \in blocks \/ \E c \in blocks : c.of = "child" /\ b = [c EXCEPT !.of = "nobody"]
      BY <2>1, LosesFacts
    <2>5. QED
      BY <2>3, <2>4 DEF HeapTypes, BlockRecords
  <1>21. ASSUME NEW u \in Users, Enter(u) PROVE PlacesOK'
    BY <1>21 DEF Enter
  <1>22. ASSUME NEW u \in Users, Leave(u) PROVE PlacesOK'
    <2>1. PICK a \in Nat \cup {None} : Effect(u, a)
      BY <1>22, LeaveEffect
    <2>2. mapped /\ mapped' = mapped
      BY <1>22, LeaveEffect DEF Leave
    <2>3. QED
      BY <2>1, <2>2 DEF Effect, New
  <1>23. ASSUME NEW u \in Users, Bootstrap(u) PROVE PlacesOK'
    <2>1. PICK a \in Nat \cup {None} : Effect(u, a)
      BY <1>23, BootstrapEffect
    <2>2. ~mapped /\ mapped' = mapped
      BY <1>23, BootstrapEffect DEF Bootstrap
    <2>3. offset' \in Nat /\ offset \in Nat /\ offset <= offset' /\ BootBase \in Nat
      BY <2>1, ShimHeapAssumption DEF Effect, HeapTypes, BootBase
    <2>4. ASSUME NEW b \in blocks PROVE b.of = "main" /\ BootBase < b.at /\ b.at + b.len <= BootBase + offset'
      BY <2>2, <2>3 DEF HeapTypes, BlockRecords
    <2>5. a # None => u = "main" /\ BootBase < a /\ a + op[u].len <= BootBase + offset'
      BY <2>1, <2>2 DEF Effect
    <2>6. \A b \in blocks' : b \in blocks \/ (a # None /\ b = New(u, a))
      BY <2>1 DEF Effect
    <2>7. Owner("main") = "main"
      BY DEF Owner
    <2>8. QED
      BY <2>2, <2>4, <2>5, <2>6, <2>7 DEF New
  <1>24. CASE UNCHANGED vars
    BY <1>24 DEF vars
  <1>25. QED
    BY <1>1, <1>2, <1>3, <1>4, <1>5, <1>6, <1>7, <1>8, <1>9, <1>9a, <1>9c, <1>10, <1>11, <1>11a, <1>12,
       <1>13, <1>14, <1>15, <1>16, <1>17, <1>18, <1>19, <1>20, <1>21, <1>22, <1>23, <1>24
    DEF Next, LoopStep, HeapStep

\* that they lie apart,
LEMMA ApartStep ==
  ASSUME HeapTypes, OpTypes, LoopTypes, OpsOK, LoopOpOK, LockOK, UnmappedOK,
         PlacesOK, Apart, SpotOK, TargetsOK, ResultOK, ReqOK, AnswerOK, MessagesOK, [Next]_vars
  PROVE  Apart'
  <1> USE ShimHeapAssumption DEF Apart, heapVars, hostVars, Got, Ready
  <1>1. CASE NewMessage
    BY <1>1 DEF NewMessage, LoopGoes, LoopAt
  <1>2. CASE MessageMade
    BY <1>2 DEF MessageMade, LoopGoes
  <1>3. CASE ReadRequest
    BY <1>3 DEF ReadRequest, LoopGoes, LoopAt
  <1>4. CASE NoRoomForRequest
    BY <1>4 DEF NoRoomForRequest, LoopGoes
  <1>5. CASE Allocate
    BY <1>5 DEF Allocate, HasRequest, LoopGoes
  <1>6. CASE Allocated
    BY <1>6 DEF Allocated, Answers, LoopGoes
  <1>7. CASE Release
    BY <1>7 DEF Release, HasRequest, LoopGoes
  <1>8. CASE Freed
    BY <1>8 DEF Freed, Answers, LoopGoes
  <1>9a. CASE ReserveTags \/ ReserveVals
    <2>1. /\ pc \in {"reading", "tags"} /\ pc' \in {"tags", "vals"} /\ op["loop"].step = "done"
          /\ req # None /\ req.kind = "invoke" /\ UNCHANGED <<heapVars, child, result, hostVars>>
      BY <1>9a, ReserveFacts
    <2>2. PICK r \in OpRecords :
            /\ op' = [op EXCEPT !["loop"] = r] /\ r.step \in {"want", "done"} /\ r.at = None
            /\ r.step = "want" => /\ r.do = "malloc" /\ r.size = r.len /\ r.len >= 1
                                  /\ r.len \notin HugeSizes
      BY <1>9a, ReserveFacts
    <2>3. QED
      BY <2>1, <2>2
  <1>9c. CASE NoRoomForVector
    BY <1>9c DEF NoRoomForVector, LoopGoes
  <1>9. CASE TakeWorker
    BY <1>9 DEF TakeWorker, Reserved, LoopGoes
  <1>10. CASE Invoke
    BY <1>10 DEF Invoke, LoopGoes
  <1>11. CASE CallOver
    BY <1>11 DEF CallOver, LoopGoes, LoopAt
  <1>11a. CASE FreeVectors
    BY <1>11a DEF FreeVectors, LoopGoes
  <1>12. CASE Reply
    <2>1. \A b \in blocks' : \E c \in blocks : /\ b.at = c.at /\ b.len = c.len
                                            /\ b = IF c.at = result THEN [c EXCEPT !.of = "host"] ELSE c
      BY <1>12, ReplyFacts DEF HeapTypes, BlockRecords
    <2>2. QED
      BY <2>1 DEF Disjoint
  <1>13. CASE Drop
    BY <1>13 DEF Drop, LoopGoes
  <1>14. CASE Refill
    BY <1>14 DEF Refill
  <1>15. CASE Refilled
    BY <1>15 DEF Refilled, LockOfDead
  <1>16. CASE Constructor
    BY <1>16 DEF Constructor, LibraryAsks
  <1>17. CASE HostAsks
    BY <1>17 DEF HostAsks
  <1>18. CASE ChildAsks
    BY <1>18 DEF ChildAsks, LibraryAsks
  <1>19. CASE ChildReturns
    <2>1. PICK v \in {None} \cup {b.at : b \in Of("child")} : Loses(v)
      BY <1>19 DEF ChildReturns
    <2>2. v \in Nat \cup {None}
      BY <2>1 DEF Of, HeapTypes, BlockRecords
    <2>3. \A b \in blocks' : \E c \in blocks : /\ b.at = c.at /\ b.len = c.len
                                 /\ b = IF c.of = "child" /\ c.at # v THEN [c EXCEPT !.of = "nobody"] ELSE c
      BY <2>1, <2>2, LosesFacts DEF HeapTypes, BlockRecords
    <2>4. QED
      BY <2>3 DEF Disjoint
  <1>20. CASE ChildDies
    <2>1. Loses(None)
      BY <1>20 DEF ChildDies
    <2>3. \A b \in blocks' : \E c \in blocks : /\ b.at = c.at /\ b.len = c.len
                                 /\ b = IF c.of = "child" /\ c.at # None THEN [c EXCEPT !.of = "nobody"] ELSE c
      BY <2>1, LosesFacts DEF HeapTypes, BlockRecords
    <2>4. QED
      BY <2>3 DEF Disjoint
  <1>21. ASSUME NEW u \in Users, Enter(u) PROVE Apart'
    BY <1>21 DEF Enter
  <1>22. ASSUME NEW u \in Users, Leave(u) PROVE Apart'
    <2>1. PICK a \in Nat \cup {None} : Effect(u, a)
      BY <1>22, LeaveEffect
    <2>2. \A b, c : Disjoint(b, c) <=> Disjoint(c, b)
      BY DEF Disjoint
    <2>3. QED
      BY <2>1, <2>2 DEF Effect, Disjoint
  <1>23. ASSUME NEW u \in Users, Bootstrap(u) PROVE Apart'
    <2>1. PICK a \in Nat \cup {None} : Effect(u, a)
      BY <1>23, BootstrapEffect
    <2>2. \A b, c : Disjoint(b, c) <=> Disjoint(c, b)
      BY DEF Disjoint
    <2>3. QED
      BY <2>1, <2>2 DEF Effect, Disjoint
  <1>24. CASE UNCHANGED vars
    BY <1>24 DEF vars
  <1>25. QED
    BY <1>1, <1>2, <1>3, <1>4, <1>5, <1>6, <1>7, <1>8, <1>9, <1>9a, <1>9c, <1>10, <1>11, <1>11a, <1>12,
       <1>13, <1>14, <1>15, <1>16, <1>17, <1>18, <1>19, <1>20, <1>21, <1>22, <1>23, <1>24
    DEF Next, LoopStep, HeapStep

\* that the place found is free,
LEMMA SpotStep ==
  ASSUME HeapTypes, OpTypes, LoopTypes, OpsOK, LoopOpOK, LockOK, UnmappedOK,
         PlacesOK, Apart, SpotOK, TargetsOK, ResultOK, ReqOK, AnswerOK, MessagesOK, [Next]_vars
  PROVE  SpotOK'
  <1> USE IdleFacts, ShimHeapAssumption DEF SpotOK, OpTypes, Runs, Users, heapVars, hostVars, Got, Ready
  <1>1. CASE NewMessage
    BY <1>1, MallocFacts, CallocFacts, SizeFacts DEF NewMessage, LoopGoes, LoopAt
  <1>2. CASE MessageMade
    BY <1>2 DEF MessageMade, LoopGoes
  <1>3. CASE ReadRequest
    BY <1>3, MallocFacts, SizeFacts DEF ReadRequest, LoopGoes, LoopAt
  <1>4. CASE NoRoomForRequest
    BY <1>4 DEF NoRoomForRequest, LoopGoes
  <1>5. CASE Allocate
    <2>1. req.size \in 0 .. W - 1
      BY <1>5 DEF Allocate, HasRequest, LoopTypes, LoopOpOK
    <2>2. QED
      BY <1>5, <2>1, MallocFacts DEF Allocate, HasRequest, LoopGoes
  <1>6. CASE Allocated
    <2>1. op["loop"].at \in Nat \cup {None}
      BY DEF OpTypes, OpRecords, Users
    <2>2. QED
      BY <1>6, <2>1, FreeFacts DEF Allocated, Answers, LoopGoes
  <1>7. CASE Release
    <2>1. req.at \in Nat
      BY <1>7 DEF Release, HasRequest, LoopOpOK, ReqOK, HeapTypes, BlockRecords
    <2>2. QED
      BY <1>7, <2>1, FreeFacts DEF Release, HasRequest, LoopGoes
  <1>8. CASE Freed
    BY <1>8 DEF Freed, Answers, LoopGoes
  <1>9a. CASE ReserveTags \/ ReserveVals
    <2>1. /\ pc \in {"reading", "tags"} /\ pc' \in {"tags", "vals"} /\ op["loop"].step = "done"
          /\ req # None /\ req.kind = "invoke" /\ UNCHANGED <<heapVars, child, result, hostVars>>
      BY <1>9a, ReserveFacts
    <2>2. PICK r \in OpRecords :
            /\ op' = [op EXCEPT !["loop"] = r] /\ r.step \in {"want", "done"} /\ r.at = None
            /\ r.step = "want" => /\ r.do = "malloc" /\ r.size = r.len /\ r.len >= 1
                                  /\ r.len \notin HugeSizes
      BY <1>9a, ReserveFacts
    <2>3. QED
      BY <2>1, <2>2
  <1>9c. CASE NoRoomForVector
    BY <1>9c DEF NoRoomForVector, LoopGoes
  <1>9. CASE TakeWorker
    <2>1. \A b \in Of("refill") : Free(b.at).step = "want" /\ Free(b.at).do = "free" /\ Free(b.at).at = b.at
      BY FreeFacts DEF Of, HeapTypes, BlockRecords
    <2>2. Done(None).step = "done"
      BY DoneFacts
    <2>3. QED
      BY <1>9, <2>1, <2>2 DEF TakeWorker, Reserved, LoopGoes, Of
  <1>10. CASE Invoke
    BY <1>10 DEF Invoke, LoopGoes
  <1>11. CASE CallOver
    BY <1>11 DEF CallOver, LoopGoes, LoopAt
  <1>11a. CASE FreeVectors
    <2>1. \A b \in Of("args") : Free(b.at).step = "want" /\ Free(b.at).do = "free" /\ Free(b.at).at = b.at
      BY FreeFacts DEF Of, HeapTypes, BlockRecords
    <2>2. QED
      BY <1>11a, <2>1 DEF FreeVectors, LoopGoes
  <1>12. CASE Reply
    <2>1. \A b \in blocks' : \E c \in blocks : b.at = c.at /\ b.len = c.len
      BY <1>12, ReplyFacts DEF HeapTypes, BlockRecords
    <2>2. \A w \in Users : op'[w].step = "in" => op'[w] = op[w] /\ (Runs(w)' => Runs(w))
      BY <1>12 DEF Reply, LoopGoes, LoopAt, Runs
    <2>3. QED
      BY <2>1, <2>2 DEF HeapTypes, BlockRecords
  <1>13. CASE Drop
    <2>1. \A b \in Of("loop") \cup Of("args") : Free(b.at).step = "want" /\ Free(b.at).do = "free" /\ Free(b.at).at = b.at
      BY FreeFacts DEF Of, HeapTypes, BlockRecords
    <2>2. QED
      BY <1>13, <2>1 DEF Drop, LoopGoes
  <1>14. CASE Refill
    BY <1>14, MallocFacts, SizeFacts DEF Refill
  <1>15. CASE Refilled
    BY <1>15 DEF Refilled, LockOfDead
  <1>16. CASE Constructor
    <2>1. PICK o : op' = [op EXCEPT !["main"] = o] /\ o.step \in {"want", "done"}
      BY <1>16, ConstructorFacts DEF Asks
    <2>2. QED
      BY <1>16, <2>1 DEF Constructor, LibraryAsks
  <1>17. CASE HostAsks
    BY <1>17 DEF HostAsks
  <1>18. CASE ChildAsks
    <2>1. PICK o : op' = [op EXCEPT !["child"] = o] /\ o.step \in {"want", "done"}
      BY <1>18, ChildAsksFacts DEF Asks
    <2>2. QED
      BY <1>18, <2>1 DEF ChildAsks, LibraryAsks
  <1>19. CASE ChildReturns
    <2>1. PICK v \in {None} \cup {b.at : b \in Of("child")} : Loses(v)
      BY <1>19 DEF ChildReturns
    <2>2. v \in Nat \cup {None}
      BY <2>1 DEF Of, HeapTypes, BlockRecords
    <2>3. \A b \in blocks' : \E c \in blocks : b.at = c.at /\ b.len = c.len
      BY <2>1, <2>2, LosesFacts DEF HeapTypes, BlockRecords
    <2>4. \A w \in Users : op'[w].step = "in" => op'[w] = op[w] /\ (Runs(w)' => Runs(w))
      BY <1>19 DEF ChildReturns, Runs
    <2>5. QED
      BY <2>3, <2>4 DEF HeapTypes, BlockRecords
  <1>20. CASE ChildDies
    <2>1. Loses(None)
      BY <1>20 DEF ChildDies
    <2>3. \A b \in blocks' : \E c \in blocks : b.at = c.at /\ b.len = c.len
      BY <2>1, LosesFacts DEF HeapTypes, BlockRecords
    <2>4. \A w \in Users : op'[w].step = "in" => op'[w] = op[w] /\ (Runs(w)' => Runs(w))
      BY <1>20 DEF ChildDies, Runs
    <2>5. QED
      BY <2>3, <2>4 DEF HeapTypes, BlockRecords
  <1>21. ASSUME NEW u \in Users, Enter(u) PROVE SpotOK'
    <2>1. PICK r \in OpRecords :
            /\ op' = [op EXCEPT ![u] = r]
            /\ r.spot # None =>
                \/ /\ r.spot + r.len <= RegionSize
                   /\ \A b \in blocks : b.at = r.at \/ b.at + b.len <= r.spot \/ r.spot + r.len <= b.at
                \/ /\ r.spot \in Elsewhere /\ r.len \in HugeSizes
                   /\ \A b \in blocks : b.at # r.spot
      BY <1>21, EnterFacts
    <2>2. mapped /\ blocks' = blocks /\ pc' = pc
      BY <1>21 DEF Enter
    <2>3. \A v \in Users \ {u} : Runs(v) => op'[v].step # "in"
      BY <1>21, <2>1 DEF Enter, LockOK
    <2>4. ASSUME r.spot # None, NEW b \in blocks
          PROVE  b.at = r.at \/ b.at + b.len <= r.spot \/ r.spot + r.len <= b.at
      <3>1. CASE r.spot + r.len <= RegionSize
                 /\ \A c \in blocks : c.at = r.at \/ c.at + c.len <= r.spot \/ r.spot + r.len <= c.at
        BY <3>1
      <3>2. CASE r.spot \in Elsewhere /\ r.len \in HugeSizes /\ b.at # r.spot
        <4>1. b.at + b.len <= RegionSize \/ (b.at \in Elsewhere /\ b.len \in HugeSizes)
          BY <2>2 DEF PlacesOK
        <4>2. b.at \in Nat /\ b.len \in Nat /\ r.spot \in Nat /\ r.spot > RegionSize
          <5>1. b.at \in Nat /\ b.len \in Nat
            BY DEF HeapTypes, BlockRecords
          <5>2. r.spot \in Nat /\ r.spot > RegionSize
            BY <3>2, ElsewhereFacts
          <5>3. QED
            BY <5>1, <5>2
        <4>3. CASE b.at + b.len <= RegionSize
          BY <4>2, <4>3
        <4>4. CASE b.at \in Elsewhere /\ b.len \in HugeSizes
          BY <3>2, <4>4, ElsewhereFacts
        <4>5. QED
          BY <4>1, <4>3, <4>4
      <3>3. QED
        BY <2>1, <2>4, <3>1, <3>2
    <2>5. r.spot # None => \/ r.spot + r.len <= RegionSize
                           \/ r.spot \in Elsewhere /\ r.len \in HugeSizes
      BY <2>1
    <2>6. op'[u] = r
      BY <2>1
    <2>7. QED
      BY <2>2, <2>3, <2>4, <2>5, <2>6
  <1>22. ASSUME NEW u \in Users, Leave(u) PROVE SpotOK'
    <2>1. PICK a \in Nat \cup {None} : Effect(u, a)
      BY <1>22, LeaveEffect
    <2>2. op' = [op EXCEPT ![u] = Done(a)] /\ Done(a).step = "done" /\ Done(a).at = a
      BY <2>1, DoneFacts DEF Effect
    <2>3. \A v \in Users : Runs(v)' => op'[v].step # "in"
      BY <1>22, <2>2, LeaveEffect DEF Leave, LockOK
    <2>4. QED
      BY <2>3
  <1>23. ASSUME NEW u \in Users, Bootstrap(u) PROVE SpotOK'
    <2>1. PICK a \in Nat \cup {None} : Effect(u, a)
      BY <1>23, BootstrapEffect
    <2>2. op' = [op EXCEPT ![u] = Done(a)] /\ Done(a).step = "done" /\ Done(a).at = a
      BY <2>1, DoneFacts DEF Effect
    <2>3. \A v \in Users : op'[v].step # "in"
      BY <1>23, <2>2, BootstrapEffect DEF Bootstrap, UnmappedOK
    <2>4. QED
      BY <2>3
  <1>24. CASE UNCHANGED vars
    BY <1>24 DEF vars
  <1>25. QED
    BY <1>1, <1>2, <1>3, <1>4, <1>5, <1>6, <1>7, <1>8, <1>9, <1>9a, <1>9c, <1>10, <1>11, <1>11a, <1>12,
       <1>13, <1>14, <1>15, <1>16, <1>17, <1>18, <1>19, <1>20, <1>21, <1>22, <1>23, <1>24
    DEF Next, LoopStep, HeapStep

\* that nobody frees or moves another's block,
LEMMA TargetsStep ==
  ASSUME HeapTypes, OpTypes, LoopTypes, OpsOK, LoopOpOK, LockOK, UnmappedOK,
         PlacesOK, Apart, SpotOK, TargetsOK, ResultOK, ReqOK, AnswerOK, MessagesOK, [Next]_vars
  PROVE  TargetsOK'
  <1> USE IdleFacts, ShimHeapAssumption DEF TargetsOK, OpTypes, Runs, Busy, May, Users, heapVars, hostVars, Got, Ready
  <1>1. CASE NewMessage
    BY <1>1, MallocFacts, CallocFacts, SizeFacts DEF NewMessage, LoopGoes, LoopAt
  <1>2. CASE MessageMade
    BY <1>2 DEF MessageMade, LoopGoes
  <1>3. CASE ReadRequest
    BY <1>3, MallocFacts, SizeFacts DEF ReadRequest, LoopGoes, LoopAt
  <1>4. CASE NoRoomForRequest
    BY <1>4 DEF NoRoomForRequest, LoopGoes
  <1>5. CASE Allocate
    <2>1. req.size \in 0 .. W - 1
      BY <1>5 DEF Allocate, HasRequest, LoopTypes, LoopOpOK
    <2>2. QED
      BY <1>5, <2>1, MallocFacts DEF Allocate, HasRequest, LoopGoes
  <1>6. CASE Allocated
    <2>1. op["loop"].at \in Nat \cup {None}
      BY DEF OpTypes, OpRecords, Users
    <2>2. CASE mapped /\ op["loop"].at # None /\ op["loop"].at + req.size > RegionSize
      <3>1. op' = [op EXCEPT !["loop"] = Free(op["loop"].at)] /\ pc' = "free" /\ pc = "allocate"
            /\ UNCHANGED <<heapVars, held>>
        BY <1>6, <2>2 DEF Allocated, LoopGoes
      <3>2. \E b \in blocks : b.at = op["loop"].at /\ b.of = "answer"
        BY <1>6, <2>2 DEF Allocated, AnswerOK
      <3>3. op'["loop"].at = op["loop"].at /\ \A w \in Users \ {"loop"} : op'[w] = op[w]
        BY <2>1, <2>2, <3>1, FreeFacts
      <3>4. ASSUME NEW w \in Users \ {"loop"}, NEW b \in blocks, May(w, b) PROVE May(w, b)'
        BY <3>1, <3>4
      <3>5. QED
        BY <3>1, <3>2, <3>3, <3>4
    <2>3. CASE ~(mapped /\ op["loop"].at # None /\ op["loop"].at + req.size > RegionSize)
      BY <1>6, <2>3 DEF Allocated, Answers, LoopGoes
    <2>4. QED
      BY <2>2, <2>3
  <1>7. CASE Release
    <2>1. PICK b \in blocks : b.at = req.at /\ b.of = "host" /\ \A h \in held : h.at # req.at
      BY <1>7 DEF Release, HasRequest, LoopOpOK, ReqOK
    <2>2. req.at \in Nat
      BY <2>1 DEF HeapTypes, BlockRecords
    <2>3. QED
      BY <1>7, <2>1, <2>2, FreeFacts DEF Release, HasRequest, LoopGoes
  <1>8. CASE Freed
    BY <1>8 DEF Freed, Answers, LoopGoes
  <1>9a. CASE ReserveTags \/ ReserveVals
    <2>1. /\ pc \in {"reading", "tags"} /\ pc' \in {"tags", "vals"} /\ op["loop"].step = "done"
          /\ req # None /\ req.kind = "invoke" /\ UNCHANGED <<heapVars, child, result, hostVars>>
      BY <1>9a, ReserveFacts
    <2>2. PICK r \in OpRecords :
            /\ op' = [op EXCEPT !["loop"] = r] /\ r.step \in {"want", "done"} /\ r.at = None
            /\ r.step = "want" => /\ r.do = "malloc" /\ r.size = r.len /\ r.len >= 1
                                  /\ r.len \notin HugeSizes
      BY <1>9a, ReserveFacts
    <2>3. QED
      BY <2>1, <2>2
  <1>9c. CASE NoRoomForVector
    BY <1>9c DEF NoRoomForVector, LoopGoes
  <1>9. CASE TakeWorker
    <2>1. \A b \in Of("refill") : Free(b.at).step = "want" /\ Free(b.at).do = "free" /\ Free(b.at).at = b.at
      BY FreeFacts DEF Of, HeapTypes, BlockRecords
    <2>2. Done(None).step = "done"
      BY DoneFacts
    <2>3. QED
      BY <1>9, <2>1, <2>2 DEF TakeWorker, Reserved, LoopGoes, Of
  <1>10. CASE Invoke
    BY <1>10 DEF Invoke, LoopGoes
  <1>11. CASE CallOver
    BY <1>11 DEF CallOver, LoopGoes, LoopAt
  <1>11a. CASE FreeVectors
    <2>1. \A b \in Of("args") : Free(b.at).step = "want" /\ Free(b.at).do = "free" /\ Free(b.at).at = b.at
      BY FreeFacts DEF Of, HeapTypes, BlockRecords
    <2>2. QED
      BY <1>11a, <2>1 DEF FreeVectors, LoopGoes, Of
  <1>12. CASE Reply
    <2>1. child = "none" /\ result # None => \E b \in blocks : b.at = result /\ b.of \in {"child", "answer"}
      BY DEF ResultOK
    <2>2. child = "none"
      BY <1>12 DEF Reply, LoopAt, LoopOpOK
    <2>3. ASSUME NEW b \in blocks, b.of = "main" PROVE b \in blocks'
      <3>1. b.at # result
        <4>1. b.at # None
          BY DEF HeapTypes, BlockRecords
        <4>2. QED
          BY <2>1, <2>2, <2>3, <4>1, SameBlock
      <3>2. QED
        BY <1>12, <3>1, ReplyFacts
    <2>4. ~Busy("child")
      BY <2>2 DEF OpsOK
    <2>5. op' = [op EXCEPT !["loop"] = Idle] /\ pc' = "drop"
      BY <1>12 DEF Reply, LoopGoes
    <2>6. QED
      BY <1>12, <2>3, <2>4, <2>5 DEF Reply, LoopAt, OpsOK
  <1>13. CASE Drop
    <2>1. \A b \in Of("loop") \cup Of("args") : Free(b.at).step = "want" /\ Free(b.at).do = "free" /\ Free(b.at).at = b.at
      BY FreeFacts DEF Of, HeapTypes, BlockRecords
    <2>2. QED
      BY <1>13, <2>1 DEF Drop, LoopGoes, Of
  <1>14. CASE Refill
    BY <1>14, MallocFacts, SizeFacts DEF Refill
  <1>15. CASE Refilled
    BY <1>15 DEF Refilled, LockOfDead
  <1>16. CASE Constructor
    <2>1. PICK o : op' = [op EXCEPT !["main"] = o] /\ o.step \in {"want", "done"}
                 /\ (o.step = "want" /\ o.do # "malloc" => \E b \in blocks : b.at = o.at /\ b.of = "main")
      BY <1>16, ConstructorFacts DEF Asks
    <2>2. QED
      BY <1>16, <2>1 DEF Constructor, LibraryAsks
  <1>17. CASE HostAsks
    BY <1>17 DEF HostAsks
  <1>18. CASE ChildAsks
    <2>1. PICK o : op' = [op EXCEPT !["child"] = o] /\ o.step \in {"want", "done"}
                 /\ (o.step = "want" /\ o.do # "malloc" => \E b \in blocks : b.at = o.at /\ b.of = "child")
      BY <1>18, ChildAsksFacts DEF Asks
    <2>2. QED
      BY <1>18, <2>1 DEF ChildAsks, LibraryAsks
  <1>19. CASE ChildReturns
    <2>1. PICK v \in {None} \cup {b.at : b \in Of("child")} : Loses(v) /\ result' = v
      BY <1>19 DEF ChildReturns
    <2>2. v \in Nat \cup {None}
      BY <2>1 DEF Of, HeapTypes, BlockRecords
    <2>3. \A b \in blocks : b.of # "child" => b \in blocks'
      BY <2>1, <2>2, LosesFacts
    <2>4. QED
      BY <1>19, <2>3 DEF ChildReturns
  <1>20. CASE ChildDies
    <2>1. Loses(None)
      BY <1>20 DEF ChildDies
    <2>3. \A b \in blocks : b.of # "child" => b \in blocks'
      BY <2>1, LosesFacts
    <2>4. QED
      BY <1>20, <2>3 DEF ChildDies
  <1>21. ASSUME NEW u \in Users, Enter(u) PROVE TargetsOK'
    <2>1. PICK r \in OpRecords :
            /\ op' = [op EXCEPT ![u] = r] /\ r.step = "in" /\ r.do = op[u].do /\ r.at = op[u].at
            /\ r.size = op[u].size /\ r.len = op[u].len
      BY <1>21, EnterFacts
    <2>2. QED
      BY <1>21, <2>1 DEF Enter
  <1>22. ASSUME NEW u \in Users, Leave(u) PROVE TargetsOK'
    <2>1. PICK a \in Nat \cup {None} : Effect(u, a)
      BY <1>22, LeaveEffect
    <2>2. op' = [op EXCEPT ![u] = Done(a)] /\ Done(a).step = "done" /\ Done(a).at = a
      BY <2>1, DoneFacts DEF Effect
    <2>3. \A w \in Users \ {u} : op'[w] = op[w]
      BY <2>2 DEF OpTypes
    <2>4. \A w \in Users, b \in blocks : May(w, b)' <=> May(w, b)
      BY <1>22 DEF Leave, May
    <2>5. ASSUME NEW w \in Users \ {u}, Runs(w), Busy(w), op[w].do # "malloc"
          PROVE  \E b \in blocks' : b.at = op[w].at /\ May(w, b)'
      <3>1. PICK b \in blocks : b.at = op[w].at /\ May(w, b)
        BY <2>5 DEF TargetsOK
      <3>2. b \in blocks' \/ May(u, b)
        BY <2>1 DEF Effect
      <3>3. ~May(u, b)
        BY <2>5, <3>1 DEF May
      <3>4. QED
        BY <2>4, <3>1, <3>2, <3>3
    <2>6. ~Busy(u)'
      BY <2>2 DEF OpTypes, Busy
    <2>7. \A w \in Users : Runs(w)' <=> Runs(w)
      BY <1>22 DEF Leave, Runs
    <2>8. QED
      BY <2>3, <2>5, <2>6, <2>7 DEF TargetsOK, Busy
  <1>23. ASSUME NEW u \in Users, Bootstrap(u) PROVE TargetsOK'
    <2>1. PICK a \in Nat \cup {None} : Effect(u, a)
      BY <1>23, BootstrapEffect
    <2>2. op' = [op EXCEPT ![u] = Done(a)] /\ Done(a).step = "done" /\ Done(a).at = a
      BY <2>1, DoneFacts DEF Effect
    <2>3. \A w \in Users \ {u} : op'[w] = op[w]
      BY <2>2 DEF OpTypes
    <2>4. \A w \in Users, b \in blocks : May(w, b)' <=> May(w, b)
      BY <1>23 DEF Bootstrap, May
    <2>5. ASSUME NEW w \in Users \ {u}, Runs(w), Busy(w), op[w].do # "malloc"
          PROVE  \E b \in blocks' : b.at = op[w].at /\ May(w, b)'
      <3>1. PICK b \in blocks : b.at = op[w].at /\ May(w, b)
        BY <2>5 DEF TargetsOK
      <3>2. b \in blocks' \/ May(u, b)
        BY <2>1 DEF Effect
      <3>3. ~May(u, b)
        BY <2>5, <3>1 DEF May
      <3>4. QED
        BY <2>4, <3>1, <3>2, <3>3
    <2>6. ~Busy(u)'
      BY <2>2 DEF OpTypes, Busy
    <2>7. \A w \in Users : Runs(w)' <=> Runs(w)
      BY <1>23 DEF Bootstrap, Runs
    <2>8. QED
      BY <2>3, <2>5, <2>6, <2>7 DEF TargetsOK, Busy
  <1>24. CASE UNCHANGED vars
    BY <1>24 DEF vars
  <1>25. QED
    BY <1>1, <1>2, <1>3, <1>4, <1>5, <1>6, <1>7, <1>8, <1>9, <1>9a, <1>9c, <1>10, <1>11, <1>11a, <1>12,
       <1>13, <1>14, <1>15, <1>16, <1>17, <1>18, <1>19, <1>20, <1>21, <1>22, <1>23, <1>24
    DEF Next, LoopStep, HeapStep

\* what will be answered,
LEMMA ResultStep ==
  ASSUME HeapTypes, OpTypes, LoopTypes, OpsOK, LoopOpOK, LockOK, UnmappedOK,
         PlacesOK, Apart, SpotOK, TargetsOK, ResultOK, ReqOK, AnswerOK, MessagesOK, [Next]_vars
  PROVE  ResultOK'
  <1> USE ShimHeapAssumption DEF ResultOK, heapVars, hostVars, Got, Ready
  <1>1. CASE NewMessage
    BY <1>1 DEF NewMessage, LoopGoes, LoopAt
  <1>2. CASE MessageMade
    BY <1>2 DEF MessageMade, LoopGoes
  <1>3. CASE ReadRequest
    BY <1>3 DEF ReadRequest, LoopGoes, LoopAt
  <1>4. CASE NoRoomForRequest
    BY <1>4 DEF NoRoomForRequest, LoopGoes
  <1>5. CASE Allocate
    BY <1>5 DEF Allocate, HasRequest, LoopGoes
  <1>6. CASE Allocated
    <2>1. pc = "allocate" /\ Got("loop") /\ child # "runs" /\ result = None /\ UNCHANGED <<heapVars, child>>
      BY <1>6 DEF Allocated, LoopOpOK
    <2>2. CASE mapped /\ op["loop"].at # None /\ op["loop"].at + req.size > RegionSize
      BY <1>6, <2>1, <2>2 DEF Allocated
    <2>3. CASE ~(mapped /\ op["loop"].at # None /\ op["loop"].at + req.size > RegionSize)
      <3>1. result' = (IF mapped THEN op["loop"].at ELSE None) /\ pc' = "reply"
        BY <1>6, <2>3 DEF Allocated, Answers, LoopGoes
      <3>2. CASE result' # None
        <4>1. mapped /\ op["loop"].at # None /\ result' = op["loop"].at
          BY <3>1, <3>2
        <4>2. PICK b \in blocks : b.at = op["loop"].at /\ b.of = "answer" /\ b.len = req.size
          BY <2>1, <4>1 DEF AnswerOK
        <4>3. b.at + b.len <= RegionSize
          BY <2>3, <4>1, <4>2 DEF HeapTypes, BlockRecords
        <4>4. QED
          BY <2>1, <3>1, <4>1, <4>2, <4>3
      <3>3. QED
        BY <3>1, <3>2
    <2>4. QED
      BY <2>2, <2>3
  <1>7. CASE Release
    BY <1>7 DEF Release, HasRequest, LoopGoes
  <1>8. CASE Freed
    BY <1>8 DEF Freed, Answers, LoopGoes
  <1>9a. CASE ReserveTags \/ ReserveVals
    <2>1. /\ pc \in {"reading", "tags"} /\ pc' \in {"tags", "vals"} /\ op["loop"].step = "done"
          /\ req # None /\ req.kind = "invoke" /\ UNCHANGED <<heapVars, child, result, hostVars>>
      BY <1>9a, ReserveFacts
    <2>2. PICK r \in OpRecords :
            /\ op' = [op EXCEPT !["loop"] = r] /\ r.step \in {"want", "done"} /\ r.at = None
            /\ r.step = "want" => /\ r.do = "malloc" /\ r.size = r.len /\ r.len >= 1
                                  /\ r.len \notin HugeSizes
      BY <1>9a, ReserveFacts
    <2>3. QED
      BY <2>1, <2>2
  <1>9c. CASE NoRoomForVector
    BY <1>9c DEF NoRoomForVector, LoopGoes
  <1>9. CASE TakeWorker
    BY <1>9 DEF TakeWorker, Reserved, LoopGoes
  <1>10. CASE Invoke
    BY <1>10 DEF Invoke, LoopGoes
  <1>11. CASE CallOver
    BY <1>11 DEF CallOver, LoopGoes, LoopAt
  <1>11a. CASE FreeVectors
    BY <1>11a DEF FreeVectors, LoopGoes
  <1>12. CASE Reply
    BY <1>12 DEF Reply, LoopGoes, LoopAt
  <1>13. CASE Drop
    BY <1>13 DEF Drop, LoopGoes
  <1>14. CASE Refill
    BY <1>14 DEF Refill
  <1>15. CASE Refilled
    BY <1>15 DEF Refilled, LockOfDead
  <1>16. CASE Constructor
    BY <1>16 DEF Constructor, LibraryAsks
  <1>17. CASE HostAsks
    BY <1>17 DEF HostAsks
  <1>18. CASE ChildAsks
    BY <1>18 DEF ChildAsks, LibraryAsks
  <1>19. CASE ChildReturns
    <2>1. PICK v \in {None} \cup {b.at : b \in Of("child")} : Loses(v) /\ result' = v
      BY <1>19 DEF ChildReturns
    <2>2. v \in Nat \cup {None}
      BY <2>1 DEF Of, HeapTypes, BlockRecords
    <2>3. child' = "over" /\ pc' = pc /\ pc \in {"call", "dead"} /\ mapped
      BY <1>19 DEF ChildReturns, LoopOpOK, UnmappedOK
    <2>4. ASSUME v # None
          PROVE  \E b \in blocks' : /\ b.at = v /\ b.of \in {"child", "answer"}
                                   /\ b.at + b.len <= RegionSize
      <3>1. PICK b \in blocks : b.of = "child" /\ b.at = v
        BY <2>1, <2>4 DEF Of
      <3>2. b \in blocks'
        BY <2>1, <2>2, <3>1, LosesFacts
      <3>3. b.at + b.len <= RegionSize
        BY <2>3, <3>1 DEF PlacesOK
      <3>4. QED
        BY <3>1, <3>2, <3>3
    <2>5. QED
      BY <2>1, <2>3, <2>4
  <1>20. CASE ChildDies
    BY <1>20 DEF ChildDies, LockOfDead
  <1>21. ASSUME NEW u \in Users, Enter(u) PROVE ResultOK'
    BY <1>21 DEF Enter
  <1>22. ASSUME NEW u \in Users, Leave(u) PROVE ResultOK'
    <2>1. PICK a \in Nat \cup {None} : Effect(u, a)
      BY <1>22, LeaveEffect
    <2>3. pc' = pc /\ child' = child /\ result' = result
      BY <1>22 DEF Leave
    <2>4. ASSUME result # None
          PROVE  \E b \in blocks' : /\ b.at = result /\ b.of \in {"child", "answer"}
                                   /\ b.at + b.len <= RegionSize
      <3>1. PICK b \in blocks : /\ b.at = result /\ b.of \in {"child", "answer"}
                               /\ b.at + b.len <= RegionSize
        BY <2>4 DEF ResultOK
      <3>2. Busy(u) => u # "child"
        BY <2>4 DEF ResultOK, OpsOK
      <3>3. ~(u = "loop" /\ pc = "free")
        BY <2>4 DEF ResultOK
      <3>4. ~May(u, b)
        BY <1>22, <3>1, <3>2, <3>3, LeaveEffect DEF May
      <3>5. b \in blocks'
        BY <2>1, <3>4 DEF Effect
      <3>6. QED
        BY <3>1, <3>5
    <2>5. QED
      BY <2>3, <2>4 DEF ResultOK
  <1>23. ASSUME NEW u \in Users, Bootstrap(u) PROVE ResultOK'
    <2>1. PICK a \in Nat \cup {None} : Effect(u, a)
      BY <1>23, BootstrapEffect
    <2>3. pc' = pc /\ child' = child /\ result' = result
      BY <1>23 DEF Bootstrap
    <2>4. ASSUME result # None
          PROVE  \E b \in blocks' : /\ b.at = result /\ b.of \in {"child", "answer"}
                                   /\ b.at + b.len <= RegionSize
      <3>1. PICK b \in blocks : /\ b.at = result /\ b.of \in {"child", "answer"}
                               /\ b.at + b.len <= RegionSize
        BY <2>4 DEF ResultOK
      <3>2. Busy(u) => u # "child"
        BY <2>4 DEF ResultOK, OpsOK
      <3>3. ~(u = "loop" /\ pc = "free")
        BY <2>4 DEF ResultOK
      <3>4. ~May(u, b)
        BY <1>23, <3>1, <3>2, <3>3, BootstrapEffect DEF May
      <3>5. b \in blocks'
        BY <2>1, <3>4 DEF Effect
      <3>6. QED
        BY <3>1, <3>5
    <2>5. QED
      BY <2>3, <2>4 DEF ResultOK
  <1>24. CASE UNCHANGED vars
    BY <1>24 DEF vars
  <1>25. QED
    BY <1>1, <1>2, <1>3, <1>4, <1>5, <1>6, <1>7, <1>8, <1>9, <1>9a, <1>9c, <1>10, <1>11, <1>11a, <1>12,
       <1>13, <1>14, <1>15, <1>16, <1>17, <1>18, <1>19, <1>20, <1>21, <1>22, <1>23, <1>24
    DEF Next, LoopStep, HeapStep

\* Blocks that are handed over are the host's.
LEMMA ReplyKeeps ==
  ASSUME HeapTypes, LoopTypes, Reply
  PROVE  \A b \in blocks : \/ b \in blocks' /\ b.at # result
                           \/ b.at = result /\ [at |-> b.at, len |-> b.len, of |-> "host"] \in blocks'
  <1>1. ASSUME NEW b \in blocks PROVE [b EXCEPT !.of = "host"] = [at |-> b.at, len |-> b.len, of |-> "host"]
    BY DEF HeapTypes, BlockRecords
  <1>2. \A b \in blocks : \/ b \in blocks' /\ b.at # result
                          \/ b.at = result /\ [b EXCEPT !.of = "host"] \in blocks'
    BY ReplyFacts
  <1>3. QED
    BY <1>1, <1>2

\* what the host has and what it releases,
LEMMA ReqStep ==
  ASSUME HeapTypes, OpTypes, LoopTypes, OpsOK, LoopOpOK, LockOK, UnmappedOK,
         PlacesOK, Apart, SpotOK, TargetsOK, ResultOK, ReqOK, AnswerOK, MessagesOK, [Next]_vars
  PROVE  ReqOK'
  <1> USE ShimHeapAssumption DEF ReqOK, heapVars, hostVars, Got, Ready
  <1>1. CASE NewMessage
    BY <1>1 DEF NewMessage, LoopGoes, LoopAt
  <1>2. CASE MessageMade
    BY <1>2 DEF MessageMade, LoopGoes
  <1>3. CASE ReadRequest
    BY <1>3 DEF ReadRequest, LoopGoes, LoopAt
  <1>4. CASE NoRoomForRequest
    BY <1>4 DEF NoRoomForRequest, LoopGoes
  <1>5. CASE Allocate
    BY <1>5 DEF Allocate, HasRequest, LoopGoes
  <1>6. CASE Allocated
    BY <1>6 DEF Allocated, Answers, LoopGoes
  <1>7. CASE Release
    BY <1>7 DEF Release, HasRequest, LoopGoes
  <1>8. CASE Freed
    BY <1>8 DEF Freed, Answers, LoopGoes
  <1>9a. CASE ReserveTags \/ ReserveVals
    <2>1. /\ pc \in {"reading", "tags"} /\ pc' \in {"tags", "vals"} /\ op["loop"].step = "done"
          /\ req # None /\ req.kind = "invoke" /\ UNCHANGED <<heapVars, child, result, hostVars>>
      BY <1>9a, ReserveFacts
    <2>2. PICK r \in OpRecords :
            /\ op' = [op EXCEPT !["loop"] = r] /\ r.step \in {"want", "done"} /\ r.at = None
            /\ r.step = "want" => /\ r.do = "malloc" /\ r.size = r.len /\ r.len >= 1
                                  /\ r.len \notin HugeSizes
      BY <1>9a, ReserveFacts
    <2>3. QED
      BY <2>1, <2>2
  <1>9c. CASE NoRoomForVector
    BY <1>9c DEF NoRoomForVector, LoopGoes
  <1>9. CASE TakeWorker
    BY <1>9 DEF TakeWorker, Reserved, LoopGoes
  <1>10. CASE Invoke
    BY <1>10 DEF Invoke, LoopGoes
  <1>11. CASE CallOver
    BY <1>11 DEF CallOver, LoopGoes, LoopAt
  <1>11a. CASE FreeVectors
    BY <1>11a DEF FreeVectors, LoopGoes
  <1>12. CASE Reply
    <2>1. req' = None
      BY <1>12 DEF Reply
    <2>2. \A b \in blocks : \/ b \in blocks' /\ b.at # result
                            \/ b.at = result /\ [at |-> b.at, len |-> b.len, of |-> "host"] \in blocks'
      BY <1>12, ReplyKeeps
    <2>3. \A h \in held' : h \in held \/ \E c \in blocks : c.at = result /\ h = [at |-> c.at, len |-> c.len]
      BY <1>12, ReplyFacts
    <2>4. ASSUME NEW h \in held PROVE [at |-> h.at, len |-> h.len, of |-> "host"] \in blocks'
      <3>1. PICK b \in blocks : b = [at |-> h.at, len |-> h.len, of |-> "host"]
        OBVIOUS
      <3>2. QED
        BY <2>2, <3>1
    <2>5. ASSUME NEW c \in blocks, c.at = result PROVE [at |-> c.at, len |-> c.len, of |-> "host"] \in blocks'
      BY <2>2, <2>5
    <2>6. QED
      BY <2>1, <2>3, <2>4, <2>5
  <1>13. CASE Drop
    BY <1>13 DEF Drop, LoopGoes
  <1>14. CASE Refill
    BY <1>14 DEF Refill
  <1>15. CASE Refilled
    BY <1>15 DEF Refilled, LockOfDead
  <1>16. CASE Constructor
    BY <1>16 DEF Constructor, LibraryAsks
  <1>17. CASE HostAsks
    <2>1. UNCHANGED <<blocks, pc>> /\ held' \subseteq held
      BY <1>17 DEF HostAsks
    <2>2. ASSUME req'.kind = "release"
          PROVE  \E b \in blocks : b.at = req'.at /\ b.of = "host" /\ \A h \in held' : h.at # req'.at
      <3>1. PICK h \in held : req'.at = h.at /\ held' = held \ {h}
        BY <1>17, <2>2 DEF HostAsks
      <3>2. ASSUME NEW g \in held, g.at = h.at PROVE g = h
        <4>1. [at |-> g.at, len |-> g.len, of |-> "host"] = [at |-> h.at, len |-> h.len, of |-> "host"]
          BY <3>2, SameBlock
        <4>2. g.len = h.len
          BY <4>1
        <4>3. QED
          BY <3>2, <4>2 DEF LoopTypes
      <3>3. QED
        BY <3>1, <3>2
    <2>3. QED
      BY <2>1, <2>2
  <1>18. CASE ChildAsks
    BY <1>18 DEF ChildAsks, LibraryAsks
  <1>19. CASE ChildReturns
    <2>1. PICK v \in {None} \cup {b.at : b \in Of("child")} : Loses(v) /\ result' = v
      BY <1>19 DEF ChildReturns
    <2>2. v \in Nat \cup {None}
      BY <2>1 DEF Of, HeapTypes, BlockRecords
    <2>3. UNCHANGED <<pc, hostVars>>
      BY <1>19 DEF ChildReturns
    <2>4. \A b \in blocks : b.of = "host" => b \in blocks'
      BY <2>1, <2>2, LosesFacts
    <2>5. QED
      BY <2>3, <2>4
  <1>20. CASE ChildDies
    <2>1. Loses(None)
      BY <1>20 DEF ChildDies
    <2>3. UNCHANGED <<pc, hostVars>>
      BY <1>20 DEF ChildDies
    <2>4. \A b \in blocks : b.of = "host" => b \in blocks'
      BY <2>1, LosesFacts
    <2>5. QED
      BY <2>3, <2>4
  <1>21. ASSUME NEW u \in Users, Enter(u) PROVE ReqOK'
    BY <1>21 DEF Enter
  <1>22. ASSUME NEW u \in Users, Leave(u) PROVE ReqOK'
    <2>1. PICK a \in Nat \cup {None} : Effect(u, a)
      BY <1>22, LeaveEffect
    <2>2. UNCHANGED <<pc, hostVars>>
      BY <1>22 DEF Leave
    <2>3. ASSUME NEW b \in blocks, b.of = "host",
                 pc \in {"drop", "top", "message", "read", "reading"} \/ \E h \in held : h.at = b.at
          PROVE  b \in blocks'
      BY <2>1, <2>3 DEF Effect, May
    <2>4. \A h \in held : [at |-> h.at, len |-> h.len, of |-> "host"] \in blocks'
      BY <2>3
    <2>5. QED
      BY <2>2, <2>3, <2>4
  <1>23. ASSUME NEW u \in Users, Bootstrap(u) PROVE ReqOK'
    <2>1. PICK a \in Nat \cup {None} : Effect(u, a)
      BY <1>23, BootstrapEffect
    <2>2. UNCHANGED <<pc, hostVars>>
      BY <1>23 DEF Bootstrap
    <2>3. ASSUME NEW b \in blocks, b.of = "host",
                 pc \in {"drop", "top", "message", "read", "reading"} \/ \E h \in held : h.at = b.at
          PROVE  b \in blocks'
      BY <2>1, <2>3 DEF Effect, May
    <2>4. \A h \in held : [at |-> h.at, len |-> h.len, of |-> "host"] \in blocks'
      BY <2>3
    <2>5. QED
      BY <2>2, <2>3, <2>4
  <1>24. CASE UNCHANGED vars
    BY <1>24 DEF vars
  <1>25. QED
    BY <1>1, <1>2, <1>3, <1>4, <1>5, <1>6, <1>7, <1>8, <1>9, <1>9a, <1>9c, <1>10, <1>11, <1>11a, <1>12,
       <1>13, <1>14, <1>15, <1>16, <1>17, <1>18, <1>19, <1>20, <1>21, <1>22, <1>23, <1>24
    DEF Next, LoopStep, HeapStep

\* what is on its way to the host,
LEMMA AnswerStep ==
  ASSUME HeapTypes, OpTypes, LoopTypes, OpsOK, LoopOpOK, LockOK, UnmappedOK,
         PlacesOK, Apart, SpotOK, TargetsOK, ResultOK, ReqOK, AnswerOK, MessagesOK, [Next]_vars
  PROVE  AnswerOK'
  <1> USE IdleFacts, ShimHeapAssumption DEF AnswerOK, OpTypes, Of, Busy, Users, heapVars, hostVars, Got, Ready
  <1>1. CASE NewMessage
    BY <1>1, MallocFacts, CallocFacts, SizeFacts DEF NewMessage, LoopGoes, LoopAt
  <1>2. CASE MessageMade
    BY <1>2 DEF MessageMade, LoopGoes
  <1>3. CASE ReadRequest
    BY <1>3, MallocFacts, SizeFacts DEF ReadRequest, LoopGoes, LoopAt
  <1>4. CASE NoRoomForRequest
    BY <1>4 DEF NoRoomForRequest, LoopGoes
  <1>5. CASE Allocate
    <2>1. req.size \in 0 .. W - 1
      BY <1>5 DEF Allocate, HasRequest, LoopTypes, LoopOpOK
    <2>2. QED
      BY <1>5, <2>1, MallocFacts DEF Allocate, HasRequest, LoopGoes
  <1>6. CASE Allocated
    <2>1. pc = "allocate" /\ mapped /\ UNCHANGED heapVars
      BY <1>6 DEF Allocated, UnmappedOK
    <2>2. op["loop"].at \in Nat \cup {None}
      BY DEF OpRecords
    <2>3. CASE op["loop"].at # None /\ op["loop"].at + req.size > RegionSize
      <3>1. op' = [op EXCEPT !["loop"] = Free(op["loop"].at)] /\ pc' = "free"
        BY <1>6, <2>1, <2>3 DEF Allocated, LoopGoes
      <3>2. op'["loop"].at = op["loop"].at /\ op'["loop"].step = "want"
        BY <2>2, <2>3, <3>1, FreeFacts
      <3>3. QED
        BY <2>1, <3>1, <3>2
    <2>4. CASE ~(op["loop"].at # None /\ op["loop"].at + req.size > RegionSize)
      <3>1. result' = op["loop"].at /\ pc' = "reply"
        BY <1>6, <2>1, <2>4 DEF Allocated, Answers, LoopGoes
      <3>2. QED
        BY <2>1, <3>1
    <2>5. QED
      BY <2>3, <2>4
  <1>7. CASE Release
    <2>1. req.at \in Nat
      BY <1>7 DEF Release, HasRequest, LoopOpOK, ReqOK, HeapTypes, BlockRecords
    <2>2. QED
      BY <1>7, <2>1, FreeFacts DEF Release, HasRequest, LoopGoes
  <1>8. CASE Freed
    BY <1>8 DEF Freed, Answers, LoopGoes
  <1>9a. CASE ReserveTags \/ ReserveVals
    <2>1. /\ pc \in {"reading", "tags"} /\ pc' \in {"tags", "vals"} /\ op["loop"].step = "done"
          /\ req # None /\ req.kind = "invoke" /\ UNCHANGED <<heapVars, child, result, hostVars>>
      BY <1>9a, ReserveFacts
    <2>2. PICK r \in OpRecords :
            /\ op' = [op EXCEPT !["loop"] = r] /\ r.step \in {"want", "done"} /\ r.at = None
            /\ r.step = "want" => /\ r.do = "malloc" /\ r.size = r.len /\ r.len >= 1
                                  /\ r.len \notin HugeSizes
      BY <1>9a, ReserveFacts
    <2>3. QED
      BY <2>1, <2>2
  <1>9c. CASE NoRoomForVector
    BY <1>9c DEF NoRoomForVector, LoopGoes
  <1>9. CASE TakeWorker
    <2>1. \A b \in Of("refill") : Free(b.at).step = "want" /\ Free(b.at).do = "free" /\ Free(b.at).at = b.at
      BY FreeFacts DEF Of, HeapTypes, BlockRecords
    <2>2. Done(None).step = "done"
      BY DoneFacts
    <2>3. QED
      BY <1>9, <2>1, <2>2 DEF TakeWorker, Reserved, LoopGoes, Of
  <1>10. CASE Invoke
    BY <1>10 DEF Invoke, LoopGoes
  <1>11. CASE CallOver
    BY <1>11 DEF CallOver, LoopGoes, LoopAt
  <1>11a. CASE FreeVectors
    <2>1. \A b \in Of("args") : Free(b.at).step = "want" /\ Free(b.at).do = "free" /\ Free(b.at).at = b.at
      BY FreeFacts DEF Of, HeapTypes, BlockRecords
    <2>2. QED
      BY <1>11a, <2>1 DEF FreeVectors, LoopGoes
  <1>12. CASE Reply
    <2>1. pc = "reply" /\ pc' = "drop"
      BY <1>12 DEF Reply, LoopGoes, LoopAt
    <2>2. \A b \in blocks' : b.of = "answer" => b \in blocks /\ b.at # result
      BY <1>12, ReplyFacts DEF HeapTypes, BlockRecords
    <2>3. QED
      BY <2>1, <2>2
  <1>13. CASE Drop
    <2>1. \A b \in Of("loop") \cup Of("args") : Free(b.at).step = "want" /\ Free(b.at).do = "free" /\ Free(b.at).at = b.at
      BY FreeFacts DEF Of, HeapTypes, BlockRecords
    <2>2. QED
      BY <1>13, <2>1 DEF Drop, LoopGoes
  <1>14. CASE Refill
    BY <1>14, MallocFacts, SizeFacts DEF Refill
  <1>15. CASE Refilled
    BY <1>15 DEF Refilled, LockOfDead
  <1>16. CASE Constructor
    <2>1. PICK o : op' = [op EXCEPT !["main"] = o] /\ o.step \in {"want", "done"}
      BY <1>16, ConstructorFacts DEF Asks
    <2>2. QED
      BY <1>16, <2>1 DEF Constructor, LibraryAsks
  <1>17. CASE HostAsks
    BY <1>17 DEF HostAsks, LoopOpOK
  <1>18. CASE ChildAsks
    <2>1. PICK o : op' = [op EXCEPT !["child"] = o] /\ o.step \in {"want", "done"}
      BY <1>18, ChildAsksFacts DEF Asks
    <2>2. QED
      BY <1>18, <2>1 DEF ChildAsks, LibraryAsks
  <1>19. CASE ChildReturns
    <2>1. PICK v \in {None} \cup {b.at : b \in Of("child")} : Loses(v) /\ result' = v
      BY <1>19 DEF ChildReturns
    <2>2. v \in Nat \cup {None}
      BY <2>1 DEF Of, HeapTypes, BlockRecords
    <2>3. UNCHANGED <<pc, req>> /\ pc \in {"call", "dead"}
      BY <1>19 DEF ChildReturns, LoopOpOK
    <2>4. \A b \in blocks' : b.of = "answer" => b \in blocks
      BY <2>1, <2>2, LosesFacts DEF HeapTypes, BlockRecords
    <2>5. QED
      BY <2>3, <2>4
  <1>20. CASE ChildDies
    <2>1. Loses(None)
      BY <1>20 DEF ChildDies
    <2>3. UNCHANGED <<pc, req>> /\ pc \in {"call", "dead"}
      BY <1>20 DEF ChildDies, LoopOpOK
    <2>4. \A b \in blocks' : b.of = "answer" => b \in blocks
      BY <2>1, LosesFacts DEF HeapTypes, BlockRecords
    <2>5. QED
      BY <2>3, <2>4
  <1>21. ASSUME NEW u \in Users, Enter(u) PROVE AnswerOK'
    <2>1. PICK r \in OpRecords :
            /\ op' = [op EXCEPT ![u] = r] /\ r.step = "in" /\ r.do = op[u].do /\ r.at = op[u].at
            /\ r.size = op[u].size /\ r.len = op[u].len
      BY <1>21, EnterFacts
    <2>2. QED
      BY <1>21, <2>1 DEF Enter
  <1>22. ASSUME NEW u \in Users, Leave(u) PROVE AnswerOK'
    <2>1. PICK a \in Nat \cup {None} : Effect(u, a)
      BY <1>22, LeaveEffect
    <2>9. op' = [op EXCEPT ![u] = Done(a)] /\ Done(a).step = "done" /\ Done(a).at = a
      BY <2>1, DoneFacts DEF Effect
    <2>2. \A w \in Users \ {u} : op'[w] = op[w]
      BY <2>1 DEF Effect, OpTypes
    <2>3. UNCHANGED <<pc, result, req>>
      BY <1>22 DEF Leave
    <2>4. CASE u = "loop"
      <3>1. pc # "dead" /\ Busy("loop") /\ ~Got("loop") /\ op["loop"].step = "in"
        BY <1>22, <2>4, LeaveEffect DEF Runs
      <3>2. \A b \in blocks' : b.of = "answer" =>
               \/ a # None /\ b = New("loop", a) /\ pc = "allocate"
               \/ b \in blocks /\ (op["loop"].do = "free" => b.at # op["loop"].at)
        BY <2>1, <2>4 DEF Effect, New, Owner
      <3>3. \A b \in blocks' : b.of = "answer" => a # None /\ b = New("loop", a) /\ pc = "allocate"
        BY <3>1, <3>2 DEF LoopOpOK
      <3>4. pc = "allocate" /\ a # None => New("loop", a) \in blocks' /\ New("loop", a).of = "answer"
                                       /\ New("loop", a).at = a /\ New("loop", a).len = req.size
        BY <2>1, <2>4, <3>1 DEF Effect, New, Owner, LoopOpOK
      <3>5. op'["loop"].at = a /\ op'["loop"].step = "done"
        BY <2>4, <2>9
      <3>6. \A b \in blocks' : b.of = "answer" => b.at = a /\ pc = "allocate"
        BY <3>3, <3>4
      <3>7. QED
        BY <2>3, <3>4, <3>5, <3>6
    <2>5. CASE u # "loop"
      <3>1. \A b \in blocks' : b.of = "answer" => b \in blocks
        BY <2>1, <2>5 DEF Effect, New, Owner
      <3>2. \A b \in blocks : b.of = "answer" => b \in blocks'
        BY <2>1, <2>5 DEF Effect, May
      <3>3. op'["loop"] = op["loop"]
        BY <2>2, <2>5
      <3>4. QED
        BY <2>3, <3>1, <3>2, <3>3
    <2>6. QED
      BY <2>4, <2>5
  <1>23. ASSUME NEW u \in Users, Bootstrap(u) PROVE AnswerOK'
    <2>1. PICK a \in Nat \cup {None} : Effect(u, a)
      BY <1>23, BootstrapEffect
    <2>2. pc \in {"top", "message", "unwind", "ended"} /\ pc' = pc
      BY <1>23 DEF Bootstrap, UnmappedOK
    <2>3. u \in {"main", "loop"}
      BY <1>23, BootstrapEffect
    <2>4. \A b \in blocks' : b.of = "answer" => b \in blocks
      BY <2>1, <2>2, <2>3 DEF Effect, New, Owner
    <2>5. QED
      BY <2>2, <2>4
  <1>24. CASE UNCHANGED vars
    BY <1>24 DEF vars
  <1>25. QED
    BY <1>1, <1>2, <1>3, <1>4, <1>5, <1>6, <1>7, <1>8, <1>9, <1>9a, <1>9c, <1>10, <1>11, <1>11a, <1>12,
       <1>13, <1>14, <1>15, <1>16, <1>17, <1>18, <1>19, <1>20, <1>21, <1>22, <1>23, <1>24
    DEF Next, LoopStep, HeapStep

\* and the messages of the loop.
LEMMA MessagesStep ==
  ASSUME HeapTypes, OpTypes, LoopTypes, OpsOK, LoopOpOK, LockOK, UnmappedOK,
         PlacesOK, Apart, SpotOK, TargetsOK, ResultOK, ReqOK, AnswerOK, MessagesOK, [Next]_vars
  PROVE  MessagesOK'
  <1> USE IdleFacts, ShimHeapAssumption DEF MessagesOK, OpTypes, Of, Users, heapVars, hostVars, Got, Ready
  <1>1. CASE NewMessage
    <2>1. op' = [op EXCEPT !["loop"] = Malloc(MessageSize)] /\ pc' = "message" /\ UNCHANGED blocks /\ pc = "top"
      BY <1>1, CallocFacts DEF NewMessage, LoopGoes, LoopAt
    <2>2. op'["loop"].step = "want"
      BY <2>1, MallocFacts, SizeFacts
    <2>3. QED
      BY <2>1, <2>2
  <1>2. CASE MessageMade
    BY <1>2 DEF MessageMade, LoopGoes
  <1>3. CASE ReadRequest
    BY <1>3, MallocFacts, SizeFacts DEF ReadRequest, LoopGoes, LoopAt
  <1>4. CASE NoRoomForRequest
    BY <1>4 DEF NoRoomForRequest, LoopGoes
  <1>5. CASE Allocate
    <2>1. req.size \in 0 .. W - 1
      BY <1>5 DEF Allocate, HasRequest, LoopTypes, LoopOpOK
    <2>2. QED
      BY <1>5, <2>1, MallocFacts DEF Allocate, HasRequest, LoopGoes
  <1>6. CASE Allocated
    <2>1. op["loop"].at \in Nat \cup {None}
      BY DEF OpTypes, OpRecords, Users
    <2>2. QED
      BY <1>6, <2>1, FreeFacts DEF Allocated, Answers, LoopGoes
  <1>7. CASE Release
    <2>1. req.at \in Nat
      BY <1>7 DEF Release, HasRequest, LoopOpOK, ReqOK, HeapTypes, BlockRecords
    <2>2. QED
      BY <1>7, <2>1, FreeFacts DEF Release, HasRequest, LoopGoes
  <1>8. CASE Freed
    BY <1>8 DEF Freed, Answers, LoopGoes
  <1>9a. CASE ReserveTags \/ ReserveVals
    <2>1. /\ pc \in {"reading", "tags"} /\ pc' \in {"tags", "vals"} /\ op["loop"].step = "done"
          /\ req # None /\ req.kind = "invoke" /\ UNCHANGED <<heapVars, child, result, hostVars>>
      BY <1>9a, ReserveFacts
    <2>2. PICK r \in OpRecords :
            /\ op' = [op EXCEPT !["loop"] = r] /\ r.step \in {"want", "done"} /\ r.at = None
            /\ r.step = "want" => /\ r.do = "malloc" /\ r.size = r.len /\ r.len >= 1
                                  /\ r.len \notin HugeSizes
      BY <1>9a, ReserveFacts
    <2>3. QED
      BY <2>1, <2>2
  <1>9c. CASE NoRoomForVector
    BY <1>9c DEF NoRoomForVector, LoopGoes
  <1>9. CASE TakeWorker
    <2>1. \A b \in Of("refill") : Free(b.at).step = "want" /\ Free(b.at).do = "free" /\ Free(b.at).at = b.at
      BY FreeFacts DEF Of, HeapTypes, BlockRecords
    <2>2. Done(None).step = "done"
      BY DoneFacts
    <2>3. QED
      BY <1>9, <2>1, <2>2 DEF TakeWorker, Reserved, LoopGoes, Of
  <1>10. CASE Invoke
    BY <1>10 DEF Invoke, LoopGoes
  <1>11. CASE CallOver
    BY <1>11 DEF CallOver, LoopGoes, LoopAt
  <1>11a. CASE FreeVectors
    <2>1. \A b \in Of("args") : Free(b.at).step = "want" /\ Free(b.at).do = "free" /\ Free(b.at).at = b.at
      BY FreeFacts DEF Of, HeapTypes, BlockRecords
    <2>2. QED
      BY <1>11a, <2>1 DEF FreeVectors, LoopGoes
  <1>12. CASE Reply
    BY <1>12 DEF Reply, LoopGoes
  <1>13. CASE Drop
    <2>1. \A b \in Of("loop") \cup Of("args") : Free(b.at).step = "want" /\ Free(b.at).do = "free" /\ Free(b.at).at = b.at
      BY FreeFacts DEF Of, HeapTypes, BlockRecords
    <2>2. QED
      BY <1>13, <2>1 DEF Drop, LoopGoes
  <1>14. CASE Refill
    BY <1>14, MallocFacts, SizeFacts DEF Refill
  <1>15. CASE Refilled
    BY <1>15 DEF Refilled, LockOfDead
  <1>16. CASE Constructor
    <2>1. PICK o : op' = [op EXCEPT !["main"] = o] /\ o.step \in {"want", "done"}
      BY <1>16, ConstructorFacts DEF Asks
    <2>2. QED
      BY <1>16, <2>1 DEF Constructor, LibraryAsks
  <1>17. CASE HostAsks
    BY <1>17 DEF HostAsks
  <1>18. CASE ChildAsks
    <2>1. PICK o : op' = [op EXCEPT !["child"] = o] /\ o.step \in {"want", "done"}
      BY <1>18, ChildAsksFacts DEF Asks
    <2>2. QED
      BY <1>18, <2>1 DEF ChildAsks, LibraryAsks
  <1>19. CASE ChildReturns
    BY <1>19 DEF ChildReturns, LoopOpOK
  <1>20. CASE ChildDies
    BY <1>20 DEF ChildDies, LoopOpOK
  <1>21. ASSUME NEW u \in Users, Enter(u) PROVE MessagesOK'
    <2>1. PICK r \in OpRecords :
            /\ op' = [op EXCEPT ![u] = r] /\ r.step = "in" /\ r.do = op[u].do /\ r.at = op[u].at
            /\ r.size = op[u].size /\ r.len = op[u].len
      BY <1>21, EnterFacts
    <2>2. QED
      BY <1>21, <2>1 DEF Enter
  <1>22. ASSUME NEW u \in Users, Leave(u) PROVE MessagesOK'
    <2>1. PICK a \in Nat \cup {None} : Effect(u, a)
      BY <1>22, LeaveEffect
    <2>9. op' = [op EXCEPT ![u] = Done(a)] /\ Done(a).step = "done" /\ Done(a).at = a
      BY <2>1, DoneFacts DEF Effect
    <2>2. \A w \in Users \ {u} : op'[w] = op[w]
      BY <2>1 DEF Effect, OpTypes
    <2>3. UNCHANGED <<pc, result, req>>
      BY <1>22 DEF Leave
    <2>4. CASE u = "loop"
      <3>1. Busy("loop") /\ ~Got("loop")
        BY <1>22, <2>4, LeaveEffect DEF Busy
      <3>2. pc \notin {"top", "read", "ended"}
        BY <3>1 DEF LoopOpOK, Busy
      <3>3. op'["loop"].at = a /\ op'["loop"].step = "done"
        BY <2>4, <2>9
      <3>4. ASSUME pc = "message", a # None PROVE Of("loop")' = {New("loop", a)}
        <4>1. New("loop", a) \in blocks' /\ New("loop", a).of = "loop"
          BY <2>1, <2>4, <3>4 DEF Effect, New, Owner
        <4>2. \A b \in blocks' : b.of = "loop" => b = New("loop", a)
          BY <2>1, <2>4, <3>1, <3>4 DEF Effect
        <4>3. QED
          BY <4>1, <4>2
      <3>5. a # None => New("loop", a) \in blocks'
        BY <2>1, <2>4 DEF Effect
      <3>6. QED
        BY <2>3, <3>2, <3>3, <3>4, <3>5
    <2>5. CASE u # "loop"
      <3>1. \A b \in blocks' : b.of = "loop" => b \in blocks
        BY <2>1, <2>5 DEF Effect, New, Owner
      <3>2. \A b \in blocks : b.of = "loop" => b \in blocks'
        BY <2>1, <2>5 DEF Effect, May
      <3>3. op'["loop"] = op["loop"]
        BY <2>2, <2>5
      <3>4. Of("loop")' = Of("loop")
        BY <3>1, <3>2
      <3>5. QED
        BY <2>3, <3>1, <3>2, <3>3, <3>4
    <2>6. QED
      BY <2>4, <2>5
  <1>23. ASSUME NEW u \in Users, Bootstrap(u) PROVE MessagesOK'
    <2>1. PICK a \in Nat \cup {None} : Effect(u, a)
      BY <1>23, BootstrapEffect
    <2>9. op' = [op EXCEPT ![u] = Done(a)] /\ Done(a).step = "done" /\ Done(a).at = a
      BY <2>1, DoneFacts DEF Effect
    <2>2. \A w \in Users \ {u} : op'[w] = op[w]
      BY <2>1 DEF Effect, OpTypes
    <2>3. UNCHANGED <<pc, result, req>>
      BY <1>23 DEF Bootstrap
    <2>4. CASE u = "loop"
      <3>1. Busy("loop") /\ ~Got("loop")
        BY <1>23, <2>4, BootstrapEffect DEF Busy
      <3>2. pc \notin {"top", "read", "ended"}
        BY <3>1 DEF LoopOpOK, Busy
      <3>3. op'["loop"].at = a /\ op'["loop"].step = "done"
        BY <2>4, <2>9
      <3>4. ASSUME pc = "message", a # None PROVE Of("loop")' = {New("loop", a)}
        <4>1. New("loop", a) \in blocks' /\ New("loop", a).of = "loop"
          BY <2>1, <2>4, <3>4 DEF Effect, New, Owner
        <4>2. \A b \in blocks' : b.of = "loop" => b = New("loop", a)
          BY <2>1, <2>4, <3>1, <3>4 DEF Effect
        <4>3. QED
          BY <4>1, <4>2
      <3>5. a # None => New("loop", a) \in blocks'
        BY <2>1, <2>4 DEF Effect
      <3>6. QED
        BY <2>3, <3>2, <3>3, <3>4, <3>5
    <2>5. CASE u # "loop"
      <3>1. \A b \in blocks' : b.of = "loop" => b \in blocks
        BY <2>1, <2>5 DEF Effect, New, Owner
      <3>2. \A b \in blocks : b.of = "loop" => b \in blocks'
        BY <2>1, <2>5 DEF Effect, May
      <3>3. op'["loop"] = op["loop"]
        BY <2>2, <2>5
      <3>4. Of("loop")' = Of("loop")
        BY <3>1, <3>2
      <3>5. QED
        BY <2>3, <3>1, <3>2, <3>3, <3>4
    <2>6. QED
      BY <2>4, <2>5
  <1>24. CASE UNCHANGED vars
    BY <1>24 DEF vars
  <1>25. QED
    BY <1>1, <1>2, <1>3, <1>4, <1>5, <1>6, <1>7, <1>8, <1>9, <1>9a, <1>9c, <1>10, <1>11, <1>11a, <1>12,
       <1>13, <1>14, <1>15, <1>16, <1>17, <1>18, <1>19, <1>20, <1>21, <1>22, <1>23, <1>24
    DEF Next, LoopStep, HeapStep

\* The vectors go with the call.
LEMMA VectorsStep ==
  ASSUME HeapTypes, OpTypes, LoopTypes, OpsOK, LoopOpOK, LockOK, UnmappedOK,
         PlacesOK, Apart, SpotOK, TargetsOK, ResultOK, ReqOK, AnswerOK, MessagesOK, VectorsOK, [Next]_vars
  PROVE  VectorsOK'
  <1> USE IdleFacts, ShimHeapAssumption DEF VectorsOK, OpTypes, Of, Users, heapVars, hostVars, Got, Ready
  <1>1. CASE NewMessage
    <2>1. op' = [op EXCEPT !["loop"] = Malloc(MessageSize)] /\ pc' = "message" /\ UNCHANGED blocks /\ pc = "top"
      BY <1>1, CallocFacts DEF NewMessage, LoopGoes, LoopAt
    <2>2. op'["loop"].step = "want"
      BY <2>1, MallocFacts, SizeFacts
    <2>3. QED
      BY <2>1, <2>2
  <1>2. CASE MessageMade
    BY <1>2 DEF MessageMade, LoopGoes
  <1>3. CASE ReadRequest
    BY <1>3, MallocFacts, SizeFacts DEF ReadRequest, LoopGoes, LoopAt
  <1>4. CASE NoRoomForRequest
    BY <1>4 DEF NoRoomForRequest, LoopGoes
  <1>5. CASE Allocate
    <2>1. req.size \in 0 .. W - 1
      BY <1>5 DEF Allocate, HasRequest, LoopTypes, LoopOpOK
    <2>2. QED
      BY <1>5, <2>1, MallocFacts DEF Allocate, HasRequest, LoopGoes
  <1>6. CASE Allocated
    <2>1. op["loop"].at \in Nat \cup {None}
      BY DEF OpTypes, OpRecords, Users
    <2>2. QED
      BY <1>6, <2>1, FreeFacts DEF Allocated, Answers, LoopGoes
  <1>7. CASE Release
    <2>1. req.at \in Nat
      BY <1>7 DEF Release, HasRequest, LoopOpOK, ReqOK, HeapTypes, BlockRecords
    <2>2. QED
      BY <1>7, <2>1, FreeFacts DEF Release, HasRequest, LoopGoes
  <1>8. CASE Freed
    BY <1>8 DEF Freed, Answers, LoopGoes
  <1>9a. CASE ReserveTags \/ ReserveVals
    <2>1. /\ pc \in {"reading", "tags"} /\ pc' \in {"tags", "vals"} /\ op["loop"].step = "done"
          /\ req # None /\ req.kind = "invoke" /\ UNCHANGED <<heapVars, child, result, hostVars>>
      BY <1>9a, ReserveFacts
    <2>2. PICK r \in OpRecords :
            /\ op' = [op EXCEPT !["loop"] = r] /\ r.step \in {"want", "done"} /\ r.at = None
            /\ r.step = "want" => /\ r.do = "malloc" /\ r.size = r.len /\ r.len >= 1
                                  /\ r.len \notin HugeSizes
      BY <1>9a, ReserveFacts
    <2>3. QED
      BY <2>1, <2>2
  <1>9c. CASE NoRoomForVector
    BY <1>9c DEF NoRoomForVector, LoopGoes
  <1>9. CASE TakeWorker
    <2>1. \A b \in Of("refill") : Free(b.at).step = "want" /\ Free(b.at).do = "free" /\ Free(b.at).at = b.at
      BY FreeFacts DEF Of, HeapTypes, BlockRecords
    <2>2. Done(None).step = "done"
      BY DoneFacts
    <2>3. QED
      BY <1>9, <2>1, <2>2 DEF TakeWorker, Reserved, LoopGoes, Of
  <1>10. CASE Invoke
    BY <1>10 DEF Invoke, LoopGoes
  <1>11. CASE CallOver
    BY <1>11 DEF CallOver, LoopGoes, LoopAt
  <1>11a. CASE FreeVectors
    <2>1. \A b \in Of("args") : Free(b.at).step = "want" /\ Free(b.at).do = "free" /\ Free(b.at).at = b.at
      BY FreeFacts DEF Of, HeapTypes, BlockRecords
    <2>2. QED
      BY <1>11a, <2>1 DEF FreeVectors, LoopGoes
  <1>12. CASE Reply
    <2>1. pc = "reply" /\ Of("args") = {}
      BY <1>12 DEF Reply, LoopAt
    <2>2. \A b \in blocks' : b.of # "args"
      BY <1>12, <2>1, ReplyFacts DEF HeapTypes, BlockRecords
    <2>3. QED
      BY <2>2
  <1>13. CASE Drop
    <2>1. \A b \in Of("loop") \cup Of("args") : Free(b.at).step = "want" /\ Free(b.at).do = "free" /\ Free(b.at).at = b.at
      BY FreeFacts DEF Of, HeapTypes, BlockRecords
    <2>2. QED
      BY <1>13, <2>1 DEF Drop, LoopGoes
  <1>14. CASE Refill
    BY <1>14, MallocFacts, SizeFacts DEF Refill
  <1>15. CASE Refilled
    BY <1>15 DEF Refilled, LockOfDead
  <1>16. CASE Constructor
    <2>1. PICK o : op' = [op EXCEPT !["main"] = o] /\ o.step \in {"want", "done"}
      BY <1>16, ConstructorFacts DEF Asks
    <2>2. QED
      BY <1>16, <2>1 DEF Constructor, LibraryAsks
  <1>17. CASE HostAsks
    BY <1>17 DEF HostAsks
  <1>18. CASE ChildAsks
    <2>1. PICK o : op' = [op EXCEPT !["child"] = o] /\ o.step \in {"want", "done"}
      BY <1>18, ChildAsksFacts DEF Asks
    <2>2. QED
      BY <1>18, <2>1 DEF ChildAsks, LibraryAsks
  <1>19. CASE ChildReturns
    BY <1>19 DEF ChildReturns, LoopOpOK
  <1>20. CASE ChildDies
    BY <1>20 DEF ChildDies, LoopOpOK
  <1>21. ASSUME NEW u \in Users, Enter(u) PROVE VectorsOK'
    <2>1. PICK r \in OpRecords :
            /\ op' = [op EXCEPT ![u] = r] /\ r.step = "in" /\ r.do = op[u].do /\ r.at = op[u].at
            /\ r.size = op[u].size /\ r.len = op[u].len
      BY <1>21, EnterFacts
    <2>2. QED
      BY <1>21, <2>1 DEF Enter
  <1>22. ASSUME NEW u \in Users, Leave(u) PROVE VectorsOK'
    <2>1. PICK a \in Nat \cup {None} : Effect(u, a)
      BY <1>22, LeaveEffect
    <2>2. \A b \in blocks' : b.of = "args" => b \in blocks \/ pc \in {"tags", "vals"}
      BY <2>1 DEF Effect, New, Owner
    <2>3. pc' = pc
      BY <1>22 DEF Leave
    <2>4. QED
      BY <2>2, <2>3
  <1>23. ASSUME NEW u \in Users, Bootstrap(u) PROVE VectorsOK'
    <2>1. PICK a \in Nat \cup {None} : Effect(u, a)
      BY <1>23, BootstrapEffect
    <2>2. \A b \in blocks' : b.of = "args" => b \in blocks \/ pc \in {"tags", "vals"}
      BY <2>1 DEF Effect, New, Owner
    <2>3. pc' = pc
      BY <1>23 DEF Bootstrap
    <2>4. QED
      BY <2>2, <2>3
  <1>24. CASE UNCHANGED vars
    BY <1>24 DEF vars
  <1>25. QED
    BY <1>1, <1>2, <1>3, <1>4, <1>5, <1>6, <1>7, <1>8, <1>9, <1>9a, <1>9c, <1>10, <1>11, <1>11a, <1>12,
       <1>13, <1>14, <1>15, <1>16, <1>17, <1>18, <1>19, <1>20, <1>21, <1>22, <1>23, <1>24
    DEF Next, LoopStep, HeapStep

\* The invariant holds of a new process.
LEMMA InitIInv == Init => IInv
  <1> SUFFICES ASSUME Init PROVE IInv
    OBVIOUS
  <1> USE ShimHeapAssumption DEF Init
  <1>1. /\ mapped \in BOOLEAN /\ blocks \subseteq {[at |-> 0, len |-> KeysSize, of |-> "keys"]}
        /\ ~mapped => blocks = {}
    OBVIOUS
  <1>2. KeysSize \in 1 .. W - 1 /\ 0 + KeysSize <= RegionSize
    OBVIOUS
  <1>3. HeapTypes /\ PlacesOK /\ Apart
    BY <1>1, <1>2 DEF HeapTypes, BlockRecords, PlacesOK, Apart
  <1>4. \A u \in Users : op[u] = Idle
    OBVIOUS
  <1>5. OpTypes
    BY IdleFacts DEF OpTypes
  <1>6. LoopTypes /\ LoopOpOK /\ ResultOK /\ ReqOK
    BY <1>4, IdleFacts DEF LoopTypes, Labels, LoopOpOK, ResultOK, ReqOK, Busy, Users
  <1>7. OpsOK /\ SpotOK /\ TargetsOK /\ LockOK /\ UnmappedOK
    <2>1. \A u \in Users : ~Busy(u) /\ op[u].step # "in"
      BY <1>4, IdleFacts DEF Busy
    <2>2. OpsOK /\ SpotOK /\ TargetsOK
      BY <2>1 DEF OpsOK, SpotOK, TargetsOK, Users
    <2>3. LockOK
      BY <2>1 DEF LockOK
    <2>4. UnmappedOK
      BY <1>4, <2>1, IdleFacts DEF UnmappedOK, Users
    <2>5. QED
      BY <2>2, <2>3, <2>4
  <1>8. AnswerOK /\ MessagesOK /\ VectorsOK
    <2>1. \A b \in blocks : b.of = "keys"
      BY <1>1
    <2>2. QED
      BY <2>1 DEF AnswerOK, MessagesOK, VectorsOK, Of
  <1>9. QED
    BY <1>3, <1>5, <1>6, <1>7, <1>8 DEF IInv

\* IInv holds in every state that ShimHeap reaches.
THEOREM Invariance == Spec => []IInv
  <1>1. IInv /\ [Next]_vars => IInv'
    BY HeapTypesStep, OpTypesStep, LoopTypesStep, OpsStep, LoopOpStep, LockStep, UnmappedStep,
       PlacesStep, ApartStep, SpotStep, TargetsStep, ResultStep, ReqStep, AnswerStep, MessagesStep, VectorsStep
    DEF IInv
  <1>2. QED
    BY InitIInv, <1>1, PTL DEF Spec

-----------------------------------------------------------------------------
(* The theorems.                                                           *)

\* Where two blocks do not overlap.
LEMMA ExtentFacts ==
  ASSUME NEW b \in BlockRecords, NEW c \in BlockRecords, Disjoint(b, c)
  PROVE  Extent(b) \cap Extent(c) = {}
  <1>1. b.at \in Nat /\ b.len \in Nat /\ c.at \in Nat /\ c.len \in Nat
    BY ShimHeapAssumption DEF BlockRecords
  <1>2. QED
    BY <1>1 DEF Extent, Disjoint

\* BlocksApart: the blocks in use do not overlap and lie where the allocator
\* takes them from, for any sizes and any order of the users' operations.
THEOREM BlocksStayApart == Spec => []BlocksApart
  <1>1. IInv => BlocksApart
    <2> SUFFICES ASSUME IInv PROVE BlocksApart
      OBVIOUS
    <2>1. ASSUME NEW b \in blocks
          PROVE  /\ b \in Blocks
                 /\ \/ Extent(b) \subseteq Region
                    \/ b.at \in Elsewhere
                    \/ Extent(b) \subseteq BootBase .. BootBase + BootSize - 1
      <3>1. /\ b \in BlockRecords /\ b.at \in Nat /\ b.len \in 1 .. W - 1 /\ b.len \in Nat /\ b.len >= 1
            /\ offset \in Nat /\ offset <= BootSize
        BY ShimHeapAssumption DEF IInv, HeapTypes, BlockRecords
      <3>2. RegionSize \in Nat /\ BootSize \in Nat /\ BootBase \in Nat
        BY ShimHeapAssumption DEF BootBase
      <3>3. CASE b.at + b.len <= RegionSize
        <4>1. b.at \in Region /\ Extent(b) \subseteq Region
          BY <3>1, <3>2, <3>3 DEF Region, Extent
        <4>2. QED
          BY <3>1, <4>1 DEF Blocks, BlockRecords
      <3>4. CASE b.at \in Elsewhere
        BY <3>1, <3>4 DEF Blocks, BlockRecords
      <3>5. CASE BootBase < b.at /\ b.at + b.len <= BootBase + offset
        <4>1. b.at \in BootBase .. BootBase + BootSize
              /\ Extent(b) \subseteq BootBase .. BootBase + BootSize - 1
          BY <3>1, <3>2, <3>5 DEF Extent
        <4>2. QED
          BY <3>1, <4>1 DEF Blocks, BlockRecords
      <3>6. QED
        BY <3>3, <3>4, <3>5 DEF IInv, PlacesOK
    <2>2. ASSUME NEW b \in blocks, NEW c \in blocks \ {b} PROVE Extent(b) \cap Extent(c) = {}
      <3>1. b \in BlockRecords /\ c \in BlockRecords /\ Disjoint(b, c)
        BY DEF IInv, HeapTypes, Apart
      <3>2. QED
        BY <3>1, ExtentFacts
    <2>3. ASSUME NEW h \in held PROVE h.at \in Region \cup Elsewhere
      <3>1. PICK b \in blocks : b.at = h.at /\ b.of = "host"
        BY DEF IInv, ReqOK
      <3>2. b.at + b.len <= RegionSize
        BY <3>1 DEF IInv, PlacesOK, UnmappedOK
      <3>3. b.at \in Nat /\ b.len \in Nat /\ b.len >= 1
        BY ShimHeapAssumption DEF IInv, HeapTypes, BlockRecords
      <3>4. QED
        BY <3>1, <3>2, <3>3, ShimHeapAssumption DEF Region
    <2>4. TypeOK
      BY <2>1, <2>3 DEF IInv, TypeOK, HeapTypes, LoopTypes
    <2>5. QED
      BY <2>1, <2>2, <2>4 DEF BlocksApart
  <1>2. QED
    BY Invariance, <1>1, PTL

\* HostBlocksKept: what the host holds stays a block of the region, its own
\* and as long as it believes, whatever loops, children and threads do.
THEOREM HostKeepsItsBlocks == Spec => []HostBlocksKept
  <1>1. IInv => HostBlocksKept
    <2> SUFFICES ASSUME IInv, NEW h \in held
                 PROVE  /\ h.at .. h.at + h.len - 1 \subseteq Region
                        /\ [at |-> h.at, len |-> h.len, of |-> "host"] \in blocks
      BY DEF HostBlocksKept
    <2>1. PICK b \in blocks : b = [at |-> h.at, len |-> h.len, of |-> "host"]
      BY DEF IInv, ReqOK
    <2>2. b.at + b.len <= RegionSize
      BY <2>1 DEF IInv, PlacesOK, UnmappedOK
    <2>3. h.at \in Nat /\ h.len \in Nat
      BY ShimHeapAssumption DEF IInv, LoopTypes
    <2>4. QED
      BY <2>1, <2>2, <2>3, ShimHeapAssumption DEF Region
  <1>2. QED
    BY Invariance, <1>1, PTL

\* LoopKeepsNothing: between two requests the loop has one block, the message
\* of the next answer; when it has ended it has none; handle_allocate has none
\* then, and there is no vector.
THEOREM LoopLeavesNothing == Spec => []LoopKeepsNothing
  <1>1. IInv => LoopKeepsNothing
    <2> SUFFICES ASSUME IInv, pc \in {"read", "ended"}, op["loop"].step = "idle"
                 PROVE  /\ Cardinality(Of("loop")) = (IF pc = "read" THEN 1 ELSE 0)
                        /\ Of("answer") = {} /\ Of("args") = {}
      BY DEF LoopKeepsNothing
    <2>1. pc = "read" => Cardinality(Of("loop")) = 1
      <3> SUFFICES ASSUME pc = "read" PROVE Cardinality(Of("loop")) = 1
        OBVIOUS
      <3>1. PICK b \in blocks : Of("loop") = {b}
        BY DEF IInv, MessagesOK
      <3>2. QED
        BY <3>1, FS_Singleton
    <2>2. pc = "ended" => Cardinality(Of("loop")) = 0
      BY FS_EmptySet DEF IInv, MessagesOK
    <2>3. Of("answer") = {}
      BY DEF IInv, AnswerOK
    <2>4. Of("args") = {}
      BY DEF IInv, VectorsOK
    <2>5. QED
      BY <2>1, <2>2, <2>3, <2>4
  <1>2. QED
    BY Invariance, <1>1, PTL

=============================================================================
