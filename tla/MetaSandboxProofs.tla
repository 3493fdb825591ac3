------------------------- MODULE MetaSandboxProofs -------------------------
(***************************************************************************)
(* OwnerKnown, RunsOnOwner, BlocksOwned and ScratchHasStruct of             *)
(* MetaSandbox, and that it implements UnifiedHeap, for any number of      *)
(* threads and any heaps.  Everything rests on the claims: each block has  *)
(* one that answers for it, so that what a thread does with the entries of *)
(* its object between two critical sections nobody else undoes.            *)
(***************************************************************************)
EXTENDS MetaSandbox, TLAPS

(* What TypeOK says, part by part.                                         *)
HeapTypes ==
    /\ mem \in [Backends -> SUBSET Bits]
    /\ mem["process"] \subseteq ProcBits /\ mem["wasm"] \subseteq WasmBits
    /\ owner \in [Pointers -> Backends \cup {None}]
    /\ scratchOf \in [Pointers -> WasmBits \cup {None}]

AppTypes ==
    /\ types \subseteq Structs
    /\ held \subseteq Objects /\ made \subseteq Objects
    /\ aborted \in {None, "mixed", "unbound", "structs"}

OpTypes ==
    /\ pc \in [Threads -> {"idle", "mallocOwner", "mallocMatch", "mallocScratch",
                           "mallocPublish", "freeStruct", "freeScratch", "freeBackend",
                           "inspect", "translate", "run", "record"}]
    /\ ptr \in [Threads -> Pointers \cup {None}]
    /\ asked \in [Threads -> BOOLEAN]
    /\ choice \in [Threads -> Backends]
    /\ scratch \in [Threads -> WasmBits \cup {None}]

CallTypes ==
    /\ sym \in [Threads -> Symbols \cup {None}]
    /\ args \in [Threads -> SUBSET Args] /\ todo \in [Threads -> SUBSET Args]
    /\ saw \in [Threads -> SUBSET Backends]
    /\ passed \in [Threads -> SUBSET (Args \X Pointers)]

\* The pointers that malloc returns, tagged for wasm.
IsKey(p) == p[2] \in (IF p[1] = 1 THEN WasmBits ELSE ProcBits)

\* The registries have entries of such pointers only, with their own backend.
KeysOK ==
    \A p \in Pointers :
        /\ owner[p] # None => IsKey(p) /\ owner[p] = TagOwner(p)
        /\ scratchOf[p] # None => IsKey(p)

Mallocs == {"mallocOwner", "mallocMatch", "mallocScratch", "mallocPublish"}
Frees == {"freeStruct", "freeScratch", "freeBackend"}

\* An operation has a pointer of its backend in hand, and a scratch block
\* where it moves one.
OpsOK ==
    \A t \in Threads :
        /\ pc[t] \in Mallocs \cup Frees \cup {"record"} =>
             ptr[t] \in Pointers /\ IsKey(ptr[t]) /\ choice[t] = TagOwner(ptr[t])
        /\ scratch[t] # None <=> pc[t] \in {"mallocPublish", "freeScratch"}

\* The application's objects are entered in alloc_owner, which comes before
\* they are handed out.
EntriesOK ==
    /\ \A o \in held \cup made : owner[KeyOf(o)] = o[1]
    /\ \A t \in Threads :
         pc[t] \in Mallocs \ {"mallocOwner"} => owner[ptr[t]] = choice[t]

\* Only what malloc returned has a scratch block.
StructsOK ==
    /\ held \cap made = {}
    /\ \A p \in Pointers : scratchOf[p] # None =>
         Unsandboxed(p) \in held \/ \E t \in Threads : pc[t] = "freeStruct" /\ ptr[t] = p

\* What a call was given lives until it is over, and what it returns is new
\* or one of them.
ArgsOK ==
    \A t \in Threads :
        /\ \A a \in args[t] : /\ a.obj \in held \cup made /\ a.ptr \in Forms(a.obj)
                              /\ a.inside => Interior
        /\ pc[t] = "record" =>
             Unsandboxed(ptr[t]) \notin held \cup made
             \/ \E a \in args[t] : a.obj = Unsandboxed(ptr[t])

\* The owners found so far are those of the arguments inspected so far, the
\* backend is that of all, and what is passed on stands for an argument.
CallsOK ==
    \A t \in Threads :
        /\ pc[t] = "inspect" =>
             \A a \in args[t] \ todo[t] : ~a.inside => a.obj[1] \in saw[t]
        /\ ~Interior /\ pc[t] \in {"translate", "run", "record"} =>
             \A a \in args[t] : a.obj[1] = choice[t]
        /\ pc[t] = "run" /\ choice[t] = "wasm" =>
             \A q \in passed[t] :
                 q[1] \in args[t] /\ q[2][2] \in {q[1].obj[2], scratchOf[KeyOf(q[1].obj)]}

\* Who answers for object o: BlocksOwned, claim by claim.
AppHas(o) == o \in held \cup made
OpHas(t, o) == InFlight(t) /\ o = Unsandboxed(ptr[t])
StructHas(p, o) == scratchOf[p] # None /\ o = <<"wasm", scratchOf[p]>>
HandHas(t, o) == scratch[t] # None /\ o = <<"wasm", scratch[t]>>

Apart ==
    \A o \in Objects :
        /\ \A t \in Threads : OpHas(t, o) => ~AppHas(o) /\ \A u \in Threads : OpHas(u, o) => u = t
        /\ \A p \in Pointers : StructHas(p, o) =>
             ~AppHas(o) /\ (\A t \in Threads : ~OpHas(t, o)) /\ \A q \in Pointers : StructHas(q, o) => q = p
        /\ \A t \in Threads : HandHas(t, o) =>
             /\ ~AppHas(o) /\ (\A u \in Threads : ~OpHas(u, o)) /\ (\A p \in Pointers : ~StructHas(p, o))
             /\ \A u \in Threads : HandHas(u, o) => u = t

Covered ==
    \A o \in Objects :
        o \in Live <=> \/ AppHas(o) \/ \E t \in Threads : OpHas(t, o)
                       \/ (\E p \in Pointers : StructHas(p, o))
                       \/ (\E t \in Threads : HandHas(t, o))

IInv ==
    /\ HeapTypes /\ AppTypes /\ OpTypes /\ CallTypes
    /\ KeysOK /\ OpsOK /\ EntriesOK /\ StructsOK /\ ArgsOK /\ CallsOK
    /\ Apart /\ Covered

-----------------------------------------------------------------------------
(* Pointers.                                                               *)

\* An object and the pointer that malloc returns for it.
LEMMA KeyFacts ==
  ASSUME NEW o \in Objects
  PROVE  /\ o[1] \in Backends /\ o = <<o[1], o[2]>>
         /\ KeyOf(o) \in Pointers /\ IsKey(KeyOf(o)) /\ KeyOf(o)[2] = o[2]
         /\ Unsandboxed(KeyOf(o)) = o /\ TagOwner(KeyOf(o)) = o[1]
  BY MetaAssumption
  DEF Objects, Backends, KeyOf, Pointers, Bits, IsKey, Unsandboxed, TagOwner

LEMMA PointerFacts ==
  ASSUME NEW p \in Pointers, IsKey(p)
  PROVE  /\ Unsandboxed(p) \in Objects /\ KeyOf(Unsandboxed(p)) = p
         /\ Unsandboxed(p)[1] = TagOwner(p) /\ Unsandboxed(p)[2] = p[2]
         /\ TagStrip(p)[2] = p[2] /\ TagOwner(p) \in Backends
  BY MetaAssumption
  DEF Objects, Backends, KeyOf, Pointers, Bits, IsKey, Unsandboxed, TagOwner, TagStrip

\* An object of either backend.
LEMMA ObjectFacts ==
  /\ \A x \in ProcBits : <<"process", x>> \in Objects
  /\ \A x \in WasmBits : <<"wasm", x>> \in Objects
  /\ \A b \in Backends : \A x \in Free(b) : <<b, x>> \in Objects
  BY DEF Objects, Backends, Free

\* A free place is not a live block.
LEMMA LiveFacts ==
  ASSUME NEW o \in Objects
  PROVE  (o \in Live <=> o[2] \in mem[o[1]]) /\ (o \in Live' <=> o[2] \in mem'[o[1]])
  BY DEF Objects, Live

LEMMA FreeFacts ==
  ASSUME NEW b \in Backends, NEW x \in Free(b)
  PROVE  <<b, x>> \in Objects /\ <<b, x>> \notin Live
  BY ObjectFacts, LiveFacts DEF Free

\* The pointers under which it comes back.
LEMMA FormFacts ==
  ASSUME NEW o \in Objects, NEW p \in Forms(o)
  PROVE  /\ p \in Pointers /\ p[2] = o[2] /\ TagStrip(p)[2] = o[2]
         /\ IsKey(p) => p = KeyOf(o)
         /\ p = KeyOf(o) \/ (p[1] = 0 /\ TagWasm(p) = KeyOf(o))
  BY MetaAssumption
  DEF Objects, Forms, Sandboxed, TagWasm, TagStrip, KeyOf, Pointers, Bits, IsKey

\* The entry of alloc_owner that is found is that of the object.
LEMMA EntryFacts ==
  ASSUME KeysOK, NEW o \in Objects, owner[KeyOf(o)] = o[1], NEW p \in Forms(o)
  PROVE  Entry(p) = KeyOf(o) /\ OwnerOf(p) = o[1]
  <1>1. owner[KeyOf(o)] # None
    BY KeyFacts, MetaAssumption
  <1>2. owner[p] # None => p = KeyOf(o)
    BY FormFacts DEF KeysOK
  <1>3. Entry(p) = KeyOf(o)
    BY <1>1, <1>2, FormFacts, KeyFacts DEF Entry, KeyOf, TagWasm
  <1>4. QED
    BY <1>3 DEF OwnerOf

-----------------------------------------------------------------------------
\* Every step keeps the types: of the heaps and registries,
LEMMA HeapTypesStep ==
  ASSUME HeapTypes, OpTypes, OpsOK, [Next]_vars
  PROVE  HeapTypes'
  <1> USE MetaAssumption DEF HeapTypes, At, Go, heapVars, appVars, callVars
  <1>1. CASE RegisterStruct
    BY <1>1 DEF RegisterStruct
  <1>2. ASSUME NEW t \in Threads, MallocBackend(t) PROVE HeapTypes'
    <2>1. PICK b \in Backends : \E x \in Free(b) : mem' = [mem EXCEPT ![b] = @ \cup {x}]
      BY <1>2 DEF MallocBackend
    <2>2. QED
      BY <1>2, <2>1 DEF MallocBackend, Backends, Bits, Free
  <1>3. ASSUME NEW t \in Threads, MallocOwner(t) PROVE HeapTypes'
    <2>1. choice[t] \in Backends
      BY DEF OpTypes
    <2>2. QED
      BY <1>3, <2>1 DEF MallocOwner
  <1>4. ASSUME NEW t \in Threads, MallocMatch(t) PROVE HeapTypes'
    BY <1>4 DEF MallocMatch, MallocDone, Forget
  <1>5. ASSUME NEW t \in Threads, MallocScratch(t) PROVE HeapTypes'
    <2>1. mem' = mem \/ \E x \in Free("wasm") : mem' = [mem EXCEPT !["wasm"] = @ \cup {x}]
      BY <1>5 DEF MallocScratch
    <2>2. QED
      BY <1>5, <2>1 DEF MallocScratch, Backends, Bits, Free
  <1>6. ASSUME NEW t \in Threads, MallocPublish(t) PROVE HeapTypes'
    <2>1. scratch[t] \in WasmBits \cup {None}
      BY DEF OpTypes
    <2>2. QED
      BY <1>6, <2>1 DEF MallocPublish
  <1>7. ASSUME NEW t \in Threads, FreeOwner(t) PROVE HeapTypes'
    BY <1>7 DEF FreeOwner
  <1>8. ASSUME NEW t \in Threads, FreeStruct(t) PROVE HeapTypes'
    BY <1>8 DEF FreeStruct
  <1>9. ASSUME NEW t \in Threads, FreeScratch(t) PROVE HeapTypes'
    <2>1. QED
      BY <1>9 DEF FreeScratch, Backends
  <1>10. ASSUME NEW t \in Threads, FreeBackend(t) PROVE HeapTypes'
    <2>1. choice[t] \in Backends
      BY DEF OpTypes
    <2>2. QED
      BY <1>10, <2>1 DEF FreeBackend, Backends
  <1>11. ASSUME NEW t \in Threads, InvokePick(t) PROVE HeapTypes'
    BY <1>11 DEF InvokePick, LegalArgs
  <1>12. ASSUME NEW t \in Threads, InvokeInspect(t) PROVE HeapTypes'
    BY <1>12 DEF InvokeInspect
  <1>13. ASSUME NEW t \in Threads, InvokeDispatch(t) PROVE HeapTypes'
    BY <1>13 DEF InvokeDispatch
  <1>14. ASSUME NEW t \in Threads, InvokeTranslate(t) PROVE HeapTypes'
    BY <1>14 DEF InvokeTranslate
  <1>15. ASSUME NEW t \in Threads, RunPlain(t) PROVE HeapTypes'
    BY <1>15 DEF RunPlain, InvokeDone, Forget
  <1>16. ASSUME NEW t \in Threads, RunDestroys(t) PROVE HeapTypes'
    <2>1. PICK o : mem' = [mem EXCEPT ![o[1]] = @ \ {o[2]}]
      BY <1>16 DEF RunDestroys
    <2>2. QED
      BY <1>16, <2>1 DEF RunDestroys, Backends
  <1>17. ASSUME NEW t \in Threads, RunMakes(t) PROVE HeapTypes'
    <2>1. PICK x \in Free(choice[t]) : mem' = [mem EXCEPT ![choice[t]] = @ \cup {x}]
      BY <1>17 DEF RunMakes
    <2>2. choice[t] \in Backends
      BY DEF OpTypes
    <2>3. QED
      BY <1>17, <2>1, <2>2 DEF RunMakes, Backends, Bits, Free
  <1>18. ASSUME NEW t \in Threads, RunReturnsArg(t) PROVE HeapTypes'
    BY <1>18 DEF RunReturnsArg
  <1>19. ASSUME NEW t \in Threads, InvokeRecord(t) PROVE HeapTypes'
    <2>1. choice[t] \in Backends
      BY DEF OpTypes
    <2>2. QED
      BY <1>19, <2>1 DEF InvokeRecord
  <1>20. CASE UNCHANGED vars
    BY <1>20 DEF vars
  <1>21. QED
    BY <1>1, <1>2, <1>3, <1>4, <1>5, <1>6, <1>7, <1>8, <1>9, <1>10, <1>11, <1>12, <1>13,
       <1>14, <1>15, <1>16, <1>17, <1>18, <1>19, <1>20
    DEF Next, Malloc, FreeStep, Invoke

\* of what the application has,
LEMMA AppTypesStep ==
  ASSUME OpTypes, AppTypes, OpsOK, [Next]_vars
  PROVE  AppTypes'
  <1> USE DEF AppTypes, At, Go, Alive, heapVars, appVars, callVars
  <1>1. CASE RegisterStruct
    BY <1>1 DEF RegisterStruct
  <1>2. ASSUME NEW t \in Threads, MallocBackend(t) PROVE AppTypes'
    BY <1>2 DEF MallocBackend
  <1>3. ASSUME NEW t \in Threads, MallocOwner(t) PROVE AppTypes'
    BY <1>3 DEF MallocOwner
  <1>4. ASSUME NEW t \in Threads, MallocMatch(t) PROVE AppTypes'
    <2>1. ptr[t] \in Pointers /\ IsKey(ptr[t])
      BY <1>4 DEF OpsOK, Mallocs, MallocMatch
    <2>2. Unsandboxed(ptr[t]) \in Objects
      BY <2>1, PointerFacts
    <2>3. QED
      BY <1>4, <2>2 DEF MallocMatch, MallocDone
  <1>5. ASSUME NEW t \in Threads, MallocScratch(t) PROVE AppTypes'
    <2>1. ptr[t] \in Pointers /\ IsKey(ptr[t])
      BY <1>5 DEF OpsOK, Mallocs, MallocScratch
    <2>2. Unsandboxed(ptr[t]) \in Objects
      BY <2>1, PointerFacts
    <2>3. QED
      BY <1>5, <2>2 DEF MallocScratch, MallocDone
  <1>6. ASSUME NEW t \in Threads, MallocPublish(t) PROVE AppTypes'
    <2>1. ptr[t] \in Pointers /\ IsKey(ptr[t])
      BY <1>6 DEF OpsOK, Mallocs, MallocPublish
    <2>2. Unsandboxed(ptr[t]) \in Objects
      BY <2>1, PointerFacts
    <2>3. QED
      BY <1>6, <2>2 DEF MallocPublish, MallocDone
  <1>7. ASSUME NEW t \in Threads, FreeOwner(t) PROVE AppTypes'
    BY <1>7 DEF FreeOwner
  <1>8. ASSUME NEW t \in Threads, FreeStruct(t) PROVE AppTypes'
    BY <1>8 DEF FreeStruct
  <1>9. ASSUME NEW t \in Threads, FreeScratch(t) PROVE AppTypes'
    BY <1>9 DEF FreeScratch
  <1>10. ASSUME NEW t \in Threads, FreeBackend(t) PROVE AppTypes'
    BY <1>10 DEF FreeBackend, Forget
  <1>11. ASSUME NEW t \in Threads, InvokePick(t) PROVE AppTypes'
    BY <1>11 DEF InvokePick, LegalArgs
  <1>12. ASSUME NEW t \in Threads, InvokeInspect(t) PROVE AppTypes'
    BY <1>12 DEF InvokeInspect
  <1>13. ASSUME NEW t \in Threads, InvokeDispatch(t) PROVE AppTypes'
    BY <1>13 DEF InvokeDispatch
  <1>14. ASSUME NEW t \in Threads, InvokeTranslate(t) PROVE AppTypes'
    BY <1>14 DEF InvokeTranslate
  <1>15. ASSUME NEW t \in Threads, RunPlain(t) PROVE AppTypes'
    BY <1>15 DEF RunPlain, InvokeDone, Forget
  <1>16. ASSUME NEW t \in Threads, RunDestroys(t) PROVE AppTypes'
    BY <1>16 DEF RunDestroys, InvokeDone, Forget
  <1>17. ASSUME NEW t \in Threads, RunMakes(t) PROVE AppTypes'
    BY <1>17 DEF RunMakes
  <1>18. ASSUME NEW t \in Threads, RunReturnsArg(t) PROVE AppTypes'
    BY <1>18 DEF RunReturnsArg
  <1>19. ASSUME NEW t \in Threads, InvokeRecord(t) PROVE AppTypes'
    <2>1. ptr[t] \in Pointers /\ IsKey(ptr[t])
      BY <1>19 DEF OpsOK, Mallocs, InvokeRecord
    <2>2. Unsandboxed(ptr[t]) \in Objects
      BY <2>1, PointerFacts
    <2>3. QED
      BY <1>19, <2>2 DEF InvokeRecord
  <1>20. CASE UNCHANGED vars
    BY <1>20 DEF vars
  <1>21. QED
    BY <1>1, <1>2, <1>3, <1>4, <1>5, <1>6, <1>7, <1>8, <1>9, <1>10, <1>11, <1>12, <1>13,
       <1>14, <1>15, <1>16, <1>17, <1>18, <1>19, <1>20
    DEF Next, Malloc, FreeStep, Invoke

\* of the operations,
LEMMA OpTypesStep ==
  ASSUME HeapTypes, AppTypes, OpTypes, CallTypes, OpsOK, [Next]_vars
  PROVE  OpTypes'
  <1> USE DEF OpTypes, At, Go, heapVars, appVars, callVars
  <1>1. CASE RegisterStruct
    BY <1>1 DEF RegisterStruct
  <1>2. ASSUME NEW t \in Threads, MallocBackend(t) PROVE OpTypes'
    <2>1. PICK b \in Backends : \E x \in Free(b) :
            choice' = [choice EXCEPT ![t] = b] /\ ptr' = [ptr EXCEPT ![t] = KeyOf(<<b, x>>)]
      BY <1>2 DEF MallocBackend
    <2>2. \A x \in Free(b) : KeyOf(<<b, x>>) \in Pointers
      BY ObjectFacts, KeyFacts
    <2>3. PICK a \in BOOLEAN : asked' = [asked EXCEPT ![t] = a]
      BY <1>2 DEF MallocBackend
    <2>4. QED
      BY <1>2, <2>1, <2>2, <2>3 DEF MallocBackend
  <1>3. ASSUME NEW t \in Threads, MallocOwner(t) PROVE OpTypes'
    BY <1>3 DEF MallocOwner
  <1>4. ASSUME NEW t \in Threads, MallocMatch(t) PROVE OpTypes'
    BY <1>4 DEF MallocMatch, MallocDone, Forget, Backends
  <1>5. ASSUME NEW t \in Threads, MallocScratch(t) PROVE OpTypes'
    <2>1. \A x \in Free("wasm") : x \in WasmBits
      BY DEF Free
    <2>2. QED
      BY <1>5, <2>1 DEF MallocScratch, MallocDone, Forget, Backends
  <1>6. ASSUME NEW t \in Threads, MallocPublish(t) PROVE OpTypes'
    BY <1>6 DEF MallocPublish, MallocDone, Forget, Backends
  <1>7. ASSUME NEW t \in Threads, FreeOwner(t) PROVE OpTypes'
    <2>1. PICK o \in held \cup made : \E p \in Forms(o) :
            /\ ptr' = [ptr EXCEPT ![t] = Entry(p)]
            /\ choice' = [choice EXCEPT ![t] = IF OwnerOf(p) = None THEN TagOwner(p) ELSE OwnerOf(p)]
      BY <1>7 DEF FreeOwner
    <2>2. \A p \in Forms(o) : p \in Pointers /\ TagWasm(p) \in Pointers
      BY FormFacts DEF AppTypes, TagWasm, Pointers
    <2>3. \A p \in Forms(o) : Entry(p) \in Pointers
      BY <2>2 DEF Entry
    <2>4. \A p \in Forms(o) : TagOwner(p) \in Backends /\ (OwnerOf(p) # None => OwnerOf(p) \in Backends)
      BY <2>3 DEF HeapTypes, OwnerOf, TagOwner, Backends
    <2>5. QED
      BY <1>7, <2>1, <2>3, <2>4 DEF FreeOwner
  <1>8. ASSUME NEW t \in Threads, FreeStruct(t) PROVE OpTypes'
    <2>1. scratchOf[ptr[t]] \in WasmBits \cup {None}
      BY <1>8 DEF FreeStruct, OpsOK, Frees, HeapTypes
    <2>2. QED
      BY <1>8, <2>1 DEF FreeStruct
  <1>9. ASSUME NEW t \in Threads, FreeScratch(t) PROVE OpTypes'
    BY <1>9 DEF FreeScratch
  <1>10. ASSUME NEW t \in Threads, FreeBackend(t) PROVE OpTypes'
    BY <1>10 DEF FreeBackend, Forget, Backends
  <1>11. ASSUME NEW t \in Threads, InvokePick(t) PROVE OpTypes'
    <2>1. PICK b \in Backends : choice' = [choice EXCEPT ![t] = b]
      BY <1>11 DEF InvokePick, Backends
    <2>2. QED
      BY <1>11, <2>1 DEF InvokePick
  <1>12. ASSUME NEW t \in Threads, InvokeInspect(t) PROVE OpTypes'
    BY <1>12 DEF InvokeInspect
  <1>13. ASSUME NEW t \in Threads, InvokeDispatch(t) PROVE OpTypes'
    <2>1. saw[t] \subseteq Backends
      BY DEF CallTypes
    <2>2. \A x \in Backends : choice' = [choice EXCEPT ![t] = x] => OpTypes'
      BY <1>13 DEF InvokeDispatch
    <2>3. saw[t] # {} => (CHOOSE x \in saw[t] : TRUE) \in Backends
      BY <2>1
    <2>4. QED
      BY <1>13, <2>2, <2>3 DEF InvokeDispatch
  <1>14. ASSUME NEW t \in Threads, InvokeTranslate(t) PROVE OpTypes'
    BY <1>14 DEF InvokeTranslate
  <1>15. ASSUME NEW t \in Threads, RunPlain(t) PROVE OpTypes'
    BY <1>15 DEF RunPlain, InvokeDone, Forget, Backends
  <1>16. ASSUME NEW t \in Threads, RunDestroys(t) PROVE OpTypes'
    BY <1>16 DEF RunDestroys, InvokeDone, Forget, Backends
  <1>17. ASSUME NEW t \in Threads, RunMakes(t) PROVE OpTypes'
    <2>1. PICK x \in Free(choice[t]) : ptr' = [ptr EXCEPT ![t] = KeyOf(<<choice[t], x>>)]
      BY <1>17 DEF RunMakes
    <2>2. KeyOf(<<choice[t], x>>) \in Pointers
      BY ObjectFacts, KeyFacts
    <2>3. QED
      BY <1>17, <2>1, <2>2 DEF RunMakes
  <1>18. ASSUME NEW t \in Threads, RunReturnsArg(t) PROVE OpTypes'
    <2>1. PICK a \in args[t] : ptr' = [ptr EXCEPT ![t] = KeyOf(a.obj)]
      BY <1>18 DEF RunReturnsArg
    <2>2. a.obj \in Objects
      BY DEF CallTypes, Args
    <2>3. QED
      BY <1>18, <2>1, <2>2, KeyFacts DEF RunReturnsArg
  <1>19. ASSUME NEW t \in Threads, InvokeRecord(t) PROVE OpTypes'
    BY <1>19 DEF InvokeRecord, InvokeDone, Forget, Backends
  <1>20. CASE UNCHANGED vars
    BY <1>20 DEF vars
  <1>21. QED
    BY <1>1, <1>2, <1>3, <1>4, <1>5, <1>6, <1>7, <1>8, <1>9, <1>10, <1>11, <1>12, <1>13,
       <1>14, <1>15, <1>16, <1>17, <1>18, <1>19, <1>20
    DEF Next, Malloc, FreeStep, Invoke

\* and of the calls.
LEMMA CallTypesStep ==
  ASSUME HeapTypes, CallTypes, [Next]_vars
  PROVE  CallTypes'
  <1> USE DEF CallTypes, At, Go, heapVars, appVars, callVars
  <1>1. CASE RegisterStruct
    BY <1>1 DEF RegisterStruct
  <1>2. ASSUME NEW t \in Threads, MallocBackend(t) PROVE CallTypes'
    BY <1>2 DEF MallocBackend
  <1>3. ASSUME NEW t \in Threads, MallocOwner(t) PROVE CallTypes'
    BY <1>3 DEF MallocOwner
  <1>4. ASSUME NEW t \in Threads, MallocMatch(t) PROVE CallTypes'
    BY <1>4 DEF MallocMatch, MallocDone, Forget
  <1>5. ASSUME NEW t \in Threads, MallocScratch(t) PROVE CallTypes'
    BY <1>5 DEF MallocScratch, MallocDone, Forget
  <1>6. ASSUME NEW t \in Threads, MallocPublish(t) PROVE CallTypes'
    BY <1>6 DEF MallocPublish, MallocDone, Forget
  <1>7. ASSUME NEW t \in Threads, FreeOwner(t) PROVE CallTypes'
    BY <1>7 DEF FreeOwner
  <1>8. ASSUME NEW t \in Threads, FreeStruct(t) PROVE CallTypes'
    BY <1>8 DEF FreeStruct
  <1>9. ASSUME NEW t \in Threads, FreeScratch(t) PROVE CallTypes'
    BY <1>9 DEF FreeScratch
  <1>10. ASSUME NEW t \in Threads, FreeBackend(t) PROVE CallTypes'
    BY <1>10 DEF FreeBackend, Forget
  <1>11. ASSUME NEW t \in Threads, InvokePick(t) PROVE CallTypes'
    <2>1. PICK s \in Symbols, A \in SUBSET LegalArgs :
            /\ sym' = [sym EXCEPT ![t] = s]
            /\ args' = [args EXCEPT ![t] = A] /\ todo' = [todo EXCEPT ![t] = A]
      BY <1>11 DEF InvokePick
    <2>2. A \subseteq Args
      BY DEF LegalArgs
    <2>3. QED
      BY <1>11, <2>1, <2>2 DEF InvokePick
  <1>12. ASSUME NEW t \in Threads, InvokeInspect(t) PROVE CallTypes'
    <2>1. PICK a \in todo[t] :
            /\ todo' = [todo EXCEPT ![t] = @ \ {a}]
            /\ saw' = [saw EXCEPT ![t] = @ \cup (IF a.inside THEN {} ELSE {OwnerOf(a.ptr)} \ {None})]
      BY <1>12 DEF InvokeInspect
    <2>2. a.ptr \in Pointers /\ TagWasm(a.ptr) \in Pointers
      BY DEF Args, TagWasm, Pointers
    <2>3. OwnerOf(a.ptr) \in Backends \cup {None}
      BY <2>2 DEF HeapTypes, OwnerOf, Entry
    <2>4. QED
      BY <1>12, <2>1, <2>3 DEF InvokeInspect
  <1>13. ASSUME NEW t \in Threads, InvokeDispatch(t) PROVE CallTypes'
    BY <1>13 DEF InvokeDispatch
  <1>14. ASSUME NEW t \in Threads, InvokeTranslate(t) PROVE CallTypes'
    <2>1. \A a \in args[t] : a \in Args /\ a.ptr \in Pointers
      BY DEF Args
    <2>2. \A a \in args[t] : ForWasm(a) \in Pointers
      BY <2>1 DEF HeapTypes, ForWasm, TagStrip, Pointers, Bits
    <2>3. QED
      BY <1>14, <2>1, <2>2 DEF InvokeTranslate
  <1>15. ASSUME NEW t \in Threads, RunPlain(t) PROVE CallTypes'
    BY <1>15 DEF RunPlain, InvokeDone, Forget
  <1>16. ASSUME NEW t \in Threads, RunDestroys(t) PROVE CallTypes'
    BY <1>16 DEF RunDestroys, InvokeDone, Forget
  <1>17. ASSUME NEW t \in Threads, RunMakes(t) PROVE CallTypes'
    BY <1>17 DEF RunMakes
  <1>18. ASSUME NEW t \in Threads, RunReturnsArg(t) PROVE CallTypes'
    BY <1>18 DEF RunReturnsArg
  <1>19. ASSUME NEW t \in Threads, InvokeRecord(t) PROVE CallTypes'
    BY <1>19 DEF InvokeRecord, InvokeDone, Forget
  <1>20. CASE UNCHANGED vars
    BY <1>20 DEF vars
  <1>21. QED
    BY <1>1, <1>2, <1>3, <1>4, <1>5, <1>6, <1>7, <1>8, <1>9, <1>10, <1>11, <1>12, <1>13,
       <1>14, <1>15, <1>16, <1>17, <1>18, <1>19, <1>20
    DEF Next, Malloc, FreeStep, Invoke

-----------------------------------------------------------------------------
(* What an operation has in hand.                                          *)

\* The object that an operation of t is about.
LEMMA OpFacts ==
  ASSUME OpTypes, OpsOK, NEW t \in Threads, pc[t] \in Mallocs \cup Frees \cup {"record"}
  PROVE  /\ ptr[t] \in Pointers /\ IsKey(ptr[t]) /\ Unsandboxed(ptr[t]) \in Objects
         /\ KeyOf(Unsandboxed(ptr[t])) = ptr[t] /\ Unsandboxed(ptr[t])[1] = choice[t]
         /\ Unsandboxed(ptr[t])[2] = ptr[t][2] /\ TagStrip(ptr[t])[2] = ptr[t][2]
         /\ choice[t] = TagOwner(ptr[t])
  BY PointerFacts DEF OpsOK

\* While it is in flight it is nobody else's.
LEMMA OpAlone ==
  ASSUME OpTypes, OpsOK, Apart, NEW t \in Threads, InFlight(t), NEW o \in Objects,
         o = Unsandboxed(ptr[t])
  PROVE  /\ o \notin held \cup made
         /\ \A u \in Threads : InFlight(u) /\ Unsandboxed(ptr[u]) = o => u = t
  BY DEF Apart, OpHas, AppHas

\* Whose entry the application frees.
LEMMA FreesKey ==
  ASSUME HeapTypes, AppTypes, KeysOK, EntriesOK, NEW t \in Threads, FreeOwner(t)
  PROVE  \E o \in held \cup made :
           /\ ~InUse(o, Threads) /\ KeyOf(o) \in Pointers
           /\ held' = held \ {o} /\ made' = made \ {o}
           /\ ptr' = [ptr EXCEPT ![t] = KeyOf(o)]
           /\ owner' = [owner EXCEPT ![KeyOf(o)] = None]
           /\ choice' = [choice EXCEPT ![t] = o[1]]
  <1>1. PICK o \in held \cup made : \E p \in Forms(o) :
           /\ ~InUse(o, Threads)
           /\ held' = held \ {o} /\ made' = made \ {o}
           /\ ptr' = [ptr EXCEPT ![t] = Entry(p)]
           /\ owner' = [owner EXCEPT ![Entry(p)] = None]
           /\ choice' = [choice EXCEPT ![t] = IF OwnerOf(p) = None THEN TagOwner(p) ELSE OwnerOf(p)]
    BY DEF FreeOwner
  <1>2. o \in Objects /\ o[1] # None /\ owner[KeyOf(o)] = o[1]
    BY KeyFacts, MetaAssumption DEF AppTypes, EntriesOK
  <1>3. \A p \in Forms(o) : Entry(p) = KeyOf(o) /\ OwnerOf(p) = o[1]
    BY <1>2, EntryFacts
  <1>4. QED
    BY <1>1, <1>2, <1>3, KeyFacts

\* The registries are kept by key.
LEMMA KeysStep ==
  ASSUME HeapTypes, AppTypes, OpTypes, OpsOK, EntriesOK, KeysOK, [Next]_vars
  PROVE  KeysOK'
  <1> USE DEF KeysOK, At, Go, IsKey, TagOwner, heapVars, appVars, callVars
  <1>1. CASE RegisterStruct
    BY <1>1 DEF RegisterStruct
  <1>2. ASSUME NEW t \in Threads, MallocBackend(t) PROVE KeysOK'
    BY <1>2 DEF MallocBackend
  <1>3. ASSUME NEW t \in Threads, MallocOwner(t) PROVE KeysOK'
    <2>1. ptr[t] \in Pointers /\ IsKey(ptr[t]) /\ choice[t] = TagOwner(ptr[t])
      BY <1>3 DEF MallocOwner, OpsOK, Mallocs
    <2>2. QED
      BY <1>3, <2>1 DEF MallocOwner, HeapTypes
  <1>4. ASSUME NEW t \in Threads, MallocMatch(t) PROVE KeysOK'
    BY <1>4 DEF MallocMatch, MallocDone, Forget
  <1>5. ASSUME NEW t \in Threads, MallocScratch(t) PROVE KeysOK'
    BY <1>5 DEF MallocScratch, MallocDone, Forget
  <1>6. ASSUME NEW t \in Threads, MallocPublish(t) PROVE KeysOK'
    <2>1. ptr[t] \in Pointers /\ IsKey(ptr[t])
      BY <1>6 DEF MallocPublish, OpsOK, Mallocs
    <2>2. QED
      BY <1>6, <2>1 DEF MallocPublish, HeapTypes
  <1>7. ASSUME NEW t \in Threads, FreeOwner(t) PROVE KeysOK'
    <2>1. PICK k \in Pointers : owner' = [owner EXCEPT ![k] = None]
      BY <1>7, FreesKey
    <2>2. QED
      BY <1>7, <2>1 DEF FreeOwner, HeapTypes
  <1>8. ASSUME NEW t \in Threads, FreeStruct(t) PROVE KeysOK'
    <2>1. ptr[t] \in Pointers
      BY <1>8 DEF FreeStruct, OpsOK, Frees
    <2>2. QED
      BY <1>8, <2>1 DEF FreeStruct, HeapTypes
  <1>9. ASSUME NEW t \in Threads, FreeScratch(t) PROVE KeysOK'
    BY <1>9 DEF FreeScratch
  <1>10. ASSUME NEW t \in Threads, FreeBackend(t) PROVE KeysOK'
    BY <1>10 DEF FreeBackend, Forget
  <1>11. ASSUME NEW t \in Threads, InvokePick(t) PROVE KeysOK'
    BY <1>11 DEF InvokePick, LegalArgs
  <1>12. ASSUME NEW t \in Threads, InvokeInspect(t) PROVE KeysOK'
    BY <1>12 DEF InvokeInspect
  <1>13. ASSUME NEW t \in Threads, InvokeDispatch(t) PROVE KeysOK'
    BY <1>13 DEF InvokeDispatch
  <1>14. ASSUME NEW t \in Threads, InvokeTranslate(t) PROVE KeysOK'
    BY <1>14 DEF InvokeTranslate
  <1>15. ASSUME NEW t \in Threads, RunPlain(t) PROVE KeysOK'
    BY <1>15 DEF RunPlain, InvokeDone, Forget
  <1>16. ASSUME NEW t \in Threads, RunDestroys(t) PROVE KeysOK'
    BY <1>16 DEF RunDestroys, InvokeDone, Forget
  <1>17. ASSUME NEW t \in Threads, RunMakes(t) PROVE KeysOK'
    BY <1>17 DEF RunMakes
  <1>18. ASSUME NEW t \in Threads, RunReturnsArg(t) PROVE KeysOK'
    BY <1>18 DEF RunReturnsArg
  <1>19. ASSUME NEW t \in Threads, InvokeRecord(t) PROVE KeysOK'
    <2>1. ptr[t] \in Pointers /\ IsKey(ptr[t]) /\ choice[t] = TagOwner(ptr[t])
      BY <1>19 DEF InvokeRecord, OpsOK
    <2>2. QED
      BY <1>19, <2>1 DEF InvokeRecord, HeapTypes
  <1>20. CASE UNCHANGED vars
    BY <1>20 DEF vars
  <1>21. QED
    BY <1>1, <1>2, <1>3, <1>4, <1>5, <1>6, <1>7, <1>8, <1>9, <1>10, <1>11, <1>12, <1>13,
       <1>14, <1>15, <1>16, <1>17, <1>18, <1>19, <1>20
    DEF Next, Malloc, FreeStep, Invoke

\* An operation keeps what it is about.
LEMMA OpsStep ==
  ASSUME HeapTypes, AppTypes, OpTypes, CallTypes, KeysOK, EntriesOK, OpsOK, [Next]_vars
  PROVE  OpsOK'
  <1> USE MetaAssumption DEF OpTypes, OpsOK, Mallocs, Frees, At, Go, heapVars, appVars, callVars
  <1>1. CASE RegisterStruct
    BY <1>1 DEF RegisterStruct
  <1>2. ASSUME NEW t \in Threads, MallocBackend(t) PROVE OpsOK'
    <2>1. PICK b \in Backends : \E x \in Free(b) :
            choice' = [choice EXCEPT ![t] = b] /\ ptr' = [ptr EXCEPT ![t] = KeyOf(<<b, x>>)]
      BY <1>2 DEF MallocBackend
    <2>2. \A x \in Free(b) : /\ KeyOf(<<b, x>>) \in Pointers /\ IsKey(KeyOf(<<b, x>>))
                             /\ TagOwner(KeyOf(<<b, x>>)) = b
      BY ObjectFacts, KeyFacts
    <2>3. ptr'[t] \in Pointers /\ IsKey(ptr'[t]) /\ choice'[t] = TagOwner(ptr'[t])
      BY <2>1, <2>2
    <2>4. QED
      BY <1>2, <2>1, <2>3 DEF MallocBackend, IsKey, TagOwner
  <1>3. ASSUME NEW t \in Threads, MallocOwner(t) PROVE OpsOK'
    BY <1>3 DEF MallocOwner
  <1>4. ASSUME NEW t \in Threads, MallocMatch(t) PROVE OpsOK'
    BY <1>4 DEF MallocMatch, MallocDone, Forget
  <1>5. ASSUME NEW t \in Threads, MallocScratch(t) PROVE OpsOK'
    <2>1. \A x \in Free("wasm") : x \in WasmBits /\ x # None
      BY DEF Free, Bits
    <2>2. QED
      BY <1>5, <2>1 DEF MallocScratch, MallocDone, Forget
  <1>6. ASSUME NEW t \in Threads, MallocPublish(t) PROVE OpsOK'
    BY <1>6 DEF MallocPublish, MallocDone, Forget
  <1>7. ASSUME NEW t \in Threads, FreeOwner(t) PROVE OpsOK'
    <2>1. PICK o \in held \cup made :
            ptr' = [ptr EXCEPT ![t] = KeyOf(o)] /\ choice' = [choice EXCEPT ![t] = o[1]]
      BY <1>7, FreesKey
    <2>2. o \in Objects
      BY DEF AppTypes
    <2>3. ptr'[t] \in Pointers /\ IsKey(ptr'[t]) /\ choice'[t] = TagOwner(ptr'[t])
      BY <2>1, <2>2, KeyFacts
    <2>4. QED
      BY <1>7, <2>1, <2>3 DEF FreeOwner, IsKey, TagOwner
  <1>8. ASSUME NEW t \in Threads, FreeStruct(t) PROVE OpsOK'
    BY <1>8 DEF FreeStruct
  <1>9. ASSUME NEW t \in Threads, FreeScratch(t) PROVE OpsOK'
    BY <1>9 DEF FreeScratch
  <1>10. ASSUME NEW t \in Threads, FreeBackend(t) PROVE OpsOK'
    BY <1>10 DEF FreeBackend, Forget
  <1>11. ASSUME NEW t \in Threads, InvokePick(t) PROVE OpsOK'
    BY <1>11 DEF InvokePick, LegalArgs
  <1>12. ASSUME NEW t \in Threads, InvokeInspect(t) PROVE OpsOK'
    BY <1>12 DEF InvokeInspect
  <1>13. ASSUME NEW t \in Threads, InvokeDispatch(t) PROVE OpsOK'
    BY <1>13 DEF InvokeDispatch
  <1>14. ASSUME NEW t \in Threads, InvokeTranslate(t) PROVE OpsOK'
    BY <1>14 DEF InvokeTranslate
  <1>15. ASSUME NEW t \in Threads, RunPlain(t) PROVE OpsOK'
    BY <1>15 DEF RunPlain, InvokeDone, Forget
  <1>16. ASSUME NEW t \in Threads, RunDestroys(t) PROVE OpsOK'
    BY <1>16 DEF RunDestroys, InvokeDone, Forget
  <1>17. ASSUME NEW t \in Threads, RunMakes(t) PROVE OpsOK'
    <2>1. PICK x \in Free(choice[t]) : ptr' = [ptr EXCEPT ![t] = KeyOf(<<choice[t], x>>)]
      BY <1>17 DEF RunMakes
    <2>2. ptr'[t] \in Pointers /\ IsKey(ptr'[t]) /\ choice[t] = TagOwner(ptr'[t])
      BY <2>1, ObjectFacts, KeyFacts
    <2>3. QED
      BY <1>17, <2>1, <2>2 DEF RunMakes, IsKey, TagOwner
  <1>18. ASSUME NEW t \in Threads, RunReturnsArg(t) PROVE OpsOK'
    <2>1. PICK a \in args[t] : a.obj[1] = choice[t] /\ ptr' = [ptr EXCEPT ![t] = KeyOf(a.obj)]
      BY <1>18 DEF RunReturnsArg
    <2>2. a.obj \in Objects
      BY DEF CallTypes, Args
    <2>3. ptr'[t] \in Pointers /\ IsKey(ptr'[t]) /\ choice[t] = TagOwner(ptr'[t])
      BY <2>1, <2>2, KeyFacts
    <2>4. QED
      BY <1>18, <2>1, <2>3 DEF RunReturnsArg, IsKey, TagOwner
  <1>19. ASSUME NEW t \in Threads, InvokeRecord(t) PROVE OpsOK'
    BY <1>19 DEF InvokeRecord, InvokeDone, Forget
  <1>20. CASE UNCHANGED vars
    BY <1>20 DEF vars
  <1>21. QED
    BY <1>1, <1>2, <1>3, <1>4, <1>5, <1>6, <1>7, <1>8, <1>9, <1>10, <1>11, <1>12, <1>13,
       <1>14, <1>15, <1>16, <1>17, <1>18, <1>19, <1>20
    DEF Next, Malloc, FreeStep, Invoke

\* The registry knows what is handed out.
LEMMA EntriesStep ==
  ASSUME HeapTypes, AppTypes, OpTypes, KeysOK, OpsOK, Apart, EntriesOK, [Next]_vars
  PROVE  EntriesOK'
  <1> USE DEF EntriesOK, At, Go, Mallocs, heapVars, appVars, callVars
  <1>1. CASE RegisterStruct
    BY <1>1 DEF RegisterStruct
  <1>2. ASSUME NEW t \in Threads, MallocBackend(t) PROVE EntriesOK'
    BY <1>2 DEF MallocBackend, OpTypes
  <1>3. ASSUME NEW t \in Threads, MallocOwner(t) PROVE EntriesOK'
    <2>1. \A o \in held \cup made : KeyOf(o) = ptr[t] => o[1] = choice[t]
      BY <1>3, OpFacts, KeyFacts DEF MallocOwner, AppTypes
    <2>2. \A u \in Threads : pc[u] \in Mallocs /\ ptr[u] = ptr[t] => choice[u] = choice[t]
      BY <1>3, OpFacts DEF MallocOwner
    <2>3. ptr[t] \in Pointers
      BY <1>3, OpFacts DEF MallocOwner
    <2>4. \A o \in held \cup made : KeyOf(o) \in Pointers
      BY KeyFacts DEF AppTypes
    <2>5. QED
      BY <1>3, <2>1, <2>2, <2>3, <2>4 DEF MallocOwner, HeapTypes, OpTypes
  <1>4. ASSUME NEW t \in Threads, MallocMatch(t) PROVE EntriesOK'
    <2>1. PICK o \in Objects : o = Unsandboxed(ptr[t])
      BY <1>4, OpFacts DEF MallocMatch, Mallocs
    <2>2. o \notin held \cup made /\ ptr[t] = KeyOf(o) /\ o[1] = choice[t]
      BY <1>4, <2>1, OpFacts, OpAlone DEF MallocMatch, InFlight, Mallocs
    <2>3. owner[ptr[t]] = choice[t] /\ held' \cup made' \subseteq held \cup made \cup {o} /\ owner' = owner
      BY <1>4, <2>1 DEF MallocMatch, MallocDone
    <2>4. \A u \in Threads : pc'[u] \in Mallocs \ {"mallocOwner"} =>
            pc[u] \in Mallocs \ {"mallocOwner"} /\ ptr'[u] = ptr[u] /\ choice'[u] = choice[u]
      BY <1>4 DEF MallocMatch, MallocDone, Forget, OpTypes
    <2>5. QED
      BY <2>2, <2>3, <2>4
  <1>5. ASSUME NEW t \in Threads, MallocScratch(t) PROVE EntriesOK'
    <2>1. PICK o \in Objects : o = Unsandboxed(ptr[t])
      BY <1>5, OpFacts DEF MallocScratch, Mallocs
    <2>2. o \notin held \cup made /\ ptr[t] = KeyOf(o) /\ o[1] = choice[t]
      BY <1>5, <2>1, OpFacts, OpAlone DEF MallocScratch, InFlight, Mallocs
    <2>3. owner[ptr[t]] = choice[t] /\ held' \cup made' \subseteq held \cup made \cup {o} /\ owner' = owner
      BY <1>5, <2>1 DEF MallocScratch, MallocDone
    <2>4. \A u \in Threads : pc'[u] \in Mallocs \ {"mallocOwner"} =>
            pc[u] \in Mallocs \ {"mallocOwner"} /\ ptr'[u] = ptr[u] /\ choice'[u] = choice[u]
      BY <1>5 DEF MallocScratch, MallocDone, Forget, OpTypes
    <2>5. QED
      BY <2>2, <2>3, <2>4
  <1>6. ASSUME NEW t \in Threads, MallocPublish(t) PROVE EntriesOK'
    <2>1. PICK o \in Objects : o = Unsandboxed(ptr[t])
      BY <1>6, OpFacts DEF MallocPublish, Mallocs
    <2>2. o \notin held \cup made /\ ptr[t] = KeyOf(o) /\ o[1] = choice[t]
      BY <1>6, <2>1, OpFacts, OpAlone DEF MallocPublish, InFlight, Mallocs
    <2>3. QED
      BY <1>6, <2>1, <2>2 DEF MallocPublish, MallocDone, Forget, OpTypes
  <1>7. ASSUME NEW t \in Threads, FreeOwner(t) PROVE EntriesOK'
    <2>1. PICK o \in held \cup made :
            /\ KeyOf(o) \in Pointers /\ held' = held \ {o} /\ made' = made \ {o}
            /\ ptr' = [ptr EXCEPT ![t] = KeyOf(o)]
            /\ owner' = [owner EXCEPT ![KeyOf(o)] = None] /\ choice' = [choice EXCEPT ![t] = o[1]]
      BY <1>7, FreesKey
    <2>2. \A q \in held \cup made : q # o => KeyOf(q) # KeyOf(o)
      BY KeyFacts DEF AppTypes
    <2>3. \A u \in Threads : pc[u] \in Mallocs => ptr[u] # KeyOf(o)
      BY KeyFacts, OpAlone DEF AppTypes, InFlight
    <2>4. QED
      BY <1>7, <2>1, <2>2, <2>3 DEF FreeOwner, HeapTypes, OpTypes
  <1>8. ASSUME NEW t \in Threads, FreeStruct(t) PROVE EntriesOK'
    BY <1>8 DEF FreeStruct
  <1>9. ASSUME NEW t \in Threads, FreeScratch(t) PROVE EntriesOK'
    BY <1>9 DEF FreeScratch
  <1>10. ASSUME NEW t \in Threads, FreeBackend(t) PROVE EntriesOK'
    BY <1>10 DEF FreeBackend, Forget
  <1>11. ASSUME NEW t \in Threads, InvokePick(t) PROVE EntriesOK'
    BY <1>11 DEF InvokePick, LegalArgs
  <1>12. ASSUME NEW t \in Threads, InvokeInspect(t) PROVE EntriesOK'
    BY <1>12 DEF InvokeInspect
  <1>13. ASSUME NEW t \in Threads, InvokeDispatch(t) PROVE EntriesOK'
    <2>1. \A u \in Threads : pc'[u] \in Mallocs => pc[u] \in Mallocs /\ choice'[u] = choice[u]
      BY <1>13 DEF InvokeDispatch, OpTypes
    <2>2. QED
      BY <1>13, <2>1 DEF InvokeDispatch, OpTypes
  <1>14. ASSUME NEW t \in Threads, InvokeTranslate(t) PROVE EntriesOK'
    BY <1>14 DEF InvokeTranslate
  <1>15. ASSUME NEW t \in Threads, RunPlain(t) PROVE EntriesOK'
    BY <1>15 DEF RunPlain, InvokeDone, Forget
  <1>16. ASSUME NEW t \in Threads, RunDestroys(t) PROVE EntriesOK'
    <2>1. made' \subseteq made
      BY <1>16 DEF RunDestroys
    <2>2. QED
      BY <1>16, <2>1 DEF RunDestroys, InvokeDone, Forget, OpTypes
  <1>17. ASSUME NEW t \in Threads, RunMakes(t) PROVE EntriesOK'
    BY <1>17 DEF RunMakes
  <1>18. ASSUME NEW t \in Threads, RunReturnsArg(t) PROVE EntriesOK'
    BY <1>18 DEF RunReturnsArg
  <1>19. ASSUME NEW t \in Threads, InvokeRecord(t) PROVE EntriesOK'
    <2>1. PICK o \in Objects : o = Unsandboxed(ptr[t]) /\ ptr[t] = KeyOf(o) /\ o[1] = choice[t]
      BY <1>19, OpFacts DEF InvokeRecord
    <2>2. owner[ptr[t]] # None => owner[ptr[t]] = choice[t]
      BY <1>19, OpFacts DEF InvokeRecord, KeysOK
    <2>3. \A q \in held \cup made \cup {o} : owner'[KeyOf(q)] = q[1]
      BY <1>19, <2>1, <2>2, KeyFacts DEF InvokeRecord, HeapTypes, AppTypes
    <2>4. \A u \in Threads : pc[u] \in Mallocs \ {"mallocOwner"} => owner'[ptr[u]] = choice[u]
      BY <1>19, <2>2, OpFacts DEF InvokeRecord, HeapTypes
    <2>5. QED
      BY <1>19, <2>1, <2>3, <2>4 DEF InvokeRecord, InvokeDone, Forget, OpTypes
  <1>20. CASE UNCHANGED vars
    BY <1>20 DEF vars
  <1>21. QED
    BY <1>1, <1>2, <1>3, <1>4, <1>5, <1>6, <1>7, <1>8, <1>9, <1>10, <1>11, <1>12, <1>13,
       <1>14, <1>15, <1>16, <1>17, <1>18, <1>19, <1>20
    DEF Next, Malloc, FreeStep, Invoke

\* A scratch block goes with an allocation.
LEMMA StructsStep ==
  ASSUME HeapTypes, AppTypes, OpTypes, KeysOK, OpsOK, Apart, EntriesOK, StructsOK, [Next]_vars
  PROVE  StructsOK'
  <1> USE DEF StructsOK, At, Go, heapVars, appVars, callVars
  <1>1. CASE RegisterStruct
    BY <1>1 DEF RegisterStruct
  <1>2. ASSUME NEW t \in Threads, MallocBackend(t) PROVE StructsOK'
    BY <1>2 DEF MallocBackend, OpTypes
  <1>3. ASSUME NEW t \in Threads, MallocOwner(t) PROVE StructsOK'
    BY <1>3 DEF MallocOwner, OpTypes
  <1>4. ASSUME NEW t \in Threads, MallocMatch(t) PROVE StructsOK'
    <2>1. PICK o \in Objects : o = Unsandboxed(ptr[t])
      BY <1>4, OpFacts DEF MallocMatch, Mallocs
    <2>2. o \notin held \cup made /\ ptr[t] = KeyOf(o) /\ o[1] = choice[t]
      BY <1>4, <2>1, OpFacts, OpAlone DEF MallocMatch, InFlight, Mallocs
    <2>3. QED
      BY <1>4, <2>1, <2>2 DEF MallocMatch, MallocDone, OpTypes
  <1>5. ASSUME NEW t \in Threads, MallocScratch(t) PROVE StructsOK'
    <2>1. PICK o \in Objects : o = Unsandboxed(ptr[t])
      BY <1>5, OpFacts DEF MallocScratch, Mallocs
    <2>2. o \notin held \cup made /\ ptr[t] = KeyOf(o) /\ o[1] = choice[t]
      BY <1>5, <2>1, OpFacts, OpAlone DEF MallocScratch, InFlight, Mallocs
    <2>3. QED
      BY <1>5, <2>1, <2>2 DEF MallocScratch, MallocDone, OpTypes
  <1>6. ASSUME NEW t \in Threads, MallocPublish(t) PROVE StructsOK'
    <2>1. PICK o \in Objects : o = Unsandboxed(ptr[t])
      BY <1>6, OpFacts DEF MallocPublish, Mallocs
    <2>2. o \notin held \cup made /\ ptr[t] = KeyOf(o) /\ o[1] = choice[t]
      BY <1>6, <2>1, OpFacts, OpAlone DEF MallocPublish, InFlight, Mallocs
    <2>3. QED
      BY <1>6, <2>1, <2>2 DEF MallocPublish, MallocDone, OpTypes, HeapTypes
  <1>7. ASSUME NEW t \in Threads, FreeOwner(t) PROVE StructsOK'
    <2>1. PICK o \in held \cup made :
            /\ KeyOf(o) \in Pointers /\ held' = held \ {o} /\ made' = made \ {o}
            /\ ptr' = [ptr EXCEPT ![t] = KeyOf(o)]
      BY <1>7, FreesKey
    <2>2. \A p \in Pointers : scratchOf[p] # None /\ Unsandboxed(p) = o => p = KeyOf(o)
      BY PointerFacts DEF KeysOK
    <2>3. QED
      BY <1>7, <2>1, <2>2 DEF FreeOwner, OpTypes
  <1>8. ASSUME NEW t \in Threads, FreeStruct(t) PROVE StructsOK'
    <2>1. ptr[t] \in Pointers
      BY <1>8, OpFacts DEF FreeStruct, Frees
    <2>2. QED
      BY <1>8, <2>1 DEF FreeStruct, OpTypes, HeapTypes
  <1>9. ASSUME NEW t \in Threads, FreeScratch(t) PROVE StructsOK'
    BY <1>9 DEF FreeScratch, OpTypes
  <1>10. ASSUME NEW t \in Threads, FreeBackend(t) PROVE StructsOK'
    BY <1>10 DEF FreeBackend, Forget, OpTypes
  <1>11. ASSUME NEW t \in Threads, InvokePick(t) PROVE StructsOK'
    BY <1>11 DEF InvokePick, LegalArgs, OpTypes
  <1>12. ASSUME NEW t \in Threads, InvokeInspect(t) PROVE StructsOK'
    BY <1>12 DEF InvokeInspect
  <1>13. ASSUME NEW t \in Threads, InvokeDispatch(t) PROVE StructsOK'
    BY <1>13 DEF InvokeDispatch, OpTypes
  <1>14. ASSUME NEW t \in Threads, InvokeTranslate(t) PROVE StructsOK'
    BY <1>14 DEF InvokeTranslate, OpTypes
  <1>15. ASSUME NEW t \in Threads, RunPlain(t) PROVE StructsOK'
    BY <1>15 DEF RunPlain, InvokeDone, Forget, OpTypes
  <1>16. ASSUME NEW t \in Threads, RunDestroys(t) PROVE StructsOK'
    BY <1>16 DEF RunDestroys, InvokeDone, Forget, OpTypes
  <1>17. ASSUME NEW t \in Threads, RunMakes(t) PROVE StructsOK'
    BY <1>17 DEF RunMakes, OpTypes
  <1>18. ASSUME NEW t \in Threads, RunReturnsArg(t) PROVE StructsOK'
    BY <1>18 DEF RunReturnsArg, OpTypes
  <1>19. ASSUME NEW t \in Threads, InvokeRecord(t) PROVE StructsOK'
    BY <1>19 DEF InvokeRecord, InvokeDone, Forget, OpTypes
  <1>20. CASE UNCHANGED vars
    BY <1>20 DEF vars
  <1>21. QED
    BY <1>1, <1>2, <1>3, <1>4, <1>5, <1>6, <1>7, <1>8, <1>9, <1>10, <1>11, <1>12, <1>13,
       <1>14, <1>15, <1>16, <1>17, <1>18, <1>19, <1>20
    DEF Next, Malloc, FreeStep, Invoke

\* What a call was given lives until it is over.
LEMMA ArgsStep ==
  ASSUME HeapTypes, AppTypes, OpTypes, CallTypes, KeysOK, OpsOK, EntriesOK, Apart, Covered, StructsOK, ArgsOK, [Next]_vars
  PROVE  ArgsOK'
  <1> USE DEF ArgsOK, At, Go, heapVars, appVars, callVars
  <1>1. CASE RegisterStruct
    BY <1>1 DEF RegisterStruct
  <1>2. ASSUME NEW t \in Threads, MallocBackend(t) PROVE ArgsOK'
    BY <1>2 DEF MallocBackend, OpTypes, CallTypes
  <1>3. ASSUME NEW t \in Threads, MallocOwner(t) PROVE ArgsOK'
    BY <1>3 DEF MallocOwner, OpTypes, CallTypes
  <1>4. ASSUME NEW t \in Threads, MallocMatch(t) PROVE ArgsOK'
    <2>1. PICK o \in Objects : o = Unsandboxed(ptr[t])
      BY <1>4, OpFacts DEF MallocMatch, Mallocs
    <2>2. o \notin held \cup made /\ ptr[t] = KeyOf(o) /\ o[1] = choice[t]
      BY <1>4, <2>1, OpFacts, OpAlone DEF MallocMatch, InFlight, Mallocs
    <2>3. held' \cup made' \subseteq held \cup made \cup {o} /\ held \cup made \subseteq held' \cup made' /\ args' = args
      BY <1>4, <2>1 DEF MallocMatch, MallocDone
    <2>4. \A u \in Threads : pc'[u] = "record" => u # t /\ pc[u] = "record" /\ ptr'[u] = ptr[u]
      BY <1>4 DEF MallocMatch, MallocDone, OpTypes
    <2>5. \A u \in Threads \ {t} : pc[u] = "record" /\ Unsandboxed(ptr[u]) \notin held \cup made =>
            Unsandboxed(ptr[u]) # o
      BY <1>4, <2>1, OpAlone DEF MallocMatch, InFlight
    <2>6. QED
      BY <2>3, <2>4, <2>5
  <1>5. ASSUME NEW t \in Threads, MallocScratch(t) PROVE ArgsOK'
    <2>1. PICK o \in Objects : o = Unsandboxed(ptr[t])
      BY <1>5, OpFacts DEF MallocScratch, Mallocs
    <2>2. o \notin held \cup made /\ ptr[t] = KeyOf(o) /\ o[1] = choice[t]
      BY <1>5, <2>1, OpFacts, OpAlone DEF MallocScratch, InFlight, Mallocs
    <2>3. held' \cup made' \subseteq held \cup made \cup {o} /\ held \cup made \subseteq held' \cup made' /\ args' = args
      BY <1>5, <2>1 DEF MallocScratch, MallocDone
    <2>4. \A u \in Threads : pc'[u] = "record" => u # t /\ pc[u] = "record" /\ ptr'[u] = ptr[u]
      BY <1>5 DEF MallocScratch, MallocDone, OpTypes
    <2>5. \A u \in Threads \ {t} : pc[u] = "record" /\ Unsandboxed(ptr[u]) \notin held \cup made =>
            Unsandboxed(ptr[u]) # o
      BY <1>5, <2>1, OpAlone DEF MallocScratch, InFlight
    <2>6. QED
      BY <2>3, <2>4, <2>5
  <1>6. ASSUME NEW t \in Threads, MallocPublish(t) PROVE ArgsOK'
    <2>1. PICK o \in Objects : o = Unsandboxed(ptr[t])
      BY <1>6, OpFacts DEF MallocPublish, Mallocs
    <2>2. o \notin held \cup made /\ ptr[t] = KeyOf(o) /\ o[1] = choice[t]
      BY <1>6, <2>1, OpFacts, OpAlone DEF MallocPublish, InFlight, Mallocs
    <2>3. held' \cup made' \subseteq held \cup made \cup {o} /\ held \cup made \subseteq held' \cup made' /\ args' = args
      BY <1>6, <2>1 DEF MallocPublish, MallocDone
    <2>4. \A u \in Threads : pc'[u] = "record" => u # t /\ pc[u] = "record" /\ ptr'[u] = ptr[u]
      BY <1>6 DEF MallocPublish, MallocDone, OpTypes
    <2>5. \A u \in Threads \ {t} : pc[u] = "record" /\ Unsandboxed(ptr[u]) \notin held \cup made =>
            Unsandboxed(ptr[u]) # o
      BY <1>6, <2>1, OpAlone DEF MallocPublish, InFlight
    <2>6. QED
      BY <2>3, <2>4, <2>5
  <1>7. ASSUME NEW t \in Threads, FreeOwner(t) PROVE ArgsOK'
    <2>1. PICK o \in held \cup made :
            /\ ~InUse(o, Threads) /\ held' = held \ {o} /\ made' = made \ {o}
            /\ ptr' = [ptr EXCEPT ![t] = KeyOf(o)]
      BY <1>7, FreesKey
    <2>2. \A u \in Threads : \A a \in args[u] : a.obj # o
      BY <2>1 DEF InUse
    <2>3. args' = args /\ \A u \in Threads : pc'[u] = "record" => pc[u] = "record" /\ ptr'[u] = ptr[u]
      BY <1>7, <2>1 DEF FreeOwner, OpTypes
    <2>4. QED
      BY <2>1, <2>2, <2>3
  <1>8. ASSUME NEW t \in Threads, FreeStruct(t) PROVE ArgsOK'
    BY <1>8 DEF FreeStruct, OpTypes, CallTypes
  <1>9. ASSUME NEW t \in Threads, FreeScratch(t) PROVE ArgsOK'
    BY <1>9 DEF FreeScratch, OpTypes, CallTypes
  <1>10. ASSUME NEW t \in Threads, FreeBackend(t) PROVE ArgsOK'
    BY <1>10 DEF FreeBackend, Forget, OpTypes, CallTypes
  <1>11. ASSUME NEW t \in Threads, InvokePick(t) PROVE ArgsOK'
    <2>1. PICK A \in SUBSET LegalArgs : args' = [args EXCEPT ![t] = A]
      BY <1>11 DEF InvokePick
    <2>2. QED
      BY <1>11, <2>1 DEF InvokePick, LegalArgs, OpTypes, CallTypes
  <1>12. ASSUME NEW t \in Threads, InvokeInspect(t) PROVE ArgsOK'
    BY <1>12 DEF InvokeInspect, OpTypes, CallTypes
  <1>13. ASSUME NEW t \in Threads, InvokeDispatch(t) PROVE ArgsOK'
    BY <1>13 DEF InvokeDispatch, OpTypes, CallTypes
  <1>14. ASSUME NEW t \in Threads, InvokeTranslate(t) PROVE ArgsOK'
    BY <1>14 DEF InvokeTranslate, OpTypes, CallTypes
  <1>15. ASSUME NEW t \in Threads, RunPlain(t) PROVE ArgsOK'
    BY <1>15 DEF RunPlain, InvokeDone, Forget, OpTypes, CallTypes
  <1>16. ASSUME NEW t \in Threads, RunDestroys(t) PROVE ArgsOK'
    <2>1. PICK o \in made : ~InUse(o, Threads \ {t}) /\ made' = made \ {o}
      BY <1>16 DEF RunDestroys
    <2>2. \A u \in Threads \ {t} : \A a \in args[u] : a.obj # o
      BY <2>1 DEF InUse
    <2>3. held' = held /\ ptr' = ptr /\ args' = [args EXCEPT ![t] = {}] /\ pc' = [pc EXCEPT ![t] = "idle"]
      BY <1>16 DEF RunDestroys, InvokeDone
    <2>4. \A u \in Threads \ {t} : \A a \in args'[u] : a.obj \in held' \cup made' /\ a.ptr \in Forms(a.obj) /\ (a.inside => Interior)
      BY <2>1, <2>2, <2>3 DEF CallTypes
    <2>5. \A u \in Threads \ {t} : pc'[u] = "record" =>
             Unsandboxed(ptr'[u]) \notin held' \cup made' \/ \E a \in args'[u] : a.obj = Unsandboxed(ptr'[u])
      BY <2>1, <2>3 DEF OpTypes, CallTypes
    <2>6. args'[t] = {} /\ pc'[t] = "idle"
      BY <2>3 DEF OpTypes, CallTypes
    <2>7. QED
      BY <2>4, <2>5, <2>6
  <1>17. ASSUME NEW t \in Threads, RunMakes(t) PROVE ArgsOK'
    <2>1. PICK x \in Free(choice[t]) : ptr' = [ptr EXCEPT ![t] = KeyOf(<<choice[t], x>>)]
      BY <1>17 DEF RunMakes
    <2>2. PICK o \in Objects : o = <<choice[t], x>> /\ o \notin Live
      BY ObjectFacts, FreeFacts DEF OpTypes
    <2>3. o \notin held \cup made /\ Unsandboxed(ptr'[t]) = o
      BY <2>1, <2>2, KeyFacts DEF Covered, AppHas, OpTypes
    <2>4. QED
      BY <1>17, <2>1, <2>3 DEF RunMakes, OpTypes
  <1>18. ASSUME NEW t \in Threads, RunReturnsArg(t) PROVE ArgsOK'
    <2>1. PICK a \in args[t] : ptr' = [ptr EXCEPT ![t] = KeyOf(a.obj)]
      BY <1>18 DEF RunReturnsArg
    <2>2. a.obj \in Objects
      BY DEF CallTypes, Args
    <2>3. Unsandboxed(ptr'[t]) = a.obj
      BY <2>1, <2>2, KeyFacts DEF OpTypes
    <2>4. QED
      BY <1>18, <2>1, <2>3 DEF RunReturnsArg, OpTypes
  <1>19. ASSUME NEW t \in Threads, InvokeRecord(t) PROVE ArgsOK'
    <2>1. PICK o \in Objects : o = Unsandboxed(ptr[t])
      BY <1>19, OpFacts DEF InvokeRecord
    <2>2. held' \cup made' = held \cup made \cup {o} /\ args' = [args EXCEPT ![t] = {}]
          /\ ptr' = [ptr EXCEPT ![t] = None] /\ pc' = [pc EXCEPT ![t] = "idle"]
      BY <1>19, <2>1 DEF InvokeRecord, InvokeDone
    <2>3. \A u \in Threads \ {t} : pc[u] = "record" /\ Unsandboxed(ptr[u]) \notin held \cup made =>
            Unsandboxed(ptr[u]) # o
      BY <1>19, <2>1, OpAlone DEF InvokeRecord, InFlight
    <2>4. \A u \in Threads \ {t} : pc'[u] = "record" => pc[u] = "record" /\ ptr'[u] = ptr[u] /\ args'[u] = args[u]
      BY <2>2 DEF OpTypes, CallTypes
    <2>5. args'[t] = {} /\ pc'[t] = "idle" /\ \A u \in Threads \ {t} : args'[u] = args[u]
      BY <2>2 DEF OpTypes, CallTypes
    <2>6. QED
      BY <2>2, <2>3, <2>4, <2>5
  <1>20. CASE UNCHANGED vars
    BY <1>20 DEF vars
  <1>21. QED
    BY <1>1, <1>2, <1>3, <1>4, <1>5, <1>6, <1>7, <1>8, <1>9, <1>10, <1>11, <1>12, <1>13,
       <1>14, <1>15, <1>16, <1>17, <1>18, <1>19, <1>20
    DEF Next, Malloc, FreeStep, Invoke

\* The entries of the objects that a call uses stay as they are under it.
LEMMA UsedIsSettled ==
  ASSUME HeapTypes, AppTypes, OpTypes, CallTypes, OpsOK, ArgsOK, Apart,
         NEW t \in Threads, InFlight(t), NEW u \in Threads, NEW a \in args[u]
  PROVE  KeyOf(a.obj) # ptr[t]
  <1>1. a.obj \in Objects /\ a.obj \in held \cup made
    BY DEF ArgsOK, CallTypes, Args
  <1>2. Unsandboxed(KeyOf(a.obj)) = a.obj
    BY <1>1, KeyFacts
  <1>3. QED
    BY <1>1, <1>2, OpAlone

\* A call runs where its arguments are, on what stands for them.
LEMMA CallsStep ==
  ASSUME HeapTypes, AppTypes, OpTypes, CallTypes, KeysOK, OpsOK, EntriesOK, Apart, Covered, ArgsOK, CallsOK, [Next]_vars
  PROVE  CallsOK'
  <1> USE DEF CallsOK, At, Go, heapVars, appVars, callVars
  <1>1. CASE RegisterStruct
    BY <1>1 DEF RegisterStruct
  <1>2. ASSUME NEW t \in Threads, MallocBackend(t) PROVE CallsOK'
    <2>1. \A u \in Threads \ {t} : /\ pc'[u] = pc[u] /\ choice'[u] = choice[u] /\ args'[u] = args[u]
                                    /\ todo'[u] = todo[u] /\ saw'[u] = saw[u] /\ passed'[u] = passed[u]
      BY <1>2 DEF MallocBackend, OpTypes, CallTypes
    <2>2. pc'[t] \notin {"inspect", "translate", "run", "record"}
      BY <1>2 DEF MallocBackend, OpTypes
    <2>3. scratchOf' = scratchOf
      BY <1>2 DEF MallocBackend
    <2>4. QED
      BY <2>1, <2>2, <2>3
  <1>3. ASSUME NEW t \in Threads, MallocOwner(t) PROVE CallsOK'
    <2>1. \A u \in Threads \ {t} : /\ pc'[u] = pc[u] /\ choice'[u] = choice[u] /\ args'[u] = args[u]
                                    /\ todo'[u] = todo[u] /\ saw'[u] = saw[u] /\ passed'[u] = passed[u]
      BY <1>3 DEF MallocOwner, OpTypes, CallTypes
    <2>2. pc'[t] \notin {"inspect", "translate", "run", "record"}
      BY <1>3 DEF MallocOwner, OpTypes
    <2>3. scratchOf' = scratchOf
      BY <1>3 DEF MallocOwner
    <2>4. QED
      BY <2>1, <2>2, <2>3
  <1>4. ASSUME NEW t \in Threads, MallocMatch(t) PROVE CallsOK'
    <2>1. \A u \in Threads \ {t} : /\ pc'[u] = pc[u] /\ choice'[u] = choice[u] /\ args'[u] = args[u]
                                    /\ todo'[u] = todo[u] /\ saw'[u] = saw[u] /\ passed'[u] = passed[u]
      BY <1>4 DEF MallocMatch, MallocDone, Forget, OpTypes, CallTypes
    <2>2. pc'[t] \notin {"inspect", "translate", "run", "record"}
      BY <1>4 DEF MallocMatch, MallocDone, Forget, OpTypes
    <2>3. scratchOf' = scratchOf
      BY <1>4 DEF MallocMatch, MallocDone, Forget
    <2>4. QED
      BY <2>1, <2>2, <2>3
  <1>5. ASSUME NEW t \in Threads, MallocScratch(t) PROVE CallsOK'
    <2>1. \A u \in Threads \ {t} : /\ pc'[u] = pc[u] /\ choice'[u] = choice[u] /\ args'[u] = args[u]
                                    /\ todo'[u] = todo[u] /\ saw'[u] = saw[u] /\ passed'[u] = passed[u]
      BY <1>5 DEF MallocScratch, MallocDone, Forget, OpTypes, CallTypes
    <2>2. pc'[t] \notin {"inspect", "translate", "run", "record"}
      BY <1>5 DEF MallocScratch, MallocDone, Forget, OpTypes
    <2>3. scratchOf' = scratchOf
      BY <1>5 DEF MallocScratch, MallocDone, Forget
    <2>4. QED
      BY <2>1, <2>2, <2>3
  <1>6. ASSUME NEW t \in Threads, MallocPublish(t) PROVE CallsOK'
    <2>1. \A u \in Threads \ {t} : /\ pc'[u] = pc[u] /\ choice'[u] = choice[u] /\ args'[u] = args[u]
                                    /\ todo'[u] = todo[u] /\ saw'[u] = saw[u] /\ passed'[u] = passed[u]
      BY <1>6 DEF MallocPublish, MallocDone, Forget, OpTypes, CallTypes
    <2>2. pc'[t] \notin {"inspect", "translate", "run", "record"}
      BY <1>6 DEF MallocPublish, MallocDone, Forget, OpTypes
    <2>3. InFlight(t) /\ scratchOf' = [scratchOf EXCEPT ![ptr[t]] = scratch[t]]
      BY <1>6 DEF MallocPublish, MallocDone, Forget, InFlight
    <2>4. \A u \in Threads : \A a \in args[u] : scratchOf'[KeyOf(a.obj)] = scratchOf[KeyOf(a.obj)]
      BY <2>3, UsedIsSettled, KeyFacts DEF HeapTypes, CallTypes, Args
    <2>5. QED
      BY <2>1, <2>2, <2>4
  <1>7. ASSUME NEW t \in Threads, FreeOwner(t) PROVE CallsOK'
    <2>1. \A u \in Threads \ {t} : /\ pc'[u] = pc[u] /\ choice'[u] = choice[u] /\ args'[u] = args[u]
                                    /\ todo'[u] = todo[u] /\ saw'[u] = saw[u] /\ passed'[u] = passed[u]
      BY <1>7 DEF FreeOwner, OpTypes, CallTypes
    <2>2. pc'[t] \notin {"inspect", "translate", "run", "record"}
      BY <1>7 DEF FreeOwner, OpTypes
    <2>3. scratchOf' = scratchOf
      BY <1>7 DEF FreeOwner
    <2>4. QED
      BY <2>1, <2>2, <2>3
  <1>8. ASSUME NEW t \in Threads, FreeStruct(t) PROVE CallsOK'
    <2>1. \A u \in Threads \ {t} : /\ pc'[u] = pc[u] /\ choice'[u] = choice[u] /\ args'[u] = args[u]
                                    /\ todo'[u] = todo[u] /\ saw'[u] = saw[u] /\ passed'[u] = passed[u]
      BY <1>8 DEF FreeStruct, OpTypes, CallTypes
    <2>2. pc'[t] \notin {"inspect", "translate", "run", "record"}
      BY <1>8 DEF FreeStruct, OpTypes
    <2>3. InFlight(t) /\ scratchOf' = [scratchOf EXCEPT ![ptr[t]] = None]
      BY <1>8 DEF FreeStruct, InFlight
    <2>4. \A u \in Threads : \A a \in args[u] : scratchOf'[KeyOf(a.obj)] = scratchOf[KeyOf(a.obj)]
      BY <2>3, UsedIsSettled, KeyFacts DEF HeapTypes, CallTypes, Args
    <2>5. QED
      BY <2>1, <2>2, <2>4
  <1>9. ASSUME NEW t \in Threads, FreeScratch(t) PROVE CallsOK'
    <2>1. \A u \in Threads \ {t} : /\ pc'[u] = pc[u] /\ choice'[u] = choice[u] /\ args'[u] = args[u]
                                    /\ todo'[u] = todo[u] /\ saw'[u] = saw[u] /\ passed'[u] = passed[u]
      BY <1>9 DEF FreeScratch, OpTypes, CallTypes
    <2>2. pc'[t] \notin {"inspect", "translate", "run", "record"}
      BY <1>9 DEF FreeScratch, OpTypes
    <2>3. scratchOf' = scratchOf
      BY <1>9 DEF FreeScratch
    <2>4. QED
      BY <2>1, <2>2, <2>3
  <1>10. ASSUME NEW t \in Threads, FreeBackend(t) PROVE CallsOK'
    <2>1. \A u \in Threads \ {t} : /\ pc'[u] = pc[u] /\ choice'[u] = choice[u] /\ args'[u] = args[u]
                                    /\ todo'[u] = todo[u] /\ saw'[u] = saw[u] /\ passed'[u] = passed[u]
      BY <1>10 DEF FreeBackend, Forget, OpTypes, CallTypes
    <2>2. pc'[t] \notin {"inspect", "translate", "run", "record"}
      BY <1>10 DEF FreeBackend, Forget, OpTypes
    <2>3. scratchOf' = scratchOf
      BY <1>10 DEF FreeBackend, Forget
    <2>4. QED
      BY <2>1, <2>2, <2>3
  <1>11. ASSUME NEW t \in Threads, InvokePick(t) PROVE CallsOK'
    <2>1. \A u \in Threads \ {t} : /\ pc'[u] = pc[u] /\ choice'[u] = choice[u] /\ args'[u] = args[u]
                                    /\ todo'[u] = todo[u] /\ saw'[u] = saw[u] /\ passed'[u] = passed[u]
      BY <1>11 DEF InvokePick, OpTypes, CallTypes
    <2>2. pc'[t] = "inspect" /\ todo'[t] = args'[t] /\ scratchOf' = scratchOf
      BY <1>11 DEF InvokePick, OpTypes, CallTypes
    <2>3. QED
      BY <2>1, <2>2
  <1>12. ASSUME NEW t \in Threads, InvokeInspect(t) PROVE CallsOK'
    <2>1. PICK a \in todo[t] :
            /\ todo' = [todo EXCEPT ![t] = @ \ {a}]
            /\ saw' = [saw EXCEPT ![t] = @ \cup (IF a.inside THEN {} ELSE {OwnerOf(a.ptr)} \ {None})]
      BY <1>12 DEF InvokeInspect
    <2>2. pc' = pc /\ args' = args /\ choice' = choice /\ passed' = passed /\ scratchOf' = scratchOf
      BY <1>12 DEF InvokeInspect
    <2>3. a \in args[t] => OwnerOf(a.ptr) = a.obj[1] /\ a.obj[1] # None
      BY EntryFacts, KeyFacts, MetaAssumption DEF ArgsOK, EntriesOK, AppTypes
    <2>4. \A q \in args[t] \ todo'[t] : ~q.inside => q.obj[1] \in saw'[t]
      BY <1>12, <2>1, <2>3 DEF InvokeInspect, CallTypes
    <2>5. \A u \in Threads \ {t} : todo'[u] = todo[u] /\ saw'[u] = saw[u]
      BY <2>1 DEF CallTypes
    <2>6. QED
      BY <1>12, <2>2, <2>4, <2>5 DEF InvokeInspect
  <1>13. ASSUME NEW t \in Threads, InvokeDispatch(t) PROVE CallsOK'
    <2> DEFINE b == IF saw[t] = {} THEN choice[t] ELSE CHOOSE x \in saw[t] : TRUE
    <2>1. todo[t] = {} /\ pc[t] = "inspect" /\ args' = args /\ todo' = todo /\ saw' = saw /\ passed' = passed
          /\ scratchOf' = scratchOf
      BY <1>13 DEF InvokeDispatch
    <2>2. CASE choice' = choice /\ pc' = pc
      BY <2>1, <2>2
    <2>3. CASE saw[t] # Backends /\ choice' = [choice EXCEPT ![t] = b] /\ pc' = [pc EXCEPT ![t] = "translate"]
      <3>1. ~Interior => \A a \in args[t] : a.obj[1] \in saw[t]
        BY <2>1 DEF ArgsOK
      <3>2. \A x \in saw[t] : x = b
        BY <2>3 DEF CallTypes, Backends
      <3>3. choice'[t] = b /\ pc'[t] = "translate"
        BY <2>3 DEF OpTypes
      <3>4. \A u \in Threads \ {t} : choice'[u] = choice[u] /\ pc'[u] = pc[u]
        BY <2>3 DEF OpTypes
      <3>5. ~Interior => \A a \in args[t] : a.obj[1] = choice'[t]
        BY <3>1, <3>2, <3>3
      <3> HIDE DEF b
      <3>6. QED
        BY <2>1, <3>3, <3>4, <3>5
    <2>4. QED
      BY <1>13, <2>2, <2>3 DEF InvokeDispatch
  <1>14. ASSUME NEW t \in Threads, InvokeTranslate(t) PROVE CallsOK'
    <2>1. pc[t] = "translate" /\ pc' = [pc EXCEPT ![t] = "run"] /\ choice' = choice /\ args' = args /\ todo' = todo /\ saw' = saw
          /\ scratchOf' = scratchOf
      BY <1>14 DEF InvokeTranslate
    <2>2. \A a \in args[t] : ForWasm(a)[2] \in {a.obj[2], scratchOf[KeyOf(a.obj)]}
      <3> SUFFICES ASSUME NEW a \in args[t] PROVE ForWasm(a)[2] \in {a.obj[2], scratchOf[KeyOf(a.obj)]}
        OBVIOUS
      <3>1. a.obj \in Objects /\ a.ptr \in Forms(a.obj)
        BY DEF ArgsOK, CallTypes, Args
      <3>2. a.ptr \in Pointers /\ TagStrip(a.ptr)[2] = a.obj[2] /\ (IsKey(a.ptr) => a.ptr = KeyOf(a.obj))
        BY <3>1, FormFacts
      <3>3. QED
        BY <3>2 DEF ForWasm, KeysOK
    <2>3. passed' = [passed EXCEPT ![t] =
                       {<<a, IF choice[t] = "wasm" THEN ForWasm(a) ELSE a.ptr>> : a \in args[t]}]
      BY <1>14 DEF InvokeTranslate
    <2>4. choice[t] = "wasm" => \A q \in passed'[t] :
             q[1] \in args[t] /\ q[2][2] \in {q[1].obj[2], scratchOf[KeyOf(q[1].obj)]}
      BY <2>2, <2>3 DEF CallTypes
    <2>5. \A u \in Threads \ {t} : pc'[u] = pc[u] /\ passed'[u] = passed[u]
      BY <2>1, <2>3 DEF OpTypes, CallTypes
    <2>6. pc'[t] = "run"
      BY <2>1 DEF OpTypes
    <2>7. QED
      BY <2>1, <2>4, <2>5, <2>6
  <1>15. ASSUME NEW t \in Threads, RunPlain(t) PROVE CallsOK'
    <2>1. \A u \in Threads \ {t} : /\ pc'[u] = pc[u] /\ choice'[u] = choice[u] /\ args'[u] = args[u]
                                    /\ todo'[u] = todo[u] /\ saw'[u] = saw[u] /\ passed'[u] = passed[u]
      BY <1>15 DEF RunPlain, InvokeDone, Forget, OpTypes, CallTypes
    <2>2. pc'[t] \notin {"inspect", "translate", "run", "record"}
      BY <1>15 DEF RunPlain, InvokeDone, Forget, OpTypes
    <2>3. scratchOf' = scratchOf
      BY <1>15 DEF RunPlain, InvokeDone, Forget
    <2>4. QED
      BY <2>1, <2>2, <2>3
  <1>16. ASSUME NEW t \in Threads, RunDestroys(t) PROVE CallsOK'
    <2>1. \A u \in Threads \ {t} : /\ pc'[u] = pc[u] /\ choice'[u] = choice[u] /\ args'[u] = args[u]
                                    /\ todo'[u] = todo[u] /\ saw'[u] = saw[u] /\ passed'[u] = passed[u]
      BY <1>16 DEF RunDestroys, InvokeDone, Forget, OpTypes, CallTypes
    <2>2. pc'[t] \notin {"inspect", "translate", "run", "record"}
      BY <1>16 DEF RunDestroys, InvokeDone, Forget, OpTypes
    <2>3. scratchOf' = scratchOf
      BY <1>16 DEF RunDestroys, InvokeDone, Forget
    <2>4. QED
      BY <2>1, <2>2, <2>3
  <1>17. ASSUME NEW t \in Threads, RunMakes(t) PROVE CallsOK'
    BY <1>17 DEF RunMakes, OpTypes
  <1>18. ASSUME NEW t \in Threads, RunReturnsArg(t) PROVE CallsOK'
    BY <1>18 DEF RunReturnsArg, OpTypes
  <1>19. ASSUME NEW t \in Threads, InvokeRecord(t) PROVE CallsOK'
    <2>1. \A u \in Threads \ {t} : /\ pc'[u] = pc[u] /\ choice'[u] = choice[u] /\ args'[u] = args[u]
                                    /\ todo'[u] = todo[u] /\ saw'[u] = saw[u] /\ passed'[u] = passed[u]
      BY <1>19 DEF InvokeRecord, InvokeDone, Forget, OpTypes, CallTypes
    <2>2. pc'[t] \notin {"inspect", "translate", "run", "record"}
      BY <1>19 DEF InvokeRecord, InvokeDone, Forget, OpTypes
    <2>3. scratchOf' = scratchOf
      BY <1>19 DEF InvokeRecord, InvokeDone, Forget
    <2>4. QED
      BY <2>1, <2>2, <2>3
  <1>20. CASE UNCHANGED vars
    BY <1>20 DEF vars
  <1>21. QED
    BY <1>1, <1>2, <1>3, <1>4, <1>5, <1>6, <1>7, <1>8, <1>9, <1>10, <1>11, <1>12, <1>13,
       <1>14, <1>15, <1>16, <1>17, <1>18, <1>19, <1>20
    DEF Next, Malloc, FreeStep, Invoke

-----------------------------------------------------------------------------
(* The claims move from one to another.                                    *)

\* Nothing moves.
LEMMA ClaimsSame ==
  ASSUME Apart, Covered,
         \A o \in Objects : AppHas(o)' <=> AppHas(o),
         \A u \in Threads : \A o \in Objects : OpHas(u, o)' <=> OpHas(u, o),
         \A p \in Pointers : \A o \in Objects : StructHas(p, o)' <=> StructHas(p, o),
         \A u \in Threads : \A o \in Objects : HandHas(u, o)' <=> HandHas(u, o),
         \A o \in Objects : o \in Live' <=> o \in Live
  PROVE  Apart' /\ Covered'
  BY DEF Apart, Covered

\* A block has one claim from birth to death.
LEMMA ClaimsStep ==
  ASSUME HeapTypes, AppTypes, OpTypes, CallTypes, KeysOK, OpsOK, EntriesOK, Apart, Covered, StructsOK, ArgsOK, [Next]_vars
  PROVE  Apart' /\ Covered'
  <1> USE DEF At, Go, heapVars, appVars, callVars
  <1>1. CASE RegisterStruct
    <2>1. \A o \in Objects : AppHas(o)' <=> AppHas(o)
      BY <1>1 DEF RegisterStruct, AppHas
    <2>2. \A u \in Threads : \A o \in Objects : OpHas(u, o)' <=> OpHas(u, o)
      BY <1>1 DEF RegisterStruct, OpHas, InFlight, OpTypes
    <2>3. \A p \in Pointers : \A o \in Objects : StructHas(p, o)' <=> StructHas(p, o)
      BY <1>1 DEF RegisterStruct, StructHas
    <2>4. \A u \in Threads : \A o \in Objects : HandHas(u, o)' <=> HandHas(u, o)
      BY <1>1 DEF RegisterStruct, HandHas, OpTypes
    <2>5. \A o \in Objects : o \in Live' <=> o \in Live
      BY <1>1 DEF RegisterStruct, Live
    <2>6. QED
      BY ONLY Apart, Covered, <2>1, <2>2, <2>3, <2>4, <2>5, ClaimsSame
  <1>2. ASSUME NEW t \in Threads, MallocBackend(t) PROVE Apart' /\ Covered'
    <2>1. PICK b \in Backends : \E x \in Free(b) :
            mem' = [mem EXCEPT ![b] = @ \cup {x}] /\ ptr' = [ptr EXCEPT ![t] = KeyOf(<<b, x>>)]
      BY <1>2 DEF MallocBackend
    <2>2. PICK x \in Free(b) : mem' = [mem EXCEPT ![b] = @ \cup {x}] /\ ptr' = [ptr EXCEPT ![t] = KeyOf(<<b, x>>)]
      BY <2>1
    <2>3. PICK n \in Objects : n = <<b, x>> /\ n \notin Live
      BY FreeFacts
    <2>4. Unsandboxed(ptr'[t]) = n
      BY <2>2, <2>3, KeyFacts DEF OpTypes
    <2>5. \A o \in Objects : AppHas(o)' <=> AppHas(o)
      BY <1>2 DEF MallocBackend, AppHas
    <2>6. \A u \in Threads : \A o \in Objects : OpHas(u, o)' <=> OpHas(u, o) \/ (u = t /\ o = n)
      BY <1>2, <2>1, <2>2, <2>3, <2>4 DEF MallocBackend, OpHas, InFlight, OpTypes
    <2>7. \A p \in Pointers : \A o \in Objects : StructHas(p, o)' <=> StructHas(p, o)
      BY <1>2 DEF MallocBackend, StructHas
    <2>8. \A u \in Threads : \A o \in Objects : HandHas(u, o)' <=> HandHas(u, o)
      BY <1>2 DEF MallocBackend, HandHas, OpTypes
    <2>9. \A o \in Objects : o \in Live' <=> o \in Live \/ o = n
      BY <1>2, <2>1, <2>2, <2>3, <2>4, LiveFacts, KeyFacts DEF MallocBackend, Live, HeapTypes
    <2>10. QED
      BY <2>5, <2>6, <2>7, <2>8, <2>9, <2>3 DEF Apart, Covered
  <1>3. ASSUME NEW t \in Threads, MallocOwner(t) PROVE Apart' /\ Covered'
    <2>1. \A o \in Objects : AppHas(o)' <=> AppHas(o)
      BY <1>3 DEF MallocOwner, AppHas
    <2>2. \A u \in Threads : \A o \in Objects : OpHas(u, o)' <=> OpHas(u, o)
      BY <1>3 DEF MallocOwner, OpHas, InFlight, OpTypes
    <2>3. \A p \in Pointers : \A o \in Objects : StructHas(p, o)' <=> StructHas(p, o)
      BY <1>3 DEF MallocOwner, StructHas
    <2>4. \A u \in Threads : \A o \in Objects : HandHas(u, o)' <=> HandHas(u, o)
      BY <1>3 DEF MallocOwner, HandHas, OpTypes
    <2>5. \A o \in Objects : o \in Live' <=> o \in Live
      BY <1>3 DEF MallocOwner, Live
    <2>6. QED
      BY ONLY Apart, Covered, <2>1, <2>2, <2>3, <2>4, <2>5, ClaimsSame
  <1>4. ASSUME NEW t \in Threads, MallocMatch(t) PROVE Apart' /\ Covered'
    <2>1. PICK n \in Objects : n = Unsandboxed(ptr[t])
      BY <1>4, OpFacts DEF MallocMatch, Mallocs
    <2>2. /\ OpHas(t, n) /\ \A u \in Threads : OpHas(u, n) => u = t
          /\ \A o \in Objects : OpHas(t, o) => o = n
      BY <1>4, <2>1 DEF MallocMatch, OpHas, InFlight, Apart
    <2>3. CASE /\ held' = held /\ ptr' = ptr /\ pc'[t] \in {"mallocMatch", "mallocScratch"}
              /\ \A u \in Threads \ {t} : pc'[u] = pc[u]
      <3>1. \A o \in Objects : AppHas(o)' <=> AppHas(o)
        BY <1>4, <2>3 DEF MallocMatch, AppHas
      <3>2. \A u \in Threads : \A o \in Objects : OpHas(u, o)' <=> OpHas(u, o)
        BY <1>4, <2>3 DEF MallocMatch, OpHas, InFlight, OpTypes
      <3>3. \A p \in Pointers : \A o \in Objects : StructHas(p, o)' <=> StructHas(p, o)
        BY <1>4, <2>3 DEF MallocMatch, StructHas
      <3>4. \A u \in Threads : \A o \in Objects : HandHas(u, o)' <=> HandHas(u, o)
        BY <1>4, <2>3 DEF MallocMatch, HandHas, OpTypes
      <3>5. \A o \in Objects : o \in Live' <=> o \in Live
        BY <1>4, <2>3 DEF MallocMatch, Live
      <3>6. QED
        BY ONLY Apart, Covered, <3>1, <3>2, <3>3, <3>4, <3>5, ClaimsSame
    <2>4. CASE MallocDone(t)
      <3>1. \A o \in Objects : AppHas(o)' <=> AppHas(o) \/ o = n
        BY <1>4, <2>4, <2>1 DEF MallocMatch, MallocDone, AppHas
      <3>2. \A u \in Threads : \A o \in Objects : OpHas(u, o)' <=> OpHas(u, o) /\ u # t
        BY <1>4, <2>4, <2>1, <2>2 DEF MallocMatch, MallocDone, OpHas, InFlight, OpTypes
      <3>3. \A p \in Pointers : \A o \in Objects : StructHas(p, o)' <=> StructHas(p, o)
        BY <1>4, <2>4 DEF MallocMatch, MallocDone, StructHas
      <3>4. \A u \in Threads : \A o \in Objects : HandHas(u, o)' <=> HandHas(u, o)
        BY <1>4, <2>4 DEF MallocMatch, MallocDone, HandHas, OpTypes
      <3>5. \A o \in Objects : o \in Live' <=> o \in Live
        BY <1>4, <2>4 DEF MallocMatch, MallocDone, Live
      <3>6. QED
        BY <3>1, <3>2, <3>3, <3>4, <3>5, <2>2 DEF Apart, Covered
    <2>5. QED
      BY <1>4, <2>3, <2>4 DEF MallocMatch, OpTypes
  <1>5. ASSUME NEW t \in Threads, MallocScratch(t) PROVE Apart' /\ Covered'
    <2>1. PICK n \in Objects : n = Unsandboxed(ptr[t])
      BY <1>5, OpFacts DEF MallocScratch, Mallocs
    <2>2. /\ OpHas(t, n) /\ \A u \in Threads : OpHas(u, n) => u = t
          /\ \A o \in Objects : OpHas(t, o) => o = n
      BY <1>5, <2>1 DEF MallocScratch, OpHas, InFlight, Apart
    <2>3. ASSUME NEW n1 \in Objects, NEW x \in Free("wasm"), n1 = <<"wasm", x>>, held' = held, ptr' = ptr,
                 mem' = [mem EXCEPT !["wasm"] = @ \cup {x}], scratch' = [scratch EXCEPT ![t] = x],
                 pc' = [pc EXCEPT ![t] = "mallocPublish"]
          PROVE  Apart' /\ Covered'
      <3>1. n1 \notin Live /\ scratch[t] = None /\ n1[2] # None
        BY <1>5, <2>3, FreeFacts, MetaAssumption DEF MallocScratch, OpsOK, Free, Bits, Backends
      <3>2. \A o \in Objects : AppHas(o)' <=> AppHas(o)
        BY <1>5, <2>3 DEF MallocScratch, AppHas
      <3>3. \A u \in Threads : \A o \in Objects : OpHas(u, o)' <=> OpHas(u, o)
        BY <1>5, <2>3 DEF MallocScratch, OpHas, InFlight, OpTypes
      <3>4. \A p \in Pointers : \A o \in Objects : StructHas(p, o)' <=> StructHas(p, o)
        BY <1>5, <2>3 DEF MallocScratch, StructHas
      <3>5. \A u \in Threads : \A o \in Objects : HandHas(u, o)' <=> HandHas(u, o) \/ (u = t /\ o = n1)
        BY <1>5, <2>3, <3>1, <2>3 DEF MallocScratch, HandHas, OpTypes
      <3>6. \A o \in Objects : o \in Live' <=> o \in Live \/ o = n1
        BY <1>5, <2>3, <3>1, LiveFacts, KeyFacts, <2>3 DEF MallocScratch, Live, HeapTypes, Backends
      <3>7. QED
        BY <3>2, <3>3, <3>4, <3>5, <3>6, <3>1 DEF Apart, Covered
    <2>4. CASE MallocDone(t) /\ mem' = mem /\ scratch' = scratch
      <3>1. \A o \in Objects : AppHas(o)' <=> AppHas(o) \/ o = n
        BY <1>5, <2>4, <2>1 DEF MallocScratch, MallocDone, AppHas
      <3>2. \A u \in Threads : \A o \in Objects : OpHas(u, o)' <=> OpHas(u, o) /\ u # t
        BY <1>5, <2>4, <2>1, <2>2 DEF MallocScratch, MallocDone, OpHas, InFlight, OpTypes
      <3>3. \A p \in Pointers : \A o \in Objects : StructHas(p, o)' <=> StructHas(p, o)
        BY <1>5, <2>4 DEF MallocScratch, MallocDone, StructHas
      <3>4. \A u \in Threads : \A o \in Objects : HandHas(u, o)' <=> HandHas(u, o)
        BY <1>5, <2>4 DEF MallocScratch, MallocDone, HandHas, OpTypes
      <3>5. \A o \in Objects : o \in Live' <=> o \in Live
        BY <1>5, <2>4 DEF MallocScratch, MallocDone, Live
      <3>6. QED
        BY <3>1, <3>2, <3>3, <3>4, <3>5, <2>2 DEF Apart, Covered
    <2>5. QED
      BY <1>5, <2>3, <2>4, ObjectFacts DEF MallocScratch, Backends
  <1>6. ASSUME NEW t \in Threads, MallocPublish(t) PROVE Apart' /\ Covered'
    <2>1. PICK n \in Objects : n = Unsandboxed(ptr[t])
      BY <1>6, OpFacts DEF MallocPublish, Mallocs
    <2>2. /\ OpHas(t, n) /\ \A u \in Threads : OpHas(u, n) => u = t
          /\ \A o \in Objects : OpHas(t, o) => o = n
      BY <1>6, <2>1 DEF MallocPublish, OpHas, InFlight, Apart
    <2>3. /\ scratch[t] # None /\ ptr[t] \in Pointers /\ scratchOf[ptr[t]] = None
          /\ scratchOf' = [scratchOf EXCEPT ![ptr[t]] = scratch[t]] /\ scratch' = [scratch EXCEPT ![t] = None]
      BY <1>6, <2>1, <2>2, OpFacts DEF MallocPublish, OpsOK, StructsOK, Mallocs, Apart, OpHas, AppHas, InFlight
    <2>4. \A o \in Objects : AppHas(o)' <=> AppHas(o) \/ o = n
      BY <1>6, <2>1, <2>2, <2>3 DEF MallocPublish, MallocDone, AppHas
    <2>5. \A u \in Threads : \A o \in Objects : OpHas(u, o)' <=> OpHas(u, o) /\ u # t
      BY <1>6, <2>1, <2>2, <2>3 DEF MallocPublish, MallocDone, OpHas, InFlight, OpTypes
    <2>6. \A p \in Pointers : \A o \in Objects : StructHas(p, o)' <=> StructHas(p, o) \/ (p = ptr[t] /\ HandHas(t, o))
      BY <1>6, <2>1, <2>2, <2>3 DEF MallocPublish, MallocDone, StructHas, HandHas, HeapTypes
    <2>7. \A u \in Threads : \A o \in Objects : HandHas(u, o)' <=> HandHas(u, o) /\ u # t
      BY <1>6, <2>1, <2>2, <2>3 DEF MallocPublish, MallocDone, HandHas, OpTypes
    <2>8. \A o \in Objects : o \in Live' <=> o \in Live
      BY <1>6 DEF MallocPublish, MallocDone, Live
    <2>9. QED
      BY <2>4, <2>5, <2>6, <2>7, <2>8, <2>2, <2>3 DEF Apart, Covered
  <1>7. ASSUME NEW t \in Threads, FreeOwner(t) PROVE Apart' /\ Covered'
    <2>1. PICK n \in held \cup made :
            /\ ~InUse(n, Threads) /\ held' = held \ {n} /\ made' = made \ {n}
            /\ ptr' = [ptr EXCEPT ![t] = KeyOf(n)]
      BY <1>7, FreesKey
    <2>2. n \in Objects /\ Unsandboxed(ptr'[t]) = n
      BY <2>1, KeyFacts DEF AppTypes, OpTypes
    <2>3. \A u \in Threads : pc[u] = "record" => Unsandboxed(ptr[u]) # n \/ Unsandboxed(ptr[u]) \notin held \cup made
      BY <2>1 DEF ArgsOK, InUse
    <2>4. AppHas(n)
      BY <2>1 DEF AppHas
    <2>5. \A o \in Objects : AppHas(o)' <=> AppHas(o) /\ o # n
      BY <1>7, <2>1, <2>2, <2>3, <2>4 DEF FreeOwner, AppHas
    <2>6. \A u \in Threads : \A o \in Objects : OpHas(u, o)' <=> OpHas(u, o) \/ (u = t /\ o = n)
      BY <1>7, <2>1, <2>2, <2>3, <2>4 DEF FreeOwner, OpHas, InFlight, OpTypes
    <2>7. \A p \in Pointers : \A o \in Objects : StructHas(p, o)' <=> StructHas(p, o)
      BY <1>7 DEF FreeOwner, StructHas
    <2>8. \A u \in Threads : \A o \in Objects : HandHas(u, o)' <=> HandHas(u, o)
      BY <1>7 DEF FreeOwner, HandHas, OpTypes
    <2>9. \A o \in Objects : o \in Live' <=> o \in Live
      BY <1>7 DEF FreeOwner, Live
    <2>10. QED
      BY <2>5, <2>6, <2>7, <2>8, <2>9, <2>4 DEF Apart, Covered
  <1>8. ASSUME NEW t \in Threads, FreeStruct(t) PROVE Apart' /\ Covered'
    <2>1. ptr[t] \in Pointers /\ scratch[t] = None
      BY <1>8, OpFacts DEF FreeStruct, Frees, OpsOK
    <2>2. scratch' = [scratch EXCEPT ![t] = scratchOf[ptr[t]]] /\ scratchOf' = [scratchOf EXCEPT ![ptr[t]] = None]
      BY <1>8 DEF FreeStruct
    <2>3. \A o \in Objects : AppHas(o)' <=> AppHas(o)
      BY <1>8 DEF FreeStruct, AppHas
    <2>4. \A u \in Threads : \A o \in Objects : OpHas(u, o)' <=> OpHas(u, o)
      BY <1>8 DEF FreeStruct, OpHas, InFlight, OpTypes
    <2>5. \A p \in Pointers : \A o \in Objects : StructHas(p, o)' <=> StructHas(p, o) /\ p # ptr[t]
      BY <1>8, <2>1, <2>2 DEF FreeStruct, StructHas, HeapTypes
    <2>6. \A u \in Threads : \A o \in Objects : HandHas(u, o)' <=> HandHas(u, o) \/ (u = t /\ StructHas(ptr[t], o))
      BY <1>8, <2>1, <2>2 DEF FreeStruct, HandHas, OpTypes, StructHas
    <2>7. \A o \in Objects : o \in Live' <=> o \in Live
      BY <1>8 DEF FreeStruct, Live
    <2>8. QED
      BY <2>3, <2>4, <2>5, <2>6, <2>7, <2>1 DEF Apart, Covered
  <1>9. ASSUME NEW t \in Threads, FreeScratch(t) PROVE Apart' /\ Covered'
    <2>1. PICK n \in Objects : n = <<"wasm", scratch[t]>> /\ scratch[t] # None
      BY <1>9, ObjectFacts DEF FreeScratch, OpsOK, OpTypes
    <2>2. HandHas(t, n) /\ \A o \in Objects : HandHas(t, o) => o = n
      BY <2>1 DEF HandHas
    <2>3. \A o \in Objects : AppHas(o)' <=> AppHas(o)
      BY <1>9 DEF FreeScratch, AppHas
    <2>4. \A u \in Threads : \A o \in Objects : OpHas(u, o)' <=> OpHas(u, o)
      BY <1>9 DEF FreeScratch, OpHas, InFlight, OpTypes
    <2>5. \A p \in Pointers : \A o \in Objects : StructHas(p, o)' <=> StructHas(p, o)
      BY <1>9 DEF FreeScratch, StructHas
    <2>6. \A u \in Threads : \A o \in Objects : HandHas(u, o)' <=> HandHas(u, o) /\ u # t
      BY <1>9, <2>1, <2>2 DEF FreeScratch, HandHas, OpTypes
    <2>7. \A o \in Objects : o \in Live' <=> o \in Live /\ o # n
      BY <1>9, <2>1, <2>2, LiveFacts, KeyFacts DEF FreeScratch, Live, HeapTypes, Backends
    <2>8. QED
      BY <2>3, <2>4, <2>5, <2>6, <2>7, <2>2 DEF Apart, Covered
  <1>10. ASSUME NEW t \in Threads, FreeBackend(t) PROVE Apart' /\ Covered'
    <2>1. PICK n \in Objects : n = Unsandboxed(ptr[t]) /\ n[1] = choice[t] /\ n[2] = TagStrip(ptr[t])[2]
      BY <1>10, OpFacts DEF FreeBackend, Frees
    <2>2. OpHas(t, n) /\ \A o \in Objects : OpHas(t, o) => o = n
      BY <1>10, <2>1 DEF FreeBackend, OpHas, InFlight
    <2>3. \A o \in Objects : AppHas(o)' <=> AppHas(o)
      BY <1>10 DEF FreeBackend, Forget, AppHas
    <2>4. \A u \in Threads : \A o \in Objects : OpHas(u, o)' <=> OpHas(u, o) /\ u # t
      BY <1>10, <2>1, <2>2 DEF FreeBackend, Forget, OpHas, InFlight, OpTypes
    <2>5. \A p \in Pointers : \A o \in Objects : StructHas(p, o)' <=> StructHas(p, o)
      BY <1>10 DEF FreeBackend, Forget, StructHas
    <2>6. \A u \in Threads : \A o \in Objects : HandHas(u, o)' <=> HandHas(u, o)
      BY <1>10 DEF FreeBackend, Forget, HandHas, OpTypes
    <2>7. \A o \in Objects : o \in Live' <=> o \in Live /\ o # n
      BY <1>10, <2>1, <2>2, LiveFacts, KeyFacts DEF FreeBackend, Forget, Live, HeapTypes, OpTypes
    <2>8. QED
      BY <2>3, <2>4, <2>5, <2>6, <2>7, <2>2 DEF Apart, Covered
  <1>11. ASSUME NEW t \in Threads, InvokePick(t) PROVE Apart' /\ Covered'
    <2>1. \A o \in Objects : AppHas(o)' <=> AppHas(o)
      BY <1>11 DEF InvokePick, AppHas
    <2>2. \A u \in Threads : \A o \in Objects : OpHas(u, o)' <=> OpHas(u, o)
      BY <1>11 DEF InvokePick, OpHas, InFlight, OpTypes
    <2>3. \A p \in Pointers : \A o \in Objects : StructHas(p, o)' <=> StructHas(p, o)
      BY <1>11 DEF InvokePick, StructHas
    <2>4. \A u \in Threads : \A o \in Objects : HandHas(u, o)' <=> HandHas(u, o)
      BY <1>11 DEF InvokePick, HandHas, OpTypes
    <2>5. \A o \in Objects : o \in Live' <=> o \in Live
      BY <1>11 DEF InvokePick, Live
    <2>6. QED
      BY ONLY Apart, Covered, <2>1, <2>2, <2>3, <2>4, <2>5, ClaimsSame
  <1>12. ASSUME NEW t \in Threads, InvokeInspect(t) PROVE Apart' /\ Covered'
    <2>1. \A o \in Objects : AppHas(o)' <=> AppHas(o)
      BY <1>12 DEF InvokeInspect, AppHas
    <2>2. \A u \in Threads : \A o \in Objects : OpHas(u, o)' <=> OpHas(u, o)
      BY <1>12 DEF InvokeInspect, OpHas, InFlight, OpTypes
    <2>3. \A p \in Pointers : \A o \in Objects : StructHas(p, o)' <=> StructHas(p, o)
      BY <1>12 DEF InvokeInspect, StructHas
    <2>4. \A u \in Threads : \A o \in Objects : HandHas(u, o)' <=> HandHas(u, o)
      BY <1>12 DEF InvokeInspect, HandHas, OpTypes
    <2>5. \A o \in Objects : o \in Live' <=> o \in Live
      BY <1>12 DEF InvokeInspect, Live
    <2>6. QED
      BY ONLY Apart, Covered, <2>1, <2>2, <2>3, <2>4, <2>5, ClaimsSame
  <1>13. ASSUME NEW t \in Threads, InvokeDispatch(t) PROVE Apart' /\ Covered'
    <2>1. \A o \in Objects : AppHas(o)' <=> AppHas(o)
      BY <1>13 DEF InvokeDispatch, AppHas
    <2>2. \A u \in Threads : \A o \in Objects : OpHas(u, o)' <=> OpHas(u, o)
      BY <1>13 DEF InvokeDispatch, OpHas, InFlight, OpTypes
    <2>3. \A p \in Pointers : \A o \in Objects : StructHas(p, o)' <=> StructHas(p, o)
      BY <1>13 DEF InvokeDispatch, StructHas
    <2>4. \A u \in Threads : \A o \in Objects : HandHas(u, o)' <=> HandHas(u, o)
      BY <1>13 DEF InvokeDispatch, HandHas, OpTypes
    <2>5. \A o \in Objects : o \in Live' <=> o \in Live
      BY <1>13 DEF InvokeDispatch, Live
    <2>6. QED
      BY ONLY Apart, Covered, <2>1, <2>2, <2>3, <2>4, <2>5, ClaimsSame
  <1>14. ASSUME NEW t \in Threads, InvokeTranslate(t) PROVE Apart' /\ Covered'
    <2>1. \A o \in Objects : AppHas(o)' <=> AppHas(o)
      BY <1>14 DEF InvokeTranslate, AppHas
    <2>2. \A u \in Threads : \A o \in Objects : OpHas(u, o)' <=> OpHas(u, o)
      BY <1>14 DEF InvokeTranslate, OpHas, InFlight, OpTypes
    <2>3. \A p \in Pointers : \A o \in Objects : StructHas(p, o)' <=> StructHas(p, o)
      BY <1>14 DEF InvokeTranslate, StructHas
    <2>4. \A u \in Threads : \A o \in Objects : HandHas(u, o)' <=> HandHas(u, o)
      BY <1>14 DEF InvokeTranslate, HandHas, OpTypes
    <2>5. \A o \in Objects : o \in Live' <=> o \in Live
      BY <1>14 DEF InvokeTranslate, Live
    <2>6. QED
      BY ONLY Apart, Covered, <2>1, <2>2, <2>3, <2>4, <2>5, ClaimsSame
  <1>15. ASSUME NEW t \in Threads, RunPlain(t) PROVE Apart' /\ Covered'
    <2>1. \A o \in Objects : AppHas(o)' <=> AppHas(o)
      BY <1>15 DEF RunPlain, InvokeDone, Forget, AppHas
    <2>2. \A u \in Threads : \A o \in Objects : OpHas(u, o)' <=> OpHas(u, o)
      BY <1>15 DEF RunPlain, InvokeDone, Forget, OpHas, InFlight, OpTypes
    <2>3. \A p \in Pointers : \A o \in Objects : StructHas(p, o)' <=> StructHas(p, o)
      BY <1>15 DEF RunPlain, InvokeDone, Forget, StructHas
    <2>4. \A u \in Threads : \A o \in Objects : HandHas(u, o)' <=> HandHas(u, o)
      BY <1>15 DEF RunPlain, InvokeDone, Forget, HandHas, OpTypes
    <2>5. \A o \in Objects : o \in Live' <=> o \in Live
      BY <1>15 DEF RunPlain, InvokeDone, Forget, Live
    <2>6. QED
      BY ONLY Apart, Covered, <2>1, <2>2, <2>3, <2>4, <2>5, ClaimsSame
  <1>16. ASSUME NEW t \in Threads, RunDestroys(t) PROVE Apart' /\ Covered'
    <2>1. PICK n \in made : /\ ~InUse(n, Threads \ {t}) /\ made' = made \ {n}
                             /\ mem' = [mem EXCEPT ![n[1]] = @ \ {n[2]}]
      BY <1>16 DEF RunDestroys
    <2>2. n \in Objects /\ n \notin held /\ AppHas(n)
      BY <2>1 DEF AppTypes, StructsOK, AppHas
    <2>3. \A u \in Threads \ {t} : pc[u] = "record" => Unsandboxed(ptr[u]) # n \/ Unsandboxed(ptr[u]) \notin held \cup made
      BY <2>1 DEF ArgsOK, InUse
    <2>4. \A o \in Objects : AppHas(o)' <=> AppHas(o) /\ o # n
      BY <1>16, <2>1, <2>2, <2>3 DEF RunDestroys, InvokeDone, Forget, AppHas
    <2>5. \A u \in Threads : \A o \in Objects : OpHas(u, o)' <=> OpHas(u, o)
      BY <1>16, <2>1, <2>2, <2>3 DEF RunDestroys, InvokeDone, Forget, OpHas, InFlight, OpTypes
    <2>6. \A p \in Pointers : \A o \in Objects : StructHas(p, o)' <=> StructHas(p, o)
      BY <1>16 DEF RunDestroys, InvokeDone, Forget, StructHas
    <2>7. \A u \in Threads : \A o \in Objects : HandHas(u, o)' <=> HandHas(u, o)
      BY <1>16 DEF RunDestroys, InvokeDone, Forget, HandHas, OpTypes
    <2>8. \A o \in Objects : o \in Live' <=> o \in Live /\ o # n
      BY <1>16, <2>1, <2>2, <2>3, LiveFacts, KeyFacts DEF RunDestroys, InvokeDone, Forget, Live, HeapTypes
    <2>9. QED
      BY <2>4, <2>5, <2>6, <2>7, <2>8, <2>2 DEF Apart, Covered
  <1>17. ASSUME NEW t \in Threads, RunMakes(t) PROVE Apart' /\ Covered'
    <2>1. PICK x \in Free(choice[t]) :
            /\ mem' = [mem EXCEPT ![choice[t]] = @ \cup {x}]
            /\ ptr' = [ptr EXCEPT ![t] = KeyOf(<<choice[t], x>>)]
      BY <1>17 DEF RunMakes
    <2>2. PICK n \in Objects : n = <<choice[t], x>> /\ n \notin Live
      BY FreeFacts DEF OpTypes
    <2>3. n \notin held \cup made /\ Unsandboxed(ptr'[t]) = n
      BY <2>1, <2>2, KeyFacts DEF Covered, AppHas, OpTypes
    <2>4. \A o \in Objects : AppHas(o)' <=> AppHas(o)
      BY <1>17 DEF RunMakes, AppHas
    <2>5. \A u \in Threads : \A o \in Objects : OpHas(u, o)' <=> OpHas(u, o) \/ (u = t /\ o = n)
      BY <1>17, <2>1, <2>2, <2>3 DEF RunMakes, OpHas, InFlight, OpTypes
    <2>6. \A p \in Pointers : \A o \in Objects : StructHas(p, o)' <=> StructHas(p, o)
      BY <1>17 DEF RunMakes, StructHas
    <2>7. \A u \in Threads : \A o \in Objects : HandHas(u, o)' <=> HandHas(u, o)
      BY <1>17 DEF RunMakes, HandHas, OpTypes
    <2>8. \A o \in Objects : o \in Live' <=> o \in Live \/ o = n
      BY <1>17, <2>1, <2>2, <2>3, LiveFacts, KeyFacts DEF RunMakes, Live, HeapTypes
    <2>9. QED
      BY <2>4, <2>5, <2>6, <2>7, <2>8, <2>2 DEF Apart, Covered
  <1>18. ASSUME NEW t \in Threads, RunReturnsArg(t) PROVE Apart' /\ Covered'
    <2>1. PICK a \in args[t] : ptr' = [ptr EXCEPT ![t] = KeyOf(a.obj)]
      BY <1>18 DEF RunReturnsArg
    <2>2. a.obj \in Objects /\ a.obj \in held \cup made
      BY DEF CallTypes, Args, ArgsOK
    <2>3. Unsandboxed(ptr'[t]) \in held \cup made
      BY <2>1, <2>2, KeyFacts DEF OpTypes
    <2>4. \A o \in Objects : AppHas(o)' <=> AppHas(o)
      BY <1>18 DEF RunReturnsArg, AppHas
    <2>5. \A u \in Threads : \A o \in Objects : OpHas(u, o)' <=> OpHas(u, o)
      BY <1>18, <2>1, <2>2, <2>3 DEF RunReturnsArg, OpHas, InFlight, OpTypes
    <2>6. \A p \in Pointers : \A o \in Objects : StructHas(p, o)' <=> StructHas(p, o)
      BY <1>18 DEF RunReturnsArg, StructHas
    <2>7. \A u \in Threads : \A o \in Objects : HandHas(u, o)' <=> HandHas(u, o)
      BY <1>18 DEF RunReturnsArg, HandHas, OpTypes
    <2>8. \A o \in Objects : o \in Live' <=> o \in Live
      BY <1>18 DEF RunReturnsArg, Live
    <2>9. QED
      BY <2>4, <2>5, <2>6, <2>7, <2>8 DEF Apart, Covered
  <1>19. ASSUME NEW t \in Threads, InvokeRecord(t) PROVE Apart' /\ Covered'
    <2>1. PICK n \in Objects : n = Unsandboxed(ptr[t])
      BY <1>19, OpFacts DEF InvokeRecord
    <2>2. held' = held /\ made' = made \cup ({n} \ held)
      BY <1>19, <2>1 DEF InvokeRecord
    <2>3. \A o \in Objects : OpHas(t, o) <=> o = n /\ ~AppHas(n)
      BY <1>19, <2>1 DEF InvokeRecord, OpHas, AppHas, InFlight
    <2>4. \A u \in Threads : OpHas(u, n) => u = t \/ AppHas(n)
      BY <2>3 DEF Apart
    <2>5. AppHas(n) <=> n \in held \cup made
      BY DEF AppHas
    <2>6. \A o \in Objects : AppHas(o)' <=> AppHas(o) \/ o = n
      BY <1>19, <2>1, <2>2, <2>3, <2>4, <2>5 DEF InvokeRecord, InvokeDone, Forget, AppHas
    <2>7. \A u \in Threads : \A o \in Objects : OpHas(u, o)' <=> OpHas(u, o) /\ u # t
      BY <1>19, <2>1, <2>2, <2>3, <2>4, <2>5 DEF InvokeRecord, InvokeDone, Forget, OpHas, InFlight, OpTypes, AppHas, Apart
    <2>8. \A p \in Pointers : \A o \in Objects : StructHas(p, o)' <=> StructHas(p, o)
      BY <1>19 DEF InvokeRecord, InvokeDone, Forget, StructHas
    <2>9. \A u \in Threads : \A o \in Objects : HandHas(u, o)' <=> HandHas(u, o)
      BY <1>19 DEF InvokeRecord, InvokeDone, Forget, HandHas, OpTypes
    <2>10. \A o \in Objects : o \in Live' <=> o \in Live
      BY <1>19 DEF InvokeRecord, InvokeDone, Forget, Live
    <2>11. QED
      BY <2>6, <2>7, <2>8, <2>9, <2>10, <2>1, <2>3 DEF Apart, Covered
  <1>20. CASE UNCHANGED vars
    <2>1. \A o \in Objects : AppHas(o)' <=> AppHas(o)
      BY <1>20 DEF vars, AppHas
    <2>2. \A u \in Threads : \A o \in Objects : OpHas(u, o)' <=> OpHas(u, o)
      BY <1>20 DEF vars, OpHas, InFlight, OpTypes
    <2>3. \A p \in Pointers : \A o \in Objects : StructHas(p, o)' <=> StructHas(p, o)
      BY <1>20 DEF vars, StructHas
    <2>4. \A u \in Threads : \A o \in Objects : HandHas(u, o)' <=> HandHas(u, o)
      BY <1>20 DEF vars, HandHas, OpTypes
    <2>5. \A o \in Objects : o \in Live' <=> o \in Live
      BY <1>20 DEF vars, Live
    <2>6. QED
      BY ONLY Apart, Covered, <2>1, <2>2, <2>3, <2>4, <2>5, ClaimsSame
  <1>21. QED
    BY <1>1, <1>2, <1>3, <1>4, <1>5, <1>6, <1>7, <1>8, <1>9, <1>10, <1>11, <1>12, <1>13,
       <1>14, <1>15, <1>16, <1>17, <1>18, <1>19, <1>20
    DEF Next, Malloc, FreeStep, Invoke

-----------------------------------------------------------------------------
(* The four parts are the type invariant.                                  *)
LEMMA TypeParts == TypeOK <=> HeapTypes /\ AppTypes /\ OpTypes /\ CallTypes
  BY DEF TypeOK, HeapTypes, AppTypes, OpTypes, CallTypes

\* All is empty at first.
LEMMA InitIInv == Init => IInv
  <1> SUFFICES ASSUME Init PROVE IInv
    OBVIOUS
  <1> USE DEF Init
  <1>1. HeapTypes /\ AppTypes /\ OpTypes /\ CallTypes
    BY DEF HeapTypes, AppTypes, OpTypes, CallTypes, Backends
  <1>2. KeysOK /\ OpsOK /\ EntriesOK /\ StructsOK /\ ArgsOK /\ CallsOK
    BY DEF KeysOK, OpsOK, EntriesOK, StructsOK, ArgsOK, CallsOK, Mallocs, Frees
  <1>3. \A o \in Objects : ~AppHas(o) /\ o \notin Live
    BY LiveFacts, KeyFacts DEF AppHas
  <1>4. \A t \in Threads : ~InFlight(t) /\ scratch[t] = None
    BY DEF InFlight
  <1>5. \A p \in Pointers : scratchOf[p] = None
    OBVIOUS
  <1>6. Apart /\ Covered
    BY <1>3, <1>4, <1>5 DEF Apart, Covered, OpHas, StructHas, HandHas
  <1>7. QED
    BY <1>1, <1>2, <1>6 DEF IInv

\* However operations, calls and frees of the threads interleave, each block
\* has one that answers for it and the registries agree with that.
THEOREM Invariance == Spec => []IInv
  <1>1. IInv /\ [Next]_vars => IInv'
    BY HeapTypesStep, AppTypesStep, OpTypesStep, CallTypesStep, KeysStep, OpsStep,
       EntriesStep, StructsStep, ArgsStep, CallsStep, ClaimsStep DEF IInv
  <1>2. QED
    BY InitIInv, <1>1, PTL DEF Spec

\* For what the application holds owner_of names the right backend, tagged
\* or not, for any heaps and threads.
THEOREM OwnersKnown == Spec => []OwnerKnown
  <1>1. IInv => OwnerKnown
    <2> SUFFICES ASSUME IInv, NEW o \in held \cup made, NEW p \in Forms(o) PROVE OwnerOf(p) = o[1]
      BY TypeParts DEF IInv, OwnerKnown
    <2>1. o \in Objects /\ owner[KeyOf(o)] = o[1]
      BY DEF IInv, AppTypes, EntriesOK
    <2>2. QED
      BY <2>1, EntryFacts DEF IInv
  <1>2. QED
    BY <1>1, Invariance, PTL

\* Where arguments are base pointers, impl_invoke_with_func_ptr runs a call
\* on the backend of all its arguments.
THEOREM CallsRunOnOwner ==
  ASSUME ~Interior
  PROVE  Spec => []RunsOnOwner
  <1>1. IInv => RunsOnOwner
    BY DEF IInv, CallsOK, RunsOnOwner
  <1>2. QED
    BY <1>1, Invariance, PTL

\* A scratch block is that of an allocation that lives (struct_allocs).
THEOREM ScratchHasItsStruct == Spec => []ScratchHasStruct
  <1>1. IInv => ScratchHasStruct
    BY DEF IInv, StructsOK, ScratchHasStruct
  <1>2. QED
    BY <1>1, Invariance, PTL

-----------------------------------------------------------------------------
(* From the four kinds of claims to the set of them.                       *)

\* What a claim is.
LEMMA ClaimKinds ==
  ASSUME IInv, NEW c \in Claims
  PROVE  /\ c[3] \in Objects
         /\ \/ c = <<"app", c[3], c[3]>> /\ AppHas(c[3])
            \/ \E t \in Threads : c = <<"op", t, c[3]>> /\ OpHas(t, c[3])
            \/ \E p \in Pointers : c = <<"struct", p, c[3]>> /\ StructHas(p, c[3])
            \/ \E t \in Threads : c = <<"hand", t, c[3]>> /\ HandHas(t, c[3])
  <1>1. CASE \E o \in held \cup made : c = <<"app", o, o>>
    BY <1>1 DEF IInv, AppTypes, AppHas
  <1>2. CASE \E t \in Threads : InFlight(t) /\ c = <<"op", t, Unsandboxed(ptr[t])>>
    BY <1>2, OpFacts DEF IInv, InFlight, OpHas, Mallocs, Frees
  <1>3. CASE \E p \in Pointers : scratchOf[p] # None /\ c = <<"struct", p, <<"wasm", scratchOf[p]>>>>
    BY <1>3, ObjectFacts DEF IInv, HeapTypes, StructHas
  <1>4. CASE \E t \in Threads : scratch[t] # None /\ c = <<"hand", t, <<"wasm", scratch[t]>>>>
    BY <1>4, ObjectFacts DEF IInv, OpTypes, HandHas
  <1>5. QED
    BY <1>1, <1>2, <1>3, <1>4 DEF Claims

\* And what has one.
LEMMA ClaimsOf ==
  /\ \A o : AppHas(o) => <<"app", o, o>> \in Claims
  /\ \A t \in Threads : \A o : OpHas(t, o) => <<"op", t, o>> \in Claims
  /\ \A p \in Pointers : \A o : StructHas(p, o) => <<"struct", p, o>> \in Claims
  /\ \A t \in Threads : \A o : HandHas(t, o) => <<"hand", t, o>> \in Claims
  BY DEF Claims, AppHas, OpHas, StructHas, HandHas

\* Each live block has exactly one that answers for it, however the threads
\* allocate, free, register structs and call.
THEOREM BlocksHaveOwners == Spec => []BlocksOwned
  <1>1. IInv => BlocksOwned
    <2> SUFFICES ASSUME IInv PROVE BlocksOwned
      OBVIOUS
    <2>1. ASSUME NEW c \in Claims, NEW d \in Claims, c[3] = d[3] PROVE c = d
      <3> DEFINE o == c[3]
      <3>1. o \in Objects
        BY ClaimKinds
      <3> HIDE DEF o
      <3>2. \/ c = <<"app", o, o>> /\ AppHas(o)
            \/ \E t \in Threads : c = <<"op", t, o>> /\ OpHas(t, o)
            \/ \E p \in Pointers : c = <<"struct", p, o>> /\ StructHas(p, o)
            \/ \E t \in Threads : c = <<"hand", t, o>> /\ HandHas(t, o)
        BY ClaimKinds DEF o
      <3>3. \/ d = <<"app", o, o>> /\ AppHas(o)
            \/ \E t \in Threads : d = <<"op", t, o>> /\ OpHas(t, o)
            \/ \E p \in Pointers : d = <<"struct", p, o>> /\ StructHas(p, o)
            \/ \E t \in Threads : d = <<"hand", t, o>> /\ HandHas(t, o)
        BY <2>1, ClaimKinds DEF o
      <3>4. QED
        BY <3>1, <3>2, <3>3 DEF IInv, Apart
    <2>2. \A o \in Objects : o \in Live => \E c \in Claims : c[3] = o
      <3> SUFFICES ASSUME NEW o \in Objects, o \in Live PROVE \E c \in Claims : c[3] = o
        OBVIOUS
      <3>1. \/ AppHas(o) \/ \E t \in Threads : OpHas(t, o)
            \/ (\E p \in Pointers : StructHas(p, o))
            \/ (\E t \in Threads : HandHas(t, o))
        BY DEF IInv, Covered
      <3>2. \A k, x : <<k, x, o>> \in Claims => \E c \in Claims : c[3] = o
        OBVIOUS
      <3>3. ASSUME AppHas(o) PROVE \E c \in Claims : c[3] = o
        BY <3>2, <3>3, ClaimsOf
      <3>4. ASSUME NEW t \in Threads, OpHas(t, o) \/ HandHas(t, o) PROVE \E c \in Claims : c[3] = o
        BY <3>2, <3>4, ClaimsOf
      <3>5. ASSUME NEW p \in Pointers, StructHas(p, o) PROVE \E c \in Claims : c[3] = o
        BY <3>2, <3>5, ClaimsOf
      <3>6. QED
        BY <3>1, <3>3, <3>4, <3>5
    <2>3. \A c \in Claims : c[3] \in Live
      BY ClaimKinds DEF IInv, Covered
    <2>4. Live \subseteq Objects
      BY DEF IInv, HeapTypes, Live, Objects
    <2>5. QED
      BY <2>1, <2>2, <2>3, <2>4 DEF BlocksOwned
  <1>2. QED
    BY <1>1, Invariance, PTL

-----------------------------------------------------------------------------
(* The meta sandbox is one heap.                                           *)

Calling(t) == pc[t] \in {"translate", "run", "record"}

\* The calls as UnifiedHeap sees them.
Call == [t \in Threads |->
           IF pc[t] \in {"translate", "run", "record"}
             THEN [on |-> choice[t], uses |-> {a.obj : a \in args[t]}]
             ELSE None]

\* A call that is there, and what it uses.
LEMMA CallFacts ==
  ASSUME OpTypes, CallTypes, NEW t \in Threads
  PROVE  /\ Calling(t) => /\ Call[t] # None /\ Call[t].on = choice[t]
                          /\ \A o : o \in Call[t].uses <=> \E a \in args[t] : a.obj = o
         /\ ~Calling(t) => Call[t] = None
  <1>1. {a.obj : a \in args[t]} \subseteq Objects
    BY DEF CallTypes, Args
  <1>2. [on |-> choice[t], uses |-> {a.obj : a \in args[t]}] \in [on : Backends, uses : SUBSET Objects]
    BY <1>1 DEF OpTypes
  <1>3. [on |-> choice[t], uses |-> {a.obj : a \in args[t]}] # None
    BY <1>2, MetaAssumption
  <1>4. QED
    BY <1>3 DEF Calling, Call

\* When the calls stay,
LEMMA CallStays ==
  ASSUME \A u \in Threads : Calling(u)' <=> Calling(u),
         \A u \in Threads : Calling(u) => choice'[u] = choice[u] /\ args'[u] = args[u]
  PROVE  Call' = Call
  BY DEF Call, Calling

\* when one ends,
LEMMA CallEnds ==
  ASSUME NEW t \in Threads, ~Calling(t)',
         \A u \in Threads \ {t} : /\ Calling(u)' <=> Calling(u)
                                  /\ choice'[u] = choice[u] /\ args'[u] = args[u]
  PROVE  Call' = [Call EXCEPT ![t] = None]
  BY DEF Call, Calling

\* and what UnifiedHeap makes of it: nothing,
LEMMA Stutters ==
  ASSUME held' \cup made' = held \cup made, Call' = Call
  PROVE  [Heap!Next]_(Heap!vars)
  BY DEF Heap!vars, Call

\* a new object,
LEMMA Allocates ==
  ASSUME NEW n \in Objects, n \notin held \cup made,
         held' \cup made' = held \cup made \cup {n}, Call' = Call
  PROVE  [Heap!Next]_(Heap!vars)
  BY DEF Heap!Next, Heap!Allocate, Call

\* an object that goes,
LEMMA Releases ==
  ASSUME NEW n \in held \cup made, \A u \in Threads : Call[u] # None => n \notin Call[u].uses,
         held' \cup made' = (held \cup made) \ {n}, Call' = Call
  PROVE  [Heap!Next]_(Heap!vars)
  BY DEF Heap!Next, Heap!Release, Heap!UsedBy, Call

\* a call that begins,
LEMMA Enters ==
  ASSUME NEW t \in Threads, Call[t] = None, NEW b \in Backends, NEW U,
         \A o \in U : o \in held \cup made /\ o[1] = b,
         Call' = [Call EXCEPT ![t] = [on |-> b, uses |-> U]],
         held' \cup made' = held \cup made
  PROVE  [Heap!Next]_(Heap!vars)
  <1>1. U \in SUBSET {o \in held \cup made : o[1] = b}
    OBVIOUS
  <1>2. Heap!Enter(t)
    BY <1>1 DEF Heap!Enter, Call
  <1>3. QED
    BY <1>2 DEF Heap!Next

\* or one that ends.
LEMMA Leaves ==
  ASSUME NEW t \in Threads, Call[t] # None, Call' = [Call EXCEPT ![t] = None],
         \/ held' \cup made' = held \cup made
         \/ \E n \in Objects \ (held \cup made) :
              n[1] = Call[t].on /\ held' \cup made' = held \cup made \cup {n}
         \/ \E n \in held \cup made :
              /\ n \in Call[t].uses
              /\ \A u \in Threads \ {t} : Call[u] # None => n \notin Call[u].uses
              /\ held' \cup made' = (held \cup made) \ {n}
  PROVE  [Heap!Next]_(Heap!vars)
  <1>1. Heap!Leave(t)
    BY DEF Heap!Leave, Heap!UsedBy, Call
  <1>2. QED
    BY <1>1 DEF Heap!Next

\* Each step is one of UnifiedHeap's or shows nothing.
LEMMA HeapStep ==
  ASSUME ~Interior, HeapTypes, AppTypes, OpTypes, CallTypes, KeysOK, OpsOK, EntriesOK, StructsOK, ArgsOK, Apart, CallsOK', [Next]_vars
  PROVE  [Heap!Next]_(Heap!vars)
  <1> USE DEF At, Go, heapVars, appVars, callVars
  <1>1. CASE RegisterStruct
    <2>1. held' \cup made' = held \cup made
      BY <1>1 DEF RegisterStruct
    <2>2. Call' = Call
      BY <1>1, CallStays DEF RegisterStruct, Calling, OpTypes, CallTypes
    <2>3. QED
      BY <2>1, <2>2, Stutters
  <1>2. ASSUME NEW t \in Threads, MallocBackend(t) PROVE [Heap!Next]_(Heap!vars)
    <2>1. held' \cup made' = held \cup made
      BY <1>2 DEF MallocBackend
    <2>2. Call' = Call
      BY <1>2, CallStays DEF MallocBackend, Calling, OpTypes, CallTypes
    <2>3. QED
      BY <2>1, <2>2, Stutters
  <1>3. ASSUME NEW t \in Threads, MallocOwner(t) PROVE [Heap!Next]_(Heap!vars)
    <2>1. held' \cup made' = held \cup made
      BY <1>3 DEF MallocOwner
    <2>2. Call' = Call
      BY <1>3, CallStays DEF MallocOwner, Calling, OpTypes, CallTypes
    <2>3. QED
      BY <2>1, <2>2, Stutters
  <1>4. ASSUME NEW t \in Threads, MallocMatch(t) PROVE [Heap!Next]_(Heap!vars)
    <2>1. PICK n \in Objects : n = Unsandboxed(ptr[t])
      BY <1>4, OpFacts DEF MallocMatch, Mallocs
    <2>2. n \notin held \cup made
      BY <1>4, <2>1, OpFacts, OpAlone DEF MallocMatch, InFlight, Mallocs
    <2>3. Call' = Call
      BY <1>4, CallStays DEF MallocMatch, MallocDone, Forget, Calling, OpTypes, CallTypes
    <2>4. held' \cup made' = held \cup made \/ held' \cup made' = held \cup made \cup {n}
      BY <1>4, <2>1 DEF MallocMatch, MallocDone, Forget
    <2>5. QED
      BY <2>2, <2>3, <2>4, Stutters, Allocates
  <1>5. ASSUME NEW t \in Threads, MallocScratch(t) PROVE [Heap!Next]_(Heap!vars)
    <2>1. PICK n \in Objects : n = Unsandboxed(ptr[t])
      BY <1>5, OpFacts DEF MallocScratch, Mallocs
    <2>2. n \notin held \cup made
      BY <1>5, <2>1, OpFacts, OpAlone DEF MallocScratch, InFlight, Mallocs
    <2>3. Call' = Call
      BY <1>5, CallStays DEF MallocScratch, MallocDone, Forget, Calling, OpTypes, CallTypes
    <2>4. held' \cup made' = held \cup made \/ held' \cup made' = held \cup made \cup {n}
      BY <1>5, <2>1 DEF MallocScratch, MallocDone, Forget
    <2>5. QED
      BY <2>2, <2>3, <2>4, Stutters, Allocates
  <1>6. ASSUME NEW t \in Threads, MallocPublish(t) PROVE [Heap!Next]_(Heap!vars)
    <2>1. PICK n \in Objects : n = Unsandboxed(ptr[t])
      BY <1>6, OpFacts DEF MallocPublish, Mallocs
    <2>2. n \notin held \cup made
      BY <1>6, <2>1, OpFacts, OpAlone DEF MallocPublish, InFlight, Mallocs
    <2>3. Call' = Call
      BY <1>6, CallStays DEF MallocPublish, MallocDone, Forget, Calling, OpTypes, CallTypes
    <2>4. held' \cup made' = held \cup made \/ held' \cup made' = held \cup made \cup {n}
      BY <1>6, <2>1 DEF MallocPublish, MallocDone, Forget
    <2>5. QED
      BY <2>2, <2>3, <2>4, Stutters, Allocates
  <1>7. ASSUME NEW t \in Threads, FreeOwner(t) PROVE [Heap!Next]_(Heap!vars)
    <2>1. PICK n \in held \cup made : ~InUse(n, Threads) /\ held' = held \ {n} /\ made' = made \ {n}
      BY <1>7, FreesKey
    <2>2. Call' = Call
      BY <1>7, CallStays DEF FreeOwner, Calling, OpTypes, CallTypes
    <2>3. \A u \in Threads : Call[u] # None => n \notin Call[u].uses
      BY <2>1, CallFacts DEF InUse
    <2>4. held' \cup made' = (held \cup made) \ {n}
      BY <2>1
    <2>5. QED
      BY <2>1, <2>2, <2>3, <2>4, Releases
  <1>8. ASSUME NEW t \in Threads, FreeStruct(t) PROVE [Heap!Next]_(Heap!vars)
    <2>1. held' \cup made' = held \cup made
      BY <1>8 DEF FreeStruct
    <2>2. Call' = Call
      BY <1>8, CallStays DEF FreeStruct, Calling, OpTypes, CallTypes
    <2>3. QED
      BY <2>1, <2>2, Stutters
  <1>9. ASSUME NEW t \in Threads, FreeScratch(t) PROVE [Heap!Next]_(Heap!vars)
    <2>1. held' \cup made' = held \cup made
      BY <1>9 DEF FreeScratch
    <2>2. Call' = Call
      BY <1>9, CallStays DEF FreeScratch, Calling, OpTypes, CallTypes
    <2>3. QED
      BY <2>1, <2>2, Stutters
  <1>10. ASSUME NEW t \in Threads, FreeBackend(t) PROVE [Heap!Next]_(Heap!vars)
    <2>1. held' \cup made' = held \cup made
      BY <1>10 DEF FreeBackend, Forget
    <2>2. Call' = Call
      BY <1>10, CallStays DEF FreeBackend, Forget, Calling, OpTypes, CallTypes
    <2>3. QED
      BY <2>1, <2>2, Stutters
  <1>11. ASSUME NEW t \in Threads, InvokePick(t) PROVE [Heap!Next]_(Heap!vars)
    <2>1. held' \cup made' = held \cup made
      BY <1>11 DEF InvokePick, LegalArgs
    <2>2. Call' = Call
      BY <1>11, CallStays DEF InvokePick, LegalArgs, Calling, OpTypes, CallTypes
    <2>3. QED
      BY <2>1, <2>2, Stutters
  <1>12. ASSUME NEW t \in Threads, InvokeInspect(t) PROVE [Heap!Next]_(Heap!vars)
    <2>1. held' \cup made' = held \cup made
      BY <1>12 DEF InvokeInspect
    <2>2. Call' = Call
      BY <1>12, CallStays DEF InvokeInspect, Calling, OpTypes, CallTypes
    <2>3. QED
      BY <2>1, <2>2, Stutters
  <1>13. ASSUME NEW t \in Threads, InvokeDispatch(t) PROVE [Heap!Next]_(Heap!vars)
    <2>1. held' \cup made' = held \cup made /\ args' = args
      BY <1>13 DEF InvokeDispatch
    <2>2. CASE choice' = choice /\ pc' = pc
      BY <2>1, <2>2, CallStays, Stutters DEF Calling
    <2>3. CASE pc' = [pc EXCEPT ![t] = "translate"] /\ \E b \in Backends : choice' = [choice EXCEPT ![t] = b]
      <3>1. PICK b \in Backends : choice' = [choice EXCEPT ![t] = b]
        BY <2>3
      <3> DEFINE U == {a.obj : a \in args[t]}
      <3>2. ~Calling(t) /\ Calling(t)' /\ \A u \in Threads \ {t} : Calling(u)' <=> Calling(u)
        BY <1>13, <2>3 DEF InvokeDispatch, Calling, OpTypes
      <3>3. Call' = [Call EXCEPT ![t] = [on |-> b, uses |-> U]]
        BY <2>1, <3>1, <3>2 DEF Call, Calling, OpTypes
      <3>4. choice'[t] = b
        BY <3>1 DEF OpTypes
      <3>5. \A o \in U : o \in held \cup made /\ o[1] = b
        BY <2>1, <3>2, <3>4 DEF ArgsOK, CallsOK, Calling
      <3> HIDE DEF U
      <3>6. QED
        BY <2>1, <3>2, <3>3, <3>5, CallFacts, Enters
    <2>4. saw[t] # {} => (CHOOSE x \in saw[t] : TRUE) \in Backends
      BY DEF CallTypes
    <2>5. QED
      BY <1>13, <2>2, <2>3, <2>4 DEF InvokeDispatch, OpTypes
  <1>14. ASSUME NEW t \in Threads, InvokeTranslate(t) PROVE [Heap!Next]_(Heap!vars)
    <2>1. held' \cup made' = held \cup made
      BY <1>14 DEF InvokeTranslate
    <2>2. Call' = Call
      BY <1>14, CallStays DEF InvokeTranslate, Calling, OpTypes, CallTypes
    <2>3. QED
      BY <2>1, <2>2, Stutters
  <1>15. ASSUME NEW t \in Threads, RunPlain(t) PROVE [Heap!Next]_(Heap!vars)
    <2>1. Calling(t) /\ Call' = [Call EXCEPT ![t] = None]
      BY <1>15, CallEnds DEF RunPlain, InvokeDone, Forget, Calling, OpTypes, CallTypes
    <2>2. held' \cup made' = held \cup made
      BY <1>15 DEF RunPlain
    <2>3. QED
      BY <2>1, <2>2, CallFacts, Leaves
  <1>16. ASSUME NEW t \in Threads, RunDestroys(t) PROVE [Heap!Next]_(Heap!vars)
    <2>1. Calling(t) /\ Call' = [Call EXCEPT ![t] = None]
      BY <1>16, CallEnds DEF RunDestroys, InvokeDone, Forget, Calling, OpTypes, CallTypes
    <2>2. PICK n \in made : InUse(n, {t}) /\ ~InUse(n, Threads \ {t}) /\ made' = made \ {n}
      BY <1>16 DEF RunDestroys
    <2>3. n \in Call[t].uses /\ \A u \in Threads \ {t} : Call[u] # None => n \notin Call[u].uses
      BY <2>1, <2>2, CallFacts DEF InUse
    <2>4. held' \cup made' = (held \cup made) \ {n}
      BY <1>16, <2>2 DEF RunDestroys, StructsOK
    <2>5. QED
      BY <2>1, <2>2, <2>3, <2>4, CallFacts, Leaves
  <1>17. ASSUME NEW t \in Threads, RunMakes(t) PROVE [Heap!Next]_(Heap!vars)
    <2>1. held' \cup made' = held \cup made
      BY <1>17 DEF RunMakes
    <2>2. Call' = Call
      BY <1>17, CallStays DEF RunMakes, Calling, OpTypes, CallTypes
    <2>3. QED
      BY <2>1, <2>2, Stutters
  <1>18. ASSUME NEW t \in Threads, RunReturnsArg(t) PROVE [Heap!Next]_(Heap!vars)
    <2>1. held' \cup made' = held \cup made
      BY <1>18 DEF RunReturnsArg
    <2>2. Call' = Call
      BY <1>18, CallStays DEF RunReturnsArg, Calling, OpTypes, CallTypes
    <2>3. QED
      BY <2>1, <2>2, Stutters
  <1>19. ASSUME NEW t \in Threads, InvokeRecord(t) PROVE [Heap!Next]_(Heap!vars)
    <2>1. Calling(t) /\ Call' = [Call EXCEPT ![t] = None]
      BY <1>19, CallEnds DEF InvokeRecord, InvokeDone, Forget, Calling, OpTypes, CallTypes
    <2>2. PICK n \in Objects : n = Unsandboxed(ptr[t]) /\ n[1] = choice[t]
      BY <1>19, OpFacts DEF InvokeRecord
    <2>3. held' \cup made' = held \cup made \cup {n}
      BY <1>19, <2>2 DEF InvokeRecord
    <2>4. Call[t] # None /\ n[1] = Call[t].on
      BY <2>1, <2>2, CallFacts
    <2>5. CASE n \in held \cup made
      <3>1. held' \cup made' = held \cup made
        BY <2>3, <2>5
      <3>2. QED
        BY <2>1, <2>4, <3>1, Leaves
    <2>6. CASE n \notin held \cup made
      BY <2>1, <2>3, <2>4, <2>6, Leaves
    <2>7. QED
      BY <2>5, <2>6
  <1>20. CASE UNCHANGED vars
    <2>1. held' \cup made' = held \cup made
      BY <1>20 DEF vars
    <2>2. Call' = Call
      BY <1>20, CallStays DEF vars, Calling, OpTypes, CallTypes
    <2>3. QED
      BY <2>1, <2>2, Stutters
  <1>21. QED
    BY <1>1, <1>2, <1>3, <1>4, <1>5, <1>6, <1>7, <1>8, <1>9, <1>10, <1>11, <1>12, <1>13,
       <1>14, <1>15, <1>16, <1>17, <1>18, <1>19, <1>20
    DEF Next, Malloc, FreeStep, Invoke

-----------------------------------------------------------------------------
\* Where arguments are base pointers the meta sandbox implements
\* UnifiedHeap: an object stays on its backend and calls run where theirs are.
THEOREM OneHeap ==
  ASSUME ~Interior
  PROVE  Spec => HeapSpec
  <1>1. Init => Heap!Init
    BY DEF Init, Heap!Init
  <1>2. IInv /\ IInv' /\ [Next]_vars => [Heap!Next]_(Heap!vars)
    BY HeapStep DEF IInv
  <1>3. QED
    BY <1>1, <1>2, Invariance, PTL DEF Spec, HeapSpec, Heap!Spec
=============================================================================
