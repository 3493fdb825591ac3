-------------------------- MODULE CallbacksProofs --------------------------
(***************************************************************************)
(* The properties of Callbacks for any number of threads, callbacks, slots *)
(* and frames.  Layers, each with the help of those before it:             *)
(*   TypeOK, OpsOK   which operation is about which callback, and who has  *)
(*                   the mutex;                                            *)
(*   TablesOK        what each table has at each step of an operation;     *)
(*   FiringOK        a callback that was fired is still in its slot, since *)
(*                   the call that fired it has the mutex, until a child   *)
(*                   stops waiting;                                        *)
(*   FramesOK        what is on the stacks, and the thread locals.         *)
(***************************************************************************)
EXTENDS Callbacks, SequenceTheorems, WellFoundedInduction, TLAPS

Registering == {"regSlot", "regWasm", "regPublish"}
Unregistering == {"unregMap", "unregSlot", "unregWasm"}

\* A thread at a step of an operation has its callback, which is busy, for
\* itself; the caller has the mutex.
OpsOK ==
    /\ \A t \in Threads : opKey[t] # None <=> op[t] \in Registering \cup Unregistering
    /\ \A t \in Threads : opWasm[t] # None <=> op[t] = "regPublish"
    /\ \A t, u \in Threads : opKey[t] # None /\ opKey[t] = opKey[u] => t = u
    /\ \A k \in Keys : st[k] = "busy" <=> \E t \in Threads : opKey[t] = k
    /\ \A t \in Threads : op[t] = "call" <=> mutex = t
    /\ mutex = None <=> child = "none"

\* What the tables have of the callback that t registers or unregisters.
PartlyIn(t, k) ==
    /\ k \in map <=> op[t] \notin {"unregSlot", "unregWasm"}
    /\ op[t] \in {"regSlot", "unregWasm"} => ~Has(slots, k)
    /\ op[t] = "regSlot" => handle[k] = None
    /\ op[t] \in {"regWasm", "regPublish"} => handle[k] # None /\ slots[handle[k]] = k
    /\ op[t] \in {"regSlot", "regWasm"} => ~Has(wslots, k)
    /\ op[t] = "regPublish" => wslots[opWasm[t]] = k

\* So it is with each operation.
Underway == \A t \in Threads : opKey[t] # None => PartlyIn(t, opKey[t])

\* A callback has no slot but its handle, and no entry but there.
SlotsRight == \A i \in Slots : slots[i] # None => handle[slots[i]] = i

\* The registry has registered callbacks only, at their slots.
EntriesRight ==
    \A i \in Slots : registry[i] # None =>
        st[registry[i][2]] = "registered" /\ slots[i] = registry[i][2]

\* TablesAgree, and the dispatcher is there without a handle too.
RegisteredIn ==
    \A k \in Keys : st[k] = "registered" =>
        /\ k \in map
        /\ handle[k] # None =>
             /\ slots[handle[k]] = k /\ registry[handle[k]] # None
             /\ registry[handle[k]][2] = k /\ wslots[registry[handle[k]][1]] = k

NoneOut ==
    \A k \in Keys : st[k] = "none" =>
        handle[k] = None /\ k \notin map /\ ~Has(slots, k) /\ ~Has(wslots, k)

TablesOK == Underway /\ SlotsRight /\ EntriesRight /\ RegisteredIn /\ NoneOut

\* The callback that a child waits for is in its slot, and in one place: sent,
\* worked on or replied to.  It is so until a child stops waiting.
FiringOK ==
    /\ cb # "idle" => fired # None
    /\ orphans = 0 =>
         /\ child # "wait" => cb = "idle" /\ sent = <<>> /\ replies = 0
         /\ child = "wait" =>
              \/ cb = "idle" /\ replies = 0 /\ \E k \in Keys : sent = <<k>> /\ Has(slots, k)
              \/ cb # "idle" /\ replies = 0 /\ sent = <<>> /\ Has(slots, fired)
              \/ cb = "idle" /\ replies = 1 /\ sent = <<>>

\* A callback of the process is the lowest frame of the callback thread, and
\* nowhere else.
HandlerLowest ==
    /\ cb # "handler" => stack[Cb] = <<>>
    /\ cb = "handler" => stack[Cb] # <<>> /\ stack[Cb][1] = <<"pcb", fired>>
    /\ \A t \in Stacks : \A i \in 1 .. Len(stack[t]) :
         stack[t][i][1] = "pcb" => t = Cb /\ i = 1

\* There is a wasm call below frame n of stack s.
WasmBelow(s, n) == \E i \in 1 .. n - 1 : s[i][1] = "wasm"

\* tl_invoking_meta (m) is set exactly while a wasm call is under way, and each
\* wasm call will restore it so.
MetaRight(s, m) ==
    /\ m = TRUE <=> WasmBelow(s, Len(s) + 1)
    /\ \A i \in 1 .. Len(s) : s[i][1] = "wasm" => (s[i][2] = TRUE <=> WasmBelow(s, i))

MetaKnown == \A t \in Stacks : MetaRight(stack[t], tlMeta[t])

\* Who has just been entered is in the thread locals.
KeysKnown ==
    /\ \A t \in Threads : tlKey[t] = None
    /\ \A t \in Stacks : fresh[t] =>
         /\ stack[t] # <<>>
         /\ Top(t) = "pcb" => tlKey[t] = Last(stack[t])[2]
         /\ Top(t) = "wcb" => wKey[t] = Last(stack[t])[2] /\ WasmBelow(stack[t], Len(stack[t]))
         /\ Top(t) # "wasm"

FramesOK == HandlerLowest /\ MetaKnown /\ KeysKnown

IInv == TypeOK /\ OpsOK /\ TablesOK /\ FiringOK /\ FramesOK

-----------------------------------------------------------------------------
(* Sequences and tables.                                                   *)

\* The lowest index with a value is one.
LEMMA LeastOf ==
  ASSUME NEW T, T \subseteq Nat, T # {}
  PROVE  \E x \in T : \A y \in T : x <= y
  <1>1. PICK x \in T : \A y \in T : <<y, x>> \notin OpToRel(<, Nat)
    BY NatLessThanWellFounded, WFMin
  <1>2. \A y \in T : ~(y < x)
    BY <1>1 DEF OpToRel
  <1>3. QED
    BY <1>2

\* First finds an index with the value, if there is one.
LEMMA FirstIs ==
  ASSUME NEW n \in Nat, NEW f, DOMAIN f = 1 .. n, NEW v, Has(f, v)
  PROVE  First(f, v) \in 1 .. n /\ f[First(f, v)] = v
  <1> DEFINE T == {i \in 1 .. n : f[i] = v}
  <1>1. PICK i \in T : \A j \in T : i <= j
    <2>1. T \subseteq Nat /\ T # {}
      BY DEF Has
    <2> HIDE DEF T
    <2>2. QED
      BY <2>1, LeastOf
  <1>2. \E m \in DOMAIN f : f[m] = v /\ \A j \in 1 .. m - 1 : f[j] # v
    <2>1. i \in DOMAIN f /\ f[i] = v /\ i \in 1 .. n
      OBVIOUS
    <2>2. ASSUME NEW j \in 1 .. i - 1 PROVE f[j] # v
      <3>1. j \in 1 .. n /\ ~(i <= j)
        BY <2>1
      <3>2. QED
        BY <1>1, <3>1
    <2>3. QED
      BY <2>1, <2>2
  <1>3. QED
    BY <1>2 DEF First

\* A slot that is free or has a callback.
LEMMA FirstSlot ==
  ASSUME TypeOK, NEW v, Has(slots, v)
  PROVE  First(slots, v) \in Slots /\ slots[First(slots, v)] = v
  <1>1. DOMAIN slots = 1 .. NSlots /\ NSlots \in Nat
    BY CallbacksAssumption DEF TypeOK, Slots
  <1>2. QED
    BY <1>1, FirstIs DEF Slots

\* And so in the wasm table.
LEMMA FirstFree ==
  ASSUME TypeOK, NEW v, Has(wslots, v)
  PROVE  First(wslots, v) \in WSlots /\ wslots[First(wslots, v)] = v
  <1>1. DOMAIN wslots = 1 .. NWasm /\ NWasm \in Nat
    BY CallbacksAssumption DEF TypeOK, WSlots
  <1>2. QED
    BY <1>1, FirstIs DEF WSlots

\* The stacks are stacks of frames.
StacksOK == stack \in [Stacks -> Seq(Frames)]

\* What Front leaves of a sequence.
LEMMA FrontFacts ==
  ASSUME NEW S, NEW s \in Seq(S), s # <<>>
  PROVE  /\ Len(s) \in Nat \ {0} /\ Last(s) = s[Len(s)] /\ Last(s) \in S
         /\ Front(s) \in Seq(S) /\ Len(Front(s)) = Len(s) - 1
         /\ \A i \in 1 .. Len(s) - 1 : Front(s)[i] = s[i]
  <1>1. Len(s) \in Nat \ {0} /\ Last(s) = s[Len(s)] /\ Last(s) \in S
    BY DEF Last
  <1>2. \A i \in 1 .. Len(s) - 1 : s[i] \in S
    BY <1>1
  <1>3. /\ SubSeq(s, 1, Len(s) - 1) \in Seq(S)
        /\ Len(SubSeq(s, 1, Len(s) - 1)) = IF 1 <= Len(s) - 1 THEN Len(s) - 1 - 1 + 1 ELSE 0
        /\ \A i \in 1 .. Len(s) - 1 - 1 + 1 : SubSeq(s, 1, Len(s) - 1)[i] = s[1 + i - 1]
    BY <1>1, <1>2, SubSeqProperties
  <1>4. \A n \in Nat \ {0} :
          /\ n - 1 - 1 + 1 = n - 1
          /\ 1 <= n - 1 \/ n - 1 = 0
          /\ \A i \in 1 .. n - 1 : 1 + i - 1 = i
    OBVIOUS
  <1>5. Len(Front(s)) = Len(s) - 1
    BY <1>1, <1>3, <1>4 DEF Front
  <1>6. \A i \in 1 .. Len(s) - 1 : Front(s)[i] = s[i]
    BY <1>1, <1>3, <1>4 DEF Front
  <1>7. QED
    BY <1>1, <1>3, <1>5, <1>6 DEF Front

\* The stack of t after a frame was pushed.
LEMMA Pushed ==
  ASSUME StacksOK, NEW t \in Stacks, NEW f \in Frames, Push(t, f)
  PROVE  /\ StacksOK' /\ \A u \in Stacks \ {t} : stack'[u] = stack[u]
         /\ Len(stack[t]) \in Nat /\ Len(stack'[t]) = Len(stack[t]) + 1 /\ stack'[t] # <<>>
         /\ \A i \in 1 .. Len(stack[t]) : stack'[t][i] = stack[t][i]
         /\ stack'[t][Len(stack[t]) + 1] = f /\ Last(stack'[t]) = f /\ Top(t)' = f[1]
         /\ \A i \in 1 .. Len(stack'[t]) : i \in 1 .. Len(stack[t]) \/ i = Len(stack[t]) + 1
  <1>1. stack[t] \in Seq(Frames) /\ stack'[t] = Append(stack[t], f)
    BY DEF StacksOK, Push
  <1>2. /\ Len(stack[t]) \in Nat /\ Len(stack'[t]) = Len(stack[t]) + 1 /\ stack'[t] # <<>>
        /\ stack'[t] \in Seq(Frames)
        /\ \A i \in 1 .. Len(stack[t]) : stack'[t][i] = stack[t][i]
        /\ stack'[t][Len(stack[t]) + 1] = f
    BY <1>1
  <1>3. Last(stack'[t]) = f
    BY <1>2 DEF Last
  <1>4. StacksOK' /\ \A u \in Stacks \ {t} : stack'[u] = stack[u]
    BY <1>2 DEF StacksOK, Push
  <1>5. \A n \in Nat : \A i \in 1 .. n + 1 : i \in 1 .. n \/ i = n + 1
    OBVIOUS
  <1>6. \A i \in 1 .. Len(stack'[t]) : i \in 1 .. Len(stack[t]) \/ i = Len(stack[t]) + 1
    BY <1>2, <1>5
  <1>7. QED
    BY <1>2, <1>3, <1>4, <1>6 DEF Top

\* The stack of t after its last frame was popped.
LEMMA Popped ==
  ASSUME StacksOK, NEW t \in Stacks, stack[t] # <<>>, Pop(t)
  PROVE  /\ StacksOK' /\ \A u \in Stacks \ {t} : stack'[u] = stack[u]
         /\ Len(stack[t]) \in Nat \ {0} /\ Len(stack'[t]) = Len(stack[t]) - 1
         /\ \A i \in 1 .. Len(stack[t]) - 1 : stack'[t][i] = stack[t][i]
         /\ Last(stack[t]) = stack[t][Len(stack[t])] /\ Last(stack[t]) \in Frames
         /\ Top(t) = stack[t][Len(stack[t])][1] /\ Len(stack[t]) \in 1 .. Len(stack[t])
         /\ \A i \in 1 .. Len(stack'[t]) : i \in 1 .. Len(stack[t]) /\ i # Len(stack[t])
         /\ IF Len(stack[t]) = 1 THEN stack'[t] = <<>> ELSE 1 \in 1 .. Len(stack'[t]) /\ stack'[t] # <<>>
  <1>1. stack[t] \in Seq(Frames) /\ stack'[t] = Front(stack[t])
    BY DEF StacksOK, Pop
  <1>2. /\ Len(stack[t]) \in Nat \ {0} /\ Len(stack'[t]) = Len(stack[t]) - 1
        /\ stack'[t] \in Seq(Frames)
        /\ \A i \in 1 .. Len(stack[t]) - 1 : stack'[t][i] = stack[t][i]
        /\ Last(stack[t]) = stack[t][Len(stack[t])] /\ Last(stack[t]) \in Frames
    BY <1>1, FrontFacts
  <1>3. StacksOK' /\ \A u \in Stacks \ {t} : stack'[u] = stack[u]
    BY <1>2 DEF StacksOK, Pop
  <1>4. \A n \in Nat \ {0} : /\ n \in 1 .. n /\ \A i \in 1 .. n - 1 : i \in 1 .. n /\ i # n
                             /\ n - 1 = 0 <=> n = 1
                             /\ n # 1 => 1 \in 1 .. n - 1
    OBVIOUS
  <1>5. /\ Len(stack[t]) \in 1 .. Len(stack[t])
        /\ \A i \in 1 .. Len(stack'[t]) : i \in 1 .. Len(stack[t]) /\ i # Len(stack[t])
        /\ Len(stack[t]) # 1 => 1 \in 1 .. Len(stack'[t])
        /\ Len(stack'[t]) = 0 <=> Len(stack[t]) = 1
    BY <1>2, <1>4
  <1>6. IF Len(stack[t]) = 1 THEN stack'[t] = <<>> ELSE 1 \in 1 .. Len(stack'[t]) /\ stack'[t] # <<>>
    BY SMTT(30), <1>2, <1>5
  <1>7. QED
    BY <1>2, <1>3, <1>5, <1>6 DEF Top

-----------------------------------------------------------------------------
(* Types, in three parts.                                                  *)

TablesType ==
    /\ st \in [Keys -> {"none", "busy", "registered"}]
    /\ handle \in [Keys -> Slots \cup {None}]
    /\ map \subseteq Keys
    /\ slots \in [Slots -> Keys \cup {None}] /\ wslots \in [WSlots -> Keys \cup {None}]
    /\ registry \in [Slots -> (WSlots \X Keys) \cup {None}]
    /\ aborted \in BOOLEAN

OpsType ==
    /\ op \in [Threads -> {"idle", "regSlot", "regWasm", "regPublish", "unregMap",
                           "unregSlot", "unregWasm", "call"}]
    /\ opKey \in [Threads -> Keys \cup {None}] /\ opWasm \in [Threads -> WSlots \cup {None}]
    /\ mutex \in Threads \cup {None}
    /\ child \in {"none", "run", "wait"} /\ fired \in Keys \cup {None}
    /\ sent \in Seq(Keys) /\ replies \in Nat /\ orphans \in 0 .. MaxOrphans
    /\ cb \in {"idle", "handler", "reply"}

LocalsType ==
    /\ fresh \in [Stacks -> BOOLEAN] /\ tlMeta \in [Stacks -> BOOLEAN]
    /\ tlKey \in [Stacks -> Keys \cup {None}] /\ wKey \in [Stacks -> Keys \cup {None}]

StackType == StacksOK /\ \A t \in Stacks : Len(stack[t]) <= MaxDepth

\* The parts make up TypeOK.
LEMMA TypeParts == TypeOK <=> TablesType /\ OpsType /\ LocalsType /\ StackType
  BY DEF TypeOK, TablesType, OpsType, LocalsType, StackType, StacksOK

\* Zenon has to do this, since a formula is a value here.
LEMMA EnteredType == ASSUME NEW t, Entered(t) PROVE fresh' \in [Stacks -> BOOLEAN]
  <1>1. \A u \in Stacks : (u = t) \in BOOLEAN
    OBVIOUS
  <1>2. QED
    BY <1>1, Zenon DEF Entered

\* What an operation is about.
LEMMA KeyOfOp ==
  ASSUME TypeOK, OpsOK, NEW t \in Threads, op[t] \in Registering \cup Unregistering
  PROVE  /\ opKey[t] \in Keys /\ st[opKey[t]] = "busy"
         /\ op[t] = "regPublish" => opWasm[t] \in WSlots
  BY DEF TypeOK, OpsOK

\* At first there is no callback, call or frame.
LEMMA InitIInv == Init => IInv
  <1> SUFFICES ASSUME Init PROVE IInv
    OBVIOUS
  <1> USE CallbacksAssumption
  <1>1. TypeOK
    <2>1. \A t \in Stacks : stack[t] = <<>>
      BY DEF Init
    <2>2. <<>> \in Seq(Frames) /\ Len(<<>>) = 0
      OBVIOUS
    <2>3. stack \in [Stacks -> Seq(Frames)] /\ \A t \in Stacks : Len(stack[t]) <= MaxDepth
      BY <2>1, <2>2 DEF Init
    <2>4. sent \in Seq(Keys) /\ replies \in Nat /\ orphans \in 0 .. MaxOrphans
      BY DEF Init
    <2>5. QED
      BY <2>3, <2>4 DEF Init, TypeOK
  <1>2. OpsOK
    BY DEF Init, OpsOK, Registering, Unregistering
  <1>3. TablesOK
    <2>1. \A k \in Keys : k # None /\ ~Has(slots, k) /\ ~Has(wslots, k)
      BY DEF Init, Has
    <2>2. QED
      BY <2>1 DEF Init, TablesOK, Underway, SlotsRight, EntriesRight, RegisteredIn, NoneOut
  <1>4. FiringOK
    BY DEF Init, FiringOK
  <1>5. FramesOK
    <2>1. \A t \in Stacks : stack[t] = <<>> /\ Len(stack[t]) = 0 /\ tlMeta[t] = FALSE /\ fresh[t] = FALSE
      BY DEF Init
    <2>2. HandlerLowest
      BY <2>1 DEF HandlerLowest, Init, Stacks
    <2>3. MetaKnown
      BY <2>1 DEF MetaKnown, MetaRight, WasmBelow
    <2>4. KeysKnown
      BY <2>1 DEF Init, KeysKnown, Stacks
    <2>5. QED
      BY <2>2, <2>3, <2>4 DEF FramesOK
  <1>6. QED
    BY <1>1, <1>2, <1>3, <1>4, <1>5 DEF IInv

\* Every step keeps the types of the tables.
LEMMA TablesTypeStep ==
  ASSUME TypeOK, OpsOK, [Next]_vars
  PROVE  TablesType'
  <1>0. TablesType
    BY TypeParts
  <1> USE <1>0 DEF TablesType, At, Go, Idle, tables, opVars, callVars, wireVars, stackVars
  <1>1. ASSUME NEW t \in Threads, RegMap(t) PROVE TablesType'
    BY <1>1 DEF RegMap
  <1>2. ASSUME NEW t \in Threads, RegSlot(t) PROVE TablesType'
    <2>1. CASE Has(slots, None)
      BY <1>2, <2>1, FirstSlot, KeyOfOp DEF RegSlot, Registering
    <2>2. CASE ~(Has(slots, None))
      BY <1>2, <2>2 DEF RegSlot, Registering
    <2>3. QED
      BY <2>1, <2>2
  <1>3. ASSUME NEW t \in Threads, RegWasm(t) PROVE TablesType'
    <2>1. CASE Has(wslots, None)
      BY <1>3, <2>1, FirstFree, KeyOfOp DEF RegWasm, Registering
    <2>2. CASE ~(Has(wslots, None))
      BY <1>3, <2>2 DEF RegWasm, Registering
    <2>3. QED
      BY <2>1, <2>2
  <1>4. ASSUME NEW t \in Threads, RegPublish(t) PROVE TablesType'
    <2>1. opKey[t] \in Keys /\ opWasm[t] \in WSlots
      BY <1>4, KeyOfOp DEF RegPublish, Registering
    <2>2. registry' \in [Slots -> (WSlots \X Keys) \cup {None}]
      <3>1. <<opWasm[t], opKey[t]>> \in WSlots \X Keys
        BY <2>1
      <3> DEFINE e == <<opWasm[t], opKey[t]>>
                 T == (WSlots \X Keys) \cup {None}
      <3>2. e \in T /\ registry \in [Slots -> T]
        BY <3>1
      <3>3. registry' = [registry EXCEPT ![handle[opKey[t]]] = IF @ = None THEN e ELSE @]
        BY <1>4 DEF RegPublish
      <3> HIDE DEF e, T
      <3>4. registry' \in [Slots -> T]
        BY <3>2, <3>3
      <3>5. QED
        BY <3>4 DEF T
    <2>3. st' \in [Keys -> {"none", "busy", "registered"}]
      BY <1>4, <2>1 DEF RegPublish
    <2>4. QED
      BY <1>4, <2>2, <2>3 DEF RegPublish
  <1>5. ASSUME NEW t \in Threads, UnregPublish(t) PROVE TablesType'
    BY <1>5 DEF UnregPublish
  <1>6. ASSUME NEW t \in Threads, UnregMap(t) PROVE TablesType'
    BY <1>6 DEF UnregMap
  <1>7. ASSUME NEW t \in Threads, UnregSlot(t) PROVE TablesType'
    <2>1. CASE Has(slots, opKey[t])
      BY <1>7, <2>1, FirstSlot, KeyOfOp DEF UnregSlot, ClearSlot, Unregistering
    <2>2. CASE ~(Has(slots, opKey[t]))
      BY <1>7, <2>2 DEF UnregSlot, ClearSlot, Unregistering
    <2>3. QED
      BY <2>1, <2>2
  <1>8. ASSUME NEW t \in Threads, UnregWasm(t) PROVE TablesType'
    BY <1>8, KeyOfOp DEF UnregWasm, Registering, Unregistering
  <1>9. ASSUME NEW t \in Threads, Call(t) PROVE TablesType'
    BY <1>9 DEF Call
  <1>10. ASSUME NEW t \in Threads, CallEnds(t) PROVE TablesType'
    BY <1>10 DEF CallEnds
  <1>10a. ASSUME NEW t \in Threads, ChildDies(t) PROVE TablesType'
    BY <1>10a DEF ChildDies
  <1>11. CASE ChildFires
    BY <1>11 DEF ChildFires
  <1>11a. CASE ChildResumes
    BY <1>11a DEF ChildResumes
  <1>11b. CASE ChildGivesUp
    BY <1>11b DEF ChildGivesUp
  <1>12. CASE CbLookup
    BY <1>12 DEF CbLookup
  <1>13. CASE CbHandled
    BY <1>13 DEF CbHandled
  <1>14. CASE CbReply
    BY <1>14 DEF CbReply
  <1>15. ASSUME NEW t \in Stacks, WasmEnter(t) PROVE TablesType'
    BY <1>15 DEF WasmEnter, MayCall
  <1>16. ASSUME NEW t \in Stacks, WasmFires(t) PROVE TablesType'
    BY <1>16 DEF WasmFires, InWasm
  <1>17. ASSUME NEW t \in Stacks, WasmReturns(t) PROVE TablesType'
    BY <1>17 DEF WasmReturns, MayCall
  <1>18. ASSUME NEW t \in Stacks, WasmLeave(t) PROVE TablesType'
    BY <1>18 DEF WasmLeave, InWasm
  <1>19. CASE UNCHANGED vars
    BY <1>19 DEF vars
  <1>20. QED
    BY <1>1, <1>2, <1>3, <1>4, <1>5, <1>6, <1>7, <1>8, <1>9, <1>10, <1>10a,
       <1>11, <1>11a, <1>11b, <1>12, <1>13, <1>14, <1>15, <1>16, <1>17, <1>18, <1>19
    DEF Next, Register, Unregister, ProcessCall, Child, CbLoop, Wasm

\* And of the threads, the channel and the child.
LEMMA OpsTypeStep ==
  ASSUME TypeOK, [Next]_vars
  PROVE  OpsType'
  <1>0. OpsType /\ TablesType
    BY TypeParts
  <1> USE <1>0, CallbacksAssumption DEF OpsType, At, Go, Idle, tables, opVars, callVars, wireVars, stackVars
  <1>1. ASSUME NEW t \in Threads, RegMap(t) PROVE OpsType'
    BY <1>1 DEF RegMap
  <1>2. ASSUME NEW t \in Threads, RegSlot(t) PROVE OpsType'
    <2>1. CASE Has(slots, None)
      BY <1>2, <2>1 DEF RegSlot
    <2>2. CASE ~(Has(slots, None))
      BY <1>2, <2>2 DEF RegSlot
    <2>3. QED
      BY <2>1, <2>2
  <1>3. ASSUME NEW t \in Threads, RegWasm(t) PROVE OpsType'
    <2>1. CASE Has(wslots, None)
      BY <1>3, <2>1, FirstFree DEF RegWasm
    <2>2. CASE ~(Has(wslots, None))
      BY <1>3, <2>2 DEF RegWasm
    <2>3. QED
      BY <2>1, <2>2
  <1>4. ASSUME NEW t \in Threads, RegPublish(t) PROVE OpsType'
    BY <1>4 DEF RegPublish
  <1>5. ASSUME NEW t \in Threads, UnregPublish(t) PROVE OpsType'
    BY <1>5 DEF UnregPublish
  <1>6. ASSUME NEW t \in Threads, UnregMap(t) PROVE OpsType'
    BY <1>6 DEF UnregMap
  <1>7. ASSUME NEW t \in Threads, UnregSlot(t) PROVE OpsType'
    BY <1>7 DEF UnregSlot, ClearSlot
  <1>8. ASSUME NEW t \in Threads, UnregWasm(t) PROVE OpsType'
    BY <1>8 DEF UnregWasm
  <1>9. ASSUME NEW t \in Threads, Call(t) PROVE OpsType'
    BY <1>9 DEF Call
  <1>10. ASSUME NEW t \in Threads, CallEnds(t) PROVE OpsType'
    BY <1>10 DEF CallEnds
  <1>10a. ASSUME NEW t \in Threads, ChildDies(t) PROVE OpsType'
    BY <1>10a DEF ChildDies
  <1>11. CASE ChildFires
    BY <1>11 DEF ChildFires, TablesType
  <1>11a. CASE ChildResumes
    BY <1>11a DEF ChildResumes
  <1>11b. CASE ChildGivesUp
    BY <1>11b DEF ChildGivesUp
  <1>12. CASE CbLookup
    BY <1>12 DEF CbLookup
  <1>13. CASE CbHandled
    BY <1>13 DEF CbHandled
  <1>14. CASE CbReply
    BY <1>14 DEF CbReply
  <1>15. ASSUME NEW t \in Stacks, WasmEnter(t) PROVE OpsType'
    BY <1>15 DEF WasmEnter
  <1>16. ASSUME NEW t \in Stacks, WasmFires(t) PROVE OpsType'
    BY <1>16 DEF WasmFires, InWasm
  <1>17. ASSUME NEW t \in Stacks, WasmReturns(t) PROVE OpsType'
    BY <1>17 DEF WasmReturns, MayCall
  <1>18. ASSUME NEW t \in Stacks, WasmLeave(t) PROVE OpsType'
    BY <1>18 DEF WasmLeave, InWasm
  <1>19. CASE UNCHANGED vars
    BY <1>19 DEF vars
  <1>20. QED
    BY <1>1, <1>2, <1>3, <1>4, <1>5, <1>6, <1>7, <1>8, <1>9, <1>10, <1>10a,
       <1>11, <1>11a, <1>11b, <1>12, <1>13, <1>14, <1>15, <1>16, <1>17, <1>18, <1>19
    DEF Next, Register, Unregister, ProcessCall, Child, CbLoop, Wasm

\* And of the thread locals.
LEMMA LocalsTypeStep ==
  ASSUME TypeOK, [Next]_vars
  PROVE  LocalsType'
  <1>0. LocalsType /\ OpsType /\ TablesType /\ StackType
    BY TypeParts
  <1> USE <1>0, CallbacksAssumption DEF LocalsType, OpsType, TablesType, Slots, WSlots, Stacks,
        tables, opVars, callVars, wireVars, stackVars
  <1>1. ASSUME NEW t \in Threads, RegMap(t) PROVE LocalsType'
    BY <1>1 DEF RegMap
  <1>2. ASSUME NEW t \in Threads, RegSlot(t) PROVE LocalsType'
    BY <1>2 DEF RegSlot
  <1>3. ASSUME NEW t \in Threads, RegWasm(t) PROVE LocalsType'
    BY <1>3 DEF RegWasm
  <1>4. ASSUME NEW t \in Threads, RegPublish(t) PROVE LocalsType'
    BY <1>4 DEF RegPublish
  <1>5. ASSUME NEW t \in Threads, UnregPublish(t) PROVE LocalsType'
    BY <1>5 DEF UnregPublish
  <1>6. ASSUME NEW t \in Threads, UnregMap(t) PROVE LocalsType'
    BY <1>6 DEF UnregMap
  <1>7. ASSUME NEW t \in Threads, UnregSlot(t) PROVE LocalsType'
    BY <1>7 DEF UnregSlot, ClearSlot
  <1>8. ASSUME NEW t \in Threads, UnregWasm(t) PROVE LocalsType'
    BY <1>8 DEF UnregWasm
  <1>9. ASSUME NEW t \in Threads, Call(t) PROVE LocalsType'
    BY <1>9 DEF Call
  <1>10. ASSUME NEW t \in Threads, CallEnds(t) PROVE LocalsType'
    BY <1>10 DEF CallEnds
  <1>10a. ASSUME NEW t \in Threads, ChildDies(t) PROVE LocalsType'
    BY <1>10a DEF ChildDies
  <1>11. CASE ChildFires
    BY <1>11 DEF ChildFires
  <1>11a. CASE ChildResumes
    BY <1>11a DEF ChildResumes
  <1>11b. CASE ChildGivesUp
    BY <1>11b DEF ChildGivesUp
  <1>12. CASE CbLookup
    <2>1. CASE Head(sent) \in map
      <3>1. fresh' \in [Stacks -> BOOLEAN]
        BY EnteredType, <1>12, <2>1 DEF CbLookup
      <3>2. tlKey' = [tlKey EXCEPT ![Cb] = Head(sent)] /\ Head(sent) \in Keys /\ UNCHANGED <<tlMeta, wKey>>
        BY <1>12, <2>1 DEF CbLookup
      <3>3. QED
        BY <3>1, <3>2
    <2>2. CASE Head(sent) \notin map
      BY <1>12, <2>2 DEF CbLookup
    <2>3. QED
      BY <2>1, <2>2
  <1>13. CASE CbHandled
    BY <1>13 DEF CbHandled, NotFresh
  <1>14. CASE CbReply
    BY <1>14 DEF CbReply
  <1>15. ASSUME NEW t \in Stacks, WasmEnter(t) PROVE LocalsType'
    BY <1>15 DEF WasmEnter, NotFresh
  <1>16. ASSUME NEW t \in Stacks, WasmFires(t) PROVE LocalsType'
    <2>1. fresh' \in [Stacks -> BOOLEAN]
      BY EnteredType, <1>16 DEF WasmFires
    <2>2. QED
      BY <1>16, <2>1 DEF WasmFires
  <1>17. ASSUME NEW t \in Stacks, WasmReturns(t) PROVE LocalsType'
    BY <1>17 DEF WasmReturns, NotFresh
  <1>18. ASSUME NEW t \in Stacks, WasmLeave(t) PROVE LocalsType'
    <2>1. /\ stack[t] # <<>> /\ Pop(t) /\ tlMeta' = [tlMeta EXCEPT ![t] = Last(stack[t])[2]]
          /\ fresh' = [u \in Stacks |-> FALSE] /\ KeepKey(t) /\ tlKey' = tlKey
      BY <1>18 DEF WasmLeave, InWasm, Top, NotFresh
    <2>2. Last(stack[t]) \in Frames /\ Last(stack[t])[1] = "wasm"
      BY <1>18, <2>1, Popped DEF WasmLeave, InWasm, Top, StackType
    <2>3. Last(stack[t])[2] \in BOOLEAN
      BY <2>2 DEF Frames
    <2>4. tlMeta' \in [Stacks -> BOOLEAN]
      BY <2>1, <2>3
    <2>5. wKey' \in [Stacks -> Keys \cup {None}]
      BY <2>1 DEF KeepKey
    <2>6. QED
      BY <2>1, <2>4, <2>5
  <1>19. CASE UNCHANGED vars
    BY <1>19 DEF vars
  <1>20. QED
    BY <1>1, <1>2, <1>3, <1>4, <1>5, <1>6, <1>7, <1>8, <1>9, <1>10, <1>10a,
       <1>11, <1>11a, <1>11b, <1>12, <1>13, <1>14, <1>15, <1>16, <1>17, <1>18, <1>19
    DEF Next, Register, Unregister, ProcessCall, Child, CbLoop, Wasm

\* A stack that has room stays in its bound.
LEMMA PushKeeps ==
  ASSUME StackType, NEW t \in Stacks, NEW f \in Frames, Push(t, f), Len(stack[t]) < MaxDepth
  PROVE  StackType'
  <1>1. StacksOK
    BY DEF StackType
  <1>2. Len(stack[t]) \in Nat /\ MaxDepth \in Nat
    BY <1>1, CallbacksAssumption DEF StacksOK
  <1>3. StacksOK' /\ Len(stack'[t]) = Len(stack[t]) + 1 /\ \A u \in Stacks \ {t} : stack'[u] = stack[u]
    BY <1>1, Pushed
  <1>4. Len(stack'[t]) <= MaxDepth
    BY <1>2, <1>3
  <1>5. QED
    BY <1>3, <1>4 DEF StackType

\* A stack that shrinks stays in its bound.
LEMMA PopKeeps ==
  ASSUME StackType, NEW t \in Stacks, stack[t] # <<>>, Pop(t)
  PROVE  StackType'
  <1>1. StacksOK
    BY DEF StackType
  <1>2. /\ StacksOK' /\ Len(stack[t]) \in Nat \ {0} /\ Len(stack'[t]) = Len(stack[t]) - 1
        /\ \A u \in Stacks \ {t} : stack'[u] = stack[u]
    BY <1>1, Popped
  <1>3. Len(stack[t]) <= MaxDepth /\ MaxDepth \in Nat
    BY CallbacksAssumption DEF StackType
  <1>4. Len(stack'[t]) <= MaxDepth
    BY <1>2, <1>3
  <1>5. QED
    BY <1>2, <1>4 DEF StackType

\* And of the stacks.
LEMMA StackTypeStep ==
  ASSUME TypeOK, FramesOK, [Next]_vars
  PROVE  StackType'
  <1>0. LocalsType /\ OpsType /\ TablesType /\ StackType
    BY TypeParts
  <1> USE <1>0
  <1>99. stack' = stack => StackType'
    BY DEF StackType, StacksOK
  <1> USE <1>99 DEF stackVars
  <1>1. ASSUME NEW t \in Threads, RegMap(t) PROVE StackType'
    BY <1>1 DEF RegMap
  <1>2. ASSUME NEW t \in Threads, RegSlot(t) PROVE StackType'
    BY <1>2 DEF RegSlot
  <1>3. ASSUME NEW t \in Threads, RegWasm(t) PROVE StackType'
    BY <1>3 DEF RegWasm
  <1>4. ASSUME NEW t \in Threads, RegPublish(t) PROVE StackType'
    BY <1>4 DEF RegPublish
  <1>5. ASSUME NEW t \in Threads, UnregPublish(t) PROVE StackType'
    BY <1>5 DEF UnregPublish
  <1>6. ASSUME NEW t \in Threads, UnregMap(t) PROVE StackType'
    BY <1>6 DEF UnregMap
  <1>7. ASSUME NEW t \in Threads, UnregSlot(t) PROVE StackType'
    BY <1>7 DEF UnregSlot
  <1>8. ASSUME NEW t \in Threads, UnregWasm(t) PROVE StackType'
    BY <1>8 DEF UnregWasm
  <1>9. ASSUME NEW t \in Threads, Call(t) PROVE StackType'
    BY <1>9 DEF Call
  <1>10. ASSUME NEW t \in Threads, CallEnds(t) PROVE StackType'
    BY <1>10 DEF CallEnds
  <1>10a. ASSUME NEW t \in Threads, ChildDies(t) PROVE StackType'
    BY <1>10a DEF ChildDies
  <1>11. CASE ChildFires
    BY <1>11 DEF ChildFires
  <1>11a. CASE ChildResumes
    BY <1>11a DEF ChildResumes
  <1>11b. CASE ChildGivesUp
    BY <1>11b DEF ChildGivesUp
  <1>12. CASE CbLookup
    <2>1. CASE Head(sent) \in map
      <3>1. <<"pcb", Head(sent)>> \in Frames /\ Cb \in Stacks
        BY <2>1 DEF TablesType, Frames, Stacks
      <3>2. Push(Cb, <<"pcb", Head(sent)>>)
        BY <1>12, <2>1 DEF CbLookup
      <3>3. Len(stack[Cb]) < MaxDepth
        <4>1. stack[Cb] = <<>>
          BY <1>12 DEF CbLookup, FramesOK, HandlerLowest
        <4>2. Len(stack[Cb]) = 0
          BY <4>1
        <4>3. QED
          BY <4>2, CallbacksAssumption
      <3>4. QED
        BY <3>1, <3>2, <3>3, PushKeeps
    <2>2. CASE Head(sent) \notin map
      BY <1>12, <2>2 DEF CbLookup
    <2>3. QED
      BY <2>1, <2>2
  <1>13. CASE CbHandled
    <2>1. Cb \in Stacks /\ stack[Cb] # <<>> /\ Pop(Cb)
      BY <1>13 DEF CbHandled, Top, Stacks
    <2>2. QED
      BY <2>1, PopKeeps
  <1>14. CASE CbReply
    BY <1>14 DEF CbReply
  <1>15. ASSUME NEW t \in Stacks, WasmEnter(t) PROVE StackType'
    <2>1. <<"wasm", tlMeta[t]>> \in Frames
      BY DEF LocalsType, Frames
    <2>2. QED
      BY <1>15, <2>1, PushKeeps DEF WasmEnter
  <1>16. ASSUME NEW t \in Stacks, WasmFires(t) PROVE StackType'
    <2>1. PICK w \in WSlots : wslots[w] # None /\ Push(t, <<"wcb", wslots[w]>>)
      BY <1>16 DEF WasmFires
    <2>2. <<"wcb", wslots[w]>> \in Frames
      BY <2>1 DEF TablesType, OpsType, Frames
    <2>3. QED
      BY <1>16, <2>1, <2>2, PushKeeps DEF WasmFires
  <1>17. ASSUME NEW t \in Stacks, WasmReturns(t) PROVE StackType'
    <2>1. stack[t] # <<>> /\ Pop(t)
      BY <1>17 DEF WasmReturns, MayCall, InWasm, Top
    <2>2. QED
      BY <2>1, PopKeeps
  <1>18. ASSUME NEW t \in Stacks, WasmLeave(t) PROVE StackType'
    <2>1. stack[t] # <<>> /\ Pop(t)
      BY <1>18 DEF WasmLeave, MayCall, InWasm, Top
    <2>2. QED
      BY <2>1, PopKeeps
  <1>19. CASE UNCHANGED vars
    BY <1>19 DEF vars
  <1>20. QED
    BY <1>1, <1>2, <1>3, <1>4, <1>5, <1>6, <1>7, <1>8, <1>9, <1>10, <1>10a,
       <1>11, <1>11a, <1>11b, <1>12, <1>13, <1>14, <1>15, <1>16, <1>17, <1>18, <1>19
    DEF Next, Register, Unregister, ProcessCall, Child, CbLoop, Wasm

\* So every step keeps the types.
LEMMA TypeStep ==
  ASSUME TypeOK, OpsOK, FramesOK, [Next]_vars
  PROVE  TypeOK'
  <1>1. TablesType' /\ OpsType' /\ LocalsType' /\ StackType'
    BY TablesTypeStep, OpsTypeStep, LocalsTypeStep, StackTypeStep
  <1>2. QED
    BY <1>1 DEF TypeOK, TablesType, OpsType, LocalsType, StackType, StacksOK

\* Operations are about callbacks of their own.
LEMMA OpsStep ==
  ASSUME TypeOK, OpsOK, [Next]_vars
  PROVE  OpsOK'
  <1>0. OpsType /\ TablesType
    BY TypeParts
  <1> USE <1>0, CallbacksAssumption DEF OpsType, TablesType, OpsOK, At, Go, Idle,
        Registering, Unregistering, tables, opVars, callVars, wireVars, stackVars
  <1>1. ASSUME NEW t \in Threads, RegMap(t) PROVE OpsOK'
    <2>1. PICK k \in Keys : /\ st[k] = "none" /\ st' = [st EXCEPT ![k] = "busy"]
                            /\ opKey' = [opKey EXCEPT ![t] = k]
      BY <1>1 DEF RegMap
    <2>2. /\ op' = [op EXCEPT ![t] = "regSlot"] /\ op[t] = "idle" /\ opKey[t] = None
          /\ opWasm' = opWasm /\ mutex' = mutex /\ child' = child
      BY <1>1 DEF RegMap
    <2>3. \A u \in Threads : opKey[u] # k
      BY <2>1
    <2>4. /\ \A u \in Threads : opKey'[u] # None <=> op'[u] \in Registering \cup Unregistering
          /\ \A u \in Threads : opWasm'[u] # None <=> op'[u] = "regPublish"
      BY <2>1, <2>2
    <2>5. \A u, v \in Threads : opKey'[u] # None /\ opKey'[u] = opKey'[v] => u = v
      BY <2>1, <2>2, <2>3
    <2>6. \A l \in Keys : st'[l] = "busy" <=> \E u \in Threads : opKey'[u] = l
      BY <2>1, <2>2, <2>3
    <2>7. /\ \A u \in Threads : op'[u] = "call" <=> mutex' = u
          /\ mutex' = None <=> child' = "none"
      BY <2>1, <2>2
    <2>8. QED
      BY <2>4, <2>5, <2>6, <2>7
  <1>2. ASSUME NEW t \in Threads, RegSlot(t) PROVE OpsOK'
    <2>1. CASE Has(slots, None)
      BY <1>2, <2>1, KeyOfOp DEF RegSlot
    <2>2. CASE ~(Has(slots, None))
      BY <1>2, <2>2 DEF RegSlot
    <2>3. QED
      BY <2>1, <2>2
  <1>3. ASSUME NEW t \in Threads, RegWasm(t) PROVE OpsOK'
    <2>1. CASE Has(wslots, None)
      <3>1. First(wslots, None) # None
        BY <2>1, FirstFree DEF WSlots
      <3>2. QED
        BY <1>3, <2>1, <3>1 DEF RegWasm
    <2>2. CASE ~Has(wslots, None)
      BY <1>3, <2>2 DEF RegWasm
    <2>3. QED
      BY <2>1, <2>2
  <1>4. ASSUME NEW t \in Threads, RegPublish(t) PROVE OpsOK'
    BY <1>4 DEF RegPublish
  <1>5. ASSUME NEW t \in Threads, UnregPublish(t) PROVE OpsOK'
    <2>1. PICK k \in Keys : /\ st[k] = "registered" /\ st' = [st EXCEPT ![k] = "busy"]
                            /\ opKey' = [opKey EXCEPT ![t] = k]
      BY <1>5 DEF UnregPublish
    <2>2. QED
      BY <1>5, <2>1 DEF UnregPublish
  <1>6. ASSUME NEW t \in Threads, UnregMap(t) PROVE OpsOK'
    BY <1>6 DEF UnregMap
  <1>7. ASSUME NEW t \in Threads, UnregSlot(t) PROVE OpsOK'
    BY <1>7 DEF UnregSlot, ClearSlot
  <1>8. ASSUME NEW t \in Threads, UnregWasm(t) PROVE OpsOK'
    BY <1>8 DEF UnregWasm
  <1>9. ASSUME NEW t \in Threads, Call(t) PROVE OpsOK'
    BY <1>9 DEF Call
  <1>10. ASSUME NEW t \in Threads, CallEnds(t) PROVE OpsOK'
    BY <1>10 DEF CallEnds
  <1>10a. ASSUME NEW t \in Threads, ChildDies(t) PROVE OpsOK'
    BY <1>10a DEF ChildDies
  <1>11. CASE ChildFires
    BY <1>11 DEF ChildFires
  <1>11a. CASE ChildResumes
    BY <1>11a DEF ChildResumes
  <1>11b. CASE ChildGivesUp
    BY <1>11b DEF ChildGivesUp
  <1>12. CASE CbLookup
    BY <1>12 DEF CbLookup
  <1>13. CASE CbHandled
    BY <1>13 DEF CbHandled
  <1>14. CASE CbReply
    BY <1>14 DEF CbReply
  <1>15. ASSUME NEW t \in Stacks, WasmEnter(t) PROVE OpsOK'
    BY <1>15 DEF WasmEnter
  <1>16. ASSUME NEW t \in Stacks, WasmFires(t) PROVE OpsOK'
    BY <1>16 DEF WasmFires
  <1>17. ASSUME NEW t \in Stacks, WasmReturns(t) PROVE OpsOK'
    BY <1>17 DEF WasmReturns
  <1>18. ASSUME NEW t \in Stacks, WasmLeave(t) PROVE OpsOK'
    BY <1>18 DEF WasmLeave
  <1>19. CASE UNCHANGED vars
    BY <1>19 DEF vars
  <1>20. QED
    BY <1>1, <1>2, <1>3, <1>4, <1>5, <1>6, <1>7, <1>8, <1>9, <1>10, <1>10a,
       <1>11, <1>11a, <1>11b, <1>12, <1>13, <1>14, <1>15, <1>16, <1>17, <1>18, <1>19
    DEF Next, Register, Unregister, ProcessCall, Child, CbLoop, Wasm

\* Each operation keeps the tables in agreement.
LEMMA TablesStep ==
  ASSUME TypeOK, OpsOK, TablesOK, [Next]_vars
  PROVE  TablesOK'
  <1>0. OpsType /\ TablesType
    BY TypeParts
  <1> USE <1>0, CallbacksAssumption DEF OpsType, TablesType, OpsOK, TablesOK, Underway, PartlyIn,
        SlotsRight, EntriesRight, RegisteredIn, NoneOut, At, Go, Idle,
        Registering, Unregistering, tables, opVars, callVars, wireVars, stackVars
  <1>1. ASSUME NEW t \in Threads, RegMap(t) PROVE TablesOK'
    BY <1>1 DEF RegMap
  <1>2. ASSUME NEW t \in Threads, RegSlot(t) PROVE TablesOK'
    <2>1. opKey[t] \in Keys /\ st[opKey[t]] = "busy"
      BY <1>2, KeyOfOp DEF RegSlot
    <2>2. CASE ~Has(slots, None)
      <3>1. /\ st' = [st EXCEPT ![opKey[t]] = "registered"]
            /\ opKey' = [opKey EXCEPT ![t] = None] /\ op' = [op EXCEPT ![t] = "idle"]
            /\ op[t] = "regSlot" /\ UNCHANGED <<handle, slots, map, wslots, registry, opWasm>>
        BY <1>2, <2>2 DEF RegSlot
      <3>2. QED
        BY <2>1, <3>1
    <2>3. CASE Has(slots, None)
      <3> DEFINE k == opKey[t]
                 i == First(slots, None)
      <3>1. /\ i \in Slots /\ i # None /\ slots[i] = None /\ ~Has(slots, k) /\ ~Has(wslots, k)
        BY <1>2, <2>1, <2>3, FirstSlot DEF RegSlot, Slots
      <3>2. /\ handle' = [handle EXCEPT ![k] = i] /\ slots' = [slots EXCEPT ![i] = k]
            /\ op' = [op EXCEPT ![t] = "regWasm"] /\ op[t] = "regSlot"
            /\ UNCHANGED <<st, opKey, map, wslots, registry, opWasm>>
        BY <1>2, <2>3 DEF RegSlot
      <3>3. k \in Keys /\ st[k] = "busy" /\ k # None
        BY <2>1
      <3> HIDE DEF k, i
      <3>4. \A l \in Keys \ {k} : (Has(slots, l)' <=> Has(slots, l)) /\ handle'[l] = handle[l]
        BY <3>1, <3>2, <3>3 DEF Has
      <3>5. \A u \in Threads \ {t} : opKey[u] # k /\ op'[u] = op[u]
        BY <3>2, <3>3 DEF k
      <3>9. Underway'
        BY <1>2, <3>1, <3>2, <3>3, <3>4, <3>5 DEF Has
      <3>10. SlotsRight'
        BY <1>2, <3>1, <3>2, <3>3, <3>4, <3>5 DEF Has
      <3>11. EntriesRight'
        BY <1>2, <3>1, <3>2, <3>3, <3>4, <3>5 DEF Has
      <3>12. RegisteredIn'
        BY <1>2, <3>1, <3>2, <3>3, <3>4, <3>5 DEF Has
      <3>13. NoneOut'
        BY <1>2, <3>1, <3>2, <3>3, <3>4, <3>5 DEF Has
      <3>14. QED
        BY <3>9, <3>10, <3>11, <3>12, <3>13
    <2>4. QED
      BY <2>2, <2>3
  <1>3. ASSUME NEW t \in Threads, RegWasm(t) PROVE TablesOK'
    <2>1. opKey[t] \in Keys /\ st[opKey[t]] = "busy"
      BY <1>3, KeyOfOp DEF RegWasm
    <2>2. CASE ~Has(wslots, None)
      BY <1>3, <2>1, <2>2 DEF RegWasm
    <2>3. CASE Has(wslots, None)
      <3> DEFINE k == opKey[t]
                 w == First(wslots, None)
      <3>1. /\ w \in WSlots /\ w # None /\ wslots[w] = None /\ ~Has(wslots, k)
        BY <1>3, <2>1, <2>3, FirstFree DEF RegWasm, WSlots
      <3>2. /\ wslots' = [wslots EXCEPT ![w] = k] /\ opWasm' = [opWasm EXCEPT ![t] = w]
            /\ op' = [op EXCEPT ![t] = "regPublish"] /\ op[t] = "regWasm"
            /\ UNCHANGED <<st, opKey, map, slots, registry, handle>>
        BY <1>3, <2>3 DEF RegWasm
      <3>3. k \in Keys /\ st[k] = "busy" /\ k # None
        BY <2>1
      <3> HIDE DEF k, w
      <3>4. \A l \in Keys \ {k} : Has(wslots, l)' <=> Has(wslots, l)
        BY <3>1, <3>2, <3>3 DEF Has
      <3>5. \A u \in Threads \ {t} : opKey[u] # k /\ op'[u] = op[u] /\ opWasm'[u] = opWasm[u]
        BY <3>2, <3>3 DEF k
      <3>9. Underway'
        BY <1>3, <3>1, <3>2, <3>3, <3>4, <3>5 DEF Has
      <3>10. SlotsRight'
        BY <1>3, <3>1, <3>2, <3>3, <3>4, <3>5 DEF Has
      <3>11. EntriesRight'
        BY <1>3, <3>1, <3>2, <3>3, <3>4, <3>5 DEF Has
      <3>12. RegisteredIn'
        BY <1>3, <3>1, <3>2, <3>3, <3>4, <3>5 DEF Has
      <3>13. NoneOut'
        BY <1>3, <3>1, <3>2, <3>3, <3>4, <3>5 DEF Has
      <3>14. QED
        BY <3>9, <3>10, <3>11, <3>12, <3>13
    <2>4. QED
      BY <2>2, <2>3
  <1>4. ASSUME NEW t \in Threads, RegPublish(t) PROVE TablesOK'
    <2> DEFINE k == opKey[t]
               h == handle[opKey[t]]
    <2>1. /\ k \in Keys /\ st[k] = "busy" /\ k # None /\ opWasm[t] \in WSlots
          /\ h # None /\ h \in Slots /\ slots[h] = k /\ wslots[opWasm[t]] = k /\ k \in map
      BY <1>4, KeyOfOp DEF RegPublish
    <2>2. registry[h] = None
      BY <2>1
    <2>3. /\ registry' = [registry EXCEPT ![h] = <<opWasm[t], k>>]
          /\ st' = [st EXCEPT ![k] = "registered"] /\ opKey' = [opKey EXCEPT ![t] = None]
          /\ opWasm' = [opWasm EXCEPT ![t] = None] /\ op' = [op EXCEPT ![t] = "idle"]
          /\ UNCHANGED <<map, slots, wslots, handle>>
      BY <1>4, <2>1, <2>2 DEF RegPublish
    <2>4. \A u \in Threads \ {t} : opKey'[u] = opKey[u] /\ opWasm'[u] = opWasm[u] /\ op'[u] = op[u]
      BY <2>3
    <2>5. registry'[h] # None /\ registry'[h][1] = opWasm[t] /\ registry'[h][2] = k
      <3>1. <<opWasm[t], k>> \in (1 .. NWasm) \X Keys
        BY <2>1 DEF WSlots
      <3>2. <<opWasm[t], k>> # None
        BY <3>1
      <3>3. registry'[h] = <<opWasm[t], k>>
        BY <2>1, <2>3
      <3>4. QED
        BY <3>2, <3>3
    <2>6. \A i \in Slots \ {h} : registry'[i] = registry[i]
      BY <2>3
    <2> HIDE DEF k, h
    <2>9. Underway'
      BY <1>4, <2>1, <2>2, <2>3, <2>4, <2>5, <2>6 DEF Has, k, h
    <2>10. SlotsRight'
      BY <1>4, <2>1, <2>2, <2>3, <2>4, <2>5, <2>6 DEF Has, k, h
    <2>11. EntriesRight'
      BY <1>4, <2>1, <2>2, <2>3, <2>4, <2>5, <2>6 DEF Has, k, h
    <2>12. RegisteredIn'
      BY <1>4, <2>1, <2>2, <2>3, <2>4, <2>5, <2>6 DEF Has, k, h
    <2>13. NoneOut'
      BY <1>4, <2>1, <2>2, <2>3, <2>4, <2>5, <2>6 DEF Has, k, h
    <2>14. QED
      BY <2>9, <2>10, <2>11, <2>12, <2>13
  <1>5. ASSUME NEW t \in Threads, UnregPublish(t) PROVE TablesOK'
    BY <1>5 DEF UnregPublish
  <1>6. ASSUME NEW t \in Threads, UnregMap(t) PROVE TablesOK'
    BY <1>6 DEF UnregMap
  <1>7. ASSUME NEW t \in Threads, UnregSlot(t) PROVE TablesOK'
    <2> DEFINE k == opKey[t]
    <2>1. k \in Keys /\ st[k] = "busy" /\ k # None /\ k \notin map
      BY <1>7, KeyOfOp DEF UnregSlot
    <2>2. /\ op' = [op EXCEPT ![t] = "unregWasm"]
          /\ UNCHANGED <<st, handle, map, wslots, registry, opKey, opWasm>>
      BY <1>7 DEF UnregSlot
    <2>3. \A i \in Slots : slots'[i] = IF slots[i] = k THEN None ELSE slots[i]
      <3>1. CASE Has(slots, k)
        <4> DEFINE i == First(slots, k)
        <4>1. i \in Slots /\ slots[i] = k
          BY <3>1, FirstSlot
        <4>2. slots' = [slots EXCEPT ![i] = None]
          BY <1>7, <3>1 DEF UnregSlot, ClearSlot
        <4>3. \A j \in Slots : slots[j] = k => j = i
          BY <2>1, <4>1
        <4> HIDE DEF i
        <4>4. QED
          BY <4>1, <4>2, <4>3
      <3>2. CASE ~Has(slots, k)
        BY <1>7, <3>2 DEF UnregSlot, ClearSlot, Has
      <3>3. QED
        BY <3>1, <3>2
    <2>4. DOMAIN slots' = Slots /\ slots' \in [Slots -> Keys \cup {None}]
      BY TablesTypeStep
    <2>5. \A u \in Threads \ {t} : opKey[u] # k /\ op'[u] = op[u]
      BY <2>1, <2>2
    <2> HIDE DEF k
    <2>6. ~Has(slots', k) /\ \A l \in Keys \ {k} : Has(slots', l) <=> Has(slots, l)
      BY <2>1, <2>3, <2>4 DEF Has
    <2>9. Underway'
      BY <1>7, <2>1, <2>2, <2>3, <2>4, <2>5, <2>6 DEF k
    <2>10. SlotsRight'
      BY <1>7, <2>1, <2>2, <2>3, <2>4, <2>5, <2>6 DEF k
    <2>11. EntriesRight'
      BY <1>7, <2>1, <2>2, <2>3, <2>4, <2>5, <2>6 DEF k
    <2>12. RegisteredIn'
      BY <1>7, <2>1, <2>2, <2>3, <2>4, <2>5, <2>6 DEF k
    <2>13. NoneOut'
      BY <1>7, <2>1, <2>2, <2>3, <2>4, <2>5, <2>6 DEF k
    <2>14. QED
      BY <2>9, <2>10, <2>11, <2>12, <2>13
  <1>8. ASSUME NEW t \in Threads, UnregWasm(t) PROVE TablesOK'
    <2> DEFINE k == opKey[t]
    <2>1. k \in Keys /\ st[k] = "busy" /\ k # None /\ k \notin map /\ ~Has(slots, k)
      BY <1>8, KeyOfOp DEF UnregWasm
    <2>2. /\ wslots' = [w \in WSlots |-> IF wslots[w] = k THEN None ELSE wslots[w]]
          /\ st' = [st EXCEPT ![k] = "none"] /\ handle' = [handle EXCEPT ![k] = None]
          /\ opKey' = [opKey EXCEPT ![t] = None] /\ op' = [op EXCEPT ![t] = "idle"]
          /\ UNCHANGED <<map, slots, registry, opWasm>>
      BY <1>8 DEF UnregWasm
    <2>3. \A u \in Threads \ {t} : opKey[u] # k /\ op'[u] = op[u] /\ opKey'[u] = opKey[u]
      BY <2>1, <2>2
    <2>4. opKey'[t] = None
      BY <2>2
    <2> HIDE DEF k
    <2>5. ~Has(wslots', k) /\ \A l \in Keys \ {k} : Has(wslots', l) <=> Has(wslots, l)
      BY <2>1, <2>2 DEF Has
    <2>6. \A l \in Keys \ {k} : st'[l] = st[l] /\ handle'[l] = handle[l]
      BY <2>2
    <2>7. \A w \in WSlots : wslots[w] # k => wslots'[w] = wslots[w]
      BY <2>2
    <2>8. \A i \in Slots : registry[i] # None => registry[i][1] \in WSlots /\ registry[i][2] \in Keys
      OBVIOUS
    <2>9. Underway'
      BY <1>8, <2>1, <2>2, <2>3, <2>4, <2>5, <2>6, <2>7, <2>8 DEF Has
    <2>10. SlotsRight'
      BY <1>8, <2>1, <2>2, <2>3, <2>4, <2>5, <2>6, <2>7, <2>8 DEF Has
    <2>11. EntriesRight'
      BY <1>8, <2>1, <2>2, <2>3, <2>4, <2>5, <2>6, <2>7, <2>8 DEF Has
    <2>12. RegisteredIn'
      BY <1>8, <2>1, <2>2, <2>3, <2>4, <2>5, <2>6, <2>7, <2>8 DEF Has
    <2>13. NoneOut'
      BY <1>8, <2>1, <2>2, <2>3, <2>4, <2>5, <2>6, <2>7, <2>8 DEF Has
    <2>14. QED
      BY <2>9, <2>10, <2>11, <2>12, <2>13
  <1>9. ASSUME NEW t \in Threads, Call(t) PROVE TablesOK'
    BY <1>9 DEF Call
  <1>10. ASSUME NEW t \in Threads, CallEnds(t) PROVE TablesOK'
    BY <1>10 DEF CallEnds
  <1>10a. ASSUME NEW t \in Threads, ChildDies(t) PROVE TablesOK'
    BY <1>10a DEF ChildDies
  <1>11. CASE ChildFires
    BY <1>11 DEF ChildFires
  <1>11a. CASE ChildResumes
    BY <1>11a DEF ChildResumes
  <1>11b. CASE ChildGivesUp
    BY <1>11b DEF ChildGivesUp
  <1>12. CASE CbLookup
    BY <1>12 DEF CbLookup
  <1>13. CASE CbHandled
    BY <1>13 DEF CbHandled
  <1>14. CASE CbReply
    BY <1>14 DEF CbReply
  <1>15. ASSUME NEW t \in Stacks, WasmEnter(t) PROVE TablesOK'
    BY <1>15 DEF WasmEnter
  <1>16. ASSUME NEW t \in Stacks, WasmFires(t) PROVE TablesOK'
    BY <1>16 DEF WasmFires
  <1>17. ASSUME NEW t \in Stacks, WasmReturns(t) PROVE TablesOK'
    BY <1>17 DEF WasmReturns
  <1>18. ASSUME NEW t \in Stacks, WasmLeave(t) PROVE TablesOK'
    BY <1>18 DEF WasmLeave
  <1>19. CASE UNCHANGED vars
    BY <1>19 DEF vars
  <1>20. QED
    BY <1>1, <1>2, <1>3, <1>4, <1>5, <1>6, <1>7, <1>8, <1>9, <1>10, <1>10a,
       <1>11, <1>11a, <1>11b, <1>12, <1>13, <1>14, <1>15, <1>16, <1>17, <1>18, <1>19
    DEF Next, Register, Unregister, ProcessCall, Child, CbLoop, Wasm

\* No slot changes while a callback is under way.
LEMMA FiringStep ==
  ASSUME TypeOK, OpsOK, FiringOK, [Next]_vars
  PROVE  FiringOK'
  <1>0. OpsType /\ TablesType
    BY TypeParts
  <1> USE <1>0, CallbacksAssumption DEF OpsType, TablesType, OpsOK, FiringOK, At, Go, Idle,
        tables, opVars, callVars, wireVars, stackVars
  <1>1. ASSUME NEW t \in Threads, RegMap(t) PROVE FiringOK'
    BY <1>1 DEF RegMap
  <1>2. ASSUME NEW t \in Threads, RegSlot(t) PROVE FiringOK'
    BY <1>2 DEF RegSlot
  <1>3. ASSUME NEW t \in Threads, RegWasm(t) PROVE FiringOK'
    BY <1>3 DEF RegWasm
  <1>4. ASSUME NEW t \in Threads, RegPublish(t) PROVE FiringOK'
    BY <1>4 DEF RegPublish
  <1>5. ASSUME NEW t \in Threads, UnregPublish(t) PROVE FiringOK'
    BY <1>5 DEF UnregPublish
  <1>6. ASSUME NEW t \in Threads, UnregMap(t) PROVE FiringOK'
    BY <1>6 DEF UnregMap
  <1>7. ASSUME NEW t \in Threads, UnregSlot(t) PROVE FiringOK'
    BY <1>7 DEF UnregSlot
  <1>8. ASSUME NEW t \in Threads, UnregWasm(t) PROVE FiringOK'
    BY <1>8 DEF UnregWasm
  <1>9. ASSUME NEW t \in Threads, Call(t) PROVE FiringOK'
    BY <1>9 DEF Call
  <1>10. ASSUME NEW t \in Threads, CallEnds(t) PROVE FiringOK'
    BY <1>10 DEF CallEnds
  <1>10a. ASSUME NEW t \in Threads, ChildDies(t) PROVE FiringOK'
    BY <1>10a DEF ChildDies
  <1>11. CASE ChildFires
    <2>1. PICK n \in Slots : slots[n] # None /\ sent' = Append(sent, slots[n])
      BY <1>11 DEF ChildFires
    <2>2. slots[n] \in Keys /\ Has(slots, slots[n]) /\ Append(<<>>, slots[n]) = <<slots[n]>>
      BY <2>1 DEF Has
    <2>3. child = "run" /\ child' = "wait" /\ UNCHANGED <<slots, orphans, replies, cb, fired>>
      BY <1>11 DEF ChildFires
    <2>4. QED
      BY <2>1, <2>2, <2>3
  <1>11a. CASE ChildResumes
    BY <1>11a DEF ChildResumes
  <1>11b. CASE ChildGivesUp
    BY <1>11b DEF ChildGivesUp
  <1>12. CASE CbLookup
    <2>1. /\ cb = "idle" /\ sent # <<>> /\ fired' = Head(sent) /\ sent' = Tail(sent)
          /\ cb' \in {"handler", "reply"} /\ UNCHANGED <<slots, orphans, replies, child>>
      BY <1>12 DEF CbLookup
    <2>2. Head(sent) \in Keys
      BY <2>1
    <2>3. \A k : Head(<<k>>) = k /\ Tail(<<k>>) = <<>>
      OBVIOUS
    <2>4. QED
      BY <2>1, <2>2, <2>3
  <1>13. CASE CbHandled
    BY <1>13 DEF CbHandled
  <1>14. CASE CbReply
    BY <1>14 DEF CbReply
  <1>15. ASSUME NEW t \in Stacks, WasmEnter(t) PROVE FiringOK'
    BY <1>15 DEF WasmEnter
  <1>16. ASSUME NEW t \in Stacks, WasmFires(t) PROVE FiringOK'
    BY <1>16 DEF WasmFires
  <1>17. ASSUME NEW t \in Stacks, WasmReturns(t) PROVE FiringOK'
    BY <1>17 DEF WasmReturns
  <1>18. ASSUME NEW t \in Stacks, WasmLeave(t) PROVE FiringOK'
    BY <1>18 DEF WasmLeave
  <1>19. CASE UNCHANGED vars
    BY <1>19 DEF vars
  <1>20. QED
    BY <1>1, <1>2, <1>3, <1>4, <1>5, <1>6, <1>7, <1>8, <1>9, <1>10, <1>10a,
       <1>11, <1>11a, <1>11b, <1>12, <1>13, <1>14, <1>15, <1>16, <1>17, <1>18, <1>19
    DEF Next, Register, Unregister, ProcessCall, Child, CbLoop, Wasm

\* A handler of the process backend is where HandlerLowest has it.
LEMMA HandlerStep ==
  ASSUME TypeOK, FiringOK, HandlerLowest, [Next]_vars
  PROVE  HandlerLowest'
  <1>0. OpsType /\ TablesType /\ LocalsType /\ StacksOK
    BY TypeParts DEF StackType
  <1> USE <1>0, CallbacksAssumption DEF FiringOK, HandlerLowest, tables, opVars, callVars, wireVars, stackVars
  <1>1. ASSUME NEW t \in Threads, RegMap(t) PROVE HandlerLowest'
    BY <1>1 DEF RegMap
  <1>2. ASSUME NEW t \in Threads, RegSlot(t) PROVE HandlerLowest'
    BY <1>2 DEF RegSlot
  <1>3. ASSUME NEW t \in Threads, RegWasm(t) PROVE HandlerLowest'
    BY <1>3 DEF RegWasm
  <1>4. ASSUME NEW t \in Threads, RegPublish(t) PROVE HandlerLowest'
    BY <1>4 DEF RegPublish
  <1>5. ASSUME NEW t \in Threads, UnregPublish(t) PROVE HandlerLowest'
    BY <1>5 DEF UnregPublish
  <1>6. ASSUME NEW t \in Threads, UnregMap(t) PROVE HandlerLowest'
    BY <1>6 DEF UnregMap
  <1>7. ASSUME NEW t \in Threads, UnregSlot(t) PROVE HandlerLowest'
    BY <1>7 DEF UnregSlot
  <1>8. ASSUME NEW t \in Threads, UnregWasm(t) PROVE HandlerLowest'
    BY <1>8 DEF UnregWasm
  <1>9. ASSUME NEW t \in Threads, Call(t) PROVE HandlerLowest'
    BY <1>9 DEF Call
  <1>10. ASSUME NEW t \in Threads, CallEnds(t) PROVE HandlerLowest'
    BY <1>10 DEF CallEnds
  <1>10a. ASSUME NEW t \in Threads, ChildDies(t) PROVE HandlerLowest'
    BY <1>10a DEF ChildDies
  <1>11. CASE ChildFires
    BY <1>11 DEF ChildFires
  <1>11a. CASE ChildResumes
    BY <1>11a DEF ChildResumes
  <1>11b. CASE ChildGivesUp
    BY <1>11b DEF ChildGivesUp
  <1>12. CASE CbLookup
    <2>1. CASE Head(sent) \in map
      <3>1. <<"pcb", Head(sent)>> \in Frames /\ Cb \in Stacks /\ Len(stack[Cb]) = 0
        BY <1>12, <2>1 DEF TablesType, Frames, Stacks, CbLookup
      <3>2. Push(Cb, <<"pcb", Head(sent)>>) /\ cb' = "handler" /\ fired' = Head(sent)
        BY <1>12, <2>1 DEF CbLookup
      <3>3. /\ \A u \in Stacks \ {Cb} : stack'[u] = stack[u]
            /\ stack'[Cb] # <<>> /\ Len(stack'[Cb]) = Len(stack[Cb]) + 1
            /\ stack'[Cb][Len(stack[Cb]) + 1] = <<"pcb", Head(sent)>>
        BY ZenonT(40), <3>1, <3>2, Pushed
      <3>4. Len(stack'[Cb]) = 1 /\ stack'[Cb][1] = <<"pcb", Head(sent)>>
        BY <3>1, <3>3
      <3>5. QED
        BY <3>2, <3>3, <3>4
    <2>2. CASE Head(sent) \notin map
      BY <1>12, <2>2 DEF CbLookup
    <2>3. QED
      BY <2>1, <2>2
  <1>13. CASE CbHandled
    <2>0. Cb \in Stacks
      BY DEF Stacks
    <2>1. stack[Cb] # <<>> /\ Pop(Cb)
      BY <1>13 DEF CbHandled, MayCall, InWasm, Top
    <2>2. /\ \A u \in Stacks \ {Cb} : stack'[u] = stack[u]
          /\ Len(stack[Cb]) \in Nat \ {0} /\ Len(stack'[Cb]) = Len(stack[Cb]) - 1
          /\ Top(Cb) = stack[Cb][Len(stack[Cb])][1] /\ Len(stack[Cb]) \in 1 .. Len(stack[Cb])
          /\ \A i \in 1 .. Len(stack'[Cb]) : i \in 1 .. Len(stack[Cb]) /\ stack'[Cb][i] = stack[Cb][i]
          /\ IF Len(stack[Cb]) = 1 THEN stack'[Cb] = <<>> ELSE 1 \in 1 .. Len(stack'[Cb]) /\ stack'[Cb] # <<>>
      BY <2>0, <2>1, Popped DEF StacksOK
    <2>3. Len(stack[Cb]) = 1
      BY <1>13, <2>0, <2>2 DEF CbHandled
    <2>4. stack'[Cb] = <<>> /\ cb' = "reply"
      BY <1>13, <2>2, <2>3 DEF CbHandled
    <2>5. \A u \in Stacks : \A i \in 1 .. Len(stack'[u]) : stack'[u][i][1] = "pcb" => u = Cb /\ i = 1
      <3>1. \A u \in Stacks \ {Cb} : \A i \in 1 .. Len(stack'[u]) : stack'[u][i][1] = "pcb" => u = Cb /\ i = 1
        BY <2>2
      <3>2. \A i \in 1 .. Len(stack'[Cb]) : stack'[Cb][i][1] = "pcb" => i = 1
        BY <2>0, <2>2
      <3>3. QED
        BY <3>1, <3>2
    <2>6. QED
      BY <2>4, <2>5
  <1>14. CASE CbReply
    BY <1>14 DEF CbReply
  <1>15. ASSUME NEW t \in Stacks, WasmEnter(t) PROVE HandlerLowest'
    <2>1. PICK f \in Frames : f[1] # "pcb" /\ Push(t, f)
      <3>1. <<"wasm", tlMeta[t]>> \in Frames /\ <<"wasm", tlMeta[t]>>[1] # "pcb"
        BY DEF LocalsType, Frames
      <3>2. QED
        BY <1>15, <3>1 DEF WasmEnter
    <2>2. /\ \A u \in Stacks \ {t} : stack'[u] = stack[u]
          /\ Len(stack[t]) \in Nat /\ Len(stack'[t]) = Len(stack[t]) + 1 /\ stack'[t] # <<>>
          /\ \A i \in 1 .. Len(stack[t]) : stack'[t][i] = stack[t][i]
          /\ stack'[t][Len(stack[t]) + 1] = f
          /\ \A i \in 1 .. Len(stack'[t]) : i \in 1 .. Len(stack[t]) \/ i = Len(stack[t]) + 1
      BY <2>1, Pushed
    <2>3. cb' = cb /\ fired' = fired /\ (t = Cb => cb = "handler")
      BY <1>15 DEF WasmEnter, MayCall, InWasm, Top
    <2>4. cb = "handler" => Len(stack[Cb]) > 0 /\ 1 \in 1 .. Len(stack[Cb]) /\ Cb \in Stacks
      <3>1. stack[Cb] \in Seq(Frames)
        BY DEF Stacks, StacksOK
      <3>2. QED
        BY <3>1 DEF Stacks
    <2>5. cb' = "handler" => stack'[Cb] # <<>> /\ stack'[Cb][1] = <<"pcb", fired'>>
      BY <2>2, <2>3, <2>4
    <2>6. cb' # "handler" => stack'[Cb] = <<>>
      BY <2>2, <2>3 DEF Stacks
    <2>7. \A u \in Stacks \ {t} : \A i \in 1 .. Len(stack'[u]) : stack'[u][i][1] = "pcb" => u = Cb /\ i = 1
      BY <2>2
    <2>8. \A i \in 1 .. Len(stack'[t]) : stack'[t][i][1] = "pcb" => t = Cb /\ i = 1
      BY <2>1, <2>2
    <2>9. QED
      BY <2>5, <2>6, <2>7, <2>8
  <1>16. ASSUME NEW t \in Stacks, WasmFires(t) PROVE HandlerLowest'
    <2>1. PICK f \in Frames : f[1] # "pcb" /\ Push(t, f)
      <3>1. PICK w \in WSlots : wslots[w] # None /\ Push(t, <<"wcb", wslots[w]>>)
        BY <1>16 DEF WasmFires
      <3>2. <<"wcb", wslots[w]>> \in Frames /\ <<"wcb", wslots[w]>>[1] # "pcb"
        BY <3>1 DEF TablesType, OpsType, Frames
      <3>3. QED
        BY <3>1, <3>2
    <2>2. /\ \A u \in Stacks \ {t} : stack'[u] = stack[u]
          /\ Len(stack[t]) \in Nat /\ Len(stack'[t]) = Len(stack[t]) + 1 /\ stack'[t] # <<>>
          /\ \A i \in 1 .. Len(stack[t]) : stack'[t][i] = stack[t][i]
          /\ stack'[t][Len(stack[t]) + 1] = f
          /\ \A i \in 1 .. Len(stack'[t]) : i \in 1 .. Len(stack[t]) \/ i = Len(stack[t]) + 1
      BY <2>1, Pushed
    <2>3. cb' = cb /\ fired' = fired /\ (t = Cb => cb = "handler")
      BY <1>16 DEF WasmFires, MayCall, InWasm, Top
    <2>4. cb = "handler" => Len(stack[Cb]) > 0 /\ 1 \in 1 .. Len(stack[Cb]) /\ Cb \in Stacks
      <3>1. stack[Cb] \in Seq(Frames)
        BY DEF Stacks, StacksOK
      <3>2. QED
        BY <3>1 DEF Stacks
    <2>5. cb' = "handler" => stack'[Cb] # <<>> /\ stack'[Cb][1] = <<"pcb", fired'>>
      BY <2>2, <2>3, <2>4
    <2>6. cb' # "handler" => stack'[Cb] = <<>>
      BY <2>2, <2>3 DEF Stacks
    <2>7. \A u \in Stacks \ {t} : \A i \in 1 .. Len(stack'[u]) : stack'[u][i][1] = "pcb" => u = Cb /\ i = 1
      BY <2>2
    <2>8. \A i \in 1 .. Len(stack'[t]) : stack'[t][i][1] = "pcb" => t = Cb /\ i = 1
      BY <2>1, <2>2
    <2>9. QED
      BY <2>5, <2>6, <2>7, <2>8
  <1>17. ASSUME NEW t \in Stacks, WasmReturns(t) PROVE HandlerLowest'
    <2>1. stack[t] # <<>> /\ Pop(t)
      BY <1>17 DEF WasmReturns, MayCall, InWasm, Top
    <2>2. /\ \A u \in Stacks \ {t} : stack'[u] = stack[u]
          /\ Len(stack[t]) \in Nat \ {0} /\ Len(stack'[t]) = Len(stack[t]) - 1
          /\ Top(t) = stack[t][Len(stack[t])][1] /\ Len(stack[t]) \in 1 .. Len(stack[t])
          /\ \A i \in 1 .. Len(stack'[t]) : i \in 1 .. Len(stack[t]) /\ stack'[t][i] = stack[t][i]
          /\ IF Len(stack[t]) = 1 THEN stack'[t] = <<>> ELSE 1 \in 1 .. Len(stack'[t]) /\ stack'[t] # <<>>
      BY <2>1, Popped DEF StacksOK
    <2>3. cb' = cb /\ fired' = fired /\ (t = Cb => cb = "handler") /\ Top(t) # "pcb"
      BY <1>17 DEF WasmReturns, MayCall, InWasm, Top
    <2>4. t = Cb => Len(stack[t]) # 1
      BY <2>2, <2>3
    <2>5. t = Cb => stack'[t] # <<>> /\ stack'[t][1] = stack[t][1]
      BY <2>2, <2>4
    <2>6. cb' = "handler" => stack'[Cb] # <<>> /\ stack'[Cb][1] = <<"pcb", fired'>>
      BY <2>2, <2>3, <2>5 DEF Stacks
    <2>7. cb' # "handler" => stack'[Cb] = <<>>
      BY <2>2, <2>3 DEF Stacks
    <2>8. \A u \in Stacks \ {t} : \A i \in 1 .. Len(stack'[u]) : stack'[u][i][1] = "pcb" => u = Cb /\ i = 1
      BY <2>2
    <2>9. \A i \in 1 .. Len(stack'[t]) : stack'[t][i][1] = "pcb" => t = Cb /\ i = 1
      BY <2>2
    <2>10. QED
      BY <2>6, <2>7, <2>8, <2>9
  <1>18. ASSUME NEW t \in Stacks, WasmLeave(t) PROVE HandlerLowest'
    <2>1. stack[t] # <<>> /\ Pop(t)
      BY <1>18 DEF WasmLeave, MayCall, InWasm, Top
    <2>2. /\ \A u \in Stacks \ {t} : stack'[u] = stack[u]
          /\ Len(stack[t]) \in Nat \ {0} /\ Len(stack'[t]) = Len(stack[t]) - 1
          /\ Top(t) = stack[t][Len(stack[t])][1] /\ Len(stack[t]) \in 1 .. Len(stack[t])
          /\ \A i \in 1 .. Len(stack'[t]) : i \in 1 .. Len(stack[t]) /\ stack'[t][i] = stack[t][i]
          /\ IF Len(stack[t]) = 1 THEN stack'[t] = <<>> ELSE 1 \in 1 .. Len(stack'[t]) /\ stack'[t] # <<>>
      BY <2>1, Popped DEF StacksOK
    <2>3. cb' = cb /\ fired' = fired /\ (t = Cb => cb = "handler") /\ Top(t) # "pcb"
      BY <1>18 DEF WasmLeave, MayCall, InWasm, Top
    <2>4. t = Cb => Len(stack[t]) # 1
      BY <2>2, <2>3
    <2>5. t = Cb => stack'[t] # <<>> /\ stack'[t][1] = stack[t][1]
      BY <2>2, <2>4
    <2>6. cb' = "handler" => stack'[Cb] # <<>> /\ stack'[Cb][1] = <<"pcb", fired'>>
      BY <2>2, <2>3, <2>5 DEF Stacks
    <2>7. cb' # "handler" => stack'[Cb] = <<>>
      BY <2>2, <2>3 DEF Stacks
    <2>8. \A u \in Stacks \ {t} : \A i \in 1 .. Len(stack'[u]) : stack'[u][i][1] = "pcb" => u = Cb /\ i = 1
      BY <2>2
    <2>9. \A i \in 1 .. Len(stack'[t]) : stack'[t][i][1] = "pcb" => t = Cb /\ i = 1
      BY <2>2
    <2>10. QED
      BY <2>6, <2>7, <2>8, <2>9
  <1>19. CASE UNCHANGED vars
    BY <1>19 DEF vars
  <1>20. QED
    BY <1>1, <1>2, <1>3, <1>4, <1>5, <1>6, <1>7, <1>8, <1>9, <1>10, <1>10a,
       <1>11, <1>11a, <1>11b, <1>12, <1>13, <1>14, <1>15, <1>16, <1>17, <1>18, <1>19
    DEF Next, Register, Unregister, ProcessCall, Child, CbLoop, Wasm

-----------------------------------------------------------------------------
(* tl_invoking_meta.                                                       *)

\* What is below a frame depends on the frames below it only.
LEMMA BelowKept ==
  ASSUME NEW s, NEW r, NEW m \in Nat, \A i \in 1 .. m : r[i] = s[i], NEW n \in 1 .. m + 1
  PROVE  WasmBelow(r, n) <=> WasmBelow(s, n)
  <1>1. \A i \in 1 .. n - 1 : i \in 1 .. m
    OBVIOUS
  <1>2. QED
    BY <1>1 DEF WasmBelow

\* The flag stays right when a frame is pushed: a wasm call sets it, others leave it.
LEMMA MetaPush ==
  ASSUME NEW s, Len(s) \in Nat, NEW r, NEW f, NEW m,
         Len(r) = Len(s) + 1, r[Len(s) + 1] = f,
         \A i \in 1 .. Len(s) : r[i] = s[i],
         \A i \in 1 .. Len(r) : i \in 1 .. Len(s) \/ i = Len(s) + 1,
         MetaRight(s, m)
  PROVE  /\ f[1] # "wasm" => MetaRight(r, m)
         /\ f = <<"wasm", m>> => MetaRight(r, TRUE)
  <1> DEFINE n == Len(s)
  <1>1. \A i \in 1 .. n + 1 : WasmBelow(r, i) <=> WasmBelow(s, i)
    BY BelowKept
  <1>2. n \in Nat /\ Len(r) = n + 1 /\ n + 1 \in 1 .. n + 1
    OBVIOUS
  <1>3. \A i \in 1 .. n : i \in 1 .. n + 1
    BY <1>2
  <1>4. WasmBelow(r, Len(r) + 1) <=> WasmBelow(s, n + 1) \/ f[1] = "wasm"
    <2>1. \A i : i \in 1 .. (n + 1) + 1 - 1 <=> i \in 1 .. n \/ i = n + 1
      BY <1>2
    <2>2. \A i : i \in 1 .. (n + 1) - 1 <=> i \in 1 .. n
      BY <1>2
    <2>3. QED
      BY <1>2, <2>1, <2>2 DEF WasmBelow
  <1>5. \A i \in 1 .. n : r[i][1] = "wasm" => (r[i][2] = TRUE <=> WasmBelow(r, i))
    BY <1>1, <1>3 DEF MetaRight
  <1>6. WasmBelow(s, n + 1) <=> m = TRUE
    BY DEF MetaRight
  <1>7. WasmBelow(r, n + 1) <=> m = TRUE
    BY <1>1, <1>2, <1>6
  <1> HIDE DEF n
  <1>8. ASSUME f[1] # "wasm" PROVE MetaRight(r, m)
    BY <1>2, <1>4, <1>5, <1>6, <1>8 DEF MetaRight, n
  <1>9. ASSUME f = <<"wasm", m>> PROVE MetaRight(r, TRUE)
    BY <1>2, <1>4, <1>5, <1>7, <1>9 DEF MetaRight, n
  <1>10. QED
    BY <1>8, <1>9

\* And when one is popped: a wasm call restores it, others leave it.
LEMMA MetaPop ==
  ASSUME NEW s, Len(s) \in Nat \ {0}, NEW r, NEW m,
         Len(r) = Len(s) - 1, \A i \in 1 .. Len(s) - 1 : r[i] = s[i],
         MetaRight(s, m)
  PROVE  IF s[Len(s)][1] = "wasm"
           THEN \A b \in BOOLEAN : s[Len(s)][2] = b => MetaRight(r, b)
           ELSE MetaRight(r, m)
  <1> DEFINE n == Len(s)
  <1>1. n \in Nat \ {0} /\ n - 1 \in Nat /\ (n - 1) + 1 = n /\ Len(r) = n - 1 /\ n \in 1 .. n
    OBVIOUS
  <1>2. \A i \in 1 .. n : WasmBelow(r, i) <=> WasmBelow(s, i)
    BY <1>1, BelowKept
  <1>3. WasmBelow(s, n + 1) <=> WasmBelow(s, n) \/ s[n][1] = "wasm"
    <2>1. \A i : i \in 1 .. n + 1 - 1 <=> i \in 1 .. n - 1 \/ i = n
      BY <1>1
    <2>2. QED
      BY <2>1 DEF WasmBelow
  <1>4. \A i \in 1 .. n - 1 : i \in 1 .. n
    BY <1>1
  <1>5. \A i \in 1 .. n - 1 : r[i][1] = "wasm" => (r[i][2] = TRUE <=> WasmBelow(r, i))
    BY <1>2, <1>4 DEF MetaRight
  <1>6. WasmBelow(r, Len(r) + 1) <=> WasmBelow(s, n)
    BY <1>1, <1>2
  <1>7. m = TRUE <=> WasmBelow(s, n + 1)
    BY DEF MetaRight
  <1>8. s[n][1] = "wasm" => (s[n][2] = TRUE <=> WasmBelow(s, n))
    BY <1>1 DEF MetaRight
  <1> HIDE DEF n
  <1>9. ASSUME s[n][1] = "wasm", NEW b \in BOOLEAN, s[n][2] = b PROVE MetaRight(r, b)
    BY <1>1, <1>5, <1>6, <1>8, <1>9 DEF MetaRight
  <1>10. ASSUME s[n][1] # "wasm" PROVE MetaRight(r, m)
    BY <1>1, <1>3, <1>5, <1>6, <1>7, <1>10 DEF MetaRight
  <1>11. QED
    BY <1>9, <1>10 DEF n

\* MetaPush for the stack of t.
LEMMA MetaPushed ==
  ASSUME StacksOK, NEW t \in Stacks, NEW f \in Frames, Push(t, f), NEW m, MetaRight(stack[t], m)
  PROVE  /\ f[1] # "wasm" => MetaRight(stack'[t], m)
         /\ f = <<"wasm", m>> => MetaRight(stack'[t], TRUE)
  <1>1. /\ Len(stack[t]) \in Nat /\ Len(stack'[t]) = Len(stack[t]) + 1
        /\ stack'[t][Len(stack[t]) + 1] = f
        /\ \A i \in 1 .. Len(stack[t]) : stack'[t][i] = stack[t][i]
        /\ \A i \in 1 .. Len(stack'[t]) : i \in 1 .. Len(stack[t]) \/ i = Len(stack[t]) + 1
    BY Pushed
  <1> DEFINE s == stack[t]
             r == stack'[t]
  <1> HIDE DEF s, r
  <1>2. /\ Len(s) \in Nat /\ Len(r) = Len(s) + 1 /\ r[Len(s) + 1] = f
        /\ \A i \in 1 .. Len(s) : r[i] = s[i]
        /\ \A i \in 1 .. Len(r) : i \in 1 .. Len(s) \/ i = Len(s) + 1
        /\ MetaRight(s, m)
    BY <1>1 DEF s, r
  <1>3. (f[1] # "wasm" => MetaRight(r, m)) /\ (f = <<"wasm", m>> => MetaRight(r, TRUE))
    BY ZenonT(40), <1>2, MetaPush
  <1>4. QED
    BY <1>3 DEF s, r

\* Calls set tl_invoking_meta and restore it.
LEMMA MetaStep ==
  ASSUME TypeOK, MetaKnown, [Next]_vars
  PROVE  MetaKnown'
  <1>0. OpsType /\ TablesType /\ LocalsType /\ StacksOK
    BY TypeParts DEF StackType
  <1> USE <1>0, CallbacksAssumption DEF MetaKnown, tables, opVars, callVars, wireVars, stackVars
  <1>1. ASSUME NEW t \in Threads, RegMap(t) PROVE MetaKnown'
    BY <1>1 DEF RegMap
  <1>2. ASSUME NEW t \in Threads, RegSlot(t) PROVE MetaKnown'
    BY <1>2 DEF RegSlot
  <1>3. ASSUME NEW t \in Threads, RegWasm(t) PROVE MetaKnown'
    BY <1>3 DEF RegWasm
  <1>4. ASSUME NEW t \in Threads, RegPublish(t) PROVE MetaKnown'
    BY <1>4 DEF RegPublish
  <1>5. ASSUME NEW t \in Threads, UnregPublish(t) PROVE MetaKnown'
    BY <1>5 DEF UnregPublish
  <1>6. ASSUME NEW t \in Threads, UnregMap(t) PROVE MetaKnown'
    BY <1>6 DEF UnregMap
  <1>7. ASSUME NEW t \in Threads, UnregSlot(t) PROVE MetaKnown'
    BY <1>7 DEF UnregSlot
  <1>8. ASSUME NEW t \in Threads, UnregWasm(t) PROVE MetaKnown'
    BY <1>8 DEF UnregWasm
  <1>9. ASSUME NEW t \in Threads, Call(t) PROVE MetaKnown'
    BY <1>9 DEF Call
  <1>10. ASSUME NEW t \in Threads, CallEnds(t) PROVE MetaKnown'
    BY <1>10 DEF CallEnds
  <1>10a. ASSUME NEW t \in Threads, ChildDies(t) PROVE MetaKnown'
    BY <1>10a DEF ChildDies
  <1>11. CASE ChildFires
    BY <1>11 DEF ChildFires
  <1>11a. CASE ChildResumes
    BY <1>11a DEF ChildResumes
  <1>11b. CASE ChildGivesUp
    BY <1>11b DEF ChildGivesUp
  <1>12. CASE CbLookup
    <2>1. CASE Head(sent) \in map
      <3>1. <<"pcb", Head(sent)>> \in Frames /\ Cb \in Stacks /\ Push(Cb, <<"pcb", Head(sent)>>) /\ tlMeta' = tlMeta
        BY <1>12, <2>1 DEF TablesType, Frames, Stacks, CbLookup
      <3>2. \A u \in Stacks \ {Cb} : stack'[u] = stack[u]
        BY <3>1, Pushed
      <3>3. MetaRight(stack'[Cb], tlMeta[Cb])
        <4>2. MetaRight(stack[Cb], tlMeta[Cb]) /\ <<"pcb", Head(sent)>>[1] # "wasm"
          BY <3>1
        <4>3. QED
          BY <3>1, <4>2, MetaPushed
      <3>4. QED
        BY <3>1, <3>2, <3>3
    <2>2. CASE Head(sent) \notin map
      BY <1>12, <2>2 DEF CbLookup
    <2>3. QED
      BY <2>1, <2>2
  <1>13. CASE CbHandled
    <2>0. Cb \in Stacks
      BY DEF Stacks
    <2>1. stack[Cb] # <<>> /\ Pop(Cb)
      BY <1>13 DEF CbHandled, MayCall, InWasm, Top
    <2>2. /\ \A u \in Stacks \ {Cb} : stack'[u] = stack[u]
          /\ Len(stack[Cb]) \in Nat \ {0} /\ Len(stack'[Cb]) = Len(stack[Cb]) - 1
          /\ \A i \in 1 .. Len(stack[Cb]) - 1 : stack'[Cb][i] = stack[Cb][i]
          /\ Last(stack[Cb]) = stack[Cb][Len(stack[Cb])] /\ Last(stack[Cb]) \in Frames
          /\ Top(Cb) = stack[Cb][Len(stack[Cb])][1]
      BY <2>0, <2>1, Popped
    <2>3. MetaRight(stack[Cb], tlMeta[Cb])
      BY <2>0
    <2>4. stack[Cb][Len(stack[Cb])][1] # "wasm" /\ tlMeta' = tlMeta
      BY <1>13, <2>2 DEF CbHandled
    <2>5. MetaRight(stack'[Cb], tlMeta[Cb])
      BY <2>2, <2>3, <2>4, MetaPop
    <2>6. QED
      BY <2>0, <2>2, <2>4, <2>5
  <1>14. CASE CbReply
    BY <1>14 DEF CbReply
  <1>15. ASSUME NEW t \in Stacks, WasmEnter(t) PROVE MetaKnown'
    <2>1. PICK f \in Frames : f = <<"wasm", tlMeta[t]>> /\ Push(t, f)
      <3>1. <<"wasm", tlMeta[t]>> \in Frames
        BY DEF LocalsType, Frames
      <3>2. QED
        BY <1>15, <3>1 DEF WasmEnter
    <2>2. \A u \in Stacks \ {t} : stack'[u] = stack[u]
      BY <2>1, Pushed
    <2>3. MetaRight(stack[t], tlMeta[t])
      OBVIOUS
    <2>4. MetaRight(stack'[t], TRUE)
      BY <2>1, <2>3, MetaPushed
    <2>5. tlMeta'[t] = TRUE /\ \A u \in Stacks \ {t} : tlMeta'[u] = tlMeta[u]
      BY <1>15 DEF WasmEnter, LocalsType
    <2>6. QED
      BY <2>2, <2>4, <2>5
  <1>16. ASSUME NEW t \in Stacks, WasmFires(t) PROVE MetaKnown'
    <2>1. PICK f \in Frames : f[1] # "wasm" /\ Push(t, f)
      <3>1. PICK w \in WSlots : wslots[w] # None /\ Push(t, <<"wcb", wslots[w]>>)
        BY <1>16 DEF WasmFires
      <3>2. <<"wcb", wslots[w]>> \in Frames /\ <<"wcb", wslots[w]>>[1] # "wasm"
        BY <3>1 DEF TablesType, OpsType, Frames
      <3>3. QED
        BY <3>1, <3>2
    <2>2. \A u \in Stacks \ {t} : stack'[u] = stack[u]
      BY <2>1, Pushed
    <2>3. MetaRight(stack[t], tlMeta[t])
      OBVIOUS
    <2>4. MetaRight(stack'[t], tlMeta[t])
      BY <2>1, <2>3, MetaPushed
    <2>5. tlMeta' = tlMeta
      BY <1>16 DEF WasmFires
    <2>6. QED
      BY <2>2, <2>4, <2>5
  <1>17. ASSUME NEW t \in Stacks, WasmReturns(t) PROVE MetaKnown'
    <2>1. stack[t] # <<>> /\ Pop(t)
      BY <1>17 DEF WasmReturns, MayCall, InWasm, Top
    <2>2. /\ \A u \in Stacks \ {t} : stack'[u] = stack[u]
          /\ Len(stack[t]) \in Nat \ {0} /\ Len(stack'[t]) = Len(stack[t]) - 1
          /\ \A i \in 1 .. Len(stack[t]) - 1 : stack'[t][i] = stack[t][i]
          /\ Last(stack[t]) = stack[t][Len(stack[t])] /\ Last(stack[t]) \in Frames
          /\ Top(t) = stack[t][Len(stack[t])][1]
      BY <2>1, Popped
    <2>3. MetaRight(stack[t], tlMeta[t])
      OBVIOUS
    <2>4. stack[t][Len(stack[t])][1] # "wasm" /\ tlMeta' = tlMeta
      BY <1>17, <2>2 DEF WasmReturns
    <2>5. MetaRight(stack'[t], tlMeta[t])
      BY <2>2, <2>3, <2>4, MetaPop
    <2>6. QED
      BY <2>2, <2>4, <2>5
  <1>18. ASSUME NEW t \in Stacks, WasmLeave(t) PROVE MetaKnown'
    <2>1. stack[t] # <<>> /\ Pop(t)
      BY <1>18 DEF WasmLeave, MayCall, InWasm, Top
    <2>2. /\ \A u \in Stacks \ {t} : stack'[u] = stack[u]
          /\ Len(stack[t]) \in Nat \ {0} /\ Len(stack'[t]) = Len(stack[t]) - 1
          /\ \A i \in 1 .. Len(stack[t]) - 1 : stack'[t][i] = stack[t][i]
          /\ Last(stack[t]) = stack[t][Len(stack[t])] /\ Last(stack[t]) \in Frames
          /\ Top(t) = stack[t][Len(stack[t])][1]
      BY <2>1, Popped
    <2>3. MetaRight(stack[t], tlMeta[t])
      OBVIOUS
    <2>4. stack[t][Len(stack[t])][1] = "wasm"
      BY <1>18, <2>2 DEF WasmLeave, InWasm
    <2>5. Last(stack[t])[2] \in BOOLEAN
      BY <2>2, <2>4 DEF Frames
    <2>6. PICK b \in BOOLEAN : b = Last(stack[t])[2]
      BY <2>5
    <2>7. MetaRight(stack'[t], b)
      <3> DEFINE s == stack[t]
                 r == stack'[t]
      <3>1. /\ Len(s) \in Nat \ {0} /\ Len(r) = Len(s) - 1 /\ \A i \in 1 .. Len(s) - 1 : r[i] = s[i]
            /\ MetaRight(s, tlMeta[t]) /\ s[Len(s)][1] = "wasm" /\ s[Len(s)][2] = b
        BY <2>2, <2>3, <2>4, <2>6
      <3> HIDE DEF s, r
      <3>2. MetaRight(r, b)
        BY <3>1, MetaPop
      <3>3. QED
        BY <3>2 DEF r
    <2>8. tlMeta'[t] = b /\ \A u \in Stacks \ {t} : tlMeta'[u] = tlMeta[u]
      BY <1>18, <2>6 DEF WasmLeave, LocalsType
    <2>9. QED
      BY <2>2, <2>7, <2>8
  <1>19. CASE UNCHANGED vars
    BY <1>19 DEF vars
  <1>20. QED
    BY <1>1, <1>2, <1>3, <1>4, <1>5, <1>6, <1>7, <1>8, <1>9, <1>10, <1>10a,
       <1>11, <1>11a, <1>11b, <1>12, <1>13, <1>14, <1>15, <1>16, <1>17, <1>18, <1>19
    DEF Next, Register, Unregister, ProcessCall, Child, CbLoop, Wasm

\* On entry the thread locals are those of the callback.
LEMMA KeysStep ==
  ASSUME TypeOK, KeysKnown, [Next]_vars
  PROVE  KeysKnown'
  <1>0. OpsType /\ TablesType /\ LocalsType /\ StacksOK
    BY TypeParts DEF StackType
  <1> USE <1>0, CallbacksAssumption DEF KeysKnown, Stacks, tables, opVars, callVars, wireVars, stackVars
  <1>1. ASSUME NEW t \in Threads, RegMap(t) PROVE KeysKnown'
    <2>1. stack' = stack /\ fresh' = fresh /\ tlKey' = tlKey /\ wKey' = wKey
      BY <1>1 DEF RegMap
    <2>2. QED
      BY <2>1 DEF Top
  <1>2. ASSUME NEW t \in Threads, RegSlot(t) PROVE KeysKnown'
    <2>1. stack' = stack /\ fresh' = fresh /\ tlKey' = tlKey /\ wKey' = wKey
      BY <1>2 DEF RegSlot
    <2>2. QED
      BY <2>1 DEF Top
  <1>3. ASSUME NEW t \in Threads, RegWasm(t) PROVE KeysKnown'
    <2>1. stack' = stack /\ fresh' = fresh /\ tlKey' = tlKey /\ wKey' = wKey
      BY <1>3 DEF RegWasm
    <2>2. QED
      BY <2>1 DEF Top
  <1>4. ASSUME NEW t \in Threads, RegPublish(t) PROVE KeysKnown'
    <2>1. stack' = stack /\ fresh' = fresh /\ tlKey' = tlKey /\ wKey' = wKey
      BY <1>4 DEF RegPublish
    <2>2. QED
      BY <2>1 DEF Top
  <1>5. ASSUME NEW t \in Threads, UnregPublish(t) PROVE KeysKnown'
    <2>1. stack' = stack /\ fresh' = fresh /\ tlKey' = tlKey /\ wKey' = wKey
      BY <1>5 DEF UnregPublish
    <2>2. QED
      BY <2>1 DEF Top
  <1>6. ASSUME NEW t \in Threads, UnregMap(t) PROVE KeysKnown'
    <2>1. stack' = stack /\ fresh' = fresh /\ tlKey' = tlKey /\ wKey' = wKey
      BY <1>6 DEF UnregMap
    <2>2. QED
      BY <2>1 DEF Top
  <1>7. ASSUME NEW t \in Threads, UnregSlot(t) PROVE KeysKnown'
    <2>1. stack' = stack /\ fresh' = fresh /\ tlKey' = tlKey /\ wKey' = wKey
      BY <1>7 DEF UnregSlot
    <2>2. QED
      BY <2>1 DEF Top
  <1>8. ASSUME NEW t \in Threads, UnregWasm(t) PROVE KeysKnown'
    <2>1. stack' = stack /\ fresh' = fresh /\ tlKey' = tlKey /\ wKey' = wKey
      BY <1>8 DEF UnregWasm
    <2>2. QED
      BY <2>1 DEF Top
  <1>9. ASSUME NEW t \in Threads, Call(t) PROVE KeysKnown'
    <2>1. stack' = stack /\ fresh' = fresh /\ tlKey' = tlKey /\ wKey' = wKey
      BY <1>9 DEF Call
    <2>2. QED
      BY <2>1 DEF Top
  <1>10. ASSUME NEW t \in Threads, CallEnds(t) PROVE KeysKnown'
    <2>1. stack' = stack /\ fresh' = fresh /\ tlKey' = tlKey /\ wKey' = wKey
      BY <1>10 DEF CallEnds
    <2>2. QED
      BY <2>1 DEF Top
  <1>10a. ASSUME NEW t \in Threads, ChildDies(t) PROVE KeysKnown'
    <2>1. stack' = stack /\ fresh' = fresh /\ tlKey' = tlKey /\ wKey' = wKey
      BY <1>10a DEF ChildDies
    <2>2. QED
      BY <2>1 DEF Top
  <1>11. CASE ChildFires
    <2>1. stack' = stack /\ fresh' = fresh /\ tlKey' = tlKey /\ wKey' = wKey
      BY <1>11 DEF ChildFires
    <2>2. QED
      BY <2>1 DEF Top
  <1>11a. CASE ChildResumes
    <2>1. stack' = stack /\ fresh' = fresh /\ tlKey' = tlKey /\ wKey' = wKey
      BY <1>11a DEF ChildResumes
    <2>2. QED
      BY <2>1 DEF Top
  <1>11b. CASE ChildGivesUp
    <2>1. stack' = stack /\ fresh' = fresh /\ tlKey' = tlKey /\ wKey' = wKey
      BY <1>11b DEF ChildGivesUp
    <2>2. QED
      BY <2>1 DEF Top
  <1>12. CASE CbLookup
    <2>1. CASE Head(sent) \in map
      <3>1. <<"pcb", Head(sent)>> \in Frames /\ Cb \in Stacks /\ Push(Cb, <<"pcb", Head(sent)>>)
        BY <1>12, <2>1 DEF TablesType, Frames, Stacks, CbLookup
      <3>2. stack'[Cb] # <<>> /\ Last(stack'[Cb]) = <<"pcb", Head(sent)>> /\ Top(Cb)' = <<"pcb", Head(sent)>>[1]
        BY <3>1, Pushed
      <3>3. \A u \in Stacks : fresh'[u] => u = Cb
        BY <1>12, <2>1 DEF CbLookup, Entered
      <3>4. tlKey'[Cb] = Head(sent) /\ \A u \in Threads : tlKey'[u] = None
        BY <1>12, <2>1 DEF CbLookup, LocalsType
      <3>5. QED
        BY <3>2, <3>3, <3>4
    <2>2. CASE Head(sent) \notin map
      BY <1>12, <2>2 DEF CbLookup, Top
    <2>3. QED
      BY <2>1, <2>2
  <1>13. CASE CbHandled
    <2>1. \A u \in Stacks : ~fresh'[u]
      BY <1>13 DEF CbHandled, NotFresh
    <2>2. \A u \in Threads : tlKey'[u] = None
      BY <1>13 DEF CbHandled, LocalsType
    <2>3. QED
      BY <2>1, <2>2
  <1>14. CASE CbReply
    <2>1. stack' = stack /\ fresh' = fresh /\ tlKey' = tlKey /\ wKey' = wKey
      BY <1>14 DEF CbReply
    <2>2. QED
      BY <2>1 DEF Top
  <1>15. ASSUME NEW t \in Stacks, WasmEnter(t) PROVE KeysKnown'
    <2>1. \A u \in Stacks : ~fresh'[u]
      BY <1>15 DEF WasmEnter, NotFresh
    <2>2. \A u \in Threads : tlKey'[u] = None
      BY <1>15 DEF WasmEnter, LocalsType
    <2>3. QED
      BY <2>1, <2>2
  <1>16. ASSUME NEW t \in Stacks, WasmFires(t) PROVE KeysKnown'
    <2>1. PICK w \in WSlots : /\ wslots[w] # None /\ Push(t, <<"wcb", wslots[w]>>)
                              /\ wKey' = [wKey EXCEPT ![t] = wslots[w]]
      BY <1>16 DEF WasmFires
    <2>2. <<"wcb", wslots[w]>> \in Frames
      BY <2>1 DEF TablesType, OpsType, Frames
    <2>3. PICK f \in Frames : f = <<"wcb", wslots[w]>>
      BY <2>2
    <2>4. f[1] = "wcb" /\ f[2] = wslots[w]
      BY <2>3
    <2>5. /\ stack'[t] # <<>> /\ Last(stack'[t]) = f /\ Top(t)' = f[1]
          /\ Len(stack[t]) \in Nat /\ Len(stack'[t]) = Len(stack[t]) + 1
          /\ \A i \in 1 .. Len(stack[t]) : stack'[t][i] = stack[t][i]
      BY <2>1, <2>3, Pushed
    <2>6. stack[t] # <<>> /\ Last(stack[t])[1] = "wasm"
      BY <1>16 DEF WasmFires, InWasm, Top
    <2>7. Len(stack[t]) \in 1 .. Len(stack'[t]) - 1 /\ stack'[t][Len(stack[t])][1] = "wasm"
      <3>1. stack[t] \in Seq(Frames)
        BY DEF StacksOK
      <3>2. Len(stack[t]) \in Nat \ {0} /\ Last(stack[t]) = stack[t][Len(stack[t])]
        BY <2>6, <3>1, FrontFacts
      <3>3. \A n \in Nat \ {0} : n \in 1 .. n /\ n \in 1 .. (n + 1) - 1
        OBVIOUS
      <3>4. QED
        BY <2>5, <2>6, <3>2, <3>3
    <2>8. WasmBelow(stack'[t], Len(stack'[t]))
      BY <2>7 DEF WasmBelow
    <2>9. \A u \in Stacks : fresh'[u] => u = t
      BY <1>16 DEF WasmFires, Entered
    <2>10. wKey'[t] = wslots[w] /\ tlKey' = tlKey
      BY <1>16, <2>1 DEF WasmFires, LocalsType
    <2>11. QED
      BY <2>4, <2>5, <2>8, <2>9, <2>10
  <1>17. ASSUME NEW t \in Stacks, WasmReturns(t) PROVE KeysKnown'
    <2>1. \A u \in Stacks : ~fresh'[u]
      BY <1>17 DEF WasmReturns, NotFresh
    <2>2. \A u \in Threads : tlKey'[u] = None
      BY <1>17 DEF WasmReturns, LocalsType
    <2>3. QED
      BY <2>1, <2>2
  <1>18. ASSUME NEW t \in Stacks, WasmLeave(t) PROVE KeysKnown'
    <2>1. \A u \in Stacks : ~fresh'[u]
      BY <1>18 DEF WasmLeave, NotFresh
    <2>2. \A u \in Threads : tlKey'[u] = None
      BY <1>18 DEF WasmLeave, LocalsType
    <2>3. QED
      BY <2>1, <2>2
  <1>19. CASE UNCHANGED vars
    <2>1. stack' = stack /\ fresh' = fresh /\ tlKey' = tlKey /\ wKey' = wKey
      BY <1>19 DEF vars
    <2>2. QED
      BY <2>1 DEF Top
  <1>20. QED
    BY <1>1, <1>2, <1>3, <1>4, <1>5, <1>6, <1>7, <1>8, <1>9, <1>10, <1>10a,
       <1>11, <1>11a, <1>11b, <1>12, <1>13, <1>14, <1>15, <1>16, <1>17, <1>18, <1>19
    DEF Next, Register, Unregister, ProcessCall, Child, CbLoop, Wasm

-----------------------------------------------------------------------------
\* The tables, the operations and the stacks account for each other.
THEOREM Invariance == Spec => []IInv
  <1>1. IInv /\ [Next]_vars => IInv'
    <2>1. SUFFICES ASSUME IInv, [Next]_vars PROVE IInv'
      OBVIOUS
    <2>2. TypeOK /\ OpsOK /\ TablesOK /\ FiringOK /\ FramesOK /\ HandlerLowest /\ MetaKnown /\ KeysKnown
      BY <2>1 DEF IInv, FramesOK
    <2>3. TypeOK'
      BY <2>1, <2>2, TypeStep
    <2>4. OpsOK' /\ TablesOK' /\ FiringOK'
      BY <2>1, <2>2, OpsStep, TablesStep, FiringStep
    <2>5. FramesOK'
      BY <2>1, <2>2, HandlerStep, MetaStep, KeysStep DEF FramesOK
    <2>6. QED
      BY <2>3, <2>4, <2>5 DEF IInv
  <1>2. QED
    BY InitIInv, <1>1, PTL DEF Spec

\* The trampoline slots, the dispatchers, the wasm table and the registry agree
\* about each callback the application holds, and have nothing of the others.
THEOREM TablesInAgreement == Spec => []TablesAgree
  <1>1. IInv => TablesAgree
    <2>1. SUFFICES ASSUME IInv PROVE TablesAgree
      OBVIOUS
    <2>2. TypeOK /\ TablesOK /\ TablesType
      BY <2>1, TypeParts DEF IInv
    <2>3. QED
      BY <2>2 DEF TablesAgree, TablesOK, TablesType, RegisteredIn, NoneOut, EntriesRight
  <1>2. QED
    BY <1>1, Invariance, PTL

\* Unregister waits for the call that fired the callback (host 150, 795): when
\* it has returned no handler of it runs, as long as no child died or gave up
\* while it waited for a callback.
THEOREM UnregisterWaits == Spec => []NoHandlerAfterUnregister
  <1>1. IInv => NoHandlerAfterUnregister
    <2>1. SUFFICES ASSUME IInv, orphans = 0, NEW k \in Keys, <<"pcb", k>> \in Range(stack[Cb])
          PROVE  st[k] # "none"
      BY DEF NoHandlerAfterUnregister
    <2>2. /\ stack[Cb] \in Seq(Frames) /\ Cb \in Stacks /\ TablesOK /\ FiringOK /\ HandlerLowest
      BY <2>1 DEF IInv, FramesOK, TypeOK, Stacks
    <2>3. PICK i \in 1 .. Len(stack[Cb]) : stack[Cb][i] = <<"pcb", k>>
      <3>1. DOMAIN stack[Cb] = 1 .. Len(stack[Cb])
        BY <2>2
      <3>2. QED
        BY <2>1, <3>1 DEF Range
    <2>4. i = 1 /\ stack[Cb] # <<>>
      <3>1. stack[Cb][i][1] = "pcb"
        BY <2>3
      <3>2. i = 1
        BY <2>2, <2>3, <3>1 DEF HandlerLowest
      <3>3. stack[Cb] # <<>>
        BY <2>2, <2>3
      <3>4. QED
        BY <3>2, <3>3
    <2>5. cb = "handler" /\ stack[Cb][1] = <<"pcb", fired>>
      BY <2>2, <2>4 DEF HandlerLowest
    <2>6. fired = k
      BY <2>3, <2>4, <2>5
    <2>7. QED
      BY <2>1, <2>2, <2>5, <2>6 DEF FiringOK, TablesOK, NoneOut
  <1>2. QED
    BY <1>1, Invariance, PTL

\* A callback that asks who it is on entry is told its own key, except a wasm
\* callback under a process handler (meta 1084-1092).
THEOREM CallbackKnowsItself == Spec => []ContextIsFirer
  <1>1. IInv => ContextIsFirer
    <2>1. SUFFICES ASSUME IInv, NEW t \in Stacks, fresh[t], ~(t = Cb /\ Top(t) = "wcb")
          PROVE  Recovered(t) = Last(stack[t])[2]
      BY DEF ContextIsFirer
    <2>2. /\ TypeOK /\ HandlerLowest /\ MetaKnown /\ KeysKnown
          /\ LocalsType /\ stack[t] \in Seq(Frames) /\ stack[t] # <<>>
      BY <2>1, TypeParts DEF IInv, FramesOK, TypeOK, KeysKnown
    <2>3. /\ Len(stack[t]) \in Nat \ {0} /\ Last(stack[t]) = stack[t][Len(stack[t])]
          /\ Last(stack[t]) \in Frames /\ Top(t) = Last(stack[t])[1]
      BY <2>2, FrontFacts DEF Top
    <2>4. Top(t) \in {"pcb", "wcb"} /\ Last(stack[t])[2] \in Keys
      <3>1. Top(t) # "wasm"
        BY <2>1, <2>2 DEF KeysKnown
      <3>2. QED
        BY <2>3, <3>1 DEF Frames
    <2>5. CASE Top(t) = "pcb"
      <3>1. tlKey[t] = Last(stack[t])[2]
        BY <2>1, <2>2, <2>5 DEF KeysKnown
      <3>2. tlKey[t] # None
        BY <2>4, <3>1, CallbacksAssumption
      <3>3. QED
        BY <3>1, <3>2 DEF Recovered
    <2>6. CASE Top(t) = "wcb"
      <3>1. t \in Threads
        BY <2>1, <2>6 DEF Stacks
      <3>2. tlKey[t] = None /\ wKey[t] = Last(stack[t])[2] /\ WasmBelow(stack[t], Len(stack[t]))
        BY <2>1, <2>2, <2>6, <3>1 DEF KeysKnown
      <3>3. WasmBelow(stack[t], Len(stack[t]) + 1)
        <4>1. \A n \in Nat \ {0} : \A i \in 1 .. n - 1 : i \in 1 .. n + 1 - 1
          OBVIOUS
        <4>2. QED
          BY <2>3, <3>2, <4>1 DEF WasmBelow
      <3>4. tlMeta[t] = TRUE
        BY <2>2, <3>3 DEF MetaKnown, MetaRight
      <3>5. QED
        BY <3>2, <3>4 DEF Recovered
    <2>7. QED
      BY <2>4, <2>5, <2>6
  <1>2. QED
    BY <1>1, Invariance, PTL

=============================================================================
