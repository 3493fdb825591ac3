------------------------------ MODULE WireAbi ------------------------------
(***************************************************************************)
(* What happens to a value that crosses into a sandbox and back: the slots *)
(* and tags of include/rlbox_process_abi.hpp and process_sandbox.hpp, the  *)
(* libffi call and the trampolines of the shim, the translation of         *)
(* arguments for wasm and the views of a struct in rlbox_meta_sandbox.hpp. *)
(*                                                                         *)
(* A width is given by how many values it holds, and a value of width w is *)
(* its bits, a number in 0 .. w - 1.  The build fixes the machine word: 32 *)
(* bits, as CMakeLists.txt has it, or 64.  Arguments are in machine words, *)
(* in the order in which a callee takes them: stack words on i386,         *)
(* registers on x86_64.                                                    *)
(***************************************************************************)
EXTENDS Integers, FiniteSets, Sequences, SequencesExt

CONSTANTS
    CHAR, INT, SLOT,  \* values of a char (2^8), an int, a long long or slot
    IntBytes,         \* chars in an int (4)
    Types,            \* the types of arguments and results
    Samples(_),       \* the values tried of a number of some width
    MaxArgs,          \* arguments of a call, fields of a struct (bound)
    Slots             \* the arguments a trampoline sends (4 in the code)

ASSUME WireAbiAssumption ==
    /\ {CHAR, INT, SLOT, IntBytes} \subseteq Nat \ {0}
    /\ CHAR % 2 = 0 /\ INT % CHAR = 0 /\ CHAR < INT /\ SLOT = INT * INT
    /\ Types \subseteq {"bool", "char", "uchar", "int", "uint", "long", "ulong",
                        "llong", "ullong", "ptr"}
    /\ \A w \in {CHAR, INT, SLOT} : Samples(w) \subseteq 0 .. w - 1
    /\ MaxArgs \in Nat /\ Slots \in Nat

ASSUME BytesAssumption == INT = CHAR ^ IntBytes

VARIABLES
    word,    \* the width of a machine word: INT or SLOT
    kind,    \* what crosses: "call", "callback", "wasm", "struct"
    given,   \* the arguments, or the fields: their types and values
    stage,   \* how far they are
    slots,   \* the values on the wire
    words,   \* the machine words of a native call
    seen,    \* the values on the other side
    ret      \* the result: its type, the value returned and the value got

vars == <<word, kind, given, stage, slots, words, seen, ret>>

-----------------------------------------------------------------------------
(* Types and conversions.                                                  *)

Signed(t) == t \in {"char", "int", "long", "llong"}

Width(t) == CASE t \in {"bool", "char", "uchar"} -> CHAR
              [] t \in {"int", "uint"} -> INT
              [] t \in {"llong", "ullong"} -> SLOT
              [] OTHER -> word

\* T_LongType and the others of rlbox_process_sandbox, which the meta
\* sandbox takes over: what the host takes for the width of the type.
HostWidth(t) == IF t \in {"long", "ulong"} THEN SLOT ELSE Width(t)

\* The wasm module is compiled for 32 bits: longs and pointers are ints.
WasmWidth(t) == IF t \in {"long", "ulong", "ptr"} THEN INT ELSE Width(t)

Low(p, w) == p % w
Negative(p, w) == 2 * p >= w       \* the top bit is set

\* static_cast from width w, signed or not, to width v.
Cast(p, w, signed, v) ==
    IF v > w /\ signed /\ Negative(p, w) THEN p + v - w ELSE Low(p, v)

\* static_cast from an int64_t to t, of width w; a bool asks for zero.
FromSlot(p, t, w) == IF t = "bool" THEN (IF p = 0 THEN 0 ELSE 1) ELSE Low(p, w)

\* What rlbox makes of a value of the application.
Converted(p, t) == Cast(p, Width(t), Signed(t), HostWidth(t))

PackSlot(p, t) == Cast(Converted(p, t), HostWidth(t), Signed(t), SLOT)

\* Mutant: a long is 64 bits whatever the build.
TagOf_Long64(t) ==
    CASE t \in {"bool", "char", "int"} -> "SINT32"
      [] t \in {"uchar", "uint"} -> "UINT32"
      [] t \in {"long", "llong"} -> "SINT64"
      [] t \in {"ulong", "ullong"} -> "UINT64"
      [] t = "ptr" -> "POINTER"

TagOf(t) ==
    CASE t \in {"bool", "char", "int"} \/ (t = "long" /\ word = INT) -> "SINT32"
      [] t \in {"uchar", "uint"} \/ (t = "ulong" /\ word = INT) -> "UINT32"
      [] t = "llong" \/ (t = "long" /\ word = SLOT) -> "SINT64"
      [] t = "ullong" \/ (t = "ulong" /\ word = SLOT) -> "UINT64"
      [] t = "ptr" -> "POINTER"

\* ffi_type_for_tag: the width of the libffi type.
TagWidth(tag) == CASE tag \in {"SINT32", "UINT32"} -> INT
                   [] tag \in {"SINT64", "UINT64"} -> SLOT
                   [] tag = "POINTER" -> word

-----------------------------------------------------------------------------
(* The machine: a width takes one word, or two on i386.                    *)

NWords(w) == IF w > word THEN 2 ELSE 1

\* The words that p goes in; noise is what the ABI leaves undefined above it.
InWords(p, w, noise) ==
    CASE w > word -> <<Low(p, word), p \div word>>
      [] w = word -> <<p>>
      [] OTHER -> <<p + noise * (word - w)>>

\* The value of width w at word k of ws; behind the last word is anything.
FromWords(ws, k, w) ==
    LET at(j) == IF j <= Len(ws) THEN ws[j] ELSE word - 1
    IN  IF w > word THEN at(k) + at(k + 1) * word ELSE Low(at(k), w)

\* The first word of argument i, when argument j has width widths[j].
Place(widths, i) == i + Cardinality({j \in 1 .. i - 1 : widths[j] > word})

Args == DOMAIN given
Type(i) == given[i].type
Bits(i) == given[i].bits
Widths == [i \in Args |-> Width(Type(i))]
HostWidths == [i \in Args |-> HostWidth(Type(i))]

Tag == word \div 2      \* the top bit of a pointer

\* The values of type t: for wasm, pointers have the tag on, or are NULL.
Values(t) ==
    CASE t = "bool" -> {0, 1}
      [] t = "ptr" /\ kind = "wasm" ->
           {0} \cup {Tag + o : o \in {s \in Samples(INT) : ~Negative(s, INT)}}
      [] OTHER -> Samples(Width(t))

Init ==
    /\ word \in {INT, SLOT}
    /\ kind \in {"call", "callback", "wasm", "struct"}
    /\ LET typed == UNION {[type : {t}, bits : Values(t)] : t \in Types}
       IN  given \in UNION {[1 .. n -> typed] : n \in 0 .. MaxArgs}
    /\ stage = "given"
    /\ slots = <<>> /\ words = <<>> /\ seen = <<>>
    /\ ret = [type |-> "void", value |-> 0, got |-> 0]

Goes(from, to) == stage = from /\ stage' = to
Same == UNCHANGED <<word, kind, given>>

-----------------------------------------------------------------------------
(* A call of a library function (impl_invoke_with_func_ptr, do_ffi_call).  *)

Pack ==
    /\ kind = "call" /\ Goes("given", "packed")
    /\ slots' = [i \in Args |-> PackSlot(Bits(i), Type(i))]
    /\ Same /\ UNCHANGED <<words, seen, ret>>

\* libffi lays the slots out by their tags; the function reads its types.
FfiCall ==
    /\ kind = "call" /\ Goes("packed", "called")
    /\ words' = FlattenSeq([i \in Args |->
                  LET w == TagWidth(TagOf(Type(i))) IN InWords(Low(slots[i], w), w, 0)])
    /\ seen' = [i \in Args |-> FromWords(words', Place(Widths, i), Width(Type(i)))]
    /\ Same /\ UNCHANGED <<slots, ret>>

\* What do_ffi_call makes of the result: ret_buf is one machine word.
FfiResult(tag, ws) ==
    CASE tag = "SINT32" -> Cast(Low(ws[1], INT), INT, TRUE, SLOT)
      [] tag = "UINT32" -> Low(ws[1], INT)
      [] OTHER -> ws[1]

Return ==
    /\ kind = "call" /\ Goes("called", "returned") /\ given = <<>>
    /\ \E t \in Types, noise \in {0, 1} : \E v \in Values(t) :
         /\ words' = InWords(v, Width(t), noise)
         /\ ret' = [type |-> t, value |-> v,
                    got |-> FromSlot(FfiResult(TagOf(t), words'), t, Width(t))]
    /\ Same /\ UNCHANGED <<slots, seen>>

-----------------------------------------------------------------------------
(* A callback: the library calls a trampoline, which takes four int64_t.   *)

\* Mutant: the first word of a slot is counted from zero.
TrampolineSlots_OffByOne(ws) ==
    [k \in 1 .. Slots |-> FromWords(ws, (k - 1) * NWords(SLOT) + 2, SLOT)]

TrampolineSlots(ws) ==
    [k \in 1 .. Slots |-> FromWords(ws, (k - 1) * NWords(SLOT) + 1, SLOT)]

Fire ==
    /\ kind = "callback" /\ Goes("given", "fired")
    /\ \E noise \in {0, 1} :
         words' = FlattenSeq([i \in Args |-> InWords(Bits(i), Width(Type(i)), noise)])
    /\ slots' = TrampolineSlots(words')
    /\ Same /\ UNCHANGED <<seen, ret>>

\* unpack_slot; past the slots it reads past the vector.
Handle ==
    /\ kind = "callback" /\ Goes("fired", "called")
    /\ \E past \in {0, SLOT - 1} :
         seen' = [i \in Args |->
                    FromSlot(IF i <= Slots THEN slots[i] ELSE past, Type(i), HostWidth(Type(i)))]
    /\ Same /\ UNCHANGED <<slots, words, ret>>

HandlerReturns ==
    /\ kind = "callback" /\ Goes("called", "returned") /\ given = <<>>
    /\ \E t \in Types : \E v \in Values(t) :
         /\ words' = InWords(PackSlot(v, t), SLOT, 0)
         /\ ret' = [type |-> t, value |-> v, got |-> FromWords(words', 1, Width(t))]
    /\ Same /\ UNCHANGED <<slots, seen>>

-----------------------------------------------------------------------------
(* A call dispatched to wasm by the meta sandbox.                          *)

\* The converted types that are the same type as T_PointerType: uintptr_t.
SameAsPointer(t) ==
    t = "ptr" \/ (t = "uint" /\ word = INT) \/ (t \in {"ulong", "ullong"} /\ word = SLOT)

\* The lambda translate, for what is no struct and no callback.
Translated(p, t) == IF SameAsPointer(t) THEN Low(p, Tag) ELSE p

Translate ==
    /\ kind = "wasm" /\ Goes("given", "called")
    /\ slots' = [i \in Args |-> Translated(Converted(Bits(i), Type(i)), Type(i))]
    /\ seen' = [i \in Args |-> Low(slots'[i], WasmWidth(Type(i)))]
    /\ Same /\ UNCHANGED <<words, ret>>

\* Mutant: the result is read at the width of the host's type.
WasmResult_Host(ws, t) == FromWords(ws, 1, HostWidth(t))

\* Read at the width that wasm gives it, and widened; a pointer is tagged,
\* unless it is NULL.
WasmResult(ws, t) ==
    LET raw == FromWords(ws, 1, WasmWidth(t))
    IN  CASE t # "ptr" -> Cast(raw, WasmWidth(t), Signed(t), HostWidth(t))
          [] t = "ptr" /\ raw # 0 -> Low(raw, Tag) + Tag
          [] OTHER -> 0

WasmReturns ==
    /\ kind = "wasm" /\ Goes("called", "returned") /\ given = <<>>
    /\ \E t \in Types, noise \in {0, 1} :
       \E v \in {Low(s, IF t = "ptr" THEN INT \div 2 ELSE WasmWidth(t)) : s \in Values(t)} :
         /\ words' = InWords(v, WasmWidth(t), noise)
         /\ ret' = [type |-> t, value |-> v, got |-> WasmResult(words', t)]
    /\ Same /\ UNCHANGED <<slots, seen>>

-----------------------------------------------------------------------------
(* A struct in shared memory: the host sees it with its own widths, the    *)
(* library as its compiler laid it out.                                    *)

Bytes(w) == CASE w = CHAR -> 1 [] w = INT -> IntBytes [] w = SLOT -> 2 * IntBytes

Aligned(o, w) ==
    LET a == Bytes(IF w < word THEN w ELSE word) IN ((o + a - 1) \div a) * a

\* Where the fields of these widths begin.
Layout(widths) ==
    LET at[i \in DOMAIN widths] ==
          Aligned(IF i = 1 THEN 0 ELSE at[i - 1] + Bytes(widths[i - 1]), widths[i])
    IN  at

\* What is read at o of width w, in what the host wrote: the low bytes of a
\* field that begins there, and across fields or beside them anything.
ReadAt(o, w, stray) ==
    LET there == {i \in Args : Layout(HostWidths)[i] = o /\ w <= HostWidths[i]}
    IN  IF there = {} THEN Low(stray, w)
        ELSE LET i == CHOOSE j \in there : TRUE
             IN  Low(Converted(Bits(i), Type(i)), w)

ShareStruct ==
    /\ kind = "struct" /\ Goes("given", "shared")
    /\ \E stray \in {0, SLOT - 1} :
         seen' = [i \in Args |-> ReadAt(Layout(Widths)[i], Width(Type(i)), stray)]
    /\ Same /\ UNCHANGED <<slots, words, ret>>

\* Mutant: a field is copied without regard to its sign.
CopyField_Unsigned(p, t, from, to) == Low(p, to)

\* A translator copies the fields to the scratch, and back after the call.
CopyField(p, t, from, to) == Cast(p, from, Signed(t), to)

TranslateStruct ==
    /\ kind = "struct" /\ Goes("given", "copied")
    /\ LET t(i) == Type(i) IN
       /\ seen' = [i \in Args |-> CopyField(Converted(Bits(i), t(i)), t(i),
                                            HostWidth(t(i)), WasmWidth(t(i)))]
       /\ slots' = [i \in Args |-> CopyField(seen'[i], t(i), WasmWidth(t(i)), HostWidth(t(i)))]
    /\ Same /\ UNCHANGED <<words, ret>>

Next ==
    \/ Pack \/ FfiCall \/ Return
    \/ Fire \/ Handle \/ HandlerReturns
    \/ Translate \/ WasmReturns
    \/ ShareStruct \/ TranslateStruct

Spec == Init /\ [][Next]_vars

-----------------------------------------------------------------------------
(* Properties                                                              *)

\* The number that bits stand for.
Number(p, w, t) == IF Signed(t) /\ Negative(p, w) THEN p - w ELSE p
Given(i) == Number(Bits(i), Width(Type(i)), Type(i))
Long(i) == Type(i) \in {"long", "ulong"}

TypeOK ==
    /\ word \in {INT, SLOT}
    /\ stage \in {"given", "packed", "fired", "called", "returned", "shared", "copied"}
    /\ \A i \in DOMAIN slots : slots[i] \in 0 .. SLOT - 1
    /\ \A i \in DOMAIN words : words[i] \in 0 .. word - 1
    /\ \A i \in DOMAIN seen : seen[i] \in 0 .. SLOT - 1

Fits(n, w, t) == IF Signed(t) THEN -w <= 2 * n /\ 2 * n < w ELSE n < w

\* Every argument of a call reaches the function as it was given.  Natively,
\* whatever stands before it: what libffi lays out by tags the compiled
\* function finds by its types.  In wasm a pointer comes without its tag (and
\* NULL as it is), a number if its wasm type can hold it; except an unsigned
\* number of the type of T_PointerType, which loses its top bit.  (And the
\* types are right.)
ArgsArrive ==
    /\ TypeOK
    /\ stage = "called" => \A i \in Args :
         /\ kind = "call" => Number(seen[i], Width(Type(i)), Type(i)) = Given(i)
         /\ kind = "wasm" =>
              LET n == IF Type(i) = "ptr" /\ Given(i) # 0 THEN Given(i) - Tag ELSE Given(i)
              IN  /\ Fits(n, WasmWidth(Type(i)), Type(i))
                  /\ SameAsPointer(Type(i)) => n < Tag
                  => Number(seen[i], WasmWidth(Type(i)), Type(i)) = n

\* An argument of a callback reaches the handler, if it has a slot, is no
\* bool (whose upper bits a caller need not clear), and, on i386, if all
\* before it take two words and it is not a long, which the handler takes
\* for two.
CallbackArgsArrive ==
    kind = "callback" /\ stage = "called" =>
        \A i \in Args :
            /\ i <= Slots /\ Type(i) # "bool"
            /\ word = INT => ~Long(i) /\ \A j \in 1 .. i - 1 : Width(Type(j)) = SLOT
            => Number(seen[i], HostWidth(Type(i)), Type(i)) = Given(i)

\* Results come back as they were returned, by a library function, by a
\* handler and by wasm (where a pointer that is not NULL gets the tag), except
\* from a library function a bool, whose upper bits it need not clear, and on
\* i386 64 bits, for which ret_buf has room for half.
ResultsArrive ==
    stage = "returned" =>
        LET t == ret.type IN
        CASE kind = "call" ->
               t = "bool" \/ Width(t) > word \/ ret.got = ret.value
          [] kind = "callback" -> ret.got = ret.value
          [] kind = "wasm" ->
               IF t = "ptr" THEN ret.got = (IF ret.value = 0 THEN 0 ELSE ret.value + Tag)
               ELSE Number(ret.got, HostWidth(t), t) = Number(ret.value, WasmWidth(t), t)

\* A field that the host writes is what the library reads there, if on i386
\* no long is before it; and what the wasm copy of the struct holds, and gets
\* back from there, if the wasm type can hold it.
FieldsArrive ==
    kind = "struct" =>
        \A i \in Args :
            /\ stage = "shared" /\ (word = INT => \A j \in 1 .. i - 1 : ~Long(j))
               => Number(seen[i], Width(Type(i)), Type(i)) = Given(i)
            /\ stage = "copied" /\ Fits(Given(i), WasmWidth(Type(i)), Type(i))
               => /\ Number(seen[i], WasmWidth(Type(i)), Type(i)) = Given(i)
                  /\ Number(slots[i], HostWidth(Type(i)), Type(i)) = Given(i)

\* "Per-arg translate (pointer args only)": an argument that is no pointer,
\* and that the wasm type can hold, is not changed on its way.
PointerArgsOnly ==
    kind = "wasm" /\ stage = "called" =>
        \A i \in Args :
            /\ Type(i) # "ptr" /\ Fits(Given(i), WasmWidth(Type(i)), Type(i))
            => Number(seen[i], WasmWidth(Type(i)), Type(i)) = Given(i)
=============================================================================
