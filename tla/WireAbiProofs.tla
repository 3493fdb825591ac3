--------------------------- MODULE WireAbiProofs ---------------------------
(***************************************************************************)
(* The four invariants of WireAbi, for any widths of which the smaller     *)
(* divides the greater (8, 32 and 64 bits are some), any values, any       *)
(* number of arguments and any number of slots.  Three kinds of facts do   *)
(* it: the low part of a value survives casts, words and slots; arguments  *)
(* joined to one sequence of words begin where Place counts them; and a    *)
(* layout, which is a recursive function, increases.  Induction and the    *)
(* existence of recursive functions rest on least elements of Nat.         *)
(***************************************************************************)
EXTENDS WireAbi, FiniteSetTheorems, SequenceTheorems, WellFoundedInduction, TLAPS

-----------------------------------------------------------------------------
(* Recursion.                                                              *)

\* A set of numbers has a least one.
LEMMA Least ==
  ASSUME NEW T \in SUBSET Nat, T # {}
  PROVE  \E x \in T : \A y \in T : x <= y
  <1>1. PICK x \in T : \A y \in T : <<y, x>> \notin OpToRel(<, Nat)
    BY NatLessThanWellFounded, WFMin
  <1>2. \A y \in T : ~(y < x)
    BY <1>1 DEF OpToRel
  <1>3. QED
    BY <1>2

\* What holds of 0, and of the next number when it holds of one, is all of
\* 0 .. n.
LEMMA Induction ==
  ASSUME NEW n \in Nat, NEW G, 0 \in G, \A m \in 0 .. n - 1 : m \in G => m + 1 \in G
  PROVE  \A m \in 0 .. n : m \in G
  <1> DEFINE T == {m \in 0 .. n : m \notin G}
  <1>1. SUFFICES ASSUME T # {} PROVE FALSE
    OBVIOUS
  <1>2. PICK x \in T : \A y \in T : x <= y
    <2>1. T \in SUBSET Nat
      OBVIOUS
    <2>2. QED
      BY <1>1, <2>1, Least
  <1>3. x # 0 /\ x - 1 \in 0 .. n - 1 /\ x - 1 \notin T
    BY <1>2
  <1>4. x - 1 \in G
    BY <1>3
  <1>5. QED
    BY <1>2, <1>3, <1>4

\* f has what n - 1 steps make of a.
Chain(f, n, S, a, step) ==
    /\ f \in [1 .. n -> S] /\ f[1] = a
    /\ \A i \in 2 .. n : f[i] = step[i][f[i - 1]]

Steps(n, S) == [1 .. n -> [S -> S]]

\* Steps that stay in S can be taken.
LEMMA Recursion ==
  ASSUME NEW n \in Nat \ {0}, NEW S, NEW a \in S, NEW step \in Steps(n, S)
  PROVE  \E f : Chain(f, n, S, a, step)
  <1> USE DEF Steps
  <1> DEFINE Is(m, f) == Chain(f, m, S, a, step)
             G == {m \in 0 .. n - 1 : \E f : Is(m + 1, f)}
  <1>1. 0 \in G
    <2>1. Is(0 + 1, [i \in 1 .. 1 |-> a])
      BY DEF Chain
    <2>2. 0 \in 0 .. n - 1
      OBVIOUS
    <2> HIDE DEF Is
    <2>3. QED
      BY <2>1, <2>2
  <1>2. ASSUME NEW m \in 0 .. n - 1 - 1, m \in G PROVE m + 1 \in G
    <2>1. PICK f : Is(m + 1, f)
      BY <1>2
    <2> DEFINE last == step[m + 2][f[m + 1]]
               g == [i \in 1 .. m + 2 |-> IF i = m + 2 THEN last ELSE f[i]]
    <2>2. last \in S
      <3>1. f[m + 1] \in S /\ step[m + 2] \in [S -> S]
        BY <2>1 DEF Chain
      <3>2. QED
        BY <3>1
    <2>3. g \in [1 .. m + 2 -> S] /\ g[1] = a
      BY <2>1, <2>2 DEF Chain
    <2>4. ASSUME NEW i \in 2 .. m + 2 PROVE g[i] = step[i][g[i - 1]]
      <3>1. g[i - 1] = f[i - 1]
        OBVIOUS
      <3>2. CASE i = m + 2
        BY <3>1, <3>2
      <3>3. CASE i \in 2 .. m + 1
        <4>1. g[i] = f[i]
          BY <3>3
        <4>2. QED
          BY <2>1, <3>1, <3>3, <4>1 DEF Chain
      <3>4. QED
        BY <3>2, <3>3
    <2>5. Is(m + 1 + 1, g)
      <3>1. m + 1 + 1 = m + 2
        OBVIOUS
      <3> HIDE DEF g
      <3>2. Chain(g, m + 2, S, a, step)
        BY <2>3, <2>4 DEF Chain
      <3>3. QED
        BY <3>1, <3>2
    <2>6. m + 1 \in 0 .. n - 1
      OBVIOUS
    <2> HIDE DEF Is, g
    <2>7. QED
      BY <2>5, <2>6
  <1> HIDE DEF Is
  <1>3. n - 1 \in G
    <2> HIDE DEF G
    <2>1. n - 1 \in Nat /\ n - 1 \in 0 .. n - 1
      OBVIOUS
    <2>2. QED
      BY <1>1, <1>2, <2>1, Induction
  <1>4. QED
    <2>1. n - 1 + 1 = n
      OBVIOUS
    <2>2. QED
      BY <1>3, <2>1 DEF Is

-----------------------------------------------------------------------------
(* Division.                                                               *)

\* Quotient and remainder are unique.
LEMMA Division ==
  ASSUME NEW m \in Nat \ {0}, NEW q \in Int, NEW r \in 0 .. m - 1
  PROVE  (q * m + r) % m = r /\ (q * m + r) \div m = q
  <1> DEFINE a == q * m + r
             e == a \div m
             s == a % m
  <1>1. a \in Int /\ e \in Int /\ s \in 0 .. m - 1 /\ a = m * e + s
    OBVIOUS
  <1>2. a = q * m + r
    OBVIOUS
  <1> HIDE DEF a, e, s
  <1>3. (q - e) * m = s - r
    BY <1>1, <1>2
  <1>4. ~(q - e >= 1) /\ ~(q - e <= -1)
    <2>1. ASSUME q - e >= 1 PROVE FALSE
      <3>1. (q - e) * m >= m
        BY <1>1, <2>1
      <3>2. QED
        BY <1>1, <1>3, <3>1
    <2>2. ASSUME q - e <= -1 PROVE FALSE
      <3>1. (q - e) * m <= -m
        BY <1>1, <2>2
      <3>2. QED
        BY <1>1, <1>3, <3>1
    <2>3. QED
      BY <2>1, <2>2
  <1>5. q = e
    BY <1>1, <1>4
  <1>6. s = r
    BY <1>1, <1>3, <1>5
  <1>7. QED
    BY <1>5, <1>6 DEF a, e, s

\* What % and \div mean, where the provers need it named.
LEMMA Remainder ==
  ASSUME NEW m \in Nat \ {0}, NEW a \in Int
  PROVE  /\ a % m \in 0 .. m - 1 /\ a \div m \in Int /\ a = (a \div m) * m + (a % m)
  OBVIOUS

\* A number below m is its own remainder.
LEMMA Small ==
  ASSUME NEW m \in Nat \ {0}, NEW a \in 0 .. m - 1
  PROVE  a % m = a /\ a \div m = 0
  <1>1. (0 * m + a) % m = a /\ (0 * m + a) \div m = 0
    BY Division
  <1>2. 0 * m + a = a
    OBVIOUS
  <1>3. QED
    BY <1>1, <1>2

\* Multiples of m leave the remainder as it is.
LEMMA LowSum ==
  ASSUME NEW m \in Nat \ {0}, NEW a \in Int, NEW k \in Int
  PROVE  (a + k * m) % m = a % m
  <1> DEFINE q == a \div m
             r == a % m
  <1>1. q \in Int /\ r \in 0 .. m - 1 /\ a = q * m + r
    BY Remainder
  <1>2. r = a % m
    OBVIOUS
  <1> HIDE DEF q, r
  <1>3. a + k * m = (q + k) * m + r
    BY <1>1
  <1>4. q + k \in Int
    BY <1>1
  <1>5. ((q + k) * m + r) % m = r
    BY <1>1, <1>4, Division
  <1>6. QED
    BY <1>2, <1>3, <1>5

Divides(w, v) == \E d \in Nat \ {0} : v = d * w

\* The remainder by a divisor of v is seen in the remainder by v.
LEMMA LowLow ==
  ASSUME NEW w \in Nat \ {0}, NEW v \in Nat \ {0}, Divides(w, v), NEW p \in Int
  PROVE  (p % v) % w = p % w
  <1> DEFINE q == p \div v
             r == p % v
  <1>1. q \in Int /\ r \in 0 .. v - 1 /\ p = q * v + r
    BY Remainder
  <1>2. PICK d \in Nat \ {0} : v = d * w
    BY DEF Divides
  <1>3. r = p % v
    OBVIOUS
  <1> HIDE DEF q, r
  <1>4. p = r + (q * d) * w
    BY <1>1, <1>2
  <1>5. (r + (q * d) * w) % w = r % w
    <2>1. q * d \in Int /\ r \in Int
      BY <1>1
    <2>2. QED
      BY <2>1, LowSum
  <1>6. QED
    BY <1>3, <1>4, <1>5

-----------------------------------------------------------------------------
(* Widths.                                                                 *)

AllWidths == {CHAR, INT, SLOT}

\* What the assumption says of the three widths.
LEMMA Constants ==
  /\ CHAR \in Nat \ {0} /\ INT \in Nat \ {0} /\ SLOT \in Nat \ {0}
  /\ 2 <= CHAR /\ 2 * CHAR <= INT /\ 2 * INT <= SLOT
  /\ \E h \in Nat : CHAR = 2 * h
  /\ \E d \in Nat \ {0} : INT = d * CHAR
  /\ SLOT = INT * INT
  <1>1. /\ CHAR \in Nat \ {0} /\ INT \in Nat \ {0} /\ SLOT \in Nat \ {0}
        /\ CHAR % 2 = 0 /\ INT % CHAR = 0 /\ CHAR < INT /\ SLOT = INT * INT
    BY WireAbiAssumption
  <1>2. CHAR = 2 * (CHAR \div 2) /\ CHAR \div 2 \in Nat
    BY <1>1
  <1>3. PICK d \in Int : INT = d * CHAR
    BY <1>1, Remainder
  <1>4. d >= 2
    <2>1. SUFFICES ASSUME d <= 1 PROVE FALSE
      BY <1>3
    <2>2. d * CHAR <= CHAR
      BY <1>1, <1>3, <2>1
    <2>3. QED
      BY <1>1, <1>3, <2>2
  <1>5. 2 * CHAR <= INT
    BY <1>1, <1>3, <1>4
  <1>6. 2 * INT <= SLOT
    BY <1>1
  <1>7. QED
    BY <1>1, <1>2, <1>3, <1>4, <1>5, <1>6

\* Of two widths the smaller divides the greater, by two at least.
LEMMA Ordered ==
  ASSUME NEW w \in AllWidths, NEW v \in AllWidths, w <= v
  PROVE  Divides(w, v) /\ (w = v \/ 2 * w <= v)
  <1>1. ASSUME NEW x \in Nat PROVE x = 1 * x
    OBVIOUS
  <1>2. Divides(CHAR, CHAR) /\ Divides(INT, INT) /\ Divides(SLOT, SLOT)
    BY <1>1, Constants DEF Divides
  <1>3. Divides(CHAR, INT) /\ Divides(INT, SLOT)
    BY Constants DEF Divides
  <1>4. Divides(CHAR, SLOT)
    <2>1. PICK d \in Nat \ {0} : INT = d * CHAR
      BY Constants
    <2>2. SLOT = (d * INT) * CHAR /\ d * INT \in Nat \ {0}
      <3> DEFINE k == INT
      <3>1. k \in Nat \ {0} /\ SLOT = k * (d * CHAR)
        BY <2>1, Constants
      <3> HIDE DEF k
      <3>2. k * (d * CHAR) = (d * k) * CHAR /\ d * k \in Nat \ {0}
        BY <3>1, Constants
      <3>3. QED
        BY <3>1, <3>2 DEF k
    <2>3. QED
      BY <2>2 DEF Divides
  <1>5. QED
    BY <1>2, <1>3, <1>4, Constants DEF AllWidths

\* A width is even, so that half of the values of a signed type are negative.
LEMMA WidthNat ==
  ASSUME NEW w \in AllWidths
  PROVE  w \in Nat \ {0} /\ 2 <= w /\ \E h \in Nat : w = 2 * h
  <1>1. PICK h \in Nat : CHAR = 2 * h
    BY Constants
  <1>2. PICK d \in Nat \ {0} : w = d * CHAR
    BY Ordered, Constants DEF AllWidths, Divides
  <1>3. w = 2 * (d * h) /\ d * h \in Nat
    BY <1>1, <1>2
  <1>4. QED
    BY <1>3, Constants DEF AllWidths

\* The low part of a sum in which the other terms are wider.
LEMMA LowWide ==
  ASSUME NEW u \in AllWidths, NEW w \in AllWidths, u <= w, NEW p \in Int, NEW k \in Int
  PROVE  (p + k * w) % u = p % u
  <1>1. PICK d \in Nat : w = d * u
    BY Ordered DEF Divides
  <1>2. p + k * w = p + (k * d) * u /\ k * d \in Int
    BY <1>1, WidthNat
  <1>3. QED
    BY <1>2, LowSum, WidthNat

\* A cast keeps the bits that both widths have.
LEMMA CastLow ==
  ASSUME NEW w \in AllWidths, NEW v \in AllWidths, NEW p \in 0 .. w - 1, NEW signed \in BOOLEAN
  PROVE  /\ Cast(p, w, signed, v) \in 0 .. v - 1
         /\ \A u \in AllWidths : u <= w /\ u <= v => Low(Cast(p, w, signed, v), u) = Low(p, u)
  <1>1. w \in Nat \ {0} /\ v \in Nat \ {0} /\ p \in Nat
    BY WidthNat
  <1>2. CASE v > w /\ signed /\ Negative(p, w)
    <2>1. Cast(p, w, signed, v) = p + v - w
      BY <1>2 DEF Cast
    <2>2. ASSUME NEW u \in AllWidths, u <= w PROVE (p + v - w) % u = p % u
      <3>1. PICK d \in Nat \ {0} : v = d * w
        BY <1>1, <1>2, Ordered DEF Divides
      <3>2. p + v - w = p + (d - 1) * w /\ p \in Int /\ d - 1 \in Int
        BY <1>1, <3>1
      <3>3. (p + (d - 1) * w) % u = p % u
        BY <2>2, <3>2, LowWide
      <3>4. QED
        BY <3>2, <3>3
    <2>3. p + v - w \in 0 .. v - 1
      BY <1>1, <1>2
    <2>4. QED
      BY <2>1, <2>2, <2>3 DEF Low
  <1>3. CASE ~(v > w /\ signed /\ Negative(p, w))
    <2>1. Cast(p, w, signed, v) = p % v
      BY <1>3 DEF Cast, Low
    <2>2. ASSUME NEW u \in AllWidths, u <= v PROVE (p % v) % u = p % u
      <3>1. u \in Nat \ {0} /\ Divides(u, v) /\ p \in Int
        BY <1>1, <2>2, Ordered, WidthNat
      <3>2. QED
        BY <1>1, <3>1, LowLow
    <2>3. p % v \in 0 .. v - 1
      BY <1>1
    <2>4. QED
      BY <2>1, <2>2, <2>3 DEF Low
  <1>4. QED
    BY <1>2, <1>3

\* A cast to a width that is not smaller keeps the number.
LEMMA CastNumber ==
  ASSUME NEW w \in AllWidths, NEW v \in AllWidths, w <= v, NEW p \in 0 .. w - 1, NEW t
  PROVE  Number(Cast(p, w, Signed(t), v), v, t) = Number(p, w, t)
  <1>1. w \in Nat \ {0} /\ v \in Nat \ {0} /\ p \in Nat
    BY WidthNat
  <1>2. p % v = p
    BY <1>1, Small
  <1>3. w = v \/ 2 * w <= v
    BY Ordered
  <1>4. CASE v > w /\ Signed(t) /\ Negative(p, w)
    <2>1. Cast(p, w, Signed(t), v) = p + v - w
      BY <1>4 DEF Cast
    <2>2. Negative(p + v - w, v)
      BY <1>1, <1>3, <1>4 DEF Negative
    <2>3. Number(p + v - w, v, t) = (p + v - w) - v
      BY <1>4, <2>2 DEF Number
    <2>4. Number(p, w, t) = p - w
      BY <1>4 DEF Number
    <2>5. QED
      BY <1>1, <2>1, <2>3, <2>4
  <1>5. CASE ~(v > w /\ Signed(t) /\ Negative(p, w))
    <2>1. Cast(p, w, Signed(t), v) = p
      BY <1>2, <1>5 DEF Cast, Low
    <2>2. Signed(t) => (Negative(p, w) /\ w = v) \/ (~Negative(p, w) /\ ~Negative(p, v))
      BY <1>1, <1>3, <1>5 DEF Negative
    <2>3. QED
      BY <2>1, <2>2 DEF Number
  <1>6. QED
    BY <1>4, <1>5

\* A cast to any width keeps a number that fits there.
LEMMA CastFits ==
  ASSUME NEW w \in AllWidths, NEW v \in AllWidths, NEW p \in 0 .. w - 1, NEW t,
         Fits(Number(p, w, t), v, t)
  PROVE  Number(Cast(p, w, Signed(t), v), v, t) = Number(p, w, t)
  <1>1. w \in Nat \ {0} /\ v \in Nat \ {0} /\ p \in Nat
    BY WidthNat
  <1>2. CASE w <= v
    BY <1>2, CastNumber
  <1>3. CASE v < w
    <2>1. Cast(p, w, Signed(t), v) = p % v
      BY <1>1, <1>3 DEF Cast, Low
    <2>2. CASE Signed(t) /\ Negative(p, w)
      <3>1. PICK d \in Nat \ {0} : w = d * v
        BY <1>1, <1>3, Ordered DEF Divides
      <3>2. /\ Number(p, w, t) = p - w /\ 2 * (w - p) <= v /\ w - p > 0
        BY <1>1, <2>2 DEF Number, Fits
      <3>3. p = (d - 1) * v + (v - (w - p)) /\ v - (w - p) \in 0 .. v - 1
        BY <1>1, <3>1, <3>2
      <3>4. p % v = v - (w - p)
        <4>1. d - 1 \in Int
          BY <3>1
        <4>2. QED
          BY <1>1, <3>3, <4>1, Division
      <3>5. Negative(p % v, v)
        BY <1>1, <3>2, <3>4 DEF Negative
      <3>6. QED
        BY <1>1, <2>1, <2>2, <3>2, <3>4, <3>5 DEF Number
    <2>3. CASE ~(Signed(t) /\ Negative(p, w))
      <3>1. Number(p, w, t) = p
        BY <2>3 DEF Number
      <3>2. p < v /\ (Signed(t) => ~Negative(p, v))
        BY <1>1, <3>1 DEF Fits, Negative
      <3>3. p % v = p
        BY <1>1, <3>2, Small
      <3>4. QED
        BY <2>1, <3>1, <3>2, <3>3 DEF Number
    <2>4. QED
      BY <2>2, <2>3
  <1>4. QED
    BY <1>1, <1>2, <1>3

-----------------------------------------------------------------------------
(* Types.                                                                  *)

Build == word \in {INT, SLOT}

\* A word is a width, and no narrower than an int.
LEMMA WordWidth == Build => word \in AllWidths /\ INT <= word /\ word <= SLOT
  BY Constants DEF Build, AllWidths

\* A type is at least as wide for the host as for the library, and at most as
\* wide in wasm; host and library differ in longs alone, and on i386.
LEMMA TypeWidths ==
  ASSUME NEW t \in Types, Build
  PROVE  /\ Width(t) \in AllWidths /\ HostWidth(t) \in AllWidths /\ WasmWidth(t) \in AllWidths
         /\ Width(t) <= HostWidth(t) /\ WasmWidth(t) <= Width(t)
         /\ Width(t) # HostWidth(t) => t \in {"long", "ulong"} /\ word = INT /\ Width(t) = INT
         /\ t \in {"long", "ulong"} => Width(t) = word
         /\ t = "bool" => HostWidth(t) = CHAR /\ Width(t) = CHAR /\ WasmWidth(t) = CHAR
         /\ t = "ptr" => HostWidth(t) = word /\ Width(t) = word /\ WasmWidth(t) = INT
  BY WireAbiAssumption, Constants DEF Build, AllWidths, Width, HostWidth, WasmWidth

\* A tag has the width of its type, or of an int.
LEMMA TagWidths ==
  ASSUME NEW t \in Types, Build
  PROVE  TagWidth(TagOf(t)) = IF Width(t) = CHAR THEN INT ELSE Width(t)
  BY WireAbiAssumption, Constants DEF Build, Width, TagOf, TagWidth

-----------------------------------------------------------------------------
(* Machine words.                                                          *)

\* A value goes into one word or two.
LEMMA InWordsFacts ==
  ASSUME Build, NEW w \in AllWidths, NEW p \in 0 .. w - 1, NEW noise \in {0, 1}
  PROVE  /\ InWords(p, w, noise) \in Seq(0 .. word - 1)
         /\ Len(InWords(p, w, noise)) = NWords(w)
         /\ NWords(w) \in {1, 2}
  <1>1. w \in Nat \ {0} /\ word \in Nat \ {0} /\ p \in Nat
    BY WidthNat, WordWidth
  <1>2. CASE w > word
    <2>1. w = INT * INT /\ word = INT
      BY <1>1, <1>2, Constants DEF Build, AllWidths
    <2>2. p % word \in 0 .. word - 1 /\ p \div word \in Int /\ p = (p \div word) * word + (p % word)
      BY <1>1, Remainder
    <2>3. p \div word \in 0 .. word - 1
      <3> DEFINE q == p \div word
                 r == p % word
      <3>1. q \in Int /\ r \in 0 .. word - 1 /\ p = q * word + r /\ p < word * word /\ 0 <= p
        BY <1>1, <2>1, <2>2
      <3> HIDE DEF q, r
      <3>2. ~(q < 0)
        <4>1. SUFFICES ASSUME q <= -1 PROVE FALSE
          BY <3>1
        <4>2. q * word <= -word
          BY <1>1, <3>1, <4>1
        <4>3. QED
          BY <1>1, <3>1, <4>2
      <3>3. ~(q >= word)
        <4>1. SUFFICES ASSUME q >= word PROVE FALSE
          OBVIOUS
        <4>2. q * word >= word * word
          BY <1>1, <3>1, <4>1
        <4>3. QED
          BY <1>1, <3>1, <4>2
      <3>4. QED
        BY <1>1, <3>1, <3>2, <3>3 DEF q
    <2>4. InWords(p, w, noise) = <<p % word, p \div word>>
      BY <1>1, <1>2 DEF InWords, Low
    <2>5. QED
      BY <1>2, <2>2, <2>3, <2>4 DEF NWords
  <1>3. CASE w = word
    BY <1>1, <1>3 DEF InWords, NWords
  <1>4. CASE w < word
    <2>1. InWords(p, w, noise) = <<p + noise * (word - w)>>
      BY <1>1, <1>4 DEF InWords
    <2>2. p + noise * (word - w) \in 0 .. word - 1
      BY <1>1, <1>4
    <2>3. QED
      BY <1>1, <1>4, <2>1, <2>2 DEF NWords
  <1>5. QED
    BY <1>1, <1>2, <1>3, <1>4

\* The first word has the low part of a value, whatever the noise.
LEMMA FirstWord ==
  ASSUME Build, NEW w \in AllWidths, NEW u \in AllWidths, u <= w, u <= word,
         NEW p \in 0 .. w - 1, NEW noise \in {0, 1}
  PROVE  Low(InWords(p, w, noise)[1], u) = Low(p, u)
  <1>1. /\ w \in Nat \ {0} /\ u \in Nat \ {0} /\ word \in Nat \ {0} /\ p \in Nat /\ p \in Int
        /\ word \in AllWidths
    BY WidthNat, WordWidth
  <1>2. CASE w > word
    <2>1. InWords(p, w, noise)[1] = p % word
      BY <1>1, <1>2 DEF InWords, Low
    <2>2. (p % word) % u = p % u
      <3>1. Divides(u, word) /\ p \in Int
        BY <1>1, Ordered
      <3>2. QED
        BY <1>1, <3>1, LowLow
    <2>3. QED
      BY <2>1, <2>2 DEF Low
  <1>3. CASE w = word
    BY <1>1, <1>3 DEF InWords
  <1>4. CASE w < word
    <2>1. InWords(p, w, noise)[1] = p + noise * (word - w)
      BY <1>1, <1>4 DEF InWords
    <2>2. PICK d \in Nat : word = d * w
      <3>1. Divides(w, word)
        BY <1>1, <1>4, Ordered
      <3>2. QED
        BY <3>1 DEF Divides
    <2>3. p + noise * (word - w) = p + (noise * (d - 1)) * w /\ noise * (d - 1) \in Int
      BY <1>1, <2>2
    <2>4. (p + (noise * (d - 1)) * w) % u = p % u
      <3>1. \A k \in Int : (p + k * w) % u = p % u
        BY <1>1, LowWide
      <3>2. QED
        BY <2>3, <3>1
    <2>5. QED
      BY <2>1, <2>3, <2>4 DEF Low
  <1>5. QED
    BY <1>1, <1>2, <1>3, <1>4

\* ws has the words of p, of width w, from k on.
HasAt(ws, k, p, w, noise) ==
    /\ k + NWords(w) - 1 <= Len(ws)
    /\ \A j \in 1 .. NWords(w) : ws[k + j - 1] = InWords(p, w, noise)[j]

\* Read where it begins, at its own width or a smaller one, a value is found.
LEMMA Reading ==
  ASSUME Build, NEW w \in AllWidths, NEW u \in AllWidths, u <= w,
         NEW p \in 0 .. w - 1, NEW noise \in {0, 1},
         NEW ws \in Seq(0 .. word - 1), NEW k \in Nat, HasAt(ws, k, p, w, noise)
  PROVE  FromWords(ws, k, u) = Low(p, u)
  <1>1. /\ w \in Nat \ {0} /\ u \in Nat \ {0} /\ word \in Nat \ {0} /\ p \in Nat /\ p \in Int
        /\ word \in AllWidths /\ Len(ws) \in Nat
    BY WidthNat, WordWidth
  <1>2. CASE u > word
    <2>1. u = w /\ w > word /\ NWords(w) = 2
      BY SMTT(30), <1>1, <1>2, Constants DEF Build, AllWidths, NWords
    <2>2. ws[k] = p % word /\ ws[k + 1] = p \div word /\ k + 1 <= Len(ws)
      <3>1. InWords(p, w, noise) = <<p % word, p \div word>>
        BY <1>1, <2>1 DEF InWords, Low
      <3>2. ws[k + 1 - 1] = InWords(p, w, noise)[1] /\ ws[k + 2 - 1] = InWords(p, w, noise)[2]
            /\ k + 2 - 1 <= Len(ws)
        BY <2>1 DEF HasAt
      <3>3. k + 1 - 1 = k /\ k + 2 - 1 = k + 1
        OBVIOUS
      <3>4. QED
        BY <3>1, <3>2, <3>3
    <2>3. FromWords(ws, k, u) = ws[k] + ws[k + 1] * word
      BY <1>1, <1>2, <2>2 DEF FromWords
    <2>4. p = (p % word) + (p \div word) * word
      <3>1. p = (p \div word) * word + (p % word)
        BY <1>1, Remainder
      <3>2. p \div word \in Int /\ p % word \in Int
        BY <1>1
      <3>3. QED
        BY <1>1, <3>1, <3>2
    <2>5. p % u = p
      BY <1>1, <2>1, Small
    <2>6. QED
      BY <2>2, <2>3, <2>4, <2>5 DEF Low
  <1>3. CASE u <= word
    <2>1. ws[k] = InWords(p, w, noise)[1] /\ k <= Len(ws)
      <3>1. NWords(w) \in {1, 2}
        BY DEF NWords
      <3>2. ws[k + 1 - 1] = InWords(p, w, noise)[1] /\ k + NWords(w) - 1 <= Len(ws)
        BY <3>1 DEF HasAt
      <3>3. QED
        BY <1>1, <3>1, <3>2
    <2>2. FromWords(ws, k, u) = Low(ws[k], u)
      BY <1>1, <1>3, <2>1 DEF FromWords
    <2>3. QED
      BY <1>3, <2>1, <2>2, FirstWord
  <1>4. QED
    BY <1>1, <1>2, <1>3

\* Each argument begins behind the words of the one before it.
LEMMA PlaceFacts ==
  ASSUME Build, NEW n \in Nat, NEW widths \in [1 .. n -> AllWidths]
  PROVE  /\ Place(widths, 1) = 1
         /\ \A i \in 1 .. n + 1 : Place(widths, i) \in Nat /\ Place(widths, i) >= i
         /\ \A i \in 1 .. n : Place(widths, i + 1) = Place(widths, i) + NWords(widths[i])
  <1> DEFINE Wide(i) == {j \in 1 .. i - 1 : widths[j] > word}
  <1>1. ASSUME NEW i \in 1 .. n + 1
        PROVE  /\ IsFiniteSet(Wide(i)) /\ Cardinality(Wide(i)) \in Nat
               /\ Place(widths, i) = i + Cardinality(Wide(i))
    <2>1. IsFiniteSet(1 .. i - 1) /\ Wide(i) \subseteq 1 .. i - 1
      BY FS_Interval
    <2>2. IsFiniteSet(Wide(i))
      BY <2>1, FS_Subset
    <2>3. QED
      BY <2>2, FS_CardinalityType DEF Place
  <1>2. Place(widths, 1) = 1
    <2>1. Wide(1) = {}
      OBVIOUS
    <2> HIDE DEF Wide
    <2>2. Place(widths, 1) = 1 + Cardinality(Wide(1))
      BY <1>1
    <2>3. Cardinality(Wide(1)) = 0
      BY <2>1, FS_EmptySet
    <2>4. QED
      BY <2>2, <2>3
  <1>3. ASSUME NEW i \in 1 .. n
        PROVE  Place(widths, i + 1) = Place(widths, i) + NWords(widths[i])
    <2>1. i \notin Wide(i) /\ i \in 1 .. n + 1 /\ i + 1 \in 1 .. n + 1
      OBVIOUS
    <2>2. Wide(i + 1) = IF widths[i] > word THEN Wide(i) \cup {i} ELSE Wide(i)
      OBVIOUS
    <2> HIDE DEF Wide
    <2>3. widths[i] > word => Cardinality(Wide(i) \cup {i}) = Cardinality(Wide(i)) + 1
      BY <1>1, <2>1, FS_AddElement
    <2>4. /\ Place(widths, i) = i + Cardinality(Wide(i)) /\ Cardinality(Wide(i)) \in Nat
          /\ Place(widths, i + 1) = i + 1 + Cardinality(Wide(i + 1))
      BY <1>1, <2>1
    <2>5. NWords(widths[i]) = IF widths[i] > word THEN 2 ELSE 1
      BY DEF NWords
    <2>6. QED
      BY <2>2, <2>3, <2>4, <2>5
  <1>4. QED
    <2> HIDE DEF Wide
    <2>1. QED
      BY <1>1, <1>2, <1>3

\* g[i] joins the first i sequences.
Joins(g, n, seqs) ==
    g[1] = seqs[1] /\ \A i \in 2 .. n : g[i] = g[i - 1] \o seqs[i]

SeqsOf(n, S) == [1 .. n -> Seq(S)]

\* FlattenSeq joins sequence by sequence.
LEMMA Joining ==
  ASSUME NEW n \in Nat \ {0}, NEW S, NEW seqs \in SeqsOf(n, S)
  PROVE  \E g : FlattenSeq(seqs) = g[n] /\ Joins(g, n, seqs)
  <1> USE DEF SeqsOf
  <1> DEFINE Is(g) == g = [i \in 1 .. Len(seqs) |->
                             IF i = 1 THEN seqs[i] ELSE g[i - 1] \o seqs[i]]
             step == [i \in 1 .. n |-> [s \in Seq(S) |-> s \o seqs[i]]]
  <1>1. seqs \in Seq(Seq(S)) /\ Len(seqs) = n
    OBVIOUS
  <1>2. PICK f \in [1 .. n -> Seq(S)] :
          f[1] = seqs[1] /\ \A i \in 2 .. n : f[i] = step[i][f[i - 1]]
    <2>1. step \in Steps(n, Seq(S)) /\ seqs[1] \in Seq(S)
      BY DEF Steps
    <2> HIDE DEF step
    <2>2. \E f : Chain(f, n, Seq(S), seqs[1], step)
      BY <2>1, Recursion
    <2>3. QED
      BY <2>2 DEF Chain
  <1>3. ASSUME NEW i \in 1 .. n
        PROVE  f[i] = IF i = 1 THEN seqs[i] ELSE f[i - 1] \o seqs[i]
    <2>1. CASE i = 1
      BY <1>2, <2>1
    <2>2. CASE i # 1
      <3>1. f[i - 1] \in Seq(S) /\ i \in 2 .. n
        BY <2>2
      <3>2. QED
        BY <1>2, <2>2, <3>1
    <2>3. QED
      BY <2>1, <2>2
  <1> DEFINE c == CHOOSE g : Is(g)
  <1>4. Is(c)
    <2>1. Is(f)
      BY <1>1, <1>3
    <2>2. QED
      BY <2>1
  <1>5. FlattenSeq(seqs) = c[Len(seqs)]
    BY <1>1 DEF FlattenSeq
  <1> HIDE DEF c
  <1>6. Joins(c, n, seqs)
    <2>1. \A i \in 1 .. n : c[i] = IF i = 1 THEN seqs[i] ELSE c[i - 1] \o seqs[i]
      BY <1>1, <1>4
    <2>2. 1 \in 1 .. n /\ \A i \in 2 .. n : i \in 1 .. n /\ i # 1
      OBVIOUS
    <2>3. QED
      BY <2>1, <2>2 DEF Joins
  <1>7. QED
    BY <1>1, <1>5, <1>6

\* One after another, sequences of words stand where Place says.
LEMMA Flattening ==
  ASSUME Build, NEW n \in Nat, NEW widths \in [1 .. n -> AllWidths],
         NEW S, NEW seqs \in [1 .. n -> Seq(S)],
         \A i \in 1 .. n : Len(seqs[i]) = NWords(widths[i])
  PROVE  /\ FlattenSeq(seqs) \in Seq(S)
         /\ \A i \in 1 .. n :
              /\ Place(widths, i) + NWords(widths[i]) - 1 <= Len(FlattenSeq(seqs))
              /\ \A j \in 1 .. NWords(widths[i]) :
                   FlattenSeq(seqs)[Place(widths, i) + j - 1] = seqs[i][j]
  <1>1. seqs \in Seq(Seq(S)) /\ Len(seqs) = n
    OBVIOUS
  <1>2. CASE n = 0
    <2>1. FlattenSeq(seqs) = seqs
      BY <1>1, <1>2 DEF FlattenSeq
    <2>2. seqs \in Seq(S)
      BY <1>2
    <2>3. QED
      BY <1>2, <2>1, <2>2
  <1>3. CASE n # 0
    <2>1. PICK g : FlattenSeq(seqs) = g[n] /\ Joins(g, n, seqs)
      <3>1. n \in Nat \ {0} /\ seqs \in SeqsOf(n, S)
        BY <1>3 DEF SeqsOf
      <3>2. QED
        BY <3>1, Joining
    <2> DEFINE Before(m) == IF m = 0 THEN <<>> ELSE g[m]
               Good(m) ==
                 /\ Before(m) \in Seq(S) /\ Len(Before(m)) = Place(widths, m + 1) - 1
                 /\ \A i \in 1 .. m :
                      /\ Place(widths, i) + NWords(widths[i]) - 1 <= Len(Before(m))
                      /\ \A j \in 1 .. NWords(widths[i]) :
                           Before(m)[Place(widths, i) + j - 1] = seqs[i][j]
    <2>2. Good(0)
      BY PlaceFacts
    <2>3. ASSUME NEW m \in 0 .. n - 1, Good(m) PROVE Good(m + 1)
      <3> DEFINE b == Before(m)
                 p == Place(widths, m + 1)
      <3>1. Before(m + 1) = b \o seqs[m + 1]
        <4>1. CASE m = 0
          <5>1. <<>> \o seqs[1] = seqs[1]
            OBVIOUS
          <5>2. QED
            BY <2>1, <4>1, <5>1 DEF Joins
        <4>2. CASE m # 0
          <5> DEFINE k == m + 1
          <5>1. k \in 2 .. n /\ k - 1 = m /\ k # 0
            BY <4>2
          <5> HIDE DEF k
          <5>2. g[k] = g[k - 1] \o seqs[k]
            BY <2>1, <5>1 DEF Joins
          <5>3. Before(k) = g[k] /\ b = g[m]
            BY <4>2, <5>1
          <5>4. QED
            BY <5>1, <5>2, <5>3 DEF k
        <4>3. QED
          BY <4>1, <4>2
      <3>2. /\ b \in Seq(S) /\ Len(b) = p - 1 /\ p \in Nat
            /\ seqs[m + 1] \in Seq(S) /\ Len(seqs[m + 1]) = NWords(widths[m + 1])
            /\ Place(widths, m + 2) = p + NWords(widths[m + 1])
            /\ NWords(widths[m + 1]) \in {1, 2}
        <4>1. m + 1 \in 1 .. n /\ m + 1 \in 1 .. n + 1 /\ m + 1 + 1 = m + 2
          OBVIOUS
        <4>2. p \in Nat /\ Place(widths, m + 1 + 1) = p + NWords(widths[m + 1])
          BY <4>1, PlaceFacts
        <4>3. b \in Seq(S) /\ Len(b) = p - 1
          BY <2>3
        <4>4. NWords(widths[m + 1]) \in {1, 2}
          BY DEF NWords
        <4>5. QED
          BY <4>1, <4>2, <4>3, <4>4
      <3>3. ASSUME NEW i \in 1 .. m
            PROVE  /\ Place(widths, i) + NWords(widths[i]) - 1 <= Len(b)
                   /\ \A j \in 1 .. NWords(widths[i]) : b[Place(widths, i) + j - 1] = seqs[i][j]
                   /\ Place(widths, i) \in Nat /\ Place(widths, i) >= 1
                   /\ NWords(widths[i]) \in {1, 2}
        <4>1. i \in 1 .. n + 1 /\ 1 <= i
          OBVIOUS
        <4>2. Place(widths, i) \in Nat /\ Place(widths, i) >= i
          BY <4>1, PlaceFacts
        <4>3. Place(widths, i) >= 1
          BY <4>1, <4>2
        <4>4. NWords(widths[i]) \in {1, 2}
          BY DEF NWords
        <4>5. QED
          BY <2>3, <4>2, <4>3, <4>4
      <3> HIDE DEF Before, b, p
      <3> DEFINE c == b \o seqs[m + 1]
      <3>4. /\ c \in Seq(S) /\ Len(c) = Len(b) + NWords(widths[m + 1])
            /\ \A k \in 1 .. Len(b) : c[k] = b[k]
            /\ \A j \in 1 .. NWords(widths[m + 1]) : c[Len(b) + j] = seqs[m + 1][j]
            /\ Len(b) \in Nat /\ Len(c) \in Nat
        <4>1. /\ c \in Seq(S) /\ Len(c) = Len(b) + Len(seqs[m + 1])
              /\ \A k \in 1 .. Len(b) + Len(seqs[m + 1]) :
                   c[k] = IF k <= Len(b) THEN b[k] ELSE seqs[m + 1][k - Len(b)]
          BY <3>2, ConcatProperties
        <4>2. Len(b) \in Nat /\ Len(c) \in Nat
          BY <3>2, <4>1, LenProperties
        <4> HIDE DEF c
        <4>3. ASSUME NEW j \in 1 .. NWords(widths[m + 1])
              PROVE  c[Len(b) + j] = seqs[m + 1][j]
          <5>1. /\ Len(b) + j \in 1 .. Len(b) + Len(seqs[m + 1])
                /\ ~(Len(b) + j <= Len(b)) /\ Len(b) + j - Len(b) = j
            BY <3>2, <4>2
          <5>2. QED
            BY <4>1, <5>1
        <4>4. \A k \in 1 .. Len(b) : k \in 1 .. Len(b) + Len(seqs[m + 1]) /\ k <= Len(b)
          BY <3>2, <4>2
        <4>5. QED
          BY <3>2, <4>1, <4>2, <4>3, <4>4
      <3> HIDE DEF c
      <3>5. ASSUME NEW i \in 1 .. m + 1
            PROVE  /\ Place(widths, i) + NWords(widths[i]) - 1 <= Len(c)
                   /\ \A j \in 1 .. NWords(widths[i]) : c[Place(widths, i) + j - 1] = seqs[i][j]
        <4>1. CASE i \in 1 .. m
          <5>1. Place(widths, i) + NWords(widths[i]) - 1 <= Len(c)
            <6>1. Place(widths, i) + NWords(widths[i]) - 1 <= Len(b)
              BY <3>3, <4>1
            <6>2. Place(widths, i) \in Nat /\ NWords(widths[i]) \in {1, 2}
              BY <3>3, <4>1
            <6>3. Len(c) = Len(b) + NWords(widths[m + 1]) /\ NWords(widths[m + 1]) \in {1, 2}
                  /\ Len(b) \in Nat /\ Len(c) \in Nat
              BY <3>2, <3>4
            <6>4. QED
              BY <6>1, <6>2, <6>3
          <5>2. ASSUME NEW j \in 1 .. NWords(widths[i])
                PROVE  c[Place(widths, i) + j - 1] = seqs[i][j]
            <6>1. /\ Place(widths, i) \in Nat /\ Place(widths, i) >= 1
                  /\ NWords(widths[i]) \in {1, 2} /\ Len(b) \in Nat
                  /\ Place(widths, i) + NWords(widths[i]) - 1 <= Len(b)
              BY <3>3, <3>4, <4>1
            <6>2. Place(widths, i) + j - 1 \in 1 .. Len(b)
              BY <6>1
            <6>3. b[Place(widths, i) + j - 1] = seqs[i][j]
              BY <3>3, <4>1
            <6>4. c[Place(widths, i) + j - 1] = b[Place(widths, i) + j - 1]
              BY <3>4, <6>2
            <6>5. QED
              BY <6>3, <6>4
          <5>3. QED
            BY <5>1, <5>2
        <4>2. CASE i = m + 1
          <5>1. Place(widths, i) = Len(b) + 1
            BY <3>2, <4>2 DEF p
          <5>2. Place(widths, i) + NWords(widths[i]) - 1 <= Len(c)
            BY <3>2, <3>4, <4>2, <5>1
          <5>3. ASSUME NEW j \in 1 .. NWords(widths[i])
                PROVE  c[Place(widths, i) + j - 1] = seqs[i][j]
            <6>1. Place(widths, i) + j - 1 = Len(b) + j
              BY <3>4, <5>1
            <6>2. c[Len(b) + j] = seqs[m + 1][j]
              BY <3>4, <4>2
            <6>3. QED
              BY <4>2, <6>1, <6>2
          <5>4. QED
            BY <5>2, <5>3
        <4>3. QED
          BY <4>1, <4>2
      <3>6. Len(c) = Place(widths, m + 2) - 1 /\ m + 1 + 1 = m + 2
        BY <3>2, <3>4
      <3>7. Before(m + 1) = c
        BY <3>1 DEF c
      <3>8. QED
        BY <3>4, <3>5, <3>6, <3>7
    <2> HIDE DEF Good
    <2>4. Good(n)
      <3> DEFINE G == {m \in 0 .. n : Good(m)}
      <3>1. 0 \in G /\ \A m \in 0 .. n - 1 : m \in G => m + 1 \in G
        BY <2>2, <2>3
      <3> HIDE DEF G
      <3>2. n \in G
        <4>1. n \in 0 .. n
          OBVIOUS
        <4>2. QED
          BY <3>1, <4>1, Induction
      <3>3. QED
        BY <3>2 DEF G
    <2>5. Before(n) = FlattenSeq(seqs)
      BY <1>1, <1>3, <2>1
    <2> HIDE DEF Before
    <2>6. QED
      BY <2>4, <2>5 DEF Good
  <1>4. QED
    BY <1>2, <1>3

-----------------------------------------------------------------------------
(* Values.                                                                 *)

\* What is given is what Init chose.
GivenOK ==
    /\ Build /\ kind \in {"call", "callback", "wasm", "struct"}
    /\ \E n \in Nat : Args = 1 .. n
    /\ \A i \in Args : Type(i) \in Types /\ Bits(i) \in Values(Type(i))

\* The tag is half of what a word holds.
LEMMA TagFacts ==
  ASSUME Build
  PROVE  Tag \in Nat \ {0} /\ 2 * Tag = word
  <1>1. PICK h \in Nat : word = 2 * h
    BY WordWidth, WidthNat
  <1>2. word \in Nat /\ word >= 2
    BY WordWidth, WidthNat
  <1>3. word \div 2 = h /\ h >= 1
    BY <1>1, <1>2
  <1>4. QED
    BY <1>1, <1>3 DEF Tag

\* A value fits its type, a bool is 0 or 1, and a pointer for wasm is the
\* tag and an offset of half an int, or NULL.
LEMMA ValueFacts ==
  ASSUME Build, NEW t \in Types, NEW v \in Values(t)
  PROVE  /\ v \in 0 .. Width(t) - 1 /\ v \in Nat
         /\ t = "bool" => v \in {0, 1}
         /\ t = "ptr" /\ kind = "wasm" /\ v # 0 => v - Tag \in Nat /\ 2 * (v - Tag) < INT
  <1>1. /\ \A w \in AllWidths : Samples(w) \subseteq 0 .. w - 1
        /\ Width(t) \in AllWidths /\ INT \in AllWidths /\ Width(t) \in Nat
    BY WireAbiAssumption, TypeWidths, WidthNat DEF AllWidths
  <1>2. CASE t = "bool"
    <2>1. v \in {0, 1} /\ Width(t) >= 2
      BY <1>1, <1>2, WidthNat DEF Values
    <2>2. QED
      BY <1>1, <1>2, <2>1
  <1>3. CASE t = "ptr" /\ kind = "wasm" /\ v # 0
    <2>1. PICK o \in Samples(INT) : v = Tag + o /\ ~Negative(o, INT)
      BY <1>3 DEF Values
    <2>2. o \in Nat /\ 2 * o < INT
      BY <1>1, <2>1, Constants DEF Negative
    <2>3. Width(t) = word /\ INT <= word /\ word \in Nat
      BY <1>1, <1>3, TypeWidths, WordWidth
    <2>4. Tag \in Nat /\ 2 * Tag = word
      BY TagFacts
    <2>5. QED
      BY <1>3, <2>1, <2>2, <2>3, <2>4, Constants
  <1>4. CASE t # "bool" /\ ~(t = "ptr" /\ kind = "wasm")
    BY <1>1, <1>4 DEF Values
  <1>5. CASE t = "ptr" /\ v = 0
    BY <1>1, <1>5, WidthNat
  <1>6. QED
    BY <1>2, <1>3, <1>4, <1>5

\* rlbox's conversion keeps the number, and so the bits that the type has.
LEMMA ConvertedFacts ==
  ASSUME Build, NEW t \in Types, NEW p \in 0 .. Width(t) - 1
  PROVE  /\ Converted(p, t) \in 0 .. HostWidth(t) - 1
         /\ \A u \in AllWidths : u <= Width(t) => Low(Converted(p, t), u) = Low(p, u)
         /\ Number(Converted(p, t), HostWidth(t), t) = Number(p, Width(t), t)
         /\ Low(p, Width(t)) = p
         /\ HostWidth(t) = Width(t) => Converted(p, t) = p
  <1>1. /\ Width(t) \in AllWidths /\ HostWidth(t) \in AllWidths /\ Width(t) <= HostWidth(t)
        /\ Signed(t) \in BOOLEAN /\ Width(t) \in Nat \ {0} /\ HostWidth(t) \in Nat
    BY TypeWidths, WidthNat DEF Signed
  <1>2. /\ Converted(p, t) \in 0 .. HostWidth(t) - 1
        /\ \A u \in AllWidths : u <= Width(t) /\ u <= HostWidth(t) =>
             Low(Converted(p, t), u) = Low(p, u)
    BY <1>1, CastLow DEF Converted
  <1>3. Number(Converted(p, t), HostWidth(t), t) = Number(p, Width(t), t)
    BY <1>1, CastNumber DEF Converted
  <1>4. Low(p, Width(t)) = p
    BY <1>1, Small DEF Low
  <1>5. \A u \in AllWidths : u <= Width(t) => u <= HostWidth(t)
    BY <1>1, WidthNat
  <1>6. HostWidth(t) = Width(t) => Converted(p, t) = p
    BY <1>1, <1>4 DEF Converted, Cast
  <1>7. QED
    BY <1>2, <1>3, <1>4, <1>5, <1>6

\* A slot has the value of an argument as its low part.
LEMMA PackFacts ==
  ASSUME Build, NEW t \in Types, NEW p \in 0 .. Width(t) - 1
  PROVE  /\ PackSlot(p, t) \in 0 .. SLOT - 1
         /\ \A u \in AllWidths : u <= Width(t) => Low(PackSlot(p, t), u) = Low(p, u)
  <1> DEFINE c == Converted(p, t)
             h == HostWidth(t)
  <1>1. /\ c \in 0 .. h - 1 /\ h \in AllWidths /\ SLOT \in AllWidths /\ Signed(t) \in BOOLEAN
        /\ \A u \in AllWidths : u <= Width(t) => Low(c, u) = Low(p, u)
    BY ConvertedFacts, TypeWidths DEF Signed, AllWidths
  <1>2. PackSlot(p, t) = Cast(c, h, Signed(t), SLOT)
    BY DEF PackSlot
  <1>3. \A u \in AllWidths : u <= Width(t) => u <= h /\ u <= SLOT
    BY TypeWidths, WidthNat, Constants DEF AllWidths
  <1> HIDE DEF c, h
  <1>4. /\ PackSlot(p, t) \in 0 .. SLOT - 1
        /\ \A u \in AllWidths : u <= h /\ u <= SLOT => Low(PackSlot(p, t), u) = Low(c, u)
    BY <1>1, <1>2, CastLow
  <1>5. QED
    BY <1>1, <1>3, <1>4

\* Low parts of low parts.
LEMMA LowOfLow ==
  ASSUME NEW w \in AllWidths, NEW u \in AllWidths, u <= w, NEW p \in Nat
  PROVE  /\ Low(p, w) \in 0 .. w - 1 /\ Low(p, w) \in Nat
         /\ Low(Low(p, w), u) = Low(p, u)
  <1>1. w \in Nat \ {0} /\ u \in Nat \ {0} /\ Divides(u, w) /\ p \in Int
    BY WidthNat, Ordered
  <1>2. (p % w) % u = p % u
    BY <1>1, LowLow
  <1>3. QED
    BY <1>1, <1>2 DEF Low

-----------------------------------------------------------------------------
(* Arguments in words.                                                     *)

Wides(n) == [1 .. n -> AllWidths]

\* The words of all arguments are where each is looked for.
LEMMA FlattenWords ==
  ASSUME Build, NEW n \in Nat, NEW w \in Wides(n), NEW noise \in {0, 1},
         NEW p, \A i \in 1 .. n : p[i] \in 0 .. w[i] - 1,
         NEW ws, ws = FlattenSeq([i \in 1 .. n |-> InWords(p[i], w[i], noise)])
  PROVE  /\ ws \in Seq(0 .. word - 1)
         /\ \A i \in 1 .. n : HasAt(ws, Place(w, i), p[i], w[i], noise)
                              /\ Place(w, i) \in Nat /\ Place(w, i) >= i
  <1> DEFINE seqs == [i \in 1 .. n |-> InWords(p[i], w[i], noise)]
             W == 0 .. word - 1
  <1>1. w \in [1 .. n -> AllWidths]
    BY DEF Wides
  <1>2. ASSUME NEW i \in 1 .. n
        PROVE  seqs[i] \in Seq(W) /\ Len(seqs[i]) = NWords(w[i]) /\ w[i] \in AllWidths
    BY <1>1, InWordsFacts
  <1>3. seqs \in [1 .. n -> Seq(W)]
    BY <1>2
  <1>4. ws = FlattenSeq(seqs)
    OBVIOUS
  <1>5. \A i \in 1 .. n : seqs[i] = InWords(p[i], w[i], noise)
    OBVIOUS
  <1> HIDE DEF seqs, W
  <1>6. /\ FlattenSeq(seqs) \in Seq(W)
        /\ \A i \in 1 .. n :
             /\ Place(w, i) + NWords(w[i]) - 1 <= Len(FlattenSeq(seqs))
             /\ \A j \in 1 .. NWords(w[i]) : FlattenSeq(seqs)[Place(w, i) + j - 1] = seqs[i][j]
    BY <1>1, <1>2, <1>3, Flattening
  <1>7. \A i \in 1 .. n : Place(w, i) \in Nat /\ Place(w, i) >= i
    BY <1>1, PlaceFacts
  <1>8. QED
    BY <1>4, <1>5, <1>6, <1>7 DEF HasAt, W

\* Only whether the arguments before it take two words counts for a place.
LEMMA SamePlace ==
  ASSUME NEW i, NEW w, NEW v, \A j \in 1 .. i - 1 : w[j] > word <=> v[j] > word
  PROVE  Place(w, i) = Place(v, i)
  <1>1. {j \in 1 .. i - 1 : w[j] > word} = {j \in 1 .. i - 1 : v[j] > word}
    OBVIOUS
  <1>2. QED
    BY <1>1 DEF Place

\* Whatever the words, what is read has the width it is read at.
LEMMA FromWordsRange ==
  ASSUME Build, NEW u \in AllWidths, NEW ws \in Seq(0 .. word - 1), NEW k \in Nat, k >= 1
  PROVE  FromWords(ws, k, u) \in 0 .. u - 1
  <1> DEFINE at(j) == IF j <= Len(ws) THEN ws[j] ELSE word - 1
  <1>1. u \in Nat \ {0} /\ word \in Nat \ {0} /\ Len(ws) \in Nat
    BY WidthNat, WordWidth
  <1>2. ASSUME NEW j \in Nat, j >= 1 PROVE at(j) \in 0 .. word - 1
    <2>1. CASE j <= Len(ws)
      <3>1. j \in 1 .. Len(ws)
        BY <1>1, <1>2, <2>1
      <3>2. ws[j] \in 0 .. word - 1
        BY <3>1, ElementOfSeq
      <3>3. QED
        BY <2>1, <3>2
    <2>2. CASE ~(j <= Len(ws))
      BY <1>1, <2>2
    <2>3. QED
      BY <2>1, <2>2
  <1>3. FromWords(ws, k, u) = IF u > word THEN at(k) + at(k + 1) * word ELSE at(k) % u
    BY DEF FromWords, Low
  <1>4. at(k) \in 0 .. word - 1 /\ at(k + 1) \in 0 .. word - 1
    BY <1>2
  <1> DEFINE a == at(k)
             b == at(k + 1)
  <1>5. a \in 0 .. word - 1 /\ b \in 0 .. word - 1
    BY <1>4
  <1>6. FromWords(ws, k, u) = IF u > word THEN a + b * word ELSE a % u
    BY <1>3
  <1> HIDE DEF at, a, b
  <1>7. CASE u > word
    <2>1. u = word * word
      BY <1>1, <1>7, Constants DEF Build, AllWidths
    <2>2. b * word <= (word - 1) * word /\ b * word >= 0 /\ b * word \in Int
      BY <1>1, <1>5
    <2>3. (word - 1) * word = word * word - word
      BY <1>1
    <2>4. QED
      BY <1>1, <1>5, <1>6, <1>7, <2>1, <2>2, <2>3
  <1>8. CASE ~(u > word)
    BY <1>1, <1>5, <1>6, <1>8
  <1>9. QED
    BY <1>7, <1>8

\* A slot read where a value begins has the value as its low part.
LEMMA ReadingSlot ==
  ASSUME Build, NEW w \in AllWidths, NEW p \in 0 .. w - 1, NEW noise \in {0, 1},
         NEW ws \in Seq(0 .. word - 1), NEW k \in Nat, k >= 1, HasAt(ws, k, p, w, noise)
  PROVE  Low(FromWords(ws, k, SLOT), w) = p
  <1>1. /\ w \in Nat \ {0} /\ word \in Nat \ {0} /\ p \in Nat /\ Len(ws) \in Nat
        /\ w <= SLOT /\ SLOT \in AllWidths /\ word \in AllWidths
    BY WidthNat, WordWidth, Constants DEF AllWidths
  <1>2. Low(p, w) = p
    BY <1>1, Small DEF Low
  <1>3. CASE w = SLOT
    <2>1. FromWords(ws, k, SLOT) = Low(p, SLOT)
      BY <1>1, <1>3, Reading
    <2>2. QED
      BY <1>2, <1>3, <2>1
  <1>4. CASE w # SLOT
    <2>1. w <= word
      BY <1>4, Constants DEF Build, AllWidths
    <2>2. ws[k] = InWords(p, w, noise)[1] /\ k <= Len(ws)
      <3>1. NWords(w) = 1
        BY <1>1, <2>1 DEF NWords
      <3>2. ws[k + 1 - 1] = InWords(p, w, noise)[1] /\ k + 1 - 1 <= Len(ws)
        BY <3>1 DEF HasAt
      <3>3. QED
        BY <3>2
    <2>3. ws[k] \in 0 .. word - 1
      <3>1. k \in 1 .. Len(ws)
        BY <1>1, <2>2
      <3>2. QED
        BY <3>1, ElementOfSeq
    <2>4. Low(ws[k], w) = p
      BY <1>1, <1>2, <2>1, <2>2, FirstWord
    <2>5. CASE SLOT > word
      <3> DEFINE b == IF k + 1 <= Len(ws) THEN ws[k + 1] ELSE word - 1
      <3>1. b \in Int
        <4>1. CASE k + 1 <= Len(ws)
          <5>1. k + 1 \in 1 .. Len(ws)
            BY <1>1, <4>1
          <5>2. QED
            BY <1>1, <4>1, <5>1
        <4>2. CASE ~(k + 1 <= Len(ws))
          BY <1>1, <4>2
        <4>3. QED
          BY <4>1, <4>2
      <3>2. FromWords(ws, k, SLOT) = ws[k] + b * word
        BY <2>2, <2>5 DEF FromWords
      <3> HIDE DEF b
      <3>3. (ws[k] + b * word) % w = ws[k] % w
        <4>1. ws[k] \in Int
          BY <1>1, <2>3
        <4>2. QED
          BY <1>1, <2>1, <3>1, <4>1, LowWide
      <3>4. QED
        BY <2>4, <3>2, <3>3 DEF Low
    <2>6. CASE ~(SLOT > word)
      <3>1. word = SLOT
        <4>1. INT < SLOT
          BY Constants
        <4>2. QED
          BY <2>6, <4>1 DEF Build
      <3>2. FromWords(ws, k, SLOT) = ws[k] % SLOT
        BY <2>2, <2>6 DEF FromWords, Low
      <3>3. ws[k] % SLOT = ws[k]
        BY <1>1, <2>3, <3>1, Small
      <3>4. QED
        BY <2>4, <3>2, <3>3
    <2>7. QED
      BY <2>5, <2>6
  <1>5. QED
    BY <1>3, <1>4

\* A result is in the words from the first on.
LEMMA Alone ==
  ASSUME Build, NEW w \in AllWidths, NEW p \in 0 .. w - 1, NEW noise \in {0, 1}
  PROVE  HasAt(InWords(p, w, noise), 1, p, w, noise)
  <1>1. Len(InWords(p, w, noise)) = NWords(w) /\ NWords(w) \in {1, 2}
    BY InWordsFacts
  <1>2. \A j \in 1 .. NWords(w) : 1 + j - 1 = j
    BY <1>1
  <1>3. QED
    BY <1>1, <1>2 DEF HasAt

\* Where Place puts argument i, if all words are wide enough, or if none
\* before it is.
LEMMA PlaceEven ==
  ASSUME NEW i \in Nat \ {0}, NEW w
  PROVE  /\ (\A j \in 1 .. i - 1 : ~(w[j] > word)) => Place(w, i) = i
         /\ (\A j \in 1 .. i - 1 : w[j] > word) => Place(w, i) = i + (i - 1)
  <1> DEFINE W == {j \in 1 .. i - 1 : w[j] > word}
  <1>1. Place(w, i) = i + Cardinality(W)
    BY DEF Place
  <1>2. (\A j \in 1 .. i - 1 : ~(w[j] > word)) => W = {}
    OBVIOUS
  <1>3. (\A j \in 1 .. i - 1 : w[j] > word) => W = 1 .. i - 1
    OBVIOUS
  <1> HIDE DEF W
  <1>4. Cardinality(1 .. i - 1) = i - 1
    <2>1. Cardinality(1 .. i - 1) = IF 1 > i - 1 THEN 0 ELSE i - 1 - 1 + 1
      BY FS_Interval
    <2>2. QED
      BY <2>1
  <1>5. Cardinality({}) = 0
    BY FS_EmptySet
  <1>6. ASSUME \A j \in 1 .. i - 1 : ~(w[j] > word) PROVE Place(w, i) = i
    BY <1>1, <1>2, <1>5, <1>6
  <1>7. ASSUME \A j \in 1 .. i - 1 : w[j] > word PROVE Place(w, i) = i + (i - 1)
    BY <1>1, <1>3, <1>4, <1>7
  <1>8. QED
    BY <1>6, <1>7

-----------------------------------------------------------------------------
(* The layout of a struct.                                                 *)

\* No field is empty.
LEMMA BytesNat ==
  ASSUME NEW w \in AllWidths
  PROVE  Bytes(w) \in Nat \ {0}
  BY Constants, WireAbiAssumption DEF Bytes, AllWidths

\* Alignment never goes back.
LEMMA AlignedFacts ==
  ASSUME Build, NEW o \in Nat, NEW w \in AllWidths
  PROVE  Aligned(o, w) \in Nat /\ Aligned(o, w) >= o
  <1> DEFINE a == Bytes(IF w < word THEN w ELSE word)
             q == (o + a - 1) \div a
             r == (o + a - 1) % a
  <1>1. a \in Nat \ {0}
    BY BytesNat, WordWidth
  <1>2. Aligned(o, w) = q * a
    BY DEF Aligned
  <1>3. q \in Int /\ r \in 0 .. a - 1 /\ o + a - 1 = q * a + r
    <2>1. o + a - 1 \in Int
      BY <1>1
    <2> HIDE DEF a
    <2>2. QED
      BY <1>1, <2>1, Remainder
  <1> HIDE DEF a, q, r
  <1>4. q * a \in Int
    BY <1>1, <1>3
  <1>5. q * a >= o
    BY <1>1, <1>3, <1>4
  <1>6. QED
    BY <1>2, <1>4, <1>5

\* Each field begins behind the one before it.
LaidOut(at, n, w) ==
    /\ at \in [1 .. n -> Nat] /\ at[1] = Aligned(0, w[1])
    /\ \A i \in 2 .. n : at[i] = Aligned(at[i - 1] + Bytes(w[i - 1]), w[i])

\* Layout exists as its definition has it.
LEMMA LayoutFacts ==
  ASSUME Build, NEW n \in Nat \ {0}, NEW w \in Wides(n)
  PROVE  LaidOut(Layout(w), n, w)
  <1> DEFINE Is(f) == f = [i \in DOMAIN w |->
                             Aligned(IF i = 1 THEN 0 ELSE f[i - 1] + Bytes(w[i - 1]), w[i])]
             step == [i \in 1 .. n |->
                        [o \in Nat |-> IF i = 1 THEN 0 ELSE Aligned(o + Bytes(w[i - 1]), w[i])]]
  <1>1. DOMAIN w = 1 .. n /\ \A i \in 1 .. n : w[i] \in AllWidths
    BY DEF Wides
  <1>2. step \in Steps(n, Nat) /\ Aligned(0, w[1]) \in Nat
    <2>1. ASSUME NEW i \in 1 .. n, NEW o \in Nat
          PROVE  (IF i = 1 THEN 0 ELSE Aligned(o + Bytes(w[i - 1]), w[i])) \in Nat
      <3>1. CASE i = 1
        BY <3>1
      <3>2. CASE i # 1
        <4>1. i - 1 \in 1 .. n
          BY <3>2
        <4>2. Bytes(w[i - 1]) \in Nat
          BY <1>1, <4>1, BytesNat
        <4>3. o + Bytes(w[i - 1]) \in Nat /\ w[i] \in AllWidths
          BY <1>1, <4>2
        <4>4. Aligned(o + Bytes(w[i - 1]), w[i]) \in Nat
          BY <4>3, AlignedFacts
        <4>5. QED
          BY <3>2, <4>4
      <3>3. QED
        BY <3>1, <3>2
    <2>2. Aligned(0, w[1]) \in Nat
      <3>1. 0 \in Nat /\ w[1] \in AllWidths
        BY <1>1
      <3>2. QED
        BY <3>1, AlignedFacts
    <2>3. QED
      BY <2>1, <2>2 DEF Steps
  <1>3. PICK f : Chain(f, n, Nat, Aligned(0, w[1]), step)
    <2> HIDE DEF step
    <2>1. QED
      BY <1>2, Recursion
  <1>4. f \in [1 .. n -> Nat] /\ f[1] = Aligned(0, w[1])
        /\ \A i \in 2 .. n : f[i] = step[i][f[i - 1]]
    <2> HIDE DEF step
    <2>1. QED
      BY <1>3 DEF Chain
  <1>5. ASSUME NEW i \in 1 .. n
        PROVE  f[i] = Aligned(IF i = 1 THEN 0 ELSE f[i - 1] + Bytes(w[i - 1]), w[i])
    <2>1. CASE i = 1
      BY <1>4, <2>1
    <2>2. CASE i # 1
      <3>1. f[i - 1] \in Nat /\ i \in 2 .. n
        BY <1>4, <2>2
      <3>2. QED
        BY <1>4, <2>2, <3>1
    <2>3. QED
      BY <2>1, <2>2
  <1> DEFINE c == CHOOSE g : Is(g)
  <1>6. Is(c)
    <2>1. Is(f)
      BY <1>1, <1>4, <1>5
    <2>2. QED
      BY <2>1
  <1>7. Layout(w) = c
    BY DEF Layout
  <1> HIDE DEF c, step
  <1>8. ASSUME NEW i \in 1 .. n
        PROVE  c[i] = Aligned(IF i = 1 THEN 0 ELSE c[i - 1] + Bytes(w[i - 1]), w[i])
    BY <1>1, <1>6
  <1>9. DOMAIN c = 1 .. n /\ c = [i \in 1 .. n |-> c[i]]
    BY <1>1, <1>6
  <1> HIDE DEF Is
  <1>10. c[1] = Aligned(0, w[1])
    BY <1>8
  <1>11. \A i \in 2 .. n : c[i] = Aligned(c[i - 1] + Bytes(w[i - 1]), w[i])
    BY <1>8
  <1>12. \A i \in 1 .. n : c[i] \in Nat
    <2> DEFINE G == {m \in 0 .. n - 1 : c[m + 1] \in Nat}
    <2>1. 0 \in G
      BY <1>2, <1>10
    <2>2. ASSUME NEW m \in 0 .. n - 1 - 1, m \in G PROVE m + 1 \in G
      <3> DEFINE k == m + 2
      <3>1. k \in 2 .. n /\ k - 1 \in 1 .. n /\ k - 1 = m + 1 /\ k \in 1 .. n /\ m + 1 + 1 = k
            /\ m + 1 \in 0 .. n - 1
        OBVIOUS
      <3>2. c[m + 1] \in Nat
        BY <2>2
      <3> HIDE DEF k
      <3>3. c[k] = Aligned(c[k - 1] + Bytes(w[k - 1]), w[k])
        BY <1>11, <3>1
      <3>4. c[k - 1] + Bytes(w[k - 1]) \in Nat
        <4>1. Bytes(w[k - 1]) \in Nat
          BY <1>1, <3>1, BytesNat
        <4>2. QED
          BY <3>1, <3>2, <4>1
      <3>5. c[k] \in Nat
        BY <1>1, <3>1, <3>3, <3>4, AlignedFacts
      <3>6. QED
        BY <3>1, <3>5
    <2> HIDE DEF G
    <2>3. \A m \in 0 .. n - 1 : m \in G
      <3>1. n - 1 \in Nat
        OBVIOUS
      <3>2. QED
        BY <2>1, <2>2, <3>1, Induction
    <2>4. ASSUME NEW i \in 1 .. n PROVE c[i] \in Nat
      <3>1. i - 1 \in G /\ i - 1 + 1 = i
        BY <2>3
      <3>2. QED
        BY <3>1 DEF G
    <2>5. QED
      BY <2>4
  <1>13. c \in [1 .. n -> Nat]
    BY <1>9, <1>12
  <1>14. QED
    BY <1>7, <1>10, <1>11, <1>13 DEF LaidOut

\* Fields come one behind another, so no two begin at one place.
LEMMA LayoutIncreases ==
  ASSUME Build, NEW n \in Nat, NEW w \in Wides(n), NEW at, LaidOut(at, n, w),
         NEW i \in 1 .. n, NEW j \in 1 .. n, i < j
  PROVE  at[i] < at[j]
  <1> DEFINE G == {m \in 0 .. n - i : at[i + m] >= at[i] + m}
  <1>0. /\ \A k \in 1 .. n : w[k] \in AllWidths /\ at[k] \in Nat
        /\ \A k \in 2 .. n : at[k] = Aligned(at[k - 1] + Bytes(w[k - 1]), w[k])
    BY DEF Wides, LaidOut
  <1>1. 0 \in G
    BY <1>0
  <1>2. ASSUME NEW m \in 0 .. n - i - 1, m \in G PROVE m + 1 \in G
    <2> DEFINE k == i + m + 1
    <2>1. /\ k \in 2 .. n /\ k \in 1 .. n /\ k - 1 \in 1 .. n /\ k - 1 = i + m
          /\ i + (m + 1) = k /\ m + 1 \in 0 .. n - i
      OBVIOUS
    <2>2. at[i + m] >= at[i] + m
      BY <1>2
    <2> HIDE DEF k
    <2>3. at[k] = Aligned(at[k - 1] + Bytes(w[k - 1]), w[k])
      BY <1>0, <2>1
    <2>4. Bytes(w[k - 1]) \in Nat \ {0} /\ at[k - 1] \in Nat /\ at[k] \in Nat /\ at[i] \in Nat
      BY <1>0, <2>1, BytesNat
    <2>5. at[k - 1] + Bytes(w[k - 1]) \in Nat
      BY <2>4
    <2>6. at[k] >= at[k - 1] + Bytes(w[k - 1])
      BY <1>0, <2>1, <2>3, <2>5, AlignedFacts
    <2>7. at[k] >= at[i] + (m + 1)
      BY <2>1, <2>2, <2>4, <2>6
    <2>8. QED
      BY <2>1, <2>7
  <1> HIDE DEF G
  <1>3. j - i \in G
    <2>1. n - i \in Nat /\ j - i \in 0 .. n - i
      OBVIOUS
    <2>2. QED
      BY <1>1, <1>2, <2>1, Induction
  <1>4. at[i + (j - i)] >= at[i] + (j - i) /\ i + (j - i) = j
    BY <1>3 DEF G
  <1>5. QED
    BY <1>0, <1>4

\* Where all fields before one have their widths, it begins where it would
\* with these, whether it is wider than a word or not.
LEMMA SameLayout ==
  ASSUME Build, NEW n \in Nat, NEW w \in Wides(n), NEW v \in Wides(n),
         NEW at, LaidOut(at, n, w), NEW to, LaidOut(to, n, v),
         NEW i \in 1 .. n, \A j \in 1 .. i - 1 : w[j] = v[j],
         w[i] = v[i] \/ (word <= w[i] /\ word <= v[i])
  PROVE  at[i] = to[i]
  <1> DEFINE G == {m \in 0 .. i - 1 : m + 1 < i => at[m + 1] = to[m + 1]}
  <1>0. /\ \A k \in 1 .. n : w[k] \in Nat /\ v[k] \in Nat /\ word \in Nat
        /\ \A k \in 2 .. n : at[k] = Aligned(at[k - 1] + Bytes(w[k - 1]), w[k])
        /\ \A k \in 2 .. n : to[k] = Aligned(to[k - 1] + Bytes(v[k - 1]), v[k])
        /\ at[1] = Aligned(0, w[1]) /\ to[1] = Aligned(0, v[1])
    BY WidthNat, WordWidth DEF Wides, LaidOut
  <1>1. \A o : Aligned(o, w[i]) = Aligned(o, v[i])
    <2>1. (IF w[i] < word THEN w[i] ELSE word) = (IF v[i] < word THEN v[i] ELSE word)
      BY <1>0
    <2>2. QED
      BY <2>1 DEF Aligned
  <1>2. 0 \in G
    <2>1. 1 < i => 1 \in 1 .. i - 1
      OBVIOUS
    <2>2. QED
      BY <1>0, <2>1
  <1>3. ASSUME NEW m \in 0 .. i - 1 - 1, m \in G PROVE m + 1 \in G
    <2>1. SUFFICES ASSUME m + 2 < i PROVE at[m + 2] = to[m + 2]
      <3>1. m + 1 + 1 = m + 2 /\ m + 1 \in 0 .. i - 1
        OBVIOUS
      <3>2. QED
        BY <3>1
    <2> DEFINE k == m + 2
    <2>2. k \in 2 .. n /\ k - 1 = m + 1 /\ k \in 1 .. i - 1 /\ k - 1 \in 1 .. i - 1
      BY <2>1
    <2>3. at[m + 1] = to[m + 1]
      BY <1>3, <2>1
    <2> HIDE DEF k
    <2>4. w[k] = v[k] /\ w[k - 1] = v[k - 1] /\ at[k - 1] = to[k - 1]
      BY <2>2, <2>3
    <2>5. at[k] = to[k]
      BY <1>0, <2>2, <2>4
    <2>6. QED
      BY <2>5 DEF k
  <1> HIDE DEF G
  <1>4. CASE i = 1
    BY <1>0, <1>1, <1>4
  <1>5. CASE i # 1
    <2>1. i - 2 \in G
      <3>1. i - 1 \in Nat /\ i - 2 \in 0 .. i - 1
        BY <1>5
      <3>2. QED
        BY <1>2, <1>3, <3>1, Induction
    <2>2. at[i - 2 + 1] = to[i - 2 + 1] /\ i - 2 + 1 = i - 1
      <3>1. i - 2 + 1 < i /\ i - 2 + 1 = i - 1
        OBVIOUS
      <3>2. QED
        BY <2>1, <3>1 DEF G
    <2>3. i \in 2 .. n /\ i - 1 \in 1 .. i - 1
      BY <1>5
    <2>4. w[i - 1] = v[i - 1]
      BY <2>3
    <2>5. QED
      BY <1>0, <1>1, <2>2, <2>3, <2>4
  <1>6. QED
    BY <1>4, <1>5

-----------------------------------------------------------------------------
(* The invariant.                                                          *)

PackedOK == stage = "packed" => slots = [i \in Args |-> PackSlot(Bits(i), Type(i))]

\* The arguments of a callback that arrive.
Reaches(i) ==
    /\ i <= Slots /\ Type(i) # "bool"
    /\ word = INT => ~Long(i) /\ \A j \in 1 .. i - 1 : Width(Type(j)) = SLOT

FiredOK ==
    stage = "fired" =>
        /\ DOMAIN slots = 1 .. Slots
        /\ \A i \in Args : Reaches(i) => Low(slots[i], HostWidth(Type(i))) = Bits(i)

IInv ==
    /\ GivenOK /\ PackedOK /\ FiredOK
    /\ ArgsArrive /\ CallbackArgsArrive /\ ResultsArrive /\ FieldsArrive

\* What is given does not change.
LEMMA Kept ==
  ASSUME GivenOK, Same
  PROVE  GivenOK'
  BY ZenonT(40) DEF GivenOK, Build, Same, Args, Type, Bits, Values, Width, Tag

\* What is known of each argument.
LEMMA GivenFacts ==
  ASSUME GivenOK, NEW i \in Args
  PROVE  /\ Build /\ Type(i) \in Types
         /\ Bits(i) \in Values(Type(i)) /\ Bits(i) \in 0 .. Width(Type(i)) - 1
         /\ i \in Nat \ {0}
         /\ Width(Type(i)) \in AllWidths /\ HostWidth(Type(i)) \in AllWidths
         /\ WasmWidth(Type(i)) \in AllWidths
  <1>1. Build /\ Type(i) \in Types /\ Bits(i) \in Values(Type(i)) /\ i \in Nat \ {0}
    BY DEF GivenOK
  <1>2. QED
    BY <1>1, ValueFacts, TypeWidths

\* In a slot is what is less than a width.
LEMMA InSlot ==
  ASSUME NEW w \in AllWidths, NEW p \in 0 .. w - 1
  PROVE  p \in 0 .. SLOT - 1
  BY Constants DEF AllWidths

\* The elements of a sequence.
LEMMA WordsFit ==
  ASSUME NEW S, NEW ws \in Seq(S)
  PROVE  \A i \in DOMAIN ws : ws[i] \in S
  BY LenProperties

\* Nothing is on its way at first.
LEMMA InitIInv == Init => IInv
  <1> SUFFICES ASSUME Init PROVE IInv
    OBVIOUS
  <1>1. GivenOK
    <2> DEFINE typed == UNION {[type : {t}, bits : Values(t)] : t \in Types}
    <2>1. PICK n \in 0 .. MaxArgs : given \in [1 .. n -> typed]
      BY DEF Init
    <2>2. n \in Nat /\ Args = 1 .. n
      BY <2>1, WireAbiAssumption DEF Args
    <2>3. ASSUME NEW i \in Args PROVE Type(i) \in Types /\ Bits(i) \in Values(Type(i))
      <3>1. given[i] \in typed
        BY <2>1, <2>2
      <3>2. PICK t \in Types : given[i] \in [type : {t}, bits : Values(t)]
        BY <3>1
      <3>3. Type(i) = t /\ Bits(i) \in Values(t)
        BY <3>2 DEF Type, Bits
      <3>4. QED
        BY <3>3
    <2>4. Build /\ kind \in {"call", "callback", "wasm", "struct"}
      BY DEF Init, Build
    <2> HIDE DEF typed
    <2>5. QED
      BY <2>2, <2>3, <2>4 DEF GivenOK
  <1>2. stage = "given" /\ TypeOK
    BY DEF Init, TypeOK
  <1>3. QED
    BY <1>1, <1>2 DEF IInv, PackedOK, FiredOK, ArgsArrive, CallbackArgsArrive, ResultsArrive,
                      FieldsArrive

\* What is packed is in the slots.
LEMMA PackStep == IInv /\ Pack => IInv'
  <1> SUFFICES ASSUME IInv, Pack PROVE IInv'
    OBVIOUS
  <1>1. GivenOK' /\ stage' = "packed" /\ word' = word /\ kind' = "call" /\ given' = given
    BY Kept DEF IInv, Pack, Goes, Same
  <1>2. \A i \in Args : PackSlot(Bits(i), Type(i)) \in 0 .. SLOT - 1
    BY GivenFacts, PackFacts DEF IInv
  <1>3. slots' = [i \in Args |-> PackSlot(Bits(i), Type(i))] /\ words' = words /\ seen' = seen
    BY DEF Pack
  <1>4. TypeOK'
    <2>1. TypeOK /\ Build
      BY DEF IInv, GivenOK, ArgsArrive
    <2>2. QED
      BY <1>1, <1>2, <1>3, <2>1 DEF TypeOK
  <1>5. PackedOK'
    BY <1>1, <1>3 DEF PackedOK, Args, Bits, Type, PackSlot, Converted, HostWidth, Width
  <1>6. QED
    BY <1>1, <1>4, <1>5 DEF IInv, FiredOK, ArgsArrive, CallbackArgsArrive, ResultsArrive,
                            FieldsArrive

\* The words that libffi lays out by tags are those the function reads by types:
\* a tag is wider than its type within one word only.
LEMMA FfiCallStep == IInv /\ FfiCall => IInv'
  <1> SUFFICES ASSUME IInv, FfiCall PROVE IInv'
    OBVIOUS
  <1> DEFINE w == [i \in Args |-> TagWidth(TagOf(Type(i)))]
             p == [i \in Args |-> Low(slots[i], w[i])]
  <1>1. /\ GivenOK /\ GivenOK' /\ Build /\ stage = "packed" /\ stage' = "called"
        /\ word' = word /\ kind' = "call" /\ given' = given /\ slots' = slots
    BY Kept DEF IInv, FfiCall, Goes, Same, GivenOK
  <1>2. words' = FlattenSeq([i \in Args |-> InWords(p[i], w[i], 0)])
    BY DEF FfiCall
  <1>3. ASSUME NEW i \in Args
        PROVE  /\ w[i] \in AllWidths /\ p[i] \in 0 .. w[i] - 1
               /\ Width(Type(i)) <= w[i] /\ (w[i] > word <=> Width(Type(i)) > word)
               /\ Low(p[i], Width(Type(i))) = Bits(i)
    <2> DEFINE t == Type(i)
               v == Width(t)
    <2>1. /\ t \in Types /\ Bits(i) \in 0 .. v - 1 /\ v \in AllWidths
          /\ slots[i] = PackSlot(Bits(i), t)
      BY <1>1, GivenFacts DEF IInv, PackedOK
    <2>2. w[i] = IF v = CHAR THEN INT ELSE v
      BY <1>1, <2>1, TagWidths
    <2>3. p[i] = Low(slots[i], w[i])
      OBVIOUS
    <2> HIDE DEF w, p, t, v
    <2>4. w[i] \in AllWidths /\ v <= w[i] /\ (w[i] > word <=> v > word)
      <3>1. CHAR <= INT /\ CHAR <= word /\ INT <= word /\ v \in Nat /\ INT \in AllWidths
            /\ CHAR \in Nat /\ INT \in Nat /\ word \in Nat
        BY <1>1, <2>1, WidthNat, WordWidth, Constants DEF AllWidths
      <3>2. QED
        BY <2>1, <2>2, <3>1
    <2>5. /\ slots[i] \in 0 .. SLOT - 1 /\ slots[i] \in Nat
          /\ \A u \in AllWidths : u <= v => Low(slots[i], u) = Low(Bits(i), u)
      <3>1. /\ PackSlot(Bits(i), t) \in 0 .. SLOT - 1
            /\ \A u \in AllWidths : u <= Width(t) => Low(PackSlot(Bits(i), t), u) = Low(Bits(i), u)
        BY <1>1, <2>1, PackFacts DEF v
      <3>2. QED
        BY <2>1, <3>1, Constants DEF v
    <2>6. p[i] \in 0 .. w[i] - 1 /\ Low(p[i], v) = Low(slots[i], v)
      BY <2>1, <2>3, <2>4, <2>5, LowOfLow
    <2>7. Low(slots[i], v) = Bits(i)
      <3>1. v \in Nat \ {0}
        BY <2>1, WidthNat
      <3>2. Low(Bits(i), v) = Bits(i)
        BY <2>1, <3>1, Small DEF Low
      <3>3. QED
        BY <2>1, <2>5, <3>1, <3>2
    <2>8. QED
      BY <2>4, <2>6, <2>7 DEF t, v
  <1>4. PICK n \in Nat : Args = 1 .. n
    BY <1>1 DEF GivenOK
  <1>5. w \in Wides(n)
    BY <1>3, <1>4 DEF Wides
  <1> DEFINE ws == words'
  <1>6. ws = FlattenSeq([i \in 1 .. n |-> InWords(p[i], w[i], 0)])
    BY <1>2, <1>4
  <1>7. /\ \A i \in Args : seen'[i] = FromWords(ws, Place(Widths, i), Width(Type(i)))
        /\ DOMAIN seen' = Args
    BY DEF FfiCall
  <1> HIDE DEF w, p, ws
  <1>8. /\ ws \in Seq(0 .. word - 1)
        /\ \A i \in 1 .. n : HasAt(ws, Place(w, i), p[i], w[i], 0)
                             /\ Place(w, i) \in Nat /\ Place(w, i) >= i
    <2>1. 0 \in {0, 1} /\ \A i \in 1 .. n : p[i] \in 0 .. w[i] - 1
      BY <1>3, <1>4
    <2>2. QED
      BY <1>1, <1>5, <1>6, <2>1, FlattenWords
  <1>9. ASSUME NEW i \in Args PROVE seen'[i] = Bits(i)
    <2>1. Place(w, i) = Place(Widths, i)
      <3>1. \A j \in 1 .. i - 1 : j \in Args
        BY <1>4
      <3>2. \A j \in 1 .. i - 1 : w[j] > word <=> Widths[j] > word
        BY <1>3, <3>1 DEF Widths
      <3>3. QED
        BY <3>2, SamePlace
    <2>2. FromWords(ws, Place(w, i), Width(Type(i))) = Low(p[i], Width(Type(i)))
      BY <1>1, <1>3, <1>4, <1>8, GivenFacts, Reading
    <2>3. QED
      BY <1>3, <1>7, <2>1, <2>2
  <1>10. TypeOK'
    <2>1. TypeOK
      BY DEF IInv, ArgsArrive
    <2>2. \A i \in Args : Bits(i) \in 0 .. SLOT - 1
      BY <1>1, GivenFacts, InSlot
    <2>3. \A i \in DOMAIN words' : words'[i] \in 0 .. word - 1
      BY <1>8, WordsFit DEF ws
    <2>4. \A i \in DOMAIN seen' : seen'[i] \in 0 .. SLOT - 1
      BY <1>7, <1>9, <2>2
    <2>5. QED
      BY <1>1, <2>1, <2>3, <2>4 DEF TypeOK
  <1>11. ArgsArrive'
    <2>1. \A i \in Args : Number(seen'[i], Width(Type(i)), Type(i)) = Given(i)
      BY <1>9 DEF Given
    <2>2. Args' = Args /\ kind' # "wasm"
      BY <1>1 DEF Args
    <2>3. \A i \in Args : Number(seen'[i], Width(Type(i))', Type(i)') = Given(i)'
      BY <1>1, <2>1 DEF Given, Bits, Type, Width
    <2>4. QED
      BY <1>10, <2>2, <2>3 DEF ArgsArrive
  <1>12. QED
    BY <1>1, <1>11 DEF IInv, PackedOK, FiredOK, CallbackArgsArrive, ResultsArrive, FieldsArrive

\* ret_buf has the low part of a result, and narrowing by tag and type keeps it.
LEMMA ReturnStep == IInv /\ Return => IInv'
  <1> SUFFICES ASSUME IInv, Return PROVE IInv'
    OBVIOUS
  <1>1. /\ GivenOK /\ GivenOK' /\ Build /\ stage' = "returned" /\ TypeOK
        /\ word' = word /\ kind = "call" /\ kind' = "call" /\ slots' = slots /\ seen' = seen
    BY Kept DEF IInv, Return, Goes, Same, GivenOK, ArgsArrive
  <1>0. PICK t \in Types, noise \in {0, 1} : \E v \in Values(t) :
          /\ words' = InWords(v, Width(t), noise)
          /\ ret' = [type |-> t, value |-> v,
                     got |-> FromSlot(FfiResult(TagOf(t), words'), t, Width(t))]
    BY DEF Return
  <1>2. PICK v \in Values(t) :
          /\ words' = InWords(v, Width(t), noise)
          /\ ret' = [type |-> t, value |-> v,
                     got |-> FromSlot(FfiResult(TagOf(t), words'), t, Width(t))]
    BY <1>0
  <1> DEFINE w == Width(t)
             first == words'[1]
  <1>3. w \in AllWidths /\ v \in 0 .. w - 1
    BY <1>1, ValueFacts, TypeWidths
  <1>4. words' \in Seq(0 .. word - 1) /\ Len(words') >= 1
    <2>1. /\ InWords(v, w, noise) \in Seq(0 .. word - 1)
          /\ Len(InWords(v, w, noise)) \in {1, 2}
      BY <1>1, <1>3, InWordsFacts
    <2>2. words' = InWords(v, w, noise)
      BY <1>2
    <2> HIDE DEF w
    <2>3. QED
      BY <2>1, <2>2
  <1>5. first \in 0 .. word - 1 /\ first \in Nat
    <2>1. 1 \in 1 .. Len(words') /\ word \in Nat
      BY <1>1, <1>4, LenProperties, WordWidth, WidthNat
    <2>2. first \in 0 .. word - 1
      BY <1>4, <2>1, ElementOfSeq
    <2>3. QED
      BY <2>1, <2>2
  <1>6. TypeOK'
    <2>1. \A i \in DOMAIN words' : words'[i] \in 0 .. word - 1
      BY <1>4, WordsFit
    <2>2. QED
      BY <1>1, <2>1 DEF TypeOK
  <1>7. ASSUME t # "bool", w <= word
        PROVE  ret'.got = v
    <2>1. Low(first, w) = v
      <3>1. w \in Nat \ {0} /\ w <= w
        BY <1>3, WidthNat
      <3>2. Low(first, w) = Low(v, w)
        BY <1>1, <1>2, <1>3, <1>7, <3>1, FirstWord
      <3>3. QED
        BY <1>3, <3>1, <3>2, Small DEF Low
    <2>2. ret'.got = Low(FfiResult(TagOf(t), words'), w)
      BY <1>2, <1>7 DEF FromSlot
    <2>3. CASE TagOf(t) \in {"SINT32", "UINT32"}
      <3>1. w <= INT /\ INT \in AllWidths /\ SLOT \in AllWidths /\ w <= SLOT
        <4>1. TagWidth(TagOf(t)) = INT
          BY <2>3 DEF TagWidth
        <4>2. INT = IF w = CHAR THEN INT ELSE w
          BY <1>1, <4>1, TagWidths
        <4>3. QED
          BY <1>3, <4>2, Constants, WidthNat DEF AllWidths
      <3> DEFINE low == Low(first, INT)
      <3>2. low \in 0 .. INT - 1 /\ Low(low, w) = Low(first, w)
        BY <1>3, <1>5, <3>1, LowOfLow
      <3> HIDE DEF low, w, first
      <3>3. Low(Cast(low, INT, TRUE, SLOT), w) = Low(low, w)
        BY <1>3, <3>1, <3>2, CastLow
      <3>4. FfiResult(TagOf(t), words') = Cast(low, INT, TRUE, SLOT)
            \/ FfiResult(TagOf(t), words') = low
        BY <2>3 DEF FfiResult, low, first
      <3>5. QED
        BY <2>1, <2>2, <3>2, <3>3, <3>4
    <2>4. CASE TagOf(t) \notin {"SINT32", "UINT32"}
      <3>1. FfiResult(TagOf(t), words') = first
        BY <2>4 DEF FfiResult
      <3>2. QED
        BY <2>1, <2>2, <3>1
    <2>5. QED
      BY <2>3, <2>4
  <1>8. ResultsArrive'
    <2>1. ret'.type = t /\ ret'.value = v
      BY <1>2
    <2>2. t = "bool" \/ w > word \/ ret'.got = v
      BY <1>1, <1>3, <1>7, WordWidth, WidthNat
    <2>3. w = Width(ret.type)'
      BY <1>1, <2>1 DEF Width
    <2>4. QED
      BY <1>1, <2>1, <2>2, <2>3 DEF ResultsArrive
  <1>9. QED
    BY <1>1, <1>6, <1>8 DEF IInv, PackedOK, FiredOK, ArgsArrive, CallbackArgsArrive, FieldsArrive

\* A trampoline finds an argument at its slot if those before it take as many
\* words as a slot.
LEMMA FireStep == IInv /\ Fire => IInv'
  <1> SUFFICES ASSUME IInv, Fire PROVE IInv'
    OBVIOUS
  <1>1. /\ GivenOK /\ GivenOK' /\ Build /\ stage' = "fired" /\ TypeOK
        /\ word' = word /\ kind' = "callback" /\ given' = given /\ seen' = seen
    BY Kept DEF IInv, Fire, Goes, Same, GivenOK, ArgsArrive
  <1> DEFINE ws == words'
             p == [i \in Args |-> Bits(i)]
             from(k) == (k - 1) * NWords(SLOT) + 1
  <1>2. PICK noise \in {0, 1} :
          ws = FlattenSeq([i \in Args |-> InWords(Bits(i), Width(Type(i)), noise)])
    BY DEF Fire
  <1>3. slots' = [k \in 1 .. Slots |-> FromWords(ws, from(k), SLOT)]
    BY DEF Fire, TrampolineSlots
  <1>4. PICK n \in Nat : Args = 1 .. n
    BY <1>1 DEF GivenOK
  <1>5. Widths \in Wides(n) /\ \A i \in 1 .. n : p[i] \in 0 .. Widths[i] - 1
    BY <1>1, <1>4, GivenFacts DEF Wides, Widths
  <1>6. ws = FlattenSeq([i \in 1 .. n |-> InWords(p[i], Widths[i], noise)])
    BY <1>2, <1>4 DEF Widths
  <1> HIDE DEF ws, p
  <1>7. /\ ws \in Seq(0 .. word - 1)
        /\ \A i \in 1 .. n : HasAt(ws, Place(Widths, i), p[i], Widths[i], noise)
    BY <1>1, <1>5, <1>6, FlattenWords
  <1>8. ASSUME NEW k \in 1 .. Slots
        PROVE  from(k) \in Nat /\ from(k) >= 1
    <2>1. k - 1 \in Nat
      OBVIOUS
    <2>2. QED
      BY <2>1 DEF NWords
  <1>9. \A k \in 1 .. Slots : slots'[k] \in 0 .. SLOT - 1
    <2>1. SLOT \in AllWidths
      BY DEF AllWidths
    <2> HIDE DEF from
    <2>2. QED
      BY <1>1, <1>3, <1>7, <1>8, <2>1, FromWordsRange
  <1>10. ASSUME NEW i \in Args, Reaches(i)
         PROVE  Low(slots'[i], HostWidth(Type(i))) = Bits(i)
    <2>1. /\ i \in 1 .. Slots /\ i \in Nat \ {0} /\ Type(i) \in Types
          /\ Width(Type(i)) \in AllWidths /\ Bits(i) \in 0 .. Width(Type(i)) - 1
      BY <1>1, <1>10, GivenFacts, WireAbiAssumption DEF Reaches
    <2>2. \A j \in 1 .. i - 1 : j \in Args /\ Widths[j] = Width(Type(j))
      BY <1>4 DEF Widths
    <2>3. HostWidth(Type(i)) = Width(Type(i))
      <3>1. CASE word = INT
        BY <1>10, <3>1 DEF Reaches, HostWidth, Long
      <3>2. CASE word # INT
        BY <1>1, <2>1, <3>2, TypeWidths
      <3>3. QED
        BY <3>1, <3>2
    <2>4. from(i) = Place(Widths, i)
      <3>1. CASE word = INT
        <4>1. SLOT > word
          BY <3>1, Constants
        <4>2. \A j \in 1 .. i - 1 : Widths[j] > word
          BY <1>10, <2>2, <3>1, <4>1 DEF Reaches
        <4>3. Place(Widths, i) = i + (i - 1)
          BY <2>1, <4>2, PlaceEven
        <4>4. NWords(SLOT) = 2
          BY <4>1 DEF NWords
        <4>5. QED
          BY <2>1, <4>3, <4>4
      <3>2. CASE word # INT
        <4>1. word = SLOT
          BY <1>1, <3>2 DEF Build
        <4>2. \A w \in AllWidths : ~(w > word)
          BY <4>1, Constants DEF AllWidths
        <4>3. \A j \in 1 .. i - 1 : Widths[j] \in AllWidths
          BY <1>1, <2>2, GivenFacts
        <4>4. Place(Widths, i) = i
          BY <2>1, <4>2, <4>3, PlaceEven
        <4>5. NWords(SLOT) = 1
          BY <4>1, <4>2 DEF NWords, AllWidths
        <4>6. QED
          BY <2>1, <4>4, <4>5
      <3>3. QED
        BY <3>1, <3>2
    <2>5. slots'[i] = FromWords(ws, from(i), SLOT)
      BY <1>3, <2>1
    <2>6. from(i) \in Nat /\ from(i) >= 1
      BY <1>8, <2>1
    <2> HIDE DEF from
    <2>7. HasAt(ws, from(i), Bits(i), Width(Type(i)), noise)
      <3>1. p[i] = Bits(i) /\ Widths[i] = Width(Type(i)) /\ i \in 1 .. n
        BY <1>4 DEF p, Widths
      <3>2. QED
        BY <1>7, <2>4, <3>1
    <2>8. Low(FromWords(ws, from(i), SLOT), Width(Type(i))) = Bits(i)
      BY <1>1, <1>7, <2>1, <2>6, <2>7, ReadingSlot
    <2>9. QED
      BY <2>3, <2>5, <2>8
  <1>11. DOMAIN slots' = 1 .. Slots
    BY <1>3
  <1>12. FiredOK'
    <2>1. \A i \in Args : Reaches(i) => Low(slots'[i], HostWidth(Type(i))) = Bits(i)
      BY <1>10
    <2>2. Args' = Args /\ \A i : Reaches(i)' = Reaches(i) /\ Bits(i)' = Bits(i)
                                 /\ HostWidth(Type(i))' = HostWidth(Type(i))
      BY <1>1 DEF Args, Reaches, Bits, Type, HostWidth, Width, Long
    <2>3. \A i \in Args : Reaches(i)' => Low(slots'[i], HostWidth(Type(i))') = Bits(i)'
      BY <2>1, <2>2
    <2>4. QED
      BY <1>11, <2>2, <2>3 DEF FiredOK
  <1>13. TypeOK'
    <2>1. \A i \in DOMAIN words' : words'[i] \in 0 .. word - 1
      BY <1>7, WordsFit DEF ws
    <2>2. QED
      BY <1>1, <1>9, <1>11, <2>1 DEF TypeOK
  <1>14. QED
    BY <1>1, <1>12, <1>13 DEF IInv, PackedOK, ArgsArrive, CallbackArgsArrive, ResultsArrive,
                              FieldsArrive

\* unpack_slot narrows a slot to the type of the argument.
LEMMA HandleStep == IInv /\ Handle => IInv'
  <1> SUFFICES ASSUME IInv, Handle PROVE IInv'
    OBVIOUS
  <1>1. /\ GivenOK /\ GivenOK' /\ Build /\ stage = "fired" /\ stage' = "called" /\ TypeOK
        /\ word' = word /\ kind' = "callback" /\ given' = given /\ slots' = slots
        /\ words' = words
    BY Kept DEF IInv, Handle, Goes, Same, GivenOK, ArgsArrive
  <1>2. PICK past \in {0, SLOT - 1} :
          seen' = [i \in Args |->
                     FromSlot(IF i <= Slots THEN slots[i] ELSE past, Type(i), HostWidth(Type(i)))]
    BY DEF Handle
  <1>3. /\ DOMAIN slots = 1 .. Slots
        /\ \A i \in Args : Reaches(i) => Low(slots[i], HostWidth(Type(i))) = Bits(i)
    BY <1>1 DEF IInv, FiredOK
  <1>4. ASSUME NEW i \in Args PROVE seen'[i] \in 0 .. SLOT - 1
    <2> DEFINE s == IF i <= Slots THEN slots[i] ELSE past
               w == HostWidth(Type(i))
    <2>1. s \in Nat
      <3>1. i \in Nat \ {0} /\ SLOT \in Nat \ {0} /\ Slots \in Nat
        BY <1>1, GivenFacts, Constants, WireAbiAssumption
      <3>2. i <= Slots => i \in DOMAIN slots
        BY <1>3, <3>1
      <3>3. i <= Slots => slots[i] \in 0 .. SLOT - 1
        BY <1>1, <3>2 DEF TypeOK
      <3>4. QED
        BY <3>1, <3>3
    <2>2. w \in AllWidths
      BY <1>1, GivenFacts
    <2>3. seen'[i] = FromSlot(s, Type(i), w)
      BY <1>2
    <2> HIDE DEF s, w
    <2>4. Low(s, w) \in 0 .. SLOT - 1
      <3>1. w \in Nat \ {0}
        BY <2>2, WidthNat
      <3>2. Low(s, w) \in 0 .. w - 1
        BY <2>1, <3>1 DEF Low
      <3>3. QED
        BY <2>2, <3>2, InSlot
    <2>5. 0 \in 0 .. SLOT - 1 /\ 1 \in 0 .. SLOT - 1
      BY Constants
    <2>6. QED
      BY <2>3, <2>4, <2>5 DEF FromSlot
  <1>5. ASSUME NEW i \in Args, Reaches(i)
        PROVE  Number(seen'[i], HostWidth(Type(i)), Type(i)) = Given(i)
    <2>1. i <= Slots /\ Type(i) # "bool" /\ Type(i) \in Types
      BY <1>1, <1>5, GivenFacts DEF Reaches
    <2>2. seen'[i] = Low(slots[i], HostWidth(Type(i)))
      BY <1>2, <2>1 DEF FromSlot
    <2>3. seen'[i] = Bits(i)
      BY <1>3, <1>5, <2>2
    <2>4. HostWidth(Type(i)) = Width(Type(i))
      <3>1. CASE word = INT
        BY <1>5, <3>1 DEF Reaches, HostWidth, Long
      <3>2. CASE word # INT
        BY <1>1, <2>1, <3>2, TypeWidths
      <3>3. QED
        BY <3>1, <3>2
    <2>5. QED
      BY <2>3, <2>4 DEF Given
  <1>6. TypeOK'
    <2>1. \A i \in DOMAIN seen' : seen'[i] \in 0 .. SLOT - 1
      BY <1>2, <1>4
    <2>2. QED
      BY <1>1, <2>1 DEF TypeOK
  <1>7. CallbackArgsArrive'
    <2>1. \A i \in Args : Reaches(i) => Number(seen'[i], HostWidth(Type(i)), Type(i)) = Given(i)
      BY <1>5
    <2>2. Args' = Args /\ \A i : Reaches(i)' = Reaches(i) /\ Given(i)' = Given(i)
                                 /\ HostWidth(Type(i))' = HostWidth(Type(i)) /\ Type(i)' = Type(i)
      BY <1>1 DEF Args, Reaches, Given, Bits, Type, HostWidth, Width, Long
    <2>3. \A i \in Args :
            Reaches(i)' => Number(seen'[i], HostWidth(Type(i))', Type(i)') = Given(i)'
      BY <2>1, <2>2
    <2>4. QED
      BY <2>2, <2>3 DEF CallbackArgsArrive, Reaches
  <1>8. QED
    BY <1>1, <1>6, <1>7 DEF IInv, PackedOK, FiredOK, ArgsArrive, ResultsArrive, FieldsArrive

\* A caller reads the low part of the slot that a handler returns.
LEMMA HandlerReturnsStep == IInv /\ HandlerReturns => IInv'
  <1> SUFFICES ASSUME IInv, HandlerReturns PROVE IInv'
    OBVIOUS
  <1>1. /\ GivenOK /\ GivenOK' /\ Build /\ stage' = "returned" /\ TypeOK
        /\ word' = word /\ kind = "callback" /\ kind' = "callback"
        /\ slots' = slots /\ seen' = seen
    BY Kept DEF IInv, HandlerReturns, Goes, Same, GivenOK, ArgsArrive
  <1>2. PICK t \in Types : \E v \in Values(t) :
          /\ words' = InWords(PackSlot(v, t), SLOT, 0)
          /\ ret' = [type |-> t, value |-> v, got |-> FromWords(words', 1, Width(t))]
    BY DEF HandlerReturns
  <1>3. PICK v \in Values(t) :
          /\ words' = InWords(PackSlot(v, t), SLOT, 0)
          /\ ret' = [type |-> t, value |-> v, got |-> FromWords(words', 1, Width(t))]
    BY <1>2
  <1> DEFINE w == Width(t)
             s == PackSlot(v, t)
  <1>4. /\ w \in AllWidths /\ v \in 0 .. w - 1 /\ SLOT \in AllWidths /\ w <= SLOT
        /\ s \in 0 .. SLOT - 1 /\ Low(s, w) = Low(v, w) /\ w \in Nat \ {0}
    <2>1. w \in AllWidths /\ v \in 0 .. w - 1
      BY <1>1, ValueFacts, TypeWidths
    <2>2. w <= SLOT /\ SLOT \in AllWidths /\ w \in Nat \ {0} /\ w <= w
      BY <2>1, WidthNat, Constants DEF AllWidths
    <2>3. QED
      BY <1>1, <2>1, <2>2, PackFacts
  <1>5. words' = InWords(s, SLOT, 0) /\ ret'.type = t /\ ret'.value = v
        /\ ret'.got = FromWords(words', 1, w)
    BY <1>3
  <1> HIDE DEF w, s
  <1>6. InWords(s, SLOT, 0) \in Seq(0 .. word - 1) /\ HasAt(InWords(s, SLOT, 0), 1, s, SLOT, 0)
    BY <1>1, <1>4, InWordsFacts, Alone
  <1>7. FromWords(InWords(s, SLOT, 0), 1, w) = Low(s, w)
    BY <1>1, <1>4, <1>6, Reading
  <1>8. Low(v, w) = v
    BY <1>4, Small DEF Low
  <1>9. ret'.got = v
    BY <1>4, <1>5, <1>7, <1>8
  <1>10. TypeOK'
    <2>1. words' \in Seq(0 .. word - 1)
      BY <1>5, <1>6
    <2>2. \A i \in DOMAIN words' : words'[i] \in 0 .. word - 1
      BY <2>1, WordsFit
    <2>3. QED
      BY <1>1, <2>2 DEF TypeOK
  <1>11. ResultsArrive'
    BY <1>1, <1>5, <1>9 DEF ResultsArrive
  <1>12. QED
    BY <1>1, <1>10, <1>11 DEF IInv, PackedOK, FiredOK, ArgsArrive, CallbackArgsArrive,
                              FieldsArrive

\* A result of wasm is read at its width there.
LEMMA WasmReturnsStep == IInv /\ WasmReturns => IInv'
  <1> SUFFICES ASSUME IInv, WasmReturns PROVE IInv'
    OBVIOUS
  <1>1. /\ GivenOK /\ GivenOK' /\ Build /\ stage' = "returned" /\ TypeOK
        /\ word' = word /\ kind = "wasm" /\ kind' = "wasm" /\ slots' = slots /\ seen' = seen
    BY Kept DEF IInv, WasmReturns, Goes, Same, GivenOK, ArgsArrive
  <1>2. PICK t \in Types, noise \in {0, 1} :
          \E v \in {Low(x, IF t = "ptr" THEN INT \div 2 ELSE WasmWidth(t)) : x \in Values(t)} :
            /\ words' = InWords(v, WasmWidth(t), noise)
            /\ ret' = [type |-> t, value |-> v, got |-> WasmResult(words', t)]
    BY DEF WasmReturns
  <1> DEFINE cut == IF t = "ptr" THEN INT \div 2 ELSE WasmWidth(t)
  <1>3. PICK v \in {Low(x, cut) : x \in Values(t)} :
            /\ words' = InWords(v, WasmWidth(t), noise)
            /\ ret' = [type |-> t, value |-> v, got |-> WasmResult(words', t)]
    BY <1>2
  <1>4. PICK s \in Values(t) : v = Low(s, cut)
    BY <1>3
  <1> DEFINE w == WasmWidth(t)
             h == HostWidth(t)
  <1>5. /\ w \in AllWidths /\ h \in AllWidths /\ w <= h /\ s \in Nat
        /\ w \in Nat \ {0} /\ h \in Nat \ {0} /\ w <= w
    <2>1. /\ w \in AllWidths /\ h \in AllWidths /\ Width(t) \in AllWidths /\ s \in Nat
          /\ w <= Width(t) /\ Width(t) <= h
      BY <1>1, ValueFacts, TypeWidths
    <2>2. QED
      BY <2>1, WidthNat
  <1>6. v \in 0 .. w - 1 /\ (t = "ptr" => v \in 0 .. Tag - 1)
    <2>1. CASE t = "ptr"
      <3>1. w = INT /\ v = s % (INT \div 2)
        BY <1>4, <2>1 DEF WasmWidth, Low
      <3>2. PICK d \in Nat : INT = 2 * d
        BY WidthNat DEF AllWidths
      <3>3. INT \div 2 = d /\ d \in Nat \ {0} /\ d <= INT
        BY <3>2, Constants
      <3>4. d <= Tag
        <4>1. Tag \in Nat /\ 2 * Tag = word /\ INT <= word
          BY <1>1, TagFacts, WordWidth
        <4>2. word \in Nat
          BY <1>1, WordWidth, WidthNat
        <4>3. QED
          BY <3>2, <4>1, <4>2
      <3>5. v \in 0 .. d - 1
        BY <1>5, <3>1, <3>3
      <3>6. QED
        BY <1>1, <3>1, <3>3, <3>4, <3>5, TagFacts, Constants
    <2>2. CASE t # "ptr"
      BY <1>4, <1>5, <2>2 DEF Low
    <2>3. QED
      BY <2>1, <2>2
  <1>7. words' = InWords(v, w, noise) /\ ret'.type = t /\ ret'.value = v
        /\ ret'.got = WasmResult(words', t)
    BY <1>3
  <1>8. Low(v, w) = v
    BY <1>5, <1>6, Small DEF Low
  <1> HIDE DEF w, h
  <1>9. InWords(v, w, noise) \in Seq(0 .. word - 1) /\ HasAt(InWords(v, w, noise), 1, v, w, noise)
    BY <1>1, <1>5, <1>6, InWordsFacts, Alone
  <1>10. FromWords(words', 1, w) = v
    <2>1. FromWords(InWords(v, w, noise), 1, w) = Low(v, w)
      BY <1>1, <1>5, <1>6, <1>9, Reading
    <2>2. QED
      BY <1>7, <1>8, <2>1
  <1>11. WasmResult(words', t) = CASE t # "ptr" -> Cast(v, w, Signed(t), h)
                                   [] t = "ptr" /\ v # 0 -> Low(v, Tag) + Tag
                                   [] OTHER -> 0
    BY <1>10 DEF WasmResult, w, h
  <1>12. CASE t = "ptr"
    <2>1. Low(v, Tag) = v
      BY <1>1, <1>6, <1>12, TagFacts, Small DEF Low
    <2>2. ret'.got = IF v = 0 THEN 0 ELSE v + Tag
      BY <1>7, <1>11, <1>12, <2>1
    <2>3. Tag' = Tag
      BY <1>1 DEF Tag
    <2>4. ResultsArrive'
      BY <1>1, <1>7, <1>12, <2>2, <2>3 DEF ResultsArrive
    <2>5. QED
      BY <1>1, <1>9, <1>7, <2>4, WordsFit
      DEF IInv, TypeOK, PackedOK, FiredOK, ArgsArrive, CallbackArgsArrive, FieldsArrive
  <1>13. CASE t # "ptr"
    <2>1. Number(ret'.got, h, t) = Number(v, w, t)
      <3>1. ret'.got = Cast(v, w, Signed(t), h)
        BY <1>7, <1>11, <1>13
      <3>2. QED
        BY <1>5, <1>6, <3>1, CastNumber
    <2>2. HostWidth(ret.type)' = h /\ WasmWidth(ret.type)' = w
      BY <1>1, <1>7 DEF h, w, HostWidth, WasmWidth, Width
    <2>3. ResultsArrive'
      BY <1>1, <1>7, <1>13, <2>1, <2>2 DEF ResultsArrive
    <2>4. QED
      BY <1>1, <1>9, <1>7, <2>3, WordsFit
      DEF IInv, TypeOK, PackedOK, FiredOK, ArgsArrive, CallbackArgsArrive, FieldsArrive
  <1>14. QED
    BY <1>12, <1>13

\* What translate makes of an argument, and wasm of that.
LEMMA Translating ==
  ASSUME GivenOK, kind = "wasm", NEW i \in Args
  PROVE  LET t == Type(i)
             s == Translated(Converted(Bits(i), t), t)
             n == IF t = "ptr" /\ Given(i) # 0 THEN Given(i) - Tag ELSE Given(i)
         IN  /\ s \in 0 .. SLOT - 1 /\ Low(s, WasmWidth(t)) \in 0 .. SLOT - 1
             /\ Fits(n, WasmWidth(t), t) /\ (SameAsPointer(t) => n < Tag)
                => Number(Low(s, WasmWidth(t)), WasmWidth(t), t) = n
  <1> DEFINE t == Type(i)
             b == Bits(i)
             c == Converted(b, t)
             s == Translated(c, t)
             w == WasmWidth(t)
             h == HostWidth(t)
             n == IF t = "ptr" /\ Given(i) # 0 THEN Given(i) - Tag ELSE Given(i)
  <1>1. /\ Build /\ t \in Types /\ b \in Values(t) /\ b \in 0 .. Width(t) - 1
        /\ w \in AllWidths /\ h \in AllWidths /\ Width(t) \in AllWidths
    BY GivenFacts
  <1>2. /\ w \in Nat \ {0} /\ h \in Nat \ {0} /\ Width(t) \in Nat \ {0} /\ b \in Nat
        /\ w <= h /\ w <= Width(t)
    BY <1>1, WidthNat, TypeWidths
  <1>3. c \in 0 .. h - 1 /\ c \in Nat /\ Number(c, h, t) = Given(i)
        /\ (h = Width(t) => c = b)
    BY <1>1, <1>2, ConvertedFacts DEF Given
  <1>4. s = IF SameAsPointer(t) THEN Low(c, Tag) ELSE c
    BY DEF Translated
  <1>5. Tag \in Nat \ {0} /\ 2 * Tag = word /\ word \in Nat /\ word <= SLOT
    BY <1>1, TagFacts, WordWidth, WidthNat
  <1>6. Given(i) = Number(b, Width(t), t)
    BY DEF Given
  <1> HIDE DEF b, c, s, w, h
  <1>7. s \in 0 .. SLOT - 1 /\ s \in Nat
    <2>1. CASE SameAsPointer(t)
      <3>1. s \in 0 .. Tag - 1
        BY <1>3, <1>4, <1>5, <2>1 DEF Low
      <3>2. QED
        BY <1>5, <3>1, Constants
    <2>2. CASE ~SameAsPointer(t)
      BY <1>1, <1>3, <1>4, <2>2, InSlot
    <2>3. QED
      BY <2>1, <2>2
  <1>8. Low(s, w) \in 0 .. SLOT - 1
    <2>1. Low(s, w) \in 0 .. w - 1
      BY <1>2, <1>7 DEF Low
    <2>2. QED
      BY <1>1, <2>1, InSlot
  <1>9. ASSUME Fits(n, w, t), SameAsPointer(t) => n < Tag
        PROVE  Number(Low(s, w), w, t) = n
    <2>1. CASE t = "ptr"
      <3>1. h = Width(t) /\ Width(t) = word /\ w = INT /\ ~Signed(t) /\ SameAsPointer(t)
        BY <1>1, <2>1, TypeWidths DEF h, w, Signed, SameAsPointer
      <3>2. n = IF b # 0 THEN b - Tag ELSE 0
        BY <1>6, <2>1, <3>1 DEF Number
      <3>3. b # 0 => b - Tag \in Nat /\ 2 * (b - Tag) < INT
        BY <1>1, <2>1, ValueFacts
      <3>4. INT <= word
        BY <1>1, WordWidth
      <3>5. s = n
        <4>1. n \in 0 .. Tag - 1
          BY <1>2, <1>5, <3>2, <3>3, <3>4, Constants
        <4>2. b = Tag + n \/ b = n
          BY <1>2, <1>5, <3>2, <3>3, <3>4, Constants
        <4> HIDE DEF n
        <4>3. Tag \in Nat \ {0} /\ 1 \in Int
          BY <1>5
        <4>4. (1 * Tag + n) % Tag = n
          BY <4>1, <4>3, Division
        <4>5. (Tag + n) % Tag = n
          BY <4>1, <4>3, <4>4
        <4>6. n % Tag = n
          BY <4>1, <4>3, Small
        <4>7. b % Tag = n
          BY <4>2, <4>5, <4>6
        <4>8. QED
          BY <1>3, <1>4, <3>1, <4>7 DEF Low
      <3>6. Low(n, w) = n
        <4>1. n \in 0 .. w - 1
          BY <1>2, <3>1, <3>2, <3>3
        <4> HIDE DEF n
        <4>2. QED
          BY <1>2, <4>1, Small DEF Low
      <3>7. QED
        BY <3>1, <3>5, <3>6 DEF Number
    <2>2. CASE t # "ptr" /\ SameAsPointer(t)
      <3>1. h = Width(t) /\ ~Signed(t)
        BY <1>1, <2>2, Constants DEF h, SameAsPointer, HostWidth, Width, Signed
      <3>2. n = b /\ c = b
        BY <1>3, <1>6, <2>2, <3>1 DEF Number
      <3>3. b < Tag /\ b < w
        BY <1>9, <2>2, <3>1, <3>2 DEF Fits
      <3>4. Low(b, Tag) = b /\ Low(b, w) = b
        <4>1. b \in 0 .. Tag - 1 /\ b \in 0 .. w - 1
          BY <1>2, <1>5, <3>3
        <4>2. QED
          BY <1>2, <1>5, <4>1, Small DEF Low
      <3>5. s = b
        BY <1>4, <2>2, <3>2, <3>4
      <3>6. QED
        BY <3>1, <3>2, <3>4, <3>5 DEF Number
    <2>3. CASE ~SameAsPointer(t)
      <3>1. t # "ptr" /\ n = Given(i) /\ s = c
        BY <1>4, <2>3 DEF SameAsPointer
      <3>2. Low(c, w) = Cast(c, h, Signed(t), w)
        BY <1>2 DEF Cast
      <3>3. Fits(Number(c, h, t), w, t)
        BY <1>3, <1>9, <3>1
      <3>4. Number(Cast(c, h, Signed(t), w), w, t) = Number(c, h, t)
        BY <1>1, <1>3, <3>3, CastFits
      <3>5. QED
        BY <1>3, <3>1, <3>2, <3>4
    <2>4. QED
      BY <2>1, <2>2, <2>3
  <1>10. QED
    BY <1>7, <1>8, <1>9 DEF s, c, b, w

\* translate strips the tag of pointers, and keeps the numbers that fit.
LEMMA TranslateStep == IInv /\ Translate => IInv'
  <1> SUFFICES ASSUME IInv, Translate PROVE IInv'
    OBVIOUS
  <1> DEFINE t(i) == Type(i)
             s(i) == Translated(Converted(Bits(i), t(i)), t(i))
             n(i) == IF t(i) = "ptr" /\ Given(i) # 0 THEN Given(i) - Tag ELSE Given(i)
  <1>1. /\ GivenOK /\ GivenOK' /\ Build /\ stage' = "called" /\ TypeOK /\ words' = words
        /\ word' = word /\ given' = given /\ kind = "wasm" /\ kind' = "wasm"
    BY Kept DEF IInv, Translate, Goes, Same, GivenOK, ArgsArrive
  <1>2. /\ slots' = [i \in Args |-> s(i)]
        /\ seen' = [i \in Args |-> Low(slots'[i], WasmWidth(t(i)))]
    BY DEF Translate
  <1>3. ASSUME NEW i \in Args
        PROVE  /\ slots'[i] \in 0 .. SLOT - 1 /\ seen'[i] \in 0 .. SLOT - 1
               /\ Fits(n(i), WasmWidth(t(i)), t(i)) /\ (SameAsPointer(t(i)) => n(i) < Tag)
                  => Number(seen'[i], WasmWidth(t(i)), t(i)) = n(i)
    <2>1. slots'[i] = s(i) /\ seen'[i] = Low(s(i), WasmWidth(t(i)))
      BY <1>2
    <2>2. /\ s(i) \in 0 .. SLOT - 1 /\ Low(s(i), WasmWidth(t(i))) \in 0 .. SLOT - 1
          /\ Fits(n(i), WasmWidth(t(i)), t(i)) /\ (SameAsPointer(t(i)) => n(i) < Tag)
             => Number(Low(s(i), WasmWidth(t(i))), WasmWidth(t(i)), t(i)) = n(i)
      BY <1>1, Translating
    <2>3. QED
      BY <2>1, <2>2
  <1>4. TypeOK'
    <2>1. DOMAIN slots' = Args /\ DOMAIN seen' = Args
      BY <1>2
    <2>2. QED
      BY <1>1, <1>3, <2>1 DEF TypeOK
  <1>5. ArgsArrive'
    <2>1. /\ Args' = Args /\ Tag' = Tag
          /\ \A i : /\ Type(i)' = t(i) /\ Given(i)' = Given(i)
                    /\ WasmWidth(Type(i))' = WasmWidth(t(i))
                    /\ SameAsPointer(Type(i))' = SameAsPointer(t(i))
      BY <1>1 DEF Args, Tag, Given, Bits, Type, Width, WasmWidth, SameAsPointer
    <2>2. kind' # "call"
      BY <1>1
    <2> HIDE DEF t
    <2>3. ASSUME NEW i \in Args
          PROVE  LET m == IF Type(i)' = "ptr" /\ Given(i)' # 0 THEN Given(i)' - Tag' ELSE Given(i)'
                 IN  /\ Fits(m, WasmWidth(Type(i))', Type(i)')
                     /\ SameAsPointer(Type(i))' => m < Tag'
                     => Number(seen'[i], WasmWidth(Type(i))', Type(i)') = m
      BY <1>3, <2>1
    <2>4. QED
      BY <1>4, <2>1, <2>2, <2>3 DEF ArgsArrive
  <1>6. QED
    BY <1>1, <1>5 DEF IInv, PackedOK, FiredOK, CallbackArgsArrive, ResultsArrive, FieldsArrive

\* Where the library looks for a field that no long is before, is what the
\* host wrote there, and no other field.
LEMMA Sharing ==
  ASSUME GivenOK, NEW i \in Args, word = INT => \A j \in 1 .. i - 1 : ~Long(j), NEW stray
  PROVE  ReadAt(Layout(Widths)[i], Width(Type(i)), stray) = Bits(i)
  <1> DEFINE at == Layout(Widths)
             to == Layout(HostWidths)
             w == Width(Type(i))
             there == {k \in Args : to[k] = at[i] /\ w <= HostWidths[k]}
  <1>1. /\ Build /\ Type(i) \in Types /\ w \in AllWidths /\ Bits(i) \in 0 .. w - 1
        /\ w \in Nat \ {0} /\ w <= w
    BY GivenFacts, WidthNat
  <1>2. PICK n \in Nat : Args = 1 .. n
    BY DEF GivenOK
  <1>3. n \in Nat \ {0} /\ i \in 1 .. n
    BY <1>2
  <1>4. /\ Widths \in Wides(n) /\ HostWidths \in Wides(n)
        /\ \A k \in Args : Widths[k] = Width(Type(k)) /\ HostWidths[k] = HostWidth(Type(k))
    BY <1>2, GivenFacts DEF Wides, Widths, HostWidths
  <1>5. LaidOut(at, n, Widths) /\ LaidOut(to, n, HostWidths)
    BY <1>1, <1>3, <1>4, LayoutFacts
  <1> HIDE DEF at, to
  <1>6. \A k \in Args : Width(Type(k)) # HostWidth(Type(k)) =>
                          Long(k) /\ word = INT /\ Width(Type(k)) = word /\ HostWidth(Type(k)) = SLOT
    <2>1. \A k \in Args : Type(k) \in Types
      BY GivenFacts
    <2>2. QED
      BY <1>1, <2>1, TypeWidths DEF HostWidth, Long
  <1>7. at[i] = to[i]
    <2>1. \A j \in 1 .. i - 1 : Widths[j] = HostWidths[j]
      <3>1. \A j \in 1 .. i - 1 : j \in Args
        BY <1>2, <1>3
      <3>2. QED
        BY <1>4, <1>6, <3>1
    <2>2. Widths[i] = HostWidths[i] \/ (word <= Widths[i] /\ word <= HostWidths[i])
      <3>1. word \in Nat /\ word <= word /\ word <= SLOT
        BY <1>1, WordWidth, WidthNat
      <3>2. QED
        BY <1>4, <1>6, <3>1
    <2>3. QED
      BY <1>1, <1>3, <1>4, <1>5, <2>1, <2>2, SameLayout
  <1>8. there = {i}
    <2>1. i \in there
      BY <1>1, <1>4, <1>7, TypeWidths
    <2>2. ASSUME NEW k \in there PROVE k = i
      <3>1. k \in 1 .. n /\ to[k] = to[i]
        BY <1>2, <1>7
      <3>2. ASSUME NEW l \in 1 .. n PROVE to[l] \in Nat
        BY <1>5 DEF LaidOut
      <3>3. ~(k < i)
        <4>1. SUFFICES ASSUME k < i PROVE FALSE
          OBVIOUS
        <4>2. to[k] < to[i]
          BY <1>1, <1>3, <1>4, <1>5, <3>1, <4>1, LayoutIncreases
        <4>3. QED
          BY <1>3, <3>1, <3>2, <4>2
      <3>4. ~(i < k)
        <4>1. SUFFICES ASSUME i < k PROVE FALSE
          OBVIOUS
        <4>2. to[i] < to[k]
          BY <1>1, <1>3, <1>4, <1>5, <3>1, <4>1, LayoutIncreases
        <4>3. QED
          BY <1>3, <3>1, <3>2, <4>2
      <3>5. QED
        BY <1>3, <3>1, <3>3, <3>4
    <2>3. QED
      BY <2>1, <2>2
  <1>9. ReadAt(at[i], w, stray) = Low(Converted(Bits(i), Type(i)), w)
    <2>1. ReadAt(at[i], w, stray) =
            IF there = {} THEN Low(stray, w)
            ELSE LET k == CHOOSE j \in there : TRUE
                 IN  Low(Converted(Bits(k), Type(k)), w)
      BY DEF ReadAt, to
    <2> HIDE DEF there
    <2>2. (CHOOSE j \in there : TRUE) = i
      BY <1>8
    <2>3. QED
      BY <1>8, <2>1, <2>2
  <1>10. Low(Converted(Bits(i), Type(i)), w) = Bits(i)
    <2>1. Low(Converted(Bits(i), Type(i)), w) = Low(Bits(i), w) /\ Low(Bits(i), w) = Bits(i)
      BY <1>1, ConvertedFacts
    <2>2. QED
      BY <2>1
  <1>11. QED
    BY <1>9, <1>10 DEF at

\* The library reads its fields in what the host wrote.
LEMMA ShareStructStep == IInv /\ ShareStruct => IInv'
  <1> SUFFICES ASSUME IInv, ShareStruct PROVE IInv'
    OBVIOUS
  <1>1. /\ GivenOK /\ GivenOK' /\ Build /\ stage' = "shared" /\ TypeOK
        /\ word' = word /\ given' = given /\ kind' = "struct"
        /\ slots' = slots /\ words' = words
    BY Kept DEF IInv, ShareStruct, Goes, Same, GivenOK, ArgsArrive
  <1>2. PICK stray \in {0, SLOT - 1} :
          seen' = [i \in Args |-> ReadAt(Layout(Widths)[i], Width(Type(i)), stray)]
    BY DEF ShareStruct
  <1>3. ASSUME NEW i \in Args PROVE seen'[i] \in 0 .. SLOT - 1
    <2> DEFINE w == Width(Type(i))
               o == Layout(Widths)[i]
    <2>1. w \in AllWidths /\ w \in Nat \ {0} /\ stray \in Nat
      BY <1>1, GivenFacts, WidthNat, Constants
    <2>2. PICK p \in Nat : ReadAt(o, w, stray) = Low(p, w)
      <3> DEFINE there == {k \in Args : Layout(HostWidths)[k] = o /\ w <= HostWidths[k]}
                 c == CHOOSE j \in there : TRUE
      <3>1. ReadAt(o, w, stray) =
              IF there = {} THEN Low(stray, w) ELSE Low(Converted(Bits(c), Type(c)), w)
        BY DEF ReadAt
      <3>2. there # {} => c \in Args
        OBVIOUS
      <3> HIDE DEF there, c, o, w
      <3>3. ASSUME NEW k \in Args PROVE Converted(Bits(k), Type(k)) \in Nat
        <4>1. /\ Type(k) \in Types /\ Bits(k) \in 0 .. Width(Type(k)) - 1
              /\ HostWidth(Type(k)) \in Nat
          BY <1>1, GivenFacts, WidthNat
        <4>2. Converted(Bits(k), Type(k)) \in 0 .. HostWidth(Type(k)) - 1
          BY <1>1, <4>1, ConvertedFacts
        <4>3. QED
          BY <4>1, <4>2
      <3>4. CASE there = {}
        BY <2>1, <3>1, <3>4
      <3>5. CASE there # {}
        BY <3>1, <3>2, <3>3, <3>5
      <3>6. QED
        BY <3>4, <3>5
    <2>3. seen'[i] = Low(p, w)
      BY <1>2, <2>2
    <2> HIDE DEF w
    <2>4. Low(p, w) \in 0 .. w - 1
      BY <2>1 DEF Low
    <2>5. QED
      BY <2>1, <2>3, <2>4, InSlot
  <1>4. TypeOK'
    <2>1. DOMAIN seen' = Args
      BY <1>2
    <2>2. QED
      BY <1>1, <1>3, <2>1 DEF TypeOK
  <1>5. FieldsArrive'
    <2>1. ASSUME NEW i \in Args, word = INT => \A j \in 1 .. i - 1 : ~Long(j)
          PROVE  Number(seen'[i], Width(Type(i)), Type(i)) = Given(i)
      <3>1. seen'[i] = Bits(i)
        BY <1>1, <1>2, <2>1, Sharing
      <3>2. QED
        BY <3>1 DEF Given
    <2>2. /\ Args' = Args
          /\ \A i : /\ Type(i)' = Type(i) /\ Given(i)' = Given(i) /\ Long(i)' = Long(i)
                    /\ Width(Type(i))' = Width(Type(i))
      BY <1>1 DEF Args, Given, Bits, Type, Width, Long
    <2>3. \A i \in Args :
            (word' = INT => \A j \in 1 .. i - 1 : ~Long(j)')
            => Number(seen'[i], Width(Type(i))', Type(i)') = Given(i)'
      BY <1>1, <2>1, <2>2
    <2>4. QED
      BY <1>1, <2>2, <2>3 DEF FieldsArrive
  <1>6. QED
    BY <1>1, <1>4, <1>5 DEF IInv, PackedOK, FiredOK, ArgsArrive, CallbackArgsArrive, ResultsArrive

\* Copying a field to wasm and back is two casts.
LEMMA TranslateStructStep == IInv /\ TranslateStruct => IInv'
  <1> SUFFICES ASSUME IInv, TranslateStruct PROVE IInv'
    OBVIOUS
  <1> DEFINE t(i) == Type(i)
             w(i) == WasmWidth(t(i))
             h(i) == HostWidth(t(i))
  <1>1. /\ GivenOK /\ GivenOK' /\ Build /\ stage' = "copied" /\ TypeOK
        /\ word' = word /\ given' = given /\ kind' = "struct" /\ words' = words
    BY Kept DEF IInv, TranslateStruct, Goes, Same, GivenOK, ArgsArrive
  <1>2. /\ seen' = [i \in Args |-> Cast(Converted(Bits(i), t(i)), h(i), Signed(t(i)), w(i))]
        /\ slots' = [i \in Args |-> Cast(seen'[i], w(i), Signed(t(i)), h(i))]
    BY DEF TranslateStruct, CopyField
  <1>3. ASSUME NEW i \in Args
        PROVE  /\ seen'[i] \in 0 .. SLOT - 1 /\ slots'[i] \in 0 .. SLOT - 1
               /\ Fits(Given(i), w(i), t(i)) =>
                    /\ Number(seen'[i], w(i), t(i)) = Given(i)
                    /\ Number(slots'[i], h(i), t(i)) = Given(i)
    <2> DEFINE c == Converted(Bits(i), t(i))
               s == seen'[i]
    <2>1. /\ w(i) \in AllWidths /\ h(i) \in AllWidths /\ w(i) <= h(i) /\ Signed(t(i)) \in BOOLEAN
          /\ c \in 0 .. h(i) - 1 /\ Number(c, h(i), t(i)) = Given(i)
      <3>1. /\ t(i) \in Types /\ w(i) \in AllWidths /\ h(i) \in AllWidths
            /\ Width(t(i)) \in AllWidths /\ Bits(i) \in 0 .. Width(t(i)) - 1
        BY <1>1, GivenFacts
      <3>2. w(i) <= h(i)
        <4>1. w(i) <= Width(t(i)) /\ Width(t(i)) <= h(i)
          BY <1>1, <3>1, TypeWidths
        <4>2. w(i) \in Nat /\ h(i) \in Nat /\ Width(t(i)) \in Nat
          BY <3>1, WidthNat
        <4>3. QED
          BY <4>1, <4>2
      <3>3. c \in 0 .. h(i) - 1 /\ Number(c, h(i), t(i)) = Given(i)
        BY <1>1, <3>1, ConvertedFacts DEF Given
      <3>4. QED
        BY <3>1, <3>2, <3>3 DEF Signed
    <2>2. s = Cast(c, h(i), Signed(t(i)), w(i)) /\ slots'[i] = Cast(s, w(i), Signed(t(i)), h(i))
      BY <1>2
    <2> HIDE DEF c, s, t, w, h
    <2>3. s \in 0 .. w(i) - 1
      BY <2>1, <2>2, CastLow
    <2>4. slots'[i] \in 0 .. h(i) - 1
      BY <2>1, <2>2, <2>3, CastLow
    <2>5. Number(slots'[i], h(i), t(i)) = Number(s, w(i), t(i))
      BY <2>1, <2>2, <2>3, CastNumber
    <2>6. Fits(Given(i), w(i), t(i)) => Number(s, w(i), t(i)) = Given(i)
      BY <2>1, <2>2, CastFits
    <2>7. QED
      BY <2>1, <2>3, <2>4, <2>5, <2>6, InSlot DEF s
  <1>4. TypeOK'
    <2>1. DOMAIN slots' = Args /\ DOMAIN seen' = Args
      BY <1>2
    <2>2. QED
      BY <1>1, <1>3, <2>1 DEF TypeOK
  <1>5. FieldsArrive'
    <2>1. /\ Args' = Args
          /\ \A i : /\ Type(i)' = t(i) /\ Given(i)' = Given(i)
                    /\ WasmWidth(Type(i))' = w(i) /\ HostWidth(Type(i))' = h(i)
      BY <1>1 DEF Args, Given, Bits, Type, Width, WasmWidth, HostWidth
    <2> HIDE DEF t, w, h
    <2>2. \A i \in Args :
            Fits(Given(i)', WasmWidth(Type(i))', Type(i)') =>
              /\ Number(seen'[i], WasmWidth(Type(i))', Type(i)') = Given(i)'
              /\ Number(slots'[i], HostWidth(Type(i))', Type(i)') = Given(i)'
      BY <1>3, <2>1
    <2>3. QED
      BY <1>1, <2>1, <2>2 DEF FieldsArrive
  <1>6. QED
    BY <1>1, <1>4, <1>5 DEF IInv, PackedOK, FiredOK, ArgsArrive, CallbackArgsArrive, ResultsArrive

-----------------------------------------------------------------------------
\* What was given stays as it was, and every value is as far as the parts of
\* the invariant say.
THEOREM Invariance == Spec => []IInv
  <1>1. IInv /\ [Next]_vars => IInv'
    <2> SUFFICES ASSUME IInv, [Next]_vars PROVE IInv'
      OBVIOUS
    <2>1. CASE Next
      BY <2>1, PackStep, FfiCallStep, ReturnStep, FireStep, HandleStep, HandlerReturnsStep,
         TranslateStep, WasmReturnsStep, ShareStructStep, TranslateStructStep
      DEF Next
    <2>2. CASE UNCHANGED vars
      <3>1. GivenOK'
        BY <2>2, Kept DEF vars, Same, IInv
      <3>2. PackedOK'
        BY <2>2 DEF vars, IInv, PackedOK, Args, Bits, Type, PackSlot, Converted, HostWidth, Width
      <3>3. FiredOK'
        BY <2>2 DEF vars, IInv, FiredOK, Args, Bits, Type, HostWidth, Width, Reaches, Long
      <3>4. ArgsArrive' /\ CallbackArgsArrive'
        BY <2>2 DEF vars, IInv, ArgsArrive, CallbackArgsArrive, TypeOK, Args, Given, Bits, Type,
                    Tag, Width, HostWidth, WasmWidth, SameAsPointer, Long
      <3>5. ResultsArrive'
        <4>1. /\ ret' = ret /\ word' = word /\ kind' = kind /\ stage' = stage /\ Tag' = Tag
              /\ Width(ret.type)' = Width(ret.type)
              /\ HostWidth(ret.type)' = HostWidth(ret.type)
              /\ WasmWidth(ret.type)' = WasmWidth(ret.type)
          BY <2>2 DEF vars, Tag, Width, HostWidth, WasmWidth
        <4>2. QED
          BY <4>1 DEF IInv, ResultsArrive
      <3>6. FieldsArrive'
        BY <2>2 DEF vars, IInv, FieldsArrive, Args, Given, Bits, Type, Width, HostWidth, WasmWidth,
                    Long
      <3>7. QED
        BY <3>1, <3>2, <3>3, <3>4, <3>5, <3>6 DEF IInv
    <2>3. QED
      BY <2>1, <2>2
  <1>2. QED
    BY InitIInv, <1>1, PTL DEF Spec

\* The arguments of a call arrive, behind any others: what libffi lays out by
\* tags the function finds by its types, and wasm gets what its types hold,
\* pointers without the tag and NULL as it is; except an unsigned number of
\* T_PointerType's type from the top bit on, which wasm gets without that bit
\* (meta 647, 676).
THEOREM ArgumentsArrive == Spec => []ArgsArrive
  <1>1. IInv => ArgsArrive
    BY DEF IInv
  <1>2. QED
    BY <1>1, Invariance, PTL

\* The arguments of a callback arrive, in the slots of a trampoline.
THEOREM CallbackArgumentsArrive == Spec => []CallbackArgsArrive
  <1>1. IInv => CallbackArgsArrive
    BY DEF IInv
  <1>2. QED
    BY <1>1, Invariance, PTL

\* Results arrive as they were returned, the wasm's NULL untagged and its other
\* pointers tagged (meta 715-740); except, from a library function called
\* through libffi, a bool, and on i386 64 bits, of which half is lost.
THEOREM ResultsComeBack == Spec => []ResultsArrive
  <1>1. IInv => ResultsArrive
    BY DEF IInv
  <1>2. QED
    BY <1>1, Invariance, PTL

\* Host and library agree on a field if no long is before it, and wasm gets a
\* copy that fits, and gives it back.
THEOREM FieldsAreShared == Spec => []FieldsArrive
  <1>1. IInv => FieldsArrive
    BY DEF IInv
  <1>2. QED
    BY <1>1, Invariance, PTL

=============================================================================
