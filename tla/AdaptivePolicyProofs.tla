------------------------ MODULE AdaptivePolicyProofs ------------------------
(***************************************************************************)
(* MedianIsRecent of AdaptivePolicy, for a ring of any length, any symbols *)
(* and any latencies: a ring holds the last latencies, its oldest where    *)
(* the next is written; they can be sorted; and the middle one of a sorted *)
(* ring is a median.                                                       *)
(***************************************************************************)
EXTENDS AdaptivePolicy, FiniteSetTheorems, WellFoundedInduction, TLAPS

-----------------------------------------------------------------------------
(* Numbers and finite sets.                                                *)

\* A set of numbers has a least one.
LEMMA Least ==
  ASSUME NEW T \in SUBSET Nat, T # {}
  PROVE  \E x \in T : \A y \in T : x <= y
  <1>1. PICK x \in T : \A y \in T : <<y, x>> \notin OpToRel(<, Nat)
    BY NatLessThanWellFounded, WFMin
  <1>2. \A y \in T : ~(y < x)
    BY <1>1 DEF OpToRel
  <1>3. QED
    BY <1>2

\* n places reach at most n elements.
LEMMA ImageBound ==
  ASSUME NEW n \in Nat, NEW f, NEW S, \A x \in S : \E i \in 1 .. n : f[i] = x
  PROVE  Cardinality(S) \in Nat /\ Cardinality(S) <= n
  <1> DEFINE T == {f[i] : i \in 1 .. n}
             g == [i \in 1 .. n |-> f[i]]
  <1>1. g \in Surjection(1 .. n, T)
    BY DEF Surjection
  <1>2. IsFiniteSet(1 .. n) /\ Cardinality(1 .. n) = n
    BY FS_Interval
  <1>3. S \in SUBSET T
    OBVIOUS
  <1> HIDE DEF T, g
  <1>4. IsFiniteSet(T) /\ Cardinality(T) <= n
    BY <1>1, <1>2, FS_Surjection
  <1>5. IsFiniteSet(S) /\ Cardinality(S) <= Cardinality(T)
    BY <1>3, <1>4, FS_Subset
  <1>6. Cardinality(S) \in Nat /\ Cardinality(T) \in Nat
    BY <1>4, <1>5, FS_CardinalityType
  <1>7. QED
    BY <1>4, <1>5, <1>6

\* What is not above x.
LEMMA NotAbove ==
  ASSUME NEW n \in Nat, NEW q \in [1 .. n -> Nat], NEW x \in Nat
  PROVE  \A i \in 1 .. n : q[i] <= x <=> ~(q[i] > x)
  OBVIOUS

\* Of n numbers, m below the middle one and the rest above it.
LEMMA Halves ==
  ASSUME NEW n \in Nat, NEW m \in Nat, 2 * m <= n - 1, n - 1 <= 2 * m + 1,
         NEW u \in Nat, NEW o \in Nat, u <= m, o <= n - m - 1
  PROVE  2 * (n - o) >= n /\ 2 * u < n
  OBVIOUS

\* An injection of n places in n places reaches them all.
LEMMA Reaches ==
  ASSUME NEW n \in Nat, NEW p \in [1 .. n -> 0 .. n - 1],
         \A i, j \in 1 .. n : p[i] = p[j] => i = j,
         NEW k \in 0 .. n - 1
  PROVE  \E i \in 1 .. n : p[i] = k
  <1>1. p \in Injection(1 .. n, 0 .. n - 1)
    BY DEF Injection, IsInjective
  <1>2. IsFiniteSet(0 .. n - 1) /\ Cardinality(0 .. n - 1) = Cardinality(1 .. n)
    BY FS_Interval
  <1>3. p \in Surjection(1 .. n, 0 .. n - 1)
    BY <1>1, <1>2, FS_Injection
  <1>4. QED
    BY <1>3 DEF Surjection

-----------------------------------------------------------------------------
(* Sorting.                                                                *)

\* p has the places of the first n samples in order.
InOrder(p, samples, n) ==
    /\ p \in [1 .. n -> 0 .. n - 1]
    /\ \A j \in 2 .. n : \A i \in 1 .. j - 1 :
           p[i] # p[j] /\ samples[p[i]] <= samples[p[j]]

\* One more sample has its place behind those that are not greater.
LEMMA Insert ==
  ASSUME NEW n \in Nat, NEW s, \A k \in 0 .. n : s[k] \in Nat, NEW p, InOrder(p, s, n)
  PROVE  \E q : InOrder(q, s, n + 1)
  <1> DEFINE Later == {i \in 1 .. n + 1 : i = n + 1 \/ s[p[i]] > s[n]}
  <1>1. PICK k \in Later : \A i \in Later : k <= i
    <2>1. Later \in SUBSET Nat /\ n + 1 \in Later
      OBVIOUS
    <2> HIDE DEF Later
    <2>2. QED
      BY <2>1, Least
  <1>2. /\ k \in 1 .. n + 1
        /\ \A i \in 1 .. n : p[i] \in 0 .. n - 1 /\ s[p[i]] \in Nat
        /\ s[n] \in Nat
    BY DEF InOrder
  <1>3. \A i \in 1 .. k - 1 : i \in 1 .. n /\ s[p[i]] <= s[n]
    BY <1>1, <1>2
  <1>4. \A i \in k .. n : s[n] <= s[p[i]]
    <2> SUFFICES ASSUME NEW i \in k .. n PROVE s[n] <= s[p[i]]
      OBVIOUS
    <2>1. k \in 1 .. n /\ i \in 1 .. n /\ s[p[k]] > s[n]
      BY <1>1, <1>2
    <2>2. k = i \/ s[p[k]] <= s[p[i]]
      BY <2>1 DEF InOrder
    <2>3. QED
      BY <1>2, <2>1, <2>2
  <1> HIDE DEF Later
  <1> DEFINE q == [i \in 1 .. n + 1 |-> IF i < k THEN p[i] ELSE IF i = k THEN n ELSE p[i - 1]]
  <1>5. q \in [1 .. n + 1 -> 0 .. n + 1 - 1]
    BY <1>2
  <1>6. ASSUME NEW j \in 2 .. n + 1, NEW i \in 1 .. j - 1
        PROVE  q[i] # q[j] /\ s[q[i]] <= s[q[j]]
    <2>1. \A b \in 2 .. n : \A a \in 1 .. b - 1 : p[a] # p[b] /\ s[p[a]] <= s[p[b]]
      BY DEF InOrder
    <2>2. i \in 1 .. n + 1 /\ j \in 1 .. n + 1 /\ i < j
      OBVIOUS
    <2>3. CASE j < k
      <3>1. q[i] = p[i] /\ q[j] = p[j] /\ j \in 2 .. n
        BY <1>2, <2>2, <2>3
      <3>2. QED
        BY <2>1, <3>1
    <2>4. CASE j = k
      <3>1. q[i] = p[i] /\ q[j] = n /\ i \in 1 .. n /\ i \in 1 .. k - 1
        BY <1>2, <2>2, <2>4
      <3>2. QED
        BY <1>2, <1>3, <3>1
    <2>5. CASE j > k
      <3>1. q[j] = p[j - 1] /\ j - 1 \in 1 .. n /\ j - 1 \in k .. n
        BY <1>2, <2>2, <2>5
      <3>2. CASE i < k
        <4>1. q[i] = p[i] /\ j - 1 \in 2 .. n /\ i \in 1 .. (j - 1) - 1
          BY <1>2, <2>2, <2>5, <3>2
        <4>2. QED
          BY <2>1, <3>1, <4>1
      <3>3. CASE i = k
        <4>1. q[i] = n
          BY <1>2, <2>2, <3>3
        <4>2. QED
          BY <1>2, <1>4, <3>1, <4>1
      <3>4. CASE i > k
        <4>1. q[i] = p[i - 1] /\ j - 1 \in 2 .. n /\ i - 1 \in 1 .. (j - 1) - 1
          BY <1>2, <2>2, <3>4
        <4>2. QED
          BY <2>1, <3>1, <4>1
      <3>5. QED
        BY <1>2, <2>2, <3>2, <3>3, <3>4
    <2>6. QED
      BY <1>2, <2>2, <2>3, <2>4, <2>5
  <1> HIDE DEF q
  <1>7. InOrder(q, s, n + 1)
    BY <1>5, <1>6 DEF InOrder
  <1>8. QED
    BY <1>7

\* Any samples can be sorted: of numbers of samples that cannot, there is no
\* least.
LEMMA Sorts ==
  ASSUME NEW n \in Nat, NEW s, \A k \in 0 .. n - 1 : s[k] \in Nat
  PROVE  \E p : InOrder(p, s, n)
  <1> DEFINE Bad == {m \in 0 .. n : ~\E p : InOrder(p, s, m)}
  <1>1. SUFFICES ASSUME Bad # {} PROVE FALSE
    BY DEF Bad
  <1>2. PICK m \in Bad : \A l \in Bad : m <= l
    <2>1. Bad \in SUBSET Nat
      OBVIOUS
    <2> HIDE DEF Bad
    <2>2. QED
      BY <1>1, <2>1, Least
  <1>3. m # 0
    <2>1. InOrder([i \in 1 .. 0 |-> 0], s, 0)
      BY DEF InOrder
    <2>2. QED
      BY <1>2, <2>1
  <1>4. PICK p : InOrder(p, s, m - 1)
    <2>1. m - 1 \in 0 .. n /\ m - 1 \notin Bad
      BY <1>2, <1>3
    <2>2. QED
      BY <2>1
  <1>5. \E q : InOrder(q, s, (m - 1) + 1)
    <2>1. m - 1 \in Nat /\ \A k \in 0 .. m - 1 : s[k] \in Nat
      BY <1>2, <1>3
    <2> HIDE DEF Bad
    <2>2. QED
      BY <1>4, <2>1, Insert
  <1>6. (m - 1) + 1 = m
    BY <1>2
  <1>7. QED
    BY <1>2, <1>5, <1>6

LEMMA OrderFacts ==
  ASSUME NEW n \in Nat, NEW s, \A k \in 0 .. n - 1 : s[k] \in Nat
  PROVE  InOrder(Order(s, n), s, n)
  <1>1. PICK p : InOrder(p, s, n)
    BY Sorts
  <1>2. QED
    BY <1>1 DEF InOrder, Order

-----------------------------------------------------------------------------
(* The middle one of sorted values is a median.                            *)

LEMMA MiddleIsMedian ==
  ASSUME NEW n \in Nat \ {0}, NEW q \in [1 .. n -> Nat], Len(q) = n,
         NEW f \in [1 .. n -> 1 .. n],
         \A i \in 1 .. n : \E j \in 1 .. n : f[j] = i,
         \A j \in 2 .. n : \A i \in 1 .. j - 1 : q[f[i]] <= q[f[j]],
         NEW m \in 0 .. n - 1, 2 * m <= n - 1, n - 1 <= 2 * m + 1
  PROVE  IsMedian(q[f[m + 1]], q)
  <1> DEFINE x == q[f[m + 1]]
             Under == {i \in 1 .. n : q[i] < x}
             Over == {i \in 1 .. n : q[i] > x}
             UpTo == {i \in 1 .. n : q[i] <= x}
             g == [j \in 1 .. n - m - 1 |-> f[j + m + 1]]
  <1>1. /\ m \in Nat /\ n \in Nat /\ m + 1 \in 1 .. n /\ n - m - 1 \in Nat
        /\ \A j \in 1 .. n : f[j] \in 1 .. n /\ q[f[j]] \in Nat
        /\ \A i \in 1 .. n : q[i] \in Nat
    <2>1. m \in Nat /\ n \in Nat /\ m <= n - 1
      OBVIOUS
    <2>2. m + 1 \in 1 .. n /\ n - m - 1 \in Nat
      BY <2>1
    <2>3. \A j \in 1 .. n : f[j] \in 1 .. n
      OBVIOUS
    <2>4. \A i \in 1 .. n : q[i] \in Nat
      OBVIOUS
    <2>5. QED
      BY <2>1, <2>2, <2>3, <2>4
  <1>2. ASSUME NEW i \in 1 .. n, q[i] < x PROVE \E j \in 1 .. m : f[j] = i
    <2>1. PICK j \in 1 .. n : f[j] = i
      OBVIOUS
    <2>2. CASE j > m + 1
      <3>1. j \in 2 .. n /\ m + 1 \in 1 .. j - 1
        BY <1>1, <2>2
      <3>2. q[f[m + 1]] <= q[f[j]]
        BY <3>1
      <3>3. x <= q[i] /\ x \in Nat /\ q[i] \in Nat
        BY <1>1, <2>1, <3>2
      <3> HIDE DEF x
      <3>4. QED
        BY <1>2, <3>3
    <2>3. CASE j = m + 1
      BY <1>1, <1>2, <2>1, <2>3
    <2>4. CASE j < m + 1
      <3>1. j \in 1 .. m
        BY <1>1, <2>4
      <3>2. QED
        BY <2>1, <3>1
    <2>5. QED
      BY <1>1, <2>2, <2>3, <2>4
  <1>3. ASSUME NEW i \in 1 .. n, q[i] > x PROVE \E j \in 1 .. n - m - 1 : g[j] = i
    <2>1. PICK j \in 1 .. n : f[j] = i
      OBVIOUS
    <2>2. CASE j < m + 1
      <3>1. m + 1 \in 2 .. n /\ j \in 1 .. (m + 1) - 1
        BY <1>1, <2>2
      <3>2. q[f[j]] <= q[f[m + 1]]
        BY <3>1
      <3>3. q[i] <= x /\ x \in Nat /\ q[i] \in Nat
        BY <1>1, <2>1, <3>2
      <3> HIDE DEF x
      <3>4. QED
        BY <1>3, <3>3
    <2>3. CASE j = m + 1
      BY <1>1, <1>3, <2>1, <2>3
    <2>4. CASE j > m + 1
      <3>1. j - m - 1 \in 1 .. n - m - 1 /\ (j - m - 1) + m + 1 = j
        BY <1>1, <2>4
      <3>2. g[j - m - 1] = f[j]
        BY <3>1
      <3>3. QED
        BY <2>1, <3>1, <3>2
    <2>5. QED
      BY <1>1, <2>2, <2>3, <2>4
  <1>4. IsFiniteSet(1 .. n) /\ Cardinality(1 .. n) = n
    BY FS_Interval
  <1>5. Cardinality(Under) \in Nat /\ Cardinality(Under) <= m
    <2>1. m \in Nat /\ \A i \in Under : \E j \in 1 .. m : f[j] = i
      BY <1>1, <1>2
    <2> HIDE DEF Under
    <2>2. QED
      BY <2>1, ImageBound
  <1>6. Cardinality(Over) \in Nat /\ Cardinality(Over) <= n - m - 1
    <2>1. n - m - 1 \in Nat /\ \A i \in Over : \E j \in 1 .. n - m - 1 : g[j] = i
      BY <1>1, <1>3
    <2> HIDE DEF Over, g
    <2>2. QED
      BY <2>1, ImageBound
  <1>7. Cardinality(UpTo) = n - Cardinality(Over)
    <2>1. x \in Nat
      BY <1>1
    <2>2. UpTo = (1 .. n) \ Over
      <3> HIDE DEF x
      <3>1. \A i \in 1 .. n : q[i] <= x <=> ~(q[i] > x)
        BY <2>1, NotAbove
      <3>2. QED
        BY <3>1
    <2>3. (1 .. n) \cap Over = Over
      OBVIOUS
    <2> HIDE DEF UpTo, Over
    <2>4. Cardinality((1 .. n) \ Over) = Cardinality(1 .. n) - Cardinality((1 .. n) \cap Over)
      BY <1>4, FS_Difference
    <2>5. QED
      BY <1>4, <2>2, <2>3, <2>4
  <1>8. DOMAIN q = 1 .. n
    OBVIOUS
  <1>9. 2 * Cardinality(UpTo) >= n /\ 2 * Cardinality(Under) < n
    <2>1. m \in Nat /\ n \in Nat
      BY <1>1
    <2> HIDE DEF UpTo, Under, Over
    <2>2. 2 * (n - Cardinality(Over)) >= n /\ 2 * Cardinality(Under) < n
      BY <1>5, <1>6, <2>1, Halves
    <2>3. QED
      BY <1>7, <2>2
  <1>10. QED
    BY <1>1, <1>8, <1>9 DEF IsMedian
-----------------------------------------------------------------------------
(* The ring.                                                               *)

\* The sample i of the last ones, the oldest first, is at this place.
Oldest(r) == r.writes - Size(r)
Place(r, i) ==
    IF Oldest(r) + i - 1 < N THEN Oldest(r) + i - 1 ELSE Oldest(r) + i - 1 - N

\* q is what the ring r holds.
Holds(r, q) ==
    /\ q \in Seq(Nat) /\ Len(q) = Size(r)
    /\ \A i \in 1 .. Len(q) : q[i] = r.samples[Place(r, i)]

LEMMA RingFacts ==
  ASSUME NEW r \in Ring
  PROVE  /\ N \in Nat /\ N >= 1 /\ r.writes \in Nat /\ r.writes <= 2 * N - 1
         /\ Size(r) \in Nat /\ Size(r) <= N /\ Oldest(r) \in Nat /\ Oldest(r) <= N - 1
         /\ r.writes < N => Size(r) = r.writes /\ Oldest(r) = 0
         /\ r.writes >= N => Size(r) = N /\ Oldest(r) = r.writes - N
         /\ \A k \in 0 .. N - 1 : r.samples[k] \in Nat
  BY RingAssumption DEF Ring, Size, Oldest

\* Each place has one of the last samples.
LEMMA PlaceFacts ==
  ASSUME NEW r \in Ring
  PROVE  /\ \A i \in 1 .. Size(r) : Place(r, i) \in 0 .. Size(r) - 1
         /\ \A k \in 0 .. Size(r) - 1 : \E i \in 1 .. Size(r) : Place(r, i) = k
         /\ \A i, j \in 1 .. Size(r) : Place(r, i) = Place(r, j) => i = j
  <1>1. ASSUME NEW i \in 1 .. Size(r) PROVE Place(r, i) \in 0 .. Size(r) - 1
    BY RingFacts DEF Place
  <1>2. ASSUME NEW k \in 0 .. Size(r) - 1 PROVE \E i \in 1 .. Size(r) : Place(r, i) = k
    <2>1. CASE k >= Oldest(r)
      <3>1. k - Oldest(r) + 1 \in 1 .. Size(r) /\ Place(r, k - Oldest(r) + 1) = k
        BY <2>1, RingFacts DEF Place
      <3>2. QED
        BY <3>1
    <2>2. CASE k < Oldest(r)
      <3>1. k - Oldest(r) + 1 + N \in 1 .. Size(r) /\ Place(r, k - Oldest(r) + 1 + N) = k
        BY <2>2, RingFacts DEF Place
      <3>2. QED
        BY <3>1
    <2>3. QED
      BY <2>1, <2>2, RingFacts
  <1>3. ASSUME NEW i \in 1 .. Size(r), NEW j \in 1 .. Size(r), Place(r, i) = Place(r, j)
        PROVE  i = j
    BY <1>3, RingFacts DEF Place
  <1>4. QED
    BY <1>1, <1>2, <1>3

\* The place that is written.
LEMMA WritePlace ==
  ASSUME NEW r \in Ring
  PROVE  r.writes % N = IF r.writes < N THEN r.writes ELSE r.writes - N
  <1>1. N \in Nat /\ N >= 1 /\ r.writes \in 0 .. 2 * N - 1
    BY RingAssumption DEF Ring
  <1>2. QED
    BY <1>1

\* A push drops the oldest sample of a full ring and appends the new one.
LEMMA PushFacts ==
  ASSUME NEW r \in Ring, NEW q, Holds(r, q), NEW x \in Nat
  PROVE  /\ Push(r, x) \in Ring
         /\ Holds(Push(r, x), Append(IF Len(q) = N THEN Tail(q) ELSE q, x))
  <1> DEFINE w == r.writes
             next == Push(r, x)
             old == IF Len(q) = N THEN Tail(q) ELSE q
  <1>1. /\ N \in Nat /\ N >= 1 /\ w \in Nat /\ w <= 2 * N - 1
        /\ q \in Seq(Nat) /\ Len(q) = Size(r)
        /\ \A i \in 1 .. Len(q) : q[i] = r.samples[Place(r, i)]
        /\ r.samples \in [0 .. N - 1 -> Nat]
    BY RingFacts DEF Holds, Ring
  <1>2. next.writes = (IF w = 2 * N - 1 THEN N ELSE w + 1)
        /\ next.samples = [r.samples EXCEPT ![w % N] = x]
        /\ next = [samples |-> next.samples, writes |-> next.writes]
    BY DEF Push
  <1> HIDE DEF next
  <1>3. w % N \in 0 .. N - 1 /\ w % N = IF w < N THEN w ELSE w - N
    BY <1>1, WritePlace
  <1>4. next \in Ring
    <2> HIDE DEF w
    <2>1. next.writes \in 0 .. 2 * N - 1
      BY <1>1, <1>2
    <2>2. next.samples \in [0 .. N - 1 -> Nat]
      BY <1>1, <1>2, <1>3
    <2>3. QED
      BY <1>2, <2>1, <2>2 DEF Ring
  <1>5. /\ w < N => Size(r) = w /\ Oldest(r) = 0
        /\ w >= N => Size(r) = N /\ Oldest(r) = w - N
    BY RingFacts
  <1>6. /\ w < N - 1 => Size(next) = w + 1 /\ Oldest(next) = 0
        /\ w = N - 1 \/ w = 2 * N - 1 => Size(next) = N /\ Oldest(next) = 0
        /\ w >= N /\ w < 2 * N - 1 => Size(next) = N /\ Oldest(next) = w - N + 1
    <2> HIDE DEF w
    <2>1. QED
      BY <1>1, <1>2 DEF Size, Oldest
  <1>7. old = IF Len(q) = N THEN Tail(q) ELSE q
    OBVIOUS
  <1> HIDE DEF w, old
  <1>8. CASE w < N
    <2>1. old = q /\ Len(q) = w
      BY <1>1, <1>5, <1>8, <1>7
    <2>2. /\ Append(old, x) \in Seq(Nat) /\ Len(Append(old, x)) = w + 1
          /\ \A i \in 1 .. w : Append(old, x)[i] = q[i]
          /\ Append(old, x)[w + 1] = x
      BY <1>1, <2>1
    <2>3. Size(next) = w + 1 /\ Oldest(next) = 0
      BY <1>1, <1>6, <1>8
    <2>4. \A i \in 1 .. w : Place(next, i) = i - 1 /\ Place(r, i) = i - 1
      BY <1>1, <1>5, <1>8, <2>3 DEF Place
    <2>5. Place(next, w + 1) = w
      BY <1>1, <1>8, <2>3 DEF Place
    <2>6. \A i \in 1 .. w : next.samples[i - 1] = r.samples[i - 1]
      BY <1>1, <1>2, <1>3, <1>8
    <2>7. next.samples[w] = x
      BY <1>1, <1>2, <1>3, <1>8
    <2>8. ASSUME NEW i \in 1 .. w + 1 PROVE Append(old, x)[i] = next.samples[Place(next, i)]
      <3>0. i = w + 1 \/ i \in 1 .. w
        <4>1. w \in Nat
          BY <1>1
        <4>2. QED
          BY <4>1
      <3>1. CASE i = w + 1
        BY <2>2, <2>5, <2>7, <3>1
      <3>2. CASE i \in 1 .. w
        BY <1>1, <2>1, <2>2, <2>4, <2>6, <3>2
      <3>3. QED
        BY <3>0, <3>1, <3>2
    <2>9. Holds(next, Append(old, x))
      BY <2>2, <2>3, <2>8 DEF Holds
    <2>10. QED
      BY <1>4, <2>9 DEF next, old
  <1>9. CASE w >= N
    <2>1. old = Tail(q) /\ Len(q) = N
      BY <1>1, <1>5, <1>9, <1>7
    <2>2. /\ Append(old, x) \in Seq(Nat) /\ Len(Append(old, x)) = N
          /\ \A i \in 1 .. N - 1 : Append(old, x)[i] = q[i + 1]
          /\ Append(old, x)[N] = x
      BY <1>1, <2>1
    <2>3. Size(next) = N /\ Oldest(next) = (IF w = 2 * N - 1 THEN 0 ELSE w - N + 1)
      BY <1>1, <1>6, <1>9
    <2>4. \A i \in 1 .. N - 1 : /\ Place(next, i) = Place(r, i + 1)
                                /\ Place(r, i + 1) \in 0 .. N - 1 /\ Place(r, i + 1) # w - N
      BY <1>1, <1>5, <1>9, <2>3 DEF Place
    <2>5. Place(next, N) = w - N
      BY <1>1, <1>9, <2>3 DEF Place
    <2>6. next.samples[w - N] = x
      BY <1>1, <1>2, <1>3, <1>9
    <2>7. \A k \in 0 .. N - 1 : k # w - N => next.samples[k] = r.samples[k]
      BY <1>1, <1>2, <1>3, <1>9
    <2>8. ASSUME NEW i \in 1 .. N PROVE Append(old, x)[i] = next.samples[Place(next, i)]
      <3>0. i = N \/ i \in 1 .. N - 1
        <4>1. N \in Nat
          BY <1>1
        <4>2. QED
          BY <4>1
      <3>1. CASE i = N
        BY <2>2, <2>5, <2>6, <3>1
      <3>2. CASE i \in 1 .. N - 1
        <4>1. i + 1 \in 1 .. Len(q)
          BY <1>1, <2>1, <3>2
        <4>2. q[i + 1] = r.samples[Place(r, i + 1)]
          BY <1>1, <4>1
        <4>3. QED
          BY <2>2, <2>4, <2>7, <3>2, <4>2
      <3>3. QED
        BY <3>0, <3>1, <3>2
    <2>9. Holds(next, Append(old, x))
      BY <2>2, <2>3, <2>8 DEF Holds
    <2>10. QED
      BY <1>4, <2>9 DEF next, old
  <1>10. QED
    BY <1>1, <1>8, <1>9

\* The median of a ring is one of what it holds.
LEMMA MedianFacts ==
  ASSUME NEW r \in Ring, NEW q, Holds(r, q), q # <<>>
  PROVE  IsMedian(Median(r), q)
  <1> DEFINE n == Size(r)
             p == Order(r.samples, n)
             f == [j \in 1 .. n |-> CHOOSE i \in 1 .. n : Place(r, i) = p[j]]
             m == IF n \div 2 = 0 THEN 0 ELSE (n - 1) \div 2
  <1>1. /\ n \in Nat /\ n # 0 /\ n \in Nat \ {0} /\ n <= N
        /\ q \in [1 .. n -> Nat] /\ Len(q) = n
        /\ \A i \in 1 .. n : q[i] = r.samples[Place(r, i)]
    BY RingFacts DEF Holds
  <1>2. InOrder(p, r.samples, n)
    <2>1. \A k \in 0 .. n - 1 : r.samples[k] \in Nat
      BY RingFacts
    <2> HIDE DEF n
    <2>2. QED
      BY <1>1, <2>1, OrderFacts
  <1>3. /\ m \in 0 .. n - 1 /\ 2 * m <= n - 1 /\ n - 1 <= 2 * m + 1
    <2> HIDE DEF n
    <2>1. QED
      BY <1>1
  <1>4. Median(r) = r.samples[p[m + 1]]
    BY <1>1 DEF Median
  <1>5. /\ \A i \in 1 .. n : Place(r, i) \in 0 .. n - 1
        /\ \A k \in 0 .. n - 1 : \E i \in 1 .. n : Place(r, i) = k
        /\ \A i, j \in 1 .. n : Place(r, i) = Place(r, j) => i = j
    BY PlaceFacts
  <1> HIDE DEF n, p, m
  <1>6. \A j \in 1 .. n : p[j] \in 0 .. n - 1
    BY <1>2 DEF InOrder
  <1>7. \A j \in 1 .. n : f[j] \in 1 .. n /\ Place(r, f[j]) = p[j]
    BY <1>5, <1>6
  <1> HIDE DEF f
  <1>8. f \in [1 .. n -> 1 .. n]
    BY <1>7 DEF f
  <1>9. ASSUME NEW i \in 1 .. n PROVE \E j \in 1 .. n : f[j] = i
    <2>1. Place(r, i) \in 0 .. n - 1
      BY <1>5
    <2>2. PICK j \in 1 .. n : p[j] = Place(r, i)
      <3>1. p \in [1 .. n -> 0 .. n - 1]
        BY <1>2 DEF InOrder
      <3>2. \A a, b \in 1 .. n : a < b => p[a] # p[b]
        <4>1. \A a, b \in 1 .. n : a < b => b \in 2 .. n /\ a \in 1 .. b - 1
          BY <1>1
        <4>2. QED
          BY <1>2, <4>1 DEF InOrder
      <3>3. \A a, b \in 1 .. n : p[a] = p[b] => a = b
        <4>1. \A a, b \in 1 .. n : a < b \/ b < a \/ a = b
          BY <1>1
        <4>2. QED
          BY <3>2, <4>1
      <3>4. \A k \in 0 .. n - 1 : \E j \in 1 .. n : p[j] = k
        BY <1>1, <3>1, <3>3, Reaches
      <3>5. QED
        BY <2>1, <3>4
    <2>3. f[j] = i
      BY <1>5, <1>7, <2>2
    <2>4. QED
      BY <2>3
  <1>10. \A j \in 1 .. n : q[f[j]] = r.samples[p[j]]
    BY <1>1, <1>7
  <1>11. \A j \in 2 .. n : \A i \in 1 .. j - 1 : q[f[i]] <= q[f[j]]
    <2> SUFFICES ASSUME NEW j \in 2 .. n, NEW i \in 1 .. j - 1 PROVE q[f[i]] <= q[f[j]]
      OBVIOUS
    <2>1. i \in 1 .. n /\ j \in 1 .. n
      BY <1>1
    <2>2. r.samples[p[i]] <= r.samples[p[j]]
      BY <1>2 DEF InOrder
    <2>3. QED
      BY <1>10, <2>1, <2>2
  <1>12. IsMedian(q[f[m + 1]], q)
    BY <1>1, <1>3, <1>8, <1>9, <1>11, MiddleIsMedian
  <1>13. m + 1 \in 1 .. n
    BY <1>1, <1>3
  <1>14. QED
    BY <1>4, <1>10, <1>12, <1>13

-----------------------------------------------------------------------------
(* The inductive invariant.                                                *)

\* The types, of the policy and of the records.
PolicyTypes ==
    /\ current_best \in Backends /\ count \in 0 .. AllocWarmup + ReexplorePeriod
    /\ by \in {"random", "measured", None} /\ shifted \in BOOLEAN
    /\ running \in (Symbols \X {"process"}) \cup (Bound \X {"wasm"}) \cup {None}

RecordTypes ==
    /\ ring \in [Symbols -> [Backends -> Ring]]
    /\ recent \in [Symbols -> [Backends -> Seq(Nat)]]
    /\ pin \in [Symbols -> [pinned : Backends \cup {None}, streak : 0 .. PinThreshold,
                            last : Backends]]

\* The rings hold the last latencies.
RingsOK == \A s \in Symbols, b \in Backends : Holds(ring[s][b], recent[s][b])

IInv == PolicyTypes /\ RecordTypes /\ RingsOK

LEMMA EmptyFacts == EmptyRing \in Ring /\ Holds(EmptyRing, <<>>)
  <1>1. EmptyRing \in Ring /\ EmptyRing.writes = 0
    BY RingAssumption DEF EmptyRing, Ring
  <1>2. Size(EmptyRing) = 0
    BY <1>1, RingAssumption DEF Size
  <1>3. QED
    BY <1>1, <1>2 DEF Holds

LEMMA InitIInv == Init => IInv
  <1> SUFFICES ASSUME Init PROVE IInv
    OBVIOUS
  <1>1. PolicyTypes
    <2>1. 0 \in 0 .. AllocWarmup + ReexplorePeriod
      BY PolicyAssumption
    <2>2. QED
      BY <2>1 DEF Init, PolicyTypes, Backends
  <1>2. ring \in [Symbols -> [Backends -> Ring]] /\ recent \in [Symbols -> [Backends -> Seq(Nat)]]
    BY EmptyFacts DEF Init
  <1>3. pin \in [Symbols -> [pinned : Backends \cup {None}, streak : 0 .. PinThreshold,
                             last : Backends]]
    BY PolicyAssumption DEF Init, Backends
  <1>4. RingsOK
    BY EmptyFacts DEF Init, RingsOK
  <1>5. QED
    BY <1>1, <1>2, <1>3, <1>4 DEF IInv, RecordTypes

\* The pin state keeps its type.
LEMMA PinFacts ==
  ASSUME NEW b \in Backends,
         NEW p \in [pinned : Backends \cup {None}, streak : 0 .. PinThreshold, last : Backends]
  PROVE  Pinned(p, b) \in [pinned : Backends \cup {None}, streak : 0 .. PinThreshold,
                           last : Backends]
  <1>1. PinThreshold \in Nat
    BY PolicyAssumption
  <1>2. Longer(p.streak) \in 0 .. PinThreshold
    BY <1>1 DEF Longer
  <1>3. PinThreshold # 0 => 1 \in 0 .. PinThreshold
    BY <1>1
  <1>4. QED
    BY <1>1, <1>2, <1>3 DEF Pinned

LEMMA CallStep ==
  ASSUME IInv, NEW s \in Symbols, Call(s)
  PROVE  IInv'
  <1>1. count' \in 0 .. AllocWarmup + ReexplorePeriod
    BY PolicyAssumption DEF IInv, PolicyTypes, Call, NextCount
  <1>2. current_best' \in Backends /\ by' \in {"random", "measured", None}
    BY DEF Call, Backends
  <1>3. running' \in (Symbols \X {"process"}) \cup (Bound \X {"wasm"})
    <2>1. running' = <<s, IF s \in Bound \ Owned THEN current_best ELSE "process">>
      BY DEF Call
    <2>2. current_best \in {"process", "wasm"}
      BY DEF IInv, PolicyTypes, Backends
    <2>3. QED
      BY <2>1, <2>2
  <1>4. UNCHANGED <<ring, pin, recent, shifted>>
    BY DEF Call, recordVars
  <1>5. QED
    BY <1>1, <1>2, <1>3, <1>4 DEF IInv, PolicyTypes, RecordTypes, RingsOK

LEMMA FinishStep ==
  ASSUME IInv, Finish
  PROVE  IInv'
  <1> DEFINE s == running[1]
             b == running[2]
  <1>1. s \in Symbols /\ b \in Backends
    BY PolicyAssumption DEF IInv, PolicyTypes, Finish, Backends
  <1>2. Latency(b) \in Nat
    BY <1>1, PolicyAssumption DEF Latency
  <1> DEFINE q == recent[s][b]
             r == Push(ring[s][b], Latency(b))
             longer == Append(IF Len(q) = N THEN Tail(q) ELSE q, Latency(b))
  <1>3. /\ ring' = [ring EXCEPT ![s][b] = r]
        /\ pin' = [pin EXCEPT ![s] = Pinned(@, b)]
        /\ recent' = [recent EXCEPT ![s][b] = longer]
        /\ running' = None /\ UNCHANGED <<current_best, count, by, shifted>>
    BY DEF Finish, policyVars
  <1>4. r \in Ring /\ Holds(r, longer)
    <2>1. ring[s][b] \in Ring /\ Holds(ring[s][b], q)
      BY <1>1 DEF IInv, RecordTypes, RingsOK
    <2> HIDE DEF s, b
    <2>2. QED
      BY <1>2, <2>1, PushFacts
  <1> HIDE DEF s, b, q, r, longer
  <1>5. ring' \in [Symbols -> [Backends -> Ring]]
    BY <1>1, <1>3, <1>4 DEF IInv, RecordTypes
  <1>6. recent' \in [Symbols -> [Backends -> Seq(Nat)]]
    BY <1>1, <1>3, <1>4 DEF IInv, RecordTypes, Holds
  <1>7. pin' \in [Symbols -> [pinned : Backends \cup {None}, streak : 0 .. PinThreshold,
                              last : Backends]]
    <2>1. Pinned(pin[s], b) \in [pinned : Backends \cup {None}, streak : 0 .. PinThreshold,
                                 last : Backends]
      BY <1>1, PinFacts DEF IInv, RecordTypes
    <2>2. QED
      BY <1>1, <1>3, <2>1 DEF IInv, RecordTypes
  <1>8. ASSUME NEW t \in Symbols, NEW c \in Backends PROVE Holds(ring'[t][c], recent'[t][c])
    <2>1. CASE t = s /\ c = b
      BY <1>1, <1>3, <1>4, <2>1 DEF IInv, RecordTypes
    <2>2. CASE ~(t = s /\ c = b)
      <3>1. ring'[t][c] = ring[t][c] /\ recent'[t][c] = recent[t][c]
        BY <1>1, <1>3, <2>2 DEF IInv, RecordTypes
      <3>2. QED
        BY <3>1 DEF IInv, RingsOK
    <2>3. QED
      BY <2>1, <2>2
  <1>9. QED
    BY <1>3, <1>5, <1>6, <1>7, <1>8 DEF IInv, PolicyTypes, RecordTypes, RingsOK

\* IInv holds in every state that AdaptivePolicy reaches.
THEOREM Invariance == Spec => []IInv
  <1>1. IInv /\ [Next]_vars => IInv'
    <2> SUFFICES ASSUME IInv, [Next]_vars PROVE IInv'
      OBVIOUS
    <2>1. CASE Finish
      BY <2>1, FinishStep
    <2>2. CASE Shift
      BY <2>2 DEF Shift, policyVars, recordVars, IInv, PolicyTypes, RecordTypes, RingsOK
    <2>3. CASE \E s \in Symbols : Call(s)
      BY <2>3, CallStep
    <2>4. CASE UNCHANGED vars
      BY <2>4 DEF vars, policyVars, recordVars, IInv, PolicyTypes, RecordTypes, RingsOK
    <2>5. QED
      BY <2>1, <2>2, <2>3, <2>4 DEF Next
  <1>2. QED
    BY InitIInv, <1>1, PTL DEF Spec

\* MedianIsRecent: the policy compares medians of the last N latencies of a
\* symbol on a backend, however often the ring has gone round.
THEOREM MediansAreRecent == Spec => []MedianIsRecent
  <1>1. IInv => MedianIsRecent
    <2> SUFFICES ASSUME IInv PROVE MedianIsRecent
      OBVIOUS
    <2>1. ASSUME NEW s \in Symbols, NEW b \in Backends
          PROVE  /\ DOMAIN ring[s][b].samples = 0 .. N - 1
                 /\ ring[s][b].writes \in 0 .. 2 * N - 1
                 /\ Len(recent[s][b]) <= N
                 /\ recent[s][b] # <<>> => IsMedian(Median(ring[s][b]), recent[s][b])
      <3>1. ring[s][b] \in Ring /\ Holds(ring[s][b], recent[s][b])
        BY DEF IInv, RecordTypes, RingsOK
      <3>2. Len(recent[s][b]) <= N
        BY <3>1, RingFacts DEF Holds
      <3>3. DOMAIN ring[s][b].samples = 0 .. N - 1 /\ ring[s][b].writes \in 0 .. 2 * N - 1
        BY <3>1 DEF Ring
      <3>4. QED
        BY <3>1, <3>2, <3>3, MedianFacts
    <2>2. TypeOK
      BY <2>1 DEF IInv, PolicyTypes, RecordTypes, TypeOK
    <2>3. QED
      BY <2>1, <2>2 DEF MedianIsRecent
  <1>2. QED
    BY Invariance, <1>1, PTL
=============================================================================
