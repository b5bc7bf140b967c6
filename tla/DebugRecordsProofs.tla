-------------------------- MODULE DebugRecordsProofs --------------------------
(* Proofs about the records of instrumented launches, for any sources, modes,   *)
(* grid, capacity and values.  The heart is BufferHolds: while the instances    *)
(* run, the words of every record are those its instance wrote, and the words   *)
(* of one that has not run are nobody's.  It rests on the layout (no two        *)
(* records share a word) and on what compilation makes of a source (Sound:      *)
(* ids are given once, plans are typed, entries lie apart), and what the host   *)
(* decodes at the end follows from it.                                          *)
EXTENDS DebugRecords, TLAPS, FiniteSetTheorems, NaturalsInduction, WellFoundedInduction

\* A set of numbers that is not empty has a smallest one.
LEMMA SmallestIn ==
  ASSUME NEW S \in SUBSET Nat, S # {}
  PROVE  \E x \in S : \A y \in S : x <= y
<1> DEFINE Less == {p \in Nat \X Nat : p[1] < p[2]}
<1>1. IsWellFoundedOn(Less, Nat)
  BY NatLessThanWellFounded, Zenon DEF OpToRel
<1>2. PICK x \in S : \A y \in S : <<y, x>> \notin Less
  <2> HIDE DEF Less
  <2> QED
    BY <1>1, WFMin
<1>3. ASSUME NEW y \in S
      PROVE  x <= y
  <2>1. <<y, x>> \notin {p \in Nat \X Nat : p[1] < p[2]} /\ x \in Nat /\ y \in Nat
    BY <1>2
  <2>2. ~(y < x)
    BY <2>1
  <2> QED
    BY <2>1, <2>2
<1> QED
  BY <1>3

\* Induction up to n, over a set of numbers.
LEMMA UpTo ==
  ASSUME NEW n \in Nat, NEW P, 0 \in P,
         \A k \in 1 .. n : k - 1 \in P => k \in P
  PROVE  0 .. n \subseteq P
<1> SUFFICES ASSUME (0 .. n) \ P # {} PROVE FALSE
  OBVIOUS
<1> DEFINE Bad == (0 .. n) \ P
<1>1a. Bad \in SUBSET Nat /\ Bad # {}
  OBVIOUS
<1>1. PICK m \in Bad : \A j \in Bad : m <= j
  <2> HIDE DEF Bad
  <2> QED
    BY <1>1a, SmallestIn
<1>2. m \in 1 .. n /\ m - 1 \in 0 .. n /\ m - 1 \notin (0 .. n) \ P
  BY <1>1
<1> QED
  BY <1>1, <1>2

\* A function on 0 .. n is defined by its first value and how the next one follows.
Recurs(g, n, base, Step) ==
  g = [k \in 0 .. n |-> IF k = 0 THEN base ELSE Step[<<g[k - 1], k>>]]
\* There is such a function, and its values are where base and steps are.
LEMMA Recursion ==
  ASSUME NEW n \in Nat, NEW V, NEW base \in V, NEW Step \in [V \X (1 .. n) -> V]
  PROVE  \E g \in [0 .. n -> V] : Recurs(g, n, base, Step)
<1> DEFINE Solves(g, m) ==
      g = [k \in 0 .. m |-> IF k = 0 THEN base ELSE Step[<<g[k - 1], k>>]]
<1> DEFINE P == {m \in 0 .. n : \E g \in [0 .. m -> V] : Solves(g, m)}
<1>1. 0 \in P
  <2> DEFINE g == [k \in 0 .. 0 |-> base]
  <2>1. g \in [0 .. 0 -> V] /\ Solves(g, 0)
    OBVIOUS
  <2>2. \E f \in [0 .. 0 -> V] : Solves(f, 0)
    <3> HIDE DEF g, Solves
    <3> QED
      BY <2>1
  <2> QED
    BY <2>2
<1>2. ASSUME NEW m \in 1 .. n, m - 1 \in P
      PROVE  m \in P
  <2>1. PICK g \in [0 .. m - 1 -> V] : Solves(g, m - 1)
    BY <1>2
  <2> DEFINE h == [k \in 0 .. m |-> IF k = m THEN Step[<<g[m - 1], m>>] ELSE g[k]]
  <2>2. m - 1 \in 0 .. m - 1 /\ g[m - 1] \in V /\ Step[<<g[m - 1], m>>] \in V
    OBVIOUS
  <2>3. h \in [0 .. m -> V]
    BY <2>2
  <2>4. \A k \in 0 .. m : h[k] = IF k = 0 THEN base ELSE Step[<<h[k - 1], k>>]
    <3> TAKE k \in 0 .. m
    <3>1. CASE k = m
      BY <3>1, <2>2
    <3>2. CASE k # m
      <4>1. k \in 0 .. m - 1 /\ (k # 0 => k - 1 \in 0 .. m - 1)
        BY <3>2
      <4>2. g[k] = IF k = 0 THEN base ELSE Step[<<g[k - 1], k>>]
        BY <4>1, <2>1
      <4>3. h[k] = g[k] /\ (k # 0 => h[k - 1] = g[k - 1])
        BY <4>1, <3>2
      <4> HIDE DEF h
      <4> QED
        BY <4>2, <4>3
    <3> QED
      BY <3>1, <3>2
  <2>5. Solves(h, m)
    <3> HIDE DEF h
    <3> QED
      BY <2>3, <2>4
  <2>6. \E f \in [0 .. m -> V] : Solves(f, m)
    <3> HIDE DEF h, Solves
    <3> QED
      BY <2>3, <2>5
  <2>7. m \in 0 .. n
    OBVIOUS
  <2> HIDE DEF Solves
  <2> QED
    BY <2>6, <2>7
<1>3. n \in P
  <2> HIDE DEF P
  <2>1. \A k \in 1 .. n : k - 1 \in P => k \in P
    BY <1>2
  <2>2. 0 .. n \subseteq P
    BY <1>1, <2>1, UpTo
  <2> QED
    BY <2>2
<1> QED
  BY <1>3 DEF Recurs


-----------------------------------------------------------------------------
(* The layout of the device buffer, for every grid, plan and capacity: the      *)
(* decoder inverts what the device writes by, no two instances write to one     *)
(* slot or to one payload byte, and the header the host completes reports an    *)
(* overflow exactly when a record is lost.                                      *)

\* Multiplying by a natural number keeps the order.
LEMMA TimesOrder ==
  ASSUME NEW a \in Nat, NEW b \in Nat, NEW n \in Nat, a <= b
  PROVE  a * n <= b * n
  BY Z3

\* Division with remainder has one answer.
LEMMA DivisionUnique ==
  ASSUME NEW n \in Nat \ {0}, NEW i \in Nat, NEW k \in 0 .. n - 1
  PROVE  (i * n + k) \div n = i /\ (i * n + k) % n = k
<1> DEFINE x == i * n + k
           q == x \div n
           r == x % n
<1>1. x \in Nat
  OBVIOUS
<1>2. q \in Nat /\ r \in 0 .. n - 1 /\ x = q * n + r
  BY <1>1, Z3
<1>3. CASE i < q
  <2>1. i + 1 \in Nat /\ i + 1 <= q /\ (i + 1) * n = i * n + n
    BY <1>2, <1>3, Z3
  <2>2. (i + 1) * n <= q * n
    BY <1>2, <2>1, TimesOrder
  <2> QED
    BY <1>2, <2>1, <2>2
<1>4. CASE q < i
  <2>1. q + 1 \in Nat /\ q + 1 <= i /\ (q + 1) * n = q * n + n
    BY <1>2, <1>4, Z3
  <2>2. (q + 1) * n <= i * n
    BY <1>2, <2>1, TimesOrder
  <2> QED
    BY <1>2, <2>1, <2>2
<1>5. CASE i = q
  BY <1>2, <1>5
<1> QED
  BY <1>2, <1>3, <1>4, <1>5

-----------------------------------------------------------------------------
(* The record slots.                                                        *)

\* What the decoder makes of a slot (decodeRecord's slot / recordsPerInstance and
\* slot % recordsPerInstance) is the instance and the record it was written by.
THEOREM DecodingInverts ==
  ASSUME NEW n \in Nat \ {0}, NEW i \in Nat, NEW k \in 0 .. n - 1
  PROVE  /\ InstanceOf(SlotOf(i, n, k), n) = i
         /\ RecordOf(SlotOf(i, n, k), n) = k
  BY DivisionUnique DEF InstanceOf, RecordOf, SlotOf

\* No two records of a launch, of one instance or of two, share a slot.
THEOREM SlotsAreApart ==
  ASSUME NEW n \in Nat \ {0}, NEW i \in Nat, NEW j \in Nat,
         NEW k \in 0 .. n - 1, NEW l \in 0 .. n - 1,
         SlotOf(i, n, k) = SlotOf(j, n, l)
  PROVE  i = j /\ k = l
<1>1. InstanceOf(SlotOf(i, n, k), n) = i /\ RecordOf(SlotOf(i, n, k), n) = k
  BY DecodingInverts
<1>2. InstanceOf(SlotOf(j, n, l), n) = j /\ RecordOf(SlotOf(j, n, l), n) = l
  BY DecodingInverts
<1> QED
  BY <1>1, <1>2

\* The slots of a grid are exactly those below grid * n: the decoder that reads that
\* many reads every record and no slot that is nobody's.
THEOREM SlotsFillTheGrid ==
  ASSUME NEW n \in Nat \ {0}, NEW grid \in Nat, NEW s \in Nat
  PROVE  s < grid * n
           <=> \E i \in 0 .. grid - 1, k \in 0 .. n - 1 : s = SlotOf(i, n, k)
<1>1. ASSUME NEW i \in 0 .. grid - 1, NEW k \in 0 .. n - 1, s = SlotOf(i, n, k)
      PROVE  s < grid * n
  <2>1. i + 1 \in Nat /\ i + 1 <= grid /\ (i + 1) * n = i * n + n
    BY Z3
  <2>2. (i + 1) * n <= grid * n
    BY <2>1, TimesOrder
  <2>3. i * n \in Nat /\ grid * n \in Nat
    BY Z3
  <2> QED
    BY <1>1, <2>1, <2>2, <2>3 DEF SlotOf
<1>2. ASSUME s < grid * n
      PROVE  \E i \in 0 .. grid - 1, k \in 0 .. n - 1 : s = SlotOf(i, n, k)
  <2> DEFINE q == s \div n
             r == s % n
  <2>1. q \in Nat /\ r \in 0 .. n - 1 /\ s = q * n + r
    BY Z3
  <2>2. q < grid
    <3>1. CASE grid <= q
      <4>1. grid * n <= q * n
        BY <2>1, <3>1, TimesOrder
      <4>2. grid * n \in Nat /\ q * n \in Nat
        BY <2>1, Z3
      <4> QED
        BY <1>2, <2>1, <4>1, <4>2
    <3> QED
      BY <2>1, <3>1
  <2>3. q \in 0 .. grid - 1
    BY <2>1, <2>2
  <2> QED
    BY <2>1, <2>3 DEF SlotOf
<1> QED
  BY <1>1, <1>2

-----------------------------------------------------------------------------
(* The header the host completes.                                           *)

\* A buffer that reports no overflow holds every record of its launch, and one that
\* reports an overflow is short of exactly that many slots.
THEOREM OverflowIsHonest ==
  ASSUME NEW n \in Nat \ {0}, NEW grid \in Nat, NEW slots \in Nat
  PROVE  LET h == HeaderOf(slots, grid, TRUE, n) IN
         /\ h.overflow \in Nat
         /\ h.overflow = 0 => \A i \in 0 .. grid - 1, k \in 0 .. n - 1 :
                                SlotOf(i, n, k) < slots
         /\ h.overflow # 0 => slots + h.overflow = grid * n
<1> DEFINE h == HeaderOf(slots, grid, TRUE, n)
<1>1. grid * n \in Nat
  BY Z3
<1>2. h.overflow = IF grid * n > slots THEN grid * n - slots ELSE 0
  BY DEF HeaderOf
<1>3. ASSUME h.overflow = 0, NEW i \in 0 .. grid - 1, NEW k \in 0 .. n - 1
      PROVE  SlotOf(i, n, k) < slots
  <2>1. grid * n <= slots
    <3> DEFINE total == grid * n
    <3> HIDE DEF h, total
    <3>1. total \in Nat /\ h.overflow = IF total > slots THEN total - slots ELSE 0
      BY <1>1, <1>2 DEF total
    <3>2. total <= slots
      BY <1>3, <3>1
    <3> QED
      BY <3>2 DEF total
  <2>2. SlotOf(i, n, k) \in Nat
    <3>1. i \in Nat /\ k \in Nat /\ i * n \in Nat
      OBVIOUS
    <3> QED
      BY <3>1 DEF SlotOf
  <2>3. SlotOf(i, n, k) < grid * n
    BY <2>2, SlotsFillTheGrid
  <2> QED
    BY <1>1, <2>1, <2>2, <2>3
<1> HIDE DEF h
<1>4. h.overflow \in Nat /\ (h.overflow # 0 => slots + h.overflow = grid * n)
  BY <1>1, <1>2
<1> QED
  BY <1>3, <1>4 DEF h

-----------------------------------------------------------------------------
(* The payload.                                                             *)

\* Rounding up to a multiple of a width gives the next one.
LEMMA RoundUpNext ==
  ASSUME NEW a \in Nat \ {0}, NEW x \in Nat
  PROVE  /\ RoundUp(x, a) \in Nat
         /\ RoundUp(x, a) % a = 0
         /\ x <= RoundUp(x, a) /\ RoundUp(x, a) < x + a
<1> DEFINE q == (x + a - 1) \div a
           r == (x + a - 1) % a
<1>1. x + a - 1 \in Nat
  OBVIOUS
<1>2. q \in Nat /\ r \in 0 .. a - 1 /\ x + a - 1 = q * a + r /\ q * a \in Nat
  BY <1>1, Z3
<1>3. RoundUp(x, a) = q * a
  BY DEF RoundUp
<1>4. RoundUp(x, a) % a = 0
  <2>1. 0 \in 0 .. a - 1
    OBVIOUS
  <2>2. (q * a + 0) % a = 0
    BY <1>2, <2>1, DivisionUnique
  <2> HIDE DEF q
  <2>3. q * a + 0 = q * a
    BY <1>2
  <2> QED
    BY <1>3, <2>2, <2>3
<1>5. q * a \in Nat /\ x <= q * a /\ q * a < x + a
  <2> DEFINE m == q * a
  <2>1. m \in Nat /\ r \in 0 .. a - 1 /\ x + a - 1 = m + r
    BY <1>2
  <2> HIDE DEF m, r, q
  <2>2. x <= m /\ m < x + a
    BY <2>1
  <2> QED
    BY <2>1, <2>2 DEF m
<1> QED
  BY <1>3, <1>4, <1>5

\* The payloads two instances dump never overlap, whichever entries they are of.
THEOREM PayloadsAreApart ==
  ASSUME NEW slots \in Nat, NEW region \in Nat, NEW i \in Nat, NEW j \in Nat,
         NEW offset \in Nat, NEW length \in Nat, NEW other \in Nat,
         offset + length <= region, i < j
  PROVE  PayloadAt(slots, i, region, offset) + length
           <= PayloadAt(slots, j, region, other)
<1>1. i + 1 \in Nat /\ i + 1 <= j /\ (i + 1) * region = i * region + region
  BY Z3
<1>2. (i + 1) * region <= j * region
  BY <1>1, TimesOrder
<1>3. i * region \in Nat /\ j * region \in Nat /\ RecordArea(slots) \in Nat
  BY DEF RecordArea, HeaderBytes, RecordBytes
<1> QED
  BY <1>1, <1>2, <1>3 DEF PayloadAt

\* A dumped element of eight bytes is stored at a multiple of eight in every
\* instance, since the regions are as long as a multiple of the widest element: only
\* then Enflame, which addresses elements, and the host, which counts bytes, agree.
THEOREM WideEntriesAreAligned ==
  ASSUME NEW slots \in Nat, NEW i \in Nat, NEW region \in Nat, NEW offset \in Nat,
         region % 8 = 0, offset % 8 = 0
  PROVE  PayloadAt(slots, i, region, offset) % 8 = 0
<1> DEFINE a == region \div 8
           b == offset \div 8
<1>1. a \in Nat /\ b \in Nat /\ region = a * 8 /\ offset = b * 8
  BY Z3
<1>2. i * region = (i * a) * 8 /\ i * a \in Nat
  BY <1>1, Z3
<1> HIDE DEF a, b
<1>3. PayloadAt(slots, i, region, offset) = (4 + slots * 8 + i * a + b) * 8 + 0
  BY <1>1, <1>2 DEF PayloadAt, RecordArea, HeaderBytes, RecordBytes
<1>4. 4 + slots * 8 + i * a + b \in Nat
  BY <1>1, <1>2
<1> QED
  BY <1>3, <1>4, DivisionUnique

\* What the buffer holds when something is stored over it.
LEMMA StoredHolds ==
  ASSUME NEW old, NEW new
  PROVE  /\ DOMAIN Stored(old, new) = DOMAIN new \cup DOMAIN old
         /\ \A w \in DOMAIN new \cup DOMAIN old :
              Stored(old, new)[w] = IF w \in DOMAIN new THEN new[w] ELSE old[w]
  BY DEF Stored

\* Pieces are stored one after another, those of W.
Chained(u, n, base, W, T) ==
  u = [k \in 0 .. n |->
         IF k = 0 THEN base ELSE IF k \in W THEN Stored(u[k - 1], T[k]) ELSE u[k - 1]]

\* The pieces can be stored.
LEMMA ChainExists ==
  ASSUME NEW n \in Nat, NEW base, NEW W, NEW T
  PROVE  \E u : Chained(u, n, base, W, T)
<1> DEFINE P == {m \in 0 .. n : \E u : Chained(u, m, base, W, T)}
<1>1. 0 \in P
  <2> DEFINE u == [k \in 0 .. 0 |-> base]
  <2>1. Chained(u, 0, base, W, T)
    BY DEF Chained
  <2>2. \E v : Chained(v, 0, base, W, T)
    <3> HIDE DEF u
    <3> QED
      BY <2>1
  <2> QED
    BY <2>2
<1>2. ASSUME NEW m \in 1 .. n, m - 1 \in P
      PROVE  m \in P
  <2>1. PICK u : Chained(u, m - 1, base, W, T)
    BY <1>2
  <2> DEFINE last == IF m \in W THEN Stored(u[m - 1], T[m]) ELSE u[m - 1]
             v == [k \in 0 .. m |-> IF k = m THEN last ELSE u[k]]
             step(f, k) == IF k = 0 THEN base
                           ELSE IF k \in W THEN Stored(f[k - 1], T[k]) ELSE f[k - 1]
  <2>2. \A k \in 0 .. m : v[k] = step(v, k)
    <3> TAKE k \in 0 .. m
    <3>1. CASE k = m
      <4>1. m # 0 /\ m - 1 \in 0 .. m /\ v[m - 1] = u[m - 1] /\ v[m] = last
        OBVIOUS
      <4> HIDE DEF v
      <4> QED
        BY <3>1, <4>1
    <3>2. CASE k # m
      <4>1. k \in 0 .. m - 1 /\ (k # 0 => k - 1 \in 0 .. m - 1)
        BY <3>2
      <4>2. u[k] = step(u, k)
        BY <2>1, <4>1 DEF Chained
      <4>3. v[k] = u[k] /\ (k # 0 => v[k - 1] = u[k - 1])
        BY <4>1, <3>2
      <4> HIDE DEF v
      <4> QED
        BY <4>2, <4>3
    <3> QED
      BY <3>1, <3>2
  <2>3. v = [k \in 0 .. m |-> step(v, k)]
    <3>1. v = [k \in 0 .. m |-> v[k]]
      OBVIOUS
    <3> HIDE DEF v, step
    <3> QED
      BY <2>2, <3>1
  <2>4. Chained(v, m, base, W, T)
    <3> HIDE DEF v
    <3> QED
      BY <2>3 DEF Chained
  <2>5. \E f : Chained(f, m, base, W, T)
    <3> HIDE DEF v
    <3> QED
      BY <2>4
  <2>6. m \in 0 .. n
    OBVIOUS
  <2> QED
    BY <2>5, <2>6
<1>3. n \in P
  <2> HIDE DEF P
  <2>1. \A k \in 1 .. n : k - 1 \in P => k \in P
    BY <1>2
  <2>2. 0 .. n \subseteq P
    BY <1>1, <2>1, UpTo
  <2> QED
    BY <2>2
<1> QED
  BY <1>3

\* Of pieces that do not overlap, each is found as it was stored, and the rest of the
\* buffer as it was.
Keeps(u, m, base, W, T) ==
  /\ \A k \in W \cap (1 .. m) : \A w \in DOMAIN T[k] : w \in DOMAIN u[m] /\ u[m][w] = T[k][w]
  /\ \A w : (\A k \in W \cap (1 .. m) : w \notin DOMAIN T[k]) =>
              (w \in DOMAIN u[m] <=> w \in DOMAIN base) /\ (w \in DOMAIN base => u[m][w] = base[w])
\* Pieces that are apart are all there at the end, whatever the order.
LEMMA ChainKeeps ==
  ASSUME NEW n \in Nat, NEW base, NEW W, NEW T, NEW u, Chained(u, n, base, W, T),
         \A j, k \in W \cap (1 .. n) : j # k => DOMAIN T[j] \cap DOMAIN T[k] = {}
  PROVE  Keeps(u, n, base, W, T)
<1> DEFINE P == {m \in 0 .. n : Keeps(u, m, base, W, T)}
<1>0. /\ u[0] = base
      /\ \A m \in 1 .. n : u[m] = IF m \in W THEN Stored(u[m - 1], T[m]) ELSE u[m - 1]
  BY DEF Chained
<1>1. 0 \in P
  BY <1>0 DEF Keeps
<1>2. ASSUME NEW m \in 1 .. n, m - 1 \in P
      PROVE  m \in P
  <2>1. Keeps(u, m - 1, base, W, T)
    BY <1>2
  <2>2. W \cap (1 .. m) = (W \cap (1 .. m - 1)) \cup (W \cap {m})
    OBVIOUS
  <2>3. CASE m \notin W
    <3>1. u[m] = u[m - 1] /\ W \cap (1 .. m) = W \cap (1 .. m - 1)
      BY <1>0, <2>2, <2>3
    <3>2. Keeps(u, m, base, W, T)
      BY <2>1, <3>1 DEF Keeps
    <3> QED
      BY <3>2
  <2>4. CASE m \in W
    <3>1. u[m] = Stored(u[m - 1], T[m])
      BY <1>0, <2>4
    <3>2. DOMAIN u[m] = DOMAIN T[m] \cup DOMAIN u[m - 1]
      BY <3>1 DEF Stored
    <3>3. \A w \in DOMAIN T[m] \cup DOMAIN u[m - 1] :
            u[m][w] = IF w \in DOMAIN T[m] THEN T[m][w] ELSE u[m - 1][w]
      BY <3>1 DEF Stored
    <3>4. ASSUME NEW k \in W \cap (1 .. m), NEW w \in DOMAIN T[k]
          PROVE  w \in DOMAIN u[m] /\ u[m][w] = T[k][w]
      <4>1. CASE k = m
        BY <3>2, <3>3, <4>1
      <4>2. CASE k # m
        <5>1. k \in W \cap (1 .. m - 1)
          BY <4>2
        <5>2. w \in DOMAIN u[m - 1] /\ u[m - 1][w] = T[k][w]
          BY <2>1, <5>1 DEF Keeps
        <5>3. w \notin DOMAIN T[m]
          <6>1. m \in W \cap (1 .. n) /\ k \in W \cap (1 .. n)
            BY <2>4
          <6> QED
            BY <4>2, <6>1
        <5> QED
          BY <3>2, <3>3, <5>2, <5>3
      <4> QED
        BY <4>1, <4>2
    <3>5. ASSUME NEW w, \A k \in W \cap (1 .. m) : w \notin DOMAIN T[k]
          PROVE  /\ w \in DOMAIN u[m] <=> w \in DOMAIN base
                 /\ w \in DOMAIN base => u[m][w] = base[w]
      <4>1. m \in W \cap (1 .. m) /\ W \cap (1 .. m - 1) \subseteq W \cap (1 .. m)
        BY <2>4
      <4>2. w \notin DOMAIN T[m] /\ \A k \in W \cap (1 .. m - 1) : w \notin DOMAIN T[k]
        BY <3>5, <4>1
      <4>3. /\ w \in DOMAIN u[m - 1] <=> w \in DOMAIN base
            /\ w \in DOMAIN base => u[m - 1][w] = base[w]
        BY <2>1, <4>2 DEF Keeps
      <4> QED
        BY <3>2, <3>3, <4>2, <4>3
    <3>6. Keeps(u, m, base, W, T)
      BY <3>4, <3>5 DEF Keeps
    <3> QED
      BY <3>6
  <2> QED
    BY <2>3, <2>4
<1>3. n \in P
  <2> HIDE DEF P
  <2>1. \A k \in 1 .. n : k - 1 \in P => k \in P
    BY <1>2
  <2>2. 0 .. n \subseteq P
    BY <1>1, <2>1, UpTo
  <2> QED
    BY <2>2
<1> QED
  BY <1>3

\* A value is read as it was written, from one word or from two.
LEMMA WordsGive ==
  ASSUME NEW v
  PROVE  /\ ValueOf([n \in 1 .. 1 |-> WordsOf(v, 4)[n]]) = v
         /\ ValueOf([n \in 1 .. 2 |-> WordsOf(v, 8)[n]]) = v
<1>1. /\ Len([n \in 1 .. 1 |-> WordsOf(v, 4)[n]]) = 1
      /\ Len([n \in 1 .. 2 |-> WordsOf(v, 8)[n]]) = 2
  OBVIOUS
<1>2. CASE v = 0
  <2>1. WordsOf(v, 4)[1] = ZeroWord /\ WordsOf(v, 8)[1] = ZeroWord /\ WordsOf(v, 8)[2] = ZeroWord
    BY <1>2 DEF WordsOf, HalfOf
  <2>2. \A n \in DOMAIN [n \in 1 .. 1 |-> WordsOf(v, 4)[n]] :
          [n1 \in 1 .. 1 |-> WordsOf(v, 4)[n1]][n] = ZeroWord
    BY <2>1
  <2>3. \A n \in DOMAIN [n \in 1 .. 2 |-> WordsOf(v, 8)[n]] :
          [n1 \in 1 .. 2 |-> WordsOf(v, 8)[n1]][n] = ZeroWord
    BY <2>1
  <2> DEFINE a == [n \in 1 .. 1 |-> WordsOf(v, 4)[n]]
             b == [n \in 1 .. 2 |-> WordsOf(v, 8)[n]]
  <2>4. (\A n \in DOMAIN a : a[n] = ZeroWord) /\ (\A n \in DOMAIN b : b[n] = ZeroWord)
    BY <2>2, <2>3
  <2>5. a[1] = ZeroWord /\ b[1] = ZeroWord
    BY <2>1
  <2>6. Len(a) = 1 /\ Len(b) = 2
    BY <1>1
  <2> HIDE DEF a, b
  <2>7. a[1] = <<0, 0>> /\ b[1] = <<0, 0>>
    BY <2>5 DEF ZeroWord
  <2>8. ValueOf(a) = 0
    BY <2>4, <2>6, <2>7 DEF ValueOf
  <2>9. ValueOf(b) = 0
    BY <2>4, <2>6, <2>7 DEF ValueOf
  <2> QED
    BY <1>2, <2>8, <2>9 DEF a, b
<1>3. CASE v # 0
  <2>1. WordsOf(v, 4)[1] = <<v, 0>> /\ WordsOf(v, 8)[1] = <<v, 1>> /\ WordsOf(v, 8)[2] = <<v, 2>>
    BY <1>3 DEF WordsOf, HalfOf
  <2> DEFINE a == [n \in 1 .. 1 |-> WordsOf(v, 4)[n]]
             b == [n \in 1 .. 2 |-> WordsOf(v, 8)[n]]
  <2>2. a[1] = <<v, 0>> /\ b[1] = <<v, 1>> /\ b[2] = <<v, 2>> /\ DOMAIN a = 1 .. 1 /\ DOMAIN b = 1 .. 2
    BY <2>1
  <2>3. Len(a) = 1 /\ Len(b) = 2
    BY <1>1
  <2> HIDE DEF a, b
  <2>4. a[1] # ZeroWord /\ b[1] # ZeroWord
    BY <1>3, <2>2 DEF ZeroWord
  <2>5. ValueOf(a) = v
    BY <2>2, <2>3, <2>4 DEF ValueOf
  <2>6. ValueOf(b) = v
    BY <2>2, <2>3, <2>4 DEF ValueOf
  <2> QED
    BY <2>5, <2>6 DEF a, b
<1> QED
  BY <1>2, <1>3

\* Reading at word w of the buffer.
LEMMA LoadsBack ==
  ASSUME NEW bytes \in {4, 8}, NEW v, NEW w \in Nat,
         \A n \in 1 .. bytes \div 4 : w + n - 1 \in DOMAIN buffer
                                      /\ buffer[w + n - 1] = WordsOf(v, bytes)[n]
  PROVE  LoadValue(w, bytes) = v
<1>1. \A n \in 1 .. bytes \div 4 : Loaded(w + n - 1) = WordsOf(v, bytes)[n]
  BY DEF Loaded
<1>2. [n \in 1 .. bytes \div 4 |-> Loaded(w + n - 1)]
        = [n \in 1 .. bytes \div 4 |-> WordsOf(v, bytes)[n]]
  BY <1>1
<1>3. LoadValue(w, bytes) = ValueOf([n \in 1 .. bytes \div 4 |-> WordsOf(v, bytes)[n]])
  BY <1>2 DEF LoadValue
<1>4. 4 \div 4 = 1 /\ 8 \div 4 = 2
  OBVIOUS
<1>5. CASE bytes = 4
  BY <1>3, <1>4, <1>5, WordsGive
<1>6. CASE bytes = 8
  BY <1>3, <1>4, <1>6, WordsGive
<1> QED
  BY <1>5, <1>6
\* Words nobody wrote read as zero.
LEMMA LoadsZero ==
  ASSUME NEW bytes \in {4, 8}, NEW w \in Nat,
         \A n \in 1 .. bytes \div 4 : w + n - 1 \notin DOMAIN buffer
  PROVE  LoadValue(w, bytes) = 0
<1>1. \A n \in 1 .. bytes \div 4 : Loaded(w + n - 1) = ZeroWord
  BY DEF Loaded
<1> DEFINE a == [n \in 1 .. bytes \div 4 |-> Loaded(w + n - 1)]
<1>2. \A n \in DOMAIN a : a[n] = ZeroWord
  BY <1>1
<1>4. DOMAIN a = 1 .. bytes \div 4 /\ 1 \in DOMAIN a
  OBVIOUS
<1>5. a[1][2] = 0 /\ a[1] = <<0, 0>> /\ a[1][1] = 0
  BY <1>2, <1>4 DEF ZeroWord
<1>6. LoadValue(w, bytes) = ValueOf(a)
  BY DEF LoadValue
<1> HIDE DEF a
<1>7. ValueOf(a) = 0
  <2>1. Len(a) = 2 => a[1][2] # 1
    BY <1>5
  <2> QED
    BY <1>2, <1>5, <2>1 DEF ValueOf
<1> QED
  BY <1>6, <1>7

\* Words of values laid from a word on.
LaidFrom(first, bytes, v) ==
  \A n \in 1 .. Len(v), j \in 1 .. bytes \div 4 :
    LET w == first + (bytes \div 4) * (n - 1) + j - 1 IN
    w \in DOMAIN Laid(first, bytes, v) /\ Laid(first, bytes, v)[w] = WordsOf(v[n], bytes)[j]
\* A value laid out at a word takes the words of its bytes, in order.
LEMMA LaidWords ==
  ASSUME NEW first \in Nat, NEW bytes \in {4, 8}, NEW v, Len(v) \in Nat
  PROVE  LaidFrom(first, bytes, v)
<1> DEFINE wide == bytes \div 4
           L == Laid(first, bytes, v)
<1>1. wide \in {1, 2}
  OBVIOUS
<1>2. DOMAIN L = first .. first + wide * Len(v) - 1
  BY DEF Laid
<1>3. ASSUME NEW n \in 1 .. Len(v), NEW j \in 1 .. wide
      PROVE  LET w == first + wide * (n - 1) + j - 1 IN
             w \in DOMAIN L /\ L[w] = WordsOf(v[n], bytes)[j]
  <2> DEFINE w == first + wide * (n - 1) + j - 1
  <2>1. w \in first .. first + wide * Len(v) - 1 /\ (w - first) \div wide = n - 1 /\ (w - first) % wide = j - 1
    <3> HIDE DEF wide
    <3>1. CASE wide = 1
      BY <3>1
    <3>2. CASE wide = 2
      BY <3>2
    <3> QED
      BY <1>1, <3>1, <3>2
  <2>2. w \in DOMAIN L
    BY <1>2, <2>1
  <2>3. L[w] = WordsOf(v[((w - first) \div wide) + 1], bytes)[((w - first) % wide) + 1]
    BY <2>1 DEF Laid
  <2>4. n - 1 + 1 = n /\ j - 1 + 1 = j
    OBVIOUS
  <2> QED
    BY <2>1, <2>2, <2>3, <2>4
<1> QED
  BY <1>3 DEF LaidFrom

\* The words of a slot: 64 bytes behind the header.
SlotWords(s) == 8 + 16 * s .. 23 + 16 * s

\* The fields of a record follow each other behind its head.
Following(F) ==
  /\ Len(F) \in 1 .. 4 /\ DOMAIN F = 1 .. Len(F)
  /\ \A n \in 1 .. Len(F) :
       F[n].bytes \in {4, 8} /\ F[n].offset \in {16, 20, 24, 28, 32, 40}
       /\ F[n].offset + F[n].bytes <= 64
  /\ \A m, n \in 1 .. Len(F) : m < n => F[m].offset + F[m].bytes <= F[n].offset
\* That is so for every kind of record.
LEMMA FieldsFollow ==
  ASSUME NEW kind
  PROVE  Following(StoredFields(kind))
<1>0. \A x, b : Field(x, b).offset = x /\ Field(x, b).bytes = b
  BY DEF Field
<1>1. ASSUME NEW F, F = <<Field(16, 8), Field(24, 8), Field(32, 8), Field(40, 8)>>
      PROVE  Following(F)
  <2>1. Len(F) = 4 /\ DOMAIN F = 1 .. 4
    BY <1>1
  <2>2. F[1] = Field(16, 8) /\ F[2] = Field(24, 8) /\ F[3] = Field(32, 8) /\ F[4] = Field(40, 8)
    BY <1>1
  <2>3. /\ F[1].offset = 16 /\ F[1].bytes = 8
        /\ F[2].offset = 24 /\ F[2].bytes = 8
        /\ F[3].offset = 32 /\ F[3].bytes = 8
        /\ F[4].offset = 40 /\ F[4].bytes = 8
    BY <1>0, <2>2
  <2>4. \A n \in 1 .. 4 : n = 1 \/ n = 2 \/ n = 3 \/ n = 4
    OBVIOUS
  <2> QED
    BY <2>1, <2>3, <2>4 DEF Following
<1>2. ASSUME NEW F, F = <<Field(16, 4), Field(20, 4), Field(24, 4), Field(28, 4)>>
      PROVE  Following(F)
  <2>1. Len(F) = 4 /\ DOMAIN F = 1 .. 4
    BY <1>2
  <2>2. F[1] = Field(16, 4) /\ F[2] = Field(20, 4) /\ F[3] = Field(24, 4) /\ F[4] = Field(28, 4)
    BY <1>2
  <2>3. /\ F[1].offset = 16 /\ F[1].bytes = 4
        /\ F[2].offset = 20 /\ F[2].bytes = 4
        /\ F[3].offset = 24 /\ F[3].bytes = 4
        /\ F[4].offset = 28 /\ F[4].bytes = 4
    BY <1>0, <2>2
  <2>4. \A n \in 1 .. 4 : n = 1 \/ n = 2 \/ n = 3 \/ n = 4
    OBVIOUS
  <2> QED
    BY <2>1, <2>3, <2>4 DEF Following
<1>3. ASSUME NEW F, F = <<Field(24, 8)>>
      PROVE  Following(F)
  <2>1. Len(F) = 1 /\ DOMAIN F = 1 .. 1
    BY <1>3
  <2>2. F[1] = Field(24, 8)
    BY <1>3
  <2>3. /\ F[1].offset = 24 /\ F[1].bytes = 8
    BY <1>0, <2>2
  <2>4. \A n \in 1 .. 1 : n = 1
    OBVIOUS
  <2> QED
    BY <2>1, <2>3, <2>4 DEF Following
<1>4. ASSUME NEW F, F = <<Field(16, 8), Field(24, 8), Field(32, 8)>>
      PROVE  Following(F)
  <2>1. Len(F) = 3 /\ DOMAIN F = 1 .. 3
    BY <1>4
  <2>2. F[1] = Field(16, 8) /\ F[2] = Field(24, 8) /\ F[3] = Field(32, 8)
    BY <1>4
  <2>3. /\ F[1].offset = 16 /\ F[1].bytes = 8
        /\ F[2].offset = 24 /\ F[2].bytes = 8
        /\ F[3].offset = 32 /\ F[3].bytes = 8
    BY <1>0, <2>2
  <2>4. \A n \in 1 .. 3 : n = 1 \/ n = 2 \/ n = 3
    OBVIOUS
  <2> QED
    BY <2>1, <2>3, <2>4 DEF Following
<1>5. ASSUME NEW F, F = <<Field(16, 4), Field(20, 4)>>
      PROVE  Following(F)
  <2>1. Len(F) = 2 /\ DOMAIN F = 1 .. 2
    BY <1>5
  <2>2. F[1] = Field(16, 4) /\ F[2] = Field(20, 4)
    BY <1>5
  <2>3. /\ F[1].offset = 16 /\ F[1].bytes = 4
        /\ F[2].offset = 20 /\ F[2].bytes = 4
    BY <1>0, <2>2
  <2>4. \A n \in 1 .. 2 : n = 1 \/ n = 2
    OBVIOUS
  <2> QED
    BY <2>1, <2>3, <2>4 DEF Following
<1>6. ASSUME NEW F, F = <<Field(16, 8), Field(28, 4)>>
      PROVE  Following(F)
  <2>1. Len(F) = 2 /\ DOMAIN F = 1 .. 2
    BY <1>6
  <2>2. F[1] = Field(16, 8) /\ F[2] = Field(28, 4)
    BY <1>6
  <2>3. /\ F[1].offset = 16 /\ F[1].bytes = 8
        /\ F[2].offset = 28 /\ F[2].bytes = 4
    BY <1>0, <2>2
  <2>4. \A n \in 1 .. 2 : n = 1 \/ n = 2
    OBVIOUS
  <2> QED
    BY <2>1, <2>3, <2>4 DEF Following
<1> QED
  BY <1>1, <1>2, <1>3, <1>4, <1>5, <1>6 DEF StoredFields

\* The words of a field.
LEMMA FieldInSlot ==
  ASSUME NEW s \in Nat, NEW f, NEW o \in {16, 20, 24, 28, 32, 40}, f.offset = o
  PROVE  FieldWord(s, f) = 8 + 16 * s + o \div 4 /\ FieldWord(s, f) \in Nat
<1>1. PICK q \in {4, 5, 6, 7, 8, 10} : o = 4 * q /\ o \div 4 = q
  BY SMT
<1>2. (32 + s * 64 + 4 * q) \div 4 = 8 + 16 * s + q
  BY <1>1, SMT
<1> QED
  BY <1>1, <1>2 DEF FieldWord, HeaderBytes, RecordBytes

\* The words of a record: within its slot, field by field.
LEMMA RecordWordsHold ==
  ASSUME NEW s \in Nat, NEW kind, NEW data
  PROVE  /\ DOMAIN RecordWords(s, kind, data) \subseteq SlotWords(s)
         /\ \A n \in 1 .. Len(StoredFields(kind)) :
            \A j \in 1 .. StoredFields(kind)[n].bytes \div 4 :
              LET w == FieldWord(s, StoredFields(kind)[n]) + j - 1 IN
              /\ w \in DOMAIN RecordWords(s, kind, data)
              /\ RecordWords(s, kind, data)[w] = WordsOf(data[n], StoredFields(kind)[n].bytes)[j]
<1> DEFINE F == StoredFields(kind)
           L == Len(F)
           piece(n) == Laid(FieldWord(s, F[n]), F[n].bytes, <<data[n]>>)
           T == [n \in 1 .. L |-> piece(n)]
           upTo[n \in 0 .. L] == IF n = 0 THEN <<>> ELSE Stored(upTo[n - 1], piece(n))
<1>1. RecordWords(s, kind, data) = upTo[L]
  BY DEF RecordWords
<1>2. /\ L \in 1 .. 4
      /\ \A n \in 1 .. L : F[n].bytes \in {4, 8} /\ F[n].offset \in {16, 20, 24, 28, 32, 40}
                                   /\ F[n].offset + F[n].bytes <= 64
      /\ \A m, n \in 1 .. L : m < n => F[m].offset + F[m].bytes <= F[n].offset
  BY FieldsFollow DEF Following
<1>3. upTo = [n \in 0 .. L |-> IF n = 0 THEN <<>> ELSE Stored(upTo[n - 1], piece(n))]
  <2>1. PICK u : Chained(u, L, <<>>, 1 .. L, T)
    <3>1. L \in Nat
      BY <1>2
    <3> HIDE DEF L, T
    <3> QED
      BY <3>1, ChainExists
  <2>2. u = [n \in 0 .. L |-> IF n = 0 THEN <<>>
                               ELSE IF n \in 1 .. L THEN Stored(u[n - 1], T[n]) ELSE u[n - 1]]
    BY <2>1 DEF Chained
  <2> HIDE DEF F
  <2>3. \A n \in 0 .. L : (IF n = 0 THEN <<>>
                               ELSE IF n \in 1 .. L THEN Stored(u[n - 1], T[n]) ELSE u[n - 1])
                          = IF n = 0 THEN <<>> ELSE Stored(u[n - 1], piece(n))
    BY <1>2
  <2>4. u = [n \in 0 .. L |-> IF n = 0 THEN <<>> ELSE Stored(u[n - 1], piece(n))]
    <3> HIDE DEF piece, T
    <3> QED
      BY <2>2, <2>3
  <2> QED
    BY <2>4
<1> HIDE DEF upTo
<1>4. Chained(upTo, L, <<>>, 1 .. L, T)
  <2> HIDE DEF F
  <2>1. \A n \in 0 .. L : (IF n = 0 THEN <<>>
                               ELSE IF n \in 1 .. L THEN Stored(upTo[n - 1], T[n]) ELSE upTo[n - 1])
                          = IF n = 0 THEN <<>> ELSE Stored(upTo[n - 1], piece(n))
    BY <1>2
  <2> HIDE DEF piece, T
  <2>2. upTo = [n \in 0 .. L |-> IF n = 0 THEN <<>>
                               ELSE IF n \in 1 .. L THEN Stored(upTo[n - 1], T[n]) ELSE upTo[n - 1]]
    BY <1>3, <2>1
  <2> QED
    BY <2>2 DEF Chained
<1>5. ASSUME NEW n \in 1 .. L
      PROVE  /\ T[n] = piece(n) /\ FieldWord(s, F[n]) = 8 + 16 * s + F[n].offset \div 4
             /\ DOMAIN T[n] = FieldWord(s, F[n]) .. FieldWord(s, F[n]) + F[n].bytes \div 4 - 1
             /\ \A j \in 1 .. F[n].bytes \div 4 :
                  LET w == FieldWord(s, F[n]) + j - 1 IN
                  w \in DOMAIN T[n] /\ T[n][w] = WordsOf(data[n], F[n].bytes)[j]
  <2>1. FieldWord(s, F[n]) = 8 + 16 * s + F[n].offset \div 4 /\ FieldWord(s, F[n]) \in Nat
    <3> DEFINE o == F[n].offset
    <3>1. o \in {16, 20, 24, 28, 32, 40} /\ F[n].offset = o
      BY <1>2
    <3> HIDE DEF o, F
    <3>2. FieldWord(s, F[n]) = 8 + 16 * s + o \div 4 /\ FieldWord(s, F[n]) \in Nat
      BY <3>1, FieldInSlot
    <3> QED
      BY <3>2 DEF o
  <2> DEFINE one == <<data[n]>>
  <2>2. Len(one) = 1 /\ Len(one) \in Nat /\ one[1] = data[n]
    OBVIOUS
  <2> DEFINE first == FieldWord(s, F[n])
             bytes == F[n].bytes
  <2>0. first \in Nat /\ bytes \in {4, 8} /\ piece(n) = Laid(first, bytes, one)
    BY <1>2, <2>1
  <2>0a. first \in Nat /\ bytes \in {4, 8}
    BY <2>0
  <2>2a. Len(one) \in Nat
    BY <2>2
  <2> HIDE DEF one, F, first, bytes
  <2>3. T[n] = piece(n)
    OBVIOUS
  <2>4. DOMAIN Laid(first, bytes, one) = first .. first + (bytes \div 4) * Len(one) - 1
    BY DEF Laid
  <2>5. \A k \in 1 .. Len(one), j \in 1 .. bytes \div 4 :
              LET w == first + (bytes \div 4) * (k - 1) + j - 1 IN
              /\ w \in DOMAIN Laid(first, bytes, one)
              /\ Laid(first, bytes, one)[w] = WordsOf(one[k], bytes)[j]
    <3>1. LaidFrom(first, bytes, one)
      BY <2>0a, <2>2a, LaidWords
    <3> QED
      BY <3>1 DEF LaidFrom
  <2>6. (bytes \div 4) \in Nat /\ (bytes \div 4) * 1 = bytes \div 4 /\ (bytes \div 4) * (1 - 1) = 0
    BY <2>0
  <2>7. DOMAIN T[n] = first .. first + bytes \div 4 - 1
    BY <2>0, <2>2, <2>3, <2>4, <2>6
  <2>8. ASSUME NEW j \in 1 .. bytes \div 4
        PROVE  LET w == first + j - 1 IN w \in DOMAIN T[n] /\ T[n][w] = WordsOf(data[n], bytes)[j]
    <3>1. first + (bytes \div 4) * (1 - 1) + j - 1 = first + j - 1
      BY <2>0, <2>6
    <3>2. 1 \in 1 .. Len(one)
      BY <2>2
    <3> QED
      BY <2>0, <2>2, <2>3, <2>5, <3>1, <3>2
  <2> QED
    BY <2>1, <2>3, <2>7, <2>8 DEF first, bytes
<1>6. \A m, n \in (1 .. L) \cap (1 .. L) : m # n => DOMAIN T[m] \cap DOMAIN T[n] = {}
  <2> SUFFICES ASSUME NEW m \in 1 .. L, NEW n \in 1 .. L, m < n
               PROVE  DOMAIN T[m] \cap DOMAIN T[n] = {}
    <3> HIDE DEF T, F
    <3> QED
      BY <1>2
  <2> DEFINE a == F[m].offset
             b == F[m].bytes
             c == F[n].offset
  <2>0. a = F[m].offset /\ b = F[m].bytes /\ c = F[n].offset
    OBVIOUS
  <2>0a. /\ a \in {16, 20, 24, 28, 32, 40} /\ b \in {4, 8} /\ c \in {16, 20, 24, 28, 32, 40}
         /\ a + b <= c
    BY <1>2
  <2> HIDE DEF a, b, c
  <2>0b. a \div 4 + b \div 4 <= c \div 4 /\ a \div 4 \in Nat /\ b \div 4 \in Nat /\ c \div 4 \in Nat
    BY <2>0a
  <2>1. F[m].offset \div 4 + F[m].bytes \div 4 <= F[n].offset \div 4
    BY <2>0, <2>0b
  <2>2. F[m].offset \div 4 \in Nat /\ F[n].offset \div 4 \in Nat /\ F[m].bytes \div 4 \in Nat
    BY <2>0, <2>0b
  <2>3. /\ DOMAIN T[m] = FieldWord(s, F[m]) .. FieldWord(s, F[m]) + F[m].bytes \div 4 - 1
        /\ DOMAIN T[n] = FieldWord(s, F[n]) .. FieldWord(s, F[n]) + F[n].bytes \div 4 - 1
    BY <1>5
  <2>4. /\ FieldWord(s, F[m]) = 8 + 16 * s + F[m].offset \div 4
        /\ FieldWord(s, F[n]) = 8 + 16 * s + F[n].offset \div 4
    BY <1>5
  <2> HIDE DEF T, F
  <2>5. FieldWord(s, F[m]) + F[m].bytes \div 4 <= FieldWord(s, F[n])
    BY <2>1, <2>2, <2>4
  <2> QED
    BY <2>2, <2>3, <2>4, <2>5
<1>7. Keeps(upTo, L, <<>>, 1 .. L, T)
  <2> HIDE DEF T, F
  <2>1. L \in Nat
    BY <1>2
  <2> QED
    BY <1>4, <1>6, <2>1, ChainKeeps
<1>8. ASSUME NEW w \in DOMAIN upTo[L]
      PROVE  w \in SlotWords(s)
  <2>1. PICK n \in (1 .. L) \cap (1 .. L) : w \in DOMAIN T[n]
    <3>1. w \notin DOMAIN <<>>
      OBVIOUS
    <3> HIDE DEF T, F
    <3> QED
      BY <1>7, <1>8, <3>1 DEF Keeps
  <2>2. /\ w \in FieldWord(s, F[n]) .. FieldWord(s, F[n]) + F[n].bytes \div 4 - 1
        /\ FieldWord(s, F[n]) = 8 + 16 * s + F[n].offset \div 4
    BY <1>5, <2>1
  <2>3. F[n].offset \div 4 \in 4 .. 10 /\ F[n].bytes \div 4 \in 1 .. 2
        /\ F[n].offset \div 4 + F[n].bytes \div 4 <= 16
    BY <1>2
  <2> HIDE DEF T, F
  <2> QED
    BY <2>2, <2>3 DEF SlotWords
<1>9. ASSUME NEW n \in 1 .. L, NEW j \in 1 .. F[n].bytes \div 4
      PROVE  LET w == FieldWord(s, F[n]) + j - 1 IN
             w \in DOMAIN upTo[L] /\ upTo[L][w] = WordsOf(data[n], F[n].bytes)[j]
  <2> DEFINE w == FieldWord(s, F[n]) + j - 1
  <2>1. w \in DOMAIN T[n] /\ T[n][w] = WordsOf(data[n], F[n].bytes)[j]
    BY <1>5
  <2>2. n \in (1 .. L) \cap (1 .. L)
    OBVIOUS
  <2> HIDE DEF T, F, w
  <2>3. w \in DOMAIN upTo[L] /\ upTo[L][w] = T[n][w]
    BY <1>7, <2>1, <2>2 DEF Keeps
  <2> QED
    BY <2>1, <2>3 DEF w
<1> QED
  BY <1>1, <1>8, <1>9

-----------------------------------------------------------------------------
(* What is known of a compiled kernel: its operations, its plan and where   *)
(* the entries of its payload lie.                                          *)

\* The kernel's operations; an id stands for one value only, what an operation results
\* in or stores (operand 0) or an operand captured at it.
CapturedOperands == [id : Nat, dtype : Dtypes \ {"none", "ptr"}, lanes : DOMAIN Tensors]
\* Operations of a kernel: typed, with values where they have a type, and no id given
\* twice, to an operation or to an operand that is captured for one.
KernelOperations ==
  [name : Names, func : STRING, callee : STRING, place : STRING, dtype : Dtypes, lanes : Nat,
   pointee : Dtypes, trace : {"none", "base", "offsets", "lost"}, ptr : Pointers,
   offsets : Seq(OffsetTerms), mask : {"none", "prefix", "any"}, id : Nat, level : Int, addr : Int, captures : Seq(CapturedOperands)]
Numbered(ops) == {n \in DOMAIN ops : ops[n].id # 0}
Identity(op, c) == IF c = 0 THEN op.id ELSE op.captures[c].id
DtypeOf(op, c) == IF c = 0 THEN op.dtype ELSE op.captures[c].dtype
KernelSound(ops) ==
  /\ ops \in Seq(KernelOperations)
  /\ \A n \in DOMAIN ops : /\ ops[n].dtype # "none" => ops[n].lanes \in DOMAIN Tensors
                           /\ ops[n].ptr = "scalar" => ops[n].lanes = 1
  /\ \A m, n \in Numbered(ops) :
       \A c \in 0 .. Len(ops[m].captures), d \in 0 .. Len(ops[n].captures) :
         Identity(ops[m], c) = Identity(ops[n], d) => m = n /\ c = d

\* The records of a plan.
Observing == {"counts", "values", "elements", "value"}
Located == {"timeline", "first", "last", "min", "max", "active", "span", "base", "aligned", "address"}
RecordSound(ops, r) ==
  LET op == ops[r.of] IN
  /\ r.kind \in Observing => r.operand \in 0 .. Len(op.captures) /\ r.id = Identity(op, r.operand)
  /\ r.kind \in Located => r.id = op.id
  /\ r.kind = "address" => r.operand = 0
  /\ Dumped(r) => Observed(ops, r).dtype # "none"
  /\ r.kind \in {"counts", "values"} => DtypeOf(op, r.operand) \in Floats
  /\ r.kind \in {"first", "last", "min", "max", "active", "span"} => SummarisesAddress(op)
\* The records a plan may hold.
Planned(ops) ==
  {r \in [of : Numbered(ops), id : Nat, operand : Nat, kind : Observing \cup Located] :
     RecordSound(ops, r)}

\* Where the payload entries lie.
EntrySound(ops, c, k) ==
  LET e == c.entries[k] IN
  /\ e.offset \in Nat /\ e.length \in Nat /\ e.bytes \in {4, 8}
  /\ e.length = e.bytes * Observed(ops, c.plan[k]).lanes
  /\ e.offset % e.bytes = 0 /\ c.payload % e.bytes = 0
  /\ e.offset + e.length <= c.payload
  /\ e.conditional <=> ops[c.plan[k].of].place \in {"branch", "loop"}
\* The payload has an entry for every record that is dumped, in the order of the plan
\* and apart, and the record's function takes the buffer.
PlanSound(ops, c) ==
  /\ c.plan \in Seq(Planned(ops))
  /\ c.payload \in Nat /\ c.payload % 4 = 0
  /\ DOMAIN c.entries = {k \in DOMAIN c.plan : Dumped(c.plan[k])}
  /\ DOMAIN c.entries = {} => c.payload = 0
  /\ \A k \in DOMAIN c.plan : ops[c.plan[k].of].func \in c.takes
  /\ \A k \in DOMAIN c.entries : EntrySound(ops, c, k)
  /\ \A j, k \in DOMAIN c.entries :
       j < k => c.entries[j].offset + c.entries[j].length <= c.entries[k].offset

\* What compilation has come to; from then on it stays.
Sound ==
  /\ source \in Sources /\ mode \in Modes /\ capacity \in Nat /\ gridKnown \in BOOLEAN
  /\ KernelSound(kernel) /\ PlanSound(kernel, compiled)

-----------------------------------------------------------------------------
(* Which words belong to which record.                                      *)

\* The slot, the words of the payload and all the words of a record of an instance.
Slot(i, k) == SlotOf(i, PerInstance, k - 1)
PayloadWords(i, k) ==
  LET first == PayloadAt(capacity, i, Payload, Entry[k].offset) \div 4
  IN first .. first + Entry[k].length \div 4 - 1
Area(i, k) ==
  SlotWords(Slot(i, k)) \cup (IF Dumped(Plan[k]) THEN PayloadWords(i, k) ELSE {})

\* Records, and the operations they are of.
LEMMA PlanTyped ==
  ASSUME Sound
  PROVE  /\ PerInstance \in Nat /\ DOMAIN Plan = 1 .. PerInstance
         /\ \A k \in 1 .. PerInstance : Plan[k] \in Planned(kernel)
         /\ \A k \in DOMAIN Entry : k \in 1 .. PerInstance /\ Dumped(Plan[k])
         /\ \A k \in 1 .. PerInstance : Dumped(Plan[k]) => k \in DOMAIN Entry
<1>1. Plan \in Seq(Planned(kernel))
  BY DEF Sound, PlanSound, Plan
<1>2. DOMAIN Entry = {k \in DOMAIN Plan : Dumped(Plan[k])}
  BY DEF Sound, PlanSound, Plan, Entry
<1>3. PerInstance \in Nat /\ DOMAIN Plan = 1 .. PerInstance
  BY <1>1 DEF PerInstance
<1>4. ASSUME NEW k \in 1 .. PerInstance PROVE Plan[k] \in Planned(kernel)
  BY <1>1, <1>3
<1> QED
  BY <1>2, <1>3, <1>4

\* What is dumped has lanes.
LEMMA DumpedLanes ==
  ASSUME Sound, NEW k \in 1 .. PerInstance, Dumped(Plan[k])
  PROVE  Observed(kernel, Plan[k]).lanes \in DOMAIN Tensors
<1>1. Plan[k] \in Planned(kernel)
  BY PlanTyped
<1> DEFINE r == Plan[k]
           op == kernel[r.of]
<1>2. /\ r.of \in DOMAIN kernel /\ r.operand \in Nat /\ RecordSound(kernel, r)
      /\ r.kind \in Observing \cup Located
  BY <1>1 DEF Planned, Numbered
<1>3. op \in KernelOperations /\ (op.dtype # "none" => op.lanes \in DOMAIN Tensors)
  BY <1>2 DEF Sound, KernelSound
<1> HIDE DEF r
<1>4. Dumped(r)
  BY DEF r
<1>5. ASSUME r.operand = 0 PROVE Observed(kernel, r).lanes \in DOMAIN Tensors
  BY <1>2, <1>3, <1>4, <1>5 DEF RecordSound, Observed
<1>6. ASSUME r.operand # 0 PROVE Observed(kernel, r).lanes \in DOMAIN Tensors
  <2>1. r.kind = "value"
    BY <1>2, <1>4, <1>6 DEF RecordSound, Dumped
  <2>2. r.operand \in 1 .. Len(op.captures)
    BY <1>2, <1>6, <2>1 DEF RecordSound, Observing
  <2>3. op.captures \in Seq(CapturedOperands)
    BY <1>3 DEF KernelOperations
  <2>4. op.captures[r.operand] \in CapturedOperands
    BY <2>2, <2>3
  <2>5. op.captures[r.operand].lanes \in DOMAIN Tensors
    BY <2>4 DEF CapturedOperands
  <2> QED
    BY <1>6, <2>5 DEF Observed
<1> QED
  BY <1>5, <1>6 DEF r

\* Slots are numbers of their own.
LEMMA SlotOwn ==
  ASSUME Sound, NEW i \in Instances, NEW k \in 1 .. PerInstance
  PROVE  /\ Slot(i, k) \in Nat /\ Slot(i, k) < Grid * PerInstance
         /\ InstanceOf(Slot(i, k), PerInstance) = i /\ RecordOf(Slot(i, k), PerInstance) = k - 1
         /\ \A j \in Instances, l \in 1 .. PerInstance : Slot(i, k) = Slot(j, l) => i = j /\ k = l
<1>1. PerInstance \in Nat \ {0} /\ Grid \in Nat /\ i \in Nat /\ k - 1 \in 0 .. PerInstance - 1
      /\ i \in 0 .. Grid - 1 /\ Instances \subseteq Nat
  BY PlanTyped, LaunchAssumption DEF Instances
<1> DEFINE n == PerInstance
           q == k - 1
<1>2. n \in Nat \ {0} /\ q \in 0 .. n - 1
  BY <1>1
<1>3. i * n \in Nat
  BY <1>1, <1>2
<1>4. Slot(i, k) = SlotOf(i, n, q) /\ SlotOf(i, n, q) = i * n + q
  BY DEF Slot, SlotOf
<1>5. Slot(i, k) \in Nat
  BY <1>2, <1>3, <1>4
<1> HIDE DEF n, q
<1>6. SlotOf(i, n, q) < Grid * n
  BY <1>1, <1>2, <1>4, <1>5, SlotsFillTheGrid
<1>7. InstanceOf(SlotOf(i, n, q), n) = i /\ RecordOf(SlotOf(i, n, q), n) = q
  BY <1>1, <1>2, DecodingInverts
<1>8. ASSUME NEW j \in Instances, NEW l \in 1 .. PerInstance, Slot(i, k) = Slot(j, l)
      PROVE  i = j /\ k = l
  <2>1. l - 1 \in 0 .. n - 1 /\ j \in Nat
    BY <1>1 DEF n
  <2>2. SlotOf(i, n, q) = SlotOf(j, n, l - 1)
    BY <1>8 DEF Slot, n, q
  <2>3. i = j /\ q = l - 1
    BY <1>1, <1>2, <2>1, <2>2, SlotsAreApart
  <2> QED
    BY <2>3 DEF q
<1> QED
  BY <1>4, <1>5, <1>6, <1>7, <1>8 DEF n, q

\* The host does not refuse the launch.
Accepted == ~LaunchRefused

\* With a dump, every slot is within the capacity.
LEMMA SlotsFit ==
  ASSUME Sound, Accepted, FullDump, NEW i \in Instances, NEW k \in 1 .. PerInstance
  PROVE  Slot(i, k) < capacity
<1>1. ~(Grid * PerInstance > capacity)
  BY DEF Accepted, LaunchRefused, TooSmall
<1>2. Slot(i, k) \in Nat /\ Slot(i, k) < Grid * PerInstance
  BY SlotOwn
<1>3. Grid * PerInstance \in Nat /\ capacity \in Nat
  BY PlanTyped, LaunchAssumption DEF Sound
<1> QED
  BY <1>1, <1>2, <1>3

\* Where the payload of a record starts: on a word, or on a double word.
LEMMA EntryPlace ==
  ASSUME Sound, NEW i \in Instances, NEW k \in DOMAIN Entry
  PROVE  LET p == PayloadAt(capacity, i, Payload, Entry[k].offset) IN
         /\ p \in Nat /\ p % 4 = 0 /\ (Entry[k].bytes = 8 => p % 8 = 0)
         /\ FirstWord(i, k) = p \div 4
         /\ p \div 4 \in Nat /\ 8 + 16 * capacity <= p \div 4 /\ 4 * (p \div 4) = p
         /\ Entry[k].bytes \in {4, 8} /\ Entry[k].length = Entry[k].bytes * Observed(kernel, Plan[k]).lanes
         /\ Observed(kernel, Plan[k]).lanes \in Nat \ {0}
         /\ Entry[k].offset \in Nat /\ Entry[k].length \in Nat \ {0} /\ Entry[k].length % 4 = 0
         /\ Entry[k].offset + Entry[k].length <= Payload /\ Payload \in Nat
         /\ Entry[k].offset % 4 = 0 /\ Payload % 4 = 0
<1> DEFINE p == PayloadAt(capacity, i, Payload, Entry[k].offset)
           e == Entry[k]
           n == Observed(kernel, Plan[k]).lanes
<1>1. /\ e.offset \in Nat /\ e.length \in Nat /\ e.bytes \in {4, 8}
      /\ e.length = e.bytes * n
      /\ e.offset % e.bytes = 0 /\ Payload % e.bytes = 0
      /\ e.offset + e.length <= Payload
  <2>1. EntrySound(kernel, compiled, k)
    BY DEF Sound, PlanSound, Entry
  <2> QED
    BY <2>1 DEF EntrySound, Entry, Payload, Plan
<1>2. capacity \in Nat /\ Payload \in Nat /\ Payload % 4 = 0 /\ i \in Nat
  BY LaunchAssumption DEF Sound, PlanSound, Payload, Instances
<1>3. n \in Nat \ {0}
  <2>1. k \in 1 .. PerInstance /\ Dumped(Plan[k]) /\ Plan[k] \in Planned(kernel)
    BY PlanTyped
  <2>2. n \in DOMAIN Tensors
    BY <2>1, DumpedLanes
  <2> QED
    BY <2>2, TensorsAssumption
<1>4. p = 32 + capacity * 64 + i * Payload + e.offset
  BY DEF PayloadAt, RecordArea, HeaderBytes, RecordBytes
<1> HIDE DEF p, n
<1> DEFINE o == e.offset
           len == e.length
           b == e.bytes
           y == Payload
           g == capacity
<1>5. /\ o \in Nat /\ len \in Nat /\ b \in {4, 8} /\ len = b * n /\ o % b = 0 /\ y % b = 0
      /\ o + len <= y /\ y \in Nat /\ y % 4 = 0 /\ g \in Nat /\ p = 32 + g * 64 + i * y + o
  BY <1>1, <1>2, <1>4
<1> HIDE DEF e, o, len, b, y, g
<1>6. i * y \in Nat /\ (i * y) % 4 = 0 /\ (b = 8 => (i * y) % 8 = 0)
  <2>1. PICK q \in Nat : y = 4 * q /\ (b = 8 => \E h \in Nat : y = 8 * h)
    <3>1. y = 4 * (y \div 4) /\ (y \div 4) \in Nat
      BY <1>5
    <3>2. b = 8 => y = 8 * (y \div 8) /\ (y \div 8) \in Nat
      BY <1>5
    <3> QED
      BY <3>1, <3>2
  <2>2. i * y = 4 * (i * q) /\ i * q \in Nat
    BY <1>2, <2>1, Z3
  <2>3. ASSUME b = 8 PROVE (i * y) % 8 = 0
    <3>1. PICK h \in Nat : y = 8 * h
      BY <2>1, <2>3
    <3>2. i * y = 8 * (i * h) /\ i * h \in Nat
      BY <1>2, <3>1, Z3
    <3> DEFINE z == i * h
    <3>3. z \in Nat /\ i * y = 8 * z
      BY <3>2
    <3> HIDE DEF z
    <3> QED
      BY <3>3
  <2> DEFINE z == i * q
  <2>4. z \in Nat /\ i * y = 4 * z
    BY <2>2
  <2> HIDE DEF z
  <2>5. i * y \in Nat /\ (i * y) % 4 = 0
    BY <2>4
  <2> QED
    BY <2>3, <2>5
<1> DEFINE x == i * y
<1>7. x \in Nat /\ x % 4 = 0 /\ (b = 8 => x % 8 = 0) /\ p = 32 + g * 64 + x + o
  BY <1>5, <1>6
<1> HIDE DEF x
<1>8. o % 4 = 0 /\ (b = 8 => o % 8 = 0)
  BY <1>5
<1>9. p \in Nat /\ p % 4 = 0 /\ (b = 8 => p % 8 = 0)
  BY <1>5, <1>7, <1>8
<1>10. p \div 4 \in Nat /\ 8 + 16 * g <= p \div 4 /\ 4 * (p \div 4) = p
  BY <1>5, <1>7, <1>8, <1>9
<1>11. len \in Nat \ {0} /\ len % 4 = 0
  <2>1. CASE b = 4
    BY <1>3, <1>5, <2>1
  <2>2. CASE b = 8
    BY <1>3, <1>5, <2>2
  <2> QED
    BY <1>5, <2>1, <2>2
<1>12. b = 8 => 2 * (p \div 8) = p \div 4
  BY <1>9
<1>13. FirstWord(i, k) = p \div 4
  BY <1>12 DEF FirstWord, p, b, e
<1> QED
  BY <1>3, <1>5, <1>8, <1>9, <1>10, <1>11, <1>13 DEF p, n, e, o, len, b, y, g

\* Payloads lie behind the records.
LEMMA RecordsApart ==
  ASSUME Sound, NEW x \in Instances, NEW y \in Instances, NEW a \in 1 .. PerInstance,
         NEW b \in 1 .. PerInstance, Slot(x, a) < capacity, Dumped(Plan[b])
  PROVE  SlotWords(Slot(x, a)) \cap PayloadWords(y, b) = {}
<1>1. Slot(x, a) \in Nat /\ capacity \in Nat
  BY SlotOwn DEF Sound
<1> DEFINE p == PayloadAt(capacity, y, Payload, Entry[b].offset) \div 4
           m == Entry[b].length \div 4
<1>2. b \in DOMAIN Entry
  BY PlanTyped
<1>3. p \in Nat /\ 8 + 16 * capacity <= p
  BY <1>2, EntryPlace
<1>4. PayloadWords(y, b) = p .. p + m - 1
  BY DEF PayloadWords
<1> HIDE DEF p, m
<1> QED
  BY <1>1, <1>3, <1>4 DEF SlotWords

\* No two records share a word.
LEMMA AreasApart ==
  ASSUME Sound, NEW i \in Instances, NEW j \in Instances,
         NEW k \in 1 .. PerInstance, NEW l \in 1 .. PerInstance,
         ~(i = j /\ k = l), Slot(i, k) < capacity, Slot(j, l) < capacity
  PROVE  Area(i, k) \cap Area(j, l) = {}
<1>1. SlotWords(Slot(i, k)) \cap SlotWords(Slot(j, l)) = {}
  <2>1. Slot(i, k) # Slot(j, l) /\ Slot(i, k) \in Nat /\ Slot(j, l) \in Nat
    BY SlotOwn
  <2> QED
    BY <2>1 DEF SlotWords
<1>2. ASSUME NEW x \in Instances, NEW y \in Instances, NEW a \in 1 .. PerInstance,
             NEW b \in 1 .. PerInstance, Slot(x, a) < capacity, Dumped(Plan[b])
      PROVE  SlotWords(Slot(x, a)) \cap PayloadWords(y, b) = {}
  BY <1>2, RecordsApart
<1>3. ASSUME Dumped(Plan[k]), Dumped(Plan[l])
      PROVE  PayloadWords(i, k) \cap PayloadWords(j, l) = {}
  <2>1. k \in DOMAIN Entry /\ l \in DOMAIN Entry
    BY <1>3, PlanTyped
  <2> DEFINE P(x, a) == PayloadAt(capacity, x, Payload, Entry[a].offset)
  <2>2. ASSUME NEW x \in Instances, NEW y \in Instances, NEW a \in DOMAIN Entry,
               NEW b \in DOMAIN Entry, x < y \/ (x = y /\ a < b)
        PROVE  PayloadWords(x, a) \cap PayloadWords(y, b) = {}
    <3>1. /\ P(x, a) \in Nat /\ 4 * (P(x, a) \div 4) = P(x, a)
          /\ Entry[a].offset \in Nat /\ Entry[a].length \in Nat /\ Entry[a].length % 4 = 0
          /\ Entry[a].offset + Entry[a].length <= Payload /\ Payload \in Nat
      BY EntryPlace
    <3>2. P(y, b) \in Nat /\ 4 * (P(y, b) \div 4) = P(y, b) /\ Entry[b].offset \in Nat
      BY EntryPlace
    <3>3. P(x, a) + Entry[a].length <= P(y, b)
      <4>1. CASE x < y
        <5>1. x \in Nat /\ y \in Nat /\ capacity \in Nat
          BY LaunchAssumption DEF Instances, Sound
        <5> DEFINE o == Entry[a].offset
                   n == Entry[a].length
                   other == Entry[b].offset
        <5>2. o \in Nat /\ n \in Nat /\ other \in Nat /\ o + n <= Payload
          BY <3>1, <3>2
        <5> HIDE DEF o, n, other
        <5>3. PayloadAt(capacity, x, Payload, o) + n <= PayloadAt(capacity, y, Payload, other)
          BY <3>1, <4>1, <5>1, <5>2, PayloadsAreApart
        <5> QED
          BY <5>3 DEF o, n, other
      <4>2. CASE x = y /\ a < b
        <5>1. Entry[a].offset + Entry[a].length <= Entry[b].offset
          BY <4>2 DEF Sound, PlanSound, Entry
        <5>2. RecordArea(capacity) \in Nat /\ x * Payload \in Nat
          BY <3>1, LaunchAssumption DEF Instances, Sound, RecordArea, HeaderBytes, RecordBytes
        <5> DEFINE z == x * Payload
        <5>3. P(x, a) = RecordArea(capacity) + z + Entry[a].offset
              /\ P(y, b) = RecordArea(capacity) + z + Entry[b].offset /\ z \in Nat
          BY <4>2, <5>2 DEF PayloadAt
        <5> HIDE DEF z, P
        <5> QED
          BY <3>1, <3>2, <5>1, <5>2, <5>3
      <4> QED
        BY <2>2, <4>1, <4>2
    <3>4. /\ PayloadWords(x, a) = P(x, a) \div 4 .. P(x, a) \div 4 + Entry[a].length \div 4 - 1
          /\ PayloadWords(y, b) = P(y, b) \div 4 .. P(y, b) \div 4 + Entry[b].length \div 4 - 1
      BY DEF PayloadWords
    <3> DEFINE p == P(x, a)
               q == P(y, b)
               n == Entry[a].length
               r == Entry[b].length \div 4
    <3>5. /\ p \in Nat /\ q \in Nat /\ n \in Nat /\ n % 4 = 0 /\ p + n <= q
          /\ 4 * (p \div 4) = p /\ 4 * (q \div 4) = q
      BY <3>1, <3>2, <3>3
    <3> HIDE DEF p, q, n, r
    <3>6. p \div 4 \in Nat /\ q \div 4 \in Nat /\ n \div 4 \in Nat /\ p \div 4 + n \div 4 <= q \div 4
      BY <3>5
    <3>7. PayloadWords(x, a) = p \div 4 .. p \div 4 + n \div 4 - 1
          /\ PayloadWords(y, b) = q \div 4 .. q \div 4 + r - 1
      BY <3>4 DEF p, q, n, r
    <3> QED
      BY <3>6, <3>7
  <2>3. i \in Nat /\ j \in Nat /\ k \in Nat /\ l \in Nat
    BY LaunchAssumption DEF Instances
  <2> HIDE DEF P
  <2>4. \/ i < j \/ (i = j /\ k < l) \/ j < i \/ (j = i /\ l < k)
    BY <2>3
  <2>5. CASE i < j \/ (i = j /\ k < l)
    BY <2>1, <2>2, <2>5
  <2>6. CASE j < i \/ (j = i /\ l < k)
    <3>1. PayloadWords(j, l) \cap PayloadWords(i, k) = {}
      BY <2>1, <2>2, <2>6
    <3> QED
      BY <3>1
  <2> QED
    BY <2>4, <2>5, <2>6
<1>4. Dumped(Plan[l]) => SlotWords(Slot(i, k)) \cap PayloadWords(j, l) = {}
  BY <1>2
<1>5. Dumped(Plan[k]) => SlotWords(Slot(j, l)) \cap PayloadWords(i, k) = {}
  BY <1>2
<1> QED
  BY <1>1, <1>3, <1>4, <1>5 DEF Area

-----------------------------------------------------------------------------
(* What the device writes.                                                  *)

\* What a record that sees o writes: its slot and its entry of the payload.
WordsWritten(i, k, o) ==
  LET words == RecordWords(Slot(i, k), Plan[k].kind, RecordData(i, k, o))
  IN IF Dumped(Plan[k]) THEN Stored(words, StorePayload(i, k, o)) ELSE words

\* Storing one over the other first makes no difference.
LEMMA StoredTwice ==
  ASSUME NEW x, NEW y, NEW z
  PROVE  Stored(Stored(x, y), z) = Stored(x, Stored(y, z))
<1> DEFINE a == Stored(Stored(x, y), z)
           b == Stored(x, Stored(y, z))
           D == DOMAIN x \cup DOMAIN y \cup DOMAIN z
           f == [w \in D |-> IF w \in DOMAIN z THEN z[w]
                             ELSE IF w \in DOMAIN y THEN y[w] ELSE x[w]]
<1>1. a = f
  BY DEF Stored
<1>2. b = f
  BY DEF Stored
<1> QED
  BY <1>1, <1>2

\* One execution of an operation stores its records one after another.
LEMMA StoresRecords ==
  ASSUME Sound, NEW i, NEW n, NEW o, StoreRecords(i, n, o)
  PROVE  \E u : Chained(u, PerInstance, buffer, RecordsWritten(i, n),
                        [k \in 1 .. PerInstance |-> WordsWritten(i, k, o)])
                /\ buffer' = u[PerInstance]
<1> DEFINE written == RecordsWritten(i, n)
           one(k) == RecordWords(SlotOf(i, PerInstance, k - 1), Plan[k].kind, RecordData(i, k, o))
           upTo[k \in 0 .. PerInstance] ==
             IF k = 0 THEN buffer
             ELSE IF k \notin written THEN upTo[k - 1]
             ELSE LET b == Stored(upTo[k - 1], one(k)) IN
                  IF Dumped(Plan[k]) THEN Stored(b, StorePayload(i, k, o)) ELSE b
           T == [k \in 1 .. PerInstance |-> WordsWritten(i, k, o)]
           step(u, k) == IF k = 0 THEN buffer
             ELSE IF k \notin written THEN u[k - 1]
             ELSE LET b == Stored(u[k - 1], one(k)) IN
                  IF Dumped(Plan[k]) THEN Stored(b, StorePayload(i, k, o)) ELSE b
           link(u, k) == IF k = 0 THEN buffer
                         ELSE IF k \in written THEN Stored(u[k - 1], T[k]) ELSE u[k - 1]
<1>1. buffer' = upTo[PerInstance]
  BY DEF StoreRecords
<1>2. PerInstance \in Nat
  BY PlanTyped
<1>3. ASSUME NEW u, NEW k \in 0 .. PerInstance PROVE step(u, k) = link(u, k)
  <2>1. CASE k \in 1 .. PerInstance /\ k \in written
    <3> DEFINE x == u[k - 1]
               y == one(k)
               z == StorePayload(i, k, o)
    <3>1. T[k] = IF Dumped(Plan[k]) THEN Stored(y, z) ELSE y
      BY <2>1 DEF WordsWritten, Slot
    <3>2. step(u, k) = IF Dumped(Plan[k]) THEN Stored(Stored(x, y), z) ELSE Stored(x, y)
      BY <2>1
    <3>3. link(u, k) = Stored(x, T[k])
      BY <2>1
    <3> HIDE DEF T, step, link, x, y, z
    <3> QED
      BY <3>1, <3>2, <3>3, StoredTwice
  <2>2. CASE ~(k \in 1 .. PerInstance /\ k \in written)
    <3>1. k = 0 \/ k \notin written
      BY <1>2, <2>2
    <3> QED
      BY <3>1
  <2> QED
    BY <2>1, <2>2
<1>4. upTo = [k \in 0 .. PerInstance |-> step(upTo, k)]
  <2>1. PICK u : Chained(u, PerInstance, buffer, written, T)
    <3> HIDE DEF T, written
    <3> QED
      BY <1>2, ChainExists
  <2>2. u = [k \in 0 .. PerInstance |-> link(u, k)]
    BY <2>1 DEF Chained
  <2>3. u = [k \in 0 .. PerInstance |-> step(u, k)]
    <3> HIDE DEF step, link
    <3> QED
      BY <1>3, <2>2
  <2> QED
    BY <2>3
<1> HIDE DEF upTo
<1>5. upTo = [k \in 0 .. PerInstance |-> link(upTo, k)]
  <2> HIDE DEF step, link
  <2> QED
    BY <1>3, <1>4
<1>6. Chained(upTo, PerInstance, buffer, written, T)
  BY <1>5 DEF Chained
<1> QED
  BY <1>1, <1>6

-----------------------------------------------------------------------------
(* The buffer.                                                              *)

\* What an instance saw of the operations it ran.
SeenOf(n) == {NotRun} \cup Observations(kernel[n])
RanTyped ==
  /\ ran \in [Instances -> [DOMAIN kernel -> UNION {SeenOf(n) : n \in DOMAIN kernel}]]
  /\ \A i \in Instances, n \in DOMAIN kernel : ran[i][n] \in SeenOf(n)
Seen(i, k) == ran[i][Plan[k].of]
OnDevice(i, k) == Seen(i, k).ran /\ ~LeftToHost(Plan[k])
\* The buffer is what the instances wrote, and no more: a record that ran is there word
\* by word, one that did not (or is left to the host) left no word.
BufferHolds ==
  \A i \in Instances, k \in 1 .. PerInstance : Slot(i, k) < capacity =>
    IF OnDevice(i, k)
    THEN \A w \in DOMAIN WordsWritten(i, k, Seen(i, k)) :
           w \in DOMAIN buffer /\ buffer[w] = WordsWritten(i, k, Seen(i, k))[w]
    ELSE Area(i, k) \cap DOMAIN buffer = {}

\* What depends on the compiled kernel and the launch alone.
Frozen == UNCHANGED <<source, mode, kernel, compiled, capacity, gridKnown>>
\* The plan, the slots and what is left to the host stay.
LEMMA FrozenPlan ==
  ASSUME Frozen
  PROVE  /\ Plan' = Plan /\ Entry' = Entry /\ PerInstance' = PerInstance /\ Payload' = Payload
         /\ \A i, k : Slot(i, k)' = Slot(i, k)
         /\ \A r : LeftToHost(r)' = LeftToHost(r)
<1>1. Plan' = Plan /\ Entry' = Entry /\ Payload' = Payload
  BY DEF Frozen, Plan, Entry, Payload
<1>2. PerInstance' = PerInstance
  BY <1>1 DEF PerInstance
<1>3. \A i, k : Slot(i, k)' = Slot(i, k)
  BY <1>2 DEF Slot
<1>4. \A r : LeftToHost(r)' = LeftToHost(r)
  BY <1>1, <1>2 DEF LeftToHost, Frozen
<1> QED
  BY <1>1, <1>2, <1>3, <1>4
\* So do the words that a record writes.
LEMMA FrozenWords ==
  ASSUME Frozen
  PROVE  /\ \A i, k, o : WordsWritten(i, k, o)' = WordsWritten(i, k, o)
         /\ \A i, k : Area(i, k)' = Area(i, k)
<1>1. /\ Plan' = Plan /\ Entry' = Entry /\ PerInstance' = PerInstance /\ Payload' = Payload
      /\ \A i, k : Slot(i, k)' = Slot(i, k)
  BY FrozenPlan
<1>2. mode' = mode /\ kernel' = kernel /\ capacity' = capacity
  BY DEF Frozen
<1>3. \A i, k : RefAt(i, k)' = RefAt(i, k)
  BY <1>1, <1>2 DEF RefAt
<1>4. \A i, k, o : RecordData(i, k, o)' = RecordData(i, k, o)
  BY <1>1, <1>2, <1>3 DEF RecordData
<1>5. \A i, k : FirstWord(i, k)' = FirstWord(i, k)
  BY <1>1, <1>2 DEF FirstWord
<1>6. \A i, k, o : StorePayload(i, k, o)' = StorePayload(i, k, o)
  BY <1>1, <1>2, <1>5 DEF StorePayload
<1>7. \A i, k, o : WordsWritten(i, k, o)' = WordsWritten(i, k, o)
  BY <1>1, <1>4, <1>6 DEF WordsWritten
<1>8. \A i, k : PayloadWords(i, k)' = PayloadWords(i, k)
  BY <1>1, <1>2 DEF PayloadWords
<1>9. \A i, k : Area(i, k)' = Area(i, k)
  BY <1>1, <1>8 DEF Area
<1> QED
  BY <1>7, <1>9
\* So does what compilation has come to.
LEMMA FrozenSound ==
  ASSUME Frozen, Sound
  PROVE  Sound'
  BY DEF Frozen, Sound
\* A launch that was accepted stays accepted.
LEMMA FrozenAccepted ==
  ASSUME Frozen, Accepted
  PROVE  Accepted'
<1>1. /\ Plan' = Plan /\ Entry' = Entry /\ PerInstance' = PerInstance /\ Payload' = Payload
      /\ capacity' = capacity /\ gridKnown' = gridKnown
  BY FrozenPlan DEF Frozen
<1> QED
  BY <1>1 DEF Accepted, LaunchRefused, FullDump, TooSmall, TooLarge

\* An operation runs the way it is observed.
LEMMA ObservedRan ==
  ASSUME NEW op, NEW o \in Observations(op)
  PROVE  o.ran = TRUE
  BY DEF Observations

\* What is dumped has as many values as its operation has lanes, or none if it is lost.
LEMMA PayloadIs ==
  ASSUME Sound, NEW k \in DOMAIN Entry, NEW i, NEW o \in Observations(kernel[Plan[k].of])
  PROVE  LET n == Observed(kernel, Plan[k]).lanes
             v == PayloadValues(i, kernel[Plan[k].of], o, Plan[k])
         IN /\ n \in Nat \ {0}
            /\ Lost(kernel[Plan[k].of], Plan[k]) => v = <<>>
            /\ ~Lost(kernel[Plan[k].of], Plan[k]) => Len(v) = n /\ v = [l \in 1 .. n |-> v[l]]
<1> DEFINE r == Plan[k]
           op == kernel[r.of]
           n == Observed(kernel, r).lanes
           v == PayloadValues(i, op, o, r)
<1>1. Dumped(r) /\ r \in Planned(kernel) /\ n \in DOMAIN Tensors
  BY PlanTyped, DumpedLanes
<1>2. /\ r.of \in DOMAIN kernel /\ op.id # 0 /\ r.operand \in Nat /\ RecordSound(kernel, r)
  BY <1>1 DEF Planned, Numbered
<1>3. n \in Nat \ {0} /\ Tensors[n] # {} /\ Tensors[n] \subseteq [1 .. n -> Int \cup {NaN, Inf}]
  BY <1>1, TensorsAssumption
<1>4. CASE r.kind = "address"
  <2>1. n = op.lanes
    BY <1>2, <1>4 DEF RecordSound, Observed
  <2>2. v = [l \in 1 .. n |-> AddressTaken(i, op, l - 1)]
    BY <1>4, <2>1 DEF PayloadValues
  <2>3. ~Lost(op, r)
    BY <1>4 DEF Lost, OwnPointers
  <2> HIDE DEF n, v, op, r
  <2>4. Len(v) = n /\ v = [l \in 1 .. n |-> v[l]]
    BY <1>3, <2>2
  <2> QED
    BY <1>3, <2>3, <2>4 DEF n, v, op, r
<1>5. CASE r.kind # "address" /\ Lost(op, r)
  BY <1>3, <1>5 DEF PayloadValues
<1>6. CASE r.kind # "address" /\ ~Lost(op, r) /\ Skewed(op, r)
  <2>1. n = op.lanes
    BY <1>6 DEF Skewed, OwnPointers, Observed
  <2>2. v = [l \in 1 .. n |-> Torn]
    BY <1>6, <2>1 DEF PayloadValues
  <2>3. ~Lost(op, r)
    BY <1>6
  <2> HIDE DEF n, v, op, r
  <2>4. Len(v) = n /\ v = [l \in 1 .. n |-> v[l]]
    BY <1>3, <2>2
  <2> QED
    BY <1>3, <2>3, <2>4 DEF n, v, op, r
<1>7. CASE r.kind # "address" /\ ~Lost(op, r) /\ ~Skewed(op, r)
  <2>1. r.kind = "value"
    BY <1>1, <1>7 DEF Dumped
  <2>2. v = ValueSeen(o, r)
    BY <1>7 DEF PayloadValues
  <2>3. v \in Tensors[n]
    <3>1. CASE r.operand = 0
      <4>1. n = op.lanes /\ op.dtype # "none" /\ v = o.value
        BY <1>1, <1>2, <2>2, <3>1 DEF RecordSound, Observed, ValueSeen
      <4> QED
        BY <1>2, <4>1 DEF Observations
    <3>2. CASE r.operand # 0
      <4> DEFINE c == r.operand
      <4>1. c \in 1 .. Len(op.captures) /\ n = op.captures[c].lanes /\ v = o.operands[c]
        BY <1>2, <2>1, <2>2, <3>2 DEF RecordSound, Observing, Observed, ValueSeen
      <4>2. op.captures \in Seq(CapturedOperands)
        <5>1. op \in KernelOperations
          BY <1>2 DEF Sound, KernelSound
        <5> QED
          BY <5>1 DEF KernelOperations
      <4>3. c \in DOMAIN op.captures
        BY <4>1, <4>2
      <4>4. o.operands = [d \in DOMAIN op.captures |-> CHOOSE t \in Tensors[op.captures[d].lanes] : TRUE]
        BY DEF Observations
      <4> DEFINE m == op.captures[c].lanes
      <4>5. o.operands[c] = CHOOSE t \in Tensors[m] : TRUE
        BY <4>3, <4>4
      <4>6. m = n /\ Tensors[m] # {} /\ v = o.operands[c]
        BY <1>3, <4>1
      <4> HIDE DEF m, v, n, c
      <4>7. v \in Tensors[m]
        BY <4>5, <4>6
      <4> QED
        BY <4>6, <4>7
    <3> QED
      BY <3>1, <3>2
  <2> HIDE DEF n, v
  <2>4. v \in [1 .. n -> Int \cup {NaN, Inf}] /\ n \in Nat
    BY <1>3, <2>3
  <2>5. Len(v) = n /\ v = [l \in 1 .. n |-> v[l]]
    BY <2>4
  <2> QED
    BY <1>3, <1>7, <2>5 DEF n, v
<1> QED
  BY <1>4, <1>5, <1>6, <1>7

\* A dump takes no words but those its entry is given.
LEMMA PayloadDomain ==
  ASSUME Sound, NEW i \in Instances, NEW k \in DOMAIN Entry,
         NEW o \in Observations(kernel[Plan[k].of])
  PROVE  DOMAIN StorePayload(i, k, o) \subseteq PayloadWords(i, k)
<1> DEFINE pay == StorePayload(i, k, o)
           f == FirstWord(i, k)
           b == Entry[k].bytes
           v == PayloadValues(i, kernel[Plan[k].of], o, Plan[k])
           n == Observed(kernel, Plan[k]).lanes
           len == Entry[k].length
           p == PayloadAt(capacity, i, Payload, Entry[k].offset)
<1>2. f = p \div 4 /\ p \div 4 \in Nat /\ b \in {4, 8} /\ len = b * n /\ n \in Nat
  BY EntryPlace
<1>3. CASE v = <<>>
  <2>1. DOMAIN pay = f .. f + (b \div 4) * 0 - 1
    BY <1>3 DEF StorePayload, Laid
  <2> HIDE DEF pay, f, b
  <2>2. b \div 4 \in Nat /\ (b \div 4) * 0 = 0 /\ f \in Int
    BY <1>2
  <2>3. DOMAIN pay = f .. f - 1
    BY <2>1, <2>2
  <2>4. DOMAIN pay = {}
    BY <2>2, <2>3
  <2> QED
    BY <2>4 DEF pay
<1>4. CASE Len(v) = n
  <2>1. DOMAIN pay = f .. f + (b \div 4) * n - 1
    BY <1>4 DEF StorePayload, Laid
  <2>2. PayloadWords(i, k) = p \div 4 .. p \div 4 + len \div 4 - 1
    BY DEF PayloadWords
  <2> HIDE DEF pay, f, b, v, n, len, p
  <2>3. (b \div 4) * n = len \div 4
    <3>1. CASE b = 4
      BY <1>2, <3>1
    <3>2. CASE b = 8
      BY <1>2, <3>2
    <3> QED
      BY <1>2, <3>1, <3>2
  <2> QED
    BY <1>2, <2>1, <2>2, <2>3 DEF pay
<1> QED
  BY <1>3, <1>4, PayloadIs

\* A record and its payload stay within their area.
LEMMA WordsInArea ==
  ASSUME Sound, NEW i \in Instances, NEW k \in 1 .. PerInstance,
         NEW o \in Observations(kernel[Plan[k].of])
  PROVE  DOMAIN WordsWritten(i, k, o) \subseteq Area(i, k)
<1>1. Slot(i, k) \in Nat
  BY SlotOwn
<1> DEFINE words == RecordWords(Slot(i, k), Plan[k].kind, RecordData(i, k, o))
           pay == StorePayload(i, k, o)
<1>2. DOMAIN words \subseteq SlotWords(Slot(i, k))
  BY <1>1, RecordWordsHold
<1>3. CASE ~Dumped(Plan[k])
  BY <1>2, <1>3 DEF WordsWritten, Area
<1>4. CASE Dumped(Plan[k])
  <2>1. k \in DOMAIN Entry
    BY <1>4, PlanTyped
  <2>2. DOMAIN pay \subseteq PayloadWords(i, k)
    BY <2>1, PayloadDomain
  <2>3. WordsWritten(i, k, o) = Stored(words, pay)
    BY <1>4 DEF WordsWritten
  <2> HIDE DEF words, pay
  <2>4. DOMAIN WordsWritten(i, k, o) = DOMAIN pay \cup DOMAIN words
    BY <2>3, StoredHolds
  <2> QED
    BY <1>2, <1>4, <2>2, <2>4 DEF Area
<1> QED
  BY <1>3, <1>4

\* Which records an operation writes.
LEMMA WrittenAre ==
  ASSUME Sound, Accepted, NEW i \in Instances, NEW n \in DOMAIN kernel
  PROVE  RecordsWritten(i, n)
           = {k \in 1 .. PerInstance : Plan[k].of = n /\ ~LeftToHost(Plan[k]) /\ Slot(i, k) < capacity}
<1>1. ASSUME NEW k \in 1 .. PerInstance PROVE InBounds(Slot(i, k)) <=> Slot(i, k) < capacity
  <2>1. CASE Masked
    BY <2>1 DEF InBounds
  <2>2. CASE ~Masked
    <3>1. FullDump
      BY <2>2 DEF Masked, FullDump, Payload, Entry, Sound, PlanSound
    <3> QED
      BY <2>2, <3>1, SlotsFit DEF InBounds
  <2> QED
    BY <2>1, <2>2
<1>2. ASSUME NEW k \in 1 .. PerInstance PROVE kernel[Plan[k].of].func \in compiled.takes
  BY PlanTyped DEF Sound, PlanSound, Plan
<1> QED
  BY <1>1, <1>2 DEF RecordsWritten, Slot

\* The words of the records an operation runs are as it was seen last, and nothing
\* else changes.
LEMMA StoreKeeps ==
  ASSUME Sound, Accepted, NEW i \in Instances, NEW n \in DOMAIN kernel,
         NEW o \in Observations(kernel[n]), StoreRecords(i, n, o)
  PROVE  /\ \A k \in RecordsWritten(i, n) : \A w \in DOMAIN WordsWritten(i, k, o) :
              w \in DOMAIN buffer' /\ buffer'[w] = WordsWritten(i, k, o)[w]
         /\ \A w : (\A k \in RecordsWritten(i, n) : w \notin Area(i, k)) =>
              (w \in DOMAIN buffer' <=> w \in DOMAIN buffer)
              /\ (w \in DOMAIN buffer => buffer'[w] = buffer[w])
<1> DEFINE W == RecordsWritten(i, n)
           T == [k \in 1 .. PerInstance |-> WordsWritten(i, k, o)]
<1>1. PICK u : Chained(u, PerInstance, buffer, W, T) /\ buffer' = u[PerInstance]
  BY StoresRecords
<1>2. W \subseteq 1 .. PerInstance /\ \A k \in W : Plan[k].of = n /\ Slot(i, k) < capacity
  BY WrittenAre
<1>3. \A k \in W : T[k] = WordsWritten(i, k, o)
  BY <1>2
<1>4. ASSUME NEW k \in W PROVE DOMAIN T[k] \subseteq Area(i, k)
  <2>1. k \in 1 .. PerInstance /\ o \in Observations(kernel[Plan[k].of])
    BY <1>2
  <2> QED
    BY <1>3, <2>1, WordsInArea
<1>5. \A j, k \in W \cap (1 .. PerInstance) : j # k => DOMAIN T[j] \cap DOMAIN T[k] = {}
  <2> SUFFICES ASSUME NEW j \in W, NEW k \in W, j # k PROVE DOMAIN T[j] \cap DOMAIN T[k] = {}
    OBVIOUS
  <2>1. Area(i, j) \cap Area(i, k) = {}
    BY <1>2, AreasApart
  <2> HIDE DEF T, W
  <2> QED
    BY <1>4, <2>1
<1> HIDE DEF T, W
<1>6. PerInstance \in Nat
  BY PlanTyped
<1>7. Keeps(u, PerInstance, buffer, W, T)
  BY <1>1, <1>5, <1>6, ChainKeeps
<1>8. W \cap (1 .. PerInstance) = W
  BY <1>2
<1>9. \A k \in W : \A w \in DOMAIN T[k] : w \in DOMAIN buffer' /\ buffer'[w] = T[k][w]
  BY <1>1, <1>7, <1>8 DEF Keeps
<1>10. ASSUME NEW w, \A k \in W : w \notin Area(i, k)
       PROVE  /\ w \in DOMAIN buffer' <=> w \in DOMAIN buffer
              /\ w \in DOMAIN buffer => buffer'[w] = buffer[w]
  <2>1. \A k \in W \cap (1 .. PerInstance) : w \notin DOMAIN T[k]
    BY <1>4, <1>8, <1>10
  <2> QED
    BY <1>1, <1>7, <2>1 DEF Keeps
<1> QED
  BY <1>3, <1>9, <1>10 DEF W

\* The buffer goes on holding what was seen.
LEMMA BufferStep ==
  ASSUME Sound, Accepted, RanTyped, BufferHolds, Frozen,
         NEW i \in Instances, NEW n \in DOMAIN kernel, NEW o \in Observations(kernel[n]),
         StoreRecords(i, n, o), ran' = [ran EXCEPT ![i][n] = o]
  PROVE  RanTyped' /\ BufferHolds'
<1>1. kernel' = kernel /\ capacity' = capacity
  BY DEF Frozen
<1>2. \A j \in Instances, m \in DOMAIN kernel :
        ran'[j][m] = IF j = i /\ m = n THEN o ELSE ran[j][m]
  BY DEF RanTyped
<1>3. RanTyped'
  <2>1. o \in SeenOf(n)
    BY DEF SeenOf
  <2>2. \A m : SeenOf(m)' = SeenOf(m)
    BY <1>1 DEF SeenOf
  <2>3. ran' \in [Instances -> [DOMAIN kernel -> UNION {SeenOf(m) : m \in DOMAIN kernel}]]
    BY <2>1 DEF RanTyped
  <2>4. \A j \in Instances, m \in DOMAIN kernel : ran'[j][m] \in SeenOf(m)
    BY <1>2, <2>1 DEF RanTyped
  <2> QED
    BY <1>1, <2>2, <2>3, <2>4 DEF RanTyped
<1>4. ASSUME NEW j \in Instances, NEW l \in 1 .. PerInstance, Slot(j, l) < capacity
      PROVE  LET s == ran'[j][Plan[l].of] IN
             IF s.ran /\ ~LeftToHost(Plan[l])
             THEN \A w \in DOMAIN WordsWritten(j, l, s) :
                    w \in DOMAIN buffer' /\ buffer'[w] = WordsWritten(j, l, s)[w]
             ELSE Area(j, l) \cap DOMAIN buffer' = {}
  <2> DEFINE s == ran'[j][Plan[l].of]
             W == RecordsWritten(i, n)
  <2>1. W = {k \in 1 .. PerInstance : Plan[k].of = n /\ ~LeftToHost(Plan[k]) /\ Slot(i, k) < capacity}
    BY WrittenAre
  <2>2. Plan[l].of \in DOMAIN kernel
    BY PlanTyped DEF Planned, Numbered
  <2>3. CASE j = i /\ l \in W
    <3>1. s = o /\ ~LeftToHost(Plan[l]) /\ o.ran
      BY <1>2, <2>1, <2>2, <2>3, ObservedRan
    <3>2. \A w \in DOMAIN WordsWritten(i, l, o) :
                    w \in DOMAIN buffer' /\ buffer'[w] = WordsWritten(i, l, o)[w]
      BY <2>3, StoreKeeps
    <3> QED
      BY <2>3, <3>1, <3>2
  <2>4. CASE ~(j = i /\ l \in W)
    <3>1. (s.ran /\ ~LeftToHost(Plan[l]) <=> OnDevice(j, l))
          /\ (OnDevice(j, l) => s = Seen(j, l))
      <4>1. CASE j = i /\ Plan[l].of = n
        <5>1. LeftToHost(Plan[l])
          BY <1>4, <2>1, <2>4, <4>1
        <5> QED
          BY <5>1 DEF OnDevice
      <4>2. CASE ~(j = i /\ Plan[l].of = n)
        <5>1. s = Seen(j, l)
          BY <1>2, <2>2, <4>2 DEF Seen
        <5> QED
          BY <5>1 DEF OnDevice
      <4> QED
        BY <4>1, <4>2
    <3>2. \A w \in Area(j, l) : \A k \in W : w \notin Area(i, k)
      <4> TAKE w \in Area(j, l)
      <4> TAKE k \in W
      <4>1. k \in 1 .. PerInstance /\ Slot(i, k) < capacity /\ ~(j = i /\ l = k)
        BY <2>1, <2>4
      <4>2. Area(j, l) \cap Area(i, k) = {}
        BY <1>4, <4>1, AreasApart
      <4> QED
        BY <4>2
    <3>3. \A w \in Area(j, l) : (w \in DOMAIN buffer' <=> w \in DOMAIN buffer)
                                /\ (w \in DOMAIN buffer => buffer'[w] = buffer[w])
      BY <3>2, StoreKeeps
    <3>4. CASE OnDevice(j, l)
      <4>1. Seen(j, l) \in Observations(kernel[Plan[l].of])
        <5>1. Seen(j, l) \in SeenOf(Plan[l].of) /\ Seen(j, l).ran
          BY <2>2, <3>4 DEF RanTyped, Seen, OnDevice
        <5>2. NotRun.ran = FALSE
          BY DEF NotRun
        <5> QED
          BY <5>1, <5>2 DEF SeenOf
      <4>2. DOMAIN WordsWritten(j, l, Seen(j, l)) \subseteq Area(j, l)
        BY <4>1, WordsInArea
      <4>3. \A w \in DOMAIN WordsWritten(j, l, Seen(j, l)) :
              w \in DOMAIN buffer /\ buffer[w] = WordsWritten(j, l, Seen(j, l))[w]
        BY <1>4, <3>4 DEF BufferHolds
      <4>4. s = Seen(j, l) /\ s.ran /\ ~LeftToHost(Plan[l])
        BY <3>1, <3>4
      <4>5. \A w \in DOMAIN WordsWritten(j, l, Seen(j, l)) :
              w \in DOMAIN buffer' /\ buffer'[w] = WordsWritten(j, l, Seen(j, l))[w]
        BY <3>3, <4>2, <4>3
      <4> HIDE DEF s
      <4>6. \A w \in DOMAIN WordsWritten(j, l, s) :
              w \in DOMAIN buffer' /\ buffer'[w] = WordsWritten(j, l, s)[w]
        BY <4>4, <4>5
      <4> QED
        BY <4>4, <4>6 DEF s
    <3>5. CASE ~OnDevice(j, l)
      <4>1. Area(j, l) \cap DOMAIN buffer = {}
        BY <1>4, <3>5 DEF BufferHolds
      <4> QED
        BY <3>1, <3>3, <3>5, <4>1
    <3> QED
      BY <3>4, <3>5
  <2> QED
    BY <2>3, <2>4
<1>5. BufferHolds'
  <2>1. /\ Plan' = Plan /\ PerInstance' = PerInstance
        /\ \A j, k : Slot(j, k)' = Slot(j, k) /\ Area(j, k)' = Area(j, k)
        /\ \A j, k, s : WordsWritten(j, k, s)' = WordsWritten(j, k, s)
        /\ \A r : LeftToHost(r)' = LeftToHost(r)
    BY FrozenPlan, FrozenWords
  <2>2. \A j, k : Seen(j, k)' = ran'[j][Plan[k].of]
    BY <2>1 DEF Seen
  <2>3. \A j, k : OnDevice(j, k)' <=> ran'[j][Plan[k].of].ran /\ ~LeftToHost(Plan[k])
    BY <2>1, <2>2 DEF OnDevice
  <2> QED
    BY <1>1, <1>4, <2>1, <2>2, <2>3 DEF BufferHolds
<1> QED
  BY <1>3, <1>5

-----------------------------------------------------------------------------
(* What the host reads.                                                     *)

\* What the host may rely on when it reads.
RunHolds == Sound /\ Accepted /\ RanTyped /\ BufferHolds

\* Device and host agree on the fields of a record, kind by kind.
LEMMA FieldsAgree ==
  ASSUME NEW kind
  PROVE  ReadFields(kind) = StoredFields(kind)
  BY DEF ReadFields, StoredFields

\* What was seen of an operation that ran is one of its observations.
LEMMA SeenOne ==
  ASSUME Sound, RanTyped, NEW i \in Instances, NEW k \in 1 .. PerInstance, Seen(i, k).ran
  PROVE  Plan[k].of \in DOMAIN kernel /\ Seen(i, k) \in Observations(kernel[Plan[k].of])
<1>1. Plan[k].of \in DOMAIN kernel
  BY PlanTyped DEF Planned, Numbered
<1>2. Seen(i, k) \in SeenOf(Plan[k].of)
  BY <1>1 DEF RanTyped, Seen
<1>3. NotRun.ran = FALSE
  BY DEF NotRun
<1> QED
  BY <1>1, <1>2, <1>3 DEF SeenOf

\* What is stored elsewhere leaves the words that were there.
LEMMA StoredKeeps ==
  ASSUME NEW old, NEW new, NEW S, NEW T,
         DOMAIN old \subseteq S, DOMAIN new \subseteq T, S \cap T = {}
  PROVE  \A w \in DOMAIN old : w \in DOMAIN Stored(old, new) /\ Stored(old, new)[w] = old[w]
<1> SUFFICES ASSUME NEW w \in DOMAIN old
             PROVE  w \in DOMAIN Stored(old, new) /\ Stored(old, new)[w] = old[w]
  OBVIOUS
<1>1. w \notin DOMAIN new
  OBVIOUS
<1> QED
  BY <1>1, Zenon DEF Stored

\* The record the device wrote is read as it was written.
LEMMA ReadsBack ==
  ASSUME RunHolds, NEW i \in Instances, NEW k \in 1 .. PerInstance,
         Slot(i, k) < capacity, OnDevice(i, k)
  PROVE  \A n \in DOMAIN ReadFields(Plan[k].kind) :
           ReadData(Slot(i, k), Plan[k].kind)[n] = RecordData(i, k, Seen(i, k))[n]
<1> DEFINE s == Slot(i, k)
           kind == Plan[k].kind
           o == Seen(i, k)
           data == RecordData(i, k, o)
           words == RecordWords(s, kind, data)
           F == StoredFields(kind)
<1>1. s \in Nat
  BY SlotOwn DEF RunHolds
<1>2. Plan[k].of \in DOMAIN kernel /\ o \in Observations(kernel[Plan[k].of])
  BY SeenOne DEF RunHolds, OnDevice
<1>3. \A w \in DOMAIN WordsWritten(i, k, o) : w \in DOMAIN buffer /\ buffer[w] = WordsWritten(i, k, o)[w]
  BY DEF RunHolds, BufferHolds
<1>4. DOMAIN words \subseteq SlotWords(s)
  BY <1>1, RecordWordsHold
<1>5. \A w \in DOMAIN words : w \in DOMAIN buffer /\ buffer[w] = words[w]
  <2>1. CASE ~Dumped(Plan[k])
    BY <1>3, <2>1 DEF WordsWritten
  <2>2. CASE Dumped(Plan[k])
    <3> DEFINE pay == StorePayload(i, k, o)
    <3>1. WordsWritten(i, k, o) = Stored(words, pay)
      BY <2>2 DEF WordsWritten
    <3>2. k \in DOMAIN Entry
      BY <2>2, PlanTyped DEF RunHolds
    <3>3. DOMAIN pay \subseteq PayloadWords(i, k)
      BY <1>2, <3>2, PayloadDomain DEF RunHolds
    <3>4. SlotWords(s) \cap PayloadWords(i, k) = {}
      BY <2>2, RecordsApart DEF RunHolds
    <3> HIDE DEF words, pay, s
    <3>5. \A w \in DOMAIN words : w \in DOMAIN Stored(words, pay) /\ Stored(words, pay)[w] = words[w]
      BY <1>4, <3>3, <3>4, StoredKeeps, Zenon
    <3> QED
      BY <1>3, <3>1, <3>5
  <2> QED
    BY <2>1, <2>2
<1>6. Following(F) /\ ReadFields(kind) = F
  BY FieldsFollow, FieldsAgree
<1>7. \A n \in 1 .. Len(F) : \A j \in 1 .. F[n].bytes \div 4 :
        LET w == FieldWord(s, F[n]) + j - 1 IN
        w \in DOMAIN words /\ words[w] = WordsOf(data[n], F[n].bytes)[j]
  BY <1>1, RecordWordsHold
<1> HIDE DEF words, data, o, kind
<1>8. ASSUME NEW n \in 1 .. Len(F)
      PROVE  LoadValue(FieldWord(s, F[n]), F[n].bytes) = data[n]
  <2> DEFINE b == F[n].bytes
             x == FieldWord(s, F[n])
             v == data[n]
  <2>1. b \in {4, 8} /\ F[n].offset \in {16, 20, 24, 28, 32, 40}
    BY <1>6 DEF Following
  <2>2. x \in Nat
    <3> DEFINE f == F[n]
               off == F[n].offset
    <3>1. off \in {16, 20, 24, 28, 32, 40} /\ f.offset = off
      BY <2>1
    <3> HIDE DEF f, off
    <3>2. FieldWord(s, f) \in Nat
      BY <1>1, <3>1, FieldInSlot
    <3> QED
      BY <3>2 DEF f
  <2>3. \A j \in 1 .. b \div 4 : x + j - 1 \in DOMAIN buffer
                                 /\ buffer[x + j - 1] = WordsOf(v, b)[j]
    BY <1>5, <1>7
  <2>4. b \in {4, 8}
    BY <2>1
  <2> HIDE DEF b, x, v
  <2>5. LoadValue(x, b) = v
    BY <2>2, <2>3, <2>4, LoadsBack
  <2> QED
    BY <2>5 DEF b, x, v
<1>9. DOMAIN F = 1 .. Len(F)
  BY <1>6 DEF Following
<1> HIDE DEF F, s
<1>10. \A n \in DOMAIN ReadFields(kind) : ReadData(s, kind)[n] = data[n]
  BY <1>6, <1>8, <1>9 DEF ReadData
<1> QED
  BY <1>10 DEF s, kind, data, o

\* A record the device did not write reads as zeros.
LEMMA ReadsNothing ==
  ASSUME RunHolds, NEW i \in Instances, NEW k \in 1 .. PerInstance,
         Slot(i, k) < capacity, ~OnDevice(i, k)
  PROVE  \A n \in DOMAIN ReadFields(Plan[k].kind) :
           ReadData(Slot(i, k), Plan[k].kind)[n] = 0
<1> DEFINE s == Slot(i, k)
           kind == Plan[k].kind
           F == StoredFields(kind)
<1>1. s \in Nat
  BY SlotOwn DEF RunHolds
<1>2. SlotWords(s) \cap DOMAIN buffer = {}
  BY DEF RunHolds, BufferHolds, Area
<1>3. Following(F) /\ ReadFields(kind) = F
  BY FieldsFollow, FieldsAgree
<1> HIDE DEF kind, s
<1>4. ASSUME NEW n \in 1 .. Len(F)
      PROVE  LoadValue(FieldWord(s, F[n]), F[n].bytes) = 0
  <2> DEFINE b == F[n].bytes
             f == F[n]
             off == F[n].offset
             x == FieldWord(s, f)
  <2>1. b \in {4, 8} /\ off \in {16, 20, 24, 28, 32, 40} /\ off + b <= 64 /\ f.offset = off
    BY <1>3 DEF Following
  <2> HIDE DEF b, f, off
  <2>2. x = 8 + 16 * s + off \div 4 /\ x \in Nat
    BY <1>1, <2>1, FieldInSlot
  <2>3. off \div 4 \in 4 .. 10 /\ b \div 4 \in 1 .. 2 /\ off \div 4 + b \div 4 <= 16
    BY <2>1
  <2>4. \A j \in 1 .. b \div 4 : x + j - 1 \in SlotWords(s)
    <3> DEFINE w == off \div 4
               z == b \div 4
    <3>1. w \in 4 .. 10 /\ z \in 1 .. 2 /\ w + z <= 16 /\ x = 8 + 16 * s + w
      BY <2>2, <2>3
    <3> HIDE DEF w, z, x
    <3>2. \A j \in 1 .. z : x + j - 1 \in 8 + 16 * s .. 23 + 16 * s
      BY <1>1, <3>1
    <3> QED
      BY <3>2 DEF z, SlotWords
  <2>5. \A j \in 1 .. b \div 4 : x + j - 1 \notin DOMAIN buffer
    BY <1>2, <2>4
  <2> HIDE DEF x
  <2>6. LoadValue(x, b) = 0
    BY <2>1, <2>2, <2>5, LoadsZero
  <2> QED
    BY <2>6 DEF b, f, x
<1>5. DOMAIN F = 1 .. Len(F)
  BY <1>3 DEF Following
<1> HIDE DEF F
<1> QED
  BY <1>3, <1>4, <1>5 DEF ReadData, kind, s

\* A slot that is read is a record's.
LEMMA SlotIs ==
  ASSUME Sound, NEW s \in SlotsRead
  PROVE  s < capacity /\ \E i \in Instances, k \in 1 .. PerInstance : s = Slot(i, k)
<1>1. capacity \in Nat /\ PerInstance \in Nat /\ Grid \in Nat
  BY PlanTyped, LaunchAssumption DEF Sound
<1>2. s \in 0 .. capacity - 1 /\ s < Header.written
  BY DEF SlotsRead
<1>3. gridKnown /\ PerInstance # 0 /\ Header.written = Grid * PerInstance
  BY <1>1, <1>2 DEF Header, HeaderOf
<1>4. s < capacity /\ s \in Nat
  BY <1>1, <1>2
<1> DEFINE n == PerInstance
           i == s \div n
           q == s % n
<1>5. n \in Nat \ {0} /\ s < Grid * n
  BY <1>1, <1>2, <1>3
<1> HIDE DEF n
<1>6. s = i * n + q /\ i \in Nat /\ q \in 0 .. n - 1
  BY <1>4, <1>5, Z3
<1> HIDE DEF i, q
<1>7. i < Grid
  <2> SUFFICES ASSUME Grid <= i PROVE FALSE
    BY <1>1, <1>6
  <2>1. Grid * n <= i * n
    BY <1>1, <1>5, <1>6, TimesOrder
  <2> DEFINE x == Grid * n
             y == i * n
  <2>2. x <= y /\ s < x /\ s = y + q /\ x \in Nat /\ y \in Nat
    BY <1>1, <1>5, <1>6, <2>1
  <2> HIDE DEF x, y
  <2> QED
    BY <1>6, <2>2
<1>8. i \in Instances /\ q + 1 \in 1 .. PerInstance
  BY <1>1, <1>5, <1>6, <1>7 DEF Instances, n
<1>9. s = Slot(i, q + 1)
  BY <1>6 DEF Slot, SlotOf, n
<1> QED
  BY <1>4, <1>8, <1>9

\* What is decoded from a record's slot.
LEMMA DecodedIs ==
  ASSUME Sound, NEW i \in Instances, NEW k \in 1 .. PerInstance
  PROVE  LET d == DecodeSlot(Slot(i, k)) IN
         /\ d.id = Plan[k].id /\ d.kind = Plan[k].kind /\ d.operand = Plan[k].operand
         /\ d.of = Plan[k].of /\ d.instance = i /\ d.index = k
         /\ d.data = ReadData(Slot(i, k), Plan[k].kind)
<1>1. InstanceOf(Slot(i, k), PerInstance) = i /\ RecordOf(Slot(i, k), PerInstance) = k - 1
  BY SlotOwn
<1>2. (k - 1) + 1 = k
  BY PlanTyped
<1> QED
  BY <1>1, <1>2 DEF DecodeSlot

\* Where the dump of a record of an instance starts.
Start(i, k) == PayloadAt(capacity, i, Payload, Entry[k].offset)

\* A launch that is accepted keeps every offset below the width of its field.
LEMMA OffsetsFit ==
  ASSUME Sound, Accepted, NEW i \in Instances, NEW k \in DOMAIN Entry
  PROVE  Start(i, k) % Offsets = Start(i, k)
<1> DEFINE o == Entry[k].offset
           len == Entry[k].length
           a == RecordArea(capacity)
           p == Start(i, k)
<1>1. /\ p \in Nat /\ o \in Nat /\ len \in Nat \ {0} /\ o + len <= Payload /\ Payload \in Nat
  BY EntryPlace DEF Start
<1>2. FullDump
  BY DEF FullDump
<1>3. ~(a + Grid * Payload >= Offsets)
  BY <1>2 DEF Accepted, LaunchRefused, TooLarge
<1>4. p = a + i * Payload + o
  BY DEF PayloadAt, Start
<1>5. Grid \in Nat /\ Offsets \in Nat \ {0} /\ i \in 0 .. Grid - 1 /\ capacity \in Nat
  BY LaunchAssumption DEF Instances, Sound
<1>6. a \in Nat
  BY <1>5 DEF RecordArea, HeaderBytes, RecordBytes
<1> HIDE DEF o, len, a, p
<1>7. (i + 1) * Payload <= Grid * Payload /\ (i + 1) * Payload = i * Payload + Payload
  <2>1. i + 1 \in Nat /\ i + 1 <= Grid
    BY <1>5
  <2> QED
    BY <1>1, <1>5, <2>1, TimesOrder, Z3
<1>8. i * Payload \in Nat /\ Grid * Payload \in Nat
  BY <1>1, <1>5
<1> DEFINE x == i * Payload
           y == Grid * Payload
<1>9. x \in Nat /\ y \in Nat /\ x + Payload <= y /\ ~(a + y >= Offsets) /\ p = a + x + o
  BY <1>3, <1>4, <1>7, <1>8
<1> HIDE DEF x, y
<1>10. p < Offsets
  BY <1>1, <1>5, <1>6, <1>9
<1> QED
  BY <1>1, <1>5, <1>10 DEF p

\* A dump that ran refers to its payload, and one that did not is cleared.
LEMMA RefRead ==
  ASSUME RunHolds, NEW i \in Instances, NEW k \in DOMAIN Entry
  PROVE  LET d == DecodeSlot(Slot(i, k)) IN
         /\ Slot(i, k) < capacity
         /\ Seen(i, k).ran => d.data[1] = Start(i, k) /\ d.data[2] = Entry[k].length
                              /\ d.data[2] # 0
         /\ ~Seen(i, k).ran => d.data = <<0, 0>> /\ d.data[2] = 0
<1> DEFINE d == DecodeSlot(Slot(i, k))
           kind == Plan[k].kind
<1>1. k \in 1 .. PerInstance /\ Dumped(Plan[k])
  BY PlanTyped DEF RunHolds
<1>2. FullDump
  BY DEF FullDump
<1>3. Slot(i, k) < capacity
  BY <1>1, <1>2, SlotsFit DEF RunHolds
<1>4. kind \in {"value", "address"}
  BY <1>1 DEF Dumped
<1>5. ReadFields(kind) = <<Field(16, 4), Field(20, 4)>>
  BY <1>4 DEF ReadFields
<1>6. DOMAIN ReadFields(kind) = 1 .. 2
  BY <1>5
<1>7. d.data = ReadData(Slot(i, k), kind)
  BY <1>1, DecodedIs DEF RunHolds
<1>8. ~LeftToHost(Plan[k])
  BY <1>4 DEF LeftToHost
<1>9. ASSUME Seen(i, k).ran
      PROVE  d.data[1] = Start(i, k) /\ d.data[2] = Entry[k].length /\ d.data[2] # 0
  <2>1. OnDevice(i, k)
    BY <1>8, <1>9 DEF OnDevice
  <2>2. \A n \in 1 .. 2 : d.data[n] = RecordData(i, k, Seen(i, k))[n]
    <3>1. \A n \in DOMAIN ReadFields(kind) : ReadData(Slot(i, k), kind)[n] = RecordData(i, k, Seen(i, k))[n]
      BY <1>1, <1>3, <2>1, ReadsBack
    <3> HIDE DEF d, kind
    <3> QED
      BY <1>6, <1>7, <3>1
  <2>3. RecordData(i, k, Seen(i, k)) = <<Start(i, k) % Offsets, Entry[k].length>>
    <3>1. RecordData(i, k, Seen(i, k)) = RefAt(i, k)
      BY <1>1, <1>4 DEF RecordData
    <3> QED
      BY <3>1 DEF RefAt, Start
  <2>4. Start(i, k) % Offsets = Start(i, k)
    BY OffsetsFit DEF RunHolds
  <2>5. Entry[k].length \in Nat \ {0}
    BY EntryPlace DEF RunHolds
  <2> HIDE DEF d
  <2> QED
    BY <2>2, <2>3, <2>4, <2>5
<1>10. ASSUME ~Seen(i, k).ran
       PROVE  d.data = <<0, 0>> /\ d.data[2] = 0
  <2>1. ~OnDevice(i, k)
    BY <1>10 DEF OnDevice
  <2>2. \A n \in DOMAIN ReadFields(kind) : ReadData(Slot(i, k), kind)[n] = 0
    BY <1>1, <1>3, <2>1, ReadsNothing
  <2>3. ReadData(Slot(i, k), kind) = [n \in 1 .. 2 |-> ReadData(Slot(i, k), kind)[n]]
    BY <1>6 DEF ReadData
  <2> HIDE DEF d, kind
  <2>4. ReadData(Slot(i, k), kind) = [n \in 1 .. 2 |-> 0]
    BY <1>6, <2>2, <2>3
  <2> QED
    BY <1>7, <2>4
<1> QED
  BY <1>3, <1>9, <1>10

\* What is cut out of the payload is what was dumped, if anything was.
LEMMA CutRead ==
  ASSUME RunHolds, NEW i \in Instances, NEW k \in DOMAIN Entry, Seen(i, k).ran,
         ~Lost(kernel[Plan[k].of], Plan[k])
  PROVE  Cut(DecodeSlot(Slot(i, k)))
           = PayloadValues(i, kernel[Plan[k].of], Seen(i, k), Plan[k])
<1> DEFINE d == DecodeSlot(Slot(i, k))
           o == Seen(i, k)
           v == PayloadValues(i, kernel[Plan[k].of], o, Plan[k])
           n == Observed(kernel, Plan[k]).lanes
           b == Entry[k].bytes
           p == Start(i, k)
           f == FirstWord(i, k)
<1>1. k \in 1 .. PerInstance /\ Dumped(Plan[k])
  BY PlanTyped DEF RunHolds
<1>2. Plan[k].of \in DOMAIN kernel /\ o \in Observations(kernel[Plan[k].of])
  BY <1>1, SeenOne DEF RunHolds
<1>3. d.data[1] = p /\ d.data[2] = Entry[k].length /\ d.index = k
  BY <1>1, RefRead, DecodedIs DEF RunHolds
<1>4. n \in Nat \ {0} /\ Len(v) = n /\ v = [l \in 1 .. n |-> v[l]]
  BY <1>2, PayloadIs DEF RunHolds
<1>5. /\ p \in Nat /\ f = p \div 4 /\ f \in Nat /\ 4 * f = p
      /\ b \in {4, 8} /\ Entry[k].length = b * n
  BY EntryPlace DEF RunHolds, Start
<1>6. OnDevice(i, k)
  BY <1>1 DEF OnDevice, LeftToHost, Dumped
<1>7. \A w \in DOMAIN StorePayload(i, k, o) : w \in DOMAIN buffer /\ buffer[w] = StorePayload(i, k, o)[w]
  <2>1. Slot(i, k) < capacity
    BY RefRead
  <2>2. \A w \in DOMAIN WordsWritten(i, k, o) : w \in DOMAIN buffer /\ buffer[w] = WordsWritten(i, k, o)[w]
    BY <1>1, <1>6, <2>1 DEF RunHolds, BufferHolds
  <2> DEFINE words == RecordWords(Slot(i, k), Plan[k].kind, RecordData(i, k, o))
             pay == StorePayload(i, k, o)
  <2>3. WordsWritten(i, k, o) = Stored(words, pay)
    BY <1>1 DEF WordsWritten
  <2> HIDE DEF words, pay
  <2>4a. /\ DOMAIN Stored(words, pay) = DOMAIN pay \cup DOMAIN words
         /\ \A w \in DOMAIN pay \cup DOMAIN words :
              Stored(words, pay)[w] = IF w \in DOMAIN pay THEN pay[w] ELSE words[w]
    BY StoredHolds
  <2>4. \A w \in DOMAIN pay : w \in DOMAIN Stored(words, pay) /\ Stored(words, pay)[w] = pay[w]
    BY <2>4a
  <2> QED
    BY <2>2, <2>3, <2>4 DEF pay
<1>8. StorePayload(i, k, o) = Laid(f, b, v)
  BY DEF StorePayload
<1>9. Cut(d) = [l \in 1 .. d.data[2] \div b |-> LoadValue((d.data[1] + b * (l - 1)) \div 4, b)]
  BY <1>3 DEF Cut
<1> HIDE DEF d, o, v, n, b, p, f
<1>10. d.data[2] \div b = n
  <2>1. d.data[2] = b * n
    BY <1>3, <1>5
  <2>2. (b * n) \div b = n
    BY <1>4, <1>5
  <2> QED
    BY <2>1, <2>2
<1>11. LaidFrom(f, b, v)
  BY <1>4, <1>5, LaidWords
<1>12. ASSUME NEW l \in 1 .. n
       PROVE  LoadValue((d.data[1] + b * (l - 1)) \div 4, b) = v[l]
  <2> DEFINE x == (p + b * (l - 1)) \div 4
             y == v[l]
  <2>1. x = f + (b \div 4) * (l - 1) /\ x \in Nat
    <3> DEFINE m == l - 1
    <3>0. m \in Nat /\ p = 4 * f /\ f \in Nat
      BY <1>4, <1>5
    <3> HIDE DEF m
    <3>1. ASSUME b = 4 PROVE (p + b * m) \div 4 = f + (b \div 4) * m
      <4>1. (4 * f + 4 * m) \div 4 = f + m /\ 4 \div 4 = 1
        BY <3>0
      <4> QED
        BY <3>0, <3>1, <4>1
    <3>2. ASSUME b = 8 PROVE (p + b * m) \div 4 = f + (b \div 4) * m
      <4>1. (4 * f + 8 * m) \div 4 = f + 2 * m /\ 8 \div 4 = 2
        BY <3>0
      <4> QED
        BY <3>0, <3>2, <4>1
    <3>3. (p + b * m) \div 4 = f + (b \div 4) * m
      BY <1>5, <3>1, <3>2
    <3>4. f + (b \div 4) * m \in Nat
      BY <1>5, <3>0
    <3> QED
      BY <3>3, <3>4 DEF m
  <2>2. \A j \in 1 .. b \div 4 :
          LET w == f + (b \div 4) * (l - 1) + j - 1 IN
          w \in DOMAIN Laid(f, b, v) /\ Laid(f, b, v)[w] = WordsOf(v[l], b)[j]
    <3>1. l \in 1 .. Len(v)
      BY <1>4
    <3> QED
      BY <1>11, <3>1 DEF LaidFrom
  <2>3. \A j \in 1 .. b \div 4 : x + j - 1 \in DOMAIN buffer /\ buffer[x + j - 1] = WordsOf(y, b)[j]
    <3> HIDE DEF x
    <3> QED
      BY <1>7, <1>8, <2>1, <2>2
  <2> HIDE DEF x, y
  <2>4. LoadValue(x, b) = y
    BY <1>5, <2>1, <2>3, LoadsBack
  <2> QED
    BY <1>3, <2>4 DEF x, y
<1>13. Cut(d) = [l \in 1 .. n |-> v[l]]
  BY <1>9, <1>10, <1>12
<1> QED
  BY <1>4, <1>13 DEF d, v, o

-----------------------------------------------------------------------------
(* Addresses.                                                               *)

\* Sums are functions of whole numbers.
Adds(f, n, g) == f = [k \in 0 .. n |-> IF k = 0 THEN 0 ELSE f[k - 1] + g[k]]
\* There is such a sum.
LEMMA SumExists ==
  ASSUME NEW n \in Nat, NEW g \in [1 .. n -> Int]
  PROVE  \E f : Adds(f, n, g)
<1> DEFINE V == Int
           base == 0
           Step == [p \in V \X (1 .. n) |-> p[1] + g[p[2]]]
<1>1. base \in V /\ Step \in [V \X (1 .. n) -> V]
  OBVIOUS
<1>2. \A v \in V, k \in 1 .. n : Step[<<v, k>>] = v + g[k]
  OBVIOUS
<1> HIDE DEF V, Step, base
<1>3a. PICK f \in [0 .. n -> V] : Recurs(f, n, base, Step)
  BY <1>1, Recursion
<1>3. f = [k \in 0 .. n |-> IF k = 0 THEN base ELSE Step[<<f[k - 1], k>>]]
  BY <1>3a DEF Recurs
<1>4. ASSUME NEW k \in 0 .. n
      PROVE  (IF k = 0 THEN base ELSE Step[<<f[k - 1], k>>]) = IF k = 0 THEN 0 ELSE f[k - 1] + g[k]
  <2>1. CASE k = 0
    BY <2>1 DEF base
  <2>2. CASE k # 0
    <3>1. k \in 1 .. n /\ k - 1 \in 0 .. n
      BY <2>2
    <3>2. f[k - 1] \in V
      BY <3>1
    <3> QED
      BY <1>2, <2>2, <3>1, <3>2
  <2> QED
    BY <2>1, <2>2
<1>5. f = [k \in 0 .. n |-> IF k = 0 THEN 0 ELSE f[k - 1] + g[k]]
  BY <1>3, <1>4
<1> QED
  BY <1>5 DEF Adds
\* It is a number at every step.
LEMMA SumTyped ==
  ASSUME NEW n \in Nat, NEW g \in [1 .. n -> Int], NEW f, Adds(f, n, g)
  PROVE  /\ \A k \in 0 .. n : f[k] \in Int
         /\ f[0] = 0 /\ \A k \in 1 .. n : f[k] = f[k - 1] + g[k]
<1>1. \A k \in 0 .. n : f[k] = IF k = 0 THEN 0 ELSE f[k - 1] + g[k]
  <2>1. f = [k \in 0 .. n |-> IF k = 0 THEN 0 ELSE f[k - 1] + g[k]]
    BY DEF Adds
  <2> QED
    BY <2>1
<1> DEFINE P == {k \in 0 .. n : f[k] \in Int}
<1>2. 0 \in P
  BY <1>1
<1>3. \A k \in 1 .. n : k - 1 \in P => k \in P
  <2> TAKE k \in 1 .. n
  <2> HAVE k - 1 \in P
  <2>1. f[k] = f[k - 1] + g[k] /\ f[k - 1] \in Int /\ g[k] \in Int
    BY <1>1
  <2> QED
    BY <2>1
<1>4. 0 .. n \subseteq P
  <2> HIDE DEF P
  <2> QED
    BY <1>2, <1>3, UpTo
<1> QED
  BY <1>1, <1>4

\* The offset of a lane, and of the first one.
FirstTerms(op) == [k \in 1 .. Len(op.offsets) |-> op.offsets[k].first]
\* The terms that a lane adds to the base address.
LaneTerms(op, l) ==
  [k \in 1 .. Len(op.offsets) |-> op.offsets[k].first + op.offsets[k].step * l]
\* The first offset and that of a lane are sums of the operation's terms.
LEMMA OffsetsAdd ==
  ASSUME NEW op, op.offsets \in Seq(OffsetTerms), NEW l \in Int
  PROVE  LET n == Len(op.offsets) IN
         /\ \E f : f[n] = FirstOffset(op) /\ Adds(f, n, FirstTerms(op))
         /\ \E f : f[n] = LaneOffset(op, l)
                   /\ Adds(f, n, LaneTerms(op, l))
<1> DEFINE n == Len(op.offsets)
           g == [k \in 1 .. n |-> op.offsets[k].first]
           h == [k \in 1 .. n |-> op.offsets[k].first + op.offsets[k].step * l]
<1>1. n \in Nat
  OBVIOUS
<1>2. \A k \in 1 .. n : op.offsets[k].first \in Int /\ op.offsets[k].step \in Int
  <2>1. \A k \in 1 .. n : op.offsets[k] \in OffsetTerms
    OBVIOUS
  <2> QED
    BY <2>1 DEF OffsetTerms
<1>3. g \in [1 .. n -> Int] /\ h \in [1 .. n -> Int]
  <2> HIDE DEF n
  <2> QED
    BY <1>2
<1>4. \E f : f[n] = FirstOffset(op) /\ Adds(f, n, g)
  <2> DEFINE upTo[k \in 0 .. n] == IF k = 0 THEN 0 ELSE upTo[k - 1] + op.offsets[k].first
  <2>1. PICK f : Adds(f, n, g)
    <3> HIDE DEF n, g
    <3> QED
      BY <1>1, <1>3, SumExists
  <2>2. f = [k \in 0 .. n |-> IF k = 0 THEN 0 ELSE f[k - 1] + op.offsets[k].first]
    <3>1. f = [k \in 0 .. n |-> IF k = 0 THEN 0 ELSE f[k - 1] + g[k]]
      BY <2>1 DEF Adds
    <3>2. \A k \in 0 .. n : k # 0 => g[k] = op.offsets[k].first
      OBVIOUS
    <3> HIDE DEF g, n
    <3> QED
      BY <3>1, <3>2
  <2>3. upTo = [k \in 0 .. n |-> IF k = 0 THEN 0 ELSE upTo[k - 1] + op.offsets[k].first]
    <3> HIDE DEF n
    <3> QED
      BY <2>2
  <2>4. FirstOffset(op) = upTo[n]
    BY DEF FirstOffset
  <2> HIDE DEF upTo
  <2>5. upTo = [k \in 0 .. n |-> IF k = 0 THEN 0 ELSE upTo[k - 1] + g[k]]
    <3>2. \A k \in 0 .. n : k # 0 => g[k] = op.offsets[k].first
      OBVIOUS
    <3> HIDE DEF g, n
    <3> QED
      BY <2>3, <3>2
  <2>6. Adds(upTo, n, g)
    BY <2>5 DEF Adds
  <2> HIDE DEF g, n
  <2> QED
    BY <2>4, <2>6
<1>5. \E f : f[n] = LaneOffset(op, l) /\ Adds(f, n, h)
  <2> DEFINE upTo[k \in 0 .. n] ==
               IF k = 0 THEN 0 ELSE upTo[k - 1] + op.offsets[k].first + op.offsets[k].step * l
             term(f, k) == f[k - 1] + op.offsets[k].first + op.offsets[k].step * l
  <2>0. \A f, k : (\A j \in 0 .. n : f[j] \in Int) /\ k \in 1 .. n => term(f, k) = f[k - 1] + h[k]
    <3> TAKE f, k
    <3> HAVE (\A j \in 0 .. n : f[j] \in Int) /\ k \in 1 .. n
    <3>1. f[k - 1] \in Int /\ op.offsets[k].first \in Int /\ op.offsets[k].step * l \in Int
      <4>1. k - 1 \in 0 .. n
        BY <1>1
      <4> QED
        BY <1>2, <4>1
    <3>2. h[k] = op.offsets[k].first + op.offsets[k].step * l
      OBVIOUS
    <3> DEFINE a == f[k - 1]
               b == op.offsets[k].first
               c == op.offsets[k].step * l
    <3>3. a \in Int /\ b \in Int /\ c \in Int /\ term(f, k) = a + b + c /\ h[k] = b + c
      BY <3>1, <3>2
    <3> HIDE DEF a, b, c
    <3>4. a + b + c = a + (b + c)
      BY <3>3
    <3> HIDE DEF h, term
    <3> QED
      BY <3>3, <3>4 DEF a
  <2>1. PICK f : Adds(f, n, h)
    <3> HIDE DEF n, h
    <3> QED
      BY <1>1, <1>3, SumExists
  <2>1a. \A j \in 0 .. n : f[j] \in Int
    <3> HIDE DEF n, h
    <3> QED
      BY <1>1, <1>3, <2>1, SumTyped
  <2>2. f = [k \in 0 .. n |-> IF k = 0 THEN 0 ELSE term(f, k)]
    <3>1. f = [k \in 0 .. n |-> IF k = 0 THEN 0 ELSE f[k - 1] + h[k]]
      BY <2>1 DEF Adds
    <3>2. \A k \in 0 .. n : k # 0 => f[k - 1] + h[k] = term(f, k)
      <4>1. \A k \in 0 .. n : k # 0 => k \in 1 .. n
        BY <1>1
      <4> HIDE DEF h, n, term
      <4> QED
        BY <2>0, <2>1a, <4>1
    <3> HIDE DEF h, n, term
    <3> QED
      BY <3>1, <3>2
  <2>3. upTo = [k \in 0 .. n |-> IF k = 0 THEN 0 ELSE term(upTo, k)]
    <3> HIDE DEF n
    <3> QED
      BY <2>2
  <2>4. LaneOffset(op, l) = upTo[n]
    BY DEF LaneOffset
  <2> HIDE DEF upTo
  <2>3a. \A k \in 0 .. n : upTo[k] = IF k = 0 THEN 0 ELSE term(upTo, k)
    <3> HIDE DEF n, term
    <3> QED
      BY <2>3
  <2>5a. \A j \in 0 .. n : upTo[j] \in Int
    <3> DEFINE P == {k \in 0 .. n : upTo[k] \in Int}
    <3>1. 0 \in P
      BY <1>1, <2>3a
    <3>2. \A k \in 1 .. n : k - 1 \in P => k \in P
      <4> TAKE k \in 1 .. n
      <4> HAVE k - 1 \in P
      <4>1. upTo[k] = term(upTo, k) /\ k \in 0 .. n
        BY <1>1, <2>3a
      <4>2. upTo[k - 1] \in Int /\ op.offsets[k].first \in Int /\ op.offsets[k].step * l \in Int
        BY <1>2
      <4>3. term(upTo, k) \in Int
        BY <4>2
      <4> QED
        BY <4>1, <4>3
    <3>3. 0 .. n \subseteq P
      <4> HIDE DEF P, n
      <4> QED
        BY <1>1, <3>1, <3>2, UpTo
    <3> QED
      BY <3>3
  <2>5. upTo = [k \in 0 .. n |-> IF k = 0 THEN 0 ELSE upTo[k - 1] + h[k]]
    <3>2. \A k \in 0 .. n : k # 0 => upTo[k - 1] + h[k] = term(upTo, k)
      <4>1. \A k \in 0 .. n : k # 0 => k \in 1 .. n
        BY <1>1
      <4> HIDE DEF h, n, term
      <4> QED
        BY <2>0, <2>5a, <4>1
    <3> HIDE DEF h, n, term
    <3> QED
      BY <2>3, <3>2
  <2>6. Adds(upTo, n, h)
    BY <2>5 DEF Adds
  <2> HIDE DEF h, n
  <2> QED
    BY <2>4, <2>6
<1>6. g = FirstTerms(op) /\ h = LaneTerms(op, l)
  BY DEF FirstTerms, LaneTerms
<1> HIDE DEF g, h
<1> QED
  BY <1>4, <1>5, <1>6

\* One offset that grows lane by lane: the lanes follow each other.
LEMMA LanesFollow ==
  ASSUME NEW op, op.offsets \in Seq(OffsetTerms), NEW l \in Nat, op.offsets = <<>> => l = 0,
         Contiguous(op)
  PROVE  FirstOffset(op) \in Int /\ LaneOffset(op, l) = FirstOffset(op) + l
<1> DEFINE n == Len(op.offsets)
           g == [k \in 1 .. n |-> op.offsets[k].first]
           h == [k \in 1 .. n |-> op.offsets[k].first + op.offsets[k].step * l]
<1>0. g = FirstTerms(op) /\ h = LaneTerms(op, l) /\ l \in Int
  BY DEF FirstTerms, LaneTerms
<1>1. PICK f : f[n] = FirstOffset(op) /\ Adds(f, n, g)
  <2> HIDE DEF g, h
  <2> QED
    BY <1>0, OffsetsAdd
<1>2. PICK e : e[n] = LaneOffset(op, l) /\ Adds(e, n, h)
  <2> HIDE DEF g, h
  <2> QED
    BY <1>0, OffsetsAdd
<1>3. n \in Nat /\ DOMAIN op.offsets = 1 .. n
  OBVIOUS
<1>4. \A k \in 1 .. n : op.offsets[k].first \in Int /\ op.offsets[k].step \in Int
  <2>1. \A k \in 1 .. n : op.offsets[k] \in OffsetTerms
    OBVIOUS
  <2> QED
    BY <2>1 DEF OffsetTerms
<1>5. g \in [1 .. n -> Int] /\ h \in [1 .. n -> Int]
  <2> HIDE DEF n
  <2> QED
    BY <1>4
<1>6. /\ \A k \in 0 .. n : f[k] \in Int
      /\ f[0] = 0 /\ \A k \in 1 .. n : f[k] = f[k - 1] + g[k]
  <2> HIDE DEF n, g, h
  <2> QED
    BY <1>1, <1>3, <1>5, SumTyped
<1>7. /\ \A k \in 0 .. n : e[k] \in Int
      /\ e[0] = 0 /\ \A k \in 1 .. n : e[k] = e[k - 1] + h[k]
  <2> HIDE DEF n, g, h
  <2> QED
    BY <1>2, <1>3, <1>5, SumTyped
<1>8. CASE op.offsets = <<>>
  <2>1. n = 0 /\ l = 0
    BY <1>8
  <2> HIDE DEF n
  <2> QED
    BY <1>1, <1>2, <1>6, <1>7, <2>1
<1>9. CASE op.offsets # <<>>
  <2> DEFINE Ones == {k \in DOMAIN op.offsets : op.offsets[k].step = 1}
  <2>1. /\ \A k \in DOMAIN op.offsets : op.offsets[k].step \in {0, 1}
        /\ Cardinality(Ones) = 1
    BY <1>9 DEF Contiguous
  <2>2. DOMAIN op.offsets = 1 .. n /\ IsFiniteSet(1 .. n)
    <3>1. \A a, b \in Int : IsFiniteSet(a .. b)
      BY FS_Interval
    <3>2. DOMAIN op.offsets = 1 .. n
      BY <1>3
    <3>3. n \in Int
      BY <1>3
    <3> HIDE DEF n
    <3> QED
      BY <3>1, <3>2, <3>3
  <2>3. IsFiniteSet(Ones)
    BY <2>2, FS_Subset
  <2>4. PICK u : Ones = {u}
    <3> HIDE DEF Ones
    <3> QED
      BY <2>1, <2>3, FS_Singleton
  <2>5. u \in 1 .. n /\ \A k \in 1 .. n : op.offsets[k].step = IF k = u THEN 1 ELSE 0
    BY <2>1, <2>2, <2>4
  <2>6. \A k \in 1 .. n : h[k] = g[k] + IF k = u THEN l ELSE 0
    <3> TAKE k \in 1 .. n
    <3>1. h[k] = op.offsets[k].first + op.offsets[k].step * l /\ g[k] = op.offsets[k].first
      OBVIOUS
    <3>2. op.offsets[k].first \in Int /\ 1 * l = l /\ 0 * l = 0
      BY <1>4
    <3>3. op.offsets[k].step = IF k = u THEN 1 ELSE 0
      BY <2>5
    <3> HIDE DEF g, h
    <3> QED
      BY <3>1, <3>2, <3>3
  <2> DEFINE P == {k \in 0 .. n : e[k] = f[k] + IF k >= u THEN l ELSE 0}
  <2> HIDE DEF n, g, h, Ones
  <2>7. 0 \in P
    BY <1>3, <1>6, <1>7, <2>5
  <2>8. \A k \in 1 .. n : k - 1 \in P => k \in P
    <3> TAKE k \in 1 .. n
    <3> HAVE k - 1 \in P
    <3>1. /\ f[k] = f[k - 1] + g[k] /\ e[k] = e[k - 1] + h[k]
          /\ h[k] = g[k] + IF k = u THEN l ELSE 0
          /\ e[k - 1] = f[k - 1] + IF k - 1 >= u THEN l ELSE 0
          /\ f[k - 1] \in Int /\ g[k] \in Int
      BY <1>5, <1>6, <1>7, <2>6
    <3>2. e[k] = f[k] + IF k >= u THEN l ELSE 0
      BY <2>5, <3>1
    <3> QED
      BY <3>2
  <2>9. 0 .. n \subseteq P
    <3> HIDE DEF P
    <3> QED
      BY <1>3, <2>7, <2>8, UpTo
  <2>10. e[n] = f[n] + l
    BY <1>3, <2>5, <2>9
  <2> QED
    BY <1>1, <1>2, <1>3, <1>6, <2>10
<1> QED
  BY <1>8, <1>9

\* Addresses that follow each other at one distance.
Spread(T, x, b, a) == T = {x + b * l : l \in 0 .. a - 1}
\* Addresses that lie b apart from x on: their number, the lowest and the highest.
LEMMA Spaced ==
  ASSUME NEW x \in Int, NEW b \in Nat \ {0}, NEW a \in Nat, NEW T, Spread(T, x, b, a)
  PROVE  /\ Cardinality(T) = a
         /\ T = {} <=> a = 0
         /\ a # 0 => Lowest(T) = x /\ Highest(T) = x + b * (a - 1)
<1>0. T = {x + b * l : l \in 0 .. a - 1}
  BY DEF Spread
<1> DEFINE f == [n \in 1 .. a |-> x + b * (n - 1)]
<1>1. \A m \in Nat, l \in Nat : m < l => x + b * m < x + b * l /\ x + b * m \in Int
  <2> TAKE m \in Nat, l \in Nat
  <2> HAVE m < l
  <2>1. (l - m) * b >= 1 * b /\ (l - m) * b = b * l - b * m
    BY TimesOrder, Z3
  <2>2. b * m \in Nat /\ b * l \in Nat
    OBVIOUS
  <2> DEFINE y == b * m
             z == b * l
             w == (l - m) * b
  <2>3. y \in Nat /\ z \in Nat /\ w = z - y /\ w >= b
    BY <2>1, <2>2
  <2> HIDE DEF y, z, w
  <2>4. x + y < x + z /\ x + y \in Int
    BY <2>3
  <2> QED
    BY <2>4 DEF y, z
<1>2. \A n \in 1 .. a : f[n] \in T
  <2> TAKE n \in 1 .. a
  <2>1. n - 1 \in 0 .. a - 1 /\ f[n] = x + b * (n - 1)
    OBVIOUS
  <2> HIDE DEF f
  <2> QED
    BY <1>0, <2>1
<1>3. f \in Bijection(1 .. a, T)
  <2>1. f \in [1 .. a -> T]
    BY <1>2
  <2>2. \A m, n \in 1 .. a : f[m] = f[n] => m = n
    <3> SUFFICES ASSUME NEW m \in 1 .. a, NEW n \in 1 .. a, m < n PROVE f[m] # f[n]
      <4> HIDE DEF f
      <4> QED
        OBVIOUS
    <3>1. m - 1 \in Nat /\ n - 1 \in Nat /\ m - 1 < n - 1
      OBVIOUS
    <3>2. x + b * (m - 1) < x + b * (n - 1) /\ x + b * (m - 1) \in Int
      BY <1>1, <3>1
    <3>3. f[m] = x + b * (m - 1) /\ f[n] = x + b * (n - 1)
      OBVIOUS
    <3>4. x + b * (n - 1) \in Int
      OBVIOUS
    <3> QED
      BY <3>2, <3>3, <3>4
  <2>3. \A t \in T : \E n \in 1 .. a : f[n] = t
    <3> TAKE t \in T
    <3>1. PICK l \in 0 .. a - 1 : t = x + b * l
      BY <1>0
    <3>2. l + 1 \in 1 .. a /\ (l + 1) - 1 = l
      OBVIOUS
    <3>3. f[l + 1] = t
      BY <3>1, <3>2
    <3> QED
      BY <3>2, <3>3
  <2> HIDE DEF f
  <2> QED
    BY <2>1, <2>2, <2>3 DEF Bijection, Injection, Surjection, IsInjective
<1>4. IsFiniteSet(1 .. a) /\ Cardinality(1 .. a) = a
  <2>1. Cardinality(1 .. a) = IF 1 > a THEN 0 ELSE a - 1 + 1
    BY FS_Interval
  <2> QED
    BY <2>1, FS_Interval
<1>5. Cardinality(T) = a
  <2>1. ExistsBijection(1 .. a, T)
    BY <1>3 DEF ExistsBijection
  <2> QED
    BY <1>4, <2>1, FS_Bijection
<1>6. (T = {} <=> a = 0) /\ T \subseteq Int
  <2>1. a # 0 => 0 \in 0 .. a - 1
    OBVIOUS
  <2>2. a = 0 => 0 .. a - 1 = {}
    OBVIOUS
  <2> QED
    BY <1>0, <2>1, <2>2
<1>7. ASSUME a # 0 PROVE Lowest(T) = x /\ Highest(T) = x + b * (a - 1)
  <2>0. T # {} /\ T \subseteq Int
    BY <1>6, <1>7
  <2>1. x \in T
    <3>1. x = x + b * 0 /\ 0 \in 0 .. a - 1
      BY <1>7
    <3> QED
      BY <1>0, <3>1
  <2>2. \A t \in T : x <= t
    <3> TAKE t \in T
    <3>1. PICK l \in 0 .. a - 1 : t = x + b * l
      BY <1>0
    <3>2. b * l \in Nat
      OBVIOUS
    <3> DEFINE y == b * l
    <3>3. y \in Nat /\ t = x + y
      BY <3>1, <3>2
    <3> HIDE DEF y
    <3> QED
      BY <3>3
  <2> DEFINE z == x + b * (a - 1)
  <2>3. z \in T
    <3>1. a - 1 \in 0 .. a - 1
      BY <1>7
    <3> QED
      BY <1>0, <3>1
  <2>4. \A t \in T : z >= t
    <3> TAKE t \in T
    <3>1. PICK l \in 0 .. a - 1 : t = x + b * l
      BY <1>0
    <3>2. l = a - 1 \/ (l \in Nat /\ a - 1 \in Nat /\ l < a - 1)
      OBVIOUS
    <3>3. CASE l = a - 1
      <4>1. t = z /\ t \in Int
        BY <2>0, <3>1, <3>3
      <4> HIDE DEF z
      <4> QED
        BY <4>1
    <3>4. CASE l \in Nat /\ a - 1 \in Nat /\ l < a - 1
      <4>1. x + b * l < z
        BY <1>1, <3>4
      <4>2. x + b * l \in Int /\ z \in Int
        BY <2>0, <2>3, <3>1
      <4> HIDE DEF z
      <4> QED
        BY <3>1, <4>1, <4>2
    <3> QED
      BY <3>2, <3>3, <3>4
  <2> HIDE DEF z
  <2>5. Lowest(T) = x
    <3>1. Lowest(T) = CHOOSE t \in T : \A s \in T : t <= s
      BY <2>0 DEF Lowest
    <3>2. \A t \in T : (\A s \in T : t <= s) => t = x
      BY <2>0, <2>1, <2>2
    <3> QED
      BY <2>1, <2>2, <3>1, <3>2
  <2>6. Highest(T) = z
    <3>1. Highest(T) = CHOOSE t \in T : \A s \in T : t >= s
      BY <2>0 DEF Highest
    <3>2. ASSUME NEW t \in T, \A s \in T : t >= s PROVE t = z
      <4>1. t >= z /\ z >= t /\ t \in Int /\ z \in Int
        BY <2>0, <2>3, <2>4, <3>2
      <4> QED
        BY <4>1
    <3> QED
      BY <2>3, <2>4, <3>1, <3>2
  <2> QED
    BY <2>5, <2>6 DEF z
<1> QED
  BY <1>5, <1>6, <1>7

\* A value takes one byte, four or eight in memory.
LEMMA Widths ==
  ASSUME NEW dtype \in Dtypes \ {"none"}
  PROVE  Width(dtype) \in {1, 4, 8}
<1>1. 64 \div 8 = 8 /\ 32 \div 8 = 4
  OBVIOUS
<1> QED
  BY <1>1 DEF Width, BytesOf, Bits, Dtypes

\* An operation without a value accesses no byte.
LEMMA NothingAccessed ==
  ASSUME NEW op, op.dtype = "none"
  PROVE  AccessBytes(op) = 0
<1>1. ElementBits(op) = 0
  BY DEF ElementBits, Bits
<1> QED
  BY <1>1 DEF AccessBytes, BytesOf

\* Where the summary is computed, the first address and the count say it all.
LEMMA TouchedIs ==
  ASSUME NEW op \in KernelOperations, op.ptr = "scalar" => op.lanes = 1, SummarisesAddress(op),
         NEW o \in Observations(op), NEW i \in Instances
  PROVE  LET x == BaseAddress(i, 0) + Width(op.dtype) * FirstOffset(op) IN
         /\ x \in Int /\ Width(op.dtype) \in Nat \ {0} /\ o.active \in Nat
         /\ Spread(Touched(i, op, o), x, Width(op.dtype), o.active)
<1> DEFINE base == BaseAddress(i, 0)
           b == Width(op.dtype)
           f == FirstOffset(op)
           a == o.active
<1>1. i \in Nat
  BY LaunchAssumption DEF Instances
<1>2. base \in Int
  BY <1>1 DEF BaseAddress
<1>3. b \in Nat \ {0}
  <2>1. AccessBytes(op) # 0 /\ op.dtype \in Dtypes
    BY DEF SummarisesAddress, KernelOperations
  <2>2. op.dtype # "none"
    BY <2>1, NothingAccessed
  <2> QED
    BY <2>1, <2>2, Widths
<1>4. op.offsets \in Seq(OffsetTerms) /\ op.lanes \in Nat
  BY DEF KernelOperations
<1>5. Contiguous(op) /\ MaskSupported(op)
  BY DEF SummarisesAddress
<1>6. a \in 0 .. op.lanes
  BY <1>4 DEF Observations
<1>7. op.offsets = <<>> => a <= 1
  BY <1>5, <1>6 DEF Contiguous
<1>8. f \in Int
  <2>1. op.offsets = <<>> => 0 = 0
    OBVIOUS
  <2> QED
    BY <1>4, <1>5, <2>1, LanesFollow
<1>9. ASSUME NEW l \in 0 .. a - 1
      PROVE  LaneAddress(i, op, l) = base + b * f + b * l
  <2>1. l \in Nat /\ (op.offsets = <<>> => l = 0)
    BY <1>6, <1>7
  <2>2. LaneOffset(op, l) = f + l
    BY <1>4, <1>5, <2>1, LanesFollow
  <2>3. LaneAddress(i, op, l) = base + b * (f + l)
    BY <2>2 DEF LaneAddress
  <2> HIDE DEF base, b, f, a
  <2>4. b * (f + l) = b * f + b * l /\ b * f \in Int /\ b * l \in Int
    BY <1>3, <1>8, <2>1, Z3
  <2> DEFINE y == b * f
             z == b * l
  <2>5. LaneAddress(i, op, l) = base + (y + z) /\ y \in Int /\ z \in Int
    BY <2>3, <2>4
  <2> HIDE DEF y, z
  <2>6. LaneAddress(i, op, l) = base + y + z
    BY <1>2, <2>5
  <2> QED
    BY <2>6 DEF y, z
<1>10. Touched(i, op, o) = {base + b * f + b * l : l \in 0 .. a - 1}
  <2>1. Touched(i, op, o) = {LaneAddress(i, op, l) : l \in 0 .. a - 1}
    BY DEF Touched
  <2> HIDE DEF base, b, f, a
  <2> QED
    BY <1>9, <2>1
<1>11. base + b * f \in Int
  <2> HIDE DEF base, b, f, a
  <2> QED
    BY <1>2, <1>3, <1>8
<1>12. a \in Nat
  BY <1>4, <1>6
<1>13. Spread(Touched(i, op, o), base + b * f, b, a)
  BY <1>10 DEF Spread
<1> QED
  BY <1>3, <1>11, <1>12, <1>13

\* The summary the device computes from the first lane and the count.
LEMMA SummaryTrue ==
  ASSUME NEW op \in KernelOperations, op.ptr = "scalar" => op.lanes = 1, SummarisesAddress(op),
         NEW o \in Observations(op), NEW i \in Instances,
         NEW kind \in {"first", "last", "min", "max", "active", "span"}
  PROVE  LET T == Touched(i, op, o)
             x == AddressSummary(i, op, o, kind)
         IN /\ kind \in {"first", "min"} /\ StrideRight(op) => x = Lowest(T)
            /\ kind \in {"last", "max"} /\ StrideRight(op) => x = Highest(T)
            /\ kind = "active" => x = Cardinality(T)
            /\ kind = "span" /\ StrideRight(op) =>
                 x = IF T = {} THEN 0 ELSE Highest(T) - Lowest(T) + Width(op.dtype)
<1> DEFINE T == Touched(i, op, o)
           x == BaseAddress(i, 0) + Width(op.dtype) * FirstOffset(op)
           b == Width(op.dtype)
           a == o.active
           y == AddressSummary(i, op, o, kind)
<1>1. /\ x \in Int /\ b \in Nat \ {0} /\ a \in Nat
      /\ Spread(T, x, b, a)
  BY TouchedIs
<1>2a. kind = "active" => y = a
  BY DEF AddressSummary
<1>2. ASSUME StrideRight(op)
      PROVE  /\ kind = "active" => y = a
             /\ kind = "span" => y = a * b
             /\ kind \in {"first", "min"} => y = IF a = 0 THEN 0 ELSE x
             /\ kind \in {"last", "max"} => y = IF a = 0 THEN 0 ELSE x + b * (a - 1)
  <2>0. AccessBytes(op) = b
    BY <1>2 DEF StrideRight
  <2>1. y = CASE kind = "active" -> a
              [] kind = "span"   -> a * b
              [] kind \in {"first", "min"} -> IF a = 0 THEN 0 ELSE x
              [] kind \in {"last", "max"}  -> IF a = 0 THEN 0 ELSE x + b * (a - 1)
    BY <2>0 DEF AddressSummary
  <2> HIDE DEF x, b, a, y
  <2>2. kind = "active" => y = a
    BY <2>1
  <2>3. kind = "span" => y = a * b
    BY <2>1
  <2>4. kind \in {"first", "min"} => y = IF a = 0 THEN 0 ELSE x
    BY <2>1
  <2>5. kind \in {"last", "max"} => y = IF a = 0 THEN 0 ELSE x + b * (a - 1)
    BY <2>1
  <2> QED
    BY <2>2, <2>3, <2>4, <2>5
<1> HIDE DEF T, x, b, a, y
<1>3. /\ Cardinality(T) = a
      /\ T = {} <=> a = 0
      /\ a # 0 => Lowest(T) = x /\ Highest(T) = x + b * (a - 1)
  BY <1>1, Spaced
<1>4. T = {} => Lowest(T) = 0 /\ Highest(T) = 0
  BY DEF Lowest, Highest
<1>5. a = 0 => a * b = 0
  BY <1>1
<1>6. a # 0 => a * b = (x + b * (a - 1)) - x + b
  <2>1. b * (a - 1) = a * b - b /\ a * b \in Int
    BY <1>1, Z3
  <2> DEFINE z == b * (a - 1)
             w == a * b
  <2>2. z = w - b /\ w \in Int
    BY <2>1
  <2> HIDE DEF z, w
  <2>3. w = (x + z) - x + b
    BY <1>1, <2>2
  <2> QED
    BY <2>3 DEF z, w
<1>7. StrideRight(op) => /\ kind \in {"first", "min"} => y = Lowest(T)
                         /\ kind \in {"last", "max"} => y = Highest(T)
  BY <1>2, <1>3, <1>4
<1>8. kind = "active" => y = Cardinality(T)
  BY <1>2a, <1>3
<1>9. kind = "span" /\ StrideRight(op) => y = IF T = {} THEN 0 ELSE Highest(T) - Lowest(T) + b
  BY <1>2, <1>3, <1>5, <1>6
<1> QED
  BY <1>7, <1>8, <1>9 DEF T, y, b

-----------------------------------------------------------------------------
(* The export.                                                              *)

\* An operation that stands outside branches and loops has run in every instance.
AllRan ==
  \A i \in Instances, n \in DOMAIN kernel :
    kernel[n].place \notin {"branch", "loop"} => ran[i][n].ran
\* The record as the host decodes it.
D(i, k) == DecodeSlot(Slot(i, k))

\* A record's id is its operation's or that of an operand of it.
LEMMA IdentityOf ==
  ASSUME Sound, NEW k \in 1 .. PerInstance
  PROVE  /\ Plan[k].of \in Numbered(kernel)
         /\ \E c \in 0 .. Len(kernel[Plan[k].of].captures) :
              /\ Plan[k].id = Identity(kernel[Plan[k].of], c)
              /\ Plan[k].kind \in Observing => c = Plan[k].operand
<1> DEFINE r == Plan[k]
           op == kernel[r.of]
<1>1. r \in Planned(kernel)
  BY PlanTyped
<1>2. r.of \in Numbered(kernel) /\ r.kind \in Observing \cup Located /\ RecordSound(kernel, r)
  BY <1>1 DEF Planned
<1>3. CASE r.kind \in Observing
  BY <1>2, <1>3 DEF RecordSound
<1>4. CASE r.kind \notin Observing
  <2>1. r.id = op.id
    BY <1>2, <1>4 DEF RecordSound
  <2>2. op \in KernelOperations
    BY <1>2 DEF Sound, KernelSound, Numbered
  <2>3. Len(op.captures) \in Nat
    BY <2>2 DEF KernelOperations
  <2>4. 0 \in 0 .. Len(op.captures) /\ r.id = Identity(op, 0)
    BY <2>1, <2>3 DEF Identity
  <2> QED
    BY <1>2, <1>4, <2>4
<1> QED
  BY <1>3, <1>4
\* Two records of one id are of one operation, and of one operand of it.
LEMMA SameId ==
  ASSUME Sound, NEW j \in 1 .. PerInstance, NEW k \in 1 .. PerInstance, Plan[j].id = Plan[k].id
  PROVE  /\ Plan[j].of = Plan[k].of
         /\ Plan[j].kind \in Observing /\ Plan[k].kind \in Observing
              => Plan[j].operand = Plan[k].operand
<1> DEFINE m == Plan[j].of
           n == Plan[k].of
<1>1. PICK c \in 0 .. Len(kernel[m].captures) :
        Plan[j].id = Identity(kernel[m], c) /\ (Plan[j].kind \in Observing => c = Plan[j].operand)
  BY IdentityOf
<1>2. PICK d \in 0 .. Len(kernel[n].captures) :
        Plan[k].id = Identity(kernel[n], d) /\ (Plan[k].kind \in Observing => d = Plan[k].operand)
  BY IdentityOf
<1>3. m \in Numbered(kernel) /\ n \in Numbered(kernel)
  BY IdentityOf
<1>4. m = n /\ c = d
  <2>1. \A x, y \in Numbered(kernel) :
          \A b \in 0 .. Len(kernel[x].captures), e \in 0 .. Len(kernel[y].captures) :
            Identity(kernel[x], b) = Identity(kernel[y], e) => x = y /\ b = e
    BY DEF Sound, KernelSound
  <2>2. Identity(kernel[m], c) = Identity(kernel[n], d)
    BY <1>1, <1>2
  <2> HIDE DEF m, n
  <2> QED
    BY <1>3, <2>1, <2>2
<1> QED
  BY <1>1, <1>2, <1>4

\* Every slot within the capacity is read when the grid is known.
LEMMA SlotRead ==
  ASSUME Sound, gridKnown, NEW i \in Instances, NEW k \in 1 .. PerInstance, Slot(i, k) < capacity
  PROVE  Slot(i, k) \in SlotsRead
<1>1. PerInstance \in Nat /\ PerInstance # 0 /\ Slot(i, k) \in Nat
      /\ Slot(i, k) < Grid * PerInstance
  BY PlanTyped, SlotOwn
<1>2. Header.written = Grid * PerInstance
  BY <1>1 DEF Header, HeaderOf
<1>3. capacity \in Nat
  BY DEF Sound
<1> QED
  BY <1>1, <1>2, <1>3 DEF SlotsRead
\* With a dump that is accepted nothing overflows and every slot is read.
LEMMA DumpRead ==
  ASSUME Sound, Accepted, FullDump
  PROVE  /\ gridKnown /\ Header.overflow = 0
         /\ \A i \in Instances, k \in 1 .. PerInstance :
              Slot(i, k) < capacity /\ Slot(i, k) \in SlotsRead
<1>1. gridKnown /\ ~(Grid * PerInstance > capacity)
  BY DEF Accepted, LaunchRefused, TooSmall
<1>2. capacity \in Nat
  BY DEF Sound
<1>3. Header.overflow = 0
  <2> DEFINE x == Grid * PerInstance
  <2>1. ~(x > capacity)
    BY <1>1
  <2>2. ~(0 > capacity)
    BY <1>2
  <2>3. Header.overflow = LET total == IF gridKnown /\ PerInstance # 0 THEN x ELSE 0
                          IN IF total > capacity THEN total - capacity ELSE 0
    BY DEF Header, HeaderOf
  <2> HIDE DEF x
  <2> QED
    BY <2>1, <2>2, <2>3
<1>4. \A i \in Instances, k \in 1 .. PerInstance :
              Slot(i, k) < capacity /\ Slot(i, k) \in SlotsRead
  BY <1>1, SlotsFit, SlotRead
<1> QED
  BY <1>1, <1>3, <1>4

\* The references of a dump.
LEMMA RefsAre ==
  ASSUME RunHolds, FullDump
  PROVE  /\ \A d \in Refs : \E i \in Instances, k \in DOMAIN Entry : d = D(i, k)
         /\ \A i \in Instances, k \in DOMAIN Entry : D(i, k) \in Refs
<1>1. ASSUME NEW d \in Refs
      PROVE  \E i \in Instances, k \in DOMAIN Entry : d = D(i, k)
  <2>1. PICK s \in SlotsRead : d = DecodeSlot(s) /\ Dumped([kind |-> d.kind])
    BY DEF Refs
  <2>2. PICK i \in Instances, k \in 1 .. PerInstance : s = Slot(i, k)
    BY SlotIs DEF RunHolds
  <2>3. d.kind = Plan[k].kind /\ d = D(i, k)
    BY <2>1, <2>2, DecodedIs DEF RunHolds, D
  <2>4. Dumped(Plan[k])
    BY <2>1, <2>3 DEF Dumped
  <2>5. k \in DOMAIN Entry
    BY <2>4, PlanTyped DEF RunHolds
  <2> QED
    BY <2>3, <2>5
<1>2. ASSUME NEW i \in Instances, NEW k \in DOMAIN Entry
      PROVE  D(i, k) \in Refs
  <2>1. k \in 1 .. PerInstance /\ Dumped(Plan[k])
    BY PlanTyped DEF RunHolds
  <2>2. Slot(i, k) \in SlotsRead
    BY <2>1, DumpRead DEF RunHolds
  <2>3. D(i, k).kind = Plan[k].kind
    BY <2>1, DecodedIs DEF RunHolds, D
  <2>4. Dumped([kind |-> D(i, k).kind])
    BY <2>1, <2>3 DEF Dumped
  <2> QED
    BY <2>2, <2>4 DEF Refs, D
<1> QED
  BY <1>1, <1>2
\* The reference of a dump names its instance and its entry, and is empty when the
\* operation did not run.
LEMMA RefIs ==
  ASSUME RunHolds, NEW i \in Instances, NEW k \in DOMAIN Entry
  PROVE  /\ D(i, k).id = Plan[k].id /\ D(i, k).instance = i /\ D(i, k).index = k
         /\ Empty(D(i, k)) <=> ~Seen(i, k).ran
         /\ ~Seen(i, k).ran => D(i, k).data = <<0, 0>>
         /\ Seen(i, k).ran => D(i, k).data[2] = Entry[k].length
<1>1. k \in 1 .. PerInstance
  BY PlanTyped DEF RunHolds
<1>2. D(i, k).id = Plan[k].id /\ D(i, k).instance = i /\ D(i, k).index = k
  BY <1>1, DecodedIs DEF RunHolds, D
<1>3. /\ Seen(i, k).ran => D(i, k).data[2] = Entry[k].length /\ D(i, k).data[2] # 0
      /\ ~Seen(i, k).ran => D(i, k).data = <<0, 0>> /\ D(i, k).data[2] = 0
  BY RefRead DEF D
<1> QED
  BY <1>2, <1>3 DEF Empty

\* The artifacts of a dump.
Artifact(i, k) ==
  [id |-> Plan[k].id, instance |-> i, index |-> k, values |-> Cut(D(i, k))]
\* The artifacts are those of the entries that ran.
LEMMA ArtifactsAre ==
  ASSUME RunHolds, FullDump
  PROVE  /\ \A a \in Artifacts :
              \E i \in Instances, k \in DOMAIN Entry : Seen(i, k).ran /\ a = Artifact(i, k)
         /\ \A i \in Instances, k \in DOMAIN Entry : Seen(i, k).ran => Artifact(i, k) \in Artifacts
<1> DEFINE A(d) == [id |-> d.id, instance |-> d.instance, index |-> d.index, values |-> Cut(d)]
<1>1. ASSUME NEW i \in Instances, NEW k \in DOMAIN Entry, Seen(i, k).ran
      PROVE  A(D(i, k)) = Artifact(i, k)
  BY <1>1, RefIs DEF Artifact
<1>2. Artifacts = {A(d) : d \in {d \in Refs : ~Empty(d)}}
  BY DEF Artifacts
<1> HIDE DEF A
<1>3. ASSUME NEW a \in Artifacts
      PROVE  \E i \in Instances, k \in DOMAIN Entry : Seen(i, k).ran /\ a = Artifact(i, k)
  <2>1. PICK d \in Refs : ~Empty(d) /\ a = A(d)
    BY <1>2
  <2>2. PICK i \in Instances, k \in DOMAIN Entry : d = D(i, k)
    BY RefsAre
  <2>3. Seen(i, k).ran
    BY <2>1, <2>2, RefIs
  <2> QED
    BY <1>1, <2>1, <2>2, <2>3
<1>4. ASSUME NEW i \in Instances, NEW k \in DOMAIN Entry, Seen(i, k).ran
      PROVE  Artifact(i, k) \in Artifacts
  <2>1. D(i, k) \in Refs /\ ~Empty(D(i, k))
    BY <1>4, RefsAre, RefIs
  <2> QED
    BY <1>1, <1>2, <1>4, <2>1
<1> QED
  BY <1>3, <1>4

\* What is left out: the dumps that did not run.
LEMMA InactiveAre ==
  ASSUME RunHolds, FullDump
  PROVE  /\ \A d \in InactiveRefs :
              \E i \in Instances, k \in DOMAIN Entry : ~Seen(i, k).ran /\ d = D(i, k)
         /\ \A i \in Instances, k \in DOMAIN Entry :
              ~Seen(i, k).ran => <<Plan[k].id, i>> \in InactiveKeys
         /\ \A key \in InactiveKeys :
              \E i \in Instances, k \in DOMAIN Entry : ~Seen(i, k).ran /\ key = <<Plan[k].id, i>>
<1>1. ASSUME NEW d \in InactiveRefs
      PROVE  \E i \in Instances, k \in DOMAIN Entry : ~Seen(i, k).ran /\ d = D(i, k)
  <2>1. d \in Refs /\ Empty(d)
    BY DEF InactiveRefs
  <2>2. PICK i \in Instances, k \in DOMAIN Entry : d = D(i, k)
    BY <2>1, RefsAre
  <2> QED
    BY <2>1, <2>2, RefIs
<1>2. ASSUME NEW i \in Instances, NEW k \in DOMAIN Entry, ~Seen(i, k).ran
      PROVE  <<Plan[k].id, i>> \in InactiveKeys
  <2>1. D(i, k) \in Refs /\ Empty(D(i, k))
    BY <1>2, RefsAre, RefIs
  <2>2. Key(D(i, k)) = <<Plan[k].id, i>>
    BY RefIs DEF Key
  <2> QED
    BY <2>1, <2>2 DEF InactiveRefs, InactiveKeys
<1>3. ASSUME NEW key \in InactiveKeys
      PROVE  \E i \in Instances, k \in DOMAIN Entry : ~Seen(i, k).ran /\ key = <<Plan[k].id, i>>
  <2>1. PICK d \in InactiveRefs : key = Key(d)
    BY DEF InactiveKeys
  <2>2. PICK i \in Instances, k \in DOMAIN Entry : ~Seen(i, k).ran /\ d = D(i, k)
    BY <1>1
  <2>3. Key(D(i, k)) = <<Plan[k].id, i>>
    BY RefIs DEF Key
  <2> QED
    BY <2>1, <2>2, <2>3
<1> QED
  BY <1>1, <1>2, <1>3

\* A record is left out when a dump of its operation did not run.
LEMMA LeftOut ==
  ASSUME RunHolds, FullDump, NEW i \in Instances, NEW k \in 1 .. PerInstance
  PROVE  /\ Key(D(i, k)) = <<Plan[k].id, i>>
         /\ Key(D(i, k)) \in InactiveKeys => ~Seen(i, k).ran
         /\ \A j \in DOMAIN Entry :
              ~Seen(i, k).ran /\ Plan[j].id = Plan[k].id => Key(D(i, k)) \in InactiveKeys
<1>1. Key(D(i, k)) = <<Plan[k].id, i>>
  <2>1. D(i, k).id = Plan[k].id /\ D(i, k).instance = i
    BY DecodedIs DEF RunHolds, D
  <2> QED
    BY <2>1 DEF Key
<1>2. ASSUME NEW j \in DOMAIN Entry, Plan[j].id = Plan[k].id
      PROVE  Seen(i, j) = Seen(i, k)
  <2>1. j \in 1 .. PerInstance
    BY PlanTyped DEF RunHolds
  <2>2. Plan[j].of = Plan[k].of
    BY <1>2, <2>1, SameId DEF RunHolds
  <2> QED
    BY <2>2 DEF Seen
<1>3. ASSUME Key(D(i, k)) \in InactiveKeys PROVE ~Seen(i, k).ran
  <2>1. PICK h \in Instances, j \in DOMAIN Entry : ~Seen(h, j).ran /\ Key(D(i, k)) = <<Plan[j].id, h>>
    BY <1>3, InactiveAre
  <2>2. h = i /\ Plan[j].id = Plan[k].id
    BY <1>1, <2>1
  <2> QED
    BY <1>2, <2>1, <2>2
<1>4. ASSUME NEW j \in DOMAIN Entry, ~Seen(i, k).ran, Plan[j].id = Plan[k].id
      PROVE  Key(D(i, k)) \in InactiveKeys
  <2>1. ~Seen(i, j).ran
    BY <1>2, <1>4
  <2>2. <<Plan[j].id, i>> \in InactiveKeys
    BY <2>1, InactiveAre
  <2> QED
    BY <1>1, <1>4, <2>2
<1> QED
  BY <1>1, <1>3, <1>4

\* A bundle the host computes has the artifact of its value, and that value only.
LEMMA ValueFor ==
  ASSUME RunHolds, FullDump, NEW i \in Instances, NEW k \in 1 .. PerInstance,
         OfHost(D(i, k)), Key(D(i, k)) \notin InactiveKeys
  PROVE  \E a \in Artifacts : IsValueOf(a, D(i, k))
<1>1. D(i, k).kind = Plan[k].kind /\ D(i, k).id = Plan[k].id
  BY DecodedIs DEF RunHolds, D
<1>2. Plan[k].kind \in {"counts", "values"} /\ Plan[k].id \in ValueIds
  BY <1>1 DEF OfHost
<1>3. PICK j \in 1 .. PerInstance : Plan[j].kind = "value" /\ Plan[j].id = Plan[k].id
  BY <1>2 DEF ValueIds
<1>4. j \in DOMAIN Entry
  BY <1>3, PlanTyped DEF RunHolds, Dumped
<1>5. Plan[j].of = Plan[k].of
  BY <1>3, SameId DEF RunHolds
<1>6. Seen(i, j) = Seen(i, k)
  BY <1>5 DEF Seen
<1>7. Seen(i, j).ran
  BY <1>3, <1>4, <1>6, LeftOut
<1>8. Artifact(i, j) \in Artifacts
  BY <1>4, <1>7, ArtifactsAre
<1>9. Key(Artifact(i, j)) = <<Plan[k].id, i>> /\ Key(D(i, k)) = <<Plan[k].id, i>>
  BY <1>3, LeftOut DEF Key, Artifact
<1>10. IsValueOf(Artifact(i, j), D(i, k))
  <2>1. Artifact(i, j).index = j
    BY DEF Artifact
  <2> QED
    BY <1>3, <1>9, <2>1 DEF IsValueOf
<1> QED
  BY <1>8, <1>10
\* The artifact that completes a record left to the host has the values it saw.
LEMMA ValueIs ==
  ASSUME RunHolds, FullDump, NEW i \in Instances, NEW k \in 1 .. PerInstance,
         Plan[k].kind \in {"counts", "values"},
         NEW a \in Artifacts, IsValueOf(a, D(i, k))
  PROVE  a.values = ValueSeen(Seen(i, k), Plan[k])
<1>1. PICK h \in Instances, j \in DOMAIN Entry : Seen(h, j).ran /\ a = Artifact(h, j)
  BY ArtifactsAre
<1>2. Key(a) = <<Plan[j].id, h>> /\ a.index = j
      /\ a.values = Cut(D(h, j))
  BY <1>1 DEF Key, Artifact
<1>3. Key(D(i, k)) = <<Plan[k].id, i>>
  BY LeftOut
<1>4. Plan[j].id = Plan[k].id /\ h = i /\ Plan[j].kind = "value"
  <2>1. Key(a) = Key(D(i, k)) /\ Plan[a.index].kind = "value"
    BY DEF IsValueOf
  <2>2. <<Plan[j].id, h>> = <<Plan[k].id, i>>
    BY <1>2, <1>3, <2>1
  <2> QED
    BY <1>2, <2>1, <2>2
<1>5. j \in 1 .. PerInstance
  BY PlanTyped DEF RunHolds
<1>6. Plan[j].of = Plan[k].of /\ Plan[j].operand = Plan[k].operand
  <2>1. Plan[j].kind \in Observing /\ Plan[k].kind \in Observing
    BY <1>4 DEF Observing
  <2> QED
    BY <1>4, <1>5, <2>1, SameId DEF RunHolds
<1>7. a.values = ValueSeen(Seen(h, j), Plan[j])
  <2> DEFINE op == kernel[Plan[j].of]
  <2>1. RecordSound(kernel, Plan[k])
    BY PlanTyped DEF RunHolds, Planned
  <2>2. DtypeOf(op, Plan[j].operand) \in Floats
    BY <1>6, <2>1 DEF RecordSound
  <2>3. ~OwnPointers(op, Plan[j])
    BY <2>2 DEF OwnPointers, DtypeOf, Floats
  <2>4. ~Lost(op, Plan[j]) /\ ~Skewed(op, Plan[j])
    BY <2>3 DEF Lost, Skewed
  <2>5. a.values = PayloadValues(h, op, Seen(h, j), Plan[j])
    BY <1>1, <1>2, <2>4, CutRead DEF D
  <2> QED
    BY <1>4, <2>4, <2>5 DEF PayloadValues
<1>8. Seen(h, j) = Seen(i, k)
  BY <1>4, <1>6 DEF Seen
<1> QED
  BY <1>6, <1>7, <1>8 DEF ValueSeen

\* The checks of the host find nothing wrong.
LEMMA NoFailure ==
  ASSUME RunHolds, FullDump, AllRan
  PROVE  ~DumpFails
<1>1. Header.overflow = 0
  BY DumpRead DEF RunHolds
<1>2. ASSUME NEW d \in InactiveRefs PROVE Excused(d)
  <2>1. PICK i \in Instances, k \in DOMAIN Entry : ~Seen(i, k).ran /\ d = D(i, k)
    BY <1>2, InactiveAre
  <2>2. d.data = <<0, 0>> /\ d.index = k
    BY <2>1, RefIs
  <2>3. k \in 1 .. PerInstance /\ Plan[k].of \in DOMAIN kernel
    BY PlanTyped DEF RunHolds, Planned, Numbered
  <2>4. kernel[Plan[k].of].place \in {"branch", "loop"}
    BY <2>1, <2>3 DEF AllRan, Seen
  <2>5. EntrySound(kernel, compiled, k)
    BY DEF RunHolds, Sound, PlanSound, Entry
  <2>6. Entry[k].conditional
    BY <2>4, <2>5 DEF EntrySound, Entry, Plan
  <2> QED
    BY <2>2, <2>6 DEF Excused
<1>3. ASSUME NEW a \in Artifacts PROVE Key(a) \notin InactiveKeys
  <2>1. PICK i \in Instances, k \in DOMAIN Entry : Seen(i, k).ran /\ a = Artifact(i, k)
    BY <1>3, ArtifactsAre
  <2>2. k \in 1 .. PerInstance
    BY PlanTyped DEF RunHolds
  <2>3. Key(a) = <<Plan[k].id, i>>
    BY <2>1 DEF Key, Artifact
  <2> QED
    BY <2>1, <2>2, <2>3, LeftOut
<1>4. ASSUME NEW d \in Refs, ~Empty(d) PROVE d.data[2] = Entry[d.index].length
  <2>1. PICK i \in Instances, k \in DOMAIN Entry : d = D(i, k)
    BY RefsAre
  <2> QED
    BY <1>4, <2>1, RefIs
<1>5. ASSUME NEW s \in SlotsRead \ InactiveSlots, OfHost(DecodeSlot(s))
      PROVE  \E a \in Artifacts : IsValueOf(a, DecodeSlot(s))
  <2>1. PICK i \in Instances, k \in 1 .. PerInstance : s = Slot(i, k)
    BY SlotIs DEF RunHolds
  <2>2. DecodeSlot(s) = D(i, k)
    BY <2>1 DEF D
  <2>3. Key(D(i, k)) \notin InactiveKeys
    BY <1>5, <2>2 DEF InactiveSlots
  <2> QED
    BY <1>5, <2>2, <2>3, ValueFor
<1> QED
  BY <1>1, <1>2, <1>3, <1>4, <1>5 DEF DumpFails

\* What is reported of a run.
LEMMA Reports ==
  ASSUME RunHolds, AllRan
  PROVE  /\ Report.status # "error"
         /\ Report.status = "ok" /\ ~FullDump =>
              Report.records = {DecodeSlot(s) : s \in SlotsRead}
         /\ FullDump =>
              /\ Report.status = "ok" /\ Report.artifacts = Artifacts
              /\ Report.records = {Filled(DecodeSlot(s)) : s \in SlotsRead \ InactiveSlots}
<1>1. CASE PerInstance = 0
  <2>1. ~FullDump
    BY <1>1, PlanTyped DEF RunHolds, FullDump
  <2>2. Report.status = "static"
    BY <1>1 DEF Report
  <2> QED
    BY <2>1, <2>2
<1>2. CASE PerInstance # 0 /\ ~FullDump
  <2>1. Report = [status |-> "ok", records |-> {DecodeSlot(s) : s \in SlotsRead}, artifacts |-> {}]
    BY <1>2 DEF Report
  <2> QED
    BY <1>2, <2>1
<1>3. CASE PerInstance # 0 /\ FullDump
  <2>1. ~DumpFails
    BY <1>3, NoFailure
  <2>2. Report = [status |-> "ok",
          records |-> {Filled(DecodeSlot(s)) : s \in SlotsRead \ InactiveSlots},
          artifacts |-> Artifacts]
    BY <1>3, <2>1 DEF Report
  <2> QED
    BY <1>3, <2>2
<1> QED
  BY <1>1, <1>2, <1>3

\* A launch that was not refused has exported what its buffer holds.
Exported ==
  phase = "done" =>
    report = [status |-> "refused"] \/ (RunHolds /\ AllRan /\ report = Report)

\* Then the four properties follow: what is accepted is exported,
LEMMA ExportAccepted ==
  ASSUME Exported
  PROVE  AcceptedIsExported
<1> SUFFICES ASSUME phase = "done" PROVE report.status # "error"
  BY DEF AcceptedIsExported
<1>1. CASE report = [status |-> "refused"]
  BY <1>1
<1>2. CASE RunHolds /\ AllRan /\ report = Report
  BY <1>2, Reports
<1> QED
  BY <1>1, <1>2 DEF Exported

\* what is reported is the report of that buffer,
LEMMA ExportIs ==
  ASSUME Exported, Reported
  PROVE  RunHolds /\ AllRan /\ report = Report
<1>1. phase = "done" /\ report.status = "ok"
  BY DEF Reported
<1>2. report # [status |-> "refused"]
  BY <1>1
<1> QED
  BY <1>1, <1>2 DEF Exported

\* what is computed as it should be is what the dump is to hold,
LEMMA ComputedIsMeant ==
  ASSUME NEW op, NEW r, Computed(op, r), NEW i, NEW o
  PROVE  PayloadValues(i, op, o, r) = Meant(i, op, o, r)
<1>1. CASE r.kind = "address"
  <2>1. AccessBytes(op) = Width(op.dtype)
    BY <1>1 DEF Computed, StrideRight
  <2>2. \A l : AddressTaken(i, op, l) = LaneAddress(i, op, l)
    BY <2>1 DEF AddressTaken, LaneAddress
  <2> QED
    BY <1>1, <2>2 DEF PayloadValues, Meant
<1>2. CASE r.kind # "address"
  BY <1>2 DEF PayloadValues, Meant, Computed
<1> QED
  BY <1>1, <1>2

\* its artifacts are exact,
LEMMA ExportArtifacts ==
  ASSUME Exported
  PROVE  ArtifactsExact
<1> SUFFICES ASSUME Reported, FullDump
             PROVE  /\ \A a \in report.artifacts :
                         LET r == Plan[a.index]
                             o == ran[a.instance][r.of]
                         IN /\ o.ran
                            /\ Computed(kernel[r.of], r) =>
                                 a.values = Meant(a.instance, kernel[r.of], o, r)
                    /\ \A i \in Instances, k \in 1..PerInstance :
                         Dumped(Plan[k]) /\ ran[i][Plan[k].of].ran =>
                           \E a \in report.artifacts : a.instance = i /\ a.index = k
  BY DEF ArtifactsExact
<1>1. RunHolds /\ AllRan /\ report = Report
  BY ExportIs
<1>2. report.artifacts = Artifacts
  BY <1>1, Reports
<1>3. ASSUME NEW a \in Artifacts
      PROVE  LET r == Plan[a.index]
                 o == ran[a.instance][r.of]
             IN /\ o.ran
                /\ Computed(kernel[r.of], r) => a.values = Meant(a.instance, kernel[r.of], o, r)
  <2>1. PICK i \in Instances, k \in DOMAIN Entry : Seen(i, k).ran /\ a = Artifact(i, k)
    BY <1>1, <1>3, ArtifactsAre
  <2>2. /\ a.instance = i /\ a.index = k /\ a.values = Cut(D(i, k))
    BY <2>1 DEF Artifact
  <2>3. Seen(i, k) = ran[a.instance][Plan[a.index].of]
    BY <2>2 DEF Seen
  <2>4. ASSUME Computed(kernel[Plan[k].of], Plan[k])
        PROVE  a.values = Meant(i, kernel[Plan[k].of], Seen(i, k), Plan[k])
    <3> DEFINE r == Plan[k]
               op == kernel[r.of]
    <3>1. ~Lost(op, r)
      BY <2>4 DEF Computed, Lost, OwnPointers
    <3>2. a.values = PayloadValues(i, op, Seen(i, k), r)
      BY <1>1, <2>1, <2>2, <3>1, CutRead DEF D
    <3>3. PayloadValues(i, op, Seen(i, k), r) = Meant(i, op, Seen(i, k), r)
      BY <2>4, ComputedIsMeant
    <3> QED
      BY <3>2, <3>3
  <2> QED
    BY <2>1, <2>2, <2>3, <2>4
<1>4. ASSUME NEW i \in Instances, NEW k \in 1..PerInstance, Dumped(Plan[k]), ran[i][Plan[k].of].ran
      PROVE  \E a \in Artifacts : a.instance = i /\ a.index = k
  <2>1. k \in DOMAIN Entry /\ Seen(i, k).ran
    BY <1>1, <1>4, PlanTyped DEF RunHolds, Seen
  <2>2. Artifact(i, k) \in Artifacts
    BY <1>1, <2>1, ArtifactsAre
  <2>3. Artifact(i, k).instance = i /\ Artifact(i, k).index = k
    BY DEF Artifact
  <2> QED
    BY <2>2, <2>3
<1> QED
  BY <1>2, <1>3, <1>4

\* A record keeps its place in the report.
LEMMA FilledKeeps ==
  ASSUME Sound, NEW i \in Instances, NEW k \in 1 .. PerInstance
  PROVE  LET d == Filled(D(i, k)) IN
         /\ d.id = Plan[k].id /\ d.kind = Plan[k].kind /\ d.operand = Plan[k].operand
         /\ d.of = Plan[k].of /\ d.instance = i /\ d.index = k
<1> DEFINE d == D(i, k)
<1>1. /\ d.id = Plan[k].id /\ d.kind = Plan[k].kind /\ d.operand = Plan[k].operand
      /\ d.of = Plan[k].of /\ d.instance = i /\ d.index = k
  BY DecodedIs DEF D
<1>2. CASE ~OfHost(d)
  BY <1>1, <1>2 DEF Filled
<1>3. CASE OfHost(d)
  <2> DEFINE a == CHOOSE a \in Artifacts : IsValueOf(a, d)
             x == IF d.kind = "counts" THEN CountBundle(a.values) ELSE ValueBundle(a.values)
  <2>1. Filled(d) = [d EXCEPT !.data = x]
    BY <1>3 DEF Filled
  <2>2. DOMAIN d = {"id", "kind", "operand", "of", "instance", "index", "data"}
    BY DEF D, DecodeSlot
  <2> HIDE DEF d, x
  <2> DEFINE e == Filled(d)
  <2>3. /\ e.id = d.id /\ e.kind = d.kind /\ e.operand = d.operand
        /\ e.of = d.of /\ e.instance = d.instance /\ e.index = d.index
    BY <2>1, <2>2
  <2> QED
    BY <1>1, <2>3 DEF d
<1> QED
  BY <1>2, <1>3

\* nothing is missing from it,
LEMMA ExportMisses ==
  ASSUME Exported
  PROVE  NothingIsMissing
<1> SUFFICES ASSUME Reported, gridKnown, Header.overflow = 0, NEW i \in Instances,
                    NEW k \in 1..PerInstance, ran[i][Plan[k].of].ran
             PROVE  \E d \in report.records : d.instance = i /\ d.index = k
  BY DEF NothingIsMissing
<1>1. RunHolds /\ AllRan /\ report = Report
  BY ExportIs
<1>2. Slot(i, k) < capacity
  <2>1. Slot(i, k) \in Nat /\ Slot(i, k) < Grid * PerInstance
    BY <1>1, SlotOwn DEF RunHolds
  <2>2. PerInstance \in Nat \ {0} /\ Grid \in Nat /\ capacity \in Nat
    BY <1>1, PlanTyped, LaunchAssumption DEF RunHolds, Sound
  <2> DEFINE x == Grid * PerInstance
  <2>3. Header.overflow = IF x > capacity THEN x - capacity ELSE 0
    BY <2>2 DEF Header, HeaderOf
  <2>4. x \in Nat
    BY <2>2
  <2> HIDE DEF x
  <2>5. ~(x > capacity)
    BY <2>2, <2>3, <2>4
  <2> QED
    BY <2>1, <2>2, <2>4, <2>5 DEF x
<1>3. Slot(i, k) \in SlotsRead
  BY <1>1, <1>2, SlotRead DEF RunHolds
<1>4. CASE ~FullDump
  <2>1. D(i, k) \in report.records
    <3>1. report.records = {DecodeSlot(s) : s \in SlotsRead}
      BY <1>1, <1>4, Reports DEF Reported
    <3> QED
      BY <1>3, <3>1 DEF D
  <2>2. D(i, k).instance = i /\ D(i, k).index = k
    BY <1>1, DecodedIs DEF RunHolds, D
  <2> QED
    BY <2>1, <2>2
<1>5. CASE FullDump
  <2>1. Slot(i, k) \notin InactiveSlots
    <3>1. Seen(i, k).ran
      BY DEF Seen
    <3>2. Key(D(i, k)) \notin InactiveKeys
      BY <1>1, <1>5, <3>1, LeftOut
    <3> QED
      BY <3>2 DEF InactiveSlots, D
  <2>2. Filled(D(i, k)) \in report.records
    <3>1. report.records = {Filled(DecodeSlot(s)) : s \in SlotsRead \ InactiveSlots}
      BY <1>1, <1>5, Reports
    <3> QED
      BY <1>3, <2>1, <3>1 DEF D
  <2>3. Filled(D(i, k)).instance = i /\ Filled(D(i, k)).index = k
    BY <1>1, FilledKeeps DEF RunHolds
  <2> QED
    BY <2>2, <2>3
<1> QED
  BY <1>4, <1>5

\* A record the device wrote shows what its operation saw.
LEMMA ReadShown ==
  ASSUME RunHolds, NEW i \in Instances, NEW k \in 1 .. PerInstance,
         Slot(i, k) < capacity, OnDevice(i, k)
  PROVE  Shown(D(i, k), Seen(i, k))
<1> DEFINE d == D(i, k)
           r == Plan[k]
           op == kernel[r.of]
           o == Seen(i, k)
           s == Slot(i, k)
           v == ValueSeen(o, r)
           data == RecordData(i, k, o)
<1>1. /\ d.kind = r.kind /\ d.operand = r.operand /\ d.of = r.of /\ d.instance = i
      /\ d.data = ReadData(s, r.kind)
  BY DecodedIs DEF RunHolds, D
<1>2. \A n \in DOMAIN ReadFields(r.kind) : ReadData(s, r.kind)[n] = data[n]
  BY ReadsBack
<1>3. ValueSeen(o, d) = v
  BY <1>1 DEF ValueSeen
<1>4. r \in Planned(kernel) /\ r.of \in DOMAIN kernel /\ o \in Observations(op)
  BY PlanTyped, SeenOne DEF RunHolds, OnDevice
<1>5. op \in KernelOperations /\ (op.ptr = "scalar" => op.lanes = 1)
  BY <1>4 DEF RunHolds, Sound, KernelSound
<1>6. r.kind \in Observing \cup Located /\ RecordSound(kernel, r)
  BY <1>4 DEF Planned
<1>7. kernel[d.of] = op
  BY <1>1
<1>8. ReadData(s, r.kind) = [n \in DOMAIN ReadFields(r.kind) |-> data[n]]
  <2>1. ReadData(s, r.kind)
          = [n \in DOMAIN ReadFields(r.kind) |-> ReadData(s, r.kind)[n]]
    BY DEF ReadData
  <2> HIDE DEF data, s, r
  <2> QED
    BY <1>2, <2>1
<1>9. CASE r.kind \in {"first", "last", "min", "max", "active", "span"}
  <2> DEFINE kind == r.kind
             x == AddressSummary(i, op, o, kind)
             T == Touched(i, op, o)
  <2>1. SummarisesAddress(op)
    BY <1>6, <1>9 DEF RecordSound
  <2>2. kind \in {"first", "last", "min", "max", "active", "span"}
    BY <1>9
  <2>3. data = <<x, r.operand>>
    BY <1>9 DEF RecordData, Event, Dumped
  <2>4. 1 \in DOMAIN ReadFields(kind)
    BY <1>9 DEF ReadFields
  <2>5. d.data[1] = x
    BY <1>1, <1>2, <2>3, <2>4
  <2>6. /\ kind \in {"first", "min"} /\ StrideRight(op) => x = Lowest(T)
        /\ kind \in {"last", "max"} /\ StrideRight(op) => x = Highest(T)
        /\ kind = "active" => x = Cardinality(T)
        /\ kind = "span" /\ StrideRight(op) =>
             x = IF T = {} THEN 0 ELSE Highest(T) - Lowest(T) + Width(op.dtype)
    <3> HIDE DEF op, o, kind
    <3> QED
      BY <1>4, <1>5, <2>1, <2>2, SummaryTrue
  <2>7. Touched(d.instance, kernel[d.of], o) = T /\ d.kind = kind
    BY <1>1
  <2> HIDE DEF d, x, T, kind, o, r
  <2> QED
    BY <1>7, <2>2, <2>5, <2>6, <2>7 DEF Shown, d, o
<1>10. CASE r.kind = "counts"
  <2>1. data = CountBundle(v)
    BY <1>10 DEF RecordData, Dumped
  <2>2. DOMAIN ReadFields(r.kind) = 1 .. 4
    <3>1. ReadFields(r.kind) = <<Field(16, 8), Field(24, 8), Field(32, 8), Field(40, 8)>>
      BY <1>10 DEF ReadFields
    <3> QED
      BY <3>1
  <2>3. CountBundle(v) = [n \in 1 .. 4 |-> CountBundle(v)[n]]
    BY DEF CountBundle
  <2> HIDE DEF data, v
  <2>4. d.data = CountBundle(v)
    BY <1>1, <1>8, <2>1, <2>2, <2>3
  <2> QED
    BY <1>1, <1>3, <1>10, <2>4 DEF Shown
<1>11. CASE r.kind = "values"
  <2>1. data = ValueBundle(v)
    BY <1>11 DEF RecordData, Dumped
  <2>2. DOMAIN ReadFields(r.kind) = 1 .. 4
    <3>1. ReadFields(r.kind) = <<Field(16, 4), Field(20, 4), Field(24, 4), Field(28, 4)>>
      BY <1>11 DEF ReadFields
    <3> QED
      BY <3>1
  <2>3. ValueBundle(v) = [n \in 1 .. 4 |-> ValueBundle(v)[n]]
    BY DEF ValueBundle
  <2> HIDE DEF data, v
  <2>4. d.data = ValueBundle(v)
    BY <1>1, <1>8, <2>1, <2>2, <2>3
  <2> QED
    BY <1>1, <1>3, <1>11, <2>4 DEF Shown
<1>12. CASE r.kind = "elements"
  <2>1. data = <<Len(v)>>
    BY <1>12 DEF RecordData, ElementCount, Dumped
  <2>2. DOMAIN ReadFields(r.kind) = 1 .. 1
    <3>1. ReadFields(r.kind) = <<Field(24, 8)>>
      BY <1>12 DEF ReadFields
    <3> QED
      BY <3>1
  <2> HIDE DEF data, v
  <2>3. d.data = <<Len(v)>>
    BY <1>1, <1>8, <2>1, <2>2
  <2> QED
    BY <1>1, <1>3, <1>12, <2>3 DEF Shown
<1>13. CASE r.kind = "timeline"
  <2>1. data = TimelineData(o)
    BY <1>13 DEF RecordData, Dumped
  <2>2. DOMAIN ReadFields(r.kind) = 1 .. 3
    <3>1. ReadFields(r.kind) = <<Field(16, 8), Field(24, 8), Field(32, 8)>>
      BY <1>13 DEF ReadFields
    <3> QED
      BY <3>1
  <2>3. o.clock = <<1, 3>>
    BY <1>4 DEF Observations
  <2>4. data[1] = 1 /\ data[3] = 2 /\ o.clock[1] = 1 /\ o.clock[2] = 3
    BY <2>1, <2>3 DEF TimelineData
  <2> HIDE DEF data, o, s
  <2>5. d.data[1] = 1 /\ d.data[3] = 2
    BY <1>1, <1>2, <2>2, <2>4
  <2>6. d.data[1] = o.clock[1] /\ d.data[1] + d.data[3] = o.clock[2]
    BY <2>4, <2>5
  <2> QED
    BY <1>1, <1>13, <2>6 DEF Shown, o
<1>14. CASE r.kind \in {"base", "aligned"}
  <2>1. data = <<StartAddress(i, op, r.operand), r.operand>>
    BY <1>14 DEF RecordData, Event, Dumped
  <2>2. DOMAIN ReadFields(r.kind) = 1 .. 2
    <3>1. ReadFields(r.kind) = <<Field(16, 8), Field(28, 4)>>
      BY <1>14 DEF ReadFields
    <3> QED
      BY <3>1
  <2>3. d.data[1] = StartAddress(i, op, r.operand) /\ d.data[2] = r.operand
    <3> HIDE DEF data, s
    <3> QED
      BY <1>1, <1>2, <2>1, <2>2
  <2>4. op.ptr = "opaque" \/ d.data[1] = BaseAddress(d.instance, d.data[2])
    BY <1>1, <2>3 DEF StartAddress
  <2> QED
    BY <1>1, <1>7, <1>14, <2>4 DEF Shown
<1>15. CASE r.kind \in {"value", "address"}
  BY <1>1, <1>15 DEF Shown
<1> QED
  BY <1>6, <1>9, <1>10, <1>11, <1>12, <1>13, <1>14, <1>15 DEF Observing, Located

\* A record the host completed does, too.
LEMMA FilledShown ==
  ASSUME RunHolds, FullDump, NEW i \in Instances, NEW k \in 1 .. PerInstance,
         Key(D(i, k)) \notin InactiveKeys, OfHost(D(i, k))
  PROVE  Shown(Filled(D(i, k)), Seen(i, k))
<1> DEFINE d == D(i, k)
           r == Plan[k]
           a == CHOOSE a \in Artifacts : IsValueOf(a, d)
           x == IF d.kind = "counts" THEN CountBundle(a.values) ELSE ValueBundle(a.values)
           e == Filled(d)
           v == ValueSeen(Seen(i, k), r)
<1>1. d.kind = r.kind
  BY DecodedIs DEF RunHolds, D
<1>2. r.kind \in {"counts", "values"}
  BY <1>1 DEF OfHost
<1>3. a \in Artifacts /\ IsValueOf(a, d)
  BY ValueFor
<1>4. a.values = v
  <2> HIDE DEF a
  <2> QED
    BY <1>2, <1>3, ValueIs
<1>5. e = [d EXCEPT !.data = x]
  BY DEF Filled
<1>6. DOMAIN d = {"id", "kind", "operand", "of", "instance", "index", "data"}
  BY DEF D, DecodeSlot
<1>7. e.kind = r.kind /\ e.operand = r.operand
  BY FilledKeeps DEF RunHolds
<1>8. e.data = x
  <2> HIDE DEF d, x, e
  <2> QED
    BY <1>5, <1>6
<1>9. ValueSeen(Seen(i, k), e) = v
  BY <1>7 DEF ValueSeen
<1>10. CASE r.kind = "counts"
  <2>1. e.data = CountBundle(v)
    BY <1>1, <1>4, <1>8, <1>10
  <2> HIDE DEF e, v
  <2> QED
    BY <1>7, <1>9, <1>10, <2>1 DEF Shown, e
<1>11. CASE r.kind = "values"
  <2>1. e.data = ValueBundle(v)
    BY <1>1, <1>4, <1>8, <1>11
  <2> HIDE DEF e, v
  <2> QED
    BY <1>7, <1>9, <1>11, <2>1 DEF Shown, e
<1> QED
  BY <1>2, <1>10, <1>11

\* What the device leaves to the host, the host computes.
LEMMA LeftIsComputed ==
  ASSUME RunHolds, NEW i \in Instances, NEW k \in 1 .. PerInstance, LeftToHost(Plan[k])
  PROVE  FullDump /\ OfHost(D(i, k))
<1>1. PICK j \in 1 .. PerInstance :
        Plan[j].kind = "value" /\ Plan[j].of = Plan[k].of /\ Plan[j].operand = Plan[k].operand
  BY DEF LeftToHost
<1>2. mode.backend = "enflame" /\ Plan[k].kind \in {"counts", "values"}
  BY DEF LeftToHost
<1>3. FullDump
  BY <1>1, PlanTyped DEF RunHolds, FullDump, Dumped
<1>4. Plan[j].id = Plan[k].id
  <2>1. RecordSound(kernel, Plan[j]) /\ RecordSound(kernel, Plan[k])
    BY PlanTyped DEF RunHolds, Planned
  <2>2. Plan[j].kind \in Observing /\ Plan[k].kind \in Observing
    BY <1>1, <1>2 DEF Observing
  <2> QED
    BY <1>1, <2>1, <2>2 DEF RecordSound
<1>5. D(i, k).kind = Plan[k].kind /\ D(i, k).id = Plan[k].id
  BY DecodedIs DEF RunHolds, D
<1>6. D(i, k).id \in ValueIds
  BY <1>1, <1>4, <1>5 DEF ValueIds
<1> QED
  BY <1>2, <1>3, <1>5, <1>6 DEF OfHost

\* and its records tell the truth.
LEMMA ExportTrue ==
  ASSUME Exported
  PROVE  RecordsTellTheTruth
<1> SUFFICES ASSUME Reported, NEW e \in report.records
             PROVE  IF Observation(e).ran THEN Shown(e, Observation(e))
                    ELSE \A j \in 1..PerInstance : Dumped(Plan[j]) => Plan[j].id # e.id
  BY DEF RecordsTellTheTruth
<1>1. RunHolds /\ AllRan /\ report = Report
  BY ExportIs
<1>2. CASE ~FullDump
  <2>1. report.records = {DecodeSlot(s) : s \in SlotsRead}
    BY <1>1, <1>2, Reports DEF Reported
  <2>2. PICK s \in SlotsRead : e = DecodeSlot(s)
    BY <2>1
  <2>3. PICK i \in Instances, k \in 1 .. PerInstance : s = Slot(i, k)
    BY <1>1, SlotIs DEF RunHolds
  <2>4. e = D(i, k) /\ Slot(i, k) < capacity
    BY <1>1, <2>2, <2>3, SlotIs DEF D, RunHolds
  <2>5. Observation(e) = Seen(i, k)
    BY <1>1, <2>4, DecodedIs DEF RunHolds, D, Observation, Seen
  <2>6. Seen(i, k).ran => Shown(e, Seen(i, k))
    <3> HAVE Seen(i, k).ran
    <3>1. ~LeftToHost(Plan[k])
      BY <1>1, <1>2, LeftIsComputed
    <3> QED
      BY <1>1, <2>4, <3>1, ReadShown DEF OnDevice
  <2>7. \A j \in 1..PerInstance : ~Dumped(Plan[j])
    BY <1>1, <1>2, PlanTyped DEF RunHolds, FullDump
  <2> QED
    BY <2>5, <2>6, <2>7
<1>3. CASE FullDump
  <2>1. report.records = {Filled(DecodeSlot(s)) : s \in SlotsRead \ InactiveSlots}
    BY <1>1, <1>3, Reports
  <2>2. PICK s \in SlotsRead \ InactiveSlots : e = Filled(DecodeSlot(s))
    BY <2>1
  <2>3. PICK i \in Instances, k \in 1 .. PerInstance : s = Slot(i, k)
    BY <1>1, SlotIs DEF RunHolds
  <2>4. e = Filled(D(i, k)) /\ Slot(i, k) < capacity
    BY <1>1, <2>2, <2>3, SlotIs DEF D, RunHolds
  <2>5. Key(D(i, k)) \notin InactiveKeys
    BY <2>2, <2>3 DEF InactiveSlots, D
  <2>6. e.id = Plan[k].id /\ e.of = Plan[k].of /\ e.instance = i
    BY <1>1, <2>4, FilledKeeps DEF RunHolds
  <2>7. Observation(e) = Seen(i, k)
    BY <2>6 DEF Observation, Seen
  <2>8. Seen(i, k).ran => Shown(e, Seen(i, k))
    <3> HAVE Seen(i, k).ran
    <3>1. CASE OfHost(D(i, k))
      BY <1>1, <1>3, <2>4, <2>5, <3>1, FilledShown
    <3>2. CASE ~OfHost(D(i, k))
      <4>1. OnDevice(i, k)
        BY <1>1, <3>2, LeftIsComputed DEF OnDevice
      <4>2. e = D(i, k)
        BY <2>4, <3>2 DEF Filled
      <4> QED
        BY <1>1, <2>4, <4>1, <4>2, ReadShown
    <3> QED
      BY <3>1, <3>2
  <2>9. ASSUME ~Seen(i, k).ran, NEW j \in 1..PerInstance, Dumped(Plan[j])
        PROVE  Plan[j].id # e.id
    <3>1. j \in DOMAIN Entry
      BY <1>1, <2>9, PlanTyped DEF RunHolds
    <3> QED
      BY <1>1, <1>3, <2>5, <2>6, <2>9, <3>1, LeftOut
  <2> QED
    BY <2>7, <2>8, <2>9
<1> QED
  BY <1>2, <1>3

-----------------------------------------------------------------------------
(* The launch.                                                              *)

\* Nobody has run yet, and the buffer is empty.
Started == at = [i \in Instances |-> [next |-> 1, trips |-> 0]] /\ buffer = <<>>
\* Instances run their operations in order, and pass over those in a branch or a loop
\* only.
Progress ==
  /\ at \in [Instances -> [next : Nat \ {0}, trips : Nat]]
  /\ \A i \in Instances, n \in DOMAIN kernel :
       n < at[i].next /\ kernel[n].place \notin {"branch", "loop"} => ran[i][n].ran
\* The invariant of a launch, from compilation to export.
DebugInv ==
  /\ phase \in {"compile", "launch", "run", "done"}
  /\ source \in Sources /\ mode \in Modes /\ capacity \in Nat /\ gridKnown \in BOOLEAN
  /\ phase = "compile" => Started
  /\ phase = "launch" =>
       Started /\ Sound /\ ran = [i \in Instances |-> [n \in DOMAIN kernel |-> NotRun]]
  /\ phase = "run" => RunHolds /\ Progress
  /\ Exported

\* What the host reads depends on the compiled kernel, the launch and the buffer.
Kept == Frozen /\ UNCHANGED <<buffer, ran>>
\* What is decoded stays,
LEMMA KeptReads ==
  ASSUME Kept
  PROVE  /\ \A s : DecodeSlot(s)' = DecodeSlot(s)
         /\ \A d : Cut(d)' = Cut(d)
         /\ Header' = Header /\ SlotsRead' = SlotsRead /\ Refs' = Refs
         /\ Artifacts' = Artifacts /\ InactiveRefs' = InactiveRefs
<1>1. /\ Plan' = Plan /\ Entry' = Entry /\ PerInstance' = PerInstance /\ Payload' = Payload
      /\ capacity' = capacity /\ gridKnown' = gridKnown /\ buffer' = buffer
  BY FrozenPlan DEF Kept, Frozen
<1>2. \A w : Loaded(w)' = Loaded(w)
  BY <1>1 DEF Loaded
<1>3. \A w, bytes : LoadValue(w, bytes)' = LoadValue(w, bytes)
  BY <1>2 DEF LoadValue
<1>4. \A s, kind : ReadData(s, kind)' = ReadData(s, kind)
  BY <1>3 DEF ReadData
<1>5. \A s : DecodeSlot(s)' = DecodeSlot(s)
  BY <1>1, <1>4 DEF DecodeSlot
<1>6. \A d : Cut(d)' = Cut(d)
  BY <1>1, <1>3 DEF Cut
<1>7. Header' = Header
  BY <1>1 DEF Header
<1>8. SlotsRead' = SlotsRead
  BY <1>1, <1>7 DEF SlotsRead
<1>9. Refs' = Refs
  BY <1>5, <1>8 DEF Refs
<1>10. Artifacts' = Artifacts
  BY <1>6, <1>9 DEF Artifacts
<1>11. InactiveRefs' = InactiveRefs
  BY <1>9 DEF InactiveRefs
<1> QED
  BY <1>5, <1>6, <1>7, <1>8, <1>9, <1>10, <1>11
\* The artifact that completes a record, and the record with it.
ValueIn(S, plan, d) == CHOOSE a \in S : Key(a) = Key(d) /\ plan[a.index].kind = "value"
Completed(d, a) ==
  [d EXCEPT !.data = IF d.kind = "counts" THEN CountBundle(a.values) ELSE ValueBundle(a.values)]
\* the report stays,
LEMMA KeptReport ==
  ASSUME Kept
  PROVE  Report' = Report
<1>1. /\ Plan' = Plan /\ Entry' = Entry /\ PerInstance' = PerInstance /\ mode' = mode
  BY FrozenPlan DEF Kept, Frozen
<1>2. /\ \A s : DecodeSlot(s)' = DecodeSlot(s)
      /\ Header' = Header /\ SlotsRead' = SlotsRead /\ Refs' = Refs
      /\ Artifacts' = Artifacts /\ InactiveRefs' = InactiveRefs
  BY KeptReads
<1>3. InactiveKeys' = InactiveKeys
  BY <1>2 DEF InactiveKeys
<1>4. InactiveSlots' = InactiveSlots
  BY <1>2, <1>3 DEF InactiveSlots
<1>5. ValueIds' = ValueIds /\ FullDump' = FullDump
  BY <1>1 DEF ValueIds, FullDump
<1>6. \A d : OfHost(d)' <=> OfHost(d)
  BY <1>1, <1>5 DEF OfHost
<1>7. \A a, d : IsValueOf(a, d)' <=> IsValueOf(a, d)
  BY <1>1 DEF IsValueOf
<1>8. \A d : Excused(d)' <=> Excused(d)
  BY <1>1 DEF Excused
<1>9. DumpFails' <=> DumpFails
  BY <1>1, <1>2, <1>3, <1>4, <1>6, <1>7, <1>8 DEF DumpFails
<1>10. \A d : Filled(d)' = Filled(d)
  <2> TAKE d
  <2>1. Filled(d) = IF ~OfHost(d) THEN d ELSE Completed(d, ValueIn(Artifacts, Plan, d))
    BY DEF Filled, IsValueOf, ValueIn, Completed
  <2>2. Filled(d)' = IF ~OfHost(d)' THEN d ELSE Completed(d, ValueIn(Artifacts', Plan', d))
    BY DEF Filled, IsValueOf, ValueIn, Completed
  <2>3. Artifacts' = Artifacts /\ Plan' = Plan /\ (OfHost(d)' <=> OfHost(d))
    BY <1>1, <1>2, <1>6
  <2> QED
    BY <2>1, <2>2, <2>3
<1> QED
  BY <1>1, <1>2, <1>4, <1>5, <1>9, <1>10 DEF Report
\* and what it relies on stays.
LEMMA KeptHolds ==
  ASSUME Kept, RunHolds
  PROVE  RunHolds' /\ (AllRan => AllRan')
<1>1. Frozen /\ kernel' = kernel /\ capacity' = capacity /\ buffer' = buffer /\ ran' = ran
  BY DEF Kept, Frozen
<1>2. Sound' /\ Accepted'
  BY <1>1, FrozenSound, FrozenAccepted DEF RunHolds
<1>3. RanTyped'
  BY <1>1 DEF RunHolds, RanTyped, SeenOf
<1>4. BufferHolds'
  <2>1. /\ Plan' = Plan /\ PerInstance' = PerInstance
        /\ \A j, k : Slot(j, k)' = Slot(j, k) /\ Area(j, k)' = Area(j, k)
        /\ \A j, k, s : WordsWritten(j, k, s)' = WordsWritten(j, k, s)
        /\ \A r : LeftToHost(r)' = LeftToHost(r)
    BY <1>1, FrozenPlan, FrozenWords
  <2>2. \A j, k : Seen(j, k)' = Seen(j, k)
    BY <1>1, <2>1 DEF Seen
  <2>3. \A j, k : OnDevice(j, k)' <=> OnDevice(j, k)
    BY <2>1, <2>2 DEF OnDevice
  <2> QED
    BY <1>1, <2>1, <2>2, <2>3 DEF BufferHolds, RunHolds
<1> QED
  BY <1>1, <1>2, <1>3, <1>4 DEF RunHolds, AllRan

\* Before compilation.
LEMMA DebugInit ==
  ASSUME Init
  PROVE  DebugInv
<1>1. capacity \in Nat
  BY LaunchAssumption DEF Init
<1> QED
  BY <1>1 DEF Init, DebugInv, Started, Exported

\* The host takes a buffer, or refuses the launch.
LEMMA DebugLaunch ==
  ASSUME DebugInv, Launch
  PROVE  DebugInv'
<1>1. /\ phase = "launch" /\ Frozen /\ UNCHANGED <<at, buffer, ran>>
      /\ Started /\ Sound /\ ran = [i \in Instances |-> [n \in DOMAIN kernel |-> NotRun]]
  BY DEF Launch, DebugInv, Frozen
<1>2. /\ source' \in Sources /\ mode' \in Modes /\ capacity' \in Nat /\ gridKnown' \in BOOLEAN
  BY <1>1 DEF DebugInv, Frozen
<1>3. CASE LaunchRefused
  <2>1. phase' = "done" /\ report' = [status |-> "refused"]
    BY <1>3 DEF Launch
  <2> QED
    BY <1>2, <2>1 DEF DebugInv, Exported
<1>4. CASE ~LaunchRefused
  <2>1. phase' = "run"
    BY <1>4 DEF Launch
  <2>2. Accepted
    BY <1>4 DEF Accepted
  <2>3. \A i \in Instances, n \in DOMAIN kernel : ran[i][n] = NotRun /\ ~ran[i][n].ran
    BY <1>1 DEF NotRun
  <2>4. RanTyped
    <3>1. \A i \in Instances, n \in DOMAIN kernel : ran[i][n] \in SeenOf(n)
      BY <2>3 DEF SeenOf
    <3>2. ran \in [Instances -> [DOMAIN kernel -> UNION {SeenOf(n) : n \in DOMAIN kernel}]]
      BY <1>1 DEF SeenOf
    <3> QED
      BY <3>1, <3>2 DEF RanTyped
  <2>5. BufferHolds
    <3>1. \A i \in Instances, k \in 1 .. PerInstance : ~OnDevice(i, k)
      <4>1. \A k \in 1 .. PerInstance : Plan[k].of \in DOMAIN kernel
        BY <1>1, PlanTyped DEF Planned, Numbered
      <4> QED
        BY <2>3, <4>1 DEF OnDevice, Seen
    <3>2. DOMAIN buffer = {}
      BY <1>1 DEF Started
    <3> QED
      BY <3>1, <3>2 DEF BufferHolds
  <2>6. RunHolds
    BY <1>1, <2>2, <2>4, <2>5 DEF RunHolds
  <2>7. RunHolds'
    BY <1>1, <2>6, KeptHolds DEF Kept
  <2>8. Progress'
    <3>1. at' = [i \in Instances |-> [next |-> 1, trips |-> 0]]
      BY <1>1 DEF Started
    <3>2. at' \in [Instances -> [next : Nat \ {0}, trips : Nat]]
      BY <3>1
    <3>3. DOMAIN kernel' \subseteq Nat \ {0}
      <4>1. kernel \in Seq(KernelOperations) /\ kernel' = kernel
        BY <1>1 DEF Sound, KernelSound, Frozen
      <4> QED
        BY <4>1
    <3>4. \A i \in Instances : at'[i].next = 1
      BY <3>1
    <3> QED
      BY <3>2, <3>3, <3>4 DEF Progress
  <2> QED
    BY <1>2, <2>1, <2>7, <2>8 DEF DebugInv, Exported
<1> QED
  BY <1>3, <1>4

\* An instance runs an operation and stores its records.
LEMMA DebugRun ==
  ASSUME DebugInv, NEW i \in Instances, Run(i)
  PROVE  DebugInv'
<1> DEFINE n == at[i].next
<1>1. /\ phase = "run" /\ n \in DOMAIN kernel /\ Frozen /\ phase' = phase /\ report' = report
      /\ RunHolds /\ Progress
  BY DEF Run, DebugInv, Frozen
<1>2. PICK o \in Observations(kernel[n]) :
        StoreRecords(i, n, o) /\ ran' = [ran EXCEPT ![i][n] = o]
  BY DEF Run
<1>3. RanTyped' /\ BufferHolds'
  <2> HIDE DEF n
  <2> QED
    BY <1>1, <1>2, BufferStep DEF RunHolds
<1>4. RunHolds'
  BY <1>1, <1>3, FrozenSound, FrozenAccepted DEF RunHolds
<1>5. at' = [at EXCEPT ![i] = IF kernel[n].place = "loop"
                              THEN [next |-> n, trips |-> at[i].trips + 1]
                              ELSE [next |-> n + 1, trips |-> 0]]
  BY DEF Run
<1>6. at \in [Instances -> [next : Nat \ {0}, trips : Nat]]
  BY <1>1 DEF Progress
<1>7. at' \in [Instances -> [next : Nat \ {0}, trips : Nat]]
  <2>1. at[i] \in [next : Nat \ {0}, trips : Nat]
    BY <1>6
  <2>2. [next |-> n, trips |-> at[i].trips + 1] \in [next : Nat \ {0}, trips : Nat]
    BY <2>1
  <2>3. [next |-> n + 1, trips |-> 0] \in [next : Nat \ {0}, trips : Nat]
    BY <2>1
  <2>4. CASE kernel[n].place = "loop"
    <3> DEFINE x == [next |-> n, trips |-> at[i].trips + 1]
    <3>1. at' = [at EXCEPT ![i] = x]
      BY <1>5, <2>4
    <3>2. x \in [next : Nat \ {0}, trips : Nat]
      BY <2>2
    <3> HIDE DEF x
    <3> QED
      BY <1>6, <3>1, <3>2
  <2>5. CASE kernel[n].place # "loop"
    BY <1>5, <1>6, <2>3, <2>5
  <2> QED
    BY <2>4, <2>5
<1>8. \A j \in Instances, m \in DOMAIN kernel :
        ran'[j][m] = IF j = i /\ m = n THEN o ELSE ran[j][m]
  BY <1>1, <1>2 DEF RunHolds, RanTyped
<1>9. o.ran
  BY <1>2, ObservedRan
<1>10. ASSUME NEW j \in Instances, NEW m \in DOMAIN kernel,
              m < at'[j].next, kernel[m].place \notin {"branch", "loop"}
       PROVE  ran'[j][m].ran
  <2>0. DOMAIN kernel \subseteq Nat
    <3>1. kernel \in Seq(KernelOperations)
      BY <1>1 DEF RunHolds, Sound, KernelSound
    <3> QED
      BY <3>1
  <2>1. CASE j = i /\ m = n
    BY <1>8, <1>9, <2>1
  <2>2. CASE j = i /\ m # n
    <3>1. m < at[i].next
      <4>1. CASE kernel[n].place = "loop"
        <5>1. at'[i].next = at[i].next
          BY <1>5, <1>6, <4>1
        <5> QED
          BY <1>10, <2>2, <5>1
      <4>2. CASE kernel[n].place # "loop"
        <5>1. at'[i].next = n + 1
          BY <1>5, <1>6, <4>2
        <5>2. n \in Nat /\ m \in Nat /\ m < n + 1
          BY <1>1, <1>10, <2>0, <2>2, <5>1
        <5> HIDE DEF n
        <5>3. m < n
          BY <2>2, <5>2
        <5> QED
          BY <5>3 DEF n
      <4> QED
        BY <4>1, <4>2
    <3>2. ran[i][m].ran
      BY <1>1, <1>10, <3>1 DEF Progress
    <3> QED
      BY <1>8, <2>2, <3>2
  <2>3. CASE j # i
    <3>1. at'[j] = at[j]
      BY <1>5, <1>6, <2>3
    <3>2. ran[j][m].ran
      BY <1>1, <1>10, <3>1 DEF Progress
    <3> QED
      BY <1>8, <2>3, <3>2
  <2> QED
    BY <2>1, <2>2, <2>3
<1>11. Progress'
  <2>1. kernel' = kernel
    BY <1>1 DEF Frozen
  <2> QED
    BY <1>7, <1>10, <2>1 DEF Progress
<1>12. source' \in Sources /\ mode' \in Modes /\ capacity' \in Nat /\ gridKnown' \in BOOLEAN
  BY <1>1 DEF DebugInv, Frozen
<1> QED
  BY <1>1, <1>4, <1>11, <1>12 DEF DebugInv, Exported

\* An instance passes over an operation, or leaves a loop.
LEMMA DebugSkip ==
  ASSUME DebugInv, NEW i \in Instances, Skip(i)
  PROVE  DebugInv'
<1> DEFINE n == at[i].next
<1>1. /\ phase = "run" /\ n \in DOMAIN kernel /\ Kept /\ phase' = phase /\ report' = report
      /\ RunHolds /\ Progress /\ kernel[n].place \in {"branch", "loop"}
      /\ kernel' = kernel /\ ran' = ran
  BY DEF Skip, DebugInv, Frozen, Kept
<1>2. at' = [at EXCEPT ![i] = [next |-> n + 1, trips |-> 0]]
  BY DEF Skip
<1>3. RunHolds'
  BY <1>1, KeptHolds
<1>4. at \in [Instances -> [next : Nat \ {0}, trips : Nat]]
  BY <1>1 DEF Progress
<1>5. at' \in [Instances -> [next : Nat \ {0}, trips : Nat]]
  BY <1>2, <1>4
<1>6. ASSUME NEW j \in Instances, NEW m \in DOMAIN kernel,
             m < at'[j].next, kernel[m].place \notin {"branch", "loop"}
      PROVE  ran[j][m].ran
  <2>1. CASE j = i
    <3>0. DOMAIN kernel \subseteq Nat
      <4>1. kernel \in Seq(KernelOperations)
        BY <1>1 DEF RunHolds, Sound, KernelSound
      <4> QED
        BY <4>1
    <3>1. m # n /\ at'[i].next = n + 1
      BY <1>1, <1>2, <1>4, <1>6
    <3>2. n \in Nat /\ m \in Nat /\ m < n + 1
      BY <1>1, <1>6, <2>1, <3>0, <3>1
    <3> HIDE DEF n
    <3>3. m < n
      BY <3>1, <3>2
    <3> QED
      BY <1>1, <1>6, <2>1, <3>3 DEF Progress, n
  <2>2. CASE j # i
    <3>1. at'[j] = at[j]
      BY <1>2, <1>4, <2>2
    <3> QED
      BY <1>1, <1>6, <3>1 DEF Progress
  <2> QED
    BY <2>1, <2>2
<1>7. Progress'
  BY <1>1, <1>5, <1>6 DEF Progress
<1>8. source' \in Sources /\ mode' \in Modes /\ capacity' \in Nat /\ gridKnown' \in BOOLEAN
  BY <1>1 DEF DebugInv, Frozen, Kept
<1> QED
  BY <1>1, <1>3, <1>7, <1>8 DEF DebugInv, Exported

\* The host reads the buffer and reports.
LEMMA DebugExport ==
  ASSUME DebugInv, Export
  PROVE  DebugInv'
<1>1. /\ phase = "run" /\ Kept /\ phase' = "done" /\ report' = Report
      /\ RunHolds /\ Progress /\ \A i \in Instances : at[i].next > Len(kernel)
  BY DEF Export, DebugInv, Frozen, Kept
<1>2. AllRan
  <2>1. kernel \in Seq(KernelOperations)
    BY <1>1 DEF RunHolds, Sound, KernelSound
  <2>2. ASSUME NEW i \in Instances, NEW n \in DOMAIN kernel PROVE n < at[i].next
    <3>1. n \in 1 .. Len(kernel) /\ Len(kernel) \in Nat
      BY <2>1
    <3>2. at[i].next \in Nat /\ at[i].next > Len(kernel)
      BY <1>1 DEF Progress
    <3> QED
      BY <3>1, <3>2
  <2> QED
    BY <1>1, <2>2 DEF Progress, AllRan
<1>3. RunHolds' /\ AllRan' /\ report' = Report'
  BY <1>1, <1>2, KeptHolds, KeptReport
<1>4. source' \in Sources /\ mode' \in Modes /\ capacity' \in Nat /\ gridKnown' \in BOOLEAN
  BY <1>1 DEF DebugInv, Frozen, Kept
<1> QED
  BY <1>1, <1>3, <1>4 DEF DebugInv, Exported

\* Nothing happens.
LEMMA DebugStutter ==
  ASSUME DebugInv, UNCHANGED vars
  PROVE  DebugInv'
<1>1. /\ Kept /\ Frozen /\ phase' = phase /\ report' = report /\ at' = at /\ ran' = ran /\ buffer' = buffer
      /\ kernel' = kernel
  BY DEF vars, Kept, Frozen
<1>2. source' \in Sources /\ mode' \in Modes /\ capacity' \in Nat /\ gridKnown' \in BOOLEAN
  BY <1>1 DEF DebugInv, Frozen
<1>3. Started => Started'
  BY <1>1 DEF Started
<1>4. Progress => Progress'
  BY <1>1 DEF Progress
<1>5. RunHolds => RunHolds'
  BY <1>1, KeptHolds
<1>6. Exported'
  <2>1. Report' = Report
    BY <1>1, KeptReport
  <2>2. RunHolds /\ AllRan => AllRan'
    BY <1>1, KeptHolds
  <2> QED
    BY <1>1, <1>5, <2>1, <2>2 DEF Exported, DebugInv
<1>7. Sound => Sound'
  BY <1>1, FrozenSound
<1> QED
  BY <1>1, <1>2, <1>3, <1>4, <1>5, <1>6, <1>7 DEF DebugInv

-----------------------------------------------------------------------------
(* What compilation makes of a source: the markers.                         *)

\* What the assumptions say of a source, and the markers must keep.
SourceSound(src) ==
  src \in Seq(Operations) /\ DistinctIds(src) /\ \A k \in DOMAIN src : Sized(src[k])

\* A concatenation has the elements of the one and then those of the other.
LEMMA Concats ==
  ASSUME NEW S, NEW a \in Seq(S), NEW b \in Seq(S)
  PROVE  /\ a \o b \in Seq(S) /\ Len(a \o b) = Len(a) + Len(b)
         /\ DOMAIN (a \o b) = 1 .. Len(a) + Len(b)
         /\ \A x \in 1 .. Len(a) + Len(b) :
              (a \o b)[x] = IF x <= Len(a) THEN a[x] ELSE b[x - Len(a)]
  OBVIOUS

\* The markers of a run that collects everything have no id and no value.
MarksOnly(op) == op \in Operations /\ Sized(op) /\ op.id = 0
\* A marker has no id of its own.
LEMMA MarkerSound ==
  ASSUME NEW op \in Operations, Sized(op), NEW level \in Int, NEW addr \in Int
  PROVE  MarksOnly(Marker("begin", op, level, addr)) /\ MarksOnly(Marker("end", op, level, addr))
<1>0. ASSUME NEW name \in Names PROVE MarksOnly(Marker(name, op, level, addr))
  <2> DEFINE m == Marker(name, op, level, addr)
  <2>1. /\ m.name = name /\ m.tag = 0 /\ m.id = 0 /\ m.level = level /\ m.addr = AtMostTwo(addr)
        /\ m.dtype = "none" /\ m.operands = <<>> /\ m.ptr = op.ptr /\ m.lanes = op.lanes
    BY DEF Marker, Operations
  <2>2. AtMostTwo(addr) \in Int
    BY DEF AtMostTwo
  <2>3. m \in Operations
    <3>1. "none" \in Dtypes /\ <<>> \in Seq(Operands)
      BY DEF Dtypes
    <3> QED
      BY <2>2, <3>1 DEF Marker, Operations
  <2>4. Sized(m)
    BY <2>1 DEF Sized
  <2> QED
    BY <2>1, <2>3, <2>4 DEF MarksOnly
<1>1. "begin" \in Names /\ "end" \in Names
  BY DEF Names
<1> QED
  BY <1>0, <1>1

\* A source whose operations are put after those of its markers.
\* The first k operations give sequence s.
Marks(s, src, k) ==
  /\ \A p \in DOMAIN s :
       Sized(s[p]) /\ (s[p].id # 0 => \E j \in 1 .. k : s[p].id = src[j].id)
  /\ \A p, q \in DOMAIN s : s[p].id # 0 /\ s[p].id = s[q].id => p = q
\* One more operation of the source, with the markers around it, or none if it is one.
LEMMA MarksNext ==
  ASSUME NEW src, SourceSound(src), NEW k \in 1 .. Len(src), NEW s \in Seq(Operations),
         Marks(s, src, k - 1),
         NEW t \in Seq(Operations), \A p \in DOMAIN t : Sized(t[p]) /\ t[p].id = 0
  PROVE  Marks(s \o (t \o <<src[k]>>), src, k) /\ Marks(s, src, k)
<1>1. /\ src \in Seq(Operations) /\ DistinctIds(src) /\ k \in DOMAIN src
      /\ src[k] \in Operations /\ Sized(src[k]) /\ DOMAIN src = 1 .. Len(src) /\ Len(src) \in Nat
  BY DEF SourceSound
<1> DEFINE u == s \o (t \o <<src[k]>>)
           m == Len(s)
           n == Len(t)
<1>2. m \in Nat /\ n \in Nat /\ DOMAIN s = 1 .. m /\ DOMAIN t = 1 .. n
  OBVIOUS
<1>3. DOMAIN u = 1 .. m + n + 1
  BY <1>1, <1>2
<1>4. ASSUME NEW p \in DOMAIN u
      PROVE  \/ p \in DOMAIN s /\ u[p] = s[p]
             \/ p \notin DOMAIN s /\ p - m \in DOMAIN t /\ u[p] = t[p - m]
             \/ p = m + n + 1 /\ u[p] = src[k]
  <2> DEFINE one == <<src[k]>>
             v == t \o one
  <2>1. Len(one) = 1 /\ one[1] = src[k] /\ one \in Seq(Operations)
    BY <1>1
  <2> HIDE DEF one
  <2>2. v \in Seq(Operations) /\ Len(v) = n + 1
        /\ \A x \in 1 .. n + 1 : v[x] = IF x <= n THEN t[x] ELSE one[x - n]
    <3>1. t \o one \in Seq(Operations) /\ Len(t \o one) = Len(t) + Len(one)
      BY <2>1, Concats
    <3>2. \A x \in 1 .. Len(t) + Len(one) :
            (t \o one)[x] = IF x <= Len(t) THEN t[x] ELSE one[x - Len(t)]
      BY <2>1, Concats
    <3> QED
      BY <2>1, <3>1, <3>2
  <2> HIDE DEF v
  <2>3. \A x \in 1 .. m + (n + 1) : (s \o v)[x] = IF x <= m THEN s[x] ELSE v[x - m]
    BY <1>2, <2>2
  <2>4. u = s \o v
    BY DEF v, one
  <2>5. p \in 1 .. m + (n + 1)
    BY <1>2, <1>3
  <2> HIDE DEF u, m, n
  <2>6. CASE p <= m
    BY <1>2, <2>3, <2>4, <2>5, <2>6
  <2>7. CASE ~(p <= m) /\ p <= m + n
    BY <1>2, <2>2, <2>3, <2>4, <2>5, <2>7
  <2>8. CASE ~(p <= m + n)
    <3>0. m \in Nat /\ n \in Nat
      BY <1>2
    <3>1. p = m + n + 1 /\ p - m = n + 1 /\ ~(p <= m) /\ ~(n + 1 <= n) /\ (n + 1) - n = 1 /\ n + 1 \in 1 .. n + 1
      BY <2>5, <2>8, <3>0
    <3>2. u[p] = v[n + 1]
      BY <2>3, <2>4, <2>5, <3>1
    <3>3. v[n + 1] = one[(n + 1) - n]
      BY <2>2, <3>1
    <3> QED
      BY <2>1, <3>1, <3>2, <3>3
  <2> QED
    BY <2>6, <2>7, <2>8
<1>5. \A p \in DOMAIN s : Sized(s[p]) /\ (s[p].id # 0 => \E j \in 1 .. k - 1 : s[p].id = src[j].id)
  BY DEF Marks
<1>6. 1 .. k - 1 \subseteq 1 .. k /\ k \in 1 .. k
  OBVIOUS
<1>7. \A p \in DOMAIN s : s[p].id # 0 => s[p].id # src[k].id
  <2> TAKE p \in DOMAIN s
  <2> HAVE s[p].id # 0
  <2>1. PICK j \in 1 .. k - 1 : s[p].id = src[j].id
    BY <1>5
  <2>2. j \in DOMAIN src /\ j # k
    BY <1>1
  <2> QED
    BY <1>1, <2>1, <2>2 DEF DistinctIds
<1>8. \A p, q \in DOMAIN s : s[p].id # 0 /\ s[p].id = s[q].id => p = q
  BY DEF Marks
<1> HIDE DEF u
<1>9. Marks(u, src, k)
  <2>1. ASSUME NEW p \in DOMAIN u
        PROVE  Sized(u[p]) /\ (u[p].id # 0 => \E j \in 1 .. k : u[p].id = src[j].id)
    BY <1>1, <1>4, <1>5, <1>6
  <2>2. ASSUME NEW p \in DOMAIN u, NEW q \in DOMAIN u, u[p].id # 0, u[p].id = u[q].id
        PROVE  p = q
    <3>1. (p \in DOMAIN s /\ u[p] = s[p]) \/ (p = m + n + 1 /\ u[p] = src[k])
      BY <1>4, <2>2
    <3>2. (q \in DOMAIN s /\ u[q] = s[q]) \/ (q = m + n + 1 /\ u[q] = src[k])
      BY <1>4, <2>2
    <3> QED
      BY <1>7, <1>8, <2>2, <3>1, <3>2
  <2> QED
    BY <2>1, <2>2 DEF Marks
<1>10. Marks(s, src, k)
  BY <1>5, <1>6, <1>8 DEF Marks
<1> QED
  BY <1>9, <1>10 DEF u

\* The markers a run without any of its own gets.
LEMMA DefaultSound ==
  ASSUME NEW src, SourceSound(src), NEW level \in Int, NEW addr \in Int
  PROVE  SourceSound(DefaultMarkers(src, level, addr))
<1> DEFINE n == Len(src)
           isFirst(k) == \A j \in 1 .. k - 1 : IsMarker(src[j]) \/ src[j].func # src[k].func
           isLast(k) == src[k].name = "return" /\ src[k].place = "top"
           own(k) == ~InCalledFunction(src, src[k])
           b(k) == IF own(k) /\ isFirst(k) THEN <<Marker("begin", src[k], level, addr)>> ELSE <<>>
           e(k) == IF own(k) /\ isLast(k) THEN <<Marker("end", src[k], level, addr)>> ELSE <<>>
           around(k) == b(k) \o e(k) \o <<src[k]>>
           part(k) == IF IsMarker(src[k]) THEN <<>> ELSE around(k)
           V == Seq(Operations)
<1>1. n \in Nat /\ \A k \in 1 .. n : src[k] \in Operations /\ Sized(src[k])
  BY DEF SourceSound
<1>2. ASSUME NEW k \in 1 .. n
      PROVE  /\ b(k) \in V /\ \A p \in DOMAIN b(k) : Sized(b(k)[p]) /\ b(k)[p].id = 0
             /\ e(k) \in V /\ \A p \in DOMAIN e(k) : Sized(e(k)[p]) /\ e(k)[p].id = 0
  <2> DEFINE m1 == Marker("begin", src[k], level, addr)
             m2 == Marker("end", src[k], level, addr)
             op == src[k]
  <2>0. op \in Operations /\ Sized(op)
    BY <1>1
  <2> HIDE DEF op
  <2>1. MarksOnly(Marker("begin", op, level, addr))
    BY <2>0, MarkerSound
  <2>2. MarksOnly(Marker("end", op, level, addr))
    BY <2>0, MarkerSound
  <2>2a. m1 = Marker("begin", op, level, addr) /\ m2 = Marker("end", op, level, addr)
    BY DEF op
  <2> HIDE DEF m1, m2, own, isFirst, isLast
  <2>3. b(k) = <<m1>> \/ b(k) = <<>>
    BY DEF m1
  <2>4. e(k) = <<m2>> \/ e(k) = <<>>
    BY DEF m2
  <2> HIDE DEF b, e
  <2>4a. \A x : x \in Operations => <<x>> \in V /\ DOMAIN <<x>> = {1} /\ <<x>>[1] = x
    OBVIOUS
  <2>4b. <<>> \in V /\ DOMAIN <<>> = {}
    OBVIOUS
  <2> HIDE DEF V
  <2>5. b(k) \in V /\ \A p \in DOMAIN b(k) : Sized(b(k)[p]) /\ b(k)[p].id = 0
    BY <2>1, <2>2a, <2>3, <2>4a, <2>4b DEF MarksOnly
  <2>6. e(k) \in V /\ \A p \in DOMAIN e(k) : Sized(e(k)[p]) /\ e(k)[p].id = 0
    BY <2>2, <2>2a, <2>4, <2>4a, <2>4b DEF MarksOnly
  <2> QED
    BY <2>5, <2>6
<1> DEFINE t(k) == b(k) \o e(k)
<1>3. ASSUME NEW k \in 1 .. n
      PROVE  t(k) \in V /\ \A p \in DOMAIN t(k) : Sized(t(k)[p]) /\ t(k)[p].id = 0
  <2> DEFINE x == b(k)
             y == e(k)
  <2>1. /\ x \in V /\ \A p \in DOMAIN x : Sized(x[p]) /\ x[p].id = 0
        /\ y \in V /\ \A p \in DOMAIN y : Sized(y[p]) /\ y[p].id = 0
    BY <1>2
  <2> HIDE DEF x, y
  <2>2. x \o y \in V /\ DOMAIN (x \o y) = 1 .. Len(x) + Len(y)
        /\ \A p \in 1 .. Len(x) + Len(y) : (x \o y)[p] = IF p <= Len(x) THEN x[p] ELSE y[p - Len(x)]
    BY <2>1
  <2>3. DOMAIN x = 1 .. Len(x) /\ DOMAIN y = 1 .. Len(y) /\ Len(x) \in Nat /\ Len(y) \in Nat
    BY <2>1
  <2>4. ASSUME NEW p \in DOMAIN (x \o y) PROVE Sized((x \o y)[p]) /\ (x \o y)[p].id = 0
    <3>1. CASE p <= Len(x)
      BY <2>1, <2>2, <2>3, <3>1
    <3>2. CASE ~(p <= Len(x))
      <4>1. p - Len(x) \in DOMAIN y /\ (x \o y)[p] = y[p - Len(x)]
        BY <2>2, <2>3, <3>2
      <4> QED
        BY <2>1, <4>1
    <3> QED
      BY <3>1, <3>2
  <2> QED
    BY <2>2, <2>4 DEF x, y
<1>4. \A k \in 1 .. n : around(k) = t(k) \o <<src[k]>>
  OBVIOUS
<1> HIDE DEF around, t
<1>5. \A k \in 1 .. n : part(k) \in V
  <2> TAKE k \in 1 .. n
  <2>1. t(k) \o <<src[k]>> \in V
    <3>1. t(k) \in V /\ src[k] \in Operations
      BY <1>1, <1>3
    <3>2. <<src[k]>> \in V
      BY <3>1
    <3> QED
      BY <3>1, <3>2, Concats
  <2>2. <<>> \in V /\ around(k) = t(k) \o <<src[k]>>
    BY <1>4
  <2>3. part(k) = <<>> \/ part(k) = around(k)
    OBVIOUS
  <2> HIDE DEF V, part
  <2> QED
    BY <2>1, <2>2, <2>3
<1> DEFINE base == <<>>
           Step == [x \in V \X (1 .. n) |-> x[1] \o part(x[2])]
           upTo[k \in 0 .. n] == IF k = 0 THEN <<>> ELSE upTo[k - 1] \o part(k)
<1>6. base \in V /\ Step \in [V \X (1 .. n) -> V]
  <2> HIDE DEF part
  <2>1. \A x \in V \X (1 .. n) : x[1] \o part(x[2]) \in V
    BY <1>5
  <2> QED
    BY <2>1
<1>7. upTo = [k \in 0 .. n |-> IF k = 0 THEN <<>> ELSE upTo[k - 1] \o part(k)]
      /\ upTo \in [0 .. n -> V]
  <2>1. \E f \in [0 .. n -> V] : Recurs(f, n, base, Step)
    <3> HIDE DEF V, Step, n, base
    <3> QED
      BY <1>1, <1>6, Recursion
  <2>2. PICK f \in [0 .. n -> V] : Recurs(f, n, base, Step)
    BY <2>1
  <2>3. \A k \in 0 .. n : k # 0 => Step[<<f[k - 1], k>>] = f[k - 1] \o part(k)
    <3> TAKE k \in 0 .. n
    <3> HAVE k # 0
    <3>1. k \in 1 .. n /\ k - 1 \in 0 .. n
      BY <1>1
    <3>2. f[k - 1] \in V
      BY <3>1
    <3> HIDE DEF part
    <3> QED
      BY <3>1, <3>2
  <2>4. f = [k \in 0 .. n |-> IF k = 0 THEN <<>> ELSE f[k - 1] \o part(k)]
    <3>1. f = [k \in 0 .. n |-> IF k = 0 THEN base ELSE Step[<<f[k - 1], k>>]]
      BY <2>2 DEF Recurs
    <3> HIDE DEF part, Step
    <3> QED
      BY <2>3, <3>1
  <2> HIDE DEF part, V, n
  <2>5. f \in [0 .. n -> V] /\ f = [k \in 0 .. n |-> IF k = 0 THEN <<>> ELSE f[k - 1] \o part(k)]
    BY <2>4
  <2> DEFINE Sol(g) == g \in [0 .. n -> V] /\ g = [k \in 0 .. n |-> IF k = 0 THEN <<>> ELSE g[k - 1] \o part(k)]
  <2>6. upTo = CHOOSE g : g = [k \in 0 .. n |-> IF k = 0 THEN <<>> ELSE g[k - 1] \o part(k)]
    OBVIOUS
  <2>7. upTo = [k \in 0 .. n |-> IF k = 0 THEN <<>> ELSE upTo[k - 1] \o part(k)]
    BY <2>5
  <2> HIDE DEF upTo
  <2>8. \A k \in 0 .. n : upTo[k] = IF k = 0 THEN <<>> ELSE upTo[k - 1] \o part(k)
    BY <2>7
  <2> DEFINE P == {k \in 0 .. n : upTo[k] \in V}
  <2>9. 0 \in P
    BY <1>1, <1>6, <2>8 DEF n
  <2>10. \A k \in 1 .. n : k - 1 \in P => k \in P
    <3> TAKE k \in 1 .. n
    <3> HAVE k - 1 \in P
    <3>1. upTo[k - 1] \in V /\ part(k) \in V /\ k \in 0 .. n /\ k # 0
      BY <1>1, <1>5 DEF n
    <3>2. upTo[k - 1] \o part(k) \in V
      BY <3>1 DEF V
    <3> QED
      BY <2>8, <3>1, <3>2
  <2>11. 0 .. n \subseteq P
    <3>1. n \in Nat
      BY <1>1
    <3> HIDE DEF P
    <3> QED
      BY <2>9, <2>10, <3>1, UpTo
  <2>12. upTo \in [0 .. n -> V]
    BY <2>7, <2>11
  <2> QED
    BY <2>7, <2>12
<1>8. DefaultMarkers(src, level, addr) = upTo[n]
  BY DEF DefaultMarkers, around, t
<1> HIDE DEF upTo
<1> DEFINE P == {k \in 0 .. n : Marks(upTo[k], src, k)}
<1>9. \A k \in 0 .. n : upTo[k] = IF k = 0 THEN <<>> ELSE upTo[k - 1] \o part(k)
  <2> HIDE DEF part
  <2> QED
    BY <1>7
<1>10. 0 \in P
  <2>1. upTo[0] = <<>> /\ 0 \in 0 .. n
    BY <1>1, <1>9
  <2>2. Marks(<<>>, src, 0)
    BY DEF Marks
  <2> QED
    BY <2>1, <2>2
<1>11. \A k \in 1 .. n : k - 1 \in P => k \in P
  <2> TAKE k \in 1 .. n
  <2> HAVE k - 1 \in P
  <2> DEFINE s == upTo[k - 1]
             u == t(k)
  <2>1. s \in V /\ Marks(s, src, k - 1) /\ k \in 0 .. n /\ k # 0 /\ upTo[k] = s \o part(k)
    <3> HIDE DEF part, V
    <3>1. k - 1 \in 0 .. n /\ k \in 0 .. n /\ k # 0
      BY <1>1
    <3> QED
      BY <1>7, <1>9, <3>1
  <2>2. u \in V /\ \A p \in DOMAIN u : Sized(u[p]) /\ u[p].id = 0
    BY <1>3
  <2>3. part(k) = IF IsMarker(src[k]) THEN <<>> ELSE u \o <<src[k]>>
    BY <1>4
  <2> HIDE DEF s, u, part
  <2>4. Marks(s \o (u \o <<src[k]>>), src, k) /\ Marks(s, src, k)
    BY <2>1, <2>2, MarksNext
  <2>5. s \o <<>> = s
    BY <2>1
  <2> QED
    BY <2>1, <2>3, <2>4, <2>5
<1>12. 0 .. n \subseteq P
  <2> HIDE DEF P, n
  <2> QED
    BY <1>1, <1>10, <1>11, UpTo
<1>13. upTo[n] \in V /\ Marks(upTo[n], src, n)
  BY <1>1, <1>7, <1>12
<1> QED
  BY <1>8, <1>13 DEF SourceSound, Marks, DistinctIds

\* Whatever the mode, the marked source is as good as the source.
LEMMA MarkedSound ==
  ASSUME source \in Sources, mode \in Modes
  PROVE  SourceSound(Marked)
<1>1. SourceSound(source)
  BY SourcesAssumption DEF SourceSound
<1>2. mode.level \in Int /\ mode.addr \in Int
  BY SourcesAssumption
<1> QED
  BY <1>1, <1>2, DefaultSound DEF Marked

-----------------------------------------------------------------------------
(* Sequences that are built piece by piece.                                 *)

\* The pieces are put one behind the other.
Joins(f, n, base, T) == f = [k \in 0 .. n |-> IF k = 0 THEN base ELSE f[k - 1] \o T[k]]
\* There is such a concatenation, and it is one of sequences over S.
LEMMA JoinsTyped ==
  ASSUME NEW n \in Nat, NEW S, NEW base \in Seq(S), NEW T \in [1 .. n -> Seq(S)]
  PROVE  /\ \E f : Joins(f, n, base, T)
         /\ \A f : Joins(f, n, base, T) => f[n] \in Seq(S)
<1> DEFINE V == Seq(S)
           Step == [p \in V \X (1 .. n) |-> p[1] \o T[p[2]]]
<1>1. \A v \in V, k \in 1 .. n : v \o T[k] \in V
  <2> TAKE v \in V, k \in 1 .. n
  <2>1. T[k] \in Seq(S) /\ v \in Seq(S)
    OBVIOUS
  <2> QED
    BY <2>1, Concats
<1> HIDE DEF V
<1>2. base \in V /\ Step \in [V \X (1 .. n) -> V]
  BY <1>1 DEF V
<1>3. \A v \in V, k \in 1 .. n : Step[<<v, k>>] = v \o T[k]
  OBVIOUS
<1> HIDE DEF Step
<1>4. \E f : Joins(f, n, base, T)
  <2>1. PICK f \in [0 .. n -> V] : Recurs(f, n, base, Step)
    BY <1>2, Recursion
  <2>2. f = [k \in 0 .. n |-> IF k = 0 THEN base ELSE Step[<<f[k - 1], k>>]]
    BY <2>1 DEF Recurs
  <2>3. ASSUME NEW k \in 0 .. n, k # 0
        PROVE  Step[<<f[k - 1], k>>] = f[k - 1] \o T[k]
    <3>1. k \in 1 .. n /\ k - 1 \in 0 .. n
      BY <2>3
    <3>2. f[k - 1] \in V
      BY <3>1
    <3> QED
      BY <1>3, <3>1, <3>2
  <2>4. f = [k \in 0 .. n |-> IF k = 0 THEN base ELSE f[k - 1] \o T[k]]
    BY <2>2, <2>3
  <2> QED
    BY <2>4 DEF Joins
<1>5. ASSUME NEW f, Joins(f, n, base, T)
      PROVE  f[n] \in V
  <2>1. f = [k \in 0 .. n |-> IF k = 0 THEN base ELSE f[k - 1] \o T[k]]
    BY <1>5 DEF Joins
  <2>2. \A k \in 0 .. n : f[k] = IF k = 0 THEN base ELSE f[k - 1] \o T[k]
    BY <2>1
  <2> DEFINE P == {k \in 0 .. n : f[k] \in V}
  <2>3. 0 \in P
    BY <1>2, <2>2
  <2>4. \A k \in 1 .. n : k - 1 \in P => k \in P
    BY <1>1, <2>2
  <2>5. 0 .. n \subseteq P
    <3> HIDE DEF P
    <3> QED
      BY <2>3, <2>4, UpTo
  <2> QED
    BY <2>5
<1> QED
  BY <1>4, <1>5 DEF V

\* What is selected is appended.
Selects(f, n, W, T) ==
  f = [k \in 0 .. n |->
         IF k = 0 THEN <<>> ELSE IF k \in W THEN Append(f[k - 1], T[k]) ELSE f[k - 1]]
\* Sequence s has elements of T that were selected up to k, at most once each.
Picked(s, k, W, T) ==
  /\ \A p \in DOMAIN s : \E j \in 1 .. k : j \in W /\ s[p] = T[j]
  /\ \A p, q \in DOMAIN s :
       p # q => \E i, j \in 1 .. k : i # j /\ i \in W /\ j \in W /\ s[p] = T[i] /\ s[q] = T[j]
\* One more element, picked or not.
LEMMA PickedNext ==
  ASSUME NEW S, NEW s \in Seq(S), NEW k \in Nat \ {0}, NEW W, NEW T, Picked(s, k - 1, W, T),
         k \in W => T[k] \in S
  PROVE  Picked(s, k, W, T) /\ (k \in W => Picked(Append(s, T[k]), k, W, T))
<1>1. 1 .. k - 1 \subseteq 1 .. k /\ k \in 1 .. k /\ k \notin 1 .. k - 1
  OBVIOUS
<1>2. Picked(s, k, W, T)
  BY <1>1 DEF Picked
<1>3. ASSUME k \in W PROVE Picked(Append(s, T[k]), k, W, T)
  <2> DEFINE t == Append(s, T[k])
             n == Len(s)
  <2>1. n \in Nat /\ DOMAIN s = 1 .. n /\ DOMAIN t = 1 .. n + 1
        /\ t[n + 1] = T[k] /\ \A p \in 1 .. n : t[p] = s[p]
    BY <1>3
  <2> HIDE DEF t, n
  <2>2. ASSUME NEW p \in DOMAIN t
        PROVE  \E j \in 1 .. k : j \in W /\ t[p] = T[j]
    BY <1>1, <1>2, <1>3, <2>1 DEF Picked
  <2>3. ASSUME NEW p \in DOMAIN t, NEW q \in DOMAIN t, p # q
        PROVE  \E i, j \in 1 .. k : i # j /\ i \in W /\ j \in W /\ t[p] = T[i] /\ t[q] = T[j]
    <3>1. CASE p \in 1 .. n /\ q \in 1 .. n
      <4>1. PICK i, j \in 1 .. k : i # j /\ i \in W /\ j \in W /\ s[p] = T[i] /\ s[q] = T[j]
        BY <1>2, <2>1, <2>3, <3>1 DEF Picked
      <4> QED
        BY <2>1, <3>1, <4>1
    <3>2. CASE p \in 1 .. n /\ q = n + 1
      <4>1. PICK i \in 1 .. k - 1 : i \in W /\ s[p] = T[i]
        BY <2>1, <3>2 DEF Picked
      <4> QED
        BY <1>1, <1>3, <2>1, <3>2, <4>1
    <3>3. CASE p = n + 1 /\ q \in 1 .. n
      <4>1. PICK j \in 1 .. k - 1 : j \in W /\ s[q] = T[j]
        BY <2>1, <3>3 DEF Picked
      <4> QED
        BY <1>1, <1>3, <2>1, <3>3, <4>1
    <3> QED
      BY <2>1, <2>3, <3>1, <3>2, <3>3
  <2>4. Picked(t, k, W, T)
    BY <2>2, <2>3 DEF Picked
  <2> QED
    BY <2>4 DEF t
<1> QED
  BY <1>2, <1>3

\* There is such a selection, it is a sequence over S, and the elements of W are in it
\* in their order.
LEMMA SelectsTyped ==
  ASSUME NEW n \in Nat, NEW S, NEW W, NEW T, \A k \in 1 .. n : k \in W => T[k] \in S
  PROVE  /\ \E f : Selects(f, n, W, T)
         /\ \A f : Selects(f, n, W, T) => f[n] \in Seq(S) /\ Picked(f[n], n, W, T)
<1> DEFINE V == Seq(S)
           next(v, k) == IF k \in W THEN Append(v, T[k]) ELSE v
           Step == [p \in V \X (1 .. n) |-> next(p[1], p[2])]
<1>1. \A v \in V, k \in 1 .. n : next(v, k) \in V
  OBVIOUS
<1>1a. <<>> \in V
  OBVIOUS
<1> HIDE DEF V, next
<1>2. Step \in [V \X (1 .. n) -> V]
  BY <1>1
<1>3. \A v \in V, k \in 1 .. n : Step[<<v, k>>] = next(v, k)
  OBVIOUS
<1> HIDE DEF Step
<1>4. \E f : Selects(f, n, W, T)
  <2>1. PICK f \in [0 .. n -> V] : Recurs(f, n, <<>>, Step)
    <3> DEFINE base == <<>>
    <3>1. base \in V
      BY <1>1a
    <3> HIDE DEF base
    <3>2. \E f \in [0 .. n -> V] : Recurs(f, n, base, Step)
      BY <1>2, <3>1, Recursion
    <3> QED
      BY <3>2 DEF base
  <2>2. f = [k \in 0 .. n |-> IF k = 0 THEN <<>> ELSE Step[<<f[k - 1], k>>]]
    BY <2>1 DEF Recurs
  <2>3. ASSUME NEW k \in 0 .. n, k # 0
        PROVE  Step[<<f[k - 1], k>>] = next(f[k - 1], k)
    <3>1. k \in 1 .. n /\ k - 1 \in 0 .. n
      BY <2>3
    <3>2. f[k - 1] \in V
      BY <3>1
    <3> QED
      BY <1>3, <3>1, <3>2
  <2>4. f = [k \in 0 .. n |-> IF k = 0 THEN <<>> ELSE next(f[k - 1], k)]
    BY <2>2, <2>3
  <2> QED
    BY <2>4 DEF Selects, next
<1>5. ASSUME NEW f, Selects(f, n, W, T)
      PROVE  f[n] \in V /\ Picked(f[n], n, W, T)
  <2>1. f = [k \in 0 .. n |-> IF k = 0 THEN <<>> ELSE next(f[k - 1], k)]
    BY <1>5 DEF Selects, next
  <2>2. \A k \in 0 .. n : f[k] = IF k = 0 THEN <<>> ELSE next(f[k - 1], k)
    BY <2>1
  <2> DEFINE P == {k \in 0 .. n : f[k] \in V /\ Picked(f[k], k, W, T)}
  <2>3. 0 \in P
    <3>1. f[0] = <<>> /\ f[0] \in V
      BY <1>1a, <2>2
    <3>2. Picked(<<>>, 0, W, T)
      BY DEF Picked
    <3> QED
      BY <3>1, <3>2
  <2>4. \A k \in 1 .. n : k - 1 \in P => k \in P
    <3> TAKE k \in 1 .. n
    <3> HAVE k - 1 \in P
    <3> DEFINE s == f[k - 1]
    <3>1. f[k] = next(s, k) /\ s \in V /\ k \in 0 .. n /\ f[k] \in V
      BY <1>1, <2>2
    <3>2. Picked(s, k - 1, W, T) /\ k \in Nat \ {0}
      OBVIOUS
    <3>3. s \in Seq(S) /\ (k \in W => T[k] \in S)
      BY <3>1 DEF V
    <3> HIDE DEF s
    <3>4. Picked(s, k, W, T) /\ (k \in W => Picked(Append(s, T[k]), k, W, T))
      BY <3>2, <3>3, PickedNext
    <3>5. Picked(f[k], k, W, T)
      BY <3>1, <3>4 DEF next
    <3> QED
      BY <3>1, <3>5
  <2>5. 0 .. n \subseteq P
    <3> HIDE DEF P
    <3> QED
      BY <2>3, <2>4, UpTo
  <2> QED
    BY <2>5
<1> QED
  BY <1>4, <1>5 DEF V

\* The scope after every operation.
ScopeStates == [scope : Nat, level : Int, addr : Int, count : Nat, ok : BOOLEAN]
\* The scopes are known at every operation.
LEMMA ScopesTyped ==
  ASSUME NEW src, SourceSound(src), NEW addr \in Int
  PROVE  Scopes(src, addr) \in [0 .. Len(src) -> ScopeStates]
<1> DEFINE n == Len(src)
           base == AtMostTwo(Attr(addr, 0))
           first == Outside(base)
           next(s, k) ==
             IF InCalledFunction(src, src[k]) THEN s
             ELSE CASE src[k].name = "begin" -> Begun(s, src[k], base)
                    [] src[k].name = "end"   -> Ended(s, base)
                    [] OTHER                 -> s
           V == ScopeStates
           Step == [p \in V \X (1 .. n) |-> next(p[1], p[2])]
           after[k \in 0 .. n] == IF k = 0 THEN first ELSE next(after[k - 1], k)
<1>1. n \in Nat /\ \A k \in 1 .. n : src[k] \in Operations
  BY DEF SourceSound
<1>2. base \in Int /\ first \in V
  <2>1. base \in Int
    BY DEF AtMostTwo, Attr
  <2> HIDE DEF base
  <2> QED
    BY <2>1 DEF Outside, ScopeStates
<1> HIDE DEF base, first
<1>3. ASSUME NEW s \in V, NEW k \in 1 .. n PROVE next(s, k) \in V
  <2>1. /\ s.scope \in Nat /\ s.level \in Int /\ s.addr \in Int /\ s.count \in Nat /\ s.ok \in BOOLEAN
        /\ src[k].level \in Int /\ src[k].addr \in Int
    BY <1>1 DEF ScopeStates, Operations
  <2>2. Begun(s, src[k], base) \in V
    <3> DEFINE a == AtMostTwo(Attr(src[k].addr, base))
               l == Attr(src[k].level, 1)
    <3>1. a \in Int /\ l \in Int
      BY <1>2, <2>1 DEF AtMostTwo, Attr
    <3>2. Begun(s, src[k], base) =
            [scope |-> s.count + 1, level |-> l, addr |-> a, count |-> s.count + 1,
             ok |-> s.ok /\ s.scope = 0]
      BY DEF Begun
    <3> HIDE DEF a, l
    <3> QED
      BY <2>1, <3>1, <3>2 DEF ScopeStates
  <2>3. Ended(s, base) \in V
    <3> DEFINE b == s.ok /\ s.scope # 0
    <3>1. b \in BOOLEAN
      BY <2>1
    <3>2. Ended(s, base) = [Outside(base) EXCEPT !.count = s.count, !.ok = b]
      BY DEF Ended
    <3> HIDE DEF b
    <3>3. Ended(s, base) = [scope |-> 0, level |-> 1, addr |-> base, count |-> s.count, ok |-> b]
      BY <3>1, <3>2 DEF Outside
    <3> QED
      BY <1>2, <2>1, <3>1, <3>3 DEF ScopeStates
  <2> HIDE DEF V
  <2>4. next(s, k) = s \/ next(s, k) = Begun(s, src[k], base) \/ next(s, k) = Ended(s, base)
    OBVIOUS
  <2> HIDE DEF next
  <2> QED
    BY <2>2, <2>3, <2>4
<1> HIDE DEF next, V
<1>4. Step \in [V \X (1 .. n) -> V]
  BY <1>3
<1>5. \A v \in V, k \in 1 .. n : Step[<<v, k>>] = next(v, k)
  OBVIOUS
<1> HIDE DEF Step
<1>6. \E f \in [0 .. n -> V] : f = [k \in 0 .. n |-> IF k = 0 THEN first ELSE next(f[k - 1], k)]
  <2>1. PICK f \in [0 .. n -> V] : Recurs(f, n, first, Step)
    <3> HIDE DEF n
    <3> QED
      BY <1>1, <1>2, <1>4, Recursion
  <2>2. f = [k \in 0 .. n |-> IF k = 0 THEN first ELSE Step[<<f[k - 1], k>>]]
    BY <2>1 DEF Recurs
  <2>3. ASSUME NEW k \in 0 .. n, k # 0
        PROVE  Step[<<f[k - 1], k>>] = next(f[k - 1], k)
    <3>1. k \in 1 .. n /\ k - 1 \in 0 .. n
      BY <1>1, <2>3
    <3>2. f[k - 1] \in V
      BY <3>1
    <3> QED
      BY <1>5, <3>1, <3>2
  <2> HIDE DEF n
  <2>4. f = [k \in 0 .. n |-> IF k = 0 THEN first ELSE next(f[k - 1], k)]
    BY <2>2, <2>3
  <2> QED
    BY <2>4
<1>7. after = [k \in 0 .. n |-> IF k = 0 THEN first ELSE next(after[k - 1], k)]
  <2> HIDE DEF n
  <2> QED
    BY <1>6
<1>8. Scopes(src, addr) = after
  BY DEF Scopes, next, first, base
<1> HIDE DEF after
<1> DEFINE P == {k \in 0 .. n : after[k] \in V}
<1>9. \A k \in 0 .. n : after[k] = IF k = 0 THEN first ELSE next(after[k - 1], k)
  BY <1>7
<1>10. 0 \in P
  BY <1>1, <1>2, <1>9
<1>11. \A k \in 1 .. n : k - 1 \in P => k \in P
  <2> TAKE k \in 1 .. n
  <2> HAVE k - 1 \in P
  <2>1. after[k - 1] \in V /\ k \in 0 .. n /\ k # 0 /\ k - 1 \in 0 .. n
    BY <1>1
  <2>2. after[k] = next(after[k - 1], k)
    BY <1>9, <2>1
  <2>3. next(after[k - 1], k) \in V
    BY <1>3, <2>1
  <2> QED
    BY <2>1, <2>2, <2>3
<1>12. 0 .. n \subseteq P
  <2> HIDE DEF P, n
  <2> QED
    BY <1>1, <1>10, <1>11, UpTo
<1>13. after \in [0 .. n -> V]
  BY <1>7, <1>12
<1> QED
  BY <1>8, <1>13 DEF V

-----------------------------------------------------------------------------
(* Ids.                                                                     *)

\* Finitely many numbers have a bound, and with 0 a largest one.
LEMMA BoundOf ==
  ASSUME NEW n \in Nat, NEW g \in [1 .. n -> Nat]
  PROVE  \E b \in Nat : \A k \in 1 .. n : g[k] <= b
<1> DEFINE P == {m \in 0 .. n : \E b \in Nat : \A k \in 1 .. m : g[k] <= b}
<1>1. 0 \in P
  OBVIOUS
<1>2. \A m \in 1 .. n : m - 1 \in P => m \in P
  <2> TAKE m \in 1 .. n
  <2> HAVE m - 1 \in P
  <2>1. PICK b \in Nat : \A k \in 1 .. m - 1 : g[k] <= b
    OBVIOUS
  <2> DEFINE c == IF g[m] <= b THEN b ELSE g[m]
  <2>2. c \in Nat /\ g[m] <= c /\ b <= c /\ m \in 0 .. n
    OBVIOUS
  <2>3. \A k \in 1 .. m : k = m \/ k \in 1 .. m - 1
    OBVIOUS
  <2>4. ASSUME NEW k \in 1 .. m PROVE g[k] <= c
    <3>0. g[k] \in Nat
      OBVIOUS
    <3> HIDE DEF c
    <3>1. k = m \/ (k \in 1 .. m - 1 /\ g[k] <= b)
      BY <2>1, <2>3
    <3> QED
      BY <2>2, <3>0, <3>1
  <2>5. \E x \in Nat : \A k \in 1 .. m : g[k] <= x
    <3> HIDE DEF c
    <3> QED
      BY <2>2, <2>4
  <2> QED
    BY <2>2, <2>5
<1>3. 0 .. n \subseteq P
  <2> HIDE DEF P
  <2> QED
    BY <1>1, <1>2, UpTo
<1>4. n \in P
  <2> HIDE DEF P
  <2> QED
    BY <1>3
<1> QED
  BY <1>4

\* The first free id is above those that came with the source.
LEMMA FirstFree ==
  ASSUME NEW src, SourceSound(src)
  PROVE  /\ FirstFreeId(src) \in Nat \ {0}
         /\ \A k \in DOMAIN src :
              ~IsCall(src[k]) /\ ~InCalledFunction(src, src[k]) => src[k].id < FirstFreeId(src)
<1> DEFINE n == Len(src)
           own == {k \in DOMAIN src : ~IsCall(src[k]) /\ ~InCalledFunction(src, src[k])}
           ids == {src[k].id : k \in own}
           kept == ids \cup {0}
           g == [k \in 1 .. n |-> src[k].id]
<1>1. n \in Nat /\ DOMAIN src = 1 .. n /\ \A k \in 1 .. n : src[k].id \in Nat
  <2>1. src \in Seq(Operations)
    BY DEF SourceSound
  <2>2. n \in Nat /\ DOMAIN src = 1 .. n /\ \A k \in 1 .. n : src[k] \in Operations
    BY <2>1
  <2> QED
    BY <2>2 DEF Operations
<1>2. PICK b \in Nat : \A k \in 1 .. n : src[k].id <= b
  <2>1. g \in [1 .. n -> Nat]
    BY <1>1
  <2>2. \E b \in Nat : \A k \in 1 .. n : g[k] <= b
    <3> HIDE DEF g, n
    <3> QED
      BY <1>1, <2>1, BoundOf
  <2> QED
    BY <2>2
<1>3. /\ \A x \in kept : x \in Nat /\ x <= b
      /\ 0 \in kept /\ \A k \in own : src[k].id \in kept
  <2> HIDE DEF n
  <2>1. \A k \in own : k \in 1 .. n
    BY <1>1
  <2> HIDE DEF own
  <2> QED
    BY <1>1, <1>2, <2>1
<1> HIDE DEF kept, own, n
<1> DEFINE U == {c \in Nat : \A x \in kept : x <= c}
<1>4. b \in U /\ U \in SUBSET Nat
  BY <1>3
<1>5. PICK c \in U : \A d \in U : c <= d
  <2> HIDE DEF U
  <2> QED
    BY <1>4, SmallestIn
<1>6. c \in kept
  <2> SUFFICES ASSUME c \notin kept PROVE FALSE
    OBVIOUS
  <2>1. c \in Nat \ {0}
    BY <1>3, <1>5
  <2>2. \A x \in kept : x \in Nat /\ x <= c /\ x # c
    BY <1>3, <1>5
  <2>3. c - 1 \in Nat /\ \A x \in kept : x <= c - 1
    BY <2>1, <2>2
  <2>4. c - 1 \in U
    BY <2>3
  <2>5. c <= c - 1
    BY <1>5, <2>4
  <2> QED
    BY <2>1, <2>5
<1> DEFINE most == CHOOSE i \in kept : \A j \in kept : j <= i
<1>7. most \in kept /\ \A j \in kept : j <= most
  <2>1. \A j \in kept : j <= c
    BY <1>5
  <2> HIDE DEF U
  <2> QED
    BY <1>6, <2>1
<1>8. FirstFreeId(src) = 1 + most
  BY DEF FirstFreeId, kept, own
<1> HIDE DEF most
<1>9. most \in Nat
  BY <1>3, <1>7
<1>10. \A k \in own : src[k].id <= most /\ src[k].id \in Nat
  BY <1>3, <1>7
<1> QED
  BY <1>8, <1>9, <1>10 DEF own

\* Counting what comes before tells the members of a finite set apart.
LEMMA Ranked ==
  ASSUME NEW S, IsFiniteSet(S), NEW A \in SUBSET S, NEW B \in SUBSET S, NEW x \in B,
         A \subseteq B, x \notin A
  PROVE  /\ Cardinality(A) \in Nat /\ Cardinality(B) \in Nat /\ Cardinality(S) \in Nat
         /\ Cardinality(A) < Cardinality(B) /\ Cardinality(B) <= Cardinality(S)
<1>1. IsFiniteSet(B) /\ Cardinality(B) <= Cardinality(S)
  BY FS_Subset
<1>2. IsFiniteSet(A) /\ Cardinality(A) <= Cardinality(B)
      /\ (Cardinality(B) = Cardinality(A) => B = A)
  BY <1>1, FS_Subset
<1>3. Cardinality(A) \in Nat /\ Cardinality(B) \in Nat /\ Cardinality(S) \in Nat
  BY <1>1, <1>2, FS_CardinalityType
<1>4. B # A
  OBVIOUS
<1> QED
  BY <1>1, <1>2, <1>3, <1>4

\* What a tracked operation is.
Tracks(src, tracked) ==
  tracked \subseteq {k \in DOMAIN src : ~IsCall(src[k]) /\ ~InCalledFunction(src, src[k])}
\* What gets an id is finite, and of the operations that are tracked.
LEMMA CapturesFinite ==
  ASSUME NEW src, SourceSound(src), NEW tracked, Tracks(src, tracked)
  PROVE  /\ IsFiniteSet(Unnumbered(src, tracked)) /\ IsFiniteSet(CapturedInputs(src, tracked))
         /\ Unnumbered(src, tracked) \subseteq Nat
         /\ \A p \in CapturedInputs(src, tracked) :
              p \in Nat \X Nat /\ p[1] \in tracked /\ p[2] \in DOMAIN src[p[1]].operands
<1> DEFINE n == Len(src)
           g == [k \in 1 .. n |-> Len(src[k].operands)]
           Q == {p \in UNION {{k} \X DOMAIN src[k].operands : k \in tracked} :
                   IsCaptured(src, tracked, p[1], p[2])}
<1>1. /\ n \in Nat /\ DOMAIN src = 1 .. n /\ tracked \subseteq 1 .. n
      /\ \A k \in 1 .. n : Len(src[k].operands) \in Nat
                           /\ DOMAIN src[k].operands = 1 .. Len(src[k].operands)
  <2>1. src \in Seq(Operations)
    BY DEF SourceSound
  <2>2. n \in Nat /\ DOMAIN src = 1 .. n /\ \A k \in 1 .. n : src[k] \in Operations
    BY <2>1
  <2>3. \A k \in 1 .. n : src[k].operands \in Seq(Operands)
    BY <2>2 DEF Operations
  <2>4. \A k \in 1 .. n : Len(src[k].operands) \in Nat
                           /\ DOMAIN src[k].operands = 1 .. Len(src[k].operands)
    BY <2>3
  <2> HIDE DEF n
  <2> QED
    BY <2>2, <2>4 DEF Tracks
<1>2. PICK b \in Nat : \A k \in 1 .. n : Len(src[k].operands) <= b
  <2>1. g \in [1 .. n -> Nat]
    BY <1>1
  <2>2. \E b \in Nat : \A k \in 1 .. n : g[k] <= b
    <3> HIDE DEF g, n
    <3> QED
      BY <1>1, <2>1, BoundOf
  <2> QED
    BY <2>2
<1> HIDE DEF n
<1>3. ASSUME NEW p \in Q
      PROVE  p \in (1 .. n) \X (1 .. b) /\ p[1] \in tracked /\ p[2] \in DOMAIN src[p[1]].operands
  <2>1. PICK k \in tracked : p \in {k} \X DOMAIN src[k].operands
    OBVIOUS
  <2>2. p = <<p[1], p[2]>> /\ p[1] = k /\ p[2] \in DOMAIN src[k].operands
    BY <2>1
  <2>3. k \in 1 .. n /\ Len(src[k].operands) <= b /\ Len(src[k].operands) \in Nat
        /\ DOMAIN src[k].operands = 1 .. Len(src[k].operands)
    BY <1>1, <1>2
  <2>4. p[2] \in 1 .. b
    BY <2>2, <2>3
  <2> HIDE DEF Q
  <2> QED
    BY <2>1, <2>2, <2>3, <2>4
<1>4. IsFiniteSet((1 .. n) \X (1 .. b))
  <2> DEFINE A == 1 .. n
             B == 1 .. b
  <2>1. IsFiniteSet(A) /\ IsFiniteSet(B)
    BY <1>1, FS_Interval
  <2> HIDE DEF A, B
  <2>2. IsFiniteSet(A \X B)
    BY <2>1, FS_Product
  <2> QED
    BY <2>2 DEF A, B
<1>5. CapturedInputs(src, tracked) = Q
  BY DEF CapturedInputs
<1> HIDE DEF Q
<1>6. IsFiniteSet(Q)
  <2>1. Q \in SUBSET ((1 .. n) \X (1 .. b))
    BY <1>3
  <2> QED
    BY <1>4, <2>1, FS_Subset
<1>7. IsFiniteSet(Unnumbered(src, tracked)) /\ Unnumbered(src, tracked) \subseteq Nat
  <2>1. IsFiniteSet(1 .. n)
    BY <1>1, FS_Interval
  <2>2. Unnumbered(src, tracked) \in SUBSET (1 .. n)
    BY <1>1 DEF Unnumbered
  <2>3. 1 .. n \subseteq Nat
    BY <1>1
  <2> QED
    BY <2>1, <2>2, <2>3, FS_Subset
<1>8. (1 .. n) \X (1 .. b) \subseteq Nat \X Nat
  BY <1>1
<1> QED
  BY <1>3, <1>5, <1>6, <1>7, <1>8

\* Operations and captures never get the same id, nor two of them.
LEMMA OpIds ==
  ASSUME NEW src, SourceSound(src), NEW tracked, Tracks(src, tracked)
  PROVE  LET F == FirstFreeId(src) + Cardinality(Unnumbered(src, tracked)) IN
         /\ F \in Nat
         /\ \A k \in tracked : OpId(src, tracked, k) \in Nat \ {0} /\ OpId(src, tracked, k) < F
         /\ \A j, k \in tracked : OpId(src, tracked, j) = OpId(src, tracked, k) => j = k
<1> DEFINE U == Unnumbered(src, tracked)
           N == Cardinality(U)
           first == FirstFreeId(src)
           below(k) == {j \in U : j < k}
           rank(k) == Cardinality(below(k))
<1>1. /\ src \in Seq(Operations) /\ DistinctIds(src)
      /\ tracked \subseteq DOMAIN src /\ DOMAIN src \subseteq Nat
      /\ \A k \in DOMAIN src : src[k].id \in Nat
  <2>1. src \in Seq(Operations) /\ DistinctIds(src)
    BY DEF SourceSound
  <2>2. DOMAIN src \subseteq Nat /\ \A k \in DOMAIN src : src[k] \in Operations
    BY <2>1
  <2> QED
    BY <2>1, <2>2 DEF Operations, Tracks
<1>2. first \in Nat \ {0} /\ \A k \in tracked : src[k].id < first
  <2>1. first \in Nat \ {0} /\ \A k \in DOMAIN src :
          ~IsCall(src[k]) /\ ~InCalledFunction(src, src[k]) => src[k].id < first
    BY FirstFree
  <2> QED
    BY <2>1 DEF Tracks
<1>3. IsFiniteSet(U) /\ U \subseteq Nat /\ U \subseteq tracked
      /\ \A k \in tracked : k \in U <=> src[k].id = 0
  BY CapturesFinite DEF Unnumbered
<1>4. N \in Nat
  BY <1>3, FS_CardinalityType
<1>5. \A k : OpId(src, tracked, k) = IF src[k].id # 0 THEN src[k].id ELSE first + rank(k)
  BY DEF OpId
<1> HIDE DEF U, N, first
<1>6. \A k \in U : rank(k) \in Nat /\ rank(k) < N
  <2> TAKE k \in U
  <2>1. below(k) \in SUBSET U /\ U \in SUBSET U /\ k \in U /\ below(k) \subseteq U /\ k \notin below(k)
    BY <1>3
  <2> HIDE DEF below
  <2> QED
    BY <1>3, <2>1, Ranked DEF N
<1>7. \A j, k \in U : j < k => rank(j) < rank(k)
  <2> TAKE j, k \in U
  <2> HAVE j < k
  <2>0. j \in Nat /\ k \in Nat /\ \A i \in U : i \in Nat
    BY <1>3
  <2>1a. below(j) \in SUBSET U /\ below(k) \in SUBSET U /\ j \in below(k) /\ j \notin below(j)
    BY <2>0
  <2>1b. ASSUME NEW i \in below(j) PROVE i \in below(k)
    <3>1. i \in U /\ i < j
      OBVIOUS
    <3>2. i < k
      BY <2>0, <3>1
    <3> QED
      BY <3>1, <3>2
  <2>1. /\ below(j) \in SUBSET U /\ below(k) \in SUBSET U /\ j \in below(k)
        /\ below(j) \subseteq below(k) /\ j \notin below(j)
    <3> HIDE DEF below
    <3> QED
      BY <2>1a, <2>1b
  <2> HIDE DEF below
  <2> QED
    BY <1>3, <2>1, Ranked
<1> HIDE DEF rank
<1>8. \A j, k \in U : rank(j) = rank(k) => j = k
  <2> TAKE j, k \in U
  <2> HAVE rank(j) = rank(k)
  <2>1. j \in Nat /\ k \in Nat /\ rank(j) \in Nat /\ rank(k) \in Nat
    BY <1>3, <1>6
  <2> QED
    BY <1>7, <2>1
<1> DEFINE id(k) == OpId(src, tracked, k)
<1>9. ASSUME NEW k \in tracked
      PROVE  \/ k \notin U /\ id(k) = src[k].id /\ id(k) \in Nat \ {0} /\ id(k) < first
             \/ k \in U /\ id(k) = first + rank(k) /\ id(k) \in Nat \ {0} /\ id(k) >= first /\ id(k) < first + N
  <2>1. CASE k \in U
    <3>1. id(k) = first + rank(k) /\ rank(k) \in Nat /\ rank(k) < N
      BY <1>3, <1>5, <1>6, <2>1
    <3> HIDE DEF id
    <3> QED
      BY <1>2, <1>4, <2>1, <3>1
  <2>2. CASE k \notin U
    <3>1. id(k) = src[k].id /\ src[k].id # 0
      BY <1>3, <1>5, <2>2
    <3> HIDE DEF id
    <3> QED
      BY <1>1, <1>2, <2>2, <3>1
  <2> QED
    BY <2>1, <2>2
<1> HIDE DEF id
<1>10. ASSUME NEW j \in tracked, NEW k \in tracked, id(j) = id(k)
       PROVE  j = k
  <2>1. CASE j \in U /\ k \in U
    <3>1. first + rank(j) = first + rank(k) /\ rank(j) \in Nat /\ rank(k) \in Nat
      BY <1>6, <1>9, <1>10, <2>1
    <3>2. rank(j) = rank(k)
      BY <1>2, <3>1
    <3> QED
      BY <1>8, <2>1, <3>2
  <2>2. CASE j \notin U /\ k \notin U
    <3>1. src[j].id = src[k].id /\ src[j].id # 0
      BY <1>9, <1>10, <2>2
    <3> QED
      BY <1>1, <3>1 DEF DistinctIds
  <2>3. CASE ~(j \in U <=> k \in U)
    <3>1. (id(j) < first /\ id(k) >= first) \/ (id(k) < first /\ id(j) >= first)
      BY <1>9, <2>3
    <3>2. id(j) \in Nat
      BY <1>9
    <3> QED
      BY <1>2, <1>10, <3>1, <3>2
  <2> QED
    BY <2>1, <2>2, <2>3
<1>11. ASSUME NEW k \in tracked PROVE id(k) \in Nat \ {0} /\ id(k) < first + N
  BY <1>2, <1>4, <1>9
<1>12. first + N \in Nat
  BY <1>2, <1>4
<1> QED
  BY <1>10, <1>11, <1>12 DEF id, first, N, U

\* Captured operands get ids of their own, above those of the operations.
LEMMA CaptureIds ==
  ASSUME NEW src, SourceSound(src), NEW tracked, Tracks(src, tracked)
  PROVE  LET F == FirstFreeId(src) + Cardinality(Unnumbered(src, tracked))
             C == CapturedInputs(src, tracked)
         IN /\ \A p \in C : CaptureId(src, tracked, p) \in Nat /\ CaptureId(src, tracked, p) >= F
            /\ \A p, q \in C : CaptureId(src, tracked, p) = CaptureId(src, tracked, q) => p = q
<1> DEFINE F == FirstFreeId(src) + Cardinality(Unnumbered(src, tracked))
           C == CapturedInputs(src, tracked)
           before(p) == {q \in C : Before(q, p)}
           rank(p) == Cardinality(before(p))
<1>1. F \in Nat
  BY OpIds
<1>2. IsFiniteSet(C) /\ \A p \in C : p \in Nat \X Nat
  BY CapturesFinite
<1>3. \A p : CaptureId(src, tracked, p) = F + rank(p)
  BY DEF CaptureId
<1> HIDE DEF F, C
<1>4. \A p \in C : rank(p) \in Nat
  <2> TAKE p \in C
  <2>1. IsFiniteSet(before(p))
    <3>1. before(p) \in SUBSET C
      OBVIOUS
    <3> HIDE DEF before
    <3> QED
      BY <1>2, <3>1, FS_Subset
  <2> HIDE DEF before
  <2> QED
    BY <2>1, FS_CardinalityType
<1>5. ASSUME NEW p \in C, NEW q \in C, Before(p, q)
      PROVE  rank(p) < rank(q)
  <2>1. p[1] \in Nat /\ p[2] \in Nat /\ q[1] \in Nat /\ q[2] \in Nat
    BY <1>2
  <2>2. \A r \in C : r[1] \in Nat /\ r[2] \in Nat
    BY <1>2
  <2>3. ASSUME NEW r \in before(p) PROVE r \in before(q)
    <3>1. r \in C /\ Before(r, p)
      OBVIOUS
    <3>2. Before(r, q)
      BY <1>5, <2>1, <2>2, <3>1 DEF Before
    <3> QED
      BY <3>1, <3>2
  <2>4. p \in before(q) /\ p \notin before(p)
    BY <1>5, <2>1 DEF Before
  <2>5. before(p) \in SUBSET C /\ before(q) \in SUBSET C
    OBVIOUS
  <2> HIDE DEF before
  <2> QED
    BY <1>2, <2>3, <2>4, <2>5, Ranked
<1>6. ASSUME NEW p \in C, NEW q \in C, p # q
      PROVE  Before(p, q) \/ Before(q, p)
  <2>1. p \in Nat \X Nat /\ q \in Nat \X Nat
    BY <1>2
  <2>2. p = <<p[1], p[2]>> /\ q = <<q[1], q[2]>> /\ p[1] \in Nat /\ p[2] \in Nat /\ q[1] \in Nat /\ q[2] \in Nat
    BY <2>1
  <2>3. p[1] # q[1] \/ p[2] # q[2]
    BY <1>6, <2>2
  <2> QED
    BY <2>2, <2>3 DEF Before
<1> HIDE DEF rank
<1>7. ASSUME NEW p \in C, NEW q \in C, F + rank(p) = F + rank(q)
      PROVE  p = q
  <2>1. rank(p) = rank(q) /\ rank(p) \in Nat
    BY <1>1, <1>4, <1>7
  <2>2. ~(rank(p) < rank(q)) /\ ~(rank(q) < rank(p))
    BY <2>1
  <2> QED
    BY <1>5, <1>6, <2>2
<1>8. \A p \in C : F + rank(p) \in Nat /\ F + rank(p) >= F
  BY <1>1, <1>4
<1> QED
  BY <1>3, <1>7, <1>8 DEF F, C

\* The operands captured at an operation are its own, each with its own id.
LEMMA CapturesOwn ==
  ASSUME NEW src, SourceSound(src), NEW tracked, Tracks(src, tracked), NEW k \in tracked
  PROVE  LET c == Captures(src, tracked, k) IN
         /\ c \in Seq(CapturedOperands)
         /\ \A p \in DOMAIN c : \E m : <<k, m>> \in CapturedInputs(src, tracked)
                                       /\ c[p].id = CaptureId(src, tracked, <<k, m>>)
         /\ \A p, q \in DOMAIN c : c[p].id = c[q].id => p = q
<1> DEFINE operands == src[k].operands
           n == Len(operands)
           C == CapturedInputs(src, tracked)
           item(m) == [id |-> CaptureId(src, tracked, <<k, m>>),
                       dtype |-> operands[m].dtype, lanes |-> operands[m].lanes]
           T == [m \in 1 .. n |-> item(m)]
           W == {m \in 1 .. n : IsCaptured(src, tracked, k, m)}
           S == CapturedOperands
           upTo[m \in 0 .. n] ==
             IF m = 0 THEN <<>>
             ELSE IF ~IsCaptured(src, tracked, k, m) THEN upTo[m - 1]
             ELSE Append(upTo[m - 1], item(m))
<1>1. /\ n \in Nat /\ DOMAIN operands = 1 .. n
      /\ \A m \in 1 .. n : /\ operands[m].dtype \in Dtypes /\ operands[m].lanes \in Nat
                           /\ operands[m].dtype # "none" => operands[m].lanes \in DOMAIN Tensors
  <2>1. k \in DOMAIN src /\ src \in Seq(Operations) /\ \A j \in DOMAIN src : Sized(src[j])
    BY DEF SourceSound, Tracks
  <2>2. src[k] \in Operations /\ Sized(src[k])
    BY <2>1
  <2>3. operands \in Seq(Operands)
    BY <2>2 DEF Operations
  <2>4. n \in Nat /\ DOMAIN operands = 1 .. n /\ \A m \in 1 .. n : operands[m] \in Operands
    BY <2>3
  <2>5. \A m \in DOMAIN operands : operands[m].dtype # "none" => operands[m].lanes \in DOMAIN Tensors
    BY <2>2 DEF Sized
  <2> HIDE DEF operands, n
  <2> QED
    BY <2>4, <2>5 DEF Operands
<1> HIDE DEF n
<1>2. \A m \in W : <<k, m>> \in C
  <2> TAKE m \in W
  <2>1. <<k, m>> \in UNION {{j} \X DOMAIN src[j].operands : j \in tracked}
    <3>1. <<k, m>> \in {k} \X DOMAIN src[k].operands
      BY <1>1
    <3> QED
      BY <3>1
  <2>2. IsCaptured(src, tracked, k, m)
    OBVIOUS
  <2> QED
    BY <2>1, <2>2 DEF CapturedInputs
<1>3. \A p \in C : CaptureId(src, tracked, p) \in Nat
  <2>1. LET F == FirstFreeId(src) + Cardinality(Unnumbered(src, tracked))
        IN  F \in Nat /\ \A p \in C : CaptureId(src, tracked, p) \in Nat /\ CaptureId(src, tracked, p) >= F
    <3> HIDE DEF C
    <3> QED
      BY CaptureIds, OpIds DEF C
  <2> QED
    BY <2>1
<1> HIDE DEF C
<1>4. \A m \in 1 .. n : m \in W => T[m] \in S
  <2> TAKE m \in 1 .. n
  <2> HAVE m \in W
  <2>1. operands[m].dtype \notin {"none", "ptr"}
    BY DEF IsCaptured
  <2>2. CaptureId(src, tracked, <<k, m>>) \in Nat
    BY <1>2, <1>3
  <2>3. T[m] = item(m)
    OBVIOUS
  <2>4. operands[m].dtype \in Dtypes \ {"none", "ptr"} /\ operands[m].lanes \in DOMAIN Tensors
    BY <1>1, <2>1
  <2> HIDE DEF T, W, operands
  <2> QED
    BY <2>2, <2>3, <2>4 DEF CapturedOperands
<1>5. \A m \in 0 .. n : m # 0 => (m \in W <=> IsCaptured(src, tracked, k, m)) /\ T[m] = item(m)
  BY <1>1
<1> HIDE DEF item, T, W
<1> DEFINE Sol(f) == f = [m \in 0 .. n |->
                            IF m = 0 THEN <<>>
                            ELSE IF ~IsCaptured(src, tracked, k, m) THEN f[m - 1]
                            ELSE Append(f[m - 1], item(m))]
<1>6. \A f : Selects(f, n, W, T) <=> Sol(f)
  <2> TAKE f
  <2>1. [m \in 0 .. n |->
           IF m = 0 THEN <<>> ELSE IF m \in W THEN Append(f[m - 1], T[m]) ELSE f[m - 1]]
        = [m \in 0 .. n |->
             IF m = 0 THEN <<>>
             ELSE IF ~IsCaptured(src, tracked, k, m) THEN f[m - 1]
             ELSE Append(f[m - 1], item(m))]
    BY <1>5
  <2> QED
    BY <2>1 DEF Selects
<1>7. \E f : Sol(f)
  <2>1. \E f : Selects(f, n, W, T)
    BY <1>1, <1>4, SelectsTyped
  <2> HIDE DEF Sol
  <2> QED
    BY <1>6, <2>1
<1>8. Sol(upTo)
  BY <1>7
<1>9. Captures(src, tracked, k) = upTo[n]
  BY DEF Captures, n, item
<1> HIDE DEF upTo, Sol
<1>10. upTo[n] \in Seq(S) /\ Picked(upTo[n], n, W, T)
  <2>1. Selects(upTo, n, W, T)
    BY <1>6, <1>8
  <2> QED
    BY <1>1, <1>4, <2>1, SelectsTyped
<1> DEFINE c == upTo[n]
<1> HIDE DEF c
<1>11. c \in Seq(S) /\ Picked(c, n, W, T)
  BY <1>10 DEF c
<1>12. \A m \in 1 .. n : m \in W => T[m].id = CaptureId(src, tracked, <<k, m>>) /\ <<k, m>> \in C
  BY <1>2, <1>5 DEF T, item
<1>13. ASSUME NEW p \in DOMAIN c
       PROVE  \E m : <<k, m>> \in C /\ c[p].id = CaptureId(src, tracked, <<k, m>>)
  <2>1. PICK m \in 1 .. n : m \in W /\ c[p] = T[m]
    BY <1>11 DEF Picked
  <2> QED
    BY <1>12, <2>1
<1>14. ASSUME NEW p \in DOMAIN c, NEW q \in DOMAIN c, c[p].id = c[q].id
       PROVE  p = q
  <2> SUFFICES ASSUME p # q PROVE FALSE
    OBVIOUS
  <2>1. PICK i, j \in 1 .. n : i # j /\ i \in W /\ j \in W /\ c[p] = T[i] /\ c[q] = T[j]
    BY <1>11 DEF Picked
  <2>2. CaptureId(src, tracked, <<k, i>>) = CaptureId(src, tracked, <<k, j>>)
    BY <1>12, <1>14, <2>1
  <2>3. <<k, i>> \in C /\ <<k, j>> \in C
    BY <1>12, <2>1
  <2>4. \A x, y \in C : CaptureId(src, tracked, x) = CaptureId(src, tracked, y) => x = y
    BY CaptureIds DEF C
  <2>5. <<k, i>> = <<k, j>>
    BY <2>2, <2>3, <2>4
  <2> QED
    BY <2>1, <2>5
<1> QED
  BY <1>9, <1>11, <1>13, <1>14 DEF c, C

\* No id stands for two values.
LEMMA IdentityApart ==
  ASSUME NEW src, SourceSound(src), NEW tracked, Tracks(src, tracked),
         NEW j \in tracked, NEW k \in tracked, NEW op, NEW oq,
         op.id = OpId(src, tracked, j), op.captures = Captures(src, tracked, j),
         oq.id = OpId(src, tracked, k), oq.captures = Captures(src, tracked, k),
         NEW c \in 0 .. Len(op.captures), NEW d \in 0 .. Len(oq.captures),
         Identity(op, c) = Identity(oq, d)
  PROVE  j = k /\ c = d
<1> DEFINE F == FirstFreeId(src) + Cardinality(Unnumbered(src, tracked))
           C == CapturedInputs(src, tracked)
           cid(p) == CaptureId(src, tracked, p)
           cj == Captures(src, tracked, j)
           ck == Captures(src, tracked, k)
<1>1. /\ F \in Nat /\ \A m \in tracked : OpId(src, tracked, m) \in Nat \ {0} /\ OpId(src, tracked, m) < F
      /\ \A m, n \in tracked : OpId(src, tracked, m) = OpId(src, tracked, n) => m = n
  BY OpIds
<1>2. /\ \A p \in C : cid(p) \in Nat /\ cid(p) >= F
      /\ \A p, q \in C : cid(p) = cid(q) => p = q
  BY CaptureIds
<1>3. /\ cj \in Seq(CapturedOperands)
      /\ \A p \in DOMAIN cj : \E m : <<j, m>> \in C /\ cj[p].id = cid(<<j, m>>)
      /\ \A p, q \in DOMAIN cj : cj[p].id = cj[q].id => p = q
  BY CapturesOwn
<1>4. /\ ck \in Seq(CapturedOperands)
      /\ \A p \in DOMAIN ck : \E m : <<k, m>> \in C /\ ck[p].id = cid(<<k, m>>)
  BY CapturesOwn
<1>5. op.captures = cj /\ oq.captures = ck /\ (j = k => cj = ck)
  OBVIOUS
<1> HIDE DEF F, C, cid, cj, ck
<1>6. c # 0 => c \in DOMAIN cj
  BY <1>3, <1>5
<1>7. d # 0 => d \in DOMAIN ck
  BY <1>4, <1>5
<1>8. ASSUME c = 0 PROVE Identity(op, c) = OpId(src, tracked, j)
  BY <1>8 DEF Identity
<1>9. ASSUME c # 0 PROVE \E m : <<j, m>> \in C /\ Identity(op, c) = cid(<<j, m>>)
  BY <1>3, <1>5, <1>6, <1>9 DEF Identity
<1>10. ASSUME d = 0 PROVE Identity(oq, d) = OpId(src, tracked, k)
  BY <1>10 DEF Identity
<1>11. ASSUME d # 0 PROVE \E m : <<k, m>> \in C /\ Identity(oq, d) = cid(<<k, m>>)
  BY <1>4, <1>5, <1>7, <1>11 DEF Identity
<1>12. CASE c = 0 /\ d = 0
  BY <1>1, <1>8, <1>10, <1>12
<1>13. CASE c # 0 /\ d # 0
  <2>1. PICK m : <<j, m>> \in C /\ Identity(op, c) = cid(<<j, m>>)
    BY <1>9, <1>13
  <2>2. PICK n : <<k, n>> \in C /\ Identity(oq, d) = cid(<<k, n>>)
    BY <1>11, <1>13
  <2>3. <<j, m>> = <<k, n>>
    BY <1>2, <2>1, <2>2
  <2>4. j = k
    BY <2>3
  <2>5. cj[c].id = cj[d].id /\ c \in DOMAIN cj /\ d \in DOMAIN cj
    BY <1>5, <1>6, <1>7, <1>13, <2>4 DEF Identity
  <2> QED
    BY <1>3, <2>4, <2>5
<1>14. CASE c = 0 /\ d # 0
  <2>1. PICK n : <<k, n>> \in C /\ Identity(oq, d) = cid(<<k, n>>)
    BY <1>11, <1>14
  <2>2. OpId(src, tracked, j) < F /\ OpId(src, tracked, j) \in Nat /\ cid(<<k, n>>) \in Nat /\ cid(<<k, n>>) >= F
        /\ OpId(src, tracked, j) = cid(<<k, n>>)
    BY <1>1, <1>2, <1>8, <1>14, <2>1
  <2> QED
    BY <1>1, <2>2
<1>15. CASE c # 0 /\ d = 0
  <2>1. PICK n : <<j, n>> \in C /\ Identity(op, c) = cid(<<j, n>>)
    BY <1>9, <1>15
  <2>2. OpId(src, tracked, k) < F /\ OpId(src, tracked, k) \in Nat /\ cid(<<j, n>>) \in Nat /\ cid(<<j, n>>) >= F
        /\ OpId(src, tracked, k) = cid(<<j, n>>)
    BY <1>1, <1>2, <1>10, <1>15, <2>1
  <2> QED
    BY <1>1, <2>2
<1> QED
  BY <1>12, <1>13, <1>14, <1>15

\* The kernel of a source: operations of their own, each with what it is known by.
LEMMA KernelIsSound ==
  ASSUME NEW src, SourceSound(src), NEW addr \in Int
  PROVE  KernelSound(KernelOf(src, addr))
<1> DEFINE n == Len(src)
           scopes == Scopes(src, addr)
           tracked == TrackedOps(src, scopes)
           id(k) == IF k \in tracked THEN OpId(src, tracked, k) ELSE 0
           captures(k) == IF k \in tracked THEN Captures(src, tracked, k) ELSE <<>>
           numbered(k) ==
             [name |-> src[k].name, func |-> src[k].func, callee |-> src[k].callee,
              place |-> src[k].place, dtype |-> src[k].dtype, lanes |-> src[k].lanes,
              pointee |-> src[k].pointee, trace |-> src[k].trace,
              ptr |-> src[k].ptr, offsets |-> src[k].offsets, mask |-> src[k].mask,
              id |-> id(k), level |-> scopes[k].level, addr |-> scopes[k].addr,
              captures |-> captures(k)]
           left(k) == IsMarker(src[k]) \/ src[k].name \in {"call", "return", "yield"}
           T == [k \in 1 .. n |-> numbered(k)]
           W == {k \in 1 .. n : ~left(k)}
           S == KernelOperations
           upTo[k \in 0 .. n] ==
             IF k = 0 THEN <<>> ELSE IF left(k) THEN upTo[k - 1] ELSE Append(upTo[k - 1], numbered(k))
<1>1. /\ n \in Nat /\ DOMAIN src = 1 .. n
      /\ \A k \in 1 .. n : src[k] \in Operations /\ Sized(src[k])
  BY DEF SourceSound
<1>2. Tracks(src, tracked)
  BY DEF Tracks, TrackedOps, ShouldTrack
<1>3. \A k \in 1 .. n : scopes[k].level \in Int /\ scopes[k].addr \in Int
  <2>1. scopes \in [0 .. n -> ScopeStates]
    BY ScopesTyped
  <2>2. \A k \in 1 .. n : scopes[k] \in ScopeStates
    BY <1>1, <2>1
  <2> QED
    BY <2>2 DEF ScopeStates
<1>4. KernelOf(src, addr) = upTo[n]
  BY DEF KernelOf
<1> HIDE DEF n, scopes, tracked
<1>5. \A k \in 1 .. n : /\ id(k) \in Nat /\ captures(k) \in Seq(CapturedOperands)
                        /\ id(k) # 0 => k \in tracked
                        /\ k \in tracked => /\ id(k) = OpId(src, tracked, k)
                                            /\ captures(k) = Captures(src, tracked, k)
  <2> TAKE k \in 1 .. n
  <2>1. CASE k \in tracked
    <3>1. Captures(src, tracked, k) \in Seq(CapturedOperands)
      BY <1>2, <2>1, CapturesOwn
    <3>2. OpId(src, tracked, k) \in Nat
      BY <1>2, <2>1, OpIds
    <3> QED
      BY <2>1, <3>1, <3>2
  <2>2. CASE k \notin tracked
    BY <2>2
  <2> QED
    BY <2>1, <2>2
<1> HIDE DEF id, captures
<1>6. \A k \in 1 .. n : /\ T[k] = numbered(k) /\ T[k] \in KernelOperations
                        /\ T[k].dtype # "none" => T[k].lanes \in DOMAIN Tensors
                        /\ T[k].ptr = "scalar" => T[k].lanes = 1
                        /\ T[k].id = id(k) /\ T[k].captures = captures(k)
  <2> TAKE k \in 1 .. n
  <2> DEFINE op == src[k]
  <2>1. /\ op.name \in Names /\ op.func \in STRING /\ op.callee \in STRING /\ op.place \in STRING
        /\ op.dtype \in Dtypes /\ op.lanes \in Nat /\ op.ptr \in Pointers
        /\ op.offsets \in Seq(OffsetTerms) /\ op.mask \in {"none", "prefix", "any"}
        /\ op.pointee \in Dtypes /\ op.trace \in {"none", "base", "offsets", "lost"}
    BY <1>1 DEF Operations
  <2>2. (op.dtype # "none" => op.lanes \in DOMAIN Tensors) /\ (op.ptr = "scalar" => op.lanes = 1)
    BY <1>1 DEF Sized
  <2>3. T[k] = numbered(k)
    OBVIOUS
  <2> HIDE DEF T
  <2>4. T[k] = [name |-> op.name, func |-> op.func, callee |-> op.callee, place |-> op.place,
                dtype |-> op.dtype, lanes |-> op.lanes, pointee |-> op.pointee, trace |-> op.trace,
                ptr |-> op.ptr, offsets |-> op.offsets, mask |-> op.mask, id |-> id(k), level |-> scopes[k].level, addr |-> scopes[k].addr,
                captures |-> captures(k)]
    BY <2>3
  <2> HIDE DEF numbered, op
  <2>5. T[k] \in KernelOperations
    BY <1>3, <1>5, <2>1, <2>4 DEF KernelOperations
  <2> QED
    BY <2>2, <2>3, <2>4, <2>5
<1>7. \A k \in 1 .. n : k \in W => T[k] \in S
  BY <1>6
<1>8. \A k \in 0 .. n : k # 0 => (k \in W <=> ~left(k)) /\ T[k] = numbered(k)
  <2>1. \A k \in 0 .. n : k # 0 => k \in 1 .. n
    BY <1>1
  <2>2. \A k \in 1 .. n : k \in W <=> ~left(k)
    OBVIOUS
  <2> HIDE DEF T, W, numbered, left
  <2> QED
    BY <1>6, <2>1, <2>2
<1> HIDE DEF numbered, T, W, left, S
<1> DEFINE Sol(f) == f = [k \in 0 .. n |->
                            IF k = 0 THEN <<>>
                            ELSE IF left(k) THEN f[k - 1] ELSE Append(f[k - 1], numbered(k))]
<1>9. \A f : Selects(f, n, W, T) <=> Sol(f)
  <2> TAKE f
  <2>1. [k \in 0 .. n |->
           IF k = 0 THEN <<>> ELSE IF k \in W THEN Append(f[k - 1], T[k]) ELSE f[k - 1]]
        = [k \in 0 .. n |->
             IF k = 0 THEN <<>> ELSE IF left(k) THEN f[k - 1] ELSE Append(f[k - 1], numbered(k))]
    BY <1>8
  <2> QED
    BY <2>1 DEF Selects
<1>10. \E f : Sol(f)
  <2>1. \E f : Selects(f, n, W, T)
    BY <1>1, <1>7, SelectsTyped
  <2> HIDE DEF Sol
  <2> QED
    BY <1>9, <2>1
<1>11. Sol(upTo)
  BY <1>10
<1> HIDE DEF upTo, Sol
<1> DEFINE ops == upTo[n]
<1>12. ops \in Seq(S) /\ Picked(ops, n, W, T)
  <2>1. Selects(upTo, n, W, T)
    BY <1>9, <1>11
  <2> QED
    BY <1>1, <1>7, <2>1, SelectsTyped
<1> HIDE DEF ops
<1>13. \A p \in DOMAIN ops : \E k \in 1 .. n : ops[p] = T[k]
  BY <1>12 DEF Picked
<1>14. \A p \in DOMAIN ops : (ops[p].dtype # "none" => ops[p].lanes \in DOMAIN Tensors)
                             /\ (ops[p].ptr = "scalar" => ops[p].lanes = 1)
  BY <1>6, <1>13
<1>15. ASSUME NEW k \in 1 .. n, T[k].id # 0
       PROVE  /\ k \in tracked /\ T[k].id = OpId(src, tracked, k)
              /\ T[k].captures = Captures(src, tracked, k)
  BY <1>5, <1>6, <1>15
<1>16. ASSUME NEW p \in Numbered(ops), NEW q \in Numbered(ops),
              NEW c \in 0 .. Len(ops[p].captures), NEW d \in 0 .. Len(ops[q].captures),
              Identity(ops[p], c) = Identity(ops[q], d)
       PROVE  p = q /\ c = d
  <2>1. p \in DOMAIN ops /\ q \in DOMAIN ops /\ ops[p].id # 0 /\ ops[q].id # 0
    BY DEF Numbered
  <2>2. CASE p = q
    <3>1. PICK k \in 1 .. n : ops[p] = T[k]
      BY <1>13, <2>1
    <3> DEFINE op == ops[p]
    <3>2. /\ k \in tracked /\ op.id = OpId(src, tracked, k)
          /\ op.captures = Captures(src, tracked, k)
      BY <1>15, <2>1, <3>1
    <3>3. c \in 0 .. Len(op.captures) /\ d \in 0 .. Len(op.captures) /\ Identity(op, c) = Identity(op, d)
      BY <1>16, <2>2
    <3> HIDE DEF op
    <3>4. c = d
      BY <1>2, <3>2, <3>3, IdentityApart
    <3> QED
      BY <2>2, <3>4
  <2>3. CASE p # q
    <3>1. PICK j, k \in 1 .. n : j # k /\ ops[p] = T[j] /\ ops[q] = T[k]
      BY <1>12, <2>1, <2>3 DEF Picked
    <3> DEFINE op == ops[p]
               oq == ops[q]
    <3>2. /\ j \in tracked /\ op.id = OpId(src, tracked, j)
          /\ op.captures = Captures(src, tracked, j)
      BY <1>15, <2>1, <3>1
    <3>3. /\ k \in tracked /\ oq.id = OpId(src, tracked, k)
          /\ oq.captures = Captures(src, tracked, k)
      BY <1>15, <2>1, <3>1
    <3>4. c \in 0 .. Len(op.captures) /\ d \in 0 .. Len(oq.captures) /\ Identity(op, c) = Identity(oq, d)
      BY <1>16
    <3> HIDE DEF op, oq
    <3>5. j = k
      BY <1>2, <3>2, <3>3, <3>4, IdentityApart
    <3> QED
      BY <3>1, <3>5
  <2> QED
    BY <2>2, <2>3
<1>17. KernelSound(ops)
  BY <1>12, <1>14, <1>16 DEF KernelSound, S
<1> QED
  BY <1>4, <1>17 DEF ops

-----------------------------------------------------------------------------
(* The plan of a kernel.                                                    *)

\* Which records a numbered operation may get.
LEMMA ObservedPlanned ==
  ASSUME NEW ops, KernelSound(ops), NEW k \in Numbered(ops),
         NEW c \in 0 .. Len(ops[k].captures), c = 0 => ops[k].dtype # "none",
         NEW kind \in Observing, kind \in {"counts", "values"} => DtypeOf(ops[k], c) \in Floats
  PROVE  Rec(k, Identity(ops[k], c), c, kind) \in Planned(ops)
<1> DEFINE op == ops[k]
           r == Rec(k, Identity(op, c), c, kind)
<1>1. k \in DOMAIN ops /\ op \in KernelOperations
  BY DEF Numbered, KernelSound
<1>2. op.captures \in Seq(CapturedOperands) /\ op.id \in Nat /\ c \in Nat
  BY <1>1 DEF KernelOperations
<1>3. c # 0 => op.captures[c] \in CapturedOperands
  BY <1>2
<1>4. Identity(op, c) \in Nat
  BY <1>2, <1>3 DEF Identity, CapturedOperands
<1>5. Observed(ops, r).dtype # "none"
  BY <1>3 DEF Observed, Rec, CapturedOperands
<1>6. r.of = k /\ r.operand = c /\ r.kind = kind /\ r.id = Identity(op, c)
  BY DEF Rec
<1>7. r \in [of : Numbered(ops), id : Nat, operand : Nat, kind : Observing \cup Located]
  BY <1>2, <1>4 DEF Rec
<1> HIDE DEF r
<1>8. RecordSound(ops, r)
  BY <1>5, <1>6 DEF RecordSound, Observing, Located
<1> QED
  BY <1>7, <1>8 DEF Planned, r

\* Records about addresses are planned as they must be.
LEMMA LocatedPlanned ==
  ASSUME NEW ops, KernelSound(ops), NEW k \in Numbered(ops), NEW operand \in Nat,
         NEW kind \in Located,
         kind = "address" => operand = 0 /\ ops[k].dtype # "none",
         kind \in {"first", "last", "min", "max", "active", "span"} => SummarisesAddress(ops[k])
  PROVE  Rec(k, ops[k].id, operand, kind) \in Planned(ops)
<1> DEFINE op == ops[k]
           r == Rec(k, op.id, operand, kind)
<1>1. k \in DOMAIN ops /\ op \in KernelOperations
  BY DEF Numbered, KernelSound
<1>2. op.id \in Nat
  BY <1>1 DEF KernelOperations
<1>3. r.of = k /\ r.operand = operand /\ r.kind = kind /\ r.id = op.id
  BY DEF Rec
<1>4. Dumped(r) => Observed(ops, r).dtype # "none"
  BY <1>3 DEF Observed, Dumped, Located
<1>5. r \in [of : Numbered(ops), id : Nat, operand : Nat, kind : Observing \cup Located]
  BY <1>2 DEF Rec
<1> HIDE DEF r
<1>6. RecordSound(ops, r)
  BY <1>3, <1>4 DEF RecordSound, Observing, Located
<1> QED
  BY <1>5, <1>6 DEF Planned, r

\* One record for each of a list of kinds.
LEMMA EachPlanned ==
  ASSUME NEW ops, NEW K, NEW kinds \in Seq(K), NEW k, NEW id, NEW operand,
         \A kind \in K : Rec(k, id, operand, kind) \in Planned(ops)
  PROVE  Each(kinds, k, id, operand) \in Seq(Planned(ops))
<1> DEFINE n == Len(kinds)
           rec(r) == Rec(k, id, operand, kinds[r])
<1>1. n \in Nat /\ DOMAIN kinds = 1 .. n /\ \A r \in 1 .. n : kinds[r] \in K
  OBVIOUS
<1>2. \A r \in 1 .. n : rec(r) \in Planned(ops)
  BY <1>1
<1>3. Each(kinds, k, id, operand) = [r \in 1 .. n |-> rec(r)]
  BY <1>1 DEF Each
<1> HIDE DEF rec, n
<1> DEFINE V == Planned(ops)
<1> HIDE DEF V
<1>4. [r \in 1 .. n |-> rec(r)] \in Seq(V)
  BY <1>1, <1>2 DEF V
<1> QED
  BY <1>3, <1>4 DEF V

\* What a value is summarised by: counts of a float, elements of an integer.
LEMMA CollectorsListed ==
  ASSUME NEW dtype, NEW K, "elements" \in K,
         dtype \in Floats => "counts" \in K /\ "values" \in K
  PROVE  Collectors(dtype) \in Seq(K)
<1>1. CASE dtype \in Floats
  <2>1. Collectors(dtype) = <<"counts", "values">>
    BY <1>1 DEF Collectors, Floats
  <2>2. <<"counts", "values">> \in Seq(K)
    BY <1>1
  <2> QED
    BY <2>1, <2>2
<1>2. CASE dtype \in {"i32", "i1"}
  <2>1. Collectors(dtype) = <<"elements">>
    BY <1>2 DEF Collectors, Floats
  <2>2. <<"elements">> \in Seq(K)
    OBVIOUS
  <2> QED
    BY <2>1, <2>2
<1>3. CASE dtype \notin Floats \cup {"i32", "i1"}
  <2>1. Collectors(dtype) = <<>>
    BY <1>3 DEF Collectors
  <2> QED
    BY <2>1
<1> QED
  BY <1>1, <1>2, <1>3

\* The records of a value, and of the memory accessed.
LEMMA CollectorsPlanned ==
  ASSUME NEW ops, KernelSound(ops), NEW k \in Numbered(ops),
         NEW c \in 0 .. Len(ops[k].captures), c = 0 => ops[k].dtype # "none",
         NEW dtype, dtype = DtypeOf(ops[k], c)
  PROVE  Each(Collectors(dtype), k, Identity(ops[k], c), c) \in Seq(Planned(ops))
<1> DEFINE id == Identity(ops[k], c)
           K == {kind \in Observing : kind \in {"counts", "values"} => dtype \in Floats}
<1>1. \A kind \in K : Rec(k, id, c, kind) \in Planned(ops)
  BY ObservedPlanned
<1>2. Collectors(dtype) \in Seq(K)
  <2>1. "elements" \in K /\ (dtype \in Floats => "counts" \in K /\ "values" \in K)
    BY DEF Observing
  <2> HIDE DEF K
  <2> QED
    BY <2>1, CollectorsListed
<1> HIDE DEF K
<1> DEFINE kinds == Collectors(dtype)
<1> HIDE DEF id, kinds
<1>3. kinds \in Seq(K)
  BY <1>2 DEF kinds
<1>4. Each(kinds, k, id, c) \in Seq(Planned(ops))
  BY <1>1, <1>3, EachPlanned
<1> QED
  BY <1>4 DEF id, kinds

\* So are the events of an access.
LEMMA EventsPlanned ==
  ASSUME NEW ops, KernelSound(ops), NEW k \in Numbered(ops)
  PROVE  Events(ops[k], k) \in Seq(Planned(ops))
<1> DEFINE op == ops[k]
           kinds == EventKinds(op)
           id == op.id
           sums == {"first", "last", "min", "max", "active", "span"}
           K == IF SummarisesAddress(op) THEN Located \ {"address"}
                ELSE (Located \ sums) \ {"address"}
           targets == AddressTargets(op)
           on(t) == Each(kinds, k, id, targets[t])
<1>1. kinds \in Seq(K)
  <2>1. SummarisesAddress(op) => AddressKinds \in Seq(K)
    BY DEF AddressKinds, Located
  <2>2. <<"base">> \in Seq(K) /\ <<"aligned">> \in Seq(K)
    <3>1. "base" \in K /\ "aligned" \in K
      BY DEF Located
    <3> HIDE DEF K
    <3> QED
      BY <3>1
  <2>3. (kinds = AddressKinds /\ SummarisesAddress(op)) \/ kinds = <<"base">> \/ kinds = <<"aligned">>
    BY DEF EventKinds
  <2> HIDE DEF K, kinds
  <2> QED
    BY <2>1, <2>2, <2>3
<1>2. ASSUME NEW operand \in Nat, NEW kind \in K
      PROVE  Rec(k, id, operand, kind) \in Planned(ops)
  <2>1. kind \in Located /\ kind # "address" /\ (kind \in sums => SummarisesAddress(op))
    OBVIOUS
  <2> QED
    BY <2>1, LocatedPlanned
<1>3. /\ Len(targets) = 1 \/ targets = <<0, 1>>
      /\ targets[1] \in Nat /\ (targets = <<0, 1>> => targets[2] \in Nat)
  BY DEF AddressTargets
<1> HIDE DEF K, kinds, id, targets
<1>4. \A operand \in Nat : Each(kinds, k, id, operand) \in Seq(Planned(ops))
  BY <1>1, <1>2, EachPlanned
<1>5. Events(op, k) = IF Len(targets) = 1 THEN on(1) ELSE on(1) \o on(2)
  BY DEF Events, kinds, id, targets
<1>6. on(1) \in Seq(Planned(ops))
  BY <1>3, <1>4
<1>7. CASE Len(targets) = 1
  BY <1>5, <1>6, <1>7
<1>8. CASE Len(targets) # 1
  <2>1. on(2) \in Seq(Planned(ops))
    BY <1>3, <1>4, <1>8
  <2> DEFINE a == on(1)
             b == on(2)
  <2>2. a \in Seq(Planned(ops)) /\ b \in Seq(Planned(ops)) /\ Events(op, k) = a \o b
    BY <1>5, <1>6, <1>8, <2>1
  <2> HIDE DEF a, b
  <2>3. a \o b \in Seq(Planned(ops))
    BY <2>2, Concats
  <2> QED
    BY <2>2, <2>3
<1> QED
  BY <1>7, <1>8

\* What an address is dumped of has a type.
LEMMA AddressTyped ==
  ASSUME NEW md, NEW ops, KernelSound(ops), Compiles(md, ops), NEW k \in DOMAIN ops,
         Tracked(ops, ops[k]), HasAddress(md, ops[k])
  PROVE  ops[k].dtype # "none"
<1> DEFINE op == ops[k]
<1>1. k \in 1 .. Len(ops)
  BY DEF KernelSound
<1>2. SummarisesAddress(op)
  BY <1>1 DEF Compiles, Refused
<1>3. AccessBytes(op) # 0
  BY <1>2 DEF SummarisesAddress
<1> HIDE DEF op
<1>4. ASSUME op.dtype = "none" PROVE AccessBytes(op) = 0
  BY <1>4, NothingAccessed
<1> QED
  BY <1>3, <1>4 DEF op

\* The records of one operation.
LEMMA RecordsPlanned ==
  ASSUME NEW md, NEW ops, KernelSound(ops), Compiles(md, ops), NEW k \in DOMAIN ops,
         Tracked(ops, ops[k])
  PROVE  RecordsOf(md, ops, k) \in Seq(Planned(ops))
<1> DEFINE op == ops[k]
           P == Planned(ops)
           if(b, s) == IF b THEN s ELSE <<>>
           s1 == if(HasTimeline(md, op), <<Rec(k, op.id, 0, "timeline")>>)
           s2 == if(HasSummary(md, ops, op), Each(Collectors(op.dtype), k, op.id, 0))
           s3 == if(HasEvents(md, op), Events(op, k))
           s4 == if(HasValue(md, op), <<Rec(k, op.id, 0, "value")>>)
           s5 == if(HasAddress(md, op), <<Rec(k, op.id, 0, "address")>>)
<1>1. k \in Numbered(ops)
  BY DEF Numbered, Tracked
<1>2. op \in KernelOperations /\ op.captures \in Seq(CapturedOperands) /\ Identity(op, 0) = op.id
      /\ 0 \in 0 .. Len(op.captures)
  <2>1. op \in KernelOperations
    BY DEF KernelSound
  <2>2. op.captures \in Seq(CapturedOperands)
    BY <2>1 DEF KernelOperations
  <2>3. Len(op.captures) \in Nat
    BY <2>2
  <2> QED
    BY <2>1, <2>2, <2>3 DEF Identity
<1>3. Rec(k, op.id, 0, "timeline") \in P
  <2>1. "timeline" \in Located
    BY DEF Located
  <2> QED
    BY <1>1, <2>1, LocatedPlanned
<1>4. ASSUME HasSummary(md, ops, op) PROVE Each(Collectors(op.dtype), k, op.id, 0) \in Seq(P)
  <2>1. op.dtype # "none"
    <3>1. Collectors(op.dtype) # <<>>
      BY <1>4 DEF HasSummary
    <3> DEFINE d == op.dtype
    <3> HIDE DEF d, op
    <3>2. d = "none" => Collectors(d) = <<>>
      BY DEF Collectors, Floats
    <3> QED
      BY <3>1, <3>2 DEF d
  <2>2. Each(Collectors(op.dtype), k, Identity(op, 0), 0) \in Seq(P)
    BY <1>1, <1>2, <2>1, CollectorsPlanned DEF DtypeOf
  <2> QED
    BY <1>2, <2>2
<1>5. Events(op, k) \in Seq(P)
  BY <1>1, EventsPlanned
<1>6. ASSUME HasValue(md, op) PROVE Rec(k, op.id, 0, "value") \in P
  <2>1. op.dtype # "none" /\ "value" \in Observing
    BY <1>6 DEF HasValue, Observing
  <2>2. Rec(k, Identity(op, 0), 0, "value") \in P
    BY <1>1, <1>2, <2>1, ObservedPlanned
  <2> QED
    BY <1>2, <2>2
<1>7. ASSUME HasAddress(md, op) PROVE Rec(k, op.id, 0, "address") \in P
  <2>1. op.dtype # "none"
    BY <1>7, AddressTyped
  <2>2. "address" \in Located /\ "address" \notin {"first", "last", "min", "max", "active", "span"}
    BY DEF Located
  <2> QED
    BY <1>1, <2>1, <2>2, LocatedPlanned
<1>8. RecordsOf(md, ops, k) = s1 \o s2 \o s3 \o s4 \o s5
  BY DEF RecordsOf
<1> HIDE DEF P, op
<1>9. <<>> \in Seq(P)
  OBVIOUS
<1>10. s1 \in Seq(P) /\ s2 \in Seq(P) /\ s3 \in Seq(P) /\ s4 \in Seq(P) /\ s5 \in Seq(P)
  <2>1. \A x \in P : <<x>> \in Seq(P)
    OBVIOUS
  <2>2. s1 = <<Rec(k, op.id, 0, "timeline")>> \/ s1 = <<>>
    OBVIOUS
  <2>3. s4 = <<>> \/ (HasValue(md, op) /\ s4 = <<Rec(k, op.id, 0, "value")>>)
    OBVIOUS
  <2>4. s5 = <<>> \/ (HasAddress(md, op) /\ s5 = <<Rec(k, op.id, 0, "address")>>)
    OBVIOUS
  <2>5. s2 = <<>> \/ (HasSummary(md, ops, op) /\ s2 = Each(Collectors(op.dtype), k, op.id, 0))
    OBVIOUS
  <2>6. s3 = <<>> \/ s3 = Events(op, k)
    OBVIOUS
  <2> HIDE DEF s1, s2, s3, s4, s5
  <2>7. s1 \in Seq(P)
    BY <1>3, <1>9, <2>1, <2>2
  <2>8. s4 \in Seq(P)
    BY <1>6, <1>9, <2>1, <2>3
  <2>9. s5 \in Seq(P)
    BY <1>7, <1>9, <2>1, <2>4
  <2>10. s2 \in Seq(P) /\ s3 \in Seq(P)
    BY <1>4, <1>5, <1>9, <2>5, <2>6
  <2> QED
    BY <2>7, <2>8, <2>9, <2>10
<1> HIDE DEF s1, s2, s3, s4, s5
<1>11. \A a, b \in Seq(P) : a \o b \in Seq(P)
  BY Concats
<1>12. s1 \o s2 \o s3 \o s4 \o s5 \in Seq(P)
  <2> DEFINE t2 == s1 \o s2
             t3 == t2 \o s3
             t4 == t3 \o s4
  <2>1. t2 \in Seq(P)
    BY <1>10, <1>11
  <2> HIDE DEF t2
  <2>2. t3 \in Seq(P)
    BY <1>10, <1>11, <2>1
  <2> HIDE DEF t3
  <2>3. t4 \in Seq(P)
    BY <1>10, <1>11, <2>2
  <2> HIDE DEF t4
  <2>4. t4 \o s5 \in Seq(P)
    BY <1>10, <1>11, <2>3
  <2> QED
    BY <2>4 DEF t4, t3, t2
<1> QED
  BY <1>8, <1>12 DEF P

\* The records of a captured operand.
LEMMA CapturesPlanned ==
  ASSUME NEW md, NEW ops, KernelSound(ops), NEW k \in Numbered(ops),
         NEW c \in 1 .. Len(ops[k].captures)
  PROVE  CapturesOf(md, ops, k, c) \in Seq(Planned(ops))
<1> DEFINE op == ops[k]
           P == Planned(ops)
           if(b, s) == IF b THEN s ELSE <<>>
           captured == op.captures[c]
           seen == ~TimelineOnly(md) /\ ObservesValue(md.backend, op)
           e == Each(Collectors(captured.dtype), k, captured.id, c)
           v == Rec(k, captured.id, c, "value")
           s1 == if(seen, e)
           s2 == if(seen /\ RecordLevel(op) = 2, <<v>>)
<1>1. Identity(op, c) = captured.id /\ c # 0 /\ c \in 0 .. Len(op.captures)
  BY DEF Identity
<1>2. e \in Seq(P)
  <2>1. Each(Collectors(captured.dtype), k, Identity(op, c), c) \in Seq(P)
    BY <1>1, CollectorsPlanned DEF DtypeOf
  <2> QED
    BY <1>1, <2>1
<1>3. v \in P
  <2>1. "value" \in Observing
    BY DEF Observing
  <2>2. Rec(k, Identity(op, c), c, "value") \in P
    BY <1>1, <2>1, ObservedPlanned
  <2> QED
    BY <1>1, <2>2
<1>4. CapturesOf(md, ops, k, c) = s1 \o s2
  BY DEF CapturesOf
<1> HIDE DEF P, e, v
<1>5. s1 = e \/ s1 = <<>>
  OBVIOUS
<1>6. s2 = <<v>> \/ s2 = <<>>
  OBVIOUS
<1> HIDE DEF s1, s2
<1>7. <<>> \in Seq(P) /\ <<v>> \in Seq(P)
  BY <1>3
<1>8. s1 \in Seq(P) /\ s2 \in Seq(P)
  BY <1>2, <1>5, <1>6, <1>7
<1>9. s1 \o s2 \in Seq(P)
  BY <1>8, Concats
<1> QED
  BY <1>4, <1>9 DEF P

\* Whatever a mode inserts for an operation can be planned.
LEMMA InsertedPlanned ==
  ASSUME NEW md, NEW ops, KernelSound(ops), Compiles(md, ops), NEW k \in DOMAIN ops
  PROVE  Inserted(md, ops, k) \in Seq(Planned(ops))
<1> SUFFICES ASSUME Tracked(ops, ops[k]) PROVE Inserted(md, ops, k) \in Seq(Planned(ops))
  BY DEF Inserted
<1> DEFINE op == ops[k]
           n == Len(op.captures)
           P == Planned(ops)
           base == RecordsOf(md, ops, k)
           part(c) == CapturesOf(md, ops, k, c)
           T == [c \in 1 .. n |-> part(c)]
           upTo[c \in 0 .. n] == IF c = 0 THEN base ELSE upTo[c - 1] \o part(c)
           Sol(f) == f = [c \in 0 .. n |-> IF c = 0 THEN base ELSE f[c - 1] \o part(c)]
<1>1. n \in Nat /\ k \in Numbered(ops)
  <2>1. op \in KernelOperations
    BY DEF KernelSound
  <2>2. op.captures \in Seq(CapturedOperands)
    BY <2>1 DEF KernelOperations
  <2> QED
    BY <2>2 DEF Numbered, Tracked
<1>2. Inserted(md, ops, k) = upTo[n]
  BY DEF Inserted
<1>3. \A c \in 1 .. n : part(c) \in Seq(P)
  BY <1>1, CapturesPlanned
<1>4. base \in Seq(P)
  BY RecordsPlanned
<1> HIDE DEF op, n, P, base, part
<1>5. T \in [1 .. n -> Seq(P)]
  BY <1>3
<1>6. \A f : Joins(f, n, base, T) <=> Sol(f)
  <2> TAKE f
  <2>1. \A c \in 0 .. n : c # 0 => T[c] = part(c)
    BY <1>1
  <2> HIDE DEF T
  <2>2. [c \in 0 .. n |-> IF c = 0 THEN base ELSE f[c - 1] \o T[c]]
        = [c \in 0 .. n |-> IF c = 0 THEN base ELSE f[c - 1] \o part(c)]
    BY <2>1
  <2> QED
    BY <2>2 DEF Joins
<1> HIDE DEF T
<1>7. \E f : Sol(f)
  <2>1. \E f : Joins(f, n, base, T)
    BY <1>1, <1>4, <1>5, JoinsTyped
  <2> HIDE DEF Sol
  <2> QED
    BY <1>6, <2>1
<1>8. Sol(upTo)
  BY <1>7
<1> HIDE DEF Sol, upTo
<1>9. upTo[n] \in Seq(P)
  BY <1>1, <1>4, <1>5, <1>6, <1>8, JoinsTyped
<1> QED
  BY <1>2, <1>9 DEF P

\* The plan is the sequence of what is inserted.
LEMMA PlanPlanned ==
  ASSUME NEW md, NEW ops, KernelSound(ops), Compiles(md, ops)
  PROVE  PlanOf(md, ops) \in Seq(Planned(ops))
<1> DEFINE n == Len(ops)
           P == Planned(ops)
           part(k) == Inserted(md, ops, k)
           T == [k \in 1 .. n |-> part(k)]
           upTo[k \in 0 .. n] == IF k = 0 THEN <<>> ELSE upTo[k - 1] \o part(k)
           base == <<>>
           Sol(f) == f = [k \in 0 .. n |-> IF k = 0 THEN <<>> ELSE f[k - 1] \o part(k)]
<1>1. n \in Nat /\ DOMAIN ops = 1 .. n
  BY DEF KernelSound
<1>2. PlanOf(md, ops) = upTo[n]
  BY DEF PlanOf
<1>3. \A k \in 1 .. n : part(k) \in Seq(P)
  BY <1>1, InsertedPlanned
<1>4. base \in Seq(P)
  OBVIOUS
<1> HIDE DEF n, P, part
<1>5. T \in [1 .. n -> Seq(P)]
  BY <1>3
<1>6. \A f : Joins(f, n, base, T) <=> Sol(f)
  <2> TAKE f
  <2>1. \A k \in 0 .. n : k # 0 => T[k] = part(k)
    BY <1>1
  <2> HIDE DEF T
  <2>2. [k \in 0 .. n |-> IF k = 0 THEN base ELSE f[k - 1] \o T[k]]
        = [k \in 0 .. n |-> IF k = 0 THEN <<>> ELSE f[k - 1] \o part(k)]
    BY <2>1
  <2> QED
    BY <2>2 DEF Joins
<1> HIDE DEF T, base
<1>7. \E f : Sol(f)
  <2>1. \E f : Joins(f, n, base, T)
    BY <1>1, <1>4, <1>5, JoinsTyped
  <2> HIDE DEF Sol
  <2> QED
    BY <1>6, <2>1
<1>8. Sol(upTo)
  BY <1>7
<1> HIDE DEF Sol, upTo
<1>9. upTo[n] \in Seq(P)
  BY <1>1, <1>4, <1>5, <1>6, <1>8, JoinsTyped
<1> QED
  BY <1>2, <1>9 DEF P

-----------------------------------------------------------------------------
(* The payload of a plan.                                                   *)

\* What a dumped record takes.
LEMMA DumpTakes ==
  ASSUME NEW ops, KernelSound(ops), NEW r \in Planned(ops), Dumped(r)
  PROVE  EntryBytes(ops, r) \in {4, 8} /\ Observed(ops, r).lanes \in Nat
<1> DEFINE op == ops[r.of]
           d == Observed(ops, r).dtype
<1>1. /\ r.of \in DOMAIN ops /\ r.operand \in Nat /\ RecordSound(ops, r)
      /\ r.kind \in Observing \cup Located
  BY DEF Planned, Numbered
<1>2. op \in KernelOperations
  BY <1>1 DEF KernelSound
<1>3. op.lanes \in Nat /\ op.dtype \in Dtypes /\ op.captures \in Seq(CapturedOperands)
  BY <1>2 DEF KernelOperations
<1>4. d # "none"
  BY <1>1 DEF RecordSound
<1>5. CASE r.operand = 0
  <2>1. d = op.dtype /\ Observed(ops, r).lanes = op.lanes
    BY <1>5 DEF Observed
  <2>2. Element(op.dtype) \in {4, 8}
    BY <1>3, <1>4, <2>1 DEF Element, Dtypes
  <2> QED
    BY <1>3, <2>1, <2>2 DEF EntryBytes
<1>6. CASE r.operand # 0
  <2>1. r.operand \in 1 .. Len(op.captures)
    BY <1>1, <1>6 DEF RecordSound, Dumped, Observing
  <2>2. op.captures[r.operand] \in CapturedOperands
    BY <1>3, <2>1
  <2>3. Observed(ops, r) = op.captures[r.operand]
    BY <1>6 DEF Observed
  <2>4. Observed(ops, r).lanes \in Nat /\ d \in Dtypes \ {"none"}
    BY <2>2, <2>3, TensorsAssumption DEF CapturedOperands
  <2>5. Element(d) \in {4, 8}
    BY <2>4 DEF Element, Dtypes
  <2> QED
    BY <2>4, <2>5 DEF EntryBytes
<1> QED
  BY <1>5, <1>6

\* The payload grows from record to record.
LEMMA PayloadGrows ==
  ASSUME NEW ops, KernelSound(ops), NEW plan \in Seq(Planned(ops))
  PROVE  LET e == PayloadEnd(ops, plan)
             b(k) == EntryBytes(ops, plan[k])
         IN /\ e[0] = 0
            /\ \A k \in 0 .. Len(plan) : e[k] \in Nat
            /\ \A k \in 1 .. Len(plan) :
                 IF Dumped(plan[k])
                 THEN e[k] = RoundUp(e[k - 1], b(k)) + b(k) * Observed(ops, plan[k]).lanes
                 ELSE e[k] = e[k - 1]
<1> DEFINE n == Len(plan)
           next(x, k) ==
             IF ~Dumped(plan[k]) THEN x
             ELSE RoundUp(x, EntryBytes(ops, plan[k]))
                    + EntryBytes(ops, plan[k]) * Observed(ops, plan[k]).lanes
           Step == [p \in Nat \X (1 .. n) |-> next(p[1], p[2])]
           end[k \in 0 .. n] == IF k = 0 THEN 0 ELSE next(end[k - 1], k)
           Sol(f) == f = [k \in 0 .. n |-> IF k = 0 THEN 0 ELSE next(f[k - 1], k)]
<1>1. n \in Nat /\ DOMAIN plan = 1 .. n /\ \A k \in 1 .. n : plan[k] \in Planned(ops)
  OBVIOUS
<1>2. PayloadEnd(ops, plan) = end
  BY DEF PayloadEnd
<1> HIDE DEF n
<1>3. ASSUME NEW x \in Nat, NEW k \in 1 .. n
      PROVE  next(x, k) \in Nat
  <2>1. CASE Dumped(plan[k])
    <3> DEFINE b == EntryBytes(ops, plan[k])
               l == Observed(ops, plan[k]).lanes
    <3>1. b \in {4, 8} /\ l \in Nat
      BY <1>1, <2>1, DumpTakes
    <3>2. next(x, k) = RoundUp(x, b) + b * l
      BY <2>1
    <3> HIDE DEF b, l, next
    <3>3. b \in Nat \ {0} /\ b * l \in Nat
      BY <3>1
    <3>4. RoundUp(x, b) \in Nat
      BY <3>3, RoundUpNext
    <3> QED
      BY <3>2, <3>3, <3>4
  <2>2. CASE ~Dumped(plan[k])
    BY <2>2
  <2> QED
    BY <2>1, <2>2
<1>4. \A k \in 1 .. n : \A x : IF Dumped(plan[k])
        THEN next(x, k) = RoundUp(x, EntryBytes(ops, plan[k])) + EntryBytes(ops, plan[k]) * Observed(ops, plan[k]).lanes
        ELSE next(x, k) = x
  OBVIOUS
<1> HIDE DEF next
<1>5. Step \in [Nat \X (1 .. n) -> Nat] /\ \A x \in Nat, k \in 1 .. n : Step[<<x, k>>] = next(x, k)
  BY <1>3
<1> HIDE DEF Step
<1>6. \E f : Sol(f)
  <2> DEFINE base == 0
  <2>0. base \in Nat
    OBVIOUS
  <2> HIDE DEF base
  <2>1. PICK f \in [0 .. n -> Nat] : Recurs(f, n, base, Step)
    BY <1>1, <1>5, <2>0, Recursion
  <2>2. f = [k \in 0 .. n |-> IF k = 0 THEN base ELSE Step[<<f[k - 1], k>>]]
    BY <2>1 DEF Recurs
  <2>3. ASSUME NEW k \in 0 .. n, k # 0
        PROVE  Step[<<f[k - 1], k>>] = next(f[k - 1], k)
    <3>1. k \in 1 .. n /\ k - 1 \in 0 .. n
      BY <1>1, <2>3
    <3>2. f[k - 1] \in Nat
      BY <3>1
    <3> QED
      BY <1>5, <3>1, <3>2
  <2>4. f = [k \in 0 .. n |-> IF k = 0 THEN base ELSE next(f[k - 1], k)]
    BY <2>2, <2>3
  <2>5. Sol(f)
    BY <2>4 DEF base
  <2> HIDE DEF Sol
  <2> QED
    BY <2>5
<1>7. Sol(end)
  BY <1>6
<1> HIDE DEF end
<1>8. \A k \in 0 .. n : end[k] = IF k = 0 THEN 0 ELSE next(end[k - 1], k)
  BY <1>7
<1> HIDE DEF Sol
<1> DEFINE P == {k \in 0 .. n : end[k] \in Nat}
<1>9. 0 \in P
  BY <1>1, <1>8
<1>10. \A k \in 1 .. n : k - 1 \in P => k \in P
  <2> TAKE k \in 1 .. n
  <2> HAVE k - 1 \in P
  <2>1. end[k - 1] \in Nat /\ k \in 0 .. n /\ k # 0
    BY <1>1
  <2>2. end[k] = next(end[k - 1], k) /\ next(end[k - 1], k) \in Nat
    BY <1>3, <1>8, <2>1
  <2> QED
    BY <2>1, <2>2
<1>11. 0 .. n \subseteq P
  <2> HIDE DEF P
  <2> QED
    BY <1>1, <1>9, <1>10, UpTo
<1>12. \A k \in 0 .. n : end[k] \in Nat
  BY <1>11
<1>13. end[0] = 0 /\ \A k \in 1 .. n : end[k] = next(end[k - 1], k)
  <2>1. 0 \in 0 .. n /\ \A k \in 1 .. n : k \in 0 .. n /\ k # 0
    BY <1>1
  <2> QED
    BY <1>8, <2>1
<1>14. \A k \in 1 .. n :
         IF Dumped(plan[k])
         THEN end[k] = RoundUp(end[k - 1], EntryBytes(ops, plan[k]))
                         + EntryBytes(ops, plan[k]) * Observed(ops, plan[k]).lanes
         ELSE end[k] = end[k - 1]
  BY <1>4, <1>13
<1> QED
  BY <1>2, <1>12, <1>13, <1>14 DEF n

\* What follows lies behind.
LEMMA Grows ==
  ASSUME NEW n \in Nat, NEW e, \A k \in 0 .. n : e[k] \in Nat, \A k \in 1 .. n : e[k - 1] <= e[k],
         NEW j \in 0 .. n
  PROVE  \A k \in j .. n : e[j] <= e[k]
<1> DEFINE P == {k \in 0 .. n : j <= k => e[j] <= e[k]}
<1>1. 0 \in P
  OBVIOUS
<1>2. ASSUME NEW k \in 1 .. n, k - 1 \in P PROVE k \in P
  <2>1. e[k - 1] \in Nat /\ e[k] \in Nat /\ e[j] \in Nat /\ e[k - 1] <= e[k]
    <3>1. k - 1 \in 0 .. n /\ k \in 0 .. n
      OBVIOUS
    <3> QED
      BY <3>1
  <2>2. CASE j <= k - 1
    BY <1>2, <2>1, <2>2
  <2>3. CASE j = k
    BY <2>1, <2>3
  <2>4. CASE j > k
    BY <2>4
  <2> QED
    BY <2>2, <2>3, <2>4
<1>3. 0 .. n \subseteq P
  <2>1. \A k \in 1 .. n : k - 1 \in P => k \in P
    BY <1>2
  <2> HIDE DEF P
  <2> QED
    BY <1>1, <2>1, UpTo
<1> QED
  BY <1>3

\* The entries of a plan lie behind one another in the payload.
EntriesFit(ops, plan, k) ==
  LET e == EntryOf(ops, plan, k) IN
  /\ e.offset \in Nat /\ e.length \in Nat /\ e.bytes \in {4, 8}
  /\ e.bytes = EntryBytes(ops, plan[k])
  /\ e.length = e.bytes * Observed(ops, plan[k]).lanes
  /\ e.offset % e.bytes = 0
  /\ PayloadEnd(ops, plan)[k - 1] <= e.offset
  /\ e.offset + e.length = PayloadEnd(ops, plan)[k]
  /\ e.conditional <=> ops[plan[k].of].place \in {"branch", "loop"}
\* Entries are aligned, behind those before them and within the payload.
LEMMA EntryFits ==
  ASSUME NEW ops, KernelSound(ops), NEW plan \in Seq(Planned(ops)),
         NEW k \in 1 .. Len(plan), Dumped(plan[k])
  PROVE  EntriesFit(ops, plan, k)
<1> DEFINE b == EntryBytes(ops, plan[k])
           l == Observed(ops, plan[k]).lanes
           end == PayloadEnd(ops, plan)
           e == EntryOf(ops, plan, k)
           place == ops[plan[k].of].place
           cond == place \in {"branch", "loop"}
           off == RoundUp(end[k - 1], b)
<1>1. b \in {4, 8} /\ l \in Nat
  <2>1. plan[k] \in Planned(ops)
    OBVIOUS
  <2> QED
    BY <2>1, DumpTakes
<1>2. end[k - 1] \in Nat /\ end[k] = off + b * l
  <2>1. Len(plan) \in Nat
    OBVIOUS
  <2>2. k - 1 \in 0 .. Len(plan)
    BY <2>1
  <2> QED
    BY <2>2, PayloadGrows
<1>3. e = [offset |-> off, bytes |-> b, length |-> b * l, conditional |-> cond]
  BY DEF EntryOf
<1> HIDE DEF b, l, end, cond
<1>4. b \in Nat \ {0} /\ b * l \in Nat
  BY <1>1
<1>5. off \in Nat /\ off % b = 0 /\ end[k - 1] <= off
  BY <1>2, <1>4, RoundUpNext
<1> HIDE DEF off, e
<1>6. e.offset = off /\ e.bytes = b /\ e.length = b * l /\ e.conditional = cond
  BY <1>3
<1>7. e.offset + e.length = end[k]
  BY <1>2, <1>6
<1>8. e.conditional <=> place \in {"branch", "loop"}
  BY <1>6 DEF cond
<1>9. e.bytes = EntryBytes(ops, plan[k]) /\ e.length = e.bytes * Observed(ops, plan[k]).lanes
  BY <1>6 DEF b, l
<1> QED
  BY <1>1, <1>4, <1>5, <1>6, <1>7, <1>8, <1>9 DEF EntriesFit, e, end

\* The payload holds them all, and keeps the alignment of the widest.
LEMMA PayloadFits ==
  ASSUME NEW ops, KernelSound(ops), NEW plan \in Seq(Planned(ops))
  PROVE  LET p == PayloadBytes(ops, plan) IN
         /\ p \in Nat /\ p % 4 = 0
         /\ \A k \in 0 .. Len(plan) : PayloadEnd(ops, plan)[k] <= p
         /\ \A k \in 1 .. Len(plan) : Dumped(plan[k]) => p % EntryBytes(ops, plan[k]) = 0
         /\ (\A k \in 1 .. Len(plan) : ~Dumped(plan[k])) => p = 0
<1> DEFINE n == Len(plan)
           end == PayloadEnd(ops, plan)
           bytes(k) == EntryBytes(ops, plan[k])
           wide == \E k \in 1 .. n : Dumped(plan[k]) /\ bytes(k) = 8
           a == IF wide THEN 8 ELSE 4
           p == PayloadBytes(ops, plan)
<1>1. n \in Nat /\ n \in 0 .. n /\ \A k \in 1 .. n : plan[k] \in Planned(ops)
  OBVIOUS
<1>2. p = RoundUp(end[n], a)
  BY DEF PayloadBytes
<1>3. /\ end[0] = 0 /\ \A k \in 0 .. n : end[k] \in Nat
      /\ \A k \in 1 .. n : IF Dumped(plan[k])
           THEN end[k] = RoundUp(end[k - 1], bytes(k)) + bytes(k) * Observed(ops, plan[k]).lanes
           ELSE end[k] = end[k - 1]
  BY PayloadGrows
<1>4. \A k \in 1 .. n : Dumped(plan[k]) => bytes(k) \in {4, 8}
  BY <1>1, DumpTakes
<1>5. ASSUME NEW k \in 1 .. n PROVE end[k - 1] <= end[k]
  <2>1. CASE Dumped(plan[k])
    <3>1. EntriesFit(ops, plan, k)
      BY <2>1, EntryFits
    <3>2. k - 1 \in 0 .. n /\ k \in 0 .. n
      BY <1>1
    <3> QED
      BY <1>3, <3>1, <3>2 DEF EntriesFit
  <2>2. CASE ~Dumped(plan[k])
    <3>1. end[k] = end[k - 1] /\ k - 1 \in 0 .. n
      BY <1>1, <1>3, <2>2
    <3> QED
      BY <1>3, <3>1
  <2> QED
    BY <2>1, <2>2
<1> HIDE DEF n, end, bytes, wide
<1>6. a \in {4, 8}
  OBVIOUS
<1>7. p \in Nat /\ p % a = 0 /\ end[n] <= p
  <2> DEFINE x == end[n]
  <2>1. x \in Nat /\ a \in Nat \ {0}
    BY <1>1, <1>3, <1>6
  <2> HIDE DEF x, a
  <2>2. RoundUp(x, a) \in Nat /\ RoundUp(x, a) % a = 0 /\ x <= RoundUp(x, a)
    BY <2>1, RoundUpNext
  <2> QED
    BY <1>2, <2>2 DEF x
<1> HIDE DEF p
<1>8. p % 8 = 0 => p % 4 = 0
  BY <1>7
<1>9. p % 4 = 0
  BY <1>6, <1>7, <1>8
<1>10. \A k \in 0 .. n : end[k] <= p
  <2> TAKE k \in 0 .. n
  <2>1. \A j \in k .. n : end[k] <= end[j]
    BY <1>1, <1>3, <1>5, Grows
  <2>2. n \in k .. n /\ end[k] \in Nat /\ end[n] \in Nat
    BY <1>1, <1>3
  <2> QED
    BY <1>7, <2>1, <2>2
<1>11. ASSUME NEW k \in 1 .. n, Dumped(plan[k])
       PROVE  p % bytes(k) = 0
  <2>1. CASE bytes(k) = 8
    <3>1. wide
      BY <1>11, <2>1 DEF wide
    <3> QED
      BY <1>7, <2>1, <3>1
  <2>2. CASE bytes(k) = 4
    BY <1>9, <2>2
  <2> QED
    BY <1>4, <1>11, <2>1, <2>2
<1>12. ASSUME \A k \in 1 .. n : ~Dumped(plan[k])
       PROVE  p = 0
  <2> DEFINE P == {k \in 0 .. n : end[k] = 0}
  <2>1. 0 \in P
    BY <1>1, <1>3
  <2>2. \A k \in 1 .. n : k - 1 \in P => k \in P
    <3> TAKE k \in 1 .. n
    <3> HAVE k - 1 \in P
    <3>1. end[k] = end[k - 1] /\ end[k - 1] = 0 /\ k \in 0 .. n
      BY <1>3, <1>12, <1>1
    <3> QED
      BY <3>1
  <2>3. 0 .. n \subseteq P
    <3> HIDE DEF P
    <3> QED
      BY <1>1, <2>1, <2>2, UpTo
  <2>4. end[n] = 0
    BY <1>1, <2>3
  <2>5. a = 4
    BY <1>12 DEF wide
  <2>6. RoundUp(0, 4) = 0
    BY DEF RoundUp
  <2> QED
    BY <1>2, <2>4, <2>5, <2>6
<1> QED
  BY <1>7, <1>9, <1>10, <1>11, <1>12 DEF n, end, bytes, p

\* What the insertion pass makes of a sound kernel.
LEMMA CompiledIsSound ==
  ASSUME NEW ops, KernelSound(ops), MetadataOnly \/ Compiles(mode, ops)
  PROVE  PlanSound(ops, Compiled(ops))
<1> DEFINE plan == PlanOf(mode, ops)
           c == Compiled(ops)
           dumps == {k \in DOMAIN plan : Dumped(plan[k])}
<1>1. CASE MetadataOnly \/ plan = <<>>
  <2>1. c = NotCompiled
    BY <1>1 DEF Compiled
  <2> HIDE DEF c
  <2>2. c.plan = <<>> /\ c.payload = 0 /\ c.entries = <<>>
    BY <2>1 DEF NotCompiled
  <2>3. DOMAIN c.plan = {} /\ DOMAIN c.entries = {} /\ c.plan \in Seq(Planned(ops))
    BY <2>2
  <2>4. {k \in DOMAIN c.plan : Dumped(c.plan[k])} = {} /\ c.payload \in Nat /\ c.payload % 4 = 0
    BY <2>2, <2>3
  <2>5. PlanSound(ops, c)
    BY <2>2, <2>3, <2>4 DEF PlanSound
  <2> QED
    BY <2>5 DEF c
<1>2. CASE ~(MetadataOnly \/ plan = <<>>)
  <2> DEFINE fits == PayloadBytes(ops, plan)
             entry(k) == EntryOf(ops, plan, k)
             takes == HiddenArgument(ops, plan)
  <2>1. plan \in Seq(Planned(ops))
    BY <1>2, PlanPlanned
  <2>2. c = [plan |-> plan, payload |-> fits, entries |-> [k \in dumps |-> entry(k)], takes |-> takes]
    BY <1>2 DEF Compiled
  <2>3. DOMAIN plan = 1 .. Len(plan) /\ Len(plan) \in Nat
    BY <2>1
  <2>4. /\ fits \in Nat /\ fits % 4 = 0
        /\ \A k \in 0 .. Len(plan) : PayloadEnd(ops, plan)[k] <= fits
        /\ \A k \in 1 .. Len(plan) : Dumped(plan[k]) => fits % EntryBytes(ops, plan[k]) = 0
        /\ (\A k \in 1 .. Len(plan) : ~Dumped(plan[k])) => fits = 0
    BY <2>1, PayloadFits
  <2>5. \A k \in dumps : EntriesFit(ops, plan, k)
    BY <2>1, <2>3, EntryFits
  <2>6. \A k \in DOMAIN plan : ops[plan[k].of].func \in takes
    BY DEF HiddenArgument
  <2>7. /\ PayloadEnd(ops, plan)[0] = 0 /\ \A k \in 0 .. Len(plan) : PayloadEnd(ops, plan)[k] \in Nat
        /\ \A k \in 1 .. Len(plan) : ~Dumped(plan[k]) => PayloadEnd(ops, plan)[k] = PayloadEnd(ops, plan)[k - 1]
    BY <2>1, PayloadGrows
  <2> DEFINE end == PayloadEnd(ops, plan)
             n == Len(plan)
  <2> HIDE DEF plan, c, fits, entry, takes, end
  <2>8. /\ c.plan = plan /\ c.payload = fits /\ c.takes = takes
        /\ DOMAIN c.entries = dumps /\ \A k \in dumps : c.entries[k] = entry(k)
    BY <2>2
  <2>9. \A k \in 1 .. n : end[k - 1] <= end[k]
    <3> TAKE k \in 1 .. n
    <3>1. end[k - 1] \in Nat /\ end[k] \in Nat
      BY <2>3, <2>7 DEF end
    <3>2. CASE Dumped(plan[k])
      <4>1. EntriesFit(ops, plan, k)
        BY <2>3, <2>5, <3>2
      <4> QED
        BY <3>1, <4>1 DEF EntriesFit, end
    <3>3. CASE ~Dumped(plan[k])
      BY <2>7, <3>1, <3>3 DEF end
    <3> QED
      BY <3>2, <3>3
  <2>10. ASSUME NEW k \in dumps
         PROVE  /\ entry(k).offset \in Nat /\ entry(k).length \in Nat
                /\ end[k - 1] <= entry(k).offset /\ entry(k).offset + entry(k).length = end[k]
                /\ k \in 1 .. n /\ end[k] \in Nat /\ end[k] <= fits
    <3>1. EntriesFit(ops, plan, k) /\ k \in 1 .. n /\ k \in 0 .. n
      BY <2>3, <2>5
    <3> QED
      BY <2>4, <2>7, <3>1 DEF EntriesFit, entry, end
  <2>11. ASSUME NEW k \in dumps PROVE EntrySound(ops, c, k)
    <3>1. EntriesFit(ops, plan, k) /\ Dumped(plan[k])
      BY <2>5
    <3>2. c.entries[k] = entry(k) /\ c.plan = plan /\ c.payload = fits
      BY <2>8
    <3>3. fits % entry(k).bytes = 0
      BY <2>4, <2>10, <3>1 DEF EntriesFit, entry
    <3>4. entry(k).offset + entry(k).length <= fits
      BY <2>10
    <3>5. /\ entry(k).bytes \in {4, 8} /\ entry(k).length = entry(k).bytes * Observed(ops, plan[k]).lanes
          /\ entry(k).offset % entry(k).bytes = 0
          /\ entry(k).conditional <=> ops[plan[k].of].place \in {"branch", "loop"}
      BY <3>1 DEF EntriesFit, entry
    <3> QED
      BY <2>10, <3>2, <3>3, <3>4, <3>5 DEF EntrySound
  <2>12. ASSUME NEW j \in dumps, NEW k \in dumps, j < k
         PROVE  c.entries[j].offset + c.entries[j].length <= c.entries[k].offset
    <3>1. j \in 1 .. n /\ k \in 1 .. n /\ n \in Nat
      BY <2>3, <2>10
    <3>2. j \in 0 .. n /\ k - 1 \in j .. n /\ k - 1 \in 0 .. n
      BY <2>12, <3>1
    <3>3. \A m \in 0 .. n : end[m] \in Nat
      BY <2>7 DEF end
    <3>4. end[j] <= end[k - 1]
      BY <2>9, <3>1, <3>2, <3>3, Grows
    <3>5. entry(j).offset + entry(j).length = end[j] /\ end[k - 1] <= entry(k).offset
          /\ entry(k).offset \in Nat /\ end[j] \in Nat /\ end[k - 1] \in Nat
      BY <2>10, <3>2, <3>3
    <3> QED
      BY <2>8, <3>4, <3>5
  <2>13. dumps = {} => fits = 0
    BY <2>3, <2>4
  <2>14. PlanSound(ops, c)
    BY <2>1, <2>4, <2>6, <2>8, <2>11, <2>12, <2>13 DEF PlanSound
  <2> QED
    BY <2>14 DEF c
<1> QED
  BY <1>1, <1>2

\* The kernel is compiled, from whatever source in whatever mode.
LEMMA DebugCompile ==
  ASSUME DebugInv, Compile
  PROVE  DebugInv'
<1> DEFINE ops == KernelOf(Marked, mode.addr)
           accepted == Resolves(Marked, mode.addr) /\ (MetadataOnly \/ Compiles(mode, ops))
<1>1. /\ phase = "compile" /\ Started
      /\ source \in Sources /\ mode \in Modes /\ capacity \in Nat /\ gridKnown \in BOOLEAN
      /\ source' = source /\ mode' = mode /\ capacity' = capacity /\ gridKnown' = gridKnown
      /\ at' = at /\ buffer' = buffer
  BY DEF Compile, DebugInv
<1>2. Started'
  BY <1>1 DEF Started
<1>3. IF accepted
      THEN /\ phase' = "launch" /\ kernel' = ops /\ compiled' = Compiled(ops)
           /\ ran' = [i \in Instances |-> [n \in DOMAIN ops |-> NotRun]]
      ELSE phase' = "done" /\ report' = [status |-> "refused"]
  BY DEF Compile
<1>4. KernelSound(ops)
  <2>1. SourceSound(Marked) /\ mode.addr \in Int
    BY <1>1, MarkedSound, SourcesAssumption
  <2> QED
    BY <2>1, KernelIsSound
<1> HIDE DEF ops
<1>5. CASE accepted
  <2>1. PlanSound(ops, Compiled(ops))
    BY <1>4, <1>5, CompiledIsSound
  <2>2. /\ phase' = "launch" /\ kernel' = ops /\ compiled' = Compiled(ops)
        /\ ran' = [i \in Instances |-> [n \in DOMAIN ops |-> NotRun]]
    BY <1>3, <1>5
  <2>3. KernelSound(kernel') /\ PlanSound(kernel', compiled')
    BY <1>4, <2>1, <2>2
  <2>4. Sound'
    BY <1>1, <2>3 DEF Sound
  <2>5. (ran = [i \in Instances |-> [n \in DOMAIN kernel |-> NotRun]])'
    BY <2>2
  <2> QED
    BY <1>1, <1>2, <2>2, <2>4, <2>5 DEF DebugInv, Exported
<1>6. CASE ~accepted
  <2>1. phase' = "done" /\ report' = [status |-> "refused"]
    BY <1>3, <1>6
  <2> QED
    BY <1>1, <2>1 DEF DebugInv, Exported
<1> QED
  BY <1>5, <1>6

-----------------------------------------------------------------------------
(* The theorems.                                                            *)

\* Through compilation, launch, every interleaving of the instances and the export, the
\* buffer holds what the instances saw and the report is that of the buffer.
THEOREM DebugInvariant == Spec => []DebugInv
<1>1. Init => DebugInv
  BY DebugInit
<1>2. DebugInv /\ [Next]_vars => DebugInv'
  <2> SUFFICES ASSUME DebugInv, [Next]_vars PROVE DebugInv'
    OBVIOUS
  <2>1. CASE Compile
    BY <2>1, DebugCompile
  <2>2. CASE Launch
    BY <2>2, DebugLaunch
  <2>3. CASE Export
    BY <2>3, DebugExport
  <2>4. ASSUME NEW i \in Instances, Run(i) PROVE DebugInv'
    BY <2>4, DebugRun
  <2>5. ASSUME NEW i \in Instances, Skip(i) PROVE DebugInv'
    BY <2>5, DebugSkip
  <2>6. CASE UNCHANGED vars
    BY <2>6, DebugStutter
  <2> QED
    BY <2>1, <2>2, <2>3, <2>4, <2>5, <2>6 DEF Next
<1> QED
  BY <1>1, <1>2, PTL DEF Spec

\* No launch ends in an error: no check of the host takes a buffer the device wrote
\* correctly for a failed capture (validation, payload references, completion).
THEOREM DebugAccepts == Spec => []AcceptedIsExported
<1>1. DebugInv => AcceptedIsExported
  BY ExportAccepted DEF DebugInv
<1> QED
  BY <1>1, DebugInvariant, PTL

\* A report of a known grid whose header shows no overflow has a record for every record
\* that was planned of an operation an instance ran.
THEOREM DebugMisses == Spec => []NothingIsMissing
<1>1. DebugInv => NothingIsMissing
  BY ExportMisses DEF DebugInv
<1> QED
  BY <1>1, DebugInvariant, PTL

\* A full dump has an artifact for every dump that ran, value by value what the instance
\* saw, and none for one that did not.
THEOREM DebugDumps == Spec => []ArtifactsExact
<1>1. DebugInv => ArtifactsExact
  BY ExportArtifacts DEF DebugInv
<1> QED
  BY <1>1, DebugInvariant, PTL

\* Every record shows what the instance it names saw the last time it ran the operation,
\* in values, counts, clocks and addresses, whichever side computed it; of a dumped
\* operation that did not run there is no record.
THEOREM DebugTells == Spec => []RecordsTellTheTruth
<1>1. DebugInv => RecordsTellTheTruth
  BY ExportTrue DEF DebugInv
<1> QED
  BY <1>1, DebugInvariant, PTL
=============================================================================
