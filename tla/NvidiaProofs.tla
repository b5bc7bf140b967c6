----------------------------- MODULE NvidiaProofs -----------------------------
(* Proofs about the optional collectors of the CUPTI profiler, for any threads, *)
(* contexts, launches and sessions, whatever calls CUPTI refuses: the types,    *)
(* that every object of the hardware counters is released or known to be kept,  *)
(* that every range names the kernel its counters were read of, that what is    *)
(* lost is reported, and that samples are given to the launches they are of.    *)
EXTENDS NvidiaCollectors, TLAPS, FiniteSetTheorems, SequenceTheorems, WellFoundedInduction

Kernel == Launches \X Nat

----------------------------------------------------------------------------
(* Numbers, and the records of a buffer.                                    *)

\* A set of naturals that is not empty has a smallest element.
LEMMA SmallestIn ==
  ASSUME NEW S \in SUBSET Nat, S # {}
  PROVE  \E x \in S : \A y \in S : x <= y
<1> DEFINE Less == {p \in Nat \X Nat : p[1] < p[2]}
<1>1. IsWellFoundedOn(Less, Nat)
  BY NatLessThanWellFounded, Zenon DEF OpToRel
<1>2. PICK x \in S : \A y \in S : <<y, x>> \notin Less
  <2> HIDE DEF Less
  <2> QED
    BY <1>1, WFMin
<1>3. ASSUME NEW y \in S
      PROVE  x <= y
  <2>1. <<y, x>> \notin {p \in Nat \X Nat : p[1] < p[2]} /\ x \in Nat /\ y \in Nat
    BY <1>2
  <2>2. ~(y < x)
    BY <2>1
  <2> QED
    BY <2>1, <2>2
<1> QED
  BY <1>3

\* Multiplying by a natural number keeps the order.
LEMMA TimesOrder ==
  ASSUME NEW a \in Nat, NEW b \in Nat, NEW n \in Nat, a <= b
  PROVE  a * n <= b * n
  BY Z3

\* Division with remainder has one answer.
LEMMA QuotientIs ==
  ASSUME NEW n \in Nat \ {0}, NEW i \in Nat, NEW k \in 0 .. n - 1
  PROVE  (i * n + k) \div n = i
<1> DEFINE x == i * n + k
           q == x \div n
           r == x % n
<1>1. x \in Nat
  OBVIOUS
<1>2. q \in Nat /\ r \in 0 .. n - 1 /\ x = q * n + r
  BY <1>1, Z3
<1>3. CASE i < q
  <2>1. i + 1 \in Nat /\ i + 1 <= q /\ (i + 1) * n = i * n + n
    BY <1>2, <1>3, Z3
  <2>2. (i + 1) * n <= q * n
    BY <1>2, <2>1, TimesOrder
  <2>3. i * n \in Nat /\ q * n \in Nat
    BY <1>2
  <2> QED
    BY <1>2, <2>1, <2>2, <2>3
<1>4. CASE q < i
  <2>1. q + 1 \in Nat /\ q + 1 <= i /\ (q + 1) * n = q * n + n
    BY <1>2, <1>4, Z3
  <2>2. (q + 1) * n <= i * n
    BY <1>2, <2>1, TimesOrder
  <2>3. i * n \in Nat /\ q * n \in Nat
    BY <1>2
  <2> QED
    BY <1>2, <2>1, <2>2, <2>3
<1> QED
  BY <1>2, <1>3, <1>4

\* Division with remainder.
LEMMA DivMod ==
  ASSUME NEW n \in Nat \ {0}, NEW a \in Nat
  PROVE  \E q \in Nat, k \in 0 .. n - 1 : a \div n = q /\ a = q * n + k
<1>1. a \div n \in Nat /\ a % n \in 0 .. n - 1 /\ a = (a \div n) * n + (a % n)
  BY Z3
<1> QED
  BY <1>1

\* From one number to the next the quotient grows by one at most.
LEMMA QuotientNext ==
  ASSUME NEW n \in Nat \ {0}, NEW a \in Nat
  PROVE  /\ a \div n \in Nat /\ (a + 1) \div n \in Nat
         /\ (a + 1) \div n \in {a \div n, (a \div n) + 1}
<1> DEFINE q == a \div n
           r == a % n
<1>1. q \in Nat /\ r \in 0 .. n - 1 /\ a = q * n + r
  BY Z3
<1>2. CASE r + 1 < n
  <2>1. r + 1 \in 0 .. n - 1 /\ a + 1 = q * n + (r + 1)
    BY <1>1, <1>2
  <2> QED
    BY <1>1, <2>1, QuotientIs
<1>3. CASE r + 1 = n
  <2>1. q + 1 \in Nat /\ 0 \in 0 .. n - 1 /\ (q + 1) * n = q * n + n
    BY <1>1, Z3
  <2>2. a + 1 = (q + 1) * n + 0
    BY <1>1, <1>3, <2>1
  <2>3. (a + 1) \div n = q + 1
    BY <2>1, <2>2, QuotientIs
  <2> QED
    BY <1>1, <2>1, <2>3
<1> QED
  BY <1>1, <1>2, <1>3

\* What a further record makes of the kernels that are known.
RecordStep(known, rs, f, i) ==
  IF i = 0 THEN known
  ELSE IF rs[i][2] = 0 THEN f[i - 1] ELSE Recorded(f[i - 1], rs[i])

IsRecorded(known, rs, n, f) == f = [i \in 0..n |-> RecordStep(known, rs, f, i)]

\* The recursion in RecordedAll has a solution.
LEMMA RecordingExists ==
  ASSUME NEW known, NEW rs, NEW n \in Nat
  PROVE  \E f : IsRecorded(known, rs, n, f)
<1> DEFINE wrong == {m \in Nat : \A f : ~IsRecorded(known, rs, m, f)}
<1>1. ASSUME wrong # {} PROVE FALSE
  <2>1. PICK m \in wrong : \A j \in wrong : m <= j
    <3> HIDE DEF wrong
    <3>1. wrong \in SUBSET Nat
      BY DEF wrong
    <3> QED
      BY <1>1, <3>1, SmallestIn
  <2>2. CASE m = 0
    <3> DEFINE f == [i \in 0..0 |-> known]
    <3>1. f = [i \in 0..0 |-> RecordStep(known, rs, f, i)]
      BY DEF RecordStep
    <3> HIDE DEF f
    <3>2. IsRecorded(known, rs, m, f)
      BY <3>1, <2>2 DEF IsRecorded
    <3> QED
      BY <3>2, <2>1
  <2>3. CASE m # 0
    <3>1. m - 1 \in Nat /\ m \in Nat /\ m - 1 \notin wrong
      BY <2>1, <2>3
    <3>2. PICK f : IsRecorded(known, rs, m - 1, f)
      BY <3>1
    <3> DEFINE g == [i \in 0..m |-> IF i = m THEN RecordStep(known, rs, f, m) ELSE f[i]]
    <3>3. \A i \in 0..m : RecordStep(known, rs, g, i) = RecordStep(known, rs, f, i)
      BY <3>1 DEF RecordStep
    <3>4. \A i \in 0 .. m - 1 : f[i] = RecordStep(known, rs, f, i)
      BY <3>1, <3>2 DEF IsRecorded
    <3>5. \A i \in 0..m : g[i] = RecordStep(known, rs, g, i)
      BY <3>1, <3>3, <3>4
    <3>6. g = [i \in 0..m |-> g[i]]
      OBVIOUS
    <3> HIDE DEF g
    <3>7. IsRecorded(known, rs, m, g)
      BY <3>5, <3>6 DEF IsRecorded
    <3> QED
      BY <3>7, <2>1
  <2> QED
    BY <2>2, <2>3
<1> QED
  BY <1>1

\* RecordedAll is the last value of that solution.
LEMMA RecordedAllIs ==
  ASSUME NEW known, NEW rs, Len(rs) \in Nat
  PROVE  \E f : IsRecorded(known, rs, Len(rs), f) /\ RecordedAll(known, rs) = f[Len(rs)]
<1> DEFINE g[i \in 0..Len(rs)] ==
             IF i = 0 THEN known
             ELSE IF rs[i][2] = 0 THEN g[i - 1] ELSE Recorded(g[i - 1], rs[i])
<1>1. PICK f : IsRecorded(known, rs, Len(rs), f)
  BY RecordingExists
<1>2. f = [i \in 0..Len(rs) |->
             IF i = 0 THEN known
             ELSE IF rs[i][2] = 0 THEN f[i - 1] ELSE Recorded(f[i - 1], rs[i])]
  BY <1>1 DEF IsRecorded, RecordStep
<1>3. g = [i \in 0..Len(rs) |->
             IF i = 0 THEN known
             ELSE IF rs[i][2] = 0 THEN g[i - 1] ELSE Recorded(g[i - 1], rs[i])]
  BY <1>2
<1>4. RecordedAll(known, rs) = g[Len(rs)]
  BY DEF RecordedAll
<1> HIDE DEF g
<1>5. IsRecorded(known, rs, Len(rs), g)
  BY <1>3 DEF IsRecorded, RecordStep
<1> QED
  BY <1>4, <1>5

\* No records, nothing new.
LEMMA RecordedNone ==
  ASSUME NEW known
  PROVE  RecordedAll(known, <<>>) = known
<1>1. PICK f : IsRecorded(known, <<>>, Len(<<>>), f) /\ RecordedAll(known, <<>>) = f[Len(<<>>)]
  BY RecordedAllIs
<1>2. f[0] = known
  BY <1>1 DEF IsRecorded, RecordStep
<1> QED
  BY <1>1, <1>2

\* Solutions for the same records agree.
LEMMA RecordingsAgree ==
  ASSUME NEW known, NEW rs, NEW qs, NEW m \in Nat, NEW n \in Nat, NEW f, NEW g, m <= n,
         IsRecorded(known, rs, m, f), IsRecorded(known, qs, n, g),
         \A i \in 1..m : rs[i] = qs[i]
  PROVE  f[m] = g[m]
<1> DEFINE wrong == {i \in 0..m : f[i] # g[i]}
<1>1. ASSUME wrong # {} PROVE FALSE
  <2>1. PICK i \in wrong : \A j \in wrong : i <= j
    <3> HIDE DEF wrong
    <3>1. wrong \in SUBSET Nat
      BY DEF wrong
    <3> QED
      BY <1>1, <3>1, SmallestIn
  <2>2. f[i] = RecordStep(known, rs, f, i) /\ g[i] = RecordStep(known, qs, g, i)
    <3>1. i \in 0..m /\ i \in 0..n
      BY <2>1
    <3>2. \A j \in 0..m : f[j] = RecordStep(known, rs, f, j)
      BY DEF IsRecorded
    <3>3. \A j \in 0..n : g[j] = RecordStep(known, qs, g, j)
      BY DEF IsRecorded
    <3> QED
      BY <3>1, <3>2, <3>3
  <2>3. i # 0 => f[i - 1] = g[i - 1] /\ rs[i] = qs[i]
    BY <2>1
  <2>4. RecordStep(known, rs, f, i) = RecordStep(known, qs, g, i)
    BY <2>3 DEF RecordStep
  <2> QED
    BY <2>1, <2>2, <2>4
<1> QED
  BY <1>1

\* One record more.
LEMMA RecordedOne ==
  ASSUME NEW known, NEW T, NEW rs \in Seq(T), NEW r \in T
  PROVE  RecordedAll(known, Append(rs, r))
           = IF r[2] = 0 THEN RecordedAll(known, rs) ELSE Recorded(RecordedAll(known, rs), r)
<1> DEFINE qs == Append(rs, r)
           n == Len(rs)
<1>1. /\ n \in Nat /\ Len(qs) = n + 1 /\ qs[n + 1] = r
      /\ \A i \in 1..n : rs[i] = qs[i]
  OBVIOUS
<1> HIDE DEF qs
<1>2. PICK f : IsRecorded(known, rs, n, f) /\ RecordedAll(known, rs) = f[n]
  BY RecordedAllIs
<1>3. PICK g : IsRecorded(known, qs, n + 1, g) /\ RecordedAll(known, qs) = g[n + 1]
  BY <1>1, RecordedAllIs
<1> HIDE DEF n
<1>4. f[n] = g[n]
  <2>1. n + 1 \in Nat /\ n <= n + 1
    BY <1>1
  <2> QED
    BY <1>1, <1>2, <1>3, <2>1, RecordingsAgree
<1>5. g[n + 1] = RecordStep(known, qs, g, n + 1) /\ n + 1 # 0 /\ (n + 1) - 1 = n
  <2>1. \A j \in 0 .. n + 1 : g[j] = RecordStep(known, qs, g, j)
    BY <1>3 DEF IsRecorded
  <2> QED
    BY <1>1, <2>1
<1>6. g[n + 1] = IF r[2] = 0 THEN g[n] ELSE Recorded(g[n], r)
  BY <1>1, <1>5 DEF RecordStep
<1> QED
  BY <1>2, <1>3, <1>4, <1>6 DEF qs

\* Records only add to what is known.
LEMMA RecordedExtends ==
  ASSUME NEW T, NEW known \in Seq(T), NEW rs \in Seq(T)
  PROVE  /\ RecordedAll(known, rs) \in Seq(T)
         /\ Len(known) <= Len(RecordedAll(known, rs))
         /\ \A i \in 1..Len(known) : RecordedAll(known, rs)[i] = known[i]
<1> DEFINE Good(s) == /\ s \in Seq(T) /\ Len(known) <= Len(s)
                      /\ \A i \in 1..Len(known) : s[i] = known[i]
           n == Len(rs)
<1>1. PICK f : IsRecorded(known, rs, n, f) /\ RecordedAll(known, rs) = f[n]
  BY RecordedAllIs
<1>2. n \in Nat /\ \A i \in 1..n : rs[i] \in T
  OBVIOUS
<1>3. \A i \in 0..n : f[i] = RecordStep(known, rs, f, i)
  BY <1>1 DEF IsRecorded
<1>4. ASSUME NEW s, NEW r \in T, Good(s) PROVE Good(Recorded(s, r))
  <2>1. CASE r \in ToSet(s)
    BY <1>4, <2>1 DEF Recorded
  <2>2. CASE r \notin ToSet(s)
    <3>1. Recorded(s, r) = Append(s, r)
      BY <2>2 DEF Recorded
    <3>2. /\ Append(s, r) \in Seq(T) /\ Len(Append(s, r)) = Len(s) + 1
          /\ \A i \in 1..Len(s) : Append(s, r)[i] = s[i]
      BY <1>4
    <3>3. Len(known) \in Nat /\ Len(s) \in Nat
      BY <1>4
    <3> QED
      BY <1>4, <3>1, <3>2, <3>3
  <2> QED
    BY <2>1, <2>2
<1> HIDE DEF n
<1> DEFINE wrong == {i \in 0..n : ~Good(f[i])}
<1>5. ASSUME wrong # {} PROVE FALSE
  <2>1. PICK i \in wrong : \A j \in wrong : i <= j
    <3> HIDE DEF wrong
    <3>1. wrong \in SUBSET Nat
      BY <1>2 DEF wrong
    <3> QED
      BY <1>5, <3>1, SmallestIn
  <2>2. i # 0
    <3>1. f[0] = known
      BY <1>2, <1>3 DEF RecordStep
    <3> QED
      BY <2>1, <3>1
  <2>3. i - 1 \in 0..n /\ i \in 1..n /\ i - 1 \notin wrong
    BY <1>2, <2>1, <2>2
  <2>4. Good(f[i - 1])
    BY <2>3
  <2>5. f[i] = IF rs[i][2] = 0 THEN f[i - 1] ELSE Recorded(f[i - 1], rs[i])
    BY <1>3, <2>2, <2>3 DEF RecordStep
  <2> HIDE DEF Good
  <2>6. Good(f[i])
    BY <1>2, <1>4, <2>3, <2>4, <2>5
  <2> QED
    BY <2>1, <2>6
<1>6. Good(f[n])
  BY <1>2, <1>5
<1> QED
  BY <1>1, <1>6

\* A sequence followed by the first q elements of another.
Onto(h, ks, q) ==
  [i \in 1 .. Len(h) + q |-> IF i <= Len(h) THEN h[i] ELSE ks[i - Len(h)]]

\* It is a sequence, between the first and the two together.
LEMMA OntoIs ==
  ASSUME NEW T, NEW h \in Seq(T), NEW ks \in Seq(T), NEW q \in 0..Len(ks)
  PROVE  /\ Onto(h, ks, q) \in Seq(T) /\ Len(Onto(h, ks, q)) = Len(h) + q
         /\ Len(h) \in Nat /\ DOMAIN Onto(h, ks, q) = 1 .. Len(h) + q
         /\ \A i \in 1..Len(h) : Onto(h, ks, q)[i] = h[i]
         /\ \A i \in 1..q : Onto(h, ks, q)[Len(h) + i] = ks[i]
<1>1. PICK n \in Nat : n = Len(h)
  OBVIOUS
<1>2. PICK m \in Nat : m = Len(ks) /\ q \in 0..m
  OBVIOUS
<1>3. /\ \A i \in 1..n : h[i] \in T
      /\ \A i \in 1..m : ks[i] \in T
  BY <1>1, <1>2
<1> DEFINE u == [i \in 1 .. n + q |-> IF i <= n THEN h[i] ELSE ks[i - n]]
<1>4. Onto(h, ks, q) = u
  BY <1>1 DEF Onto
<1>5. \A i \in 1 .. n + q : u[i] \in T
  <2>1. ASSUME NEW i \in 1 .. n + q PROVE u[i] \in T
    <3>1. CASE i <= n
      <4>1. i \in 1..n /\ u[i] = h[i]
        BY <1>1, <1>2, <3>1
      <4> QED
        BY <1>3, <4>1
    <3>2. CASE ~(i <= n)
      <4>1. i - n \in 1..m /\ u[i] = ks[i - n]
        BY <1>1, <1>2, <3>2
      <4> QED
        BY <1>3, <4>1
    <3> QED
      BY <3>1, <3>2
  <2> QED
    BY <2>1
<1>6. n + q \in Nat
  BY <1>2
<1>7. /\ \A i \in 1..n : u[i] = h[i]
      /\ \A i \in 1..q : u[n + i] = ks[i]
  <2>1. ASSUME NEW i \in 1..q PROVE u[n + i] = ks[i]
    <3>1. n + i \in 1 .. n + q /\ ~(n + i <= n) /\ (n + i) - n = i
      BY <1>2
    <3> QED
      BY <3>1
  <2>2. ASSUME NEW i \in 1..n PROVE u[i] = h[i]
    <3>1. i \in 1 .. n + q /\ i <= n
      BY <1>2
    <3> QED
      BY <3>1
  <2> QED
    BY <2>1, <2>2
<1>8. u = [i \in 1 .. n + q |-> u[i]]
  OBVIOUS
<1> HIDE DEF u
<1>9. u \in Seq(T) /\ Len(u) = n + q /\ DOMAIN u = 1 .. n + q
  BY <1>5, <1>6, <1>8
<1> QED
  BY <1>1, <1>4, <1>7, <1>9

\* From nothing of the other to all of it.
LEMMA OntoEnds ==
  ASSUME NEW T, NEW h \in Seq(T), NEW ks \in Seq(T)
  PROVE  Onto(h, ks, 0) = h /\ Onto(h, ks, Len(ks)) = h \o ks
<1>1. PICK n \in Nat, m \in Nat : n = Len(h) /\ m = Len(ks)
  OBVIOUS
<1>2. Onto(h, ks, 0) = h
  <2>1. 0 \in 0..Len(ks) /\ 0 \in 0..m /\ n + 0 = n
    BY <1>1
  <2>2. PICK u \in Seq(T) : u = Onto(h, ks, 0)
    BY <2>1, OntoIs
  <2>3. u = [i \in 1 .. n + 0 |-> IF i <= n THEN h[i] ELSE ks[i - n]]
    BY <1>1, <2>2 DEF Onto
  <2>4. \A i \in 1..n : u[i] = h[i]
    BY <2>3
  <2>5. Len(u) = n
    BY <2>1, <2>3
  <2>6. u = h
    BY <1>1, <2>4, <2>5, SeqEqual
  <2> QED
    BY <2>2, <2>6
<1>3. Onto(h, ks, m) = h \o ks
  <2>1. PICK v \in Seq(T) : v = h \o ks
    BY ConcatProperties
  <2>2. Len(v) = n + m /\ \A i \in 1 .. n + m : v[i] = IF i <= n THEN h[i] ELSE ks[i - n]
    BY <1>1, <2>1, ConcatProperties
  <2>3. v = [i \in 1 .. n + m |-> v[i]]
    BY <2>2
  <2>4. v = [i \in 1 .. n + m |-> IF i <= n THEN h[i] ELSE ks[i - n]]
    BY <2>2, <2>3
  <2> QED
    BY <1>1, <2>1, <2>4 DEF Onto
<1> QED
  BY <1>1, <1>2, <1>3

\* One element further.
LEMMA OntoNext ==
  ASSUME NEW T, NEW h \in Seq(T), NEW ks \in Seq(T), NEW q \in 1..Len(ks)
  PROVE  Onto(h, ks, q) = Append(Onto(h, ks, q - 1), ks[q])
<1>1. PICK n \in Nat, m \in Nat : n = Len(h) /\ m = Len(ks)
  OBVIOUS
<1>2. PICK p \in Nat : p = q - 1 /\ p \in 0..m /\ p + 1 = q /\ q \in 0..m
  BY <1>1
<1>3. PICK u \in Seq(T) : u = Onto(h, ks, p)
  BY <1>1, <1>2, OntoIs
<1>4. PICK v \in Seq(T) : v = Onto(h, ks, q)
  BY <1>1, <1>2, OntoIs
<1>5. PICK e \in T : e = ks[q]
  OBVIOUS
<1>6. /\ DOMAIN u = 1 .. n + p
      /\ \A i \in 1..n : u[i] = h[i]
      /\ \A i \in 1..p : u[n + i] = ks[i]
  <2>1. u = [i \in 1 .. n + p |-> IF i <= n THEN h[i] ELSE ks[i - n]]
    BY <1>1, <1>3 DEF Onto
  <2>2. \A i \in 1..n : i \in 1 .. n + p /\ i <= n
    BY <1>2
  <2>3. \A i \in 1..p : n + i \in 1 .. n + p /\ ~(n + i <= n) /\ (n + i) - n = i
    BY <1>2
  <2>4. \A i \in 1..n : u[i] = h[i]
    BY <2>1, <2>2
  <2>5. \A i \in 1..p : u[n + i] = ks[i]
    BY <2>1, <2>3
  <2> QED
    BY <2>1, <2>4, <2>5
<1>7. /\ DOMAIN v = 1 .. n + q
      /\ \A i \in 1..n : v[i] = h[i]
      /\ \A i \in 1..q : v[n + i] = ks[i]
  <2>1. v = [i \in 1 .. n + q |-> IF i <= n THEN h[i] ELSE ks[i - n]]
    BY <1>1, <1>4 DEF Onto
  <2>2. \A i \in 1..n : i \in 1 .. n + q /\ i <= n
    BY <1>2
  <2>3. \A i \in 1..q : n + i \in 1 .. n + q /\ ~(n + i <= n) /\ (n + i) - n = i
    BY <1>2
  <2>4. \A i \in 1..n : v[i] = h[i]
    BY <2>1, <2>2
  <2>5. \A i \in 1..q : v[n + i] = ks[i]
    BY <2>1, <2>3
  <2> QED
    BY <2>1, <2>4, <2>5
<1>8. PICK w \in Seq(T) : w = Append(u, e)
  BY AppendProperties
<1>9. Len(w) = n + q /\ (\A i \in 1 .. n + p : w[i] = u[i]) /\ w[n + q] = e
  <2>1. Len(w) = Len(u) + 1 /\ (\A i \in 1..Len(u) : w[i] = u[i]) /\ w[Len(u) + 1] = e
    BY <1>8, AppendProperties
  <2>2. (n + p) + 1 = n + q
    BY <1>2
  <2> QED
    BY <1>6, <2>1, <2>2, Len(u) = n + p
<1>10. ASSUME NEW i \in 1 .. n + q PROVE v[i] = w[i]
  <2>1. CASE i \in 1..n
    <3>1. i \in 1 .. n + p
      BY <1>2, <2>1
    <3> QED
      BY <1>6, <1>7, <1>9, <2>1, <3>1
  <2>2. CASE i \notin 1..n
    <3>1. PICK k \in 1..q : i = n + k
      <4>1. i - n \in 1..q /\ i = n + (i - n)
        BY <2>2
      <4> QED
        BY <4>1
    <3>2. v[i] = ks[k]
      BY <1>7, <3>1
    <3>3. CASE k = q
      BY <1>5, <1>9, <3>1, <3>2, <3>3
    <3>4. CASE k # q
      <4>1. k \in 1..p /\ n + k \in 1 .. n + p
        BY <1>2, <3>4
      <4> QED
        BY <1>6, <1>9, <3>1, <3>2, <4>1
    <3> QED
      BY <3>3, <3>4
  <2> QED
    BY <2>1, <2>2
<1>11. v = w
  BY <1>7, <1>9, <1>10, SeqEqual
<1> QED
  BY <1>2, <1>3, <1>4, <1>5, <1>8, <1>11

\* How many kernels the first j records of a launch of p passes are of.
Reached(p, j) == IF j = 0 THEN 0 ELSE 1 + (j - 1) \div p

\* Record after record the kernels follow each other, up to the last.
LEMMA ReachedOneByOne ==
  ASSUME NEW n \in Nat, NEW p \in Nat \ {0}, NEW m \in Nat, m = n * p
  PROVE  /\ Reached(p, 0) = 0 /\ Reached(p, m) = n
         /\ \A j \in 1..m : /\ Reached(p, j) \in 1..n /\ Reached(p, j - 1) \in Nat
                            /\ Reached(p, j) \in {Reached(p, j - 1), Reached(p, j - 1) + 1}
<1>1. Reached(p, 0) = 0
  BY DEF Reached
<1>2. Reached(p, m) = n
  <2>1. CASE n = 0
    BY <2>1 DEF Reached
  <2>2. CASE n # 0
    <3>1. n - 1 \in Nat /\ p - 1 \in 0 .. p - 1 /\ (n - 1) * p + (p - 1) = n * p - 1
      BY <2>2, Z3
    <3>2. ((n - 1) * p + (p - 1)) \div p = n - 1
      BY <3>1, QuotientIs
    <3>3. m # 0
      BY <2>2, Z3
    <3>4. (m - 1) \div p = n - 1
      BY <3>1, <3>2
    <3> QED
      BY <3>1, <3>3, <3>4 DEF Reached
  <2> QED
    BY <2>1, <2>2
<1>3. ASSUME NEW j \in 1..m PROVE Reached(p, j) \in 1..n
  <2>1. j - 1 \in Nat /\ j # 0 /\ j - 1 < m
    OBVIOUS
  <2>2. PICK q \in Nat, k \in 0 .. p - 1 : (j - 1) \div p = q /\ j - 1 = q * p + k
    BY <2>1, DivMod
  <2>3. CASE n <= q
    <3>1. n * p <= q * p
      BY <2>3, TimesOrder
    <3>2. PICK qp \in Nat : qp = q * p
      OBVIOUS
    <3> QED
      BY <2>1, <2>2, <3>1, <3>2
  <2>4. CASE q < n
    BY <2>1, <2>2, <2>4 DEF Reached
  <2> QED
    BY <2>2, <2>3, <2>4
<1>4. ASSUME NEW j \in 1..m
      PROVE  /\ Reached(p, j - 1) \in Nat
             /\ Reached(p, j) \in {Reached(p, j - 1), Reached(p, j - 1) + 1}
  <2>1. CASE j = 1
    <3>1. 0 \div p = 0
      <4>1. 0 * p + 0 = 0 /\ 0 \in 0 .. p - 1
        OBVIOUS
      <4> QED
        BY <4>1, QuotientIs
    <3> QED
      BY <2>1, <3>1 DEF Reached
  <2>2. CASE j # 1
    <3>1. j - 2 \in Nat /\ (j - 2) + 1 = j - 1 /\ (j - 1) - 1 = j - 2 /\ j - 1 # 0 /\ j # 0
      BY <2>2
    <3>2. (j - 2) \div p \in Nat /\ ((j - 2) + 1) \div p \in {(j - 2) \div p, (j - 2) \div p + 1}
      BY <3>1, QuotientNext
    <3>3. PICK a \in Nat, b \in Nat : a = (j - 2) \div p /\ b = (j - 1) \div p
      BY <3>1, <3>2
    <3>4. b = a \/ b = a + 1
      BY <3>1, <3>2, <3>3
    <3>5. Reached(p, j) = 1 + b /\ Reached(p, j - 1) = 1 + a
      BY <3>1, <3>3 DEF Reached
    <3> QED
      BY <3>4, <3>5
  <2> QED
    BY <2>1, <2>2
<1> QED
  BY <1>1, <1>2, <1>3, <1>4

\* The record of a kernel of the launch, when the first q of them are known.
LEMMA KernelRecorded ==
  ASSUME NEW h \in Seq(Kernel), NEW ks \in Seq(Kernel), NEW q \in Nat,
         NEW r \in 1..Len(ks), r \in {q, q + 1},
         \A i \in 1..Len(ks) : ks[i] \notin ToSet(h),
         \A i, j \in 1..Len(ks) : ks[i] = ks[j] => i = j
  PROVE  Recorded(Onto(h, ks, q), ks[r]) = Onto(h, ks, r)
<1>1. PICK n \in Nat, m \in Nat : n = Len(h) /\ m = Len(ks)
  OBVIOUS
<1> PICK T : T = Kernel
  OBVIOUS
<1>2. q \in 0..m /\ q \in 0..Len(ks) /\ h \in Seq(T) /\ ks \in Seq(T)
  BY <1>1
<1>3. PICK u \in Seq(T) : u = Onto(h, ks, q)
  BY <1>1, <1>2, OntoIs
<1>4. /\ DOMAIN u = 1 .. n + q /\ \A i \in 1..n : u[i] = h[i]
      /\ \A i \in 1..q : u[n + i] = ks[i]
  <2>1. u = [i \in 1 .. n + q |-> IF i <= n THEN h[i] ELSE ks[i - n]]
    BY <1>1, <1>3 DEF Onto
  <2>2. \A i \in 1..n : i \in 1 .. n + q /\ i <= n
    BY <1>2
  <2>3. \A i \in 1..q : n + i \in 1 .. n + q /\ ~(n + i <= n) /\ (n + i) - n = i
    BY <1>2
  <2>4. \A i \in 1..n : u[i] = h[i]
    BY <2>1, <2>2
  <2>5. \A i \in 1..q : u[n + i] = ks[i]
    BY <2>1, <2>3
  <2> QED
    BY <2>1, <2>4, <2>5
<1>5. CASE r = q
  <2>1. q \in 1..q /\ n + q \in 1 .. n + q
    BY <1>5
  <2>2. u[n + q] = ks[r] /\ n + q \in DOMAIN u
    BY <1>4, <1>5, <2>1
  <2>3. ks[r] \in ToSet(u)
    BY <2>2 DEF ToSet
  <2> QED
    BY <1>3, <1>5, <2>3 DEF Recorded
<1>6. CASE r = q + 1
  <2>1. ASSUME NEW i \in DOMAIN u PROVE u[i] # ks[r]
    <3>1. CASE i \in 1..n
      <4>1. h[i] \in ToSet(h)
        BY <1>1, <3>1 DEF ToSet
      <4> QED
        BY <1>4, <3>1, <4>1
    <3>2. CASE i \notin 1..n
      <4>1. PICK j \in 1..q : i = n + j
        <5>1. i - n \in 1..q /\ i = n + (i - n)
          BY <1>4, <3>2
        <5> QED
          BY <5>1
      <4>2. u[i] = ks[j] /\ j \in 1..Len(ks) /\ j # r
        BY <1>4, <1>6, <4>1
      <4> QED
        BY <4>2
    <3> QED
      BY <3>1, <3>2
  <2>2. ks[r] \notin ToSet(u)
    BY <2>1 DEF ToSet
  <2>3. Recorded(u, ks[r]) = Append(u, ks[r])
    BY <2>2 DEF Recorded
  <2>4. r - 1 = q
    BY <1>6
  <2>5. Onto(h, ks, r) = Append(Onto(h, ks, r - 1), ks[r])
    <3>1. h \in Seq(T) /\ ks \in Seq(T) /\ r \in 1..Len(ks)
      BY <1>2
    <3> QED
      BY <3>1, OntoNext
  <2> QED
    BY <1>3, <2>3, <2>4, <2>5
<1> QED
  BY <1>5, <1>6

\* The replays of a sequence of kernels.
LEMMA RepeatedTyped ==
  ASSUME NEW ks \in Seq(Kernel), NEW p \in Nat \ {0}, NEW m \in Nat, m = Len(ks) * p
  PROVE  /\ Repeated(ks, p) \in Seq(Kernel) /\ Len(Repeated(ks, p)) = m
         /\ Repeated(ks, p) = [j \in 1..m |-> ks[Reached(p, j)]]
         /\ \A j \in 1..m : Repeated(ks, p)[j] = ks[Reached(p, j)]
<1> DEFINE x == Repeated(ks, p)
<1>1. PICK n \in Nat : n = Len(ks)
  OBVIOUS
<1> PICK T : T = Kernel
  OBVIOUS
<1>3. \A j \in 1..m : Reached(p, j) \in 1..n
  BY <1>1, ReachedOneByOne
<1>4. x = [j \in 1..m |-> ks[Reached(p, j)]]
  <2>1. x = [j \in 1..m |-> ks[1 + (j - 1) \div p]]
    BY <1>1 DEF Repeated
  <2>2. \A j \in 1..m : Reached(p, j) = 1 + (j - 1) \div p
    BY DEF Reached
  <2> QED
    BY <2>1, <2>2
<1> HIDE DEF x
<1>5. x \in Seq(T) /\ Len(x) = m /\ \A j \in 1..m : x[j] = ks[Reached(p, j)]
  <2>1. \A j \in 1..m : ks[Reached(p, j)] \in Kernel
    BY <1>1, <1>3
  <2> QED
    BY <1>1, <1>4, <2>1
<1> QED
  BY <1>4, <1>5 DEF x

\* A sequence behind another.
Joined(s, u) == s \o u

\* Kernels that differ, of which none is known yet.
Unknown(ks, h) ==
  /\ \A i \in 1..Len(ks) : ks[i][2] # 0 /\ ks[i] \notin ToSet(h)
  /\ \A i, j \in 1..Len(ks) : ks[i] = ks[j] => i = j

\* The replays of the kernels of a launch: each is known once, in their order.
LEMMA RecordedRepeated ==
  ASSUME NEW known, NEW rs \in Seq(Kernel), NEW h \in Seq(Kernel), RecordedAll(known, rs) = h,
         NEW ks \in Seq(Kernel), NEW p \in Nat \ {0}, Unknown(ks, h),
         NEW all, all = Joined(rs, Repeated(ks, p))
  PROVE  RecordedAll(known, all) = Joined(h, ks)
<1>0. /\ \A i \in 1..Len(ks) : ks[i][2] # 0 /\ ks[i] \notin ToSet(h)
      /\ \A i, j \in 1..Len(ks) : ks[i] = ks[j] => i = j
  BY DEF Unknown
<1> USE <1>0
<1> DEFINE x == Repeated(ks, p)
<1>1. PICK n \in Nat : n = Len(ks)
  OBVIOUS
<1> PICK T : T = Kernel
  OBVIOUS
<1>2. PICK m \in Nat : m = n * p
  OBVIOUS
<1>3. /\ Reached(p, 0) = 0 /\ Reached(p, m) = n
      /\ \A j \in 1..m : /\ Reached(p, j) \in 1..n /\ Reached(p, j - 1) \in Nat
                         /\ Reached(p, j) \in {Reached(p, j - 1), Reached(p, j - 1) + 1}
  BY <1>2, ReachedOneByOne
<1>5. x \in Seq(T) /\ Len(x) = m /\ \A j \in 1..m : x[j] = ks[Reached(p, j)]
  <2>1. p \in Nat \ {0} /\ ks \in Seq(Kernel) /\ m = Len(ks) * p
    BY <1>1, <1>2
  <2>2. x \in Seq(Kernel) /\ Len(x) = m
    BY <2>1, RepeatedTyped
  <2>3. \A j \in 1..m : x[j] = ks[Reached(p, j)]
    BY <2>1, RepeatedTyped
  <2> QED
    BY <2>2, <2>3
<1> HIDE DEF x
<1>6. rs \in Seq(T) /\ h \in Seq(T) /\ ks \in Seq(T) /\ n \in 0..n /\ m \in 0..m
  BY <1>1
<1> DEFINE Good(j) == RecordedAll(known, Onto(rs, x, j)) = Onto(h, ks, Reached(p, j))
           wrong == {j \in 0..m : ~Good(j)}
<1>7. Good(0)
  <2>1. Onto(rs, x, 0) = rs /\ Onto(h, ks, 0) = h
    BY <1>5, <1>6, OntoEnds
  <2> QED
    BY <1>3, <2>1
<1>8. ASSUME NEW j \in 1..m, Good(j - 1) PROVE Good(j)
  <2>1. PICK q \in Nat, r \in 1..n : q = Reached(p, j - 1) /\ r = Reached(p, j)
    BY <1>3
  <2>2. r \in {q, q + 1} /\ r \in 1..Len(ks)
    BY <1>1, <1>3, <2>1
  <2>3. x[j] = ks[r] /\ ks[r] \in T /\ ks[r][2] # 0
    BY <1>1, <1>5, <2>1, <2>2
  <2>4. PICK v \in Seq(T) : v = Onto(rs, x, j - 1)
    <3>1. j - 1 \in 0..Len(x)
      BY <1>5
    <3> QED
      BY <1>5, <1>6, <3>1, OntoIs
  <2>5. Onto(rs, x, j) = Append(v, ks[r])
    <3>1. j \in 1..Len(x)
      BY <1>5
    <3>2. Onto(rs, x, j) = Append(Onto(rs, x, j - 1), x[j])
      BY <1>5, <1>6, <3>1, OntoNext
    <3> QED
      BY <2>3, <2>4, <3>2
  <2>6. RecordedAll(known, v) = Onto(h, ks, q)
    BY <1>8, <2>1, <2>4
  <2>7. RecordedAll(known, Append(v, ks[r])) = Recorded(Onto(h, ks, q), ks[r])
    <3>1. PICK k \in T : k = ks[r]
      BY <2>3
    <3>2. RecordedAll(known, Append(v, k))
            = IF k[2] = 0 THEN RecordedAll(known, v) ELSE Recorded(RecordedAll(known, v), k)
      BY RecordedOne
    <3> QED
      BY <2>3, <2>6, <3>1, <3>2
  <2>8. Recorded(Onto(h, ks, q), ks[r]) = Onto(h, ks, r)
    <3>1. \A i \in 1..Len(ks) : ks[i] \notin ToSet(h)
      OBVIOUS
    <3> QED
      BY <2>2, <3>1, KernelRecorded
  <2> QED
    BY <2>1, <2>5, <2>7, <2>8
<1> HIDE DEF Good
<1>9. ASSUME wrong # {} PROVE FALSE
  <2>1. PICK j \in wrong : \A i \in wrong : j <= i
    <3> HIDE DEF wrong
    <3>1. wrong \in SUBSET Nat
      BY DEF wrong
    <3> QED
      BY <1>9, <3>1, SmallestIn
  <2>2. j # 0 /\ j \in 0..m
    BY <1>7, <2>1
  <2>3. j \in 1..m /\ j - 1 \in 0..m /\ ~(j <= j - 1)
    BY <2>2
  <2>4. Good(j - 1)
    BY <2>1, <2>3
  <2> QED
    BY <1>8, <2>1, <2>3, <2>4
<1>10. Good(m)
  BY <1>9
<1>11. Onto(rs, x, m) = rs \o x /\ Onto(h, ks, n) = h \o ks
  BY <1>1, <1>5, <1>6, OntoEnds
<1>12. RecordedAll(known, rs \o x) = h \o ks
  BY <1>3, <1>10, <1>11 DEF Good
<1> QED
  BY <1>12 DEF x, Joined

----------------------------------------------------------------------------
(* Types.                                                                   *)

RequestType == [backend : {"nvidia", "cupti"}, metrics : SUBSET STRING, pc : BOOLEAN]
SwitchType == [pc : BOOLEAN, optional : BOOLEAN, unavailable : BOOLEAN, capture : BOOLEAN,
               memory : BOOLEAN, memoryOn : BOOLEAN]
CounterType == [configured : BOOLEAN, active : BOOLEAN, held : SUBSET CuptiObjects,
                context : Contexts \cup {Absent}, kernelEvents : Seq(Kernel)]
SamplerType == [started : BOOLEAN, initialized : SUBSET Contexts]
CuptiType == [subscribed : BOOLEAN, activities : SUBSET (KernelKinds \cup MemoryKinds),
              callbacks : SUBSET {"resource", "graph", "runtime", "driver"},
              enabled : SUBSET Contexts, sampling : SUBSET Contexts, sampled : Seq(Kernel)]
Objects == CuptiObjects \cup NvpwObjects
NvpwType == [objects : SUBSET Objects, ranges : Seq(Kernel)]
BufferType == [total : Seq(Kernel), remaining : Seq(Kernel)]
ProcessingType == [thread : Threads, firstRound : BOOLEAN]
EventType == [kind : {"kernel", "memory", "pcsampling", "hardware_counter"},
              scope : Launches \cup {Absent}, kernel : Kernel \cup {Absent},
              of : Kernel]
RunningType == [kernel : Kernel, observed : BOOLEAN]
SessionType == [launched : SUBSET Kernel, exited : BOOLEAN, copied : BOOLEAN,
                due : SUBSET Kernel, based : SUBSET Kernel, blind : BOOLEAN,
                alone : BOOLEAN]
PastType == [subscribers : Nat, starts : Nat, refusals : Nat, started : SUBSET Launches,
             overlaps : SUBSET SUBSET Launches, handed : SUBSET Kernel,
             kept : SUBSET Objects, stranded : BOOLEAN, pcRefused : BOOLEAN,
             switchedOff : BOOLEAN, late : SUBSET Launches, session : SessionType]

TypedControl ==
  /\ phase \in {"idle", "made", "running", "flushing", "flushed", "stopped"}
  /\ phase # "idle" => request \in RequestType
  /\ caller \in Contexts \cup {Absent}
  /\ switches \in SwitchType /\ aborted \in BOOLEAN
TypedCounters == counters \in CounterType /\ nvpw \in NvpwType
TypedSampling ==
  /\ sampler \in SamplerType /\ cupti \in CuptiType /\ buffer \in BufferType
TypedCalls ==
  /\ call \in [Threads -> Underway \cup {Absent}]
  /\ processing # Absent =>
       /\ processing \in ProcessingType
       /\ call[processing.thread] \in Underway /\ call[processing.thread].at = "processing"
TypedEvents ==
  /\ DOMAIN vendorEvents \subseteq EventType
  /\ vendorEvents \in [DOMAIN vendorEvents -> Nat \ {0}]
  /\ artifact # Absent => artifact.events \subseteq EventType
TypedRecords ==
  /\ running \in SUBSET RunningType /\ IsFiniteSet(running) /\ records \in Seq(Kernel)
TypedPast == past \in PastType

Typed ==
  /\ TypedControl /\ TypedCounters /\ TypedSampling /\ TypedCalls /\ TypedEvents
  /\ TypedRecords /\ TypedPast

\* A finite set in a sequence, in any order.
LEMMA SequenceOfSet ==
  ASSUME NEW K, IsFiniteSet(K)
  PROVE  /\ SetToSeq(K) \in Seq(K) /\ ToSet(SetToSeq(K)) = K
         /\ \A i, j \in 1..Len(SetToSeq(K)) : SetToSeq(K)[i] = SetToSeq(K)[j] => i = j
         /\ K = {} => SetToSeq(K) = <<>>
<1> DEFINE n == Cardinality(K)
           s == SetToSeq(K)
<1>1. n \in Nat /\ ExistsBijection(1..n, K)
  BY FS_CardinalityType
<1>2. IsFiniteSet(1..n) /\ Cardinality(1..n) = n
  <2>1. IsFiniteSet(1..n) /\ Cardinality(1..n) = IF n < 1 THEN 0 ELSE n - 1 + 1
    BY <1>1, FS_Interval
  <2> QED
    BY <1>1, <2>1
<1>3. K = {} => n = 0
  BY FS_EmptySet
<1> HIDE DEF n
<1>4. \E f \in [1..n -> K] : IsInjective(f)
  BY <1>1 DEF ExistsBijection, Bijection, Injection, IsInjective
<1>5. s \in [1..n -> K] /\ IsInjective(s)
  BY <1>4 DEF SetToSeq, n
<1> HIDE DEF s
<1>6. s \in Injection(1..n, K)
  BY <1>5 DEF Injection, IsInjective
<1>7. s \in Surjection(1..n, K)
  BY <1>2, <1>6, FS_Injection DEF n
<1>8. s \in Seq(K) /\ DOMAIN s = 1..n /\ Len(s) = n
  BY <1>1, <1>5
<1>9. ToSet(s) = K
  BY <1>5, <1>7, <1>8 DEF ToSet, Surjection
<1>10. \A i, j \in 1..Len(s) : s[i] = s[j] => i = j
  BY <1>5, <1>8 DEF IsInjective
<1>11. K = {} => s = <<>>
  BY <1>3, <1>8
<1> QED
  BY <1>8, <1>9, <1>10, <1>11 DEF s

\* The records of kernels that run.
LEMMA RecordsOfTyped ==
  ASSUME NEW K \in SUBSET RunningType, IsFiniteSet(K)
  PROVE  /\ RecordsOf(K) \in Seq(Kernel)
         /\ ToSet(RecordsOf(K)) = {k.kernel : k \in {x \in K : x.observed}}
         /\ K = {} => RecordsOf(K) = <<>>
<1> DEFINE O == {x \in K : x.observed}
           R == {k.kernel : k \in O}
<1>1. IsFiniteSet(O)
  BY FS_Subset
<1>2. IsFiniteSet(R)
  <2> DEFINE f == [k \in O |-> k.kernel]
  <2>1. f \in Surjection(O, R)
    BY DEF Surjection
  <2> QED
    BY <1>1, <2>1, FS_Surjection
<1>3. R \subseteq Kernel /\ (K = {} => R = {})
  BY DEF RunningType
<1>4. RecordsOf(K) = SetToSeq(R)
  BY DEF RecordsOf
<1> HIDE DEF R
<1>5. SetToSeq(R) \in Seq(R) /\ ToSet(SetToSeq(R)) = R /\ (R = {} => SetToSeq(R) = <<>>)
  BY <1>2, SequenceOfSet
<1>6. SetToSeq(R) \in Seq(Kernel)
  BY <1>3, <1>5, SeqMonotonic
<1> QED
  BY <1>3, <1>4, <1>5, <1>6 DEF R

\* The kernels of a launch are different, and no copies.
LEMMA KernelsTyped ==
  ASSUME NEW l \in Launches
  PROVE  /\ Kernels(l) \in Seq(Kernel) /\ Len(Kernels(l)) = Nodes[l]
         /\ \A i \in 1..Len(Kernels(l)) : Kernels(l)[i] = <<l, i>>
         /\ ToSet(Kernels(l)) \subseteq Kernel /\ IsFiniteSet(ToSet(Kernels(l)))
         /\ \A k \in ToSet(Kernels(l)) : k[1] = l /\ k[2] # 0
         /\ Copy(l) \in Kernel /\ Copy(l)[1] = l /\ Copy(l)[2] = 0
<1>1. PICK n \in Nat : n = Nodes[l]
  BY NvidiaAssumption
<1>2. Kernels(l) = [i \in 1..n |-> <<l, i>>]
  BY <1>1 DEF Kernels
<1>3. \A i \in 1..n : <<l, i>> \in Kernel
  BY DEF Kernel
<1>4. Kernels(l) \in Seq(Kernel) /\ Len(Kernels(l)) = n /\ DOMAIN Kernels(l) = 1..n
  BY <1>2, <1>3
<1>5. \A i \in 1..n : Kernels(l)[i] = <<l, i>>
  BY <1>2
<1>6. ToSet(Kernels(l)) = {<<l, i>> : i \in 1..n}
  BY <1>4, <1>5 DEF ToSet
<1>7. IsFiniteSet({<<l, i>> : i \in 1..n})
  <2>1. IsFiniteSet(1..n)
    BY FS_Interval
  <2> DEFINE S == {<<l, i>> : i \in 1..n}
             f == [i \in 1..n |-> <<l, i>>]
  <2>2. f \in Surjection(1..n, S)
    BY DEF Surjection
  <2> QED
    BY <2>1, <2>2, FS_Surjection
<1>8. \A k \in ToSet(Kernels(l)) : k[1] = l /\ k[2] # 0
  BY <1>6
<1>9. Copy(l) \in Kernel /\ Copy(l)[1] = l /\ Copy(l)[2] = 0
  BY DEF Copy, Kernel
<1> QED
  BY <1>1, <1>3, <1>4, <1>5, <1>6, <1>7, <1>8, <1>9

\* The first elements of a sequence.
LEMMA WithinTyped ==
  ASSUME NEW T, NEW s \in Seq(T), NEW n \in Nat
  PROVE  /\ Within(s, n) \in Seq(T) /\ Len(Within(s, n)) \in 0..Len(s)
         /\ Len(Within(s, n)) <= n
         /\ \A i \in 1..Len(Within(s, n)) : Within(s, n)[i] = s[i]
<1> DEFINE m == IF Len(s) < n THEN Len(s) ELSE n
<1>1. m \in 0..Len(s) /\ m <= n
  OBVIOUS
<1> HIDE DEF m
<1>2. SubSeq(s, 1, m) \in Seq(T) /\ Len(SubSeq(s, 1, m)) = m
      /\ \A i \in 1..m : SubSeq(s, 1, m)[i] = s[i]
  <2>1. \A i \in 1..m : s[i] \in T
    BY <1>1
  <2> QED
    BY <1>1
<1> QED
  BY <1>1, <1>2 DEF Within, m

\* What a bag of events holds after some more.
LEMMA MoreEvents ==
  ASSUME NEW B, B \in [DOMAIN B -> Nat \ {0}], NEW S
  PROVE  /\ DOMAIN (B (+) SetToBag(S)) = DOMAIN B \cup S
         /\ B (+) SetToBag(S) \in [DOMAIN B \cup S -> Nat \ {0}]
         /\ \A e \in DOMAIN B \ S : (B (+) SetToBag(S))[e] = B[e]
         /\ \A e \in S \ DOMAIN B : (B (+) SetToBag(S))[e] = 1
  BY DEF (+), SetToBag, BagToSet

\* The first state is typed.
LEMMA InitTyped ==
  ASSUME Init
  PROVE  Typed
<1>1. TypedControl
  BY DEF Init, TypedControl, SwitchType
<1>2. TypedCounters
  BY DEF Init, TypedCounters, CounterType, NvpwType
<1>3. TypedSampling
  BY DEF Init, TypedSampling, SamplerType, CuptiType, Fresh, BufferType, Empty
<1>4. TypedCalls
  BY DEF Init, TypedCalls
<1>5. TypedEvents
  BY DEF Init, TypedEvents, EmptyBag, SetToBag
<1>6. TypedRecords
  BY FS_EmptySet DEF Init, TypedRecords
<1>7. TypedPast
  <2>1. Session0 \in SessionType
    BY DEF Session0, SessionType
  <2> QED
    BY <2>1 DEF Init, TypedPast, PastType
<1> QED
  BY <1>1, <1>2, <1>3, <1>4, <1>5, <1>6, <1>7 DEF Typed

\* The switches and counters a request configures.
LEMMA ConfigureTyped ==
  ASSUME Typed, NEW r \in RequestType, Configure(r),
         counters' = IF r.backend = "nvidia" THEN ConfiguredCounters(r) ELSE counters,
         UNCHANGED nvpw,
         reasons' = IF r.backend = "nvidia" THEN {} ELSE reasons,
         artifact' \in {artifact, Absent}
  PROVE  switches' \in SwitchType /\ TypedCounters' /\ TypedEvents'
<1>1. switches' \in SwitchType
  <2>1. switches \in SwitchType
    BY DEF Typed, TypedControl
  <2>2. CASE r.backend = "nvidia"
    <3>1. Samples(r) \in BOOLEAN
      BY DEF Samples, Counts, RequestType
    <3>2. PICK a \in BOOLEAN : a = Samples(r)
      BY <3>1
    <3>4. PICK b \in BOOLEAN : b = (Enabled(r) # {})
      <4>1. (Enabled(r) # {}) \in BOOLEAN
        OBVIOUS
      <4> QED
        BY <4>1, Zenon
    <3>5. PICK d \in BOOLEAN : d = ("memory" \in Enabled(r))
      <4>1. ("memory" \in Enabled(r)) \in BOOLEAN
        OBVIOUS
      <4> QED
        BY <4>1, Zenon
    <3>3. switches' = [switches EXCEPT !.pc = a, !.optional = a, !.unavailable = FALSE,
                                       !.capture = b, !.memory = d]
      BY <2>2, <3>2, <3>4, <3>5 DEF Configure, Configured
    <3> QED
      BY <2>1, <3>3 DEF SwitchType
  <2>3. CASE r.backend # "nvidia"
    <3>1. PICK a \in BOOLEAN : a = (switches.pc \/ r.pc)
      BY <2>1 DEF SwitchType, RequestType
    <3>2. switches' = [switches EXCEPT !.pc = a]
      BY <2>3, <3>1 DEF Configure
    <3> QED
      BY <2>1, <3>1, <3>2 DEF SwitchType
  <2> QED
    BY <2>2, <2>3
<1>2. TypedCounters'
  <2>1. counters \in CounterType /\ nvpw \in NvpwType
    BY DEF Typed, TypedCounters
  <2>2. PICK a \in BOOLEAN : a = Counts(r)
    BY DEF Counts
  <2>3. ConfiguredCounters(r) = [counters EXCEPT !.configured = a, !.active = FALSE,
                                                 !.kernelEvents = <<>>]
    BY <2>2 DEF ConfiguredCounters
  <2>4. ConfiguredCounters(r) \in CounterType
    <3>1. PICK s \in Seq(Kernel) : s = <<>>
      BY EmptySeq
    <3>2. ConfiguredCounters(r) = [counters EXCEPT !.configured = a, !.active = FALSE,
                                                   !.kernelEvents = s]
      BY <2>3, <3>1
    <3> QED
      BY <2>1, <3>2 DEF CounterType
  <2> QED
    BY <2>1, <2>4 DEF TypedCounters
<1>3. TypedEvents'
  BY DEF Typed, TypedEvents, Configure, EmptyBag, SetToBag
<1> QED
  BY <1>1, <1>2, <1>3

\* What start makes of the counters.
LEMMA CountersStartTyped ==
  ASSUME TypedCounters, NEW c \in Contexts \cup {Absent}, NEW n, NEW kept,
         CountersStart(c, n, kept)
  PROVE  TypedCounters'
<1>1. Begun(n) \subseteq CuptiObjects
  BY DEF Begun
<1>2. Alive(n) \subseteq NvpwObjects
  BY DEF Alive
<1>3. counters.held \subseteq CuptiObjects /\ nvpw.objects \subseteq Objects
  BY DEF TypedCounters, CounterType, NvpwType
<1>4. counters \in CounterType /\ nvpw \in NvpwType
  BY DEF TypedCounters
<1> DEFINE held == counters.held \cup Begun(n)
           base == [counters EXCEPT !.active = FALSE, !.kernelEvents = <<>>]
<1>5. base \in CounterType /\ held \subseteq CuptiObjects
  <2>1. PICK s \in Seq(Kernel) : s = <<>>
    BY EmptySeq
  <2>2. base = [counters EXCEPT !.active = FALSE, !.kernelEvents = s]
    BY <2>1
  <2>3. base \in CounterType
    BY <1>4, <2>2 DEF CounterType
  <2> QED
    BY <1>1, <1>3, <2>3
<1>6. CASE ~counters.configured \/ c = Absent
  BY <1>4, <1>5, <1>6 DEF CountersStart, TypedCounters
<1>7. CASE ~(~counters.configured \/ c = Absent) /\ n = Success
  <2>1. /\ counters' = [base EXCEPT !.held = held, !.context = c, !.active = TRUE]
        /\ nvpw' = [objects |-> nvpw.objects \cup Begun(n), ranges |-> <<>>]
    BY <1>7 DEF CountersStart
  <2> HIDE DEF base, held
  <2>2. counters' \in CounterType
    BY <1>5, <2>1 DEF CounterType
  <2>3. nvpw' \in NvpwType
    BY <1>1, <1>3, <2>1 DEF NvpwType, Objects
  <2> QED
    BY <2>2, <2>3 DEF TypedCounters
<1>8. CASE ~(~counters.configured \/ c = Absent) /\ n # Success
  <2>1. /\ counters' = Ended([base EXCEPT !.context = c])
        /\ nvpw' = [nvpw EXCEPT !.objects =
                       ((@ \cup Begun(n) \cup Alive(n)) \ Caught(n)) \ (held \ kept)]
    BY <1>8 DEF CountersStart
  <2> HIDE DEF base, held
  <2>2. counters' \in CounterType
    <3>1. [base EXCEPT !.context = c] \in CounterType
      BY <1>5 DEF CounterType
    <3>2. PICK d \in CounterType : d = [base EXCEPT !.context = c]
      BY <3>1
    <3> QED
      BY <2>1, <3>2 DEF CounterType, Ended
  <2>3. nvpw' \in NvpwType
    <3>1. PICK O \in SUBSET Objects :
            O = ((nvpw.objects \cup Begun(n) \cup Alive(n)) \ Caught(n)) \ (held \ kept)
      BY <1>1, <1>2, <1>3 DEF Objects
    <3>2. nvpw' = [nvpw EXCEPT !.objects = O]
      BY <2>1, <3>1
    <3> QED
      BY <1>4, <3>2 DEF NvpwType
  <2> QED
    BY <2>2, <2>3 DEF TypedCounters
<1> QED
  BY <1>6, <1>7, <1>8

\* More vendor events, if they are captured.
LEMMA CapturedTyped ==
  ASSUME TypedEvents, NEW events \in SUBSET EventType
  PROVE  /\ DOMAIN Captured(events) \subseteq EventType
         /\ Captured(events) \in [DOMAIN Captured(events) -> Nat \ {0}]
         /\ DOMAIN Captured(events)
              = DOMAIN vendorEvents \cup (IF switches.capture THEN events ELSE {})
<1>1. PICK S \in SUBSET EventType : S = IF switches.capture THEN events ELSE {}
  OBVIOUS
<1>2. Captured(events) = vendorEvents (+) SetToBag(S)
  BY <1>1 DEF Captured
<1>3. /\ DOMAIN (vendorEvents (+) SetToBag(S)) = DOMAIN vendorEvents \cup S
      /\ vendorEvents (+) SetToBag(S) \in [DOMAIN vendorEvents \cup S -> Nat \ {0}]
  BY MoreEvents DEF TypedEvents
<1> QED
  BY <1>1, <1>2, <1>3 DEF TypedEvents

\* An exception of the sampling.
LEMMA RefusedTyped ==
  ASSUME Typed, NEW p \in PastType, NEW c \in Contexts, NEW swap \in Swaps,
         NEW left \in SUBSET Contexts, NEW cost \in Nat, Refused(p, c, swap, left, cost)
  PROVE  /\ switches' \in SwitchType /\ sampler' \in SamplerType /\ cupti' \in CuptiType
         /\ aborted' \in BOOLEAN /\ TypedPast'
<1>1. Swapped(swap) \subseteq KernelKinds \cup MemoryKinds
  BY DEF Typed, TypedSampling, CuptiType, Swapped, Swaps, KernelKinds
<1>2. switches' \in SwitchType
  BY DEF Typed, TypedControl, SwitchType, Refused, FallsBack
<1>3. sampler' \in SamplerType
  BY DEF Typed, TypedSampling, SamplerType, Refused, FallsBack
<1>4. cupti' \in CuptiType
  <2>1. cupti \in CuptiType
    BY DEF Typed, TypedSampling
  <2>2. CASE switches.optional
    <3>1. PICK K \in SUBSET Contexts : K = IF c \in sampler.initialized THEN {c} ELSE {}
      OBVIOUS
    <3>2. PICK A \in SUBSET (KernelKinds \cup MemoryKinds) : A = Swapped(swap)
      BY <1>1
    <3>3. cupti' = [cupti EXCEPT !.enabled = (@ \ K) \cup left, !.sampling = @ \ K,
                                 !.activities = A]
      BY <2>2, <3>1, <3>2 DEF Refused, FallsBack
    <3> QED
      BY <2>1, <3>3 DEF CuptiType
  <2>3. CASE ~switches.optional
    BY <2>1, <2>3 DEF Refused
  <2> QED
    BY <2>2, <2>3
<1>5. aborted' \in BOOLEAN
  BY DEF Typed, TypedControl, TypedEvents, Refused, FallsBack
<1>6. TypedPast'
  <2>1. Cost(swap) \in Nat
    BY DEF Cost
  <2>2. p.session \in SessionType /\ p.refusals + cost + Cost(swap) \in Nat
    BY <2>1 DEF PastType
  <2>3. past' = [p EXCEPT !.refusals = @ + cost + Cost(swap), !.pcRefused = TRUE,
                          !.session.blind = @ \/ swap = "disabled"]
    BY DEF Refused
  <2>4. PICK d \in Nat : d = p.refusals + cost + Cost(swap)
    BY <2>2
  <2>5. past' \in PastType
    BY <2>2, <2>3, <2>4 DEF PastType, SessionType
  <2> QED
    BY <2>5 DEF TypedPast
<1> QED
  BY <1>2, <1>3, <1>4, <1>5, <1>6

\* makeSession leaves a typed state.
LEMMA MakeSessionTyped ==
  ASSUME Typed, NEW r \in RequestType, MakeSession(r)
  PROVE  Typed'
<1>1. switches' \in SwitchType /\ TypedCounters' /\ TypedEvents'
  BY ConfigureTyped DEF MakeSession
<1>2. TypedControl'
  BY <1>1 DEF Typed, TypedControl, MakeSession
<1>3. TypedSampling' /\ TypedCalls' /\ TypedRecords'
  BY DEF Typed, TypedSampling, TypedCalls, TypedRecords, MakeSession
<1>4. TypedPast'
  <2>1. PICK a \in BOOLEAN : a = (running = {} /\ records = <<>>)
    OBVIOUS
  <2>2. PICK S \in SessionType : S = [Session0 EXCEPT !.alone = a]
    BY DEF Session0, SessionType
  <2>3. past \in PastType /\ counters.active \in BOOLEAN /\ past.stranded \in BOOLEAN
    BY DEF Typed, TypedPast, TypedCounters, CounterType, PastType
  <2>4. PICK b \in BOOLEAN : b = (past.stranded \/ (r.backend = "nvidia" /\ counters.active))
    BY <2>3
  <2>6. PICK i \in Nat : i = past.starts + 1
    BY <2>3 DEF PastType
  <2>5. past' = [past EXCEPT !.starts = i, !.session = S, !.stranded = b]
    BY <2>1, <2>2, <2>4, <2>6 DEF MakeSession
  <2> QED
    BY <2>3, <2>5 DEF TypedPast, PastType
<1> QED
  BY <1>1, <1>2, <1>3, <1>4 DEF Typed

\* So does a start that is rejected.
LEMMA RejectedStartTyped ==
  ASSUME Typed, NEW r \in RequestType, RejectedStart(r)
  PROVE  Typed'
<1>1. switches' \in SwitchType /\ TypedCounters' /\ TypedEvents'
  BY ConfigureTyped DEF RejectedStart
<1>2. TypedControl'
  BY <1>1 DEF Typed, TypedControl, RejectedStart
<1>3. TypedSampling' /\ TypedCalls' /\ TypedRecords'
  BY DEF Typed, TypedSampling, TypedCalls, TypedRecords, RejectedStart
<1>4. TypedPast'
  <2>1. /\ past \in PastType /\ past.stranded \in BOOLEAN /\ past.switchedOff \in BOOLEAN
        /\ counters.active \in BOOLEAN /\ switches.pc \in BOOLEAN /\ switches'.pc \in BOOLEAN
    BY <1>1 DEF Typed, TypedControl, TypedCounters, TypedPast, PastType, CounterType, SwitchType
  <2>2. PICK a \in BOOLEAN, b \in BOOLEAN :
          /\ a = (past.stranded \/ (r.backend = "nvidia" /\ counters.active))
          /\ b = (past.switchedOff \/ (switches.pc /\ ~switches'.pc))
    BY <2>1
  <2>4. PICK i \in Nat : i = past.starts + 1
    BY <2>1 DEF PastType
  <2>3. past' = [past EXCEPT !.starts = i, !.stranded = a, !.switchedOff = b]
    BY <2>2, <2>4 DEF RejectedStart
  <2> QED
    BY <2>1, <2>3 DEF TypedPast, PastType
<1> QED
  BY <1>1, <1>2, <1>3, <1>4 DEF Typed

\* What CUPTI keeps is at most one object.
LEMMA KeptTyped ==
  ASSUME NEW S, NEW kept \in Kept(S)
  PROVE  kept \subseteq S /\ Cardinality(kept) \in Nat
<1>1. kept = {} \/ \E o \in S : kept = {o}
  BY DEF Kept
<1>2. IsFiniteSet(kept)
  BY <1>1, FS_EmptySet, FS_Singleton
<1> QED
  BY <1>1, <1>2, FS_CardinalityType

\* What a start that reaches some of its calls does.
StartsAs(c, n, kept, on, A, C, d) ==
  /\ IF on THEN ~cupti.subscribed /\ CountersStart(c, n, kept)
           ELSE n = Success /\ kept = {} /\ UNCHANGED <<counters, nvpw>>
  /\ cupti' = [cupti EXCEPT !.subscribed = (@ \/ on), !.activities = @ \cup A,
                            !.callbacks = @ \cup C]
  /\ switches' = IF on THEN [switches EXCEPT !.memoryOn = MemoryOn] ELSE switches
  /\ phase' \in {"idle", "running"}
  /\ phase' = "running" =>
       /\ on /\ KernelKind \in A /\ (MemoryOn => MemoryKinds \subseteq A)
       /\ Groups \subseteq C \/ "callbacks" \in reasons'
       /\ CountersRefused(c, n) => "counters" \in reasons'
  /\ reasons \subseteq reasons'
  /\ past' = [past EXCEPT !.subscribers = @ + (IF on THEN 1 ELSE 0), !.refusals = @ + d,
                !.kept = @ \cup kept \cup {o \in NvpwObjects : Destroy(o) = n},
                !.stranded = (@ \/ phase' = "idle")]
  /\ UNCHANGED <<request, caller, sampler, buffer, processing, vendorEvents, call, running,
                 records, aborted, artifact>>

\* A start, successful or refused, is StartsAs with one choice of every value it leaves.
LEMMA StartIs ==
  ASSUME Start
  PROVE  /\ phase = "made" /\ ~aborted
         /\ \E c \in Contexts \cup {Absent}, n \in {Success} \cup DOMAIN Setup,
               kept \in SUBSET CuptiObjects, on \in BOOLEAN,
               A \in SUBSET (KernelKinds \cup MemoryKinds),
               C \in SUBSET {"resource", "graph", "runtime", "driver"}, d \in Nat :
              StartsAs(c, n, kept, on, A, C, d)
<1>1. PICK c \in Callers \cup {Absent}, failed \in {"none", "subscribe", "memory", "kernel", "callbacks"},
           skipped \in Kept({"graph", "driver"}), n \in {Success} \cup {i \in DOMAIN Setup : Setup[i] \in Refusable},
           kept \in Kept(CuptiObjects) : DoStart(c, failed, skipped, n, kept)
  BY DEF Start
<1>2. c \in Contexts \cup {Absent} /\ n \in {Success} \cup DOMAIN Setup
  BY NvidiaAssumption
<1>3. kept \subseteq CuptiObjects /\ Cardinality(kept) \in Nat
  BY KeptTyped
<1> DEFINE at == [none |-> 5, subscribe |-> 1, memory |-> 2, kernel |-> 3, callbacks |-> 4]
<1>4. PICK f \in 1..5 : f = at[failed] /\ (failed # "none" <=> f < 5)
  OBVIOUS
<1>5. PICK on \in BOOLEAN, r2 \in BOOLEAN, r3 \in BOOLEAN, r4 \in BOOLEAN :
        /\ on = (~cupti.subscribed /\ f > 1) /\ r2 = (~cupti.subscribed /\ f > 2)
        /\ r3 = (~cupti.subscribed /\ f > 3) /\ r4 = (~cupti.subscribed /\ f > 4)
  OBVIOUS
<1>6. PICK A \in SUBSET (KernelKinds \cup MemoryKinds) :
        A = (IF r2 /\ MemoryOn THEN MemoryKinds ELSE {}) \cup (IF r3 THEN {KernelKind} ELSE {})
  BY DEF KernelKind, KernelKinds
<1>7. PICK C \in SUBSET {"resource", "graph", "runtime", "driver"} :
        C = (IF r2 /\ switches.pc THEN {"resource"} ELSE {})
            \cup (IF r4 THEN Groups \ skipped ELSE {})
  BY DEF Groups
<1>8. PICK d \in Nat :
        d = (IF failed # "none" THEN 1 ELSE 0) + (IF skipped # {} THEN 1 ELSE 0)
            + (IF CountersRefused(c, n) /\ c # Absent THEN 1 ELSE 0) + Cardinality(kept)
  BY <1>3
<1> HIDE DEF at
<1>9. IF on THEN ~cupti.subscribed /\ CountersStart(c, n, kept)
            ELSE n = Success /\ kept = {} /\ UNCHANGED <<counters, nvpw>>
  BY <1>1, <1>4, <1>5 DEF DoStart, at
<1>10. cupti' = [cupti EXCEPT !.subscribed = (@ \/ on), !.activities = @ \cup A,
                             !.callbacks = @ \cup C]
  BY <1>1, <1>4, <1>5, <1>6, <1>7 DEF DoStart, at
<1>11. switches' = IF on THEN [switches EXCEPT !.memoryOn = MemoryOn] ELSE switches
  BY <1>1, <1>4, <1>5 DEF DoStart, at
<1>12. phase' = IF cupti.subscribed \/ failed # "none" THEN "idle" ELSE "running"
  BY <1>1 DEF DoStart
<1>13. past' = [past EXCEPT !.subscribers = @ + (IF on THEN 1 ELSE 0), !.refusals = @ + d,
                 !.kept = @ \cup kept \cup {o \in NvpwObjects : Destroy(o) = n},
                 !.stranded = (@ \/ phase' = "idle")]
  BY <1>1, <1>4, <1>5, <1>8, <1>12 DEF DoStart, at
<1>14. UNCHANGED <<request, caller, sampler, buffer, processing, vendorEvents, call, running,
                  records, aborted, artifact>>
  BY <1>1 DEF DoStart
<1>15. reasons' = reasons
          \cup (IF on /\ CountersRefused(c, n) THEN {"counters"} ELSE {})
          \cup (IF skipped # {} THEN {"callbacks"} ELSE {})
  BY <1>1, <1>4, <1>5 DEF DoStart, at
<1>16. phase' \in {"idle", "running"} /\ reasons \subseteq reasons'
  BY <1>12, <1>15
<1>17. phase' = "running" =>
         /\ on /\ KernelKind \in A /\ (MemoryOn => MemoryKinds \subseteq A)
         /\ Groups \subseteq C \/ "callbacks" \in reasons'
         /\ CountersRefused(c, n) => "counters" \in reasons'
  <2>1. ASSUME phase' = "running" PROVE on /\ r2 /\ r3 /\ r4
    <3>1. f = 5 /\ ~cupti.subscribed
      BY <1>4, <1>12, <2>1
    <3>2. (~cupti.subscribed /\ f > 1) /\ (~cupti.subscribed /\ f > 2)
          /\ (~cupti.subscribed /\ f > 3) /\ (~cupti.subscribed /\ f > 4)
      BY <3>1
    <3> QED
      BY <1>5, <3>2, Zenon
  <2>2. skipped = {} => (r4 => Groups \subseteq C)
    BY <1>7
  <2> QED
    BY <1>6, <1>15, <2>1, <2>2
<1>18. StartsAs(c, n, kept, on, A, C, d)
  BY <1>9, <1>10, <1>11, <1>13, <1>14, <1>16, <1>17 DEF StartsAs
<1> QED
  BY <1>2, <1>3, <1>18 DEF Start

\* A start leaves a typed state.
LEMMA StartTyped ==
  ASSUME Typed, Start
  PROVE  Typed'
<1>1. PICK c \in Contexts \cup {Absent}, n \in {Success} \cup DOMAIN Setup,
           kept \in SUBSET CuptiObjects, on \in BOOLEAN,
           A \in SUBSET (KernelKinds \cup MemoryKinds),
           C \in SUBSET {"resource", "graph", "runtime", "driver"}, d \in Nat :
        StartsAs(c, n, kept, on, A, C, d)
  BY StartIs
<1>2. phase = "made"
  BY StartIs
<1>3. TypedControl'
  <2>1. switches \in SwitchType
    BY DEF Typed, TypedControl
  <2>2. MemoryOn \in BOOLEAN
    BY <2>1 DEF MemoryOn, SwitchType
  <2>3. PICK a \in BOOLEAN : a = MemoryOn
    BY <2>2
  <2>4. switches' \in {switches, [switches EXCEPT !.memoryOn = a]}
    BY <1>1, <2>3 DEF StartsAs
  <2>5. switches' \in SwitchType
    BY <2>1, <2>4 DEF SwitchType
  <2> QED
    BY <1>1, <1>2, <2>5 DEF Typed, TypedControl, StartsAs
<1>4. TypedCounters'
  <2>1. CASE CountersStart(c, n, kept)
    BY <2>1, CountersStartTyped DEF Typed
  <2>2. CASE UNCHANGED <<counters, nvpw>>
    BY <2>2 DEF Typed, TypedCounters
  <2> QED
    BY <1>1, <2>1, <2>2 DEF StartsAs
<1>5. TypedSampling'
  <2>1. sampler' \in SamplerType /\ buffer' \in BufferType /\ cupti \in CuptiType
    BY <1>1 DEF StartsAs, Typed, TypedSampling
  <2>2. PICK a \in BOOLEAN : a = (cupti.subscribed \/ on)
    BY <2>1 DEF CuptiType
  <2>3. cupti' = [cupti EXCEPT !.subscribed = a, !.activities = @ \cup A, !.callbacks = @ \cup C]
    BY <1>1, <2>2 DEF StartsAs
  <2>4. cupti' \in CuptiType
    BY <2>1, <2>3 DEF CuptiType
  <2> QED
    BY <2>1, <2>4 DEF TypedSampling
<1>6. TypedCalls' /\ TypedRecords' /\ TypedEvents'
  BY <1>1 DEF Typed, TypedCalls, TypedRecords, TypedEvents, StartsAs
<1>7. TypedPast'
  <2>1. past \in PastType /\ past.stranded \in BOOLEAN
    BY DEF Typed, TypedPast, PastType
  <2>2. PICK a \in BOOLEAN : a = (past.stranded \/ phase' = "idle")
    BY <2>1
  <2>3. PICK i \in Nat, j \in Nat : i = past.subscribers + (IF on THEN 1 ELSE 0)
                                    /\ j = past.refusals + d
    BY <2>1 DEF PastType
  <2>4. PICK O \in SUBSET Objects :
          O = past.kept \cup kept \cup {o \in NvpwObjects : Destroy(o) = n}
    BY <2>1 DEF PastType, Objects
  <2>5. past' = [past EXCEPT !.subscribers = i, !.refusals = j, !.kept = O, !.stranded = a]
    BY <1>1, <2>2, <2>3, <2>4 DEF StartsAs
  <2> QED
    BY <2>1, <2>5 DEF TypedPast, PastType
<1> QED
  BY <1>3, <1>4, <1>5, <1>6, <1>7 DEF Typed

\* A launch that begins, in its own thread.
LEMMA EnteredTyped ==
  ASSUME Typed, NEW l \in Launches, Entered(ThreadOf[l], l)
  PROVE  /\ ThreadOf[l] \in Threads /\ ContextOf[l] \in Contexts
         /\ phase = "running" /\ ~aborted /\ call[ThreadOf[l]] = Absent
         /\ l \notin past.started
         /\ \E u \in Underway : /\ u.launch = l /\ u.at = "entered"
                                /\ u.heard = (IF Hears THEN past.subscribers ELSE 0)
                                /\ call' = [call EXCEPT ![ThreadOf[l]] = u]
         /\ processing' = processing => TypedCalls'
         /\ Begins(past, l) \in PastType
<1> DEFINE t == ThreadOf[l]
<1>1. t \in Threads /\ ContextOf[l] \in Contexts
  BY NvidiaAssumption
<1>2. phase = "running" /\ ~aborted /\ call[t] = Absent /\ l \notin past.started
  BY DEF Entered
<1>3. past \in PastType /\ past.subscribers \in Nat
  BY DEF Typed, TypedPast, PastType
<1>4. PICK h \in Nat : h = IF Hears THEN past.subscribers ELSE 0
  BY <1>3
<1>5. PICK u \in Underway : u = [launch |-> l, at |-> "entered", heard |-> h]
  BY DEF Underway
<1>6. call' = [call EXCEPT ![t] = u]
  BY <1>4, <1>5 DEF Entered
<1>7. ASSUME processing' = processing PROVE TypedCalls'
  <2>1. call \in [Threads -> Underway \cup {Absent}]
    BY DEF Typed, TypedCalls
  <2>2. call' \in [Threads -> Underway \cup {Absent}]
    BY <1>6, <2>1
  <2>3. ASSUME processing # Absent
        PROVE  /\ processing \in ProcessingType
               /\ call'[processing.thread] \in Underway
               /\ call'[processing.thread].at = "processing"
    <3>1. processing \in ProcessingType /\ call[processing.thread] \in Underway
          /\ call[processing.thread].at = "processing"
      BY <2>3 DEF Typed, TypedCalls
    <3>2. processing.thread # t
      BY <1>2, <3>1, AbsentAssumption
    <3>3. processing.thread \in Threads
      BY <3>1 DEF ProcessingType
    <3>4. call'[processing.thread] = call[processing.thread]
      BY <1>6, <2>1, <3>2, <3>3
    <3> QED
      BY <3>1, <3>4
  <2> QED
    BY <1>7, <2>2, <2>3 DEF TypedCalls
<1>8. Begins(past, l) \in PastType
  <2>1. ASSUME NEW v \in Threads, call[v] # Absent PROVE {l, call[v].launch} \in SUBSET Launches
    <3>1. call[v] \in Underway
      BY <2>1 DEF Typed, TypedCalls
    <3> QED
      BY <3>1 DEF Underway
  <2>2. PICK S \in SUBSET Launches : S = past.started \cup {l}
    BY <1>3 DEF PastType
  <2>3. PICK V \in SUBSET SUBSET Launches :
          V = past.overlaps \cup {{l, call[v].launch} : v \in {w \in Threads : call[w] # Absent}}
    <3> DEFINE W == {{l, call[v].launch} : v \in {w \in Threads : call[w] # Absent}}
    <3>1. \A x \in W : x \in SUBSET Launches
      <4> SUFFICES ASSUME NEW v \in {w \in Threads : call[w] # Absent}
                   PROVE  {l, call[v].launch} \in SUBSET Launches
        OBVIOUS
      <4> QED
        BY <2>1
    <3>2. past.overlaps \in SUBSET SUBSET Launches
      BY <1>3 DEF PastType
    <3> HIDE DEF W
    <3>3. past.overlaps \cup W \in SUBSET SUBSET Launches
      BY <3>1, <3>2
    <3> QED
      BY <3>3 DEF W
  <2>4. Begins(past, l) = [past EXCEPT !.started = S, !.overlaps = V]
    BY <2>2, <2>3 DEF Begins
  <2> QED
    BY <1>3, <2>4 DEF PastType
<1> QED
  BY <1>1, <1>2, <1>4, <1>5, <1>6, <1>7, <1>8

\* The entry of a launch leaves a typed state, when nothing starts,
LEMMA EnterPlainTyped ==
  ASSUME Typed, NEW l \in Launches, EnterPlain(ThreadOf[l], l)
  PROVE  Typed'
<1>1. TypedCalls' /\ TypedPast'
  BY EnteredTyped DEF EnterPlain, TypedPast
<1> QED
  BY <1>1 DEF Typed, TypedControl, TypedCounters, TypedSampling, TypedEvents, TypedRecords,
              EnterPlain

\* The kernels of a context that are running.
LEMMA SynchronizedTyped ==
  ASSUME Typed, NEW c \in Contexts
  PROVE  /\ Synchronized(c).left \subseteq running
         /\ Synchronized(c).left \in SUBSET RunningType /\ IsFiniteSet(Synchronized(c).left)
         /\ Synchronized(c).sampled = <<>>
         /\ Synchronized(c).records \in Seq(Kernel)
         /\ Synchronized(c).records = records \o RecordsOf(On(c))
         /\ running = {} => Synchronized(c).records = records
<1>1. /\ Synchronized(c).left = running \ On(c) /\ Synchronized(c).sampled = <<>>
      /\ Synchronized(c).records = records \o RecordsOf(On(c))
  BY DEF Synchronized
<1>2. running \in SUBSET RunningType /\ IsFiniteSet(running) /\ records \in Seq(Kernel)
  BY DEF Typed, TypedRecords
<1>3. On(c) \in SUBSET RunningType /\ IsFiniteSet(On(c)) /\ (running = {} => On(c) = {})
  BY <1>2, FS_Subset DEF On
<1>4. IsFiniteSet(running \ On(c))
  BY <1>2, FS_Subset
<1>5. RecordsOf(On(c)) \in Seq(Kernel) /\ (On(c) = {} => RecordsOf(On(c)) = <<>>)
  BY <1>3, RecordsOfTyped
<1>6. records \o RecordsOf(On(c)) \in Seq(Kernel)
  BY <1>2, <1>5, ConcatProperties
<1>7. records \o <<>> = records
  BY <1>2, ConcatEmptySeq
<1> QED
  BY <1>1, <1>2, <1>3, <1>4, <1>5, <1>6, <1>7

\* when sampling starts,
LEMMA EnterSamplingTyped ==
  ASSUME Typed, NEW l \in Launches, EnterSampling(ThreadOf[l], l)
  PROVE  Typed'
<1>1. TypedCalls' /\ TypedPast' /\ ContextOf[l] \in Contexts
  BY EnteredTyped DEF EnterSampling, TypedPast
<1>2. PICK c \in Contexts : c = ContextOf[l]
  BY <1>1
<1>3. /\ sampler' = [started |-> TRUE, initialized |-> sampler.initialized \cup {c}]
      /\ cupti' = [cupti EXCEPT !.enabled = @ \cup {c}, !.sampling = @ \cup {c},
                                !.sampled = Synchronized(c).sampled]
      /\ running' = Synchronized(c).left /\ records' = Synchronized(c).records
  BY <1>2 DEF EnterSampling
<1>4. TypedRecords'
  BY <1>3, SynchronizedTyped DEF TypedRecords
<1>5. TypedSampling'
  <2>1. PICK s \in Seq(Kernel) : s = Synchronized(c).sampled
    BY SynchronizedTyped, EmptySeq
  <2>2. cupti' = [cupti EXCEPT !.enabled = @ \cup {c}, !.sampling = @ \cup {c}, !.sampled = s]
    BY <1>3, <2>1
  <2>3. buffer' \in BufferType /\ cupti \in CuptiType /\ sampler \in SamplerType
    BY DEF EnterSampling, Typed, TypedSampling
  <2>4. cupti' \in CuptiType
    BY <2>2, <2>3 DEF CuptiType
  <2>5. sampler' \in SamplerType
    BY <1>3, <2>3 DEF SamplerType
  <2> QED
    BY <2>3, <2>4, <2>5 DEF TypedSampling
<1> QED
  BY <1>1, <1>4, <1>5 DEF Typed, TypedControl, TypedCounters, TypedEvents, EnterSampling

\* and when CUPTI refuses it.
LEMMA EnterRefusedTyped ==
  ASSUME Typed, NEW l \in Launches, NEW swap \in Swaps, NEW left \in {{}, {ContextOf[l]}},
         EnterRefused(ThreadOf[l], l, swap, left)
  PROVE  Typed'
<1>1. TypedCalls' /\ Begins(past, l) \in PastType /\ ContextOf[l] \in Contexts
  BY EnteredTyped DEF EnterRefused
<1>2. PICK c \in Contexts, d \in Nat :
        /\ c = ContextOf[l]
        /\ d = IF c \in sampler.initialized /\ c \notin cupti.enabled THEN 0 ELSE 1
  BY <1>1
<1>3. left \in SUBSET Contexts /\ Refused(Begins(past, l), c, swap, left, d)
  BY <1>1, <1>2 DEF EnterRefused
<1>4. /\ switches' \in SwitchType /\ sampler' \in SamplerType /\ cupti' \in CuptiType
      /\ aborted' \in BOOLEAN /\ TypedPast'
  BY <1>1, <1>3, RefusedTyped
<1> QED
  BY <1>1, <1>4 DEF Typed, TypedControl, TypedCounters, TypedSampling, TypedEvents,
              TypedRecords, EnterRefused

\* The thread of a launch whose driver call has not come yet, or has returned.
LEMMA CallIn ==
  ASSUME Typed, NEW t \in Threads, call[t] # Absent
  PROVE  /\ call[t] \in Underway /\ call[t].launch \in Launches
         /\ ContextOf[call[t].launch] \in Contexts
         /\ call[t].at # "processing" => processing = Absent \/ processing.thread # t
<1>1. call[t] \in Underway
  BY DEF Typed, TypedCalls
<1> QED
  BY <1>1, NvidiaAssumption DEF Underway, Typed, TypedCalls

\* A step that changes where one launch is, but of the thread that processes samples.
LEMMA CallsKept ==
  ASSUME Typed, NEW t \in Threads, NEW u \in Underway \cup {Absent},
         call' = [call EXCEPT ![t] = u], processing' = processing,
         processing # Absent => processing.thread # t
  PROVE  TypedCalls'
<1>1. call \in [Threads -> Underway \cup {Absent}]
  BY DEF Typed, TypedCalls
<1>2. ASSUME processing # Absent
      PROVE  /\ processing \in ProcessingType
             /\ call'[processing.thread] \in Underway
             /\ call'[processing.thread].at = "processing"
  <2>1. processing \in ProcessingType /\ call[processing.thread] \in Underway
        /\ call[processing.thread].at = "processing"
    BY <1>2 DEF Typed, TypedCalls
  <2>2. processing.thread \in Threads
    BY <2>1 DEF ProcessingType
  <2>3. call'[processing.thread] = call[processing.thread]
    BY <1>1, <1>2, <2>2
  <2> QED
    BY <2>1, <2>3
<1> QED
  BY <1>1, <1>2 DEF TypedCalls

\* The driver call of a launch: its kernels run, or have run in replays.
DriverAs(t, l, p, n) ==
  /\ call[t] \in Underway /\ call[t].at = "entered" /\ call[t].launch = l /\ Going
  /\ call' = [call EXCEPT ![t] = n] /\ n \in Underway
  /\ n.launch = l /\ n.at = "launched" /\ n.heard = call[t].heard
  /\ \E copy \in Seq(Kernel), rep \in Seq(Kernel) :
       /\ copy = IF l \in Copying /\ MemoryKinds \subseteq cupti.activities
                   THEN <<Copy(l)>> ELSE <<>>
       /\ rep = IF Replays(l) /\ cupti.activities \cap KernelKinds # {}
                  THEN Repeated(Kernels(l), p) ELSE <<>>
       /\ records' = (records \o copy) \o rep
  /\ running' = running \cup
       (IF Replays(l) THEN {}
        ELSE {[kernel |-> k, observed |-> cupti.activities \cap KernelKinds # {}] :
                k \in ToSet(Kernels(l))})
  /\ nvpw' = IF Replays(l)
               THEN [nvpw EXCEPT !.ranges = Within(nvpw.ranges \o Kernels(l), MaxRanges)]
               ELSE nvpw
  /\ cupti' = IF ContextOf[l] \in cupti.sampling
                THEN [cupti EXCEPT !.sampled = cupti.sampled \o Kernels(l)] ELSE cupti
  /\ past' = [past EXCEPT
       !.late = @ \cup (IF call[t].heard = past.subscribers THEN {} ELSE {l}),
       !.session.launched = @ \cup (IF phase = "running" THEN ToSet(Kernels(l)) ELSE {}),
       !.session.copied = (@ \/ (phase = "running" /\ l \in Copying)),
       !.session.alone = (@ /\ Replays(l))]
  /\ UNCHANGED <<phase, request, caller, switches, counters, sampler, buffer, processing,
                 vendorEvents, reasons, aborted, artifact>>

\* A launch through the driver is DriverAs for the launch and the counters of its thread.
LEMMA DriverIs ==
  ASSUME Typed, NEW t \in Threads, NEW p \in 1..MaxPasses, Driver(t, p)
  PROVE  \E l \in Launches, n \in Underway : DriverAs(t, l, p, n)
<1>1. /\ call[t] # Absent /\ call[t].at = "entered" /\ Going
  BY DEF Driver
<1>2. call[t] \in Underway
  BY <1>1, CallIn
<1>3. PICK l \in Launches : l = call[t].launch
  BY <1>1, CallIn
<1>4. PICK n \in Underway : n = [call[t] EXCEPT !.at = "launched"]
  BY <1>2 DEF Underway
<1>5. n.launch = l /\ n.at = "launched" /\ n.heard = call[t].heard
  BY <1>2, <1>3, <1>4 DEF Underway
<1>6. call' = [call EXCEPT ![t] = n]
  BY <1>4 DEF Driver
<1>7. p \in Nat \ {0}
  BY NvidiaAssumption
<1>8. Kernels(l) \in Seq(Kernel) /\ Copy(l) \in Kernel
  BY KernelsTyped
<1>9. Repeated(Kernels(l), p) \in Seq(Kernel)
  <2>1. PICK m \in Nat : m = Len(Kernels(l)) * p
    BY <1>7, <1>8
  <2> QED
    BY <1>7, <1>8, <2>1, RepeatedTyped
<1>10. PICK copy \in Seq(Kernel) :
         copy = IF l \in Copying /\ MemoryKinds \subseteq cupti.activities
                   THEN <<Copy(l)>> ELSE <<>>
  <2>1. <<Copy(l)>> \in Seq(Kernel) /\ <<>> \in Seq(Kernel)
    BY <1>8, EmptySeq
  <2> HIDE DEF Kernel
  <2> QED
    BY <2>1
<1>11. PICK rep \in Seq(Kernel) :
         rep = IF Replays(l) /\ cupti.activities \cap KernelKinds # {}
                  THEN Repeated(Kernels(l), p) ELSE <<>>
  BY <1>9, EmptySeq
<1>12. records' = records \o copy \o rep
  BY <1>3, <1>10, <1>11 DEF Driver
<1>13. nvpw' = IF Replays(l)
               THEN [nvpw EXCEPT !.ranges = Within(nvpw.ranges \o Kernels(l), MaxRanges)]
               ELSE nvpw
  BY <1>3 DEF Driver
<1>14. cupti' = IF ContextOf[l] \in cupti.sampling
                THEN [cupti EXCEPT !.sampled = cupti.sampled \o Kernels(l)] ELSE cupti
  BY <1>3 DEF Driver
<1>15. past' = [past EXCEPT
       !.late = @ \cup (IF call[t].heard = past.subscribers THEN {} ELSE {l}),
       !.session.launched = @ \cup (IF phase = "running" THEN ToSet(Kernels(l)) ELSE {}),
       !.session.copied = (@ \/ (phase = "running" /\ l \in Copying)),
       !.session.alone = (@ /\ Replays(l))]
  BY <1>3 DEF Driver
<1>16. running' = running \cup
       (IF Replays(l) THEN {}
        ELSE {[kernel |-> k, observed |-> cupti.activities \cap KernelKinds # {}] :
                k \in ToSet(Kernels(l))})
  BY <1>3 DEF Driver
<1>17. UNCHANGED <<phase, request, caller, switches, counters, sampler, buffer, processing,
                 vendorEvents, reasons, aborted, artifact>>
  BY DEF Driver
<1>18. DriverAs(t, l, p, n)
  BY <1>1, <1>2, <1>3, <1>5, <1>6, <1>10, <1>11, <1>12, <1>13, <1>14, <1>15, <1>16, <1>17
  DEF DriverAs
<1> QED
  BY <1>18

\* The driver call of a launch leaves a typed state.
LEMMA DriverTyped ==
  ASSUME Typed, NEW t \in Threads, NEW l \in Launches, NEW n \in Underway, NEW p,
         DriverAs(t, l, p, n)
  PROVE  Typed'
<1>1. TypedControl' /\ TypedEvents'
  BY DEF Typed, TypedControl, TypedEvents, DriverAs
<1>2. Kernels(l) \in Seq(Kernel) /\ ToSet(Kernels(l)) \in SUBSET Kernel
      /\ IsFiniteSet(ToSet(Kernels(l)))
  BY KernelsTyped
<1>3. TypedCounters'
  <2>1. counters \in CounterType /\ nvpw \in NvpwType /\ MaxRanges \in Nat
    BY NvidiaAssumption DEF Typed, TypedCounters
  <2>2. nvpw.ranges \in Seq(Kernel)
    BY <2>1 DEF NvpwType
  <2>3. PICK s \in Seq(Kernel) : s = nvpw.ranges \o Kernels(l)
    BY <1>2, <2>2, ConcatProperties
  <2>4. PICK w \in Seq(Kernel) : w = Within(s, MaxRanges)
    BY <2>1, WithinTyped
  <2>5. nvpw' = IF Replays(l) THEN [nvpw EXCEPT !.ranges = w] ELSE nvpw
    BY <2>3, <2>4 DEF DriverAs
  <2>6. nvpw' \in NvpwType
    BY <2>1, <2>5 DEF NvpwType
  <2> QED
    BY <2>1, <2>6 DEF TypedCounters, DriverAs
<1>4. TypedSampling'
  <2>1. sampler \in SamplerType /\ cupti \in CuptiType /\ buffer \in BufferType
    BY DEF Typed, TypedSampling
  <2>2. cupti.sampled \in Seq(Kernel)
    BY <2>1 DEF CuptiType
  <2>3. PICK s \in Seq(Kernel) : s = cupti.sampled \o Kernels(l)
    BY <1>2, <2>2, ConcatProperties
  <2>4. cupti' = IF ContextOf[l] \in cupti.sampling THEN [cupti EXCEPT !.sampled = s] ELSE cupti
    BY <2>3 DEF DriverAs
  <2>5. cupti' \in CuptiType
    BY <2>1, <2>4 DEF CuptiType
  <2> QED
    BY <2>1, <2>5 DEF TypedSampling, DriverAs
<1>5. TypedCalls'
  <2>1. call[t] # Absent /\ call[t].at # "processing"
    BY AbsentAssumption DEF DriverAs
  <2>2. processing # Absent => processing.thread # t
    BY <2>1, CallIn
  <2> QED
    BY <2>2, CallsKept DEF DriverAs
<1>6. TypedRecords'
  <2>1. running \in SUBSET RunningType /\ IsFiniteSet(running) /\ records \in Seq(Kernel)
    BY DEF Typed, TypedRecords
  <2>2. records' \in Seq(Kernel)
    <3>1. PICK copy \in Seq(Kernel), rep \in Seq(Kernel) : records' = (records \o copy) \o rep
      BY DEF DriverAs
    <3>2. records \o copy \in Seq(Kernel)
      BY <2>1, ConcatProperties
    <3> QED
      BY <3>1, <3>2, ConcatProperties
  <2>3. PICK o \in BOOLEAN : o = (cupti.activities \cap KernelKinds # {})
    <3>1. (cupti.activities \cap KernelKinds # {}) \in BOOLEAN
      OBVIOUS
    <3> QED
      BY <3>1, Zenon
  <2> DEFINE R == {[kernel |-> k, observed |-> o] : k \in ToSet(Kernels(l))}
             f == [k \in ToSet(Kernels(l)) |-> [kernel |-> k, observed |-> o]]
  <2>4. R \in SUBSET RunningType
    BY <1>2 DEF RunningType
  <2>5. f \in Surjection(ToSet(Kernels(l)), R)
    BY DEF Surjection
  <2>6. IsFiniteSet(R)
    BY <1>2, <2>5, FS_Surjection
  <2>7. running' = running \cup (IF Replays(l) THEN {} ELSE R)
    BY <2>3 DEF DriverAs
  <2> HIDE DEF R
  <2>8. running' \in SUBSET RunningType
    BY <2>1, <2>4, <2>7
  <2>9. IsFiniteSet(running')
    <3>1. CASE Replays(l)
      BY <2>1, <2>7, <3>1
    <3>2. CASE ~Replays(l)
      BY <2>1, <2>6, <2>7, <3>2, FS_Union
    <3> QED
      BY <3>1, <3>2
  <2> QED
    BY <2>2, <2>8, <2>9 DEF TypedRecords
<1>7. TypedPast'
  <2>1. past \in PastType /\ past.session \in SessionType
    BY DEF Typed, TypedPast, PastType
  <2>2. Replays(l) \in BOOLEAN /\ past.session.alone \in BOOLEAN /\ past.session.copied \in BOOLEAN
    BY <2>1 DEF Replays, Typed, TypedCounters, CounterType, SessionType
  <2>3. PICK a \in BOOLEAN, b \in BOOLEAN :
          /\ a = (past.session.alone /\ Replays(l))
          /\ b = (past.session.copied \/ (phase = "running" /\ l \in Copying))
    BY <2>2
  <2>4. PICK L \in SUBSET Launches : L = IF call[t].heard = past.subscribers THEN {} ELSE {l}
    OBVIOUS
  <2>5. PICK K \in SUBSET Kernel : K = IF phase = "running" THEN ToSet(Kernels(l)) ELSE {}
    BY <1>2
  <2>6. PICK S \in SessionType :
          S = [past.session EXCEPT !.launched = @ \cup K, !.copied = b, !.alone = a]
    BY <2>1 DEF SessionType
  <2>7. past' = [past EXCEPT !.late = @ \cup L, !.session = S]
    <3>1. past' = [past EXCEPT !.late = @ \cup L, !.session.launched = @ \cup K,
                               !.session.copied = b, !.session.alone = a]
      BY <2>3, <2>4, <2>5 DEF DriverAs
    <3> QED
      BY <2>1, <2>6, <3>1 DEF PastType, SessionType
  <2> QED
    BY <2>1, <2>7 DEF TypedPast, PastType
<1> QED
  BY <1>1, <1>3, <1>4, <1>5, <1>6, <1>7 DEF Typed

\* A launch that has exited.
LEMMA ExitedTyped ==
  ASSUME Typed, NEW t \in Threads, call[t] # Absent
  PROVE  /\ Exited(past, t) \in PastType
         /\ \E S \in SessionType : Exited(past, t) = [past EXCEPT !.session = S]
         /\ \E b \in BOOLEAN : Exited(past, t) = [past EXCEPT !.session.exited = b]
<1>1. past \in PastType /\ past.session \in SessionType
  BY DEF Typed, TypedPast, PastType
<1> DEFINE l == call[t].launch
           own == Nodes[l] # 0 /\ \A pair \in past.overlaps : l \notin pair
<1>2. own \in BOOLEAN /\ Heard(t) \in BOOLEAN /\ past.session.exited \in BOOLEAN
  BY <1>1 DEF Heard, Hears, SessionType
<1>3. PICK b \in BOOLEAN : b = (past.session.exited \/ (Heard(t) /\ phase = "running" /\ own))
  BY <1>2
<1>4. Exited(past, t) = [past EXCEPT !.session.exited = b]
  BY <1>3 DEF Exited
<1>5. PICK S \in SessionType : S = [past.session EXCEPT !.exited = b]
  BY <1>1 DEF SessionType
<1>6. Exited(past, t) = [past EXCEPT !.session = S]
  BY <1>1, <1>4, <1>5 DEF PastType
<1> QED
  BY <1>1, <1>4, <1>6 DEF PastType

\* The exit of a launch leaves a typed state, when nothing stops,
LEMMA ExitPlainTyped ==
  ASSUME Typed, NEW t \in Threads, ExitPlain(t)
  PROVE  Typed'
<1>1. call[t] # Absent /\ call[t].at = "launched"
  BY DEF ExitPlain, AtExit
<1>2. processing # Absent => processing.thread # t
  BY <1>1, CallIn
<1>3. call' = [call EXCEPT ![t] = Absent] /\ past' = Exited(past, t) /\ processing' = processing
  BY DEF ExitPlain, Leaves
<1>4. TypedCalls'
  BY <1>2, <1>3, CallsKept
<1>5. TypedPast'
  BY <1>1, <1>3, ExitedTyped DEF TypedPast
<1> QED
  BY <1>4, <1>5 DEF Typed, TypedControl, TypedCounters, TypedSampling, TypedEvents,
     TypedRecords, ExitPlain

\* The samples that fit the buffer and those that are left.
LEMMA BufferedTyped ==
  ASSUME NEW s \in Seq(Kernel), NEW w, w = Within(s, BufferPCs)
  PROVE  /\ w \in Seq(Kernel) /\ SubSeq(s, Len(w) + 1, Len(s)) \in Seq(Kernel)
         /\ [total |-> w, remaining |-> SubSeq(s, Len(w) + 1, Len(s))] \in BufferType
<1> PICK T : T = Kernel
  OBVIOUS
<1>0. BufferPCs \in Nat /\ s \in Seq(T)
  BY NvidiaAssumption
<1>1. w \in Seq(T) /\ Len(w) \in 0..Len(s)
  BY <1>0, WithinTyped
<1>2. \A i \in Len(w) + 1 .. Len(s) : s[i] \in T
  BY <1>0, <1>1
<1>3. SubSeq(s, Len(w) + 1, Len(s)) \in Seq(T)
  BY <1>0, <1>1, <1>2, SubSeqProperties
<1> QED
  BY <1>1, <1>3 DEF BufferType

\* when sampling stops,
LEMMA ExitSamplingTyped ==
  ASSUME Typed, NEW t \in Threads, ExitSampling(t)
  PROVE  Typed'
<1>1. call[t] # Absent /\ call[t].at = "launched"
  BY DEF ExitSampling, AtExit
<1>2. /\ sampler \in SamplerType /\ cupti \in CuptiType /\ buffer \in BufferType
      /\ call \in [Threads -> Underway \cup {Absent}] /\ call[t] \in Underway
  BY <1>1, CallIn DEF Typed, TypedSampling, TypedCalls
<1>3. PICK s : s \in Seq(Kernel) /\ s = cupti.sampled
  BY <1>2 DEF CuptiType
<1> PICK w : w = Within(s, BufferPCs)
  OBVIOUS
<1>4. PICK c : c = ContextOf[call[t].launch]
  OBVIOUS
<1>5. /\ sampler' = [sampler EXCEPT !.started = FALSE]
      /\ cupti' = [cupti EXCEPT !.sampling = @ \ {c}, !.sampled = <<>>]
      /\ buffer' = [total |-> w, remaining |-> SubSeq(s, Len(w) + 1, Len(s))]
      /\ processing' = [thread |-> t, firstRound |-> TRUE]
      /\ call' = [call EXCEPT ![t].at = "processing"]
      /\ past' = [past EXCEPT !.handed = @ \cup ToSet(s)]
  BY <1>3, <1>4 DEF ExitSampling
<1>6. TypedSampling'
  <2>1. sampler' \in SamplerType
    BY <1>2, <1>5 DEF SamplerType
  <2>2. PICK e \in Seq(Kernel) : e = <<>>
    BY EmptySeq
  <2>3. cupti' = [cupti EXCEPT !.sampling = @ \ {c}, !.sampled = e]
    BY <1>5, <2>2
  <2>4. cupti' \in CuptiType
    BY <1>2, <2>3 DEF CuptiType
  <2>5. buffer' \in BufferType
    BY <1>3, <1>5, BufferedTyped
  <2> QED
    BY <2>1, <2>4, <2>5 DEF TypedSampling
<1>7. TypedCalls'
  <2>1. PICK u \in Underway : u = [call[t] EXCEPT !.at = "processing"] /\ u.at = "processing"
    <3>1. PICK o \in Underway : o = call[t]
      BY <1>2
    <3>2. PICK u \in Underway : u = [o EXCEPT !.at = "processing"]
      BY DEF Underway
    <3>3. u.at = "processing"
      BY <3>2 DEF Underway
    <3> QED
      BY <3>1, <3>2, <3>3
  <2>2. call' = [call EXCEPT ![t] = u]
    BY <1>5, <2>1
  <2>3. call' \in [Threads -> Underway \cup {Absent}] /\ call'[t] = u
    BY <1>2, <2>2
  <2>4. processing' \in ProcessingType /\ processing'.thread = t
    BY <1>5 DEF ProcessingType
  <2> QED
    BY <2>1, <2>3, <2>4 DEF TypedCalls
<1>8. TypedPast'
  <2>1. PICK S \in SUBSET Kernel : S = ToSet(s)
    <3> PICK T : T = Kernel
      OBVIOUS
    <3>1. \A i \in DOMAIN s : s[i] \in T
      BY <1>3
    <3>2. ToSet(s) \in SUBSET T
      BY <3>1 DEF ToSet
    <3> QED
      BY <3>2
  <2>2. past \in PastType
    BY DEF Typed, TypedPast
  <2>3. past' = [past EXCEPT !.handed = @ \cup S]
    BY <1>5, <2>1
  <2>4. past' \in PastType
    BY <2>2, <2>3 DEF PastType
  <2> QED
    BY <2>4 DEF TypedPast
<1> QED
  BY <1>6, <1>7, <1>8 DEF Typed, TypedControl, TypedCounters, TypedEvents, TypedRecords, ExitSampling

\* and when CUPTI refuses to.
LEMMA ExitRefusedTyped ==
  ASSUME Typed, NEW t \in Threads, NEW swap \in Swaps, ExitRefused(t, swap)
  PROVE  Typed'
<1>1. call[t] # Absent /\ call[t].at = "launched"
  BY DEF ExitRefused, AtExit
<1>2. ContextOf[call[t].launch] \in Contexts /\ (processing # Absent => processing.thread # t)
  BY <1>1, CallIn
<1>3. PICK c \in Contexts, d \in Nat :
        c = ContextOf[call[t].launch] /\ d = IF c \in cupti.sampling THEN 1 ELSE 0
  BY <1>2
<1>4. PICK p \in PastType : p = Exited(past, t)
  BY <1>1, ExitedTyped
<1>5. Refused(p, c, swap, {}, d) /\ call' = [call EXCEPT ![t] = Absent] /\ processing' = processing
  BY <1>3, <1>4 DEF ExitRefused, Leaves
<1>6. TypedCalls'
  BY <1>2, <1>5, CallsKept
<1>7. /\ switches' \in SwitchType /\ sampler' \in SamplerType /\ cupti' \in CuptiType
      /\ aborted' \in BOOLEAN /\ TypedPast'
  BY <1>5, RefusedTyped
<1> QED
  BY <1>6, <1>7 DEF Typed, TypedControl, TypedCounters, TypedSampling, TypedEvents,
     TypedRecords, ExitRefused

\* The samples of the launch whose exit took them.
LEMMA SampleEventsTyped ==
  ASSUME Typed, NEW l \in Launches
  PROVE  /\ SampleEvents(l) \in SUBSET EventType
         /\ \A e \in SampleEvents(l) :
              e.kind = "pcsampling" /\ e.scope = l /\ e.kernel \in ToSet(buffer.total)
<1>1. buffer.total \in Seq(Kernel)
  BY DEF Typed, TypedSampling, BufferType
<1>2. ToSet(buffer.total) \in SUBSET Kernel
  <2> PICK T : T = Kernel
    OBVIOUS
  <2>1. \A i \in DOMAIN buffer.total : buffer.total[i] \in T
    BY <1>1
  <2>2. ToSet(buffer.total) \in SUBSET T
    BY <2>1 DEF ToSet
  <2> QED
    BY <2>2
<1>3. \A k \in Kernel : Event("pcsampling", l, k) \in EventType
  BY DEF Event, EventType
<1> QED
  BY <1>2, <1>3 DEF SampleEvents, Event

\* The launch of the thread that processes samples.
LEMMA ProcessingIn ==
  ASSUME Typed, NEW t, processing # Absent, processing.thread = t
  PROVE  /\ t \in Threads /\ call[t] \in Underway /\ call[t] # Absent
         /\ call[t].launch \in Launches /\ ContextOf[call[t].launch] \in Contexts
         /\ call[t].at = "processing" /\ processing \in ProcessingType
<1>1. processing \in ProcessingType /\ call[t] \in Underway /\ call[t].at = "processing"
  BY DEF Typed, TypedCalls
<1> QED
  BY <1>1, NvidiaAssumption, AbsentAssumption DEF ProcessingType, Underway

\* A round of samples leaves a typed state,
LEMMA RoundTyped ==
  ASSUME Typed, NEW t \in Threads, Round(t)
  PROVE  Typed'
<1>1. processing # Absent /\ processing.thread = t
  BY DEF Round
<1>2. PICK l \in Launches : l = call[t].launch /\ processing \in ProcessingType
                            /\ call[t] \in Underway /\ call[t].at = "processing"
  BY <1>1, ProcessingIn
<1>3. TypedEvents'
  <2>1. TypedEvents /\ SampleEvents(l) \in SUBSET EventType
    BY SampleEventsTyped DEF Typed
  <2>2. vendorEvents' = Captured(SampleEvents(l)) /\ artifact' = artifact
    BY <1>2 DEF Round
  <2>3. /\ DOMAIN Captured(SampleEvents(l)) \subseteq EventType
        /\ Captured(SampleEvents(l)) \in [DOMAIN Captured(SampleEvents(l)) -> Nat \ {0}]
    BY <2>1, CapturedTyped
  <2> QED
    BY <2>1, <2>2, <2>3 DEF TypedEvents
<1>4. buffer \in BufferType /\ buffer.remaining \in Seq(Kernel)
  BY DEF Typed, TypedSampling, BufferType
<1>5. PICK s : s \in Seq(Kernel) /\ s = buffer.remaining
  BY <1>4
<1> PICK w : w = Within(s, BufferPCs)
  OBVIOUS
<1>6. [total |-> w, remaining |-> SubSeq(s, Len(w) + 1, Len(s))] \in BufferType
  BY <1>5, BufferedTyped
<1>7. buffer' \in BufferType /\ aborted' \in BOOLEAN /\ call' = call
      /\ processing' \in {processing, [processing EXCEPT !.firstRound = FALSE]}
  BY <1>4, <1>5, <1>6 DEF Round, Typed, TypedControl
<1>8. TypedCalls'
  <2>1. processing' \in ProcessingType /\ processing'.thread = t
    BY <1>1, <1>2, <1>7 DEF ProcessingType
  <2>2. call \in [Threads -> Underway \cup {Absent}]
    BY DEF Typed, TypedCalls
  <2> QED
    BY <1>2, <1>7, <2>1, <2>2 DEF TypedCalls
<1> QED
  BY <1>3, <1>7, <1>8 DEF Typed, TypedControl, TypedCounters, TypedSampling, TypedRecords,
     TypedPast, Round

\* when they cannot be fetched,
LEMMA RoundRefusedTyped ==
  ASSUME Typed, NEW t \in Threads, NEW swap \in Swaps, RoundRefused(t, swap)
  PROVE  Typed'
<1>1. processing # Absent /\ processing.thread = t
  BY DEF RoundRefused
<1>2. PICK l \in Launches : l = call[t].launch /\ ContextOf[l] \in Contexts /\ call[t] # Absent
  BY <1>1, ProcessingIn
<1>3. TypedEvents'
  <2>1. TypedEvents /\ SampleEvents(l) \in SUBSET EventType
    BY SampleEventsTyped DEF Typed
  <2>2. vendorEvents' = Captured(SampleEvents(l)) /\ artifact' = artifact
    BY <1>2 DEF RoundRefused
  <2>3. /\ DOMAIN Captured(SampleEvents(l)) \subseteq EventType
        /\ Captured(SampleEvents(l)) \in [DOMAIN Captured(SampleEvents(l)) -> Nat \ {0}]
    BY <2>1, CapturedTyped
  <2> QED
    BY <2>1, <2>2, <2>3 DEF TypedEvents
<1>4. PICK p \in PastType : p = Exited(past, t)
  BY <1>2, ExitedTyped
<1>5. PICK c \in Contexts : c = ContextOf[l]
  BY <1>2
<1>6. Refused(p, c, swap, {}, 1)
  BY <1>2, <1>4, <1>5 DEF RoundRefused
<1>7. /\ switches' \in SwitchType /\ sampler' \in SamplerType /\ cupti' \in CuptiType
      /\ aborted' \in BOOLEAN /\ TypedPast'
  BY <1>6, RefusedTyped
<1>8. TypedCalls'
  <2>1. processing' = Absent /\ call' = [call EXCEPT ![t] = Absent]
    BY DEF RoundRefused, Leaves
  <2>2. call \in [Threads -> Underway \cup {Absent}]
    BY DEF Typed, TypedCalls
  <2> QED
    BY <2>1, <2>2 DEF TypedCalls
<1>9. buffer' \in BufferType
  <2>1. <<>> \in Seq(Kernel)
    BY EmptySeq
  <2> QED
    BY <2>1 DEF RoundRefused, Empty, BufferType
<1> QED
  BY <1>3, <1>7, <1>8, <1>9 DEF Typed, TypedControl, TypedCounters, TypedSampling,
     TypedRecords, RoundRefused

\* and when there are no more.
LEMMA RoundsDoneTyped ==
  ASSUME Typed, NEW t \in Threads, RoundsDone(t)
  PROVE  Typed'
<1>1. processing # Absent /\ processing.thread = t
  BY DEF RoundsDone
<1>2. call[t] # Absent
  BY <1>1, ProcessingIn
<1>3. TypedPast'
  BY <1>2, ExitedTyped DEF TypedPast, RoundsDone
<1>4. TypedCalls'
  <2>1. processing' = Absent /\ call' = [call EXCEPT ![t] = Absent]
    BY DEF RoundsDone, Leaves
  <2>2. call \in [Threads -> Underway \cup {Absent}]
    BY DEF Typed, TypedCalls
  <2> QED
    BY <2>1, <2>2 DEF TypedCalls
<1> QED
  BY <1>3, <1>4 DEF Typed, TypedControl, TypedCounters, TypedSampling, TypedEvents,
     TypedRecords, RoundsDone

\* The flush of a session leaves a typed state: when it synchronizes,
LEMMA FlushTyped ==
  ASSUME Typed, Flush
  PROVE  Typed'
<1>1. PICK c \in Callers, ended \in SUBSET {k.kernel[1] : k \in running} : DoFlush(c, ended)
  BY DEF Flush
<1>2. phase = "running" /\ c \in Contexts
  BY NvidiaAssumption DEF Flush
<1>3. running \in SUBSET RunningType /\ IsFiniteSet(running) /\ records \in Seq(Kernel)
  BY DEF Typed, TypedRecords
<1>4. PICK K \in SUBSET running : /\ running' = running \ K /\ records' = records \o RecordsOf(K)
                                  /\ K = {k \in running : ContextOf[k.kernel[1]] = c
                                                          \/ k.kernel[1] \in ended}
  BY <1>1 DEF DoFlush
<1>5. TypedRecords'
  <2>1. K \in SUBSET RunningType /\ IsFiniteSet(K) /\ IsFiniteSet(running \ K)
    BY <1>3, FS_Subset
  <2>2. RecordsOf(K) \in Seq(Kernel)
    BY <2>1, RecordsOfTyped
  <2>3. records \o RecordsOf(K) \in Seq(Kernel)
    BY <1>3, <2>2, ConcatProperties
  <2> QED
    BY <1>3, <1>4, <2>1, <2>3 DEF TypedRecords
<1>6. TypedPast'
  <2>1. past \in PastType /\ past.session \in SessionType
    BY DEF Typed, TypedPast, PastType
  <2>2. PICK D \in SUBSET Kernel : D = {k \in past.session.launched : ContextOf[k[1]] = c}
    BY <2>1 DEF SessionType
  <2>3. past' = [past EXCEPT !.session.due = D]
    BY <1>1, <2>2 DEF DoFlush
  <2>4. PICK S \in SessionType : S = [past.session EXCEPT !.due = D]
    BY <2>1 DEF SessionType
  <2>5. past' = [past EXCEPT !.session = S]
    BY <2>1, <2>3, <2>4 DEF PastType
  <2> QED
    BY <2>1, <2>5 DEF TypedPast, PastType
<1> QED
  BY <1>1, <1>2, <1>5, <1>6 DEF Typed, TypedControl, TypedCounters, TypedSampling, TypedCalls,
     TypedEvents, DoFlush

\* when it takes the records,
LEMMA FlushedTyped ==
  ASSUME Typed, Flushed
  PROVE  Typed'
<1>1. records \in Seq(Kernel) /\ counters \in CounterType /\ counters.kernelEvents \in Seq(Kernel)
  BY DEF Typed, TypedRecords, TypedCounters, CounterType
<1>2. ToSet(records) \in SUBSET Kernel
  <2> PICK T : T = Kernel
    OBVIOUS
  <2>1. \A i \in DOMAIN records : records[i] \in T
    BY <1>1
  <2>2. ToSet(records) \in SUBSET T
    BY <2>1 DEF ToSet
  <2> QED
    BY <2>2
<1>3. TypedRecords'
  BY EmptySeq DEF Typed, TypedRecords, Flushed, Deliver
<1>4. TypedCounters'
  <2>1. PICK s \in Seq(Kernel) : s = RecordedAll(counters.kernelEvents, records)
    BY <1>1, RecordedExtends
  <2>2. counters' = IF counters.active THEN [counters EXCEPT !.kernelEvents = s] ELSE counters
    BY <2>1 DEF Flushed, Deliver
  <2>3. counters' \in CounterType
    BY <1>1, <2>2 DEF CounterType
  <2> QED
    BY <2>3 DEF Typed, TypedCounters, Flushed
<1>5. TypedEvents'
  <2> DEFINE kind(r) == IF r[2] # 0 THEN "kernel" ELSE "memory"
             E == {Event(kind(r), r[1], r) : r \in ToSet(records)}
  <2>1. E \in SUBSET EventType
    <3>1. \A r \in Kernel : Event(kind(r), r[1], r) \in EventType
      BY DEF Event, EventType, Kernel
    <3> QED
      BY <1>2, <3>1
  <2>2. vendorEvents' = Captured(E) /\ artifact' = artifact
    BY DEF Flushed, Deliver
  <2> HIDE DEF E
  <2>3. TypedEvents
    BY DEF Typed
  <2>4. DOMAIN Captured(E) \subseteq EventType /\ Captured(E) \in [DOMAIN Captured(E) -> Nat \ {0}]
    BY <2>1, <2>3, CapturedTyped
  <2> QED
    BY <2>2, <2>3, <2>4 DEF TypedEvents
<1>6. TypedPast'
  <2>1. past \in PastType /\ past.session \in SessionType
    BY DEF Typed, TypedPast, PastType
  <2>2. PICK B \in SUBSET Kernel : B = {r \in ToSet(records) : r[2] # 0}
    BY <1>2
  <2>3. past' = [past EXCEPT !.session.based = @ \cup B]
    BY <2>2 DEF Flushed, Deliver
  <2>4. PICK S \in SessionType : S = [past.session EXCEPT !.based = @ \cup B]
    BY <2>1 DEF SessionType
  <2>5. past' = [past EXCEPT !.session = S]
    BY <2>1, <2>3, <2>4 DEF PastType
  <2> QED
    BY <2>1, <2>5 DEF TypedPast, PastType
<1> QED
  BY <1>3, <1>4, <1>5, <1>6 DEF Typed, TypedControl, TypedSampling, TypedCalls, Flushed

\* and when CUPTI refuses it.
LEMMA FlushRefusedTyped ==
  ASSUME Typed, FlushRefused
  PROVE  Typed'
<1>1. TypedPast'
  <2>1. past \in PastType /\ past.session \in SessionType
    BY DEF Typed, TypedPast, PastType
  <2>2. PICK i \in Nat : i = past.refusals + 1
    BY <2>1 DEF PastType
  <2>3. PICK S \in SessionType : S = [past.session EXCEPT !.blind = TRUE]
    BY <2>1 DEF SessionType
  <2>4. past' = [past EXCEPT !.refusals = i, !.session = S]
    BY <2>1, <2>2, <2>3 DEF PastType, FlushRefused
  <2> QED
    BY <2>1, <2>4 DEF TypedPast, PastType
<1> QED
  BY <1>1 DEF Typed, TypedControl, TypedCounters, TypedSampling, TypedCalls, TypedEvents,
     TypedRecords, FlushRefused

\* What a stop does to the counters and the events, when it makes the calls in
\* done or ends with an exception.
StopsAs(n, kept, done, throws, m, d, b) ==
  /\ phase = "flushed" /\ ~aborted /\ caller' = Absent
  /\ CountersStop(n, kept)
  /\ vendorEvents' = vendorEvents (+) SetToBag(IF counters.active THEN RangeEvents(n) ELSE {})
  /\ CountersLost(n, kept) => "counters" \in reasons'
  /\ reasons \subseteq reasons'
  /\ sampler' = IF switches.pc THEN [sampler EXCEPT !.initialized = @ \ {caller}] ELSE sampler
  /\ switches' = [switches EXCEPT !.pc = FALSE, !.memoryOn = m]
  /\ cupti' = TornDown(caller, done)
  /\ IF "finalize" \in done THEN records' = <<>> /\ running' = Forgotten(running)
                            ELSE UNCHANGED <<records, running>>
  /\ phase' = IF throws \/ request.backend = "cupti" THEN "idle" ELSE "stopped"
  /\ past' = [past EXCEPT !.kept = @ \cup kept, !.pcRefused = b, !.refusals = d]
  /\ UNCHANGED <<request, buffer, processing, call, aborted, artifact>>

\* A stop, whichever of its calls CUPTI refuses, is StopsAs with one choice of what it leaves.
LEMMA StopIs ==
  ASSUME Typed, Stop
  PROVE  \E done : \E n \in 0..MaxRanges, kept \in SUBSET CuptiObjects, throws \in BOOLEAN,
            m \in BOOLEAN, d \in Nat, b \in BOOLEAN : StopsAs(n, kept, done, throws, m, d, b)
<1>1. PICK n \in 0..MaxRanges, kept \in Kept(CuptiObjects),
           refused \in {0} \cup {i \in DOMAIN TearDown(caller) : TearDown(caller)[i] \in Refusable} :
        DoStop(n, kept, refused)
  BY DEF Stop
<1>2. kept \in SUBSET CuptiObjects
  BY KeptTyped
<1>3. PICK calls : calls = TearDown(caller)
  OBVIOUS
<1>4. PICK tolerated : tolerated = (switches.optional /\ switches.unavailable)
  OBVIOUS
<1>5. PICK throws \in BOOLEAN : throws = (refused # 0 /\ ~tolerated)
  OBVIOUS
<1>6. PICK done : done = {calls[i] : i \in
        {i \in DOMAIN calls : i # refused /\ (refused = 0 \/ tolerated \/ i < refused)}}
  OBVIOUS
<1>7. PICK cost \in Nat :
        cost = (IF refused = 0 THEN 0 ELSE 1) + (IF n < Evaluated \/ kept # {} THEN 1 ELSE 0)
  OBVIOUS
<1>8. past \in PastType /\ switches \in SwitchType
  BY DEF Typed, TypedPast, TypedControl
<1>9. PICK d \in Nat :
        d = past.refusals + (IF counters.active THEN cost ELSE IF refused = 0 THEN 0 ELSE 1)
  BY <1>8 DEF PastType
<1>10. PICK b \in BOOLEAN : b = (past.pcRefused \/ refused # 0)
  BY <1>8 DEF PastType
<1>11. switches.memoryOn \in BOOLEAN
  BY <1>8 DEF SwitchType
<1>12. PICK x \in BOOLEAN : x = (calls[refused] # "graph")
  <2>1. (calls[refused] # "graph") \in BOOLEAN
    OBVIOUS
  <2> QED
    BY <2>1, Zenon
<1>13. PICK y \in BOOLEAN : y = ("graph" \notin done)
  <2>1. ("graph" \notin done) \in BOOLEAN
    OBVIOUS
  <2> QED
    BY <2>1, Zenon
<1>14. PICK m \in BOOLEAN : m = (switches.memoryOn /\ throws /\ y /\ x)
  BY <1>5, <1>11, <1>12, <1>13
<1>15. StopsAs(n, kept, done, throws, m, d, b)
  <2>1. phase = "flushed" /\ ~aborted
    BY DEF Stop
  <2>2. /\ caller' = Absent /\ CountersStop(n, kept)
        /\ vendorEvents' = vendorEvents (+)
                           SetToBag(IF counters.active THEN RangeEvents(n) ELSE {})
        /\ UNCHANGED <<request, buffer, processing, call, aborted, artifact>>
        /\ sampler' = IF switches.pc
                        THEN [sampler EXCEPT !.initialized = @ \ {caller}] ELSE sampler
    BY <1>1 DEF DoStop
  <2>3. /\ CountersLost(n, kept) => "counters" \in reasons'
        /\ reasons \subseteq reasons'
    BY <1>1 DEF DoStop
  <2>4. switches' = [switches EXCEPT !.pc = FALSE, !.memoryOn = m]
    BY <1>1, <1>3, <1>4, <1>5, <1>6, <1>12, <1>13, <1>14 DEF DoStop
  <2>5. /\ cupti' = TornDown(caller, done)
        /\ IF "finalize" \in done THEN records' = <<>> /\ running' = Forgotten(running)
                                  ELSE UNCHANGED <<records, running>>
        /\ phase' = IF throws \/ request.backend = "cupti" THEN "idle" ELSE "stopped"
    BY <1>1, <1>3, <1>4, <1>5, <1>6 DEF DoStop
  <2>6. past' = [past EXCEPT !.kept = @ \cup kept, !.pcRefused = b, !.refusals = d]
    BY <1>1, <1>7, <1>9, <1>10 DEF DoStop
  <2> QED
    BY <2>1, <2>2, <2>3, <2>4, <2>5, <2>6 DEF StopsAs
<1> QED
  BY <1>2, <1>15

\* The ranges that are evaluated are of kernels.
LEMMA RangeEventsTyped ==
  ASSUME TypedCounters, NEW n \in 0..Evaluated
  PROVE  /\ RangeEvents(n) \in SUBSET EventType
         /\ \A e \in RangeEvents(n) : e.kind = "hardware_counter"
<1> PICK T : T = Kernel
  OBVIOUS
<1>1. counters.kernelEvents \in Seq(T) /\ nvpw.ranges \in Seq(T) /\ MaxRanges \in Nat
  BY NvidiaAssumption DEF TypedCounters, CounterType, NvpwType
<1>2. PICK known \in Seq(T), ranges \in Seq(T) : known = counters.kernelEvents /\ ranges = nvpw.ranges
  BY <1>1
<1>3. n \in Nat /\ n <= Len(ranges)
  BY <1>1, <1>2 DEF Evaluated
<1> DEFINE named(i) == IF i <= Len(known) THEN known[i] ELSE Absent
<1>4. RangeEvents(n) = {[kind |-> "hardware_counter", scope |-> Absent, kernel |-> named(i),
                         of |-> ranges[i]] : i \in 1..n}
  BY <1>2 DEF RangeEvents
<1>5. ASSUME NEW i \in 1..n PROVE named(i) \in T \cup {Absent} /\ ranges[i] \in T
  BY <1>2, <1>3
<1> HIDE DEF named
<1>6. \A i \in 1..n :
        [kind |-> "hardware_counter", scope |-> Absent, kernel |-> named(i), of |-> ranges[i]]
          \in EventType
  BY <1>5 DEF EventType
<1> QED
  BY <1>4, <1>6

\* The end of a session leaves a typed state,
LEMMA StopTyped ==
  ASSUME Typed, Stop
  PROVE  Typed'
<1>0. PICK done : \E n \in 0..MaxRanges, kept \in SUBSET CuptiObjects, throws \in BOOLEAN,
           m \in BOOLEAN, d \in Nat, b \in BOOLEAN : StopsAs(n, kept, done, throws, m, d, b)
  BY StopIs
<1>1. PICK n \in 0..MaxRanges, kept \in SUBSET CuptiObjects, throws \in BOOLEAN,
           m \in BOOLEAN, d \in Nat, b \in BOOLEAN : StopsAs(n, kept, done, throws, m, d, b)
  BY <1>0
<1>2. TypedControl'
  <2>1. switches \in SwitchType /\ switches' = [switches EXCEPT !.pc = FALSE, !.memoryOn = m]
    BY <1>1 DEF Typed, TypedControl, StopsAs
  <2>2. switches' \in SwitchType
    BY <2>1 DEF SwitchType
  <2> QED
    BY <1>1, <2>2 DEF Typed, TypedControl, StopsAs
<1>3. TypedCounters'
  <2>1. counters \in CounterType /\ nvpw \in NvpwType
    BY DEF Typed, TypedCounters
  <2>2. CASE ~counters.active
    BY <1>1, <2>1, <2>2 DEF StopsAs, CountersStop, TypedCounters
  <2>3. CASE counters.active
    <3>1. counters' = Ended(counters) /\ nvpw' = [nvpw EXCEPT !.objects = Released(kept)]
      BY <1>1, <2>3 DEF StopsAs, CountersStop
    <3>2. counters' \in CounterType
      BY <2>1, <3>1 DEF Ended, CounterType
    <3>3. PICK R \in SUBSET Objects : R = Released(kept)
      BY <2>1 DEF Released, NvpwType
    <3>4. nvpw' \in NvpwType
      BY <2>1, <3>1, <3>3 DEF NvpwType
    <3> QED
      BY <3>2, <3>4 DEF TypedCounters
  <2> QED
    BY <2>2, <2>3
<1>4. TypedSampling'
  <2>1. sampler \in SamplerType /\ cupti \in CuptiType /\ buffer \in BufferType
    BY DEF Typed, TypedSampling
  <2>2. sampler' \in SamplerType
    BY <1>1, <2>1 DEF StopsAs, SamplerType
  <2>3. cupti' = TornDown(caller, done)
    BY <1>1 DEF StopsAs
  <2>4. CASE "finalize" \in done
    <3>1. Fresh \in CuptiType
      <4>1. <<>> \in Seq(Kernel)
        BY EmptySeq
      <4> QED
        BY <4>1 DEF Fresh, CuptiType
    <3> QED
      BY <1>1, <2>1, <2>2, <2>3, <2>4, <3>1 DEF StopsAs, TornDown, TypedSampling
  <2>5. CASE "finalize" \notin done
    <3>1. PICK a \in BOOLEAN : a = (cupti.subscribed /\ "unsubscribe" \notin done)
      <4>1. ("unsubscribe" \notin done) \in BOOLEAN
        OBVIOUS
      <4>2. PICK x \in BOOLEAN : x = ("unsubscribe" \notin done)
        BY <4>1, Zenon
      <4>3. cupti.subscribed \in BOOLEAN
        BY <2>1 DEF CuptiType
      <4> QED
        BY <4>2, <4>3
    <3>2. PICK S : S = IF "sampling" \in done THEN {caller} ELSE {}
      OBVIOUS
    <3>3. cupti' = [cupti EXCEPT !.subscribed = a, !.activities = @ \ done,
                                 !.callbacks = @ \ done, !.enabled = @ \ S, !.sampling = @ \ S]
      BY <2>3, <2>5, <3>1, <3>2 DEF TornDown
    <3>4. cupti' \in CuptiType
      BY <2>1, <3>3 DEF CuptiType
    <3> QED
      BY <1>1, <2>1, <2>2, <3>4 DEF StopsAs, TypedSampling
  <2> QED
    BY <2>4, <2>5
<1>5. TypedCalls'
  BY <1>1 DEF StopsAs, Typed, TypedCalls
<1>6. TypedEvents'
  <2>1. PICK E \in SUBSET EventType :
          E = IF counters.active THEN RangeEvents(n) ELSE {}
    <3>1. CASE counters.active
      <4>1. n \in 0..Evaluated
        BY <1>1, <3>1 DEF StopsAs, CountersStop
      <4> QED
        BY <3>1, <4>1, RangeEventsTyped DEF Typed
    <3>2. CASE ~counters.active
      BY <3>2
    <3> QED
      BY <3>1, <3>2
  <2>2. vendorEvents' = vendorEvents (+) SetToBag(E) /\ artifact' = artifact
    BY <1>1, <2>1 DEF StopsAs
  <2>3. TypedEvents
    BY DEF Typed
  <2>4. /\ DOMAIN (vendorEvents (+) SetToBag(E)) = DOMAIN vendorEvents \cup E
        /\ vendorEvents (+) SetToBag(E) \in [DOMAIN vendorEvents \cup E -> Nat \ {0}]
    BY <2>3, MoreEvents DEF TypedEvents
  <2> QED
    BY <2>1, <2>2, <2>3, <2>4 DEF TypedEvents
<1>7. TypedRecords'
  <2>1. running \in SUBSET RunningType /\ IsFiniteSet(running) /\ records \in Seq(Kernel)
    BY DEF Typed, TypedRecords
  <2>2. Forgotten(running) \in SUBSET RunningType
    BY <2>1 DEF Forgotten, RunningType
  <2>3. IsFiniteSet(Forgotten(running))
    <3> DEFINE f == [k \in running |-> [k EXCEPT !.observed = FALSE]]
    <3>1. f \in Surjection(running, Forgotten(running))
      BY DEF Surjection, Forgotten
    <3> QED
      BY <2>1, <3>1, FS_Surjection
  <2> QED
    BY <1>1, <2>1, <2>2, <2>3, EmptySeq DEF StopsAs, TypedRecords
<1>8. TypedPast'
  <2>1. past \in PastType
    BY DEF Typed, TypedPast
  <2>2. past' = [past EXCEPT !.kept = @ \cup kept, !.pcRefused = b, !.refusals = d]
    BY <1>1 DEF StopsAs
  <2> QED
    BY <2>1, <2>2 DEF TypedPast, PastType, Objects
<1> QED
  BY <1>2, <1>3, <1>4, <1>5, <1>6, <1>7, <1>8 DEF Typed

\* and so does its import.
LEMMA ImportTyped ==
  ASSUME Typed, Import
  PROVE  Typed'
<1>1. TypedControl'
  <2>1. switches \in SwitchType /\ switches' = [switches EXCEPT !.capture = FALSE, !.memory = FALSE]
    BY DEF Typed, TypedControl, Import
  <2>2. switches' \in SwitchType
    BY <2>1 DEF SwitchType
  <2> QED
    BY <2>2 DEF Typed, TypedControl, Import
<1>2. TypedEvents'
  BY DEF Typed, TypedEvents, Import, EmptyBag, SetToBag, BagToSet
<1> QED
  BY <1>1, <1>2 DEF Typed, TypedCounters, TypedSampling, TypedCalls, TypedRecords, TypedPast, Import

\* Every step leaves a typed state.
LEMMA StepTyped ==
  ASSUME Typed, Next
  PROVE  Typed'
<1>1. CASE \E r \in NextRequests : MakeSession(r) \/ RejectedStart(r)
  <2>1. PICK r \in NextRequests : MakeSession(r) \/ RejectedStart(r)
    BY <1>1
  <2>2. r \in RequestType
    <3>1. past.starts < Len(Requests)
      BY <2>1 DEF NextRequests
    <3>2. past.starts \in Nat
      BY DEF Typed, TypedPast, PastType
    <3>3. Requests[past.starts + 1] \subseteq RequestType
      BY <3>1, <3>2, NvidiaAssumption DEF RequestType
    <3> QED
      BY <2>1, <3>1, <3>3 DEF NextRequests
  <2> QED
    BY <2>1, <2>2, MakeSessionTyped, RejectedStartTyped
<1>2. CASE Start
  BY <1>2, StartTyped
<1>3. CASE \E l \in Launches : LET t == ThreadOf[l] IN
             \/ EnterPlain(t, l) \/ EnterSampling(t, l)
             \/ \E swap \in Swaps, left \in {{}, {ContextOf[l]}} : EnterRefused(t, l, swap, left)
  BY <1>3, EnterPlainTyped, EnterSamplingTyped, EnterRefusedTyped
<1>4. CASE \E t \in Threads :
             \/ \E passes \in 1..MaxPasses : Driver(t, passes)
             \/ ExitPlain(t) \/ ExitSampling(t) \/ Round(t) \/ RoundsDone(t)
             \/ \E swap \in Swaps : ExitRefused(t, swap) \/ RoundRefused(t, swap)
  <2>1. PICK t \in Threads :
             \/ \E passes \in 1..MaxPasses : Driver(t, passes)
             \/ ExitPlain(t) \/ ExitSampling(t) \/ Round(t) \/ RoundsDone(t)
             \/ \E swap \in Swaps : ExitRefused(t, swap) \/ RoundRefused(t, swap)
    BY <1>4
  <2>2. CASE \E passes \in 1..MaxPasses : Driver(t, passes)
    <3>1. PICK passes \in 1..MaxPasses : Driver(t, passes)
      BY <2>2
    <3>2. PICK l \in Launches, n \in Underway : DriverAs(t, l, passes, n)
      BY <3>1, DriverIs
    <3> QED
      BY <3>2, DriverTyped
  <2>3. CASE ExitPlain(t) \/ ExitSampling(t) \/ Round(t) \/ RoundsDone(t)
    BY <2>3, ExitPlainTyped, ExitSamplingTyped, RoundTyped, RoundsDoneTyped
  <2>4. CASE \E swap \in Swaps : ExitRefused(t, swap) \/ RoundRefused(t, swap)
    BY <2>4, ExitRefusedTyped, RoundRefusedTyped
  <2> QED
    BY <2>1, <2>2, <2>3, <2>4
<1>5. CASE Flush \/ Flushed \/ FlushRefused
  BY <1>5, FlushTyped, FlushedTyped, FlushRefusedTyped
<1>6. CASE Stop \/ Import
  BY <1>6, StopTyped, ImportTyped
<1> QED
  BY <1>1, <1>2, <1>3, <1>4, <1>5, <1>6 DEF Next

\* A step that changes nothing.
LEMMA StutterTyped ==
  ASSUME Typed, UNCHANGED vars
  PROVE  Typed'
BY DEF Typed, TypedControl, TypedCounters, TypedSampling, TypedCalls, TypedEvents, TypedRecords,
       TypedPast, vars

\* The values of every variable, in every state.
THEOREM TypesHold == Spec => []Typed
<1>1. Init => Typed
  BY InitTyped
<1>2. Typed /\ [Next]_vars => Typed'
  BY StepTyped, StutterTyped
<1> QED
  BY <1>1, <1>2, PTL DEF Spec

----------------------------------------------------------------------------
(* The steps of the callbacks leave the counters alone.                     *)

\* A launch that has been made and whose driver call has come.
Taken(l) ==
  /\ l \in past.started
  /\ \A t \in Threads : call[t] # Absent => call[t].launch # l \/ call[t].at # "entered"

\* Every call is one of its own thread.
CallsOwn ==
  \A t \in Threads : call[t] # Absent =>
    call[t].launch \in past.started /\ ThreadOf[call[t].launch] = t

\* The history that they keep.
KeepsPast(p) ==
  /\ p.kept = past.kept /\ p.stranded = past.stranded
  /\ p.session.alone = past.session.alone
  /\ past.started \subseteq p.started

\* The launches that are under way: one may begin.
KeepsCalls ==
  \A t \in Threads : call'[t] # Absent =>
    \/ /\ call[t] # Absent /\ call'[t].launch = call[t].launch
       /\ call'[t].at = "entered" => call[t].at = "entered"
    \/ /\ call'[t].launch \notin past.started /\ call'[t].launch \in past'.started
       /\ ThreadOf[call'[t].launch] = t

Quiet ==
  /\ UNCHANGED <<counters, nvpw, request, artifact, phase>>
  /\ KeepsPast(past') /\ KeepsCalls
  /\ switches'.optional = switches.optional
  /\ ~switches.optional => cupti'.activities = cupti.activities
  /\ running' \subseteq running /\ (running = {} => records' = records)
  /\ \A e \in DOMAIN vendorEvents' \ DOMAIN vendorEvents : e.kind = "pcsampling"

\* An exception of the sampling.
LEMMA RefusedQuiet ==
  ASSUME Typed, NEW p \in PastType, NEW c \in Contexts, NEW swap \in Swaps,
         NEW left \in SUBSET Contexts, NEW cost \in Nat, Refused(p, c, swap, left, cost),
         KeepsPast(p)
  PROVE  /\ KeepsPast(past') /\ past'.started = p.started
         /\ switches'.optional = switches.optional
         /\ ~switches.optional => cupti' = cupti
<1>1. past' = [p EXCEPT !.refusals = @ + cost + Cost(swap), !.pcRefused = TRUE,
                        !.session.blind = @ \/ swap = "disabled"]
  BY DEF Refused
<1>2. p.session \in SessionType
  BY DEF PastType
<1>3. /\ past'.kept = p.kept /\ past'.stranded = p.stranded /\ past'.started = p.started
      /\ past'.session = [p.session EXCEPT !.blind = @ \/ swap = "disabled"]
  BY <1>1 DEF PastType
<1>4. past'.session.alone = p.session.alone
  BY <1>2, <1>3 DEF SessionType
<1>5. switches'.optional = switches.optional
  BY DEF Refused, FallsBack, Typed, TypedControl, SwitchType
<1>6. ~switches.optional => cupti' = cupti
  BY DEF Refused
<1> QED
  BY <1>3, <1>4, <1>5, <1>6 DEF KeepsPast

\* A launch that begins.
LEMMA EnteredQuiet ==
  ASSUME Typed, NEW l \in Launches, Entered(ThreadOf[l], l)
  PROVE  /\ KeepsPast(Begins(past, l)) /\ l \in Begins(past, l).started
         /\ past'.started = Begins(past, l).started => KeepsCalls
<1>1. past \in PastType
  BY DEF Typed, TypedPast
<1>2. KeepsPast(Begins(past, l)) /\ l \in Begins(past, l).started
  BY <1>1 DEF Begins, PastType, KeepsPast
<1>3. ASSUME past'.started = Begins(past, l).started PROVE KeepsCalls
  <2>1. PICK u \in Underway : /\ u.launch = l /\ l \notin past.started
                              /\ call' = [call EXCEPT ![ThreadOf[l]] = u]
    BY EnteredTyped
  <2>2. call \in [Threads -> Underway \cup {Absent}]
    BY DEF Typed, TypedCalls
  <2>3. ASSUME NEW t \in Threads
        PROVE  call'[t] = IF t = ThreadOf[l] THEN u ELSE call[t]
    BY <2>1, <2>2
  <2>4. l \in past'.started
    BY <1>2, <1>3
  <2> QED
    BY <2>1, <2>3, <2>4 DEF KeepsCalls
<1> QED
  BY <1>2, <1>3

\* A launch that exits, or whose samples are processed from now on.
LEMMA ExitedQuiet ==
  ASSUME Typed, NEW t \in Threads, call[t] # Absent
  PROVE  /\ KeepsPast(Exited(past, t)) /\ Exited(past, t) \in PastType
         /\ Leaves(t) => KeepsCalls
         /\ call' = [call EXCEPT ![t].at = "processing"] => KeepsCalls
<1>1. past \in PastType /\ past.session \in SessionType
  BY DEF Typed, TypedPast, PastType
<1>2. PICK b \in BOOLEAN : Exited(past, t) = [past EXCEPT !.session.exited = b]
  BY ExitedTyped
<1>3. KeepsPast(Exited(past, t))
  BY <1>1, <1>2 DEF PastType, SessionType, KeepsPast
<1>4. call \in [Threads -> Underway \cup {Absent}] /\ call[t] \in Underway
  BY CallIn DEF Typed, TypedCalls
<1>5. Leaves(t) => KeepsCalls
  BY <1>4 DEF Leaves, KeepsCalls
<1>6. ASSUME call' = [call EXCEPT ![t].at = "processing"] PROVE KeepsCalls
  <2>1. PICK o \in Underway : o = call[t]
    BY <1>4
  <2>2. PICK n : n = [o EXCEPT !.at = "processing"]
    OBVIOUS
  <2>3. n.launch = o.launch /\ n.at = "processing"
    BY <2>2 DEF Underway
  <2>4. call' = [call EXCEPT ![t] = n]
    BY <1>6, <2>1, <2>2
  <2>5. \A v \in Threads : call'[v] = IF v = t THEN n ELSE call[v]
    BY <1>4, <2>4
  <2> QED
    BY <2>1, <2>3, <2>5 DEF KeepsCalls
<1> QED
  BY <1>3, <1>5, <1>6, ExitedTyped

\* More samples are no counters.
LEMMA SamplesOnly ==
  ASSUME Typed, NEW l \in Launches, vendorEvents' = Captured(SampleEvents(l))
  PROVE  \A e \in DOMAIN vendorEvents' \ DOMAIN vendorEvents : e.kind = "pcsampling"
<1>1. /\ SampleEvents(l) \in SUBSET EventType
      /\ \A e \in SampleEvents(l) : e.kind = "pcsampling"
  BY SampleEventsTyped
<1>2. TypedEvents
  BY DEF Typed
<1>3. DOMAIN Captured(SampleEvents(l))
        = DOMAIN vendorEvents \cup (IF switches.capture THEN SampleEvents(l) ELSE {})
  BY <1>1, <1>2, CapturedTyped
<1> QED
  BY <1>1, <1>3

\* The entries of launches are quiet,
LEMMA EnterQuiet ==
  ASSUME Typed, NEW l \in Launches,
         \/ EnterPlain(ThreadOf[l], l) \/ EnterSampling(ThreadOf[l], l)
         \/ \E swap \in Swaps, left \in {{}, {ContextOf[l]}} :
              EnterRefused(ThreadOf[l], l, swap, left)
  PROVE  Quiet
<1> DEFINE t == ThreadOf[l]
<1>1. Entered(t, l)
  BY DEF EnterPlain, EnterSampling, EnterRefused
<1>2. /\ KeepsPast(Begins(past, l)) /\ l \in Begins(past, l).started
      /\ past'.started = Begins(past, l).started => KeepsCalls
      /\ Begins(past, l) \in PastType /\ ContextOf[l] \in Contexts
  BY <1>1, EnteredQuiet, EnteredTyped
<1>3. CASE EnterPlain(t, l)
  BY <1>2, <1>3 DEF EnterPlain, Quiet
<1>4. CASE EnterSampling(t, l)
  <2>1. PICK c \in Contexts : c = ContextOf[l]
    BY <1>2
  <2>2. running' = Synchronized(c).left /\ records' = Synchronized(c).records
    BY <1>4, <2>1 DEF EnterSampling
  <2>3. running' \subseteq running /\ (running = {} => records' = records)
    BY <2>2, SynchronizedTyped
  <2>4. cupti'.activities = cupti.activities
    BY <1>4 DEF EnterSampling, Typed, TypedSampling, CuptiType
  <2> QED
    BY <1>2, <1>4, <2>3, <2>4 DEF EnterSampling, Quiet
<1>5. CASE \E swap \in Swaps, left \in {{}, {ContextOf[l]}} : EnterRefused(t, l, swap, left)
  <2>1. PICK swap \in Swaps, left \in {{}, {ContextOf[l]}} : EnterRefused(t, l, swap, left)
    BY <1>5
  <2>2. PICK c \in Contexts, d \in Nat :
          /\ c = ContextOf[l]
          /\ d = IF c \in sampler.initialized /\ c \notin cupti.enabled THEN 0 ELSE 1
    BY <1>2
  <2>3. left \in SUBSET Contexts /\ Refused(Begins(past, l), c, swap, left, d)
    BY <1>2, <2>1, <2>2 DEF EnterRefused
  <2>4. /\ KeepsPast(past') /\ past'.started = Begins(past, l).started
        /\ switches'.optional = switches.optional
        /\ ~switches.optional => cupti' = cupti
    BY <1>2, <2>3, RefusedQuiet
  <2> QED
    BY <1>2, <2>1, <2>4 DEF EnterRefused, Quiet
<1> QED
  BY <1>3, <1>4, <1>5

\* and so are their exits,
LEMMA ExitQuiet ==
  ASSUME Typed, NEW t \in Threads,
         \/ ExitPlain(t) \/ ExitSampling(t) \/ \E swap \in Swaps : ExitRefused(t, swap)
  PROVE  Quiet
<1>1. call[t] # Absent
  BY DEF ExitPlain, ExitSampling, ExitRefused, AtExit
<1>2. /\ KeepsPast(Exited(past, t)) /\ Exited(past, t) \in PastType
      /\ Leaves(t) => KeepsCalls
      /\ call' = [call EXCEPT ![t].at = "processing"] => KeepsCalls
  BY <1>1, ExitedQuiet
<1>3. CASE ExitPlain(t)
  BY <1>2, <1>3 DEF ExitPlain, Quiet
<1>4. CASE ExitSampling(t)
  <2>1. KeepsPast(past')
    BY <1>4 DEF ExitSampling, KeepsPast, Typed, TypedPast, PastType
  <2>2. cupti'.activities = cupti.activities
    BY <1>4 DEF ExitSampling, Typed, TypedSampling, CuptiType
  <2> QED
    BY <1>2, <1>4, <2>1, <2>2 DEF ExitSampling, Quiet
<1>5. CASE \E swap \in Swaps : ExitRefused(t, swap)
  <2>1. PICK swap \in Swaps : ExitRefused(t, swap)
    BY <1>5
  <2>2. PICK c \in Contexts, d \in Nat :
          c = ContextOf[call[t].launch] /\ d = IF c \in cupti.sampling THEN 1 ELSE 0
    BY <1>1, CallIn
  <2>3. PICK p \in PastType : p = Exited(past, t)
    BY <1>2
  <2>4. Refused(p, c, swap, {}, d) /\ Leaves(t)
    BY <2>1, <2>2, <2>3 DEF ExitRefused
  <2>5. /\ KeepsPast(past') /\ switches'.optional = switches.optional
        /\ ~switches.optional => cupti' = cupti
    BY <1>2, <2>3, <2>4, RefusedQuiet
  <2> QED
    BY <1>2, <2>1, <2>4, <2>5 DEF ExitRefused, Quiet
<1> QED
  BY <1>3, <1>4, <1>5

\* and the rounds of samples.
LEMMA RoundQuiet ==
  ASSUME Typed, NEW t \in Threads,
         \/ Round(t) \/ RoundsDone(t) \/ \E swap \in Swaps : RoundRefused(t, swap)
  PROVE  Quiet
<1>1. processing # Absent /\ processing.thread = t
  BY DEF Round, RoundsDone, RoundRefused
<1>2. PICK l \in Launches : l = call[t].launch /\ ContextOf[l] \in Contexts /\ call[t] # Absent
  BY <1>1, ProcessingIn
<1>3. /\ KeepsPast(Exited(past, t)) /\ Exited(past, t) \in PastType
      /\ Leaves(t) => KeepsCalls
  BY <1>2, ExitedQuiet
<1>4. CASE Round(t)
  <2>1. vendorEvents' = Captured(SampleEvents(l)) /\ past' = past /\ call' = call
    BY <1>2, <1>4 DEF Round
  <2>2. \A e \in DOMAIN vendorEvents' \ DOMAIN vendorEvents : e.kind = "pcsampling"
    BY <2>1, SamplesOnly
  <2>3. KeepsPast(past') /\ KeepsCalls
    BY <2>1 DEF KeepsPast, KeepsCalls
  <2> QED
    BY <1>4, <2>2, <2>3 DEF Round, Quiet
<1>5. CASE RoundsDone(t)
  BY <1>3, <1>5 DEF RoundsDone, Quiet
<1>6. CASE \E swap \in Swaps : RoundRefused(t, swap)
  <2>1. PICK swap \in Swaps : RoundRefused(t, swap)
    BY <1>6
  <2>2. vendorEvents' = Captured(SampleEvents(l))
    BY <1>2, <2>1 DEF RoundRefused
  <2>3. \A e \in DOMAIN vendorEvents' \ DOMAIN vendorEvents : e.kind = "pcsampling"
    BY <2>2, SamplesOnly
  <2>4. PICK p \in PastType, c \in Contexts : p = Exited(past, t) /\ c = ContextOf[l]
    BY <1>2, <1>3
  <2>5. Refused(p, c, swap, {}, 1) /\ Leaves(t)
    BY <1>2, <2>1, <2>4 DEF RoundRefused
  <2>6. /\ KeepsPast(past') /\ switches'.optional = switches.optional
        /\ ~switches.optional => cupti' = cupti
    BY <1>3, <2>4, <2>5, RefusedQuiet
  <2> QED
    BY <1>3, <2>1, <2>3, <2>5, <2>6 DEF RoundRefused, Quiet
<1> QED
  BY <1>4, <1>5, <1>6

\* The steps, by what they do to the counters.
LEMMA StepCases ==
  ASSUME Typed, Next
  PROVE  \/ \E r \in RequestType : MakeSession(r) \/ RejectedStart(r)
         \/ Start \/ Quiet
         \/ \E t \in Threads, l \in Launches, n \in Underway, p \in Nat \ {0} : DriverAs(t, l, p, n)
         \/ Flush \/ Flushed \/ FlushRefused \/ Stop \/ Import
<1>1. CASE \E r \in NextRequests : MakeSession(r) \/ RejectedStart(r)
  <2>1. past.starts < Len(Requests) /\ past.starts \in Nat
    BY <1>1 DEF NextRequests, Typed, TypedPast, PastType
  <2>2. Requests[past.starts + 1] \subseteq RequestType
    BY <2>1, NvidiaAssumption DEF RequestType
  <2> QED
    BY <1>1, <2>1, <2>2 DEF NextRequests
<1>2. CASE \E l \in Launches : LET t == ThreadOf[l] IN
             \/ EnterPlain(t, l) \/ EnterSampling(t, l)
             \/ \E swap \in Swaps, left \in {{}, {ContextOf[l]}} : EnterRefused(t, l, swap, left)
  BY <1>2, EnterQuiet
<1>3. CASE \E t \in Threads :
             \/ \E passes \in 1..MaxPasses : Driver(t, passes)
             \/ ExitPlain(t) \/ ExitSampling(t) \/ Round(t) \/ RoundsDone(t)
             \/ \E swap \in Swaps : ExitRefused(t, swap) \/ RoundRefused(t, swap)
  <2>1. PICK t \in Threads :
             \/ \E passes \in 1..MaxPasses : Driver(t, passes)
             \/ ExitPlain(t) \/ ExitSampling(t) \/ Round(t) \/ RoundsDone(t)
             \/ \E swap \in Swaps : ExitRefused(t, swap) \/ RoundRefused(t, swap)
    BY <1>3
  <2>2. CASE \E passes \in 1..MaxPasses : Driver(t, passes)
    <3>1. PICK passes \in 1..MaxPasses : Driver(t, passes)
      BY <2>2
    <3>2. passes \in Nat \ {0}
      BY NvidiaAssumption
    <3>3. \E l \in Launches, n \in Underway : DriverAs(t, l, passes, n)
      BY <3>1, DriverIs
    <3> QED
      BY <3>2, <3>3
  <2>3. CASE ExitPlain(t) \/ ExitSampling(t) \/ \E swap \in Swaps : ExitRefused(t, swap)
    BY <2>3, ExitQuiet
  <2>4. CASE Round(t) \/ RoundsDone(t) \/ \E swap \in Swaps : RoundRefused(t, swap)
    BY <2>4, RoundQuiet
  <2> QED
    BY <2>1, <2>2, <2>3, <2>4
<1> QED
  BY <1>1, <1>2, <1>3 DEF Next

----------------------------------------------------------------------------
(* The objects of the range profiler.                                       *)

\* Each is held by the counters, or CUPTI keeps it; a session that has counters
\* and was not stranded is under way.
CountersHeld ==
  /\ nvpw.objects \subseteq past.kept \cup counters.held
  /\ ~past.stranded => /\ counters.held # {} => counters.active
                       /\ counters.active => phase \in {"running", "flushing", "flushed"}

\* The calls that destroy an object are calls of the start.
LEMMA DestroyIn ==
  ASSUME NEW o \in NvpwObjects
  PROVE  Destroy(o) \in 1..15
<1>1. Call("~evaluator") \in 1..15 /\ Call("~rawConfig") \in 1..15 /\ Call("~builder") \in 1..15
  <2>1. DOMAIN Setup = 1..15 /\ Setup[7] = "~rawConfig" /\ Setup[10] = "~builder"
        /\ Setup[11] = "~evaluator"
    BY DEF Setup
  <2> QED
    BY <2>1 DEF Call
<1> QED
  BY <1>1 DEF Destroy, NvpwObjects

\* A start that fails leaves what CUPTI keeps, and the object it failed to destroy.
LEMMA StartHolds ==
  ASSUME Typed, CountersHeld, NEW c, NEW n \in {Success} \cup DOMAIN Setup, NEW kept,
         CountersStart(c, n, kept), phase = "made",
         past'.kept = past.kept \cup kept \cup {o \in NvpwObjects : Destroy(o) = n},
         ~past'.stranded => ~past.stranded /\ phase' = "running"
  PROVE  CountersHeld'
<1>1. /\ counters \in CounterType /\ nvpw \in NvpwType
  BY DEF Typed, TypedCounters
<1>2. n \in 1..16
  BY DEF Success, Setup
<1> DEFINE held == counters.held \cup Begun(n)
           base == [counters EXCEPT !.active = FALSE, !.kernelEvents = <<>>]
<1>3. base.held = counters.held /\ base.active = FALSE
      /\ DOMAIN base = {"configured", "active", "held", "context", "kernelEvents"}
  BY <1>1 DEF CounterType
<1>4. CASE ~counters.configured \/ c = Absent
  <2>1. counters' = base /\ nvpw' = nvpw
    BY <1>4 DEF CountersStart
  <2>2. counters'.held = counters.held /\ ~counters'.active
    BY <1>3, <2>1
  <2>3. ~past.stranded => counters.held = {}
    BY DEF CountersHeld
  <2> QED
    BY <2>1, <2>2, <2>3 DEF CountersHeld
<1>5. CASE ~(~counters.configured \/ c = Absent) /\ n = Success
  <2>1. /\ counters' = [base EXCEPT !.held = held, !.context = c, !.active = TRUE]
        /\ nvpw' = [objects |-> nvpw.objects \cup Begun(n), ranges |-> <<>>]
    BY <1>5 DEF CountersStart
  <2> HIDE DEF base, held
  <2>2. counters'.held = held /\ counters'.active
    BY <1>3, <2>1
  <2>3. nvpw'.objects = nvpw.objects \cup Begun(n)
    BY <2>1
  <2> QED
    BY <2>2, <2>3 DEF CountersHeld, held
<1>6. CASE ~(~counters.configured \/ c = Absent) /\ n # Success
  <2>1. /\ counters' = Ended([base EXCEPT !.context = c])
        /\ nvpw' = [nvpw EXCEPT !.objects =
                       ((@ \cup Begun(n) \cup Alive(n)) \ Caught(n)) \ (held \ kept)]
    BY <1>6 DEF CountersStart
  <2> HIDE DEF base
  <2>2. counters'.held = {} /\ ~counters'.active
    BY <1>3, <2>1 DEF Ended
  <2>3. nvpw'.objects
          = ((nvpw.objects \cup Begun(n) \cup Alive(n)) \ Caught(n)) \ (held \ kept)
    BY <1>1, <2>1 DEF NvpwType
  <2>4. ASSUME NEW o \in nvpw'.objects PROVE o \in past'.kept
    <3>1. CASE o \in held
      BY <2>3, <2>4, <3>1
    <3>2. CASE o \notin held /\ o \in nvpw.objects
      BY <3>2 DEF CountersHeld
    <3>3. CASE o \notin held /\ o \notin nvpw.objects
      <4>1. o \in Alive(n) /\ o \notin Caught(n)
        BY <2>3, <2>4, <3>3
      <4>2. o \in NvpwObjects /\ Call(o) < n /\ n <= Destroy(o) /\ ~(n < Destroy(o))
        BY <4>1 DEF Alive, Caught
      <4>3. Destroy(o) = n
        BY <1>2, <4>2, DestroyIn
      <4> QED
        BY <4>2, <4>3
    <3> QED
      BY <3>1, <3>2, <3>3
  <2> QED
    BY <2>2, <2>4 DEF CountersHeld
<1> QED
  BY <1>4, <1>5, <1>6

\* Every step keeps it.
LEMMA CountersHeldKept ==
  ASSUME Typed, CountersHeld, [Next]_vars
  PROVE  CountersHeld'
<1>0. /\ counters \in CounterType /\ nvpw \in NvpwType /\ past \in PastType
      /\ counters.active \in BOOLEAN /\ past.stranded \in BOOLEAN
  BY DEF Typed, TypedCounters, TypedPast, CounterType, PastType
<1>1. ASSUME NEW r \in RequestType, MakeSession(r) PROVE CountersHeld'
  <2>1. /\ nvpw' = nvpw /\ past'.kept = past.kept /\ phase = "idle"
        /\ past'.stranded = (past.stranded \/ (r.backend = "nvidia" /\ counters.active))
    BY <1>0, <1>1 DEF MakeSession, PastType
  <2>2. counters'.held = counters.held /\ (~counters.active => ~counters'.active)
    BY <1>0, <1>1 DEF MakeSession, ConfiguredCounters, CounterType
  <2> QED
    BY <2>1, <2>2 DEF CountersHeld
<1>2. ASSUME NEW r \in RequestType, RejectedStart(r) PROVE CountersHeld'
  <2>1. PICK b \in BOOLEAN : b = (past.switchedOff \/ (switches.pc /\ ~switches'.pc))
    <3>1. switches'.pc \in BOOLEAN /\ switches.pc \in BOOLEAN /\ past.switchedOff \in BOOLEAN
      BY <1>0, <1>2, RejectedStartTyped DEF Typed, TypedControl, SwitchType, PastType
    <3> QED
      BY <3>1
  <2>2. past' = [past EXCEPT !.starts = @ + 1,
                    !.stranded = @ \/ (r.backend = "nvidia" /\ counters.active),
                    !.switchedOff = b]
    BY <1>2, <2>1 DEF RejectedStart
  <2>3. /\ nvpw' = nvpw /\ past'.kept = past.kept /\ phase' = phase /\ phase = "running"
        /\ past'.stranded = (past.stranded \/ (r.backend = "nvidia" /\ counters.active))
    BY <1>0, <1>2, <2>2 DEF RejectedStart, PastType
  <2>4. /\ counters'.held = counters.held
        /\ counters'.active = (r.backend # "nvidia" /\ counters.active)
    BY <1>0, <1>2 DEF RejectedStart, ConfiguredCounters, CounterType
  <2> QED
    BY <2>3, <2>4 DEF CountersHeld
<1>3. ASSUME Start PROVE CountersHeld'
  <2>1. PICK c \in Contexts \cup {Absent}, n \in {Success} \cup DOMAIN Setup,
           kept \in SUBSET CuptiObjects, on \in BOOLEAN,
           A \in SUBSET (KernelKinds \cup MemoryKinds),
           C \in SUBSET {"resource", "graph", "runtime", "driver"}, d \in Nat :
        StartsAs(c, n, kept, on, A, C, d)
    BY <1>3, StartIs
  <2>2. phase = "made"
    BY <1>3, StartIs
  <2>3. /\ past'.kept = past.kept \cup kept \cup {o \in NvpwObjects : Destroy(o) = n}
        /\ past'.stranded = (past.stranded \/ phase' = "idle")
    BY <1>0, <2>1 DEF StartsAs, PastType
  <2>4. phase' \in {"idle", "running"} /\ (~past'.stranded => ~past.stranded /\ phase' = "running")
    BY <2>1, <2>3 DEF StartsAs
  <2>5. CASE CountersStart(c, n, kept)
    BY <2>2, <2>3, <2>4, <2>5, StartHolds
  <2>6. CASE ~on /\ UNCHANGED <<counters, nvpw>>
    BY <2>1, <2>2, <2>3, <2>4, <2>6 DEF CountersHeld, StartsAs
  <2> QED
    BY <2>1, <2>5, <2>6 DEF StartsAs
<1>4. ASSUME Quiet PROVE CountersHeld'
  BY <1>4 DEF Quiet, KeepsPast, CountersHeld
<1>5. ASSUME NEW t \in Threads, NEW l \in Launches, NEW n \in Underway, NEW p \in Nat \ {0},
             DriverAs(t, l, p, n)
      PROVE  CountersHeld'
  <2>1. nvpw'.objects = nvpw.objects /\ counters' = counters /\ phase' = phase
    BY <1>0, <1>5 DEF DriverAs, NvpwType
  <2>2. past'.kept = past.kept /\ past'.stranded = past.stranded
    BY <1>0, <1>5 DEF DriverAs, PastType
  <2> QED
    BY <2>1, <2>2 DEF CountersHeld
<1>6. ASSUME Flush PROVE CountersHeld'
  BY <1>0, <1>6 DEF Flush, DoFlush, CountersHeld, PastType
<1>7. ASSUME Flushed PROVE CountersHeld'
  <2>1. /\ nvpw' = nvpw /\ phase' = "flushed" /\ phase = "flushing"
        /\ past'.kept = past.kept /\ past'.stranded = past.stranded
    BY <1>0, <1>7 DEF Flushed, Deliver, PastType
  <2>2. counters'.held = counters.held /\ counters'.active = counters.active
    BY <1>0, <1>7 DEF Flushed, Deliver, CounterType
  <2> QED
    BY <2>1, <2>2 DEF CountersHeld
<1>8. ASSUME FlushRefused PROVE CountersHeld'
  BY <1>0, <1>8 DEF FlushRefused, CountersHeld, PastType
<1>9. ASSUME Stop PROVE CountersHeld'
  <2>0. PICK done : \E n \in 0..MaxRanges, kept \in SUBSET CuptiObjects, throws \in BOOLEAN,
           m \in BOOLEAN, d \in Nat, b \in BOOLEAN : StopsAs(n, kept, done, throws, m, d, b)
    BY <1>9, StopIs
  <2>1. PICK n \in 0..MaxRanges, kept \in SUBSET CuptiObjects, throws \in BOOLEAN,
           m \in BOOLEAN, d \in Nat, b \in BOOLEAN : StopsAs(n, kept, done, throws, m, d, b)
    BY <2>0
  <2>2. past'.kept = past.kept \cup kept /\ past'.stranded = past.stranded
    BY <1>0, <2>1 DEF StopsAs, PastType
  <2>3. CASE ~counters.active
    BY <2>1, <2>2, <2>3 DEF StopsAs, CountersStop, CountersHeld
  <2>4. CASE counters.active
    <3>1. counters' = Ended(counters) /\ nvpw' = [nvpw EXCEPT !.objects = Released(kept)]
      BY <2>1, <2>4 DEF StopsAs, CountersStop
    <3>2. counters'.held = {} /\ ~counters'.active
      BY <1>0, <3>1 DEF Ended, CounterType
    <3>3. nvpw'.objects = nvpw.objects \ (counters.held \ kept)
      BY <1>0, <3>1 DEF Released, NvpwType
    <3> QED
      BY <2>2, <3>2, <3>3 DEF CountersHeld
  <2> QED
    BY <2>3, <2>4
<1>10. ASSUME Import PROVE CountersHeld'
  BY <1>10 DEF Import, CountersHeld
<1>11. ASSUME UNCHANGED vars PROVE CountersHeld'
  BY <1>11 DEF CountersHeld, vars
<1> QED
  BY <1>1, <1>2, <1>3, <1>4, <1>5, <1>6, <1>7, <1>8, <1>9, <1>10, <1>11, StepCases

\* Between sessions nothing of the range profiler is left, whichever call of
\* NvidiaHardwareCounters::start, stop or cleanup has failed, but for what CUPTI
\* keeps, and whatever the launches, the threads and the refusals are.
THEOREM CountersAlwaysReleased == Spec => []CountersReleased
<1>1. Init => Typed /\ CountersHeld
  <2>1. Init => /\ counters.held = {} /\ ~counters.active
                /\ nvpw.objects = {}
    BY DEF Init
  <2> QED
    BY <2>1, InitTyped DEF CountersHeld
<1>2. Typed /\ CountersHeld /\ [Next]_vars => (Typed /\ CountersHeld)'
  BY StepTyped, StutterTyped, CountersHeldKept
<1>3. Typed /\ CountersHeld => CountersReleased
  BY DEF CountersHeld, CountersReleased
<1> QED
  BY <1>1, <1>2, <1>3, PTL DEF Spec

----------------------------------------------------------------------------
(* The ranges and the kernels that are recorded.                            *)

\* The first elements of a sequence, again.
LEMMA WithinIs ==
  ASSUME NEW T, NEW s \in Seq(T), NEW n \in Nat, NEW m \in Nat,
         m = IF Len(s) < n THEN Len(s) ELSE n, NEW w, w = Within(s, n)
  PROVE  w \in Seq(T) /\ Len(w) = m /\ \A i \in 1..m : w[i] = s[i]
<1>1. m \in 0..Len(s)
  OBVIOUS
<1>2. w = SubSeq(s, 1, m)
  BY DEF Within
<1>3. SubSeq(s, 1, m) \in Seq(T) /\ Len(SubSeq(s, 1, m)) = m
      /\ \A i \in 1..m : SubSeq(s, 1, m)[i] = s[i]
  <2>1. \A i \in 1..m : s[i] \in T
    BY <1>1
  <2> QED
    BY <1>1
<1> QED
  BY <1>2, <1>3

\* The elements of a concatenation.
LEMMA ConcatIs ==
  ASSUME NEW T, NEW s \in Seq(T), NEW u \in Seq(T), NEW n \in Nat, n = Len(s),
         NEW m \in Nat, m = Len(u), NEW x, x = s \o u
  PROVE  /\ x \in Seq(T) /\ Len(x) = n + m
         /\ \A i \in 1..n : x[i] = s[i]
         /\ \A i \in n + 1 .. n + m : x[i] = u[i - n]
BY ConcatProperties

\* More ranges than fit are dropped one launch after the other as they would be
\* all at once.
LEMMA WithinConcat ==
  ASSUME NEW T, NEW h \in Seq(T), NEW ks \in Seq(T), NEW n \in Nat
  PROVE  Within(Within(h, n) \o ks, n) = Within(h \o ks, n)
<1>1. PICK a \in Nat, b \in Nat : a = Len(h) /\ b = Len(ks)
  OBVIOUS
<1>2. PICK m \in Nat : m = IF a < n THEN a ELSE n
  OBVIOUS
<1>3. PICK w : w = Within(h, n)
  OBVIOUS
<1>4. w \in Seq(T) /\ Len(w) = m /\ \A i \in 1..m : w[i] = h[i]
  BY <1>1, <1>2, <1>3, WithinIs
<1>5. PICK x : x = w \o ks
  OBVIOUS
<1>6. /\ x \in Seq(T) /\ Len(x) = m + b
      /\ \A i \in 1..m : x[i] = w[i]
      /\ \A i \in m + 1 .. m + b : x[i] = ks[i - m]
  <2>1. w \in Seq(T) /\ m \in Nat /\ m = Len(w) /\ b \in Nat /\ b = Len(ks)
    BY <1>1, <1>4
  <2>2. x \in Seq(T) /\ Len(x) = m + b
    BY <2>1, <1>5, ConcatIs
  <2>3. \A i \in 1..m : x[i] = w[i]
    BY <2>1, <1>5, ConcatIs
  <2>4. \A i \in m + 1 .. m + b : x[i] = ks[i - m]
    BY <2>1, <1>5, ConcatIs
  <2> QED
    BY <2>2, <2>3, <2>4
<1>7. PICK y : y = h \o ks
  OBVIOUS
<1>8. /\ y \in Seq(T) /\ Len(y) = a + b
      /\ \A i \in 1..a : y[i] = h[i]
      /\ \A i \in a + 1 .. a + b : y[i] = ks[i - a]
  BY <1>1, <1>7, ConcatIs
<1>9. PICK k \in Nat : k = IF a + b < n THEN a + b ELSE n
  OBVIOUS
<1>10. k = IF m + b < n THEN m + b ELSE n
  BY <1>2, <1>9
<1>14. PICK p, q : p = Within(x, n) /\ q = Within(y, n)
  OBVIOUS
<1>11. p \in Seq(T) /\ Len(p) = k /\ \A i \in 1..k : p[i] = x[i]
  BY <1>6, <1>10, <1>14, WithinIs
<1>12. q \in Seq(T) /\ Len(q) = k /\ \A i \in 1..k : q[i] = y[i]
  BY <1>8, <1>9, <1>14, WithinIs
<1>13. ASSUME NEW i \in 1..k PROVE x[i] = y[i]
  <2>1. CASE i <= m
    <3>1. i \in 1..m /\ i \in 1..a
      BY <1>2, <2>1
    <3> QED
      BY <1>4, <1>6, <1>8, <3>1
  <2>2. CASE m < i
    <3>1. m = a /\ i \in m + 1 .. m + b
      BY <1>2, <1>9, <2>2
    <3> QED
      BY <1>6, <1>8, <3>1
  <2> QED
    BY <2>1, <2>2
<1>15. p \in Seq(T) /\ q \in Seq(T) /\ Len(p) = Len(q) /\ \A i \in 1..Len(p) : p[i] = q[i]
  BY <1>11, <1>12, <1>13, <1>14
<1>16. p = q
  BY <1>15, SeqEqual
<1> QED
  BY <1>3, <1>5, <1>7, <1>14, <1>16

\* The copy of a launch, or none; kernels of other launches only.
MayCopy(l, copy) == copy \in {<<>>, <<Copy(l)>>}
NewTo(h, l) == \A i \in 1..Len(h) : h[i][1] # l

\* The kernels of a launch, of which none is known, behind those that are.
LEMMA LaunchRecorded ==
  ASSUME NEW known, NEW rs \in Seq(Kernel), NEW h \in Seq(Kernel), RecordedAll(known, rs) = h,
         NEW l \in Launches, NEW p \in Nat \ {0}, NEW copy \in Seq(Kernel),
         MayCopy(l, copy), NewTo(h, l),
         NEW all, all = Joined(Joined(rs, copy), Repeated(Kernels(l), p))
  PROVE  RecordedAll(known, all) = Joined(h, Kernels(l))
<1> PICK T : T = Kernel
  OBVIOUS
<1>1. rs \o copy \in Seq(Kernel) /\ RecordedAll(known, rs \o copy) = h
  <2>1. CASE copy = <<>>
    <3>1. rs \o <<>> = rs
      BY ConcatEmptySeq
    <3> QED
      BY <2>1, <3>1
  <2>2. CASE copy = <<Copy(l)>>
    <3>1. PICK r \in T : r = Copy(l) /\ r[2] = 0
      BY KernelsTyped
    <3>2. rs \in Seq(T) /\ rs \o <<r>> = Append(rs, r)
      OBVIOUS
    <3>3. RecordedAll(known, Append(rs, r))
            = IF r[2] = 0 THEN RecordedAll(known, rs) ELSE Recorded(RecordedAll(known, rs), r)
      BY <3>2, RecordedOne
    <3>4. Append(rs, r) \in Seq(T)
      BY <3>2
    <3> QED
      BY <2>2, <3>1, <3>2, <3>3, <3>4
  <2> QED
    BY <2>1, <2>2 DEF MayCopy
<1>2. PICK ks \in Seq(Kernel) : ks = Kernels(l)
  BY KernelsTyped
<1>3. \A i \in 1..Len(ks) : ks[i] = <<l, i>>
  BY <1>2, KernelsTyped
<1>4. \A k \in ToSet(h) : k[1] # l
  <2>1. DOMAIN h = 1..Len(h)
    OBVIOUS
  <2> QED
    BY <2>1 DEF ToSet, NewTo
<1>5. \A i \in 1..Len(ks) : ks[i][2] # 0 /\ ks[i] \notin ToSet(h)
  BY <1>3, <1>4
<1>6. \A i, j \in 1..Len(ks) : ks[i] = ks[j] => i = j
  BY <1>3
<1>7. PICK qs \in Seq(Kernel) : qs = rs \o copy
  BY <1>1
<1>8. RecordedAll(known, qs) = h
  BY <1>1, <1>7
<1>9. all = Joined(qs, Repeated(ks, p))
  BY <1>2, <1>7 DEF Joined
<1>10. Unknown(ks, h)
  BY <1>5, <1>6 DEF Unknown
<1>11. RecordedAll(known, all) = Joined(h, ks)
  BY <1>8, <1>9, <1>10, RecordedRepeated
<1> QED
  BY <1>2, <1>11

\* Counters are configured without PC sampling, and run when they are configured;
\* in a session whose kernels are all replayed none is left on the device.
Exclusive ==
  /\ counters.configured => ~switches.optional
  /\ counters.active => counters.configured
  /\ past.session.alone => running = {}

\* A session starts with nothing recorded.
MadeFresh ==
  phase = "made" /\ request.backend = "nvidia" =>
    /\ ~counters.active /\ counters.kernelEvents = <<>>
    /\ past.session.alone => records = <<>>

\* The kernels that are recorded, with those in the records that will be, are the
\* kernels of the ranges, in their order.
Aligned ==
  phase \in {"running", "flushing", "flushed"} /\ request.backend = "nvidia"
  /\ past.session.alone /\ counters.active =>
    /\ cupti.activities \cap KernelKinds # {}
    /\ \E h \in Seq(Kernel) :
         /\ nvpw.ranges = Within(h, MaxRanges)
         /\ RecordedAll(counters.kernelEvents, records) = h
         /\ \A i \in 1..Len(h) : Taken(h[i][1])

\* Counters come at the end, each with its kernel.
CountersMatch(events) ==
  \A e \in events : e.kind = "hardware_counter" => e.kernel \in {e.of, Absent}
NoCounters ==
  phase \in {"made", "running", "flushing", "flushed"} /\ request.backend = "nvidia" =>
    \A e \in DOMAIN vendorEvents : e.kind # "hardware_counter"
Matched == phase = "stopped" /\ past.session.alone => CountersMatch(DOMAIN vendorEvents)

RangesInvariant ==
  /\ CallsOwn /\ Exclusive /\ MadeFresh /\ Aligned /\ NoCounters /\ Matched
  /\ RangesNameTheirKernel

\* It holds at first.
LEMMA InitRanges ==
  ASSUME Init
  PROVE  RangesInvariant
<1>1. CallsOwn
  BY DEF Init, CallsOwn
<1>2. Exclusive
  BY DEF Init, Exclusive
<1>3. phase = "idle" /\ artifact = Absent
  BY DEF Init
<1> QED
  BY <1>1, <1>2, <1>3 DEF RangesInvariant, MadeFresh, Aligned, NoCounters, Matched,
                          RangesNameTheirKernel

\* What a request configures excludes the one or the other.
LEMMA ConfigureExclusive ==
  ASSUME Typed, Exclusive, NEW r \in RequestType, Configure(r),
         counters' = IF r.backend = "nvidia" THEN ConfiguredCounters(r) ELSE counters
  PROVE  /\ counters'.configured => ~switches'.optional
         /\ counters'.active => counters'.configured
         /\ r.backend = "nvidia" => /\ ~counters'.active /\ counters'.kernelEvents = <<>>
                                    /\ DOMAIN vendorEvents' = {}
         /\ r.backend # "nvidia" => counters' = counters /\ vendorEvents' = vendorEvents
<1>1. counters \in CounterType /\ switches \in SwitchType
  BY DEF Typed, TypedControl, TypedCounters
<1>2. CASE r.backend = "nvidia"
  <2>1. /\ counters'.configured = Counts(r) /\ ~counters'.active
        /\ counters'.kernelEvents = <<>>
    BY <1>1, <1>2 DEF ConfiguredCounters, CounterType
  <2>2. switches'.optional = Samples(r)
    BY <1>1, <1>2 DEF Configure, Configured, SwitchType
  <2>3. ~(Counts(r) /\ Samples(r))
    BY DEF Samples
  <2>4. DOMAIN vendorEvents' = {}
    BY <1>2 DEF Configure, EmptyBag, SetToBag
  <2> QED
    BY <1>2, <2>1, <2>2, <2>3, <2>4
<1>3. CASE r.backend # "nvidia"
  <2>1. switches'.optional = switches.optional
    BY <1>1, <1>3 DEF Configure, SwitchType
  <2> QED
    BY <1>3, <2>1 DEF Exclusive, Configure
<1> QED
  BY <1>2, <1>3

\* A session that is made keeps it,
LEMMA MakeSessionRanges ==
  ASSUME Typed, RangesInvariant, NEW r \in RequestType, MakeSession(r)
  PROVE  RangesInvariant'
<1>1. past \in PastType
  BY DEF Typed, TypedPast
<1>2. /\ counters'.configured => ~switches'.optional
      /\ counters'.active => counters'.configured
      /\ r.backend = "nvidia" => /\ ~counters'.active /\ counters'.kernelEvents = <<>>
                                 /\ DOMAIN vendorEvents' = {}
  BY ConfigureExclusive DEF RangesInvariant, MakeSession
<1>3. PICK a \in BOOLEAN : a = (running = {} /\ records = <<>>)
  OBVIOUS
<1>4. past'.session = [Session0 EXCEPT !.alone = a] /\ past'.started = past.started
  BY <1>1, <1>3 DEF MakeSession, PastType
<1>5. past'.session.alone = a
  BY <1>4 DEF Session0
<1>6. /\ phase' = "made" /\ request' = r /\ artifact' = Absent
      /\ UNCHANGED <<call, running, records>>
  BY DEF MakeSession
<1>7. CallsOwn'
  BY <1>4, <1>6 DEF RangesInvariant, CallsOwn
<1>8. Exclusive'
  BY <1>2, <1>3, <1>5, <1>6 DEF Exclusive
<1>9. MadeFresh' /\ NoCounters'
  BY <1>2, <1>3, <1>5, <1>6 DEF MadeFresh, NoCounters
<1> QED
  BY <1>6, <1>7, <1>8, <1>9 DEF RangesInvariant, Aligned, Matched, RangesNameTheirKernel

\* and a start that is rejected.
LEMMA RejectedStartRanges ==
  ASSUME Typed, RangesInvariant, NEW r \in RequestType, RejectedStart(r)
  PROVE  RangesInvariant'
<1>1. past \in PastType
  BY DEF Typed, TypedPast
<1>2. /\ counters'.configured => ~switches'.optional
      /\ counters'.active => counters'.configured
      /\ r.backend = "nvidia" => /\ ~counters'.active /\ counters'.kernelEvents = <<>>
                                 /\ DOMAIN vendorEvents' = {}
      /\ r.backend # "nvidia" => counters' = counters /\ vendorEvents' = vendorEvents
  BY ConfigureExclusive DEF RangesInvariant, RejectedStart
<1>3. past'.session = past.session /\ past'.started = past.started
  BY <1>1 DEF RejectedStart, PastType
<1>4. /\ phase = "running" /\ phase' = "running"
      /\ UNCHANGED <<request, cupti, nvpw, call, running, records, artifact>>
  BY DEF RejectedStart
<1>5. CallsOwn' /\ \A l : Taken(l)' = Taken(l)
  BY <1>3, <1>4 DEF RangesInvariant, CallsOwn, Taken
<1>6. Exclusive'
  BY <1>2, <1>3, <1>4 DEF RangesInvariant, Exclusive
<1>7. Aligned'
  <2>1. CASE r.backend = "nvidia"
    BY <1>2, <2>1 DEF Aligned
  <2>2. CASE r.backend # "nvidia"
    BY <1>2, <1>3, <1>4, <1>5, <2>2 DEF RangesInvariant, Aligned
  <2> QED
    BY <2>1, <2>2
<1>8. NoCounters'
  BY <1>2, <1>4 DEF RangesInvariant, NoCounters
<1>9. RangesNameTheirKernel'
  BY <1>3, <1>4 DEF RangesInvariant, RangesNameTheirKernel
<1> QED
  BY <1>4, <1>5, <1>6, <1>7, <1>8, <1>9 DEF RangesInvariant, MadeFresh, Matched

\* The start of a session: no range, and nothing recorded.
LEMMA StartRanges ==
  ASSUME Typed, RangesInvariant, Start
  PROVE  RangesInvariant'
<1>1. PICK c \in Contexts \cup {Absent}, n \in {Success} \cup DOMAIN Setup,
           kept \in SUBSET CuptiObjects, on \in BOOLEAN,
           A \in SUBSET (KernelKinds \cup MemoryKinds),
           C \in SUBSET {"resource", "graph", "runtime", "driver"}, d \in Nat :
        StartsAs(c, n, kept, on, A, C, d)
  BY StartIs
<1>2. phase = "made"
  BY StartIs
<1>3. past \in PastType /\ counters \in CounterType /\ nvpw \in NvpwType /\ cupti \in CuptiType
      /\ switches \in SwitchType
  BY DEF Typed, TypedControl, TypedCounters, TypedPast, TypedSampling
<1>4. past'.session = past.session /\ past'.started = past.started
  BY <1>1, <1>3 DEF StartsAs, PastType
<1>5. switches'.optional = switches.optional
  BY <1>1, <1>3 DEF StartsAs, SwitchType
<1>6. /\ UNCHANGED <<request, call, running, records, vendorEvents, artifact>>
      /\ phase' \in {"idle", "running"}
  BY <1>1 DEF StartsAs
<1>7. /\ counters'.configured = counters.configured
      /\ counters'.active => counters.configured \/ counters' = counters
      /\ CountersStart(c, n, kept) /\ counters'.active =>
           nvpw'.ranges = <<>> /\ counters'.kernelEvents = <<>>
  <2>1. CASE UNCHANGED counters /\ ~CountersStart(c, n, kept)
    BY <2>1
  <2>2. CASE CountersStart(c, n, kept)
    <3> DEFINE base == [counters EXCEPT !.active = FALSE, !.kernelEvents = <<>>]
    <3>1. /\ base.configured = counters.configured /\ base.active = FALSE
          /\ base.kernelEvents = <<>>
          /\ DOMAIN base = {"configured", "active", "held", "context", "kernelEvents"}
      BY <1>3 DEF CounterType
    <3>2. CASE ~counters.configured \/ c = Absent
      BY <2>2, <3>1, <3>2 DEF CountersStart
    <3>3. CASE ~(~counters.configured \/ c = Absent) /\ n = Success
      <4>1. /\ counters' = [base EXCEPT !.held = counters.held \cup Begun(n), !.context = c,
                                        !.active = TRUE]
            /\ nvpw' = [objects |-> nvpw.objects \cup Begun(n), ranges |-> <<>>]
        BY <2>2, <3>3 DEF CountersStart
      <4> HIDE DEF base
      <4> QED
        BY <3>1, <3>3, <4>1
    <3>4. CASE ~(~counters.configured \/ c = Absent) /\ n # Success
      <4>1. counters' = Ended([base EXCEPT !.context = c])
        BY <2>2, <3>4 DEF CountersStart
      <4> HIDE DEF base
      <4> QED
        BY <3>1, <4>1 DEF Ended
    <3> QED
      BY <3>2, <3>3, <3>4
  <2> QED
    BY <1>1, <2>1, <2>2 DEF StartsAs
<1>8. CallsOwn'
  BY <1>4, <1>6 DEF RangesInvariant, CallsOwn
<1>9. Exclusive'
  BY <1>4, <1>5, <1>6, <1>7 DEF RangesInvariant, Exclusive
<1>10. Aligned'
  <2>1. SUFFICES ASSUME phase' = "running", request'.backend = "nvidia",
                        past'.session.alone, counters'.active
                 PROVE  /\ cupti'.activities \cap KernelKinds # {}
                        /\ \E h \in Seq(Kernel) :
                             /\ nvpw'.ranges = Within(h, MaxRanges)
                             /\ RecordedAll(counters'.kernelEvents, records') = h
                             /\ \A i \in 1..Len(h) : Taken(h[i][1])'
    BY <1>6 DEF Aligned
  <2>2. on /\ KernelKind \in A /\ CountersStart(c, n, kept)
    BY <1>1, <2>1 DEF StartsAs
  <2>3. cupti'.activities = cupti.activities \cup A
    BY <1>1, <1>3 DEF StartsAs, CuptiType
  <2>4. KernelKind \in KernelKinds
    BY DEF KernelKind, KernelKinds
  <2>5. records' = <<>>
    BY <1>2, <1>4, <1>6, <2>1 DEF RangesInvariant, MadeFresh
  <2>6. nvpw'.ranges = <<>> /\ RecordedAll(counters'.kernelEvents, records') = <<>>
    BY <1>7, <2>1, <2>2, <2>5, RecordedNone
  <2>7. <<>> \in Seq(Kernel) /\ Len(<<>>) = 0
    BY EmptySeq
  <2>8. Within(<<>>, MaxRanges) = <<>>
    <3>1. Len(<<>>) < MaxRanges
      BY NvidiaAssumption
    <3> QED
      BY <3>1 DEF Within
  <2>9. \E h \in Seq(Kernel) :
          /\ nvpw'.ranges = Within(h, MaxRanges)
          /\ RecordedAll(counters'.kernelEvents, records') = h
          /\ \A i \in 1..Len(h) : Taken(h[i][1])'
    <3> WITNESS <<>> \in Seq(Kernel)
    <3> QED
      BY <2>6, <2>7, <2>8
  <2> QED
    BY <2>2, <2>3, <2>4, <2>9
<1>11. NoCounters'
  BY <1>2, <1>6 DEF RangesInvariant, NoCounters
<1>12. RangesNameTheirKernel'
  BY <1>4, <1>6 DEF RangesInvariant, RangesNameTheirKernel
<1> QED
  BY <1>6, <1>8, <1>9, <1>10, <1>11, <1>12 DEF RangesInvariant, MadeFresh, Matched

\* The callbacks take nothing from the records of a session of replays.
LEMMA QuietRanges ==
  ASSUME Typed, RangesInvariant, Quiet
  PROVE  RangesInvariant'
<1>1. ASSUME NEW l, Taken(l) PROVE Taken(l)'
  <2>1. l \in past'.started
    BY <1>1 DEF Taken, Quiet, KeepsPast
  <2>2. ASSUME NEW t \in Threads, call'[t] # Absent
        PROVE  call'[t].launch # l \/ call'[t].at # "entered"
    BY <1>1, <2>2 DEF Taken, Quiet, KeepsCalls
  <2> QED
    BY <2>1, <2>2 DEF Taken
<1>2. CallsOwn'
  BY DEF RangesInvariant, CallsOwn, Quiet, KeepsCalls, KeepsPast
<1>3. Exclusive'
  BY DEF RangesInvariant, Exclusive, Quiet, KeepsPast
<1>4. past.session.alone => records' = records /\ running = {}
  BY DEF RangesInvariant, Exclusive, Quiet
<1>5. MadeFresh'
  BY <1>4 DEF RangesInvariant, MadeFresh, Quiet, KeepsPast
<1>6. Aligned'
  <2>1. SUFFICES ASSUME phase' \in {"running", "flushing", "flushed"},
                        request'.backend = "nvidia", past'.session.alone, counters'.active
                 PROVE  /\ cupti'.activities \cap KernelKinds # {}
                        /\ \E h \in Seq(Kernel) :
                             /\ nvpw'.ranges = Within(h, MaxRanges)
                             /\ RecordedAll(counters'.kernelEvents, records') = h
                             /\ \A i \in 1..Len(h) : Taken(h[i][1])'
    BY DEF Aligned
  <2>2. /\ past.session.alone /\ counters.active /\ request.backend = "nvidia"
        /\ phase \in {"running", "flushing", "flushed"}
        /\ nvpw' = nvpw /\ counters' = counters
    BY <2>1 DEF Quiet, KeepsPast
  <2>3. ~switches.optional /\ records' = records /\ cupti'.activities = cupti.activities
    BY <1>4, <2>2 DEF RangesInvariant, Exclusive, Quiet
  <2>4. cupti.activities \cap KernelKinds # {}
    BY <2>2 DEF RangesInvariant, Aligned
  <2>5. PICK h \in Seq(Kernel) :
          /\ nvpw.ranges = Within(h, MaxRanges)
          /\ RecordedAll(counters.kernelEvents, records) = h
          /\ \A i \in 1..Len(h) : Taken(h[i][1])
    BY <2>2 DEF RangesInvariant, Aligned
  <2>6. /\ nvpw'.ranges = Within(h, MaxRanges)
        /\ RecordedAll(counters'.kernelEvents, records') = h
        /\ \A i \in 1..Len(h) : Taken(h[i][1])'
    BY <1>1, <2>2, <2>3, <2>5
  <2> QED
    BY <2>3, <2>4, <2>6
<1>7. NoCounters' /\ Matched'
  BY DEF RangesInvariant, NoCounters, Matched, CountersMatch, Quiet, KeepsPast
<1>8. RangesNameTheirKernel'
  BY DEF RangesInvariant, RangesNameTheirKernel, Quiet, KeepsPast
<1> QED
  BY <1>2, <1>3, <1>5, <1>6, <1>7, <1>8 DEF RangesInvariant

\* A launch that is replayed has its ranges behind the others, and its records.
LEMMA DriverRanges ==
  ASSUME Typed, RangesInvariant, NEW t \in Threads, NEW l \in Launches, NEW n \in Underway,
         NEW p \in Nat \ {0}, DriverAs(t, l, p, n)
  PROVE  RangesInvariant'
<1>1. /\ past \in PastType /\ past.session \in SessionType /\ nvpw \in NvpwType
      /\ cupti \in CuptiType /\ call \in [Threads -> Underway \cup {Absent}]
      /\ records \in Seq(Kernel) /\ MaxRanges \in Nat
  BY NvidiaAssumption DEF Typed, TypedPast, PastType, TypedCounters, TypedSampling, TypedCalls,
     TypedRecords
<1>2. /\ past'.started = past.started
      /\ past'.session.alone = (past.session.alone /\ Replays(l))
  BY <1>1 DEF DriverAs, PastType, SessionType
<1>3. /\ UNCHANGED <<phase, request, switches, counters, vendorEvents, artifact>>
      /\ cupti'.activities = cupti.activities
  BY <1>1 DEF DriverAs, CuptiType
<1>4. /\ \A v \in Threads : call'[v] = IF v = t THEN n ELSE call[v]
      /\ n.launch = l /\ n.at = "launched" /\ n # Absent
      /\ call[t].launch = l /\ call[t] # Absent /\ call[t].at = "entered"
  BY <1>1, AbsentAssumption DEF DriverAs
<1>5. l \in past.started /\ \A v \in Threads : call[v] # Absent /\ call[v].launch = l => v = t
  BY <1>4 DEF RangesInvariant, CallsOwn
<1>6. Taken(l)'
  <2>1. ASSUME NEW v \in Threads, call'[v] # Absent
        PROVE  call'[v].launch # l \/ call'[v].at # "entered"
    BY <1>4, <1>5, <2>1
  <2> QED
    BY <1>2, <1>5, <2>1 DEF Taken
<1>7. ASSUME NEW k, Taken(k) PROVE Taken(k)' /\ k # l
  <2>1. k # l
    BY <1>4, <1>7 DEF Taken
  <2>2. ASSUME NEW v \in Threads, call'[v] # Absent
        PROVE  call'[v].launch # k \/ call'[v].at # "entered"
    BY <1>4, <1>7, <2>2 DEF Taken
  <2> QED
    BY <1>2, <1>7, <2>1, <2>2 DEF Taken
<1>8. CallsOwn'
  BY <1>2, <1>4 DEF RangesInvariant, CallsOwn
<1>9. past'.session.alone => running' = running /\ counters.active
  BY <1>2 DEF DriverAs, Replays
<1>10. Exclusive'
  BY <1>2, <1>3, <1>9 DEF RangesInvariant, Exclusive
<1>11. MadeFresh'
  BY <1>2, <1>3, <1>9 DEF RangesInvariant, MadeFresh
<1>12. Aligned'
  <2>1. SUFFICES ASSUME phase' \in {"running", "flushing", "flushed"},
                        request'.backend = "nvidia", past'.session.alone, counters'.active
                 PROVE  /\ cupti'.activities \cap KernelKinds # {}
                        /\ \E h \in Seq(Kernel) :
                             /\ nvpw'.ranges = Within(h, MaxRanges)
                             /\ RecordedAll(counters'.kernelEvents, records') = h
                             /\ \A i \in 1..Len(h) : Taken(h[i][1])'
    BY DEF Aligned
  <2>2. /\ past.session.alone /\ Replays(l) /\ counters.active /\ request.backend = "nvidia"
        /\ phase \in {"running", "flushing", "flushed"}
    BY <1>2, <1>3, <2>1
  <2>3. cupti.activities \cap KernelKinds # {}
    BY <2>2 DEF RangesInvariant, Aligned
  <2>4. PICK h \in Seq(Kernel) :
          /\ nvpw.ranges = Within(h, MaxRanges)
          /\ RecordedAll(counters.kernelEvents, records) = h
          /\ \A i \in 1..Len(h) : Taken(h[i][1])
    BY <2>2 DEF RangesInvariant, Aligned
  <2>5. PICK ks \in Seq(Kernel) : ks = Kernels(l)
    BY KernelsTyped
  <2>6. PICK g : g = h \o ks
    OBVIOUS
  <2>7. g \in Seq(Kernel)
    BY <2>6, ConcatProperties
  <2>8. nvpw'.ranges = Within(g, MaxRanges)
    <3>1. nvpw'.ranges = Within(nvpw.ranges \o ks, MaxRanges)
      BY <1>1, <2>2, <2>5 DEF DriverAs, NvpwType
    <3>2. Within(Within(h, MaxRanges) \o ks, MaxRanges) = Within(h \o ks, MaxRanges)
      BY <1>1, WithinConcat
    <3> QED
      BY <2>4, <2>6, <3>1, <3>2
  <2>9. RecordedAll(counters'.kernelEvents, records') = g
    <3>1. PICK copy \in Seq(Kernel) :
            /\ copy \in {<<>>, <<Copy(l)>>}
            /\ records' = (records \o copy) \o Repeated(Kernels(l), p)
      BY <2>2, <2>3 DEF DriverAs
    <3>2. NewTo(h, l) /\ MayCopy(l, copy)
      BY <1>7, <2>4, <3>1 DEF NewTo, MayCopy
    <3>3. PICK known : known = counters.kernelEvents
      OBVIOUS
    <3>4. PICK rs \in Seq(Kernel) : rs = records /\ RecordedAll(known, rs) = h
      BY <1>1, <2>4, <3>3
    <3>5. PICK all : all = Joined(Joined(rs, copy), Repeated(Kernels(l), p))
      OBVIOUS
    <3>6. RecordedAll(known, all) = Joined(h, Kernels(l))
      BY <3>2, <3>4, <3>5, LaunchRecorded
    <3>7. records' = all /\ g = Joined(h, Kernels(l)) /\ counters'.kernelEvents = known
      BY <1>3, <2>5, <2>6, <3>1, <3>3, <3>4, <3>5 DEF Joined
    <3> QED
      BY <3>6, <3>7
  <2>10. \A i \in 1..Len(g) : Taken(g[i][1])'
    <3>1. PICK a \in Nat, b \in Nat : a = Len(h) /\ b = Len(ks)
      OBVIOUS
    <3>2. Len(g) = a + b
      BY <2>6, <3>1, ConcatIs
    <3>3. \A i \in 1..a : g[i] = h[i]
      BY <2>6, <3>1, ConcatIs
    <3>4. \A i \in a + 1 .. a + b : g[i] = ks[i - a]
      BY <2>6, <3>1, ConcatIs
    <3>5. \A i \in 1..b : ks[i] = <<l, i>>
      BY <2>5, <3>1, KernelsTyped
    <3>6. ASSUME NEW i \in 1..Len(g) PROVE Taken(g[i][1])'
      <4>1. CASE i \in 1..a
        BY <1>7, <2>4, <3>1, <3>3, <4>1
      <4>2. CASE i \notin 1..a
        <5>1. i \in a + 1 .. a + b /\ i - a \in 1..b
          BY <3>2, <4>2
        <5>2. g[i] = <<l, i - a>>
          BY <3>4, <3>5, <5>1
        <5>3. g[i][1] = l
          BY <5>2
        <5> QED
          BY <1>6, <5>3
      <4> QED
        BY <4>1, <4>2
    <3> QED
      BY <3>6
  <2> QED
    BY <1>3, <2>3, <2>7, <2>8, <2>9, <2>10
<1>13. NoCounters' /\ Matched' /\ RangesNameTheirKernel'
  BY <1>2, <1>3 DEF RangesInvariant, NoCounters, Matched, RangesNameTheirKernel
<1> QED
  BY <1>8, <1>10, <1>11, <1>12, <1>13 DEF RangesInvariant

\* The flush finds no kernel on the device,
LEMMA FlushRanges ==
  ASSUME Typed, RangesInvariant, Flush
  PROVE  RangesInvariant'
<1>1. /\ past \in PastType /\ past.session \in SessionType /\ records \in Seq(Kernel)
  BY DEF Typed, TypedPast, PastType, TypedRecords
<1>2. PICK c \in Callers, ended \in SUBSET {k.kernel[1] : k \in running} : DoFlush(c, ended)
  BY DEF Flush
<1>3. /\ phase = "running" /\ phase' = "flushing"
      /\ UNCHANGED <<request, switches, counters, cupti, nvpw, vendorEvents, call, artifact>>
  BY <1>2 DEF Flush, DoFlush
<1>4. past'.started = past.started /\ past'.session.alone = past.session.alone
  BY <1>1, <1>2 DEF DoFlush, PastType, SessionType
<1>5. PICK K \in SUBSET running : running' = running \ K /\ records' = records \o RecordsOf(K)
  BY <1>2 DEF DoFlush
<1>6. past.session.alone => running' = {} /\ records' = records
  <2>1. ASSUME past.session.alone PROVE running' = {} /\ records' = records
    <3>1. running = {}
      BY <2>1 DEF RangesInvariant, Exclusive
    <3>2. K = {} /\ K \in SUBSET RunningType /\ IsFiniteSet(K)
      BY <3>1, FS_EmptySet
    <3>3. RecordsOf(K) = <<>>
      BY <3>2, RecordsOfTyped
    <3>4. records \o <<>> = records
      BY <1>1, ConcatEmptySeq
    <3> QED
      BY <1>5, <3>1, <3>3, <3>4
  <2> QED
    BY <2>1
<1>7. CallsOwn' /\ \A l : Taken(l)' = Taken(l)
  BY <1>3, <1>4 DEF RangesInvariant, CallsOwn, Taken
<1>8. Exclusive'
  BY <1>3, <1>4, <1>6 DEF RangesInvariant, Exclusive
<1>9. Aligned'
  BY <1>3, <1>4, <1>6, <1>7 DEF RangesInvariant, Aligned
<1>10. NoCounters' /\ RangesNameTheirKernel'
  BY <1>3, <1>4 DEF RangesInvariant, NoCounters, RangesNameTheirKernel
<1> QED
  BY <1>3, <1>7, <1>8, <1>9, <1>10 DEF RangesInvariant, MadeFresh, Matched

\* takes the records,
LEMMA FlushedRanges ==
  ASSUME Typed, RangesInvariant, Flushed
  PROVE  RangesInvariant'
<1>1. /\ past \in PastType /\ past.session \in SessionType /\ records \in Seq(Kernel)
      /\ counters \in CounterType /\ TypedEvents
  BY DEF Typed, TypedPast, PastType, TypedRecords, TypedCounters
<1>2. /\ phase = "flushing" /\ phase' = "flushed" /\ records' = <<>>
      /\ UNCHANGED <<request, switches, cupti, nvpw, running, call, artifact>>
  BY DEF Flushed, Deliver
<1>3. past'.started = past.started /\ past'.session.alone = past.session.alone
  BY <1>1 DEF Flushed, Deliver, PastType, SessionType
<1>4. /\ counters'.configured = counters.configured /\ counters'.active = counters.active
      /\ counters.active => counters'.kernelEvents = RecordedAll(counters.kernelEvents, records)
  BY <1>1 DEF Flushed, Deliver, CounterType
<1>5. CallsOwn' /\ \A l : Taken(l)' = Taken(l)
  BY <1>2, <1>3 DEF RangesInvariant, CallsOwn, Taken
<1>6. Exclusive'
  BY <1>2, <1>3, <1>4 DEF RangesInvariant, Exclusive
<1>7. Aligned'
  <2>1. SUFFICES ASSUME request'.backend = "nvidia", past'.session.alone, counters'.active
                 PROVE  /\ cupti'.activities \cap KernelKinds # {}
                        /\ \E h \in Seq(Kernel) :
                             /\ nvpw'.ranges = Within(h, MaxRanges)
                             /\ RecordedAll(counters'.kernelEvents, records') = h
                             /\ \A i \in 1..Len(h) : Taken(h[i][1])'
    BY DEF Aligned
  <2>2. /\ past.session.alone /\ counters.active /\ request.backend = "nvidia"
    BY <1>2, <1>3, <1>4, <2>1
  <2>3. cupti.activities \cap KernelKinds # {}
    BY <1>2, <2>2 DEF RangesInvariant, Aligned
  <2>4. PICK h \in Seq(Kernel) :
          /\ nvpw.ranges = Within(h, MaxRanges)
          /\ RecordedAll(counters.kernelEvents, records) = h
          /\ \A i \in 1..Len(h) : Taken(h[i][1])
    BY <1>2, <2>2 DEF RangesInvariant, Aligned
  <2>5. RecordedAll(counters'.kernelEvents, records') = h
    BY <1>2, <1>4, <2>2, <2>4, RecordedNone
  <2> QED
    BY <1>2, <1>5, <2>3, <2>4, <2>5
<1>8. NoCounters'
  <2>1. \A e \in DOMAIN vendorEvents' \ DOMAIN vendorEvents : e.kind # "hardware_counter"
    <3> DEFINE kind(r) == IF r[2] # 0 THEN "kernel" ELSE "memory"
               E == {Event(kind(r), r[1], r) : r \in ToSet(records)}
    <3>1. E \in SUBSET EventType
      <4>1. ToSet(records) \in SUBSET Kernel
        <5> PICK T : T = Kernel
          OBVIOUS
        <5>1. \A i \in DOMAIN records : records[i] \in T
          BY <1>1
        <5>2. ToSet(records) \in SUBSET T
          BY <5>1 DEF ToSet
        <5> QED
          BY <5>2
      <4>2. \A r \in Kernel : Event(kind(r), r[1], r) \in EventType
        BY DEF Event, EventType, Kernel
      <4> QED
        BY <4>1, <4>2
    <3>2. \A e \in E : e.kind # "hardware_counter"
      BY DEF Event
    <3>3. vendorEvents' = Captured(E)
      BY DEF Flushed, Deliver
    <3> HIDE DEF E
    <3>4. DOMAIN Captured(E) = DOMAIN vendorEvents \cup (IF switches.capture THEN E ELSE {})
      BY <1>1, <3>1, CapturedTyped
    <3> QED
      BY <3>2, <3>3, <3>4
  <2> QED
    BY <1>2, <2>1 DEF RangesInvariant, NoCounters
<1>9. RangesNameTheirKernel'
  BY <1>2, <1>3 DEF RangesInvariant, RangesNameTheirKernel
<1> QED
  BY <1>2, <1>5, <1>6, <1>7, <1>8, <1>9 DEF RangesInvariant, MadeFresh, Matched

\* or is refused.
LEMMA FlushRefusedRanges ==
  ASSUME Typed, RangesInvariant, FlushRefused
  PROVE  RangesInvariant'
<1>1. past \in PastType /\ past.session \in SessionType
  BY DEF Typed, TypedPast, PastType
<1>2. /\ phase = "flushing" /\ phase' = "flushed"
      /\ UNCHANGED <<request, switches, counters, cupti, nvpw, vendorEvents, call, artifact,
                     running, records>>
  BY DEF FlushRefused
<1>3. past'.started = past.started /\ past'.session.alone = past.session.alone
  BY <1>1 DEF FlushRefused, PastType, SessionType
<1>4. CallsOwn' /\ \A l : Taken(l)' = Taken(l)
  BY <1>2, <1>3 DEF RangesInvariant, CallsOwn, Taken
<1>5. Exclusive'
  BY <1>2, <1>3 DEF RangesInvariant, Exclusive
<1>6. Aligned'
  BY <1>2, <1>3, <1>4 DEF RangesInvariant, Aligned
<1>7. NoCounters' /\ RangesNameTheirKernel'
  BY <1>2, <1>3 DEF RangesInvariant, NoCounters, RangesNameTheirKernel
<1> QED
  BY <1>2, <1>4, <1>5, <1>6, <1>7 DEF RangesInvariant, MadeFresh, Matched

\* The ranges that are evaluated, each with the kernel that is recorded at its place.
LEMMA RangesMatch ==
  ASSUME Typed, NEW n \in 0..Evaluated, NEW h \in Seq(Kernel),
         nvpw.ranges = Within(h, MaxRanges),
         RecordedAll(counters.kernelEvents, records) = h
  PROVE  CountersMatch(RangeEvents(n))
<1> PICK T : T = Kernel
  OBVIOUS
<1>1. counters.kernelEvents \in Seq(T) /\ records \in Seq(T) /\ MaxRanges \in Nat
      /\ nvpw.ranges \in Seq(T) /\ h \in Seq(T)
  BY NvidiaAssumption DEF Typed, TypedCounters, TypedRecords, CounterType, NvpwType
<1>2. PICK known \in Seq(T) : known = counters.kernelEvents
  BY <1>1
<1>3. PICK rs \in Seq(T) : rs = records /\ RecordedAll(known, rs) = h
  BY <1>1, <1>2
<1>4. Len(known) <= Len(RecordedAll(known, rs))
  BY RecordedExtends
<1>5. \A i \in 1..Len(known) : RecordedAll(known, rs)[i] = known[i]
  BY RecordedExtends
<1>6. Len(known) <= Len(h) /\ \A i \in 1..Len(known) : h[i] = known[i]
  BY <1>3, <1>4, <1>5
<1>7. PICK m \in Nat : m = IF Len(h) < MaxRanges THEN Len(h) ELSE MaxRanges
  BY <1>1
<1>8. PICK ranges : ranges = nvpw.ranges
  OBVIOUS
<1>9. ranges \in Seq(T) /\ Len(ranges) = m /\ \A i \in 1..m : ranges[i] = h[i]
  BY <1>1, <1>7, <1>8, WithinIs
<1>10. n \in Nat /\ n <= m
  BY <1>1, <1>8, <1>9 DEF Evaluated
<1> DEFINE named(i) == IF i <= Len(known) THEN known[i] ELSE Absent
<1>11. RangeEvents(n) = {[kind |-> "hardware_counter", scope |-> Absent, kernel |-> named(i),
                          of |-> ranges[i]] : i \in 1..n}
  BY <1>2, <1>8 DEF RangeEvents
<1>12. ASSUME NEW i \in 1..n PROVE named(i) \in {ranges[i], Absent}
  <2>1. i \in 1..m /\ ranges[i] = h[i]
    BY <1>9, <1>10
  <2>2. CASE i <= Len(known)
    <3>1. i \in 1..Len(known)
      BY <1>2, <2>2
    <3> QED
      BY <1>6, <2>1, <2>2, <3>1
  <2>3. CASE ~(i <= Len(known))
    BY <2>3
  <2> QED
    BY <2>2, <2>3
<1> HIDE DEF named
<1>13. ASSUME NEW e \in RangeEvents(n) PROVE e.kernel \in {e.of, Absent}
  <2>1. PICK i \in 1..n : e = [kind |-> "hardware_counter", scope |-> Absent,
                               kernel |-> named(i), of |-> ranges[i]]
    BY <1>11, <1>13
  <2>2. e.kernel = named(i) /\ e.of = ranges[i]
    BY <2>1
  <2> QED
    BY <1>12, <2>2
<1> QED
  BY <1>13 DEF CountersMatch

\* The end of a session: the counters of its kernels are theirs,
LEMMA StopRanges ==
  ASSUME Typed, RangesInvariant, Stop
  PROVE  RangesInvariant'
<1>1. /\ past \in PastType /\ counters \in CounterType /\ switches \in SwitchType /\ TypedEvents
  BY DEF Typed, TypedControl, TypedPast, TypedCounters
<1>2. PICK done : \E n \in 0..MaxRanges, kept \in SUBSET CuptiObjects, throws \in BOOLEAN,
           m \in BOOLEAN, d \in Nat, b \in BOOLEAN : StopsAs(n, kept, done, throws, m, d, b)
  BY StopIs
<1>3. PICK n \in 0..MaxRanges, kept \in SUBSET CuptiObjects, throws \in BOOLEAN,
           m \in BOOLEAN, d \in Nat, b \in BOOLEAN : StopsAs(n, kept, done, throws, m, d, b)
  BY <1>2
<1>4. /\ phase = "flushed" /\ phase' \in {"idle", "stopped"}
      /\ phase' = "stopped" => request.backend # "cupti"
      /\ UNCHANGED <<request, call, artifact>>
  BY <1>3 DEF StopsAs
<1>5. request.backend \in {"nvidia", "cupti"}
  BY <1>4 DEF Typed, TypedControl, RequestType
<1>6. past'.started = past.started /\ past'.session = past.session
  BY <1>1, <1>3 DEF StopsAs, PastType
<1>7. switches'.optional = switches.optional
  BY <1>1, <1>3 DEF StopsAs, SwitchType
<1>8. counters'.configured = counters.configured /\ ~counters'.active
  <2>1. CASE ~counters.active
    BY <1>3, <2>1 DEF StopsAs, CountersStop
  <2>2. CASE counters.active
    BY <1>1, <1>3, <2>2 DEF StopsAs, CountersStop, Ended, CounterType
  <2> QED
    BY <2>1, <2>2
<1>9. running = {} => running' = {}
  BY <1>3 DEF StopsAs, Forgotten
<1>10. CallsOwn'
  BY <1>4, <1>6 DEF RangesInvariant, CallsOwn
<1>11. Exclusive'
  BY <1>6, <1>7, <1>8, <1>9 DEF RangesInvariant, Exclusive
<1>12. Matched'
  <2>1. SUFFICES ASSUME phase' = "stopped", past.session.alone
                 PROVE  CountersMatch(DOMAIN vendorEvents')
    BY <1>6 DEF Matched
  <2>2. request.backend = "nvidia"
    BY <1>4, <1>5, <2>1
  <2>3. CountersMatch(DOMAIN vendorEvents)
    BY <1>4, <2>2 DEF RangesInvariant, NoCounters, CountersMatch
  <2>4. PICK E : E = IF counters.active THEN RangeEvents(n) ELSE {}
    OBVIOUS
  <2>5. CountersMatch(E)
    <3>1. CASE counters.active
      <4>1. n \in 0..Evaluated
        BY <1>3, <3>1 DEF StopsAs, CountersStop
      <4>2. PICK h \in Seq(Kernel) :
              /\ nvpw.ranges = Within(h, MaxRanges)
              /\ RecordedAll(counters.kernelEvents, records) = h
        BY <1>4, <2>1, <2>2, <3>1 DEF RangesInvariant, Aligned
      <4>3. CountersMatch(RangeEvents(n))
        BY <4>1, <4>2, RangesMatch
      <4> QED
        BY <2>4, <3>1, <4>3
    <3>2. CASE ~counters.active
      BY <2>4, <3>2 DEF CountersMatch
    <3> QED
      BY <3>1, <3>2
  <2>6. DOMAIN vendorEvents' = DOMAIN vendorEvents \cup E
    <3>1. vendorEvents' = vendorEvents (+) SetToBag(E)
      BY <1>3, <2>4 DEF StopsAs
    <3> QED
      BY <1>1, <3>1, MoreEvents DEF TypedEvents
  <2> QED
    BY <2>3, <2>5, <2>6 DEF CountersMatch
<1>13. RangesNameTheirKernel'
  BY <1>4, <1>6 DEF RangesInvariant, RangesNameTheirKernel
<1> QED
  BY <1>4, <1>10, <1>11, <1>12, <1>13 DEF RangesInvariant, MadeFresh, Aligned, NoCounters

\* and so are those of its artifact.
LEMMA ImportRanges ==
  ASSUME Typed, RangesInvariant, Import
  PROVE  RangesInvariant'
<1>1. switches \in SwitchType
  BY DEF Typed, TypedControl
<1>2. /\ phase = "stopped" /\ phase' = "idle"
      /\ UNCHANGED <<counters, call, running, past>>
      /\ switches'.optional = switches.optional
  BY <1>1 DEF Import, SwitchType
<1>3. CallsOwn' /\ Exclusive'
  BY <1>2 DEF RangesInvariant, CallsOwn, Exclusive
<1>4. artifact'.events \subseteq DOMAIN vendorEvents
  BY DEF Import, BagToSet
<1>5. RangesNameTheirKernel'
  BY <1>2, <1>4 DEF RangesInvariant, Matched, CountersMatch, RangesNameTheirKernel
<1> QED
  BY <1>2, <1>3, <1>5 DEF RangesInvariant, MadeFresh, Aligned, NoCounters, Matched

\* Every step keeps the ranges with their kernels.
LEMMA RangesKept ==
  ASSUME Typed, RangesInvariant, [Next]_vars
  PROVE  RangesInvariant'
<1>1. ASSUME Next PROVE RangesInvariant'
  BY <1>1, StepCases, MakeSessionRanges, RejectedStartRanges, StartRanges, QuietRanges,
     DriverRanges, FlushRanges, FlushedRanges, FlushRefusedRanges, StopRanges, ImportRanges
<1>2. ASSUME UNCHANGED vars PROVE RangesInvariant'
  BY <1>2 DEF vars, RangesInvariant, CallsOwn, Exclusive, MadeFresh, Aligned, Taken, NoCounters,
              Matched, RangesNameTheirKernel
<1> QED
  BY <1>1, <1>2

\* The counters of a range are given to the kernel they were counted for, for any
\* launches, graphs, replays and number of ranges: a session whose kernels were all
\* replayed has no counters of one kernel under another.
THEOREM RangesAlwaysNameTheirKernel == Spec => []RangesNameTheirKernel
<1>1. Init => Typed /\ RangesInvariant
  BY InitTyped, InitRanges
<1>2. Typed /\ RangesInvariant /\ [Next]_vars => (Typed /\ RangesInvariant)'
  BY StepTyped, StutterTyped, RangesKept
<1>3. RangesInvariant => RangesNameTheirKernel
  BY DEF RangesInvariant
<1> QED
  BY <1>1, <1>2, <1>3, PTL DEF Spec

----------------------------------------------------------------------------
(* What is lost is reported.                                                 *)

\* There is an event of the kind.
Announced(kind) == \E e \in DOMAIN vendorEvents : e.kind = kind
\* The kernels on the device that will have a record.
Watched == {k.kernel : k \in {x \in running : x.observed}}

\* There is a session, and it asks for something.
Asking == phase # "idle" /\ Asks(request)

\* The session that is under way has its request's switches on, and nothing yet
\* when it was only made.
SwitchesSet ==
  /\ phase = "stopped" => request.backend = "nvidia"
  /\ artifact # Absent => phase = "idle"
  /\ phase = "running" => past.subscribers # 0
  /\ phase = "made" =>
       past.session.launched = {} /\ ~past.session.copied /\ ~past.session.exited
  /\ Asking /\ phase # "stopped" =>
       /\ switches.capture
       /\ "memory" \in Enabled(request) => switches.memory
       /\ phase = "made" => counters.configured = Counts(request)

CountersAccounted ==
  Asking /\ Counts(request) =>
    /\ phase \in {"running", "flushing", "flushed"} => counters.active \/ "counters" \in reasons
    /\ phase = "stopped" => Announced("hardware_counter") \/ "counters" \in reasons

MemoryAccounted ==
  Asking /\ "memory" \in Enabled(request) =>
    /\ phase = "running" => MemoryKinds \subseteq cupti.activities
    /\ past.session.copied =>
         /\ phase \in {"running", "flushing"} =>
              Announced("memory") \/ \E r \in ToSet(records) : r[2] = 0
         /\ phase \in {"flushed", "stopped"} => Announced("memory") \/ "flush" \in reasons

KernelsAccounted ==
  /\ \A k \in past.session.launched \cup past.session.due : k[2] # 0
  /\ ~past.session.blind =>
       /\ phase = "running" =>
            /\ cupti.activities \cap KernelKinds # {}
            /\ past.session.launched
                 \subseteq past.session.based \cup ToSet(records) \cup Watched
       /\ phase = "flushing" =>
            past.session.due \subseteq past.session.based \cup ToSet(records)
       /\ phase = "flushed" => past.session.due \subseteq past.session.based

\* Two launches under way at once are known to overlap.
Overlapping ==
  /\ \A t, u \in Threads : t # u /\ call[t] # Absent /\ call[u] # Absent =>
       {call[t].launch, call[u].launch} \in past.overlaps
  /\ \A t \in Threads : call[t] # Absent => call[t].heard <= past.subscribers

\* A launch of kernels that CUPTI reports to this session and that is alone.
Alone(t) ==
  /\ call[t] # Absent /\ Nodes[call[t].launch] # 0
  /\ call[t].heard = past.subscribers
  /\ \A pair \in past.overlaps : call[t].launch \notin pair

\* Its samples are on their way.
OnTheirWay(t) ==
  /\ call[t].at # "processing" => sampler.started
  /\ call[t].at = "launched" /\ ContextOf[call[t].launch] \in cupti.sampling =>
       cupti.sampled # <<>>
  /\ call[t].at = "processing" => buffer.total # <<>> \/ Announced("pcsampling")

\* Samples are asked for, and nothing says that they are missing.
Sought ==
  Asking /\ "instruction" \in Enabled(request) /\ "pcsampling" \notin reasons /\ ~aborted

SamplesAccounted ==
  Sought =>
    /\ phase \in {"made", "running"} => switches.pc
    /\ phase = "running" => \A t \in Threads : Alone(t) => OnTheirWay(t)
    /\ past.session.exited => Announced("pcsampling")

\* What the artifact of the last session lacks without a reason.
Lost(kind) == kind \in Asked(request) /\ ~\E e \in artifact.events : e.kind = kind
ArtifactTells ==
  artifact # Absent /\ artifact.reasons = {} =>
    /\ past.session.launched # {} => ~Lost("hardware_counter")
    /\ past.session.exited => ~Lost("pcsampling")
    /\ past.session.copied => ~Lost("memory")

Accounted ==
  SwitchesSet /\ CountersAccounted /\ MemoryAccounted /\ KernelsAccounted /\ ArtifactTells

\* What a plan asks for: counters or instructions, never both.
LEMMA RequestIs ==
  ASSUME NEW r \in RequestType
  PROVE  /\ Counts(r) => Enabled(r) # {}
         /\ "instruction" \in Enabled(r) => ~Counts(r) /\ Samples(r) /\ Enabled(r) # {}
         /\ "memory" \in Enabled(r) => Enabled(r) # {}
         /\ "hardware_counter" \in Asked(r) => Counts(r)
         /\ "memory" \in Asked(r) <=> "memory" \in Enabled(r)
         /\ "pcsampling" \in Asked(r) <=> "instruction" \in Enabled(r)
<1>1. Counts(r) => Enabled(r) # {}
  <2>1. SUFFICES ASSUME Counts(r) PROVE Enabled(r) # {}
    OBVIOUS
  <2>2. PICK m : m \in r.metrics /\ m \in HardwareMetrics
    BY <2>1 DEF Counts
  <2>3. m \in Supported /\ m # "instruction"
    BY <2>2 DEF HardwareMetrics, Supported
  <2>4. m \in Enabled(r)
    BY <2>1, <2>2, <2>3 DEF Enabled
  <2> QED
    BY <2>4
<1>2. "instruction" \in Enabled(r) => ~Counts(r) /\ Samples(r)
  BY DEF Enabled, Samples
<1> QED
  BY <1>1, <1>2 DEF Asked

\* Every kernel that is replayed has a record.
LEMMA RepeatedAll ==
  ASSUME NEW ks \in Seq(Kernel), NEW p \in Nat \ {0}
  PROVE  ToSet(ks) \subseteq ToSet(Repeated(ks, p))
<1>1. PICK n \in Nat : n = Len(ks)
  OBVIOUS
<1>2. PICK m \in Nat : m = n * p
  OBVIOUS
<1>3. /\ Repeated(ks, p) \in Seq(Kernel) /\ Len(Repeated(ks, p)) = m
      /\ \A j \in 1..m : Repeated(ks, p)[j] = ks[Reached(p, j)]
  BY <1>1, <1>2, RepeatedTyped
<1>4. ASSUME NEW i \in 1..n
      PROVE  ks[i] \in ToSet(Repeated(ks, p))
  <2>1. PICK h \in Nat : i = h + 1
    <3>1. i - 1 \in Nat /\ i = (i - 1) + 1
      BY <1>4
    <3> QED
      BY <3>1
  <2>2. (h * p + 0) \div p = h
    BY QuotientIs
  <2>3. PICK a \in Nat : a = h * p
    OBVIOUS
  <2>4. a \div p = h
    BY <2>2, <2>3
  <2>5. a + p <= m
    <3>1. (h + 1) * p <= n * p
      BY <1>4, <2>1, TimesOrder
    <3>2. (h + 1) * p = h * p + p
      BY Z3
    <3> QED
      BY <1>2, <2>3, <3>1, <3>2
  <2>6. a + 1 \in 1..m /\ (a + 1) - 1 = a /\ a + 1 # 0
    BY <2>3, <2>5
  <2>7. Reached(p, a + 1) = i
    BY <2>1, <2>4, <2>6 DEF Reached
  <2>8. Repeated(ks, p)[a + 1] = ks[i]
    BY <1>3, <2>6, <2>7
  <2> QED
    BY <1>3, <2>6, <2>8 DEF ToSet
<1> QED
  BY <1>1, <1>4 DEF ToSet

\* Each of its values is in the set of a sequence.
LEMMA ValueIn ==
  ASSUME NEW s, NEW n \in Nat, DOMAIN s = 1..n, NEW i \in 1..n
  PROVE  s[i] \in ToSet(s)
BY DEF ToSet

\* What a sequence has is in every longer one.
LEMMA ConcatHas ==
  ASSUME NEW T, NEW s \in Seq(T), NEW u \in Seq(T), NEW x, x = s \o u
  PROVE  ToSet(x) = ToSet(s) \cup ToSet(u)
<1>1. PICK n \in Nat, m \in Nat : n = Len(s) /\ m = Len(u)
  OBVIOUS
<1>2. /\ x \in Seq(T) /\ Len(x) = n + m
      /\ \A i \in 1..n : x[i] = s[i]
      /\ \A i \in n + 1 .. n + m : x[i] = u[i - n]
  BY <1>1, ConcatIs
<1>3. DOMAIN s = 1..n /\ DOMAIN u = 1..m
  BY <1>1
<1>4. PICK k \in Nat : k = n + m /\ DOMAIN x = 1..k
  BY <1>1, <1>2
<1>5. ASSUME NEW i \in 1..k PROVE x[i] \in ToSet(s) \cup ToSet(u)
  <2>1. CASE i \in 1..n
    <3>1. s[i] \in ToSet(s)
      BY <1>3, <2>1, ValueIn
    <3> QED
      BY <1>2, <2>1, <3>1
  <2>2. CASE i \notin 1..n
    <3>1. i \in n + 1 .. n + m /\ i - n \in 1..m
      BY <1>4, <2>2
    <3>2. PICK j \in 1..m : j = i - n
      BY <3>1
    <3>3. u[j] \in ToSet(u)
      BY <1>3, <3>2, ValueIn
    <3> QED
      BY <1>2, <3>1, <3>2, <3>3
  <2> QED
    BY <2>1, <2>2
<1>6. ASSUME NEW i \in 1..n PROVE s[i] \in ToSet(x)
  <2>1. i \in 1..k
    BY <1>4
  <2>2. x[i] \in ToSet(x)
    BY <1>4, <2>1, ValueIn
  <2> QED
    BY <1>2, <2>2
<1>7. ASSUME NEW i \in 1..m PROVE u[i] \in ToSet(x)
  <2>1. PICK j \in Nat : j = n + i
    OBVIOUS
  <2>2. j \in n + 1 .. n + m /\ j - n = i /\ j \in 1..k
    BY <1>4, <2>1
  <2>3. x[j] \in ToSet(x)
    BY <1>4, <2>2, ValueIn
  <2>4. x[j] = u[i]
    BY <1>2, <2>2
  <2> QED
    BY <2>3, <2>4
<1>8. ToSet(x) \subseteq ToSet(s) \cup ToSet(u)
  <2>1. ToSet(x) = {x[i] : i \in 1..k}
    BY <1>4 DEF ToSet
  <2> QED
    BY <1>5, <2>1
<1>9. ToSet(s) \subseteq ToSet(x)
  <2>1. ToSet(s) = {s[i] : i \in 1..n}
    BY <1>3 DEF ToSet
  <2> QED
    BY <1>6, <2>1
<1>10. ToSet(u) \subseteq ToSet(x)
  <2>1. ToSet(u) = {u[i] : i \in 1..m}
    BY <1>3 DEF ToSet
  <2> QED
    BY <1>7, <2>1
<1> QED
  BY <1>8, <1>9, <1>10

\* ... in a form that can be cited.
LEMMA JoinedHas ==
  ASSUME NEW T, NEW s \in Seq(T), NEW u \in Seq(T)
  PROVE  ToSet(Joined(s, u)) = ToSet(s) \cup ToSet(u)
<1>1. ASSUME NEW x, x = s \o u PROVE ToSet(x) = ToSet(s) \cup ToSet(u)
  BY <1>1, ConcatHas, ZenonT(30)
<1> QED
  BY <1>1 DEF Joined

\* What the callbacks keep of the history.
KeepsHistory(p) ==
  /\ p.subscribers = past.subscribers /\ past.overlaps \subseteq p.overlaps
  /\ p.session.launched = past.session.launched /\ p.session.copied = past.session.copied
  /\ p.session.due = past.session.due /\ p.session.based = past.session.based
  /\ p.session.exited => past.session.exited \/ phase = "running"
  /\ past.session.blind => p.session.blind

\* What they keep of all that a report needs; only an own kernel kind may get lost,
\* and the session knows.
KeepsReports ==
  /\ UNCHANGED <<phase, request, counters, artifact>> /\ KeepsHistory(past')
  /\ reasons \subseteq reasons' /\ (aborted => aborted')
  /\ switches'.capture = switches.capture /\ switches'.memory = switches.memory
  /\ switches'.pc = switches.pc \/ "pcsampling" \in reasons' \/ aborted'
  /\ MemoryKinds \subseteq cupti.activities => MemoryKinds \subseteq cupti'.activities
  /\ cupti.activities \cap KernelKinds # {} =>
       cupti'.activities \cap KernelKinds # {} \/ past'.session.blind
  /\ ToSet(records) \subseteq ToSet(records') /\ Watched \subseteq Watched' \cup ToSet(records')
  /\ DOMAIN vendorEvents \subseteq DOMAIN vendorEvents'

\* The history of a launch that begins, and of one that exits.
LEMMA HistoryKept ==
  ASSUME Typed
  PROVE  /\ \A l : KeepsHistory(Begins(past, l)) /\ Begins(past, l).session = past.session
         /\ \A t \in Threads : call[t] # Absent =>
              /\ KeepsHistory(Exited(past, t)) /\ Exited(past, t).overlaps = past.overlaps
              /\ Exited(past, t).session.exited =>
                   \/ past.session.exited
                   \/ /\ Heard(t) /\ phase = "running" /\ Nodes[call[t].launch] # 0
                      /\ \A pair \in past.overlaps : call[t].launch \notin pair
<1>1. past \in PastType /\ past.session \in SessionType
  BY DEF Typed, TypedPast, PastType
<1>2. ASSUME NEW l
      PROVE  KeepsHistory(Begins(past, l)) /\ Begins(past, l).session = past.session
  <2>1. PICK A, B : Begins(past, l) = [past EXCEPT !.started = A, !.overlaps = past.overlaps \cup B]
    BY DEF Begins
  <2> QED
    BY <1>1, <2>1 DEF KeepsHistory, PastType
<1>3. ASSUME NEW t \in Threads, call[t] # Absent
      PROVE  /\ KeepsHistory(Exited(past, t)) /\ Exited(past, t).overlaps = past.overlaps
             /\ Exited(past, t).session.exited =>
                   \/ past.session.exited
                   \/ /\ Heard(t) /\ phase = "running" /\ Nodes[call[t].launch] # 0
                      /\ \A pair \in past.overlaps : call[t].launch \notin pair
  <2> DEFINE own == /\ Heard(t) /\ phase = "running" /\ Nodes[call[t].launch] # 0
                    /\ \A pair \in past.overlaps : call[t].launch \notin pair
  <2>1. own \in BOOLEAN /\ past.session.exited \in BOOLEAN
    BY <1>1 DEF SessionType
  <2>2. PICK b \in BOOLEAN : b = (past.session.exited \/ own)
    BY <2>1
  <2>3. Exited(past, t) = [past EXCEPT !.session.exited = b]
    BY <2>2 DEF Exited
  <2>4. own => phase = "running"
    OBVIOUS
  <2> HIDE DEF own
  <2>5. /\ Exited(past, t).session = [past.session EXCEPT !.exited = b]
        /\ Exited(past, t).overlaps = past.overlaps
        /\ Exited(past, t).subscribers = past.subscribers
    BY <1>1, <2>3 DEF PastType
  <2>6. KeepsHistory(Exited(past, t))
    BY <1>1, <2>2, <2>4, <2>5 DEF KeepsHistory, SessionType
  <2>7. Exited(past, t).session.exited => past.session.exited \/ own
    BY <1>1, <2>2, <2>5 DEF SessionType
  <2> QED
    BY <2>5, <2>6, <2>7 DEF own
<1> QED
  BY <1>2, <1>3

\* An exception of the sampling is reported or ends everything.
LEMMA RefusedReports ==
  ASSUME Typed, NEW p \in PastType, NEW c \in Contexts, NEW swap \in Swaps,
         NEW left \in SUBSET Contexts, NEW cost \in Nat, Refused(p, c, swap, left, cost),
         KeepsHistory(p)
  PROVE  /\ KeepsHistory(past') /\ past'.overlaps = p.overlaps
         /\ past'.session.exited = p.session.exited
         /\ reasons \subseteq reasons' /\ (aborted' \/ "pcsampling" \in reasons')
         /\ aborted => aborted'
         /\ switches'.capture = switches.capture /\ switches'.memory = switches.memory
         /\ MemoryKinds \subseteq cupti.activities => MemoryKinds \subseteq cupti'.activities
         /\ cupti.activities \cap KernelKinds # {} =>
              cupti'.activities \cap KernelKinds # {} \/ past'.session.blind
<1>1. cupti \in CuptiType /\ switches \in SwitchType /\ p.session \in SessionType
  BY DEF Typed, TypedSampling, TypedControl, PastType
<1>2. PICK b \in BOOLEAN : b = (p.session.blind \/ swap = "disabled")
  BY <1>1 DEF SessionType
<1>3. PICK d \in Nat : d = p.refusals + cost + Cost(swap)
  BY DEF PastType, Cost
<1>4. past' = [p EXCEPT !.refusals = d, !.pcRefused = TRUE, !.session.blind = b]
  BY <1>2, <1>3 DEF Refused
<1>5. /\ past'.subscribers = p.subscribers /\ past'.overlaps = p.overlaps
      /\ past'.session = [p.session EXCEPT !.blind = b]
  BY <1>4 DEF PastType
<1>6. /\ past'.session.launched = p.session.launched /\ past'.session.copied = p.session.copied
      /\ past'.session.due = p.session.due /\ past'.session.based = p.session.based
      /\ past'.session.exited = p.session.exited /\ past'.session.blind = b
  BY <1>1, <1>5 DEF SessionType
<1>7. KeepsHistory(past')
  BY <1>2, <1>5, <1>6 DEF KeepsHistory
<1>8. CASE ~switches.optional
  <2>1. aborted' /\ UNCHANGED <<switches, cupti, reasons>>
    BY <1>8 DEF Refused
  <2> QED
    BY <1>5, <1>6, <1>7, <2>1
<1>9. CASE switches.optional
  <2>1. FallsBack(c, swap, left) /\ aborted' = aborted
    BY <1>9 DEF Refused
  <2>2. PICK A : A = Swapped(swap)
    OBVIOUS
  <2>3. cupti'.activities = A
    BY <1>1, <2>1, <2>2 DEF FallsBack, CuptiType
  <2>4. /\ switches'.capture = switches.capture /\ switches'.memory = switches.memory
        /\ reasons' = reasons \cup {"pcsampling"}
    BY <1>1, <2>1 DEF FallsBack, SwitchType
  <2>5. MemoryKinds \subseteq cupti.activities => MemoryKinds \subseteq A
    BY <2>2 DEF Swapped, Swaps, MemoryKinds
  <2>6. cupti.activities \cap KernelKinds # {} => A \cap KernelKinds # {} \/ b
    BY <1>2, <2>2 DEF Swapped, Swaps, KernelKinds
  <2> QED
    BY <1>5, <1>6, <1>7, <2>1, <2>3, <2>4, <2>5, <2>6
<1> QED
  BY <1>8, <1>9

\* The kernels of a context finish before it is sampled, and leave their records.
LEMMA SynchronizedReports ==
  ASSUME Typed, NEW c \in Contexts, running' = Synchronized(c).left,
         records' = Synchronized(c).records
  PROVE  ToSet(records) \subseteq ToSet(records') /\ Watched \subseteq Watched' \cup ToSet(records')
<1>1. running' = running \ On(c) /\ records' = records \o RecordsOf(On(c))
  BY DEF Synchronized
<1>2. running \in SUBSET RunningType /\ IsFiniteSet(running) /\ records \in Seq(Kernel)
  BY DEF Typed, TypedRecords
<1>3. On(c) \in SUBSET RunningType /\ IsFiniteSet(On(c)) /\ On(c) \subseteq running
  BY <1>2, FS_Subset DEF On
<1>4. /\ RecordsOf(On(c)) \in Seq(Kernel)
      /\ ToSet(RecordsOf(On(c))) = {k.kernel : k \in {x \in On(c) : x.observed}}
  BY <1>3, RecordsOfTyped
<1>5. ToSet(records') = ToSet(records) \cup ToSet(RecordsOf(On(c)))
  <2>1. PICK s \in Seq(Kernel), u \in Seq(Kernel) : s = records /\ u = RecordsOf(On(c))
    BY <1>2, <1>4
  <2>2. records' = Joined(s, u)
    BY <1>1, <2>1 DEF Joined
  <2> QED
    BY <2>1, <2>2, JoinedHas
<1>6. ASSUME NEW x \in running, x.observed
      PROVE  x.kernel \in Watched' \cup ToSet(records')
  <2>1. CASE x \in On(c)
    BY <1>4, <1>5, <1>6, <2>1
  <2>2. CASE x \notin On(c)
    BY <1>1, <1>6, <2>2 DEF Watched
  <2> QED
    BY <2>1, <2>2
<1> QED
  BY <1>5, <1>6 DEF Watched

\* The entries of launches keep what a report needs,
LEMMA EnterReports ==
  ASSUME Typed, NEW l \in Launches,
         \/ EnterPlain(ThreadOf[l], l) \/ EnterSampling(ThreadOf[l], l)
         \/ \E swap \in Swaps, left \in {{}, {ContextOf[l]}} :
              EnterRefused(ThreadOf[l], l, swap, left)
  PROVE  KeepsReports
<1> DEFINE t == ThreadOf[l]
<1>1. Entered(t, l)
  BY DEF EnterPlain, EnterSampling, EnterRefused
<1>2. /\ KeepsHistory(Begins(past, l)) /\ Begins(past, l) \in PastType
      /\ ContextOf[l] \in Contexts /\ ~aborted
  BY <1>1, HistoryKept, EnteredTyped
<1>3. CASE EnterPlain(t, l)
  BY <1>2, <1>3 DEF EnterPlain, KeepsReports, Watched
<1>4. CASE EnterSampling(t, l)
  <2>1. PICK c \in Contexts : c = ContextOf[l]
    BY <1>2
  <2>2. running' = Synchronized(c).left /\ records' = Synchronized(c).records
    BY <1>4, <2>1 DEF EnterSampling
  <2>3. ToSet(records) \subseteq ToSet(records') /\ Watched \subseteq Watched' \cup ToSet(records')
    BY <2>2, SynchronizedReports
  <2>4. cupti'.activities = cupti.activities
    BY <1>4 DEF EnterSampling, Typed, TypedSampling, CuptiType
  <2> QED
    BY <1>2, <1>4, <2>3, <2>4 DEF EnterSampling, KeepsReports
<1>5. CASE \E swap \in Swaps, left \in {{}, {ContextOf[l]}} : EnterRefused(t, l, swap, left)
  <2>1. PICK swap \in Swaps, left \in {{}, {ContextOf[l]}} : EnterRefused(t, l, swap, left)
    BY <1>5
  <2>2. PICK c \in Contexts, d \in Nat :
          /\ c = ContextOf[l]
          /\ d = IF c \in sampler.initialized /\ c \notin cupti.enabled THEN 0 ELSE 1
    BY <1>2
  <2>3. left \in SUBSET Contexts /\ Refused(Begins(past, l), c, swap, left, d)
    BY <1>2, <2>1, <2>2 DEF EnterRefused
  <2>4. /\ KeepsHistory(past')
        /\ reasons \subseteq reasons' /\ (aborted' \/ "pcsampling" \in reasons')
        /\ switches'.capture = switches.capture /\ switches'.memory = switches.memory
        /\ MemoryKinds \subseteq cupti.activities => MemoryKinds \subseteq cupti'.activities
        /\ cupti.activities \cap KernelKinds # {} =>
             cupti'.activities \cap KernelKinds # {} \/ past'.session.blind
    BY <1>2, <2>3, RefusedReports
  <2> QED
    BY <1>2, <2>1, <2>4 DEF EnterRefused, KeepsReports, Watched
<1> QED
  BY <1>3, <1>4, <1>5

\* and so do their exits,
LEMMA ExitReports ==
  ASSUME Typed, NEW t \in Threads,
         \/ ExitPlain(t) \/ ExitSampling(t) \/ \E swap \in Swaps : ExitRefused(t, swap)
  PROVE  KeepsReports
<1>1. call[t] # Absent
  BY DEF ExitPlain, ExitSampling, ExitRefused, AtExit
<1>2. KeepsHistory(Exited(past, t)) /\ Exited(past, t) \in PastType
  BY <1>1, HistoryKept, ExitedTyped
<1>3. CASE ExitPlain(t)
  BY <1>2, <1>3 DEF ExitPlain, KeepsReports, Watched
<1>4. CASE ExitSampling(t)
  <2>1. KeepsHistory(past')
    BY <1>4 DEF ExitSampling, KeepsHistory, Typed, TypedPast, PastType
  <2>2. cupti'.activities = cupti.activities
    BY <1>4 DEF ExitSampling, Typed, TypedSampling, CuptiType
  <2> QED
    BY <1>2, <1>4, <2>1, <2>2 DEF ExitSampling, KeepsReports, Watched
<1>5. CASE \E swap \in Swaps : ExitRefused(t, swap)
  <2>1. PICK swap \in Swaps : ExitRefused(t, swap)
    BY <1>5
  <2>2. PICK c \in Contexts, d \in Nat :
          c = ContextOf[call[t].launch] /\ d = IF c \in cupti.sampling THEN 1 ELSE 0
    BY <1>1, CallIn
  <2>3. PICK p \in PastType : p = Exited(past, t)
    BY <1>2
  <2>4. Refused(p, c, swap, {}, d)
    BY <2>1, <2>2, <2>3 DEF ExitRefused
  <2>5. /\ KeepsHistory(past')
        /\ reasons \subseteq reasons' /\ (aborted' \/ "pcsampling" \in reasons')
        /\ aborted => aborted'
        /\ switches'.capture = switches.capture /\ switches'.memory = switches.memory
        /\ MemoryKinds \subseteq cupti.activities => MemoryKinds \subseteq cupti'.activities
        /\ cupti.activities \cap KernelKinds # {} =>
             cupti'.activities \cap KernelKinds # {} \/ past'.session.blind
    BY <1>2, <2>3, <2>4, RefusedReports
  <2> QED
    BY <1>2, <2>1, <2>4, <2>5 DEF ExitRefused, KeepsReports, Watched
<1> QED
  BY <1>3, <1>4, <1>5

\* Samples are added to the events.
LEMMA SamplesAdded ==
  ASSUME Typed, NEW l \in Launches, vendorEvents' = Captured(SampleEvents(l))
  PROVE  /\ DOMAIN vendorEvents \subseteq DOMAIN vendorEvents'
         /\ switches.capture /\ buffer.total # <<>> => Announced("pcsampling")'
<1>1. SampleEvents(l) \in SUBSET EventType /\ TypedEvents
      /\ \A e \in SampleEvents(l) : e.kind = "pcsampling"
  BY SampleEventsTyped DEF Typed
<1>2. DOMAIN vendorEvents' = DOMAIN vendorEvents
                             \cup (IF switches.capture THEN SampleEvents(l) ELSE {})
  BY <1>1, CapturedTyped
<1>3. ASSUME buffer.total # <<>> PROVE SampleEvents(l) # {}
  <2>1. PICK s \in Seq(Kernel) : s = buffer.total /\ s # <<>>
    BY <1>3 DEF Typed, TypedSampling, BufferType
  <2>2. 1 \in 1..Len(s)
    BY <2>1
  <2>3. s[1] \in ToSet(buffer.total)
    BY <2>1, <2>2 DEF ToSet
  <2>4. Event("pcsampling", l, s[1]) \in SampleEvents(l)
    BY <2>3 DEF SampleEvents
  <2> QED
    BY <2>4
<1> QED
  BY <1>1, <1>2, <1>3 DEF Announced

\* and the rounds of samples.
LEMMA RoundReports ==
  ASSUME Typed, NEW t \in Threads,
         \/ Round(t) \/ RoundsDone(t) \/ \E swap \in Swaps : RoundRefused(t, swap)
  PROVE  KeepsReports
<1>1. processing # Absent /\ processing.thread = t /\ ~aborted
  BY DEF Round, RoundsDone, RoundRefused, Going
<1>2. PICK l \in Launches : l = call[t].launch /\ ContextOf[l] \in Contexts /\ call[t] # Absent
  BY <1>1, ProcessingIn
<1>3. KeepsHistory(Exited(past, t)) /\ Exited(past, t) \in PastType
  BY <1>2, HistoryKept, ExitedTyped
<1>4. CASE Round(t)
  <2>1. vendorEvents' = Captured(SampleEvents(l)) /\ past' = past
    BY <1>2, <1>4 DEF Round
  <2>2. DOMAIN vendorEvents \subseteq DOMAIN vendorEvents'
    BY <2>1, SamplesAdded
  <2>3. KeepsHistory(past')
    BY <2>1 DEF KeepsHistory
  <2> QED
    BY <1>1, <1>4, <2>2, <2>3 DEF Round, KeepsReports, Watched
<1>5. CASE RoundsDone(t)
  BY <1>3, <1>5 DEF RoundsDone, KeepsReports, Watched
<1>6. CASE \E swap \in Swaps : RoundRefused(t, swap)
  <2>1. PICK swap \in Swaps : RoundRefused(t, swap)
    BY <1>6
  <2>2. vendorEvents' = Captured(SampleEvents(l))
    BY <1>2, <2>1 DEF RoundRefused
  <2>3. DOMAIN vendorEvents \subseteq DOMAIN vendorEvents'
    BY <2>2, SamplesAdded
  <2>4. PICK p \in PastType, c \in Contexts : p = Exited(past, t) /\ c = ContextOf[l]
    BY <1>2, <1>3
  <2>5. Refused(p, c, swap, {}, 1)
    BY <1>2, <2>1, <2>4 DEF RoundRefused
  <2>6. /\ KeepsHistory(past')
        /\ reasons \subseteq reasons' /\ (aborted' \/ "pcsampling" \in reasons')
        /\ switches'.capture = switches.capture /\ switches'.memory = switches.memory
        /\ MemoryKinds \subseteq cupti.activities => MemoryKinds \subseteq cupti'.activities
        /\ cupti.activities \cap KernelKinds # {} =>
             cupti'.activities \cap KernelKinds # {} \/ past'.session.blind
    BY <1>3, <2>4, <2>5, RefusedReports
  <2> QED
    BY <1>1, <1>3, <2>1, <2>3, <2>6 DEF RoundRefused, KeepsReports, Watched
<1> QED
  BY <1>4, <1>5, <1>6

\* The callbacks keep what is accounted for.
LEMMA QuietAccounted ==
  ASSUME Typed, Accounted, KeepsReports
  PROVE  Accounted'
<1>1. /\ UNCHANGED <<phase, request, counters, artifact>>
      /\ reasons \subseteq reasons' /\ DOMAIN vendorEvents \subseteq DOMAIN vendorEvents'
      /\ past'.subscribers = past.subscribers
      /\ past'.session.launched = past.session.launched
      /\ past'.session.copied = past.session.copied
      /\ past'.session.due = past.session.due /\ past'.session.based = past.session.based
      /\ past'.session.exited => past.session.exited \/ phase = "running"
      /\ past.session.blind => past'.session.blind
      /\ ToSet(records) \subseteq ToSet(records') /\ Watched \subseteq Watched' \cup ToSet(records')
  BY DEF KeepsReports, KeepsHistory
<1>2. SwitchesSet'
  BY <1>1 DEF Accounted, SwitchesSet, KeepsReports, Asking
<1>3. \A kind : Announced(kind) => Announced(kind)'
  BY <1>1 DEF Announced
<1>4. CountersAccounted'
  BY <1>1, <1>3 DEF Accounted, CountersAccounted, Asking
<1>5. MemoryAccounted'
  <2>1. (\E r \in ToSet(records) : r[2] = 0) => \E r \in ToSet(records') : r[2] = 0
    BY <1>1
  <2>2. MemoryKinds \subseteq cupti.activities => MemoryKinds \subseteq cupti'.activities
    BY DEF KeepsReports
  <2>3. "flush" \in reasons => "flush" \in reasons'
    BY <1>1
  <2>4. Announced("memory") => Announced("memory")'
    BY <1>3
  <2> QED
    BY <1>1, <2>1, <2>2, <2>3, <2>4 DEF Accounted, MemoryAccounted, Asking
<1>6. KernelsAccounted'
  <2>1. \A k \in past'.session.launched \cup past'.session.due : k[2] # 0
    BY <1>1 DEF Accounted, KernelsAccounted
  <2>2. ASSUME ~past'.session.blind, phase = "running"
        PROVE  /\ cupti'.activities \cap KernelKinds # {}
               /\ past'.session.launched
                    \subseteq past'.session.based \cup ToSet(records') \cup Watched'
    <3>1. /\ cupti.activities \cap KernelKinds # {}
          /\ past.session.launched \subseteq past.session.based \cup ToSet(records) \cup Watched
      BY <1>1, <2>2 DEF Accounted, KernelsAccounted
    <3>2. cupti'.activities \cap KernelKinds # {}
      BY <2>2, <3>1 DEF KeepsReports
    <3> QED
      BY <1>1, <3>1, <3>2
  <2>3. ASSUME ~past'.session.blind, phase = "flushing"
        PROVE  past'.session.due \subseteq past'.session.based \cup ToSet(records')
    <3>1. past.session.due \subseteq past.session.based \cup ToSet(records)
      BY <1>1, <2>3 DEF Accounted, KernelsAccounted
    <3> QED
      BY <1>1, <3>1
  <2>4. ASSUME ~past'.session.blind, phase = "flushed"
        PROVE  past'.session.due \subseteq past'.session.based
    BY <1>1, <2>4 DEF Accounted, KernelsAccounted
  <2> QED
    BY <1>1, <2>1, <2>2, <2>3, <2>4 DEF KernelsAccounted
<1>7. ArtifactTells'
  BY <1>1 DEF Accounted, SwitchesSet, ArtifactTells, Lost
<1> QED
  BY <1>2, <1>4, <1>5, <1>6, <1>7 DEF Accounted

\* A session that is made has its switches set, and nothing yet.
LEMMA MakeSessionAccounted ==
  ASSUME Typed, Accounted, NEW r \in RequestType, MakeSession(r)
  PROVE  Accounted'
<1>1. /\ past \in PastType /\ switches \in SwitchType /\ counters \in CounterType
  BY DEF Typed, TypedPast, TypedControl, TypedCounters
<1>2. PICK a \in BOOLEAN : a = (running = {} /\ records = <<>>)
  OBVIOUS
<1>3. past'.session = [Session0 EXCEPT !.alone = a]
  BY <1>1, <1>2 DEF MakeSession, PastType
<1>4. /\ past'.session.launched = {} /\ past'.session.due = {}
      /\ ~past'.session.copied /\ ~past'.session.exited
  BY <1>3 DEF Session0
<1>5. phase' = "made" /\ request' = r /\ artifact' = Absent
  BY DEF MakeSession
<1>6. ASSUME Asks(r)
      PROVE  /\ switches'.capture /\ ("memory" \in Enabled(r) => switches'.memory)
             /\ counters'.configured = Counts(r)
  <2>1. r.backend = "nvidia" /\ Enabled(r) # {}
    BY <1>6 DEF Asks
  <2>2. switches' = Configured(r) /\ counters' = ConfiguredCounters(r)
    BY <2>1 DEF MakeSession, Configure
  <2>3. switches'.capture = (Enabled(r) # {}) /\ switches'.memory = ("memory" \in Enabled(r))
    BY <1>1, <2>2 DEF Configured, SwitchType
  <2>4. counters'.configured = Counts(r)
    BY <1>1, <2>2 DEF ConfiguredCounters, CounterType
  <2> QED
    BY <2>1, <2>3, <2>4
<1>7. SwitchesSet'
  BY <1>4, <1>5, <1>6 DEF SwitchesSet, Asking
<1> QED
  BY <1>4, <1>5, <1>7 DEF Accounted, CountersAccounted, MemoryAccounted, KernelsAccounted,
     ArtifactTells

\* What a start that is rejected leaves of a session that asks for something.
LEMMA RejectedStartIs ==
  ASSUME Typed, NEW r \in RequestType, RejectedStart(r)
  PROVE  /\ phase = "running"
         /\ past'.session = past.session /\ past'.subscribers = past.subscribers
         /\ past'.overlaps = past.overlaps
         /\ Asks(request) =>
              /\ UNCHANGED <<counters, reasons, vendorEvents>>
              /\ switches'.capture = switches.capture /\ switches'.memory = switches.memory
              /\ switches.pc => switches'.pc
<1>1. past \in PastType /\ switches \in SwitchType
  BY DEF Typed, TypedPast, TypedControl
<1>2. past'.session = past.session /\ past'.subscribers = past.subscribers
      /\ past'.overlaps = past.overlaps
  BY <1>1 DEF RejectedStart, PastType
<1>3. ASSUME Asks(request)
      PROVE  /\ UNCHANGED <<counters, reasons, vendorEvents>>
             /\ switches'.capture = switches.capture /\ switches'.memory = switches.memory
             /\ switches.pc => switches'.pc
  <2>1. request.backend = "nvidia" /\ Enabled(request) # {}
    BY <1>3 DEF Asks
  <2>2. r.backend # "nvidia"
    BY <2>1 DEF RejectedStart
  <2>3. PICK b : b = (switches.pc \/ r.pc)
    OBVIOUS
  <2>4. switches' = [switches EXCEPT !.pc = b] /\ UNCHANGED <<counters, reasons, vendorEvents>>
    BY <2>2, <2>3 DEF RejectedStart, Configure
  <2> QED
    BY <1>1, <2>3, <2>4 DEF SwitchType
<1> QED
  BY <1>2, <1>3 DEF RejectedStart

\* It keeps what is accounted for.
LEMMA RejectedStartAccounted ==
  ASSUME Typed, Accounted, NEW r \in RequestType, RejectedStart(r)
  PROVE  Accounted'
<1>1. /\ phase = "running"
      /\ past'.session = past.session /\ past'.subscribers = past.subscribers
      /\ Asks(request) =>
           /\ UNCHANGED <<counters, reasons, vendorEvents>>
           /\ switches'.capture = switches.capture /\ switches'.memory = switches.memory
  BY RejectedStartIs
<1>2. UNCHANGED <<phase, request, cupti, running, records, artifact>>
  BY DEF RejectedStart
<1>3. SwitchesSet'
  BY <1>1, <1>2 DEF Accounted, SwitchesSet, Asking
<1>4. CountersAccounted'
  BY <1>1, <1>2 DEF Accounted, CountersAccounted, Asking
<1>5. MemoryAccounted'
  BY <1>1, <1>2 DEF Accounted, MemoryAccounted, Asking, Announced
<1>6. KernelsAccounted'
  BY <1>1, <1>2 DEF Accounted, KernelsAccounted, Watched
<1>7. ArtifactTells'
  BY <1>1, <1>2 DEF Accounted, ArtifactTells, Lost
<1> QED
  BY <1>3, <1>4, <1>5, <1>6, <1>7 DEF Accounted

\* A start that succeeds has enabled what is asked for, or says what it lacks.
LEMMA StartAccounted ==
  ASSUME Typed, Accounted, Start
  PROVE  Accounted'
<1>1. PICK c \in Contexts \cup {Absent}, n \in {Success} \cup DOMAIN Setup,
           kept \in SUBSET CuptiObjects, on \in BOOLEAN,
           A \in SUBSET (KernelKinds \cup MemoryKinds),
           C \in SUBSET {"resource", "graph", "runtime", "driver"}, d \in Nat :
        StartsAs(c, n, kept, on, A, C, d)
  BY StartIs
<1>2. phase = "made"
  BY StartIs
<1>3. past \in PastType /\ counters \in CounterType /\ cupti \in CuptiType
      /\ switches \in SwitchType
  BY DEF Typed, TypedControl, TypedCounters, TypedPast, TypedSampling
<1>4. /\ past'.session = past.session
      /\ past'.subscribers = past.subscribers + (IF on THEN 1 ELSE 0)
  BY <1>1, <1>3 DEF StartsAs, PastType
<1>5. /\ UNCHANGED <<request, running, records, vendorEvents, artifact>>
      /\ phase' \in {"idle", "running"} /\ reasons \subseteq reasons'
      /\ phase' = "running" =>
           /\ on /\ KernelKind \in A /\ (MemoryOn => MemoryKinds \subseteq A)
           /\ CountersRefused(c, n) => "counters" \in reasons'
      /\ cupti'.activities = cupti.activities \cup A
      /\ switches'.capture = switches.capture /\ switches'.memory = switches.memory
  BY <1>1, <1>3 DEF StartsAs, CuptiType, SwitchType
<1>6. artifact = Absent /\ past.session.launched = {} /\ ~past.session.copied
      /\ ~past.session.exited
  BY <1>2 DEF Accounted, SwitchesSet
<1>7. past.subscribers + 1 # 0
  BY <1>3 DEF PastType
<1>8. SwitchesSet'
  BY <1>2, <1>4, <1>5, <1>6, <1>7 DEF Accounted, SwitchesSet, Asking
<1>9. CountersAccounted'
  <2>1. SUFFICES ASSUME phase' = "running", Asks(request), Counts(request)
                 PROVE  counters'.active \/ "counters" \in reasons'
    BY <1>5 DEF CountersAccounted, Asking
  <2>2. counters.configured
    BY <1>2, <2>1 DEF Accounted, SwitchesSet, Asking
  <2>3. on /\ CountersStart(c, n, kept)
    BY <1>1, <1>5, <2>1 DEF StartsAs
  <2>4. CASE CountersRefused(c, n)
    BY <1>5, <2>1, <2>4
  <2>5. CASE ~CountersRefused(c, n)
    <3>1. c # Absent /\ n = Success
      BY <2>2, <2>5 DEF CountersRefused
    <3>2. PICK base : base = [counters EXCEPT !.active = FALSE, !.kernelEvents = <<>>]
      OBVIOUS
    <3>3. DOMAIN base = {"configured", "active", "held", "context", "kernelEvents"}
      BY <1>3, <3>2 DEF CounterType
    <3>4. PICK held : held = counters.held \cup Begun(n)
      OBVIOUS
    <3>5. counters' = [base EXCEPT !.held = held, !.context = c, !.active = TRUE]
      BY <2>2, <2>3, <3>1, <3>2, <3>4 DEF CountersStart
    <3> QED
      BY <3>3, <3>5
  <2> QED
    BY <2>4, <2>5
<1>10. MemoryAccounted'
  <2>1. SUFFICES ASSUME phase' = "running", Asks(request), "memory" \in Enabled(request)
                 PROVE  MemoryKinds \subseteq cupti'.activities
    BY <1>4, <1>5, <1>6 DEF MemoryAccounted, Asking
  <2>2. switches.capture /\ switches.memory
    BY <1>2, <2>1 DEF Accounted, SwitchesSet, Asking
  <2> QED
    BY <1>5, <2>1, <2>2 DEF MemoryOn
<1>11. KernelsAccounted'
  <2>1. KernelKind \in KernelKinds
    BY DEF KernelKind, KernelKinds
  <2>2. \A k \in past.session.launched \cup past.session.due : k[2] # 0
    BY DEF Accounted, KernelsAccounted
  <2>3. phase' = "running" => cupti'.activities \cap KernelKinds # {}
    BY <1>5, <2>1
  <2> QED
    BY <1>4, <1>5, <1>6, <2>2, <2>3 DEF KernelsAccounted
<1>12. ArtifactTells'
  BY <1>5, <1>6 DEF ArtifactTells
<1> QED
  BY <1>8, <1>9, <1>10, <1>11, <1>12 DEF Accounted

\* What a launch through the driver adds to the history and the records.
LEMMA DriverAdds ==
  ASSUME Typed, NEW t \in Threads, NEW l \in Launches, NEW n \in Underway, NEW p \in Nat \ {0},
         DriverAs(t, l, p, n)
  PROVE  /\ past'.session.launched = past.session.launched
               \cup (IF phase = "running" THEN ToSet(Kernels(l)) ELSE {})
         /\ past'.session.copied <=>
              past.session.copied \/ (phase = "running" /\ l \in Copying)
         /\ past'.session.due = past.session.due /\ past'.session.based = past.session.based
         /\ past'.session.exited = past.session.exited
         /\ past'.session.blind = past.session.blind
         /\ past'.subscribers = past.subscribers /\ past'.overlaps = past.overlaps
         /\ ToSet(records) \subseteq ToSet(records') /\ Watched \subseteq Watched'
         /\ l \in Copying /\ MemoryKinds \subseteq cupti.activities => Copy(l) \in ToSet(records')
         /\ cupti.activities \cap KernelKinds # {} =>
              ToSet(Kernels(l)) \subseteq ToSet(records') \cup Watched'
<1>1. past \in PastType /\ past.session \in SessionType /\ records \in Seq(Kernel)
  BY DEF Typed, TypedPast, PastType, TypedRecords
<1>2. Kernels(l) \in Seq(Kernel) /\ Copy(l) \in Kernel
  BY KernelsTyped
<1>3. PICK K, b, a, S : /\ K = IF phase = "running" THEN ToSet(Kernels(l)) ELSE {}
                        /\ b = (past.session.copied \/ (phase = "running" /\ l \in Copying))
                        /\ a = (past.session.alone /\ Replays(l))
                        /\ S = past.late \cup (IF call[t].heard = past.subscribers THEN {} ELSE {l})
  OBVIOUS
<1>4. past' = [past EXCEPT !.late = S, !.session.launched = @ \cup K,
                           !.session.copied = b, !.session.alone = a]
  BY <1>3 DEF DriverAs
<1>5. /\ past'.session = [past.session EXCEPT !.launched = @ \cup K, !.copied = b, !.alone = a]
      /\ past'.subscribers = past.subscribers /\ past'.overlaps = past.overlaps
  BY <1>1, <1>4 DEF PastType
<1>6. /\ past'.session.launched = past.session.launched \cup K
      /\ past'.session.copied = b
      /\ past'.session.due = past.session.due /\ past'.session.based = past.session.based
      /\ past'.session.exited = past.session.exited
      /\ past'.session.blind = past.session.blind
  BY <1>1, <1>5 DEF SessionType
<1>7. PICK copy \in Seq(Kernel), rep \in Seq(Kernel) :
        /\ copy = IF l \in Copying /\ MemoryKinds \subseteq cupti.activities
                    THEN <<Copy(l)>> ELSE <<>>
        /\ rep = IF Replays(l) /\ cupti.activities \cap KernelKinds # {}
                   THEN Repeated(Kernels(l), p) ELSE <<>>
        /\ records' = (records \o copy) \o rep
  BY DEF DriverAs
<1>8. ToSet(records') = (ToSet(records) \cup ToSet(copy)) \cup ToSet(rep)
  <2>1. PICK s : s = records \o copy
    OBVIOUS
  <2>2. s \in Seq(Kernel)
    BY <1>1, <1>7, <2>1, ConcatProperties
  <2>3. ToSet(s) = ToSet(records) \cup ToSet(copy)
    BY <1>1, <2>1, JoinedHas DEF Joined
  <2>4. records' = Joined(s, rep)
    BY <1>7, <2>1 DEF Joined
  <2>5. ToSet(records') = ToSet(s) \cup ToSet(rep)
    BY <2>2, <2>4, JoinedHas
  <2> QED
    BY <2>3, <2>5
<1>9. l \in Copying /\ MemoryKinds \subseteq cupti.activities => Copy(l) \in ToSet(records')
  <2>1. SUFFICES ASSUME copy = <<Copy(l)>> PROVE Copy(l) \in ToSet(copy)
    BY <1>7, <1>8
  <2>2. Len(copy) = 1 /\ copy[1] = Copy(l) /\ 1 \in 1..Len(copy)
    BY <2>1
  <2> QED
    BY <1>7, <2>2 DEF ToSet
<1>10. PICK o : o = (cupti.activities \cap KernelKinds # {})
  OBVIOUS
<1>11. running' = running \cup
          (IF Replays(l) THEN {} ELSE {[kernel |-> k, observed |-> o] : k \in ToSet(Kernels(l))})
  BY <1>10 DEF DriverAs
<1>12. Watched \subseteq Watched'
  BY <1>11 DEF Watched
<1>13. ASSUME cupti.activities \cap KernelKinds # {}
       PROVE  ToSet(Kernels(l)) \subseteq ToSet(records') \cup Watched'
  <2>1. CASE Replays(l)
    BY <1>2, <1>7, <1>8, <1>13, <2>1, RepeatedAll
  <2>2. CASE ~Replays(l)
    <3>1. ASSUME NEW k \in ToSet(Kernels(l)) PROVE k \in Watched'
      <4>1. PICK x : x = [kernel |-> k, observed |-> o]
        OBVIOUS
      <4>2. x \in running' /\ x.kernel = k /\ x.observed
        BY <1>10, <1>11, <1>13, <2>2, <4>1
      <4> QED
        BY <4>2 DEF Watched
    <3> QED
      BY <3>1
  <2> QED
    BY <2>1, <2>2
<1> QED
  BY <1>3, <1>5, <1>6, <1>8, <1>9, <1>12, <1>13

\* It accounts for its kernels and its copy.
LEMMA DriverAccounted ==
  ASSUME Typed, Accounted, NEW t \in Threads, NEW l \in Launches, NEW n \in Underway,
         NEW p \in Nat \ {0}, DriverAs(t, l, p, n)
  PROVE  Accounted'
<1>1. /\ past'.session.launched = past.session.launched
               \cup (IF phase = "running" THEN ToSet(Kernels(l)) ELSE {})
      /\ past'.session.copied <=>
           past.session.copied \/ (phase = "running" /\ l \in Copying)
      /\ past'.session.due = past.session.due /\ past'.session.based = past.session.based
      /\ past'.session.exited = past.session.exited
      /\ past'.session.blind = past.session.blind
      /\ past'.subscribers = past.subscribers
      /\ ToSet(records) \subseteq ToSet(records') /\ Watched \subseteq Watched'
      /\ l \in Copying /\ MemoryKinds \subseteq cupti.activities => Copy(l) \in ToSet(records')
      /\ cupti.activities \cap KernelKinds # {} =>
           ToSet(Kernels(l)) \subseteq ToSet(records') \cup Watched'
  BY DriverAdds
<1>2. /\ UNCHANGED <<phase, request, switches, counters, vendorEvents, reasons, artifact>>
      /\ cupti'.activities = cupti.activities
  BY DEF DriverAs, Typed, TypedSampling, CuptiType
<1>3. Copy(l)[2] = 0 /\ \A k \in ToSet(Kernels(l)) : k[2] # 0
  BY KernelsTyped
<1>4. SwitchesSet'
  BY <1>1, <1>2 DEF Accounted, SwitchesSet, Asking
<1>5. CountersAccounted'
  BY <1>2 DEF Accounted, CountersAccounted, Asking, Announced
<1>6. MemoryAccounted'
  <2>1. (\E r \in ToSet(records) : r[2] = 0) => \E r \in ToSet(records') : r[2] = 0
    BY <1>1
  <2>2. ASSUME Asking, "memory" \in Enabled(request), phase = "running", l \in Copying
        PROVE  \E r \in ToSet(records') : r[2] = 0
    <3>1. Copy(l) \in ToSet(records')
      BY <1>1, <2>2 DEF Accounted, MemoryAccounted
    <3> QED
      BY <1>3, <3>1
  <2> QED
    BY <1>1, <1>2, <2>1, <2>2 DEF Accounted, MemoryAccounted, Asking, Announced
<1>7. KernelsAccounted'
  <2>1. \A k \in past'.session.launched \cup past'.session.due : k[2] # 0
    BY <1>1, <1>3 DEF Accounted, KernelsAccounted
  <2>2. ASSUME ~past.session.blind, phase = "running"
        PROVE  past'.session.launched
                 \subseteq past'.session.based \cup ToSet(records') \cup Watched'
    BY <1>1, <2>2 DEF Accounted, KernelsAccounted
  <2> QED
    BY <1>1, <1>2, <2>1, <2>2 DEF Accounted, KernelsAccounted
<1>8. ArtifactTells'
  BY <1>1, <1>2 DEF Accounted, SwitchesSet, ArtifactTells, Lost
<1> QED
  BY <1>4, <1>5, <1>6, <1>7, <1>8 DEF Accounted

\* A flush takes the kernels of its context into the records,
LEMMA FlushAccounted ==
  ASSUME Typed, Accounted, Flush
  PROVE  Accounted'
<1>1. PICK c \in Callers, ended \in SUBSET {k.kernel[1] : k \in running} : DoFlush(c, ended)
  BY DEF Flush
<1>2. /\ past \in PastType /\ past.session \in SessionType
      /\ running \in SUBSET RunningType /\ IsFiniteSet(running) /\ records \in Seq(Kernel)
  BY DEF Typed, TypedPast, PastType, TypedRecords
<1>3. /\ phase = "running" /\ phase' = "flushing"
      /\ UNCHANGED <<request, switches, counters, cupti, vendorEvents, reasons, artifact>>
  BY <1>1 DEF Flush, DoFlush
<1>4. PICK K \in SUBSET running : /\ running' = running \ K /\ records' = records \o RecordsOf(K)
                                  /\ K = {k \in running : ContextOf[k.kernel[1]] = c
                                                          \/ k.kernel[1] \in ended}
  BY <1>1 DEF DoFlush
<1>5. PICK D : D = {k \in past.session.launched : ContextOf[k[1]] = c}
  OBVIOUS
<1>6. past' = [past EXCEPT !.session.due = D]
  BY <1>1, <1>5 DEF DoFlush
<1>7. past'.session = [past.session EXCEPT !.due = D] /\ past'.subscribers = past.subscribers
  BY <1>2, <1>6 DEF PastType
<1>8. /\ past'.session.launched = past.session.launched
      /\ past'.session.copied = past.session.copied
      /\ past'.session.exited = past.session.exited
      /\ past'.session.due = D /\ past'.session.based = past.session.based
      /\ past'.session.blind = past.session.blind
  BY <1>2, <1>7 DEF SessionType
<1>9. K \in SUBSET RunningType /\ IsFiniteSet(K)
  BY <1>2, <1>4, FS_Subset
<1>10. /\ RecordsOf(K) \in Seq(Kernel)
       /\ ToSet(RecordsOf(K)) = {k.kernel : k \in {x \in K : x.observed}}
  BY <1>9, RecordsOfTyped
<1>11. ToSet(records') = ToSet(records) \cup ToSet(RecordsOf(K))
  <2>1. records' = Joined(records, RecordsOf(K))
    BY <1>4 DEF Joined
  <2> QED
    BY <1>2, <1>10, <2>1, JoinedHas
<1>12. SwitchesSet'
  BY <1>3, <1>7, <1>8 DEF Accounted, SwitchesSet, Asking
<1>13. CountersAccounted'
  BY <1>3 DEF Accounted, CountersAccounted, Asking, Announced
<1>14. MemoryAccounted'
  <2>1. (\E r \in ToSet(records) : r[2] = 0) => \E r \in ToSet(records') : r[2] = 0
    BY <1>11
  <2> QED
    BY <1>3, <1>8, <2>1 DEF Accounted, MemoryAccounted, Asking, Announced
<1>15. KernelsAccounted'
  <2>1. \A k \in past'.session.launched \cup past'.session.due : k[2] # 0
    BY <1>5, <1>8 DEF Accounted, KernelsAccounted
  <2>2. ASSUME ~past.session.blind, NEW k \in D
        PROVE  k \in past.session.based \cup ToSet(records')
    <3>1. k \in past.session.based \cup ToSet(records) \cup Watched /\ ContextOf[k[1]] = c
      BY <1>3, <1>5, <2>2 DEF Accounted, KernelsAccounted
    <3>2. ASSUME k \in Watched PROVE k \in ToSet(records')
      <4>1. PICK x \in running : x.observed /\ x.kernel = k
        BY <3>2 DEF Watched
      <4>2. x \in K
        BY <1>4, <3>1, <4>1
      <4> QED
        BY <1>10, <1>11, <4>1, <4>2
    <3> QED
      BY <1>11, <3>1, <3>2
  <2> QED
    BY <1>3, <1>8, <2>1, <2>2 DEF KernelsAccounted
<1>16. ArtifactTells'
  BY <1>3 DEF Accounted, SwitchesSet, ArtifactTells
<1> QED
  BY <1>12, <1>13, <1>14, <1>15, <1>16 DEF Accounted

\* and hands them over,
LEMMA FlushedAccounted ==
  ASSUME Typed, Accounted, Flushed
  PROVE  Accounted'
<1>1. /\ past \in PastType /\ past.session \in SessionType /\ counters \in CounterType
      /\ records \in Seq(Kernel) /\ TypedEvents
  BY DEF Typed, TypedPast, PastType, TypedRecords, TypedCounters
<1>2. /\ phase = "flushing" /\ phase' = "flushed"
      /\ UNCHANGED <<request, switches, cupti, reasons, artifact, running>>
  BY DEF Flushed
<1>3. counters'.active = counters.active /\ counters'.configured = counters.configured
  <2>1. PICK s : s = RecordedAll(counters.kernelEvents, records)
    OBVIOUS
  <2>2. counters' = IF counters.active THEN [counters EXCEPT !.kernelEvents = s] ELSE counters
    BY <2>1 DEF Flushed, Deliver
  <2> QED
    BY <1>1, <2>2 DEF CounterType
<1>4. PICK B : B = {r \in ToSet(records) : r[2] # 0}
  OBVIOUS
<1>5. past' = [past EXCEPT !.session.based = @ \cup B]
  BY <1>4 DEF Flushed, Deliver
<1>6. /\ past'.session = [past.session EXCEPT !.based = @ \cup B]
      /\ past'.subscribers = past.subscribers
  BY <1>1, <1>5 DEF PastType
<1>7. /\ past'.session.launched = past.session.launched
      /\ past'.session.copied = past.session.copied
      /\ past'.session.exited = past.session.exited
      /\ past'.session.due = past.session.due
      /\ past'.session.based = past.session.based \cup B
      /\ past'.session.blind = past.session.blind
  BY <1>1, <1>6 DEF SessionType
<1> DEFINE kind(r) == IF r[2] # 0 THEN "kernel" ELSE "memory"
           E == {Event(kind(r), r[1], r) : r \in ToSet(records)}
<1>8. ToSet(records) \in SUBSET Kernel
  <2> PICK T : T = Kernel
    OBVIOUS
  <2>1. \A i \in DOMAIN records : records[i] \in T
    BY <1>1
  <2>2. ToSet(records) \in SUBSET T
    BY <2>1 DEF ToSet
  <2> QED
    BY <2>2
<1>9. E \in SUBSET EventType
  <2>1. \A r \in Kernel : Event(kind(r), r[1], r) \in EventType
    BY DEF Event, EventType, Kernel
  <2> QED
    BY <1>8, <2>1
<1>10. \A r \in ToSet(records) : r[2] = 0 => \E e \in E : e.kind = "memory"
  <2>1. SUFFICES ASSUME NEW r \in ToSet(records), r[2] = 0
                 PROVE  \E e \in E : e.kind = "memory"
    OBVIOUS
  <2>2. PICK e : e = Event("memory", r[1], r)
    OBVIOUS
  <2>3. e.kind = "memory"
    BY <2>2 DEF Event
  <2>4. e = Event(kind(r), r[1], r)
    BY <2>1, <2>2
  <2> QED
    BY <2>3, <2>4
<1>11. vendorEvents' = Captured(E)
  BY DEF Flushed, Deliver
<1> HIDE DEF E
<1>12. DOMAIN vendorEvents' = DOMAIN vendorEvents \cup (IF switches.capture THEN E ELSE {})
  BY <1>1, <1>9, <1>11, CapturedTyped
<1>13. SwitchesSet'
  BY <1>2, <1>3, <1>6, <1>7 DEF Accounted, SwitchesSet, Asking
<1>14. CountersAccounted'
  BY <1>2, <1>3 DEF Accounted, CountersAccounted, Asking
<1>15. MemoryAccounted'
  <2>1. SUFFICES ASSUME Asking, "memory" \in Enabled(request), past.session.copied
                 PROVE  Announced("memory")'
    BY <1>2, <1>7 DEF MemoryAccounted, Asking
  <2>2. switches.capture
    BY <1>2, <2>1 DEF Accounted, SwitchesSet
  <2>3. CASE Announced("memory")
    BY <1>12, <2>3 DEF Announced
  <2>4. CASE \E r \in ToSet(records) : r[2] = 0
    <3>1. PICK e \in E : e.kind = "memory"
      BY <1>10, <2>4
    <3> QED
      BY <1>12, <2>2, <3>1 DEF Announced
  <2> QED
    BY <1>2, <2>1, <2>3, <2>4 DEF Accounted, MemoryAccounted
<1>16. KernelsAccounted'
  BY <1>2, <1>4, <1>7 DEF Accounted, KernelsAccounted
<1>17. ArtifactTells'
  BY <1>2 DEF Accounted, SwitchesSet, ArtifactTells
<1> QED
  BY <1>13, <1>14, <1>15, <1>16, <1>17 DEF Accounted

\* or says that it could not.
LEMMA FlushRefusedAccounted ==
  ASSUME Typed, Accounted, FlushRefused
  PROVE  Accounted'
<1>1. past \in PastType /\ past.session \in SessionType
  BY DEF Typed, TypedPast, PastType
<1>2. /\ phase = "flushing" /\ phase' = "flushed" /\ reasons' = reasons \cup {"flush"}
      /\ UNCHANGED <<request, switches, counters, vendorEvents, artifact>>
  BY DEF FlushRefused
<1>3. past' = [past EXCEPT !.refusals = @ + 1, !.session.blind = TRUE]
  BY DEF FlushRefused
<1>4. past'.session = [past.session EXCEPT !.blind = TRUE]
      /\ past'.subscribers = past.subscribers
  BY <1>1, <1>3 DEF PastType
<1>5. /\ past'.session.launched = past.session.launched
      /\ past'.session.due = past.session.due /\ past'.session.blind
  BY <1>1, <1>4 DEF SessionType
<1>6. SwitchesSet'
  BY <1>2, <1>4, <1>5 DEF Accounted, SwitchesSet, Asking
<1>7. CountersAccounted'
  BY <1>2 DEF Accounted, CountersAccounted, Asking
<1>8. MemoryAccounted' /\ KernelsAccounted' /\ ArtifactTells'
  BY <1>2, <1>5 DEF Accounted, SwitchesSet, MemoryAccounted, KernelsAccounted, ArtifactTells
<1> QED
  BY <1>6, <1>7, <1>8 DEF Accounted

\* A stop evaluates the ranges or says that it lost some,
LEMMA StopAccounted ==
  ASSUME Typed, Accounted, Stop
  PROVE  Accounted'
<1>1. /\ past \in PastType /\ switches \in SwitchType /\ TypedEvents /\ TypedCounters
  BY DEF Typed, TypedControl, TypedPast
<1>2. PICK done : \E n \in 0..MaxRanges, kept \in SUBSET CuptiObjects, throws \in BOOLEAN,
           m \in BOOLEAN, d \in Nat, b \in BOOLEAN : StopsAs(n, kept, done, throws, m, d, b)
  BY StopIs
<1>3. PICK n \in 0..MaxRanges, kept \in SUBSET CuptiObjects, throws \in BOOLEAN,
           m \in BOOLEAN, d \in Nat, b \in BOOLEAN : StopsAs(n, kept, done, throws, m, d, b)
  BY <1>2
<1>4. /\ phase = "flushed" /\ phase' \in {"idle", "stopped"}
      /\ phase' = "stopped" => request.backend # "cupti"
      /\ reasons \subseteq reasons' /\ UNCHANGED <<request, artifact>>
  BY <1>3 DEF StopsAs
<1>5. request.backend \in {"nvidia", "cupti"}
  BY <1>4 DEF Typed, TypedControl, RequestType
<1>6. past'.session = past.session /\ past'.subscribers = past.subscribers
  BY <1>1, <1>3 DEF StopsAs, PastType
<1>7. PICK E : E = IF counters.active THEN RangeEvents(n) ELSE {}
  OBVIOUS
<1>8. DOMAIN vendorEvents' = DOMAIN vendorEvents \cup E
  <2>1. vendorEvents' = vendorEvents (+) SetToBag(E)
    BY <1>3, <1>7 DEF StopsAs
  <2> QED
    BY <1>1, <2>1, MoreEvents DEF TypedEvents
<1>9. ASSUME counters.active, "counters" \notin reasons' PROVE Announced("hardware_counter")'
  <2>1. ~CountersLost(n, kept)
    BY <1>3, <1>9 DEF StopsAs
  <2>2. nvpw.ranges # <<>> /\ ~(n < Evaluated)
    BY <1>9, <2>1 DEF CountersLost
  <2>3. PICK w \in Seq(Kernel) : w = nvpw.ranges
    BY <1>1 DEF TypedCounters, NvpwType
  <2>4. Evaluated \in Nat \ {0}
    <3>1. Len(w) \in Nat \ {0}
      BY <2>2, <2>3
    <3> QED
      BY <2>3, <3>1, NvidiaAssumption DEF Evaluated
  <2>5. n \in 0..Evaluated
    BY <1>3, <1>9 DEF StopsAs, CountersStop
  <2>6. 1 \in 1..n
    BY <2>2, <2>4, <2>5
  <2>7. \E e \in RangeEvents(n) : e.kind = "hardware_counter"
    <3> DEFINE named(i) == IF i <= Len(counters.kernelEvents) THEN counters.kernelEvents[i]
                           ELSE Absent
               event(i) == [kind |-> "hardware_counter", scope |-> Absent, kernel |-> named(i),
                            of |-> nvpw.ranges[i]]
    <3>1. event(1).kind = "hardware_counter"
      OBVIOUS
    <3>2. RangeEvents(n) = {event(i) : i \in 1..n}
      BY DEF RangeEvents
    <3> HIDE DEF event
    <3> QED
      BY <2>6, <3>1, <3>2
  <2> QED
    BY <1>7, <1>8, <1>9, <2>7 DEF Announced
<1>10. SwitchesSet'
  BY <1>4, <1>5 DEF Accounted, SwitchesSet, Asking
<1>11. CountersAccounted'
  BY <1>4, <1>9 DEF Accounted, CountersAccounted, Asking
<1>12. MemoryAccounted'
  <2>1. Announced("memory") => Announced("memory")'
    BY <1>8 DEF Announced
  <2> QED
    BY <1>4, <1>6, <2>1 DEF Accounted, MemoryAccounted, Asking
<1>13. KernelsAccounted'
  BY <1>4, <1>6 DEF Accounted, KernelsAccounted
<1>14. ArtifactTells'
  BY <1>4 DEF Accounted, SwitchesSet, ArtifactTells
<1> QED
  BY <1>10, <1>11, <1>12, <1>13, <1>14 DEF Accounted

\* and the import tells it all.
LEMMA ImportAccounted ==
  ASSUME Typed, Accounted, SamplesAccounted, Import
  PROVE  Accounted'
<1>1. /\ phase = "stopped" /\ phase' = "idle" /\ ~aborted
      /\ UNCHANGED <<request, past>>
  BY DEF Import
<1>2. request \in RequestType /\ request.backend = "nvidia"
  BY <1>1 DEF Accounted, SwitchesSet, Typed, TypedControl
<1>3. PICK E, P : /\ E = {e \in BagToSet(vendorEvents) : e.kind \in Asked(request)}
                  /\ artifact' = [events |-> E, reasons |-> reasons \cup P]
  <2> DEFINE F == {e \in BagToSet(vendorEvents) : e.kind \in Asked(request)}
             Q == PlanReasons(request) \cup (IF F = {} /\ Enabled(request) # {} THEN {"nothing"} ELSE {})
  <2>1. artifact' = [events |-> F, reasons |-> reasons \cup Q]
    BY DEF Import
  <2> HIDE DEF F, Q
  <2>2. F = {e \in BagToSet(vendorEvents) : e.kind \in Asked(request)}
    BY DEF F
  <2> QED
    BY <2>1, <2>2
<1>4. artifact'.events = E /\ (artifact'.reasons = {} => reasons = {})
  BY <1>3
<1>5. ASSUME NEW kind, Announced(kind) PROVE ~Lost(kind)'
  <2>1. PICK e \in DOMAIN vendorEvents : e.kind = kind
    BY <1>5 DEF Announced
  <2>2. kind \in Asked(request) => e \in E
    BY <1>3, <2>1 DEF BagToSet
  <2> QED
    BY <1>1, <1>4, <2>1, <2>2 DEF Lost
<1>6. ASSUME NEW kind, kind \notin Asked(request) PROVE ~Lost(kind)'
  BY <1>1, <1>6 DEF Lost
<1>7. ArtifactTells'
  <2>1. SUFFICES ASSUME reasons = {}
                 PROVE  /\ ~Lost("hardware_counter")'
                        /\ past.session.exited => ~Lost("pcsampling")'
                        /\ past.session.copied => ~Lost("memory")'
    BY <1>1, <1>4 DEF ArtifactTells
  <2>2. ~Lost("hardware_counter")'
    <3>1. CASE ~Counts(request)
      BY <1>2, <1>6, <3>1, RequestIs
    <3>2. CASE Counts(request)
      <4>1. Asking
        BY <1>1, <1>2, <3>2, RequestIs DEF Asking, Asks
      <4>2. Announced("hardware_counter")
        BY <1>1, <2>1, <3>2, <4>1 DEF Accounted, CountersAccounted
      <4> QED
        BY <1>5, <4>2
    <3> QED
      BY <3>1, <3>2
  <2>3. ASSUME past.session.exited PROVE ~Lost("pcsampling")'
    <3>1. CASE "instruction" \notin Enabled(request)
      BY <1>2, <1>6, <3>1, RequestIs
    <3>2. CASE "instruction" \in Enabled(request)
      <4>1. Asking
        BY <1>1, <1>2, <3>2, RequestIs DEF Asking, Asks
      <4>2. Announced("pcsampling")
        BY <1>1, <2>1, <2>3, <3>2, <4>1 DEF SamplesAccounted, Sought
      <4> QED
        BY <1>5, <4>2
    <3> QED
      BY <3>1, <3>2
  <2>4. ASSUME past.session.copied PROVE ~Lost("memory")'
    <3>1. CASE "memory" \notin Enabled(request)
      BY <1>2, <1>6, <3>1, RequestIs
    <3>2. CASE "memory" \in Enabled(request)
      <4>1. Asking
        BY <1>1, <1>2, <3>2, RequestIs DEF Asking, Asks
      <4>2. Announced("memory")
        BY <1>1, <2>1, <2>4, <3>2, <4>1 DEF Accounted, MemoryAccounted
      <4> QED
        BY <1>5, <4>2
    <3> QED
      BY <3>1, <3>2
  <2> QED
    BY <2>2, <2>3, <2>4
<1>8. SwitchesSet' /\ CountersAccounted' /\ MemoryAccounted'
  BY <1>1 DEF SwitchesSet, CountersAccounted, MemoryAccounted, Asking
<1>9. KernelsAccounted'
  BY <1>1 DEF Accounted, KernelsAccounted
<1> QED
  BY <1>7, <1>8, <1>9 DEF Accounted

\* A step of one thread, as the other launches see it.
Acts(v) ==
  /\ call[v] # Absent \/ call'[v] # Absent
  /\ \A t \in Threads \ {v} : call'[t] = call[t]
  /\ past.overlaps \subseteq past'.overlaps /\ past'.subscribers = past.subscribers
  /\ call'[v] # Absent =>
       /\ call'[v].heard <= past.subscribers
       /\ call[v] # Absent => call'[v].launch = call[v].launch
       /\ call[v] = Absent =>
            \A t \in Threads \ {v} :
              call[t] # Absent => {call'[v].launch, call[t].launch} \in past'.overlaps

\* Launches under way stay known to overlap,
LEMMA ActsOverlapping ==
  ASSUME NEW v \in Threads, Acts(v), Overlapping
  PROVE  Overlapping'
<1>1. ASSUME NEW t \in Threads, NEW u \in Threads, t # u, call'[t] # Absent, call'[u] # Absent
      PROVE  {call'[t].launch, call'[u].launch} \in past'.overlaps
  <2>1. CASE t # v /\ u # v
    BY <1>1, <2>1 DEF Acts, Overlapping
  <2>2. CASE t = v
    <3>1. call'[u] = call[u] /\ u \in Threads \ {v}
      BY <1>1, <2>2 DEF Acts
    <3>2. CASE call[v] = Absent
      BY <1>1, <2>2, <3>1, <3>2 DEF Acts
    <3>3. CASE call[v] # Absent
      BY <1>1, <2>2, <3>1, <3>3 DEF Acts, Overlapping
    <3> QED
      BY <3>2, <3>3
  <2>3. CASE u = v
    <3>1. call'[t] = call[t] /\ t \in Threads \ {v}
      BY <1>1, <2>3 DEF Acts
    <3>2. CASE call[v] = Absent
      <4>1. {call'[v].launch, call[t].launch} \in past'.overlaps
        BY <1>1, <2>3, <3>1, <3>2 DEF Acts
      <4>2. {call'[v].launch, call[t].launch} = {call'[t].launch, call'[u].launch}
        BY <2>3, <3>1
      <4> QED
        BY <4>1, <4>2
    <3>3. CASE call[v] # Absent
      BY <1>1, <2>3, <3>1, <3>3 DEF Acts, Overlapping
    <3> QED
      BY <3>2, <3>3
  <2> QED
    BY <2>1, <2>2, <2>3
<1>2. ASSUME NEW t \in Threads, call'[t] # Absent PROVE call'[t].heard <= past'.subscribers
  BY <1>2 DEF Acts, Overlapping
<1> QED
  BY <1>1, <1>2 DEF Overlapping

\* so none but that of the thread can be alone.
LEMMA ActsAlone ==
  ASSUME NEW v \in Threads, Acts(v), Overlapping, NEW t \in Threads, t # v
  PROVE  ~Alone(t)'
<1>1. SUFFICES ASSUME call'[t] # Absent
               PROVE  \E pair \in past'.overlaps : call'[t].launch \in pair
  BY DEF Alone
<1>2. call'[t] = call[t]
  BY DEF Acts
<1>3. CASE call[v] # Absent
  BY <1>1, <1>2, <1>3 DEF Acts, Overlapping
<1>4. CASE call'[v] # Absent
  <2>1. {call'[v].launch, call'[t].launch} \in past'.overlaps
    BY <1>1, <1>4, ActsOverlapping DEF Overlapping
  <2> QED
    BY <2>1
<1> QED
  BY <1>3, <1>4 DEF Acts

\* What the steps of a thread keep for the samples.
KeepsSamples ==
  /\ UNCHANGED <<phase, request>> /\ reasons \subseteq reasons' /\ (aborted => aborted')
  /\ switches'.pc = switches.pc \/ "pcsampling" \in reasons' \/ aborted'
  /\ DOMAIN vendorEvents \subseteq DOMAIN vendorEvents'

\* What the step of a thread owes them.
OwesSamples(v) ==
  /\ phase = "running" /\ Alone(v)' => OnTheirWay(v)'
  /\ past'.session.exited => past.session.exited \/ Announced("pcsampling")'

\* The samples of the one launch that is alone are accounted for.
LEMMA ActsSamples ==
  ASSUME NEW v \in Threads, Acts(v), Overlapping, SamplesAccounted, KeepsSamples,
         Sought /\ Sought' => OwesSamples(v)
  PROVE  SamplesAccounted'
<1>1. SUFFICES ASSUME Sought'
               PROVE  /\ phase \in {"made", "running"} => switches'.pc
                      /\ phase = "running" => \A t \in Threads : Alone(t)' => OnTheirWay(t)'
                      /\ past'.session.exited => Announced("pcsampling")'
  BY DEF SamplesAccounted, KeepsSamples
<1>2. Sought /\ switches'.pc = switches.pc
  BY <1>1 DEF Sought, Asking, KeepsSamples
<1>3. Announced("pcsampling") => Announced("pcsampling")'
  BY DEF KeepsSamples, Announced
<1>4. OwesSamples(v)
  BY <1>1, <1>2
<1>5. \A t \in Threads : Alone(t)' => t = v
  BY ActsAlone
<1> QED
  BY <1>2, <1>3, <1>4, <1>5 DEF SamplesAccounted, OwesSamples

\* A launch that begins is the step of its thread.
LEMMA EnteredActs ==
  ASSUME Typed, NEW l \in Launches, Entered(ThreadOf[l], l),
         past'.overlaps = Begins(past, l).overlaps, past'.subscribers = past.subscribers
  PROVE  /\ ThreadOf[l] \in Threads /\ Acts(ThreadOf[l])
         /\ call'[ThreadOf[l]].at = "entered"
         /\ call'[ThreadOf[l]].heard = (IF Hears THEN past.subscribers ELSE 0)
<1>1. PICK t \in Threads : t = ThreadOf[l] /\ call[t] = Absent
  BY EnteredTyped
<1>2. PICK u \in Underway : /\ u.launch = l /\ u.at = "entered"
                            /\ u.heard = (IF Hears THEN past.subscribers ELSE 0)
                            /\ call' = [call EXCEPT ![t] = u]
  BY <1>1, EnteredTyped
<1>3. call \in [Threads -> Underway \cup {Absent}] /\ past \in PastType /\ u # Absent
  BY AbsentAssumption DEF Typed, TypedCalls, TypedPast
<1>4. \A v \in Threads : call'[v] = IF v = t THEN u ELSE call[v]
  BY <1>2, <1>3
<1>5. u.heard <= past.subscribers
  BY <1>2, <1>3 DEF PastType
<1>6. PICK N : /\ Begins(past, l).overlaps = past.overlaps \cup N
               /\ N = {{l, call[v].launch} : v \in {w \in Threads : call[w] # Absent}}
  BY <1>3 DEF Begins, PastType
<1>7. \A v \in Threads : call[v] # Absent => {l, call[v].launch} \in past'.overlaps
  BY <1>6
<1>8. Acts(t)
  BY <1>1, <1>2, <1>3, <1>4, <1>5, <1>6, <1>7 DEF Acts
<1> QED
  BY <1>1, <1>2, <1>4, <1>8

\* What the callbacks keep for a report they keep for the samples.
LEMMA ReportsSamples ==
  ASSUME KeepsReports
  PROVE  KeepsSamples
BY DEF KeepsReports, KeepsSamples

\* A launch that begins alone is sampled,
LEMMA EnterSamples ==
  ASSUME Typed, Accounted, Overlapping, SamplesAccounted, NEW l \in Launches,
         \/ EnterPlain(ThreadOf[l], l) \/ EnterSampling(ThreadOf[l], l)
         \/ \E swap \in Swaps, left \in {{}, {ContextOf[l]}} :
              EnterRefused(ThreadOf[l], l, swap, left)
  PROVE  Overlapping' /\ SamplesAccounted'
<1>1. PICK t \in Threads : t = ThreadOf[l]
  BY NvidiaAssumption
<1>2. Entered(t, l) /\ phase = "running"
  BY <1>1 DEF EnterPlain, EnterSampling, EnterRefused, Entered
<1>3. KeepsSamples
  BY EnterReports, ReportsSamples
<1>4. /\ Begins(past, l) \in PastType /\ KeepsHistory(Begins(past, l))
      /\ Begins(past, l).session = past.session
  BY <1>1, <1>2, EnteredTyped, HistoryKept
<1>5. CASE EnterPlain(t, l) \/ EnterSampling(t, l)
  <2>1. past' = Begins(past, l)
    BY <1>5 DEF EnterPlain, EnterSampling
  <2>2. past'.session.exited = past.session.exited /\ past'.subscribers = past.subscribers
    BY <1>4, <2>1 DEF KeepsHistory
  <2>3. /\ Acts(t) /\ call'[t].at = "entered"
        /\ call'[t].heard = (IF Hears THEN past.subscribers ELSE 0)
    BY <1>1, <1>2, <2>1, <2>2, EnteredActs
  <2>4. ASSUME Sought, Alone(t)' PROVE sampler'.started
    <3>1. CASE EnterSampling(t, l)
      BY <3>1 DEF EnterSampling
    <3>2. CASE EnterPlain(t, l)
      <4>1. past.subscribers # 0
        BY <1>2 DEF Accounted, SwitchesSet
      <4>2. Hears
        BY <2>2, <2>3, <2>4, <4>1 DEF Alone
      <4>3. switches.pc
        BY <1>2, <2>4 DEF SamplesAccounted
      <4> QED
        BY <3>2, <4>2, <4>3 DEF EnterPlain
    <3> QED
      BY <1>5, <3>1, <3>2
  <2>5. Sought => OwesSamples(t)
    BY <2>2, <2>3, <2>4 DEF OwesSamples, OnTheirWay
  <2> QED
    BY <1>3, <2>3, <2>5, ActsOverlapping, ActsSamples
<1>6. CASE \E swap \in Swaps, left \in {{}, {ContextOf[l]}} : EnterRefused(t, l, swap, left)
  <2>1. PICK swap \in Swaps, left \in {{}, {ContextOf[l]}} : EnterRefused(t, l, swap, left)
    BY <1>6
  <2>2. PICK c \in Contexts, d \in Nat :
          /\ c = ContextOf[l]
          /\ d = IF c \in sampler.initialized /\ c \notin cupti.enabled THEN 0 ELSE 1
    BY NvidiaAssumption
  <2>3. left \in SUBSET Contexts /\ Refused(Begins(past, l), c, swap, left, d)
    BY <2>1, <2>2 DEF EnterRefused
  <2>4. /\ KeepsHistory(past') /\ past'.overlaps = Begins(past, l).overlaps
        /\ aborted' \/ "pcsampling" \in reasons'
    BY <1>4, <2>3, RefusedReports
  <2>5. past'.subscribers = past.subscribers
    BY <2>4 DEF KeepsHistory
  <2>6. Acts(t)
    BY <1>1, <1>2, <2>4, <2>5, EnteredActs
  <2>7. ~Sought'
    BY <2>4 DEF Sought
  <2> QED
    BY <1>3, <2>6, <2>7, ActsOverlapping, ActsSamples
<1> QED
  BY <1>1, <1>5, <1>6

\* its driver call has samples where it is sampled,
LEMMA DriverSamples ==
  ASSUME Typed, Overlapping, SamplesAccounted, NEW t \in Threads, NEW l \in Launches,
         NEW n \in Underway, NEW p \in Nat \ {0}, DriverAs(t, l, p, n)
  PROVE  Overlapping' /\ SamplesAccounted'
<1>1. /\ call \in [Threads -> Underway \cup {Absent}] /\ n # Absent /\ call[t] # Absent
      /\ call[t].at = "entered" /\ call[t].launch = l
  BY AbsentAssumption DEF Typed, TypedCalls, DriverAs
<1>2. /\ call' = [call EXCEPT ![t] = n]
      /\ n.launch = l /\ n.at = "launched" /\ n.heard = call[t].heard
  BY DEF DriverAs
<1>3. \A v \in Threads : call'[v] = IF v = t THEN n ELSE call[v]
  BY <1>1, <1>2
<1>4. /\ past'.subscribers = past.subscribers /\ past'.overlaps = past.overlaps
      /\ past'.session.exited = past.session.exited
  BY DriverAdds
<1>5. Acts(t)
  BY <1>1, <1>2, <1>3, <1>4 DEF Acts, Overlapping
<1>6. KeepsSamples
  BY DEF KeepsSamples, DriverAs
<1>7. ASSUME Sought, phase = "running", Alone(t)' PROVE OnTheirWay(t)'
  <2>1. Alone(t)
    BY <1>1, <1>2, <1>3, <1>4, <1>7 DEF Alone
  <2>2. sampler.started
    BY <1>1, <1>7, <2>1 DEF SamplesAccounted, OnTheirWay
  <2>3. ASSUME ContextOf[l] \in cupti'.sampling PROVE cupti'.sampled # <<>>
    <3>1. cupti \in CuptiType /\ Nodes[l] \in Nat /\ Nodes[l] # 0
      BY <1>1, <2>1, NvidiaAssumption DEF Alone, Typed, TypedSampling
    <3>2. ContextOf[l] \in cupti.sampling
      BY <2>3, <3>1 DEF DriverAs, CuptiType
    <3>3. PICK s \in Seq(Kernel), k \in Seq(Kernel) : s = cupti.sampled /\ k = Kernels(l)
      BY <3>1, KernelsTyped DEF CuptiType
    <3>4. cupti'.sampled = Joined(s, k)
      BY <3>1, <3>2, <3>3 DEF DriverAs, CuptiType, Joined
    <3>5. k[1] \in ToSet(k)
      <4>1. DOMAIN k = 1..Nodes[l] /\ 1 \in 1..Nodes[l]
        BY <3>1, <3>3 DEF Kernels
      <4> QED
        BY <4>1 DEF ToSet
    <3>6. ToSet(Joined(s, k)) # {}
      BY <3>3, <3>5, JoinedHas
    <3> QED
      BY <3>4, <3>6 DEF ToSet
  <2>4. sampler' = sampler
    BY DEF DriverAs
  <2> QED
    BY <1>2, <1>3, <2>2, <2>3, <2>4 DEF OnTheirWay
<1>8. Sought => OwesSamples(t)
  BY <1>4, <1>7 DEF OwesSamples
<1> QED
  BY <1>5, <1>6, <1>8, ActsOverlapping, ActsSamples

\* A launch that exits, or whose samples are fetched from now on.
LEMMA ExitedActs ==
  ASSUME Typed, Overlapping, NEW t \in Threads, call[t] # Absent,
         past'.overlaps = past.overlaps, past'.subscribers = past.subscribers,
         NEW n \in Underway \cup {Absent}, call' = [call EXCEPT ![t] = n],
         n # Absent => n.launch = call[t].launch /\ n.heard = call[t].heard
  PROVE  Acts(t) /\ call'[t] = n
<1>1. call \in [Threads -> Underway \cup {Absent}]
  BY DEF Typed, TypedCalls
<1>2. \A v \in Threads : call'[v] = IF v = t THEN n ELSE call[v]
  BY <1>1
<1> QED
  BY <1>2 DEF Acts, Overlapping

\* its exit hands them over,
LEMMA ExitSamples ==
  ASSUME Typed, Overlapping, SamplesAccounted, NEW t \in Threads,
         \/ ExitPlain(t) \/ ExitSampling(t) \/ \E swap \in Swaps : ExitRefused(t, swap)
  PROVE  Overlapping' /\ SamplesAccounted'
<1>1. call[t] # Absent /\ call[t].at = "launched" /\ Absent \in Underway \cup {Absent}
  BY DEF ExitPlain, ExitSampling, ExitRefused, AtExit
<1>2. KeepsSamples
  BY ExitReports, ReportsSamples
<1>3. /\ call[t] \in Underway
      /\ KeepsHistory(Exited(past, t)) /\ Exited(past, t) \in PastType
      /\ Exited(past, t).overlaps = past.overlaps
      /\ Exited(past, t).session.exited =>
           \/ past.session.exited
           \/ /\ Heard(t) /\ phase = "running" /\ Nodes[call[t].launch] # 0
              /\ \A pair \in past.overlaps : call[t].launch \notin pair
  BY <1>1, CallIn, HistoryKept, ExitedTyped
<1>4. CASE ExitPlain(t)
  <2>1. past' = Exited(past, t) /\ call' = [call EXCEPT ![t] = Absent] /\ ~Stops(t)
    BY <1>4 DEF ExitPlain, Leaves
  <2>2. past'.overlaps = past.overlaps /\ past'.subscribers = past.subscribers
    BY <1>3, <2>1 DEF KeepsHistory
  <2>3. Acts(t) /\ call'[t] = Absent
    BY <1>1, <2>1, <2>2, ExitedActs
  <2>4. ASSUME Sought, past'.session.exited PROVE past.session.exited
    <3>1. SUFFICES ASSUME Heard(t), phase = "running", Alone(t) PROVE FALSE
      BY <1>1, <1>3, <2>1, <2>4 DEF Heard, Alone
    <3>2. switches.pc /\ sampler.started
      BY <1>1, <2>4, <3>1 DEF SamplesAccounted, OnTheirWay
    <3> QED
      BY <2>1, <3>1, <3>2 DEF Stops
  <2>5. Sought => OwesSamples(t)
    BY <2>3, <2>4 DEF OwesSamples, Alone
  <2> QED
    BY <1>2, <2>3, <2>5, ActsOverlapping, ActsSamples
<1>5. CASE ExitSampling(t)
  <2>1. PICK n \in Underway : n = [call[t] EXCEPT !.at = "processing"]
    BY <1>3 DEF Underway
  <2>2. n.launch = call[t].launch /\ n.heard = call[t].heard /\ n.at = "processing"
    BY <1>3, <2>1 DEF Underway
  <2>3. call' = [call EXCEPT ![t] = n]
    BY <1>5, <2>1 DEF ExitSampling
  <2>4. /\ past'.overlaps = past.overlaps /\ past'.subscribers = past.subscribers
        /\ past'.session.exited = past.session.exited
    BY <1>5 DEF ExitSampling, Typed, TypedPast, PastType
  <2>5. Acts(t) /\ call'[t] = n
    BY <1>1, <2>2, <2>3, <2>4, ExitedActs
  <2>6. ASSUME Sought, phase = "running", Alone(t)' PROVE buffer'.total # <<>>
    <3>1. n # Absent
      BY AbsentAssumption
    <3>2. Alone(t)
      BY <1>1, <2>2, <2>4, <2>5, <2>6, <3>1 DEF Alone
    <3>3. ContextOf[call[t].launch] \in cupti.sampling
      BY <1>5 DEF ExitSampling
    <3>4. cupti.sampled # <<>>
      BY <1>1, <2>6, <3>2, <3>3 DEF SamplesAccounted, OnTheirWay
    <3>5. PICK s \in Seq(Kernel) : s = cupti.sampled
      BY DEF Typed, TypedSampling, CuptiType
    <3>6. PICK w : w = Within(s, BufferPCs)
      OBVIOUS
    <3>7. buffer'.total = w
      BY <1>5, <3>5, <3>6 DEF ExitSampling
    <3>8. Len(w) # 0
      <4>1. Len(s) \in Nat \ {0} /\ BufferPCs \in Nat \ {0}
        BY <3>4, <3>5, NvidiaAssumption
      <4>2. Len(w) = IF Len(s) <= BufferPCs THEN Len(s) ELSE BufferPCs
        BY <3>6, <4>1, WithinIs
      <4> QED
        BY <4>1, <4>2
    <3> QED
      BY <3>7, <3>8
  <2>7. Sought => OwesSamples(t)
    BY <2>2, <2>4, <2>5, <2>6 DEF OwesSamples, OnTheirWay
  <2> QED
    BY <1>2, <2>5, <2>7, ActsOverlapping, ActsSamples
<1>6. CASE \E swap \in Swaps : ExitRefused(t, swap)
  <2>1. PICK swap \in Swaps : ExitRefused(t, swap)
    BY <1>6
  <2>2. PICK c \in Contexts, d \in Nat :
          c = ContextOf[call[t].launch] /\ d = IF c \in cupti.sampling THEN 1 ELSE 0
    BY <1>1, CallIn
  <2>3. PICK p \in PastType : p = Exited(past, t)
    BY <1>3
  <2>4. Refused(p, c, swap, {}, d)
    BY <2>1, <2>2, <2>3 DEF ExitRefused
  <2>5. /\ KeepsHistory(past') /\ past'.overlaps = p.overlaps
        /\ aborted' \/ "pcsampling" \in reasons'
    BY <1>3, <2>3, <2>4, RefusedReports
  <2>6. past'.overlaps = past.overlaps /\ past'.subscribers = past.subscribers
    BY <1>3, <2>3, <2>5 DEF KeepsHistory
  <2>7. call' = [call EXCEPT ![t] = Absent]
    BY <2>1 DEF ExitRefused, Leaves
  <2>8. Acts(t)
    BY <1>1, <2>6, <2>7, ExitedActs
  <2>9. ~Sought'
    BY <2>5 DEF Sought
  <2> QED
    BY <1>2, <2>8, <2>9, ActsOverlapping, ActsSamples
<1> QED
  BY <1>4, <1>5, <1>6

\* and the rounds record them.
LEMMA RoundSamples ==
  ASSUME Typed, Accounted, Overlapping, SamplesAccounted, NEW t \in Threads,
         \/ Round(t) \/ RoundsDone(t) \/ \E swap \in Swaps : RoundRefused(t, swap)
  PROVE  Overlapping' /\ SamplesAccounted'
<1>1. processing # Absent /\ processing.thread = t /\ Absent \in Underway \cup {Absent}
  BY DEF Round, RoundsDone, RoundRefused
<1>2. PICK l \in Launches :
        /\ l = call[t].launch /\ ContextOf[l] \in Contexts /\ call[t] # Absent
        /\ call[t] \in Underway /\ call[t].at = "processing"
  BY <1>1, ProcessingIn
<1>3. /\ KeepsHistory(Exited(past, t)) /\ Exited(past, t) \in PastType
      /\ Exited(past, t).overlaps = past.overlaps
      /\ Exited(past, t).session.exited =>
           \/ past.session.exited
           \/ /\ Heard(t) /\ phase = "running" /\ Nodes[call[t].launch] # 0
              /\ \A pair \in past.overlaps : call[t].launch \notin pair
  BY <1>2, HistoryKept, ExitedTyped
<1>4. KeepsSamples
  BY RoundReports, ReportsSamples
<1>5. ASSUME Sought, phase = "running", Alone(t)
      PROVE  buffer.total # <<>> \/ Announced("pcsampling")
  BY <1>2, <1>5 DEF SamplesAccounted, OnTheirWay
<1>6. CASE Round(t)
  <2>1. vendorEvents' = Captured(SampleEvents(l)) /\ past' = past /\ call' = call
    BY <1>2, <1>6 DEF Round
  <2>2. Acts(t)
    BY <1>2, <2>1 DEF Acts, Overlapping
  <2>3. /\ DOMAIN vendorEvents \subseteq DOMAIN vendorEvents'
        /\ switches.capture /\ buffer.total # <<>> => Announced("pcsampling")'
    BY <2>1, SamplesAdded
  <2>4. ASSUME Sought, phase = "running", Alone(t)' PROVE Announced("pcsampling")'
    <3>1. Alone(t)
      BY <2>1, <2>4 DEF Alone
    <3>2. switches.capture
      BY <2>4 DEF Sought, Accounted, SwitchesSet
    <3> QED
      BY <1>5, <2>3, <2>4, <3>1, <3>2 DEF Announced
  <2>5. Sought => OwesSamples(t)
    BY <1>2, <2>1, <2>4 DEF OwesSamples, OnTheirWay
  <2> QED
    BY <1>4, <2>2, <2>5, ActsOverlapping, ActsSamples
<1>7. CASE RoundsDone(t)
  <2>1. /\ past' = Exited(past, t) /\ call' = [call EXCEPT ![t] = Absent]
        /\ buffer.total = <<>> /\ vendorEvents' = vendorEvents
    BY <1>7 DEF RoundsDone, Leaves, MoreToHandle
  <2>2. past'.overlaps = past.overlaps /\ past'.subscribers = past.subscribers
    BY <1>3, <2>1 DEF KeepsHistory
  <2>3. Acts(t) /\ call'[t] = Absent
    BY <1>1, <1>2, <2>1, <2>2, ExitedActs
  <2>4. ASSUME Sought, past'.session.exited
        PROVE  past.session.exited \/ Announced("pcsampling")'
    <3>1. SUFFICES ASSUME phase = "running", Alone(t) PROVE Announced("pcsampling")'
      BY <1>2, <1>3, <2>1, <2>4 DEF Heard, Alone
    <3>2. Announced("pcsampling")
      BY <1>5, <2>1, <2>4, <3>1
    <3> QED
      BY <2>1, <3>2 DEF Announced
  <2>5. Sought => OwesSamples(t)
    BY <2>3, <2>4 DEF OwesSamples, Alone
  <2> QED
    BY <1>4, <2>3, <2>5, ActsOverlapping, ActsSamples
<1>8. CASE \E swap \in Swaps : RoundRefused(t, swap)
  <2>1. PICK swap \in Swaps : RoundRefused(t, swap)
    BY <1>8
  <2>2. PICK p \in PastType, c \in Contexts : p = Exited(past, t) /\ c = ContextOf[l]
    BY <1>2, <1>3
  <2>3. Refused(p, c, swap, {}, 1)
    BY <1>2, <2>1, <2>2 DEF RoundRefused
  <2>4. /\ KeepsHistory(past') /\ past'.overlaps = p.overlaps
        /\ aborted' \/ "pcsampling" \in reasons'
    BY <1>3, <2>2, <2>3, RefusedReports
  <2>5. past'.overlaps = past.overlaps /\ past'.subscribers = past.subscribers
    BY <1>3, <2>2, <2>4 DEF KeepsHistory
  <2>6. call' = [call EXCEPT ![t] = Absent]
    BY <2>1 DEF RoundRefused, Leaves
  <2>7. Acts(t)
    BY <1>1, <1>2, <2>5, <2>6, ExitedActs
  <2>8. ~Sought'
    BY <2>4 DEF Sought
  <2> QED
    BY <1>4, <2>7, <2>8, ActsOverlapping, ActsSamples
<1> QED
  BY <1>6, <1>7, <1>8

\* A session that is made samples when its request asks for instructions.
LEMMA MakeSessionSamples ==
  ASSUME Typed, Overlapping, NEW r \in RequestType, MakeSession(r)
  PROVE  Overlapping' /\ SamplesAccounted'
<1>1. past \in PastType /\ switches \in SwitchType
  BY DEF Typed, TypedPast, TypedControl
<1>2. phase' = "made" /\ request' = r /\ call' = call
  BY DEF MakeSession
<1>3. PICK a \in BOOLEAN : a = (running = {} /\ records = <<>>)
  OBVIOUS
<1>4. /\ past'.session = [Session0 EXCEPT !.alone = a]
      /\ past'.overlaps = past.overlaps /\ past'.subscribers = past.subscribers
  BY <1>1, <1>3 DEF MakeSession, PastType
<1>5. ~past'.session.exited
  BY <1>4 DEF Session0
<1>6. ASSUME Asks(r), "instruction" \in Enabled(r) PROVE switches'.pc
  <2>1. r.backend = "nvidia" /\ Samples(r)
    BY <1>6, RequestIs DEF Asks
  <2>2. switches' = Configured(r)
    BY <2>1 DEF MakeSession, Configure
  <2>3. PICK s \in BOOLEAN, m \in BOOLEAN : s = Samples(r) /\ m = ("memory" \in Enabled(r))
    <3>1. r.pc \in BOOLEAN
      BY DEF RequestType
    <3>2. Samples(r) \in BOOLEAN
      BY <3>1 DEF Samples
    <3>3. ("memory" \in Enabled(r)) \in BOOLEAN
      OBVIOUS
    <3> QED
      BY <3>2, <3>3, Zenon
  <2>4. switches' = [switches EXCEPT !.pc = s, !.optional = s, !.unavailable = FALSE,
                                     !.capture = Enabled(r) # {}, !.memory = m]
    BY <2>2, <2>3 DEF Configured
  <2>5. switches'.pc = s
    BY <1>1, <2>4 DEF SwitchType
  <2> QED
    BY <2>1, <2>3, <2>5
<1>7. Overlapping'
  BY <1>2, <1>4 DEF Overlapping
<1>8. SamplesAccounted'
  BY <1>2, <1>5, <1>6 DEF SamplesAccounted, Sought, Asking
<1> QED
  BY <1>7, <1>8

\* A rejected start leaves the samples of the session that runs,
LEMMA RejectedStartSamples ==
  ASSUME Typed, Overlapping, SamplesAccounted, NEW r \in RequestType, RejectedStart(r)
  PROVE  Overlapping' /\ SamplesAccounted'
<1>1. /\ phase = "running"
      /\ past'.session = past.session /\ past'.subscribers = past.subscribers
      /\ past'.overlaps = past.overlaps
      /\ Asks(request) =>
           UNCHANGED <<reasons, vendorEvents>> /\ (switches.pc => switches'.pc)
  BY RejectedStartIs
<1>2. UNCHANGED <<phase, request, call, sampler, cupti, buffer, aborted>>
  BY DEF RejectedStart
<1>3. Overlapping'
  BY <1>1, <1>2 DEF Overlapping
<1>4. SamplesAccounted'
  <2>1. SUFFICES ASSUME Sought'
                 PROVE  /\ switches'.pc
                        /\ \A t \in Threads : Alone(t)' => OnTheirWay(t)'
                        /\ past'.session.exited => Announced("pcsampling")'
    BY DEF SamplesAccounted
  <2>2. Asks(request) /\ Sought /\ vendorEvents' = vendorEvents
    BY <1>1, <1>2, <2>1 DEF Sought, Asking
  <2>3. switches'.pc
    BY <1>1, <2>2 DEF SamplesAccounted
  <2>4. ASSUME NEW t \in Threads, Alone(t)' PROVE OnTheirWay(t)'
    <3>1. Alone(t)
      BY <1>1, <1>2, <2>4 DEF Alone
    <3>2. OnTheirWay(t)
      BY <1>1, <2>2, <3>1 DEF SamplesAccounted
    <3> QED
      BY <1>2, <2>2, <3>2 DEF OnTheirWay, Announced
  <2>5. past'.session.exited => Announced("pcsampling")'
    BY <1>1, <2>2 DEF SamplesAccounted, Announced
  <2> QED
    BY <2>3, <2>4, <2>5
<1> QED
  BY <1>3, <1>4

\* and a start that succeeds is heard by none of the launches under way.
LEMMA StartSamples ==
  ASSUME Typed, Accounted, Overlapping, SamplesAccounted, Start
  PROVE  Overlapping' /\ SamplesAccounted'
<1>1. PICK c \in Contexts \cup {Absent}, n \in {Success} \cup DOMAIN Setup,
           kept \in SUBSET CuptiObjects, on \in BOOLEAN,
           A \in SUBSET (KernelKinds \cup MemoryKinds),
           C \in SUBSET {"resource", "graph", "runtime", "driver"}, d \in Nat :
        StartsAs(c, n, kept, on, A, C, d)
  BY StartIs
<1>2. phase = "made" /\ ~past.session.exited
  BY StartIs DEF Accounted, SwitchesSet
<1>3. past \in PastType /\ switches \in SwitchType
  BY DEF Typed, TypedControl, TypedPast
<1>4. /\ past'.session = past.session /\ past'.overlaps = past.overlaps
      /\ past'.subscribers = past.subscribers + (IF on THEN 1 ELSE 0)
  BY <1>1, <1>3 DEF StartsAs, PastType
<1>5. /\ UNCHANGED <<request, call, aborted>>
      /\ phase' \in {"idle", "running"} /\ reasons \subseteq reasons'
      /\ phase' = "running" => on
      /\ switches'.pc = switches.pc
  BY <1>1, <1>3 DEF StartsAs, SwitchType
<1>6. \A t \in Threads : call[t] # Absent => call[t].heard \in Nat
  BY CallIn DEF Underway
<1>7. past.subscribers \in Nat
  BY <1>3 DEF PastType
<1>8. Overlapping'
  <2>1. \A t \in Threads : call'[t] # Absent => call'[t].heard <= past'.subscribers
    BY <1>4, <1>5, <1>6, <1>7 DEF Overlapping
  <2> QED
    BY <1>4, <1>5, <2>1 DEF Overlapping
<1>9. ASSUME phase' = "running", NEW t \in Threads PROVE ~Alone(t)'
  <2>1. past'.subscribers = past.subscribers + 1
    BY <1>4, <1>5, <1>9
  <2>2. call[t] # Absent => call[t].heard # past.subscribers + 1
    BY <1>6, <1>7 DEF Overlapping
  <2> QED
    BY <1>5, <2>1, <2>2 DEF Alone
<1>10. ASSUME Sought' PROVE switches'.pc
  <2>1. Sought
    BY <1>2, <1>5, <1>10 DEF Sought, Asking
  <2> QED
    BY <1>2, <1>5, <2>1 DEF SamplesAccounted
<1>11. SamplesAccounted'
  BY <1>2, <1>4, <1>5, <1>9, <1>10 DEF SamplesAccounted
<1> QED
  BY <1>8, <1>11

\* The end of a session loses no samples.
LEMMA EndSamples ==
  ASSUME Overlapping, SamplesAccounted, UNCHANGED <<request, call, aborted>>,
         phase # "idle", phase' \notin {"made", "running"}, reasons \subseteq reasons',
         past'.overlaps = past.overlaps, past'.subscribers = past.subscribers,
         past'.session.exited = past.session.exited,
         DOMAIN vendorEvents \subseteq DOMAIN vendorEvents'
  PROVE  Overlapping' /\ SamplesAccounted'
<1>1. Overlapping'
  BY DEF Overlapping
<1>2. Sought' => Sought
  BY DEF Sought, Asking
<1>3. Announced("pcsampling") => Announced("pcsampling")'
  BY DEF Announced
<1>4. SamplesAccounted'
  BY <1>2, <1>3 DEF SamplesAccounted
<1> QED
  BY <1>1, <1>4

\* The flush,
LEMMA FlushSamples ==
  ASSUME Typed, Overlapping, SamplesAccounted, Flush
  PROVE  Overlapping' /\ SamplesAccounted'
<1>1. PICK c \in Callers, ended \in SUBSET {k.kernel[1] : k \in running} : DoFlush(c, ended)
  BY DEF Flush
<1>2. past \in PastType /\ past.session \in SessionType
  BY DEF Typed, TypedPast, PastType
<1>3. PICK D : D = {k \in past.session.launched : ContextOf[k[1]] = c}
  OBVIOUS
<1>4. past' = [past EXCEPT !.session.due = D]
  BY <1>1, <1>3 DEF DoFlush
<1>5. /\ past'.session = [past.session EXCEPT !.due = D]
      /\ past'.overlaps = past.overlaps /\ past'.subscribers = past.subscribers
  BY <1>2, <1>4 DEF PastType
<1>6. past'.session.exited = past.session.exited
  BY <1>2, <1>5 DEF SessionType
<1>7. /\ phase = "running" /\ phase' = "flushing"
      /\ UNCHANGED <<request, call, aborted, reasons, vendorEvents>>
  BY <1>1 DEF Flush, DoFlush
<1> QED
  BY <1>5, <1>6, <1>7, EndSamples

\* the records that are handed over,
LEMMA FlushedSamples ==
  ASSUME Typed, Overlapping, SamplesAccounted, Flushed
  PROVE  Overlapping' /\ SamplesAccounted'
<1>1. past \in PastType /\ past.session \in SessionType /\ TypedEvents /\ records \in Seq(Kernel)
  BY DEF Typed, TypedPast, PastType, TypedRecords
<1>2. PICK B : B = {r \in ToSet(records) : r[2] # 0}
  OBVIOUS
<1>3. past' = [past EXCEPT !.session.based = @ \cup B]
  BY <1>2 DEF Flushed, Deliver
<1>4. /\ past'.session = [past.session EXCEPT !.based = @ \cup B]
      /\ past'.overlaps = past.overlaps /\ past'.subscribers = past.subscribers
  BY <1>1, <1>3 DEF PastType
<1>5. past'.session.exited = past.session.exited
  BY <1>1, <1>4 DEF SessionType
<1>6. /\ phase = "flushing" /\ phase' = "flushed"
      /\ UNCHANGED <<request, call, aborted, reasons>>
  BY DEF Flushed
<1> DEFINE kind(r) == IF r[2] # 0 THEN "kernel" ELSE "memory"
           E == {Event(kind(r), r[1], r) : r \in ToSet(records)}
<1>7. ToSet(records) \in SUBSET Kernel
  <2> PICK T : T = Kernel
    OBVIOUS
  <2>1. \A i \in DOMAIN records : records[i] \in T
    BY <1>1
  <2>2. ToSet(records) \in SUBSET T
    BY <2>1 DEF ToSet
  <2> QED
    BY <2>2
<1>8. E \in SUBSET EventType
  <2>1. \A r \in Kernel : Event(kind(r), r[1], r) \in EventType
    BY DEF Event, EventType, Kernel
  <2> QED
    BY <1>7, <2>1
<1>9. vendorEvents' = Captured(E)
  BY DEF Flushed, Deliver
<1> HIDE DEF E
<1>10. DOMAIN vendorEvents \subseteq DOMAIN vendorEvents'
  BY <1>1, <1>8, <1>9, CapturedTyped
<1> QED
  BY <1>4, <1>5, <1>6, <1>10, EndSamples

\* a flush that is refused,
LEMMA FlushRefusedSamples ==
  ASSUME Typed, Overlapping, SamplesAccounted, FlushRefused
  PROVE  Overlapping' /\ SamplesAccounted'
<1>1. past \in PastType /\ past.session \in SessionType
  BY DEF Typed, TypedPast, PastType
<1>2. past' = [past EXCEPT !.refusals = @ + 1, !.session.blind = TRUE]
  BY DEF FlushRefused
<1>3. /\ past'.session = [past.session EXCEPT !.blind = TRUE]
      /\ past'.overlaps = past.overlaps /\ past'.subscribers = past.subscribers
  BY <1>1, <1>2 DEF PastType
<1>4. past'.session.exited = past.session.exited
  BY <1>1, <1>3 DEF SessionType
<1>5. /\ phase = "flushing" /\ phase' = "flushed" /\ reasons \subseteq reasons'
      /\ UNCHANGED <<request, call, aborted, vendorEvents>>
  BY DEF FlushRefused
<1> QED
  BY <1>3, <1>4, <1>5, EndSamples

\* the stop
LEMMA StopSamples ==
  ASSUME Typed, Overlapping, SamplesAccounted, Stop
  PROVE  Overlapping' /\ SamplesAccounted'
<1>1. PICK done : \E n \in 0..MaxRanges, kept \in SUBSET CuptiObjects, throws \in BOOLEAN,
           m \in BOOLEAN, d \in Nat, b \in BOOLEAN : StopsAs(n, kept, done, throws, m, d, b)
  BY StopIs
<1>2. PICK n \in 0..MaxRanges, kept \in SUBSET CuptiObjects, throws \in BOOLEAN,
           m \in BOOLEAN, d \in Nat, b \in BOOLEAN : StopsAs(n, kept, done, throws, m, d, b)
  BY <1>1
<1>3. past \in PastType /\ TypedEvents
  BY DEF Typed, TypedPast
<1>4. /\ past'.session = past.session
      /\ past'.overlaps = past.overlaps /\ past'.subscribers = past.subscribers
  BY <1>2, <1>3 DEF StopsAs, PastType
<1>5. /\ phase = "flushed" /\ phase' \in {"idle", "stopped"} /\ reasons \subseteq reasons'
      /\ UNCHANGED <<request, call, aborted>>
  BY <1>2 DEF StopsAs
<1>6. DOMAIN vendorEvents \subseteq DOMAIN vendorEvents'
  <2>1. PICK E : vendorEvents' = vendorEvents (+) SetToBag(E)
    BY <1>2 DEF StopsAs
  <2> QED
    BY <1>3, <2>1, MoreEvents DEF TypedEvents
<1> QED
  BY <1>4, <1>5, <1>6, EndSamples

\* and the import.
LEMMA ImportSamples ==
  ASSUME Overlapping, Import
  PROVE  Overlapping' /\ SamplesAccounted'
<1>1. phase' = "idle" /\ UNCHANGED <<call, past>>
  BY DEF Import
<1> QED
  BY <1>1 DEF Overlapping, SamplesAccounted, Sought, Asking

\* The steps, by what they do to the reports.
LEMMA ReportCases ==
  ASSUME Typed, Next
  PROVE  \/ \E r \in RequestType : MakeSession(r) \/ RejectedStart(r)
         \/ Start
         \/ \E l \in Launches :
              \/ EnterPlain(ThreadOf[l], l) \/ EnterSampling(ThreadOf[l], l)
              \/ \E swap \in Swaps, left \in {{}, {ContextOf[l]}} :
                   EnterRefused(ThreadOf[l], l, swap, left)
         \/ \E t \in Threads, l \in Launches, n \in Underway, p \in Nat \ {0} : DriverAs(t, l, p, n)
         \/ \E t \in Threads :
              ExitPlain(t) \/ ExitSampling(t) \/ \E swap \in Swaps : ExitRefused(t, swap)
         \/ \E t \in Threads :
              Round(t) \/ RoundsDone(t) \/ \E swap \in Swaps : RoundRefused(t, swap)
         \/ Flush \/ Flushed \/ FlushRefused \/ Stop \/ Import
<1>1. CASE \E r \in NextRequests : MakeSession(r) \/ RejectedStart(r)
  <2>1. past.starts < Len(Requests) /\ past.starts \in Nat
    BY <1>1 DEF NextRequests, Typed, TypedPast, PastType
  <2>2. Requests[past.starts + 1] \subseteq RequestType
    BY <2>1, NvidiaAssumption DEF RequestType
  <2> QED
    BY <1>1, <2>1, <2>2 DEF NextRequests
<1>2. CASE \E l \in Launches : LET t == ThreadOf[l] IN
             \/ EnterPlain(t, l) \/ EnterSampling(t, l)
             \/ \E swap \in Swaps, left \in {{}, {ContextOf[l]}} : EnterRefused(t, l, swap, left)
  BY <1>2
<1>3. CASE \E t \in Threads :
             \/ \E passes \in 1..MaxPasses : Driver(t, passes)
             \/ ExitPlain(t) \/ ExitSampling(t) \/ Round(t) \/ RoundsDone(t)
             \/ \E swap \in Swaps : ExitRefused(t, swap) \/ RoundRefused(t, swap)
  <2>1. PICK t \in Threads :
             \/ \E passes \in 1..MaxPasses : Driver(t, passes)
             \/ ExitPlain(t) \/ ExitSampling(t) \/ Round(t) \/ RoundsDone(t)
             \/ \E swap \in Swaps : ExitRefused(t, swap) \/ RoundRefused(t, swap)
    BY <1>3
  <2>2. CASE \E passes \in 1..MaxPasses : Driver(t, passes)
    <3>1. PICK passes \in 1..MaxPasses : Driver(t, passes)
      BY <2>2
    <3>2. passes \in Nat \ {0}
      BY NvidiaAssumption
    <3>3. \E l \in Launches, n \in Underway : DriverAs(t, l, passes, n)
      BY <3>1, DriverIs
    <3> QED
      BY <3>2, <3>3
  <2> QED
    BY <2>1, <2>2
<1> QED
  BY <1>1, <1>2, <1>3 DEF Next

\* What is lost is reported, is on its way, or is in the records of a launch that runs.
LossInvariant == Accounted /\ Overlapping /\ SamplesAccounted

\* Nothing is lost at first,
LEMMA InitLoss ==
  ASSUME Init
  PROVE  LossInvariant
<1>1. Accounted
  BY DEF Init, Accounted, SwitchesSet, CountersAccounted, MemoryAccounted, KernelsAccounted,
         ArtifactTells, Asking, Session0
<1>2. \A t \in Threads : call[t] = Absent
  BY DEF Init
<1> QED
  BY <1>1, <1>2 DEF Init, LossInvariant, Overlapping, SamplesAccounted, Sought, Asking

\* nor by a step,
LEMMA LossKept ==
  ASSUME Typed, LossInvariant, Next
  PROVE  LossInvariant'
<1> USE DEF LossInvariant
<1>1. CASE \E r \in RequestType : MakeSession(r) \/ RejectedStart(r)
  BY <1>1, MakeSessionAccounted, MakeSessionSamples, RejectedStartAccounted, RejectedStartSamples
<1>2. CASE Start
  BY <1>2, StartAccounted, StartSamples
<1>3. CASE \E l \in Launches :
              \/ EnterPlain(ThreadOf[l], l) \/ EnterSampling(ThreadOf[l], l)
              \/ \E swap \in Swaps, left \in {{}, {ContextOf[l]}} :
                   EnterRefused(ThreadOf[l], l, swap, left)
  BY <1>3, EnterReports, QuietAccounted, EnterSamples
<1>4. CASE \E t \in Threads, l \in Launches, n \in Underway, p \in Nat \ {0} : DriverAs(t, l, p, n)
  BY <1>4, DriverAccounted, DriverSamples
<1>5. CASE \E t \in Threads :
             ExitPlain(t) \/ ExitSampling(t) \/ \E swap \in Swaps : ExitRefused(t, swap)
  BY <1>5, ExitReports, QuietAccounted, ExitSamples
<1>6. CASE \E t \in Threads :
             Round(t) \/ RoundsDone(t) \/ \E swap \in Swaps : RoundRefused(t, swap)
  BY <1>6, RoundReports, QuietAccounted, RoundSamples
<1>7. CASE Flush \/ Flushed \/ FlushRefused
  BY <1>7, FlushAccounted, FlushedAccounted, FlushRefusedAccounted,
     FlushSamples, FlushedSamples, FlushRefusedSamples
<1>8. CASE Stop \/ Import
  BY <1>8, StopAccounted, ImportAccounted, StopSamples, ImportSamples
<1> QED
  BY <1>1, <1>2, <1>3, <1>4, <1>5, <1>6, <1>7, <1>8, ReportCases

\* nor by one that changes nothing.
LEMMA LossStutter ==
  ASSUME LossInvariant, UNCHANGED vars
  PROVE  LossInvariant'
<1>1. Accounted'
  BY DEF LossInvariant, vars, Accounted, SwitchesSet, CountersAccounted, MemoryAccounted,
         KernelsAccounted, ArtifactTells, Asking, Announced, Watched, Lost
<1>2. Overlapping' /\ SamplesAccounted'
  BY DEF LossInvariant, vars, Overlapping, SamplesAccounted, Sought, Asking, Announced, Alone,
         OnTheirWay
<1> QED
  BY <1>1, <1>2 DEF LossInvariant

\* The invariant says what a report promises.
LEMMA LossTold ==
  ASSUME LossInvariant
  PROVE  LossIsReported
<1>1. ASSUME artifact # Absent, artifact.reasons = {}
      PROVE  /\ past.session.launched # {} => ~Lost("hardware_counter")
             /\ past.session.exited => ~Lost("pcsampling")
             /\ past.session.copied => ~Lost("memory")
  BY <1>1 DEF LossInvariant, Accounted, ArtifactTells
<1>2. phase = "flushed" /\ ~past.session.blind => past.session.due \subseteq past.session.based
  BY DEF LossInvariant, Accounted, KernelsAccounted
<1> QED
  BY <1>1, <1>2 DEF LossIsReported, Lost

\* What CUPTI refuses or the collectors cannot keep is missing from the artifact with
\* a reason, and the flushed kernels are in the profile, for any launches, threads,
\* contexts and sessions and whatever calls CUPTI refuses.
THEOREM LossesAreReported == Spec => []LossIsReported
<1>1. Init => Typed /\ LossInvariant
  BY InitTyped, InitLoss
<1>2. Typed /\ LossInvariant /\ [Next]_vars => (Typed /\ LossInvariant)'
  BY StepTyped, StutterTyped, LossKept, LossStutter
<1>3. LossInvariant => LossIsReported
  BY LossTold
<1> QED
  BY <1>1, <1>2, <1>3, PTL DEF Spec

----------------------------------------------------------------------------
(* Samples are given to the launches they are of.                            *)

\* Neither CUPTI nor a rejected start has interfered with the sampling.
Clean == ~past.pcRefused /\ ~past.switchedOff /\ ~aborted

\* A launch has the samples of another only when they overlap, or when that one
\* was entered in an earlier session.
Belongs(k, l) == k[1] = l \/ {k[1], l} \in past.overlaps \/ k[1] \in past.late

\* The samples that are recorded, and those that will be.
Sampled == {e \in DOMAIN vendorEvents : e.kind = "pcsampling"}
Buffered == ToSet(buffer.total) \cup ToSet(buffer.remaining)
Distinct(s) == \A i, j \in DOMAIN s : s[i] = s[j] => i = j

\* One context is sampled, by callbacks that are heard; no samples are left when none is.
OneSampler ==
  /\ cupti.sampling # {} =>
       /\ phase \in {"running", "flushing", "flushed"} /\ Hears
       /\ switches.pc /\ sampler.started
  /\ \A c, d \in cupti.sampling : c = d
  /\ cupti.sampling = {} => cupti.sampled = <<>>

\* The launch whose samples CUPTI collects has not exited, if this session hears it.
StillThere(k) ==
  k[1] \in past.late \/
  \E t \in Threads : /\ call[t] # Absent /\ call[t].launch = k[1]
                     /\ call[t].at = "launched" /\ call[t].heard = past.subscribers

\* What CUPTI collects it has not handed over before,
Collected ==
  /\ \A k \in ToSet(cupti.sampled) : StillThere(k) /\ k \notin past.handed /\ Taken(k[1])
  /\ Distinct(cupti.sampled)

\* and what it has handed over is in the buffer or recorded, for the right launch.
Handled ==
  /\ \A k \in past.handed : Taken(k[1])
  /\ Buffered \subseteq past.handed
  /\ processing # Absent =>
       \A k \in Buffered : Belongs(k, call[processing.thread].launch)
  /\ ToSet(buffer.total) \cap ToSet(buffer.remaining) = {} /\ Distinct(buffer.remaining)
  /\ \A e \in Sampled : /\ Belongs(e.kernel, e.scope)
                        /\ e.kernel \in past.handed /\ e.kernel \notin Buffered
                        /\ vendorEvents[e] = 1
  /\ \A e, f \in Sampled : e.kernel = f.kernel => e = f

\* None of the session's own is lost.
NoneLost ==
  phase = "running" /\ Asks(request) =>
    \A k \in past.handed \cap past.session.launched :
      k \in Buffered \/ \E e \in Sampled : e.kernel = k

SamplesInvariant ==
  /\ processing # Absent => ~sampler.started
  /\ processing = Absent => Buffered = {}
  /\ Clean => OneSampler /\ Collected /\ Handled /\ NoneLost

\* The invariant says what is promised of the samples.
LEMMA SamplesTold ==
  ASSUME SamplesInvariant
  PROVE  SamplesOfTheLaunch
<1>1. SUFFICES ASSUME Clean
               PROVE  /\ \A e \in Sampled : /\ Belongs(e.kernel, e.scope)
                                            /\ vendorEvents[e] = 1
                      /\ processing = Absent /\ phase = "running" /\ Asks(request) =>
                           \A k \in past.handed \cap past.session.launched :
                             Cardinality({e \in Sampled : e.kernel = k}) = 1
  BY DEF SamplesOfTheLaunch, Clean, Belongs, Sampled, BagToSet
<1>2. Handled /\ NoneLost
  BY <1>1 DEF SamplesInvariant
<1>3. ASSUME processing = Absent, phase = "running", Asks(request),
             NEW k \in past.handed \cap past.session.launched
      PROVE  Cardinality({e \in Sampled : e.kernel = k}) = 1
  <2>1. PICK e \in Sampled : e.kernel = k
    BY <1>2, <1>3 DEF NoneLost, SamplesInvariant
  <2>2. {f \in Sampled : f.kernel = k} = {e}
    BY <1>2, <2>1 DEF Handled
  <2> QED
    BY <2>2, FS_Singleton
<1> QED
  BY <1>2, <1>3 DEF Handled

\* What of a sequence does not fit into a buffer of n.
Rest(s, n) == SubSeq(s, Len(Within(s, n)) + 1, Len(s))

\* The parts of a sequence without repetition are disjoint and have none either.
LEMMA DistinctCut ==
  ASSUME NEW T, NEW s \in Seq(T), NEW n \in Nat
  PROVE  /\ ToSet(Within(s, n)) \cup ToSet(Rest(s, n)) = ToSet(s)
         /\ Distinct(s) => ToSet(Within(s, n)) \cap ToSet(Rest(s, n)) = {}
         /\ Distinct(s) => Distinct(Rest(s, n))
<1> PICK w : w = Within(s, n)
  OBVIOUS
<1> PICK r : r = Rest(s, n) /\ r = SubSeq(s, Len(w) + 1, Len(s))
  BY DEF Rest
<1>0. PICK p \in Nat : p = Len(s)
  OBVIOUS
<1>1. PICK m \in Nat : p = Len(s) /\ m = IF p < n THEN p ELSE n
  BY <1>0
<1>2. w \in Seq(T) /\ Len(w) = m /\ \A i \in 1..m : w[i] = s[i]
  BY <1>1, WithinIs
<1>3. m <= p
  BY <1>1
<1>4. r \in Seq(T) /\ Len(r) = p - m /\ \A i \in 1 .. p - m : r[i] = s[m + i]
  <2>1. PICK a \in Nat : a = m + 1
    OBVIOUS
  <2>2. r = SubSeq(s, a, p)
    BY <1>1, <1>2, <2>1
  <2>3. \A i \in a .. p : s[i] \in T
    BY <1>1, <2>1
  <2>4. a <= p + 1
    BY <1>3, <2>1
  <2>5. /\ SubSeq(s, a, p) \in Seq(T)
        /\ Len(SubSeq(s, a, p)) = IF a <= p THEN (p - a) + 1 ELSE 0
        /\ \A i \in 1 .. (p - a) + 1 : SubSeq(s, a, p)[i] = s[a + i - 1]
    BY <1>0, <2>3
  <2>6. Len(r) = p - m
    <3>1. Len(r) = IF a <= p THEN (p - a) + 1 ELSE 0
      BY <2>2, <2>5, Zenon
    <3>2. CASE a <= p
      <4>1. Len(r) = (p - a) + 1
        BY <3>1, <3>2, Zenon
      <4>2. (p - a) + 1 = p - m
        BY <2>1
      <4> QED
        BY <4>1, <4>2
    <3>3. CASE ~(a <= p)
      <4>1. Len(r) = 0
        BY <3>1, <3>3, Zenon
      <4>2. p - m = 0
        BY <1>3, <2>1, <3>3
      <4> QED
        BY <4>1, <4>2
    <3> QED
      BY <3>2, <3>3
  <2>7. ASSUME NEW i \in 1 .. p - m PROVE r[i] = s[m + i]
    <3>1. i \in 1 .. (p - a) + 1 /\ a + i - 1 = m + i
      BY <2>1
    <3> QED
      BY <2>2, <2>5, <3>1
  <2> QED
    BY <2>2, <2>5, <2>6, <2>7
<1>5. PICK q \in Nat : q = p - m /\ DOMAIN r = 1..q
  BY <1>3, <1>4
<1>6. DOMAIN s = 1..p /\ DOMAIN w = 1..m
  BY <1>1, <1>2
<1>7. /\ ToSet(s) = {s[i] : i \in 1..p} /\ ToSet(w) = {w[i] : i \in 1..m}
      /\ ToSet(r) = {r[i] : i \in 1..q}
  BY <1>5, <1>6 DEF ToSet
<1>8. \A i \in 1..q : m + i \in 1..p /\ m + i \notin 1..m /\ r[i] = s[m + i]
  <2>1. ASSUME NEW i \in 1..q PROVE m + i \in 1..p /\ m + i \notin 1..m /\ i \in 1 .. p - m
    BY <1>3, <1>5
  <2> QED
    BY <1>4, <2>1
<1>9. \A i \in 1..m : i \in 1..p /\ w[i] = s[i]
  BY <1>2, <1>3
<1>10. ASSUME NEW i \in 1..p PROVE s[i] \in ToSet(w) \cup ToSet(r)
  <2>1. CASE i \in 1..m
    BY <1>7, <1>9, <2>1
  <2>2. CASE i \notin 1..m
    <3>1. PICK j \in 1..q : i = m + j
      <4>1. i - m \in 1..q /\ i = m + (i - m)
        BY <1>5, <2>2
      <4> QED
        BY <4>1
    <3> QED
      BY <1>7, <1>8, <3>1
  <2> QED
    BY <2>1, <2>2
<1>11. ToSet(w) \cup ToSet(r) = ToSet(s)
  <2>1. ToSet(w) \subseteq ToSet(s)
    BY <1>7, <1>9
  <2>2. ToSet(r) \subseteq ToSet(s)
    BY <1>7, <1>8
  <2>3. ToSet(s) \subseteq ToSet(w) \cup ToSet(r)
    BY <1>7, <1>10
  <2> QED
    BY <2>1, <2>2, <2>3
<1>12. ASSUME Distinct(s) PROVE ToSet(w) \cap ToSet(r) = {} /\ Distinct(r)
  <2>1. \A i, j \in 1..p : s[i] = s[j] => i = j
    BY <1>6, <1>12 DEF Distinct
  <2>2. ASSUME NEW i \in 1..m, NEW j \in 1..q PROVE w[i] # r[j]
    <3>1. i \in 1..p /\ m + j \in 1..p /\ i # m + j /\ w[i] = s[i] /\ r[j] = s[m + j]
      BY <1>8, <1>9
    <3> QED
      BY <2>1, <3>1
  <2>3. ASSUME NEW i \in 1..q, NEW j \in 1..q, r[i] = r[j] PROVE i = j
    <3>1. s[m + i] = s[m + j] /\ m + i \in 1..p /\ m + j \in 1..p
      BY <1>8, <2>3
    <3>2. m + i = m + j
      BY <2>1, <3>1
    <3> QED
      BY <3>2
  <2>4. ToSet(w) \cap ToSet(r) = {}
    BY <1>7, <2>2
  <2>5. Distinct(r)
    BY <1>5, <2>3 DEF Distinct
  <2> QED
    BY <2>4, <2>5
<1> QED
  BY <1>11, <1>12

\* Two sequences without repetition that share nothing make one without repetition.
LEMMA DistinctConcat ==
  ASSUME NEW T, NEW s \in Seq(T), NEW u \in Seq(T), NEW x, x = s \o u,
         Distinct(s), Distinct(u), ToSet(s) \cap ToSet(u) = {}
  PROVE  Distinct(x)
<1>1. PICK n \in Nat, m \in Nat : n = Len(s) /\ m = Len(u)
  OBVIOUS
<1>2. /\ x \in Seq(T) /\ Len(x) = n + m
      /\ \A i \in 1..n : x[i] = s[i]
      /\ \A i \in n + 1 .. n + m : x[i] = u[i - n]
  BY <1>1, ConcatIs
<1>3. DOMAIN s = 1..n /\ DOMAIN u = 1..m
  BY <1>1
<1>4. PICK k \in Nat : k = n + m /\ DOMAIN x = 1..k
  BY <1>1, <1>2
<1>5. ASSUME NEW i \in 1..k, i \notin 1..n
      PROVE  \E h \in 1..m : i = n + h /\ x[i] = u[h]
  <2>1. i \in n + 1 .. n + m /\ i - n \in 1..m /\ i = n + (i - n)
    BY <1>4, <1>5
  <2> QED
    BY <1>2, <2>1
<1>6. ASSUME NEW i \in 1..n, NEW h \in 1..m PROVE s[i] # u[h]
  <2>1. s[i] \in ToSet(s) /\ u[h] \in ToSet(u)
    BY <1>3, ValueIn
  <2> QED
    BY <2>1
<1>7. ASSUME NEW i \in 1..k, NEW j \in 1..k, x[i] = x[j] PROVE i = j
  <2>1. CASE i \in 1..n /\ j \in 1..n
    BY <1>2, <1>3, <1>7, <2>1 DEF Distinct
  <2>2. CASE i \in 1..n /\ j \notin 1..n
    BY <1>2, <1>5, <1>6, <1>7, <2>2
  <2>3. CASE i \notin 1..n /\ j \in 1..n
    BY <1>2, <1>5, <1>6, <1>7, <2>3
  <2>4. CASE i \notin 1..n /\ j \notin 1..n
    <3>1. PICK g \in 1..m, h \in 1..m : i = n + g /\ x[i] = u[g] /\ j = n + h /\ x[j] = u[h]
      BY <1>5, <2>4
    <3>2. g = h
      BY <1>3, <1>7, <3>1 DEF Distinct
    <3> QED
      BY <3>1, <3>2
  <2> QED
    BY <2>1, <2>2, <2>3, <2>4
<1> QED
  BY <1>4, <1>7 DEF Distinct

\* The kernels of a launch are distinct, and so they are after those of others.
LEMMA DistinctLaunch ==
  ASSUME NEW l \in Launches, NEW s \in Seq(Kernel), Distinct(s),
         \A k \in ToSet(s) : k[1] # l
  PROVE  Distinct(Joined(s, Kernels(l)))
<1>1. PICK m \in Nat : m = Nodes[l]
  BY NvidiaAssumption
<1>0. PICK T : T = Kernel
  OBVIOUS
<1>2. PICK u \in Seq(T) : T = Kernel /\ u = Kernels(l)
  BY <1>0, KernelsTyped
<1>3. DOMAIN u = 1..m /\ \A i \in 1..m : u[i] = <<l, i>>
  BY <1>1, <1>2 DEF Kernels
<1>4. Distinct(u)
  BY <1>3 DEF Distinct
<1>5. ToSet(s) \cap ToSet(u) = {}
  BY <1>3 DEF ToSet
<1>6. ASSUME NEW x, x = s \o u PROVE Distinct(x)
  <2>1. s \in Seq(T)
    BY <1>2
  <2> QED
    BY <1>2, <1>4, <1>5, <1>6, <2>1, DistinctConcat, ZenonT(30)
<1> QED
  BY <1>2, <1>6 DEF Joined

\* A step in which no samples are handed over, fetched or recorded.
Steady ==
  /\ UNCHANGED <<buffer, processing>> /\ past'.handed = past.handed
  /\ past.overlaps \subseteq past'.overlaps /\ past.late \subseteq past'.late
  /\ past.started \subseteq past'.started /\ KeepsCalls
  /\ processing # Absent => call'[processing.thread].launch = call[processing.thread].launch
  /\ Sampled' \subseteq Sampled /\ \A e \in Sampled' : vendorEvents'[e] = vendorEvents[e]
  /\ Clean' => Clean

\* A launch that was made stays made.
LEMMA TakenKept ==
  ASSUME KeepsCalls, past.started \subseteq past'.started, NEW l, Taken(l)
  PROVE  Taken(l)'
<1>1. ASSUME NEW t \in Threads, call'[t] # Absent, call'[t].launch = l, call'[t].at = "entered"
      PROVE  FALSE
  <2>1. CASE call[t] # Absent /\ call'[t].launch = call[t].launch
             /\ (call'[t].at = "entered" => call[t].at = "entered")
    BY <1>1, <2>1 DEF Taken
  <2>2. CASE call'[t].launch \notin past.started
    BY <1>1, <2>2 DEF Taken
  <2> QED
    BY <1>1, <2>1, <2>2 DEF KeepsCalls
<1> QED
  BY <1>1 DEF Taken

\* Such a step keeps what was handed over,
LEMMA SteadyHandled ==
  ASSUME Steady, Handled
  PROVE  Handled'
<1>1. Buffered' = Buffered /\ UNCHANGED <<buffer, processing>> /\ past'.handed = past.handed
  BY DEF Steady, Buffered
<1>2. ASSUME NEW k, NEW l, Belongs(k, l) PROVE Belongs(k, l)'
  BY <1>2 DEF Belongs, Steady
<1>3. \A k \in past'.handed : Taken(k[1])'
  BY <1>1, TakenKept DEF Steady, Handled
<1>4. ASSUME processing' # Absent, NEW k \in Buffered'
      PROVE  Belongs(k, call[processing.thread].launch)'
  <2>1. PICK l : l = call[processing.thread].launch
    OBVIOUS
  <2>2. Belongs(k, l)
    BY <1>1, <1>4, <2>1 DEF Handled
  <2>3. call'[processing'.thread].launch = l
    BY <1>1, <1>4, <2>1 DEF Steady
  <2> QED
    BY <1>2, <2>2, <2>3
<1>5. ASSUME NEW e \in Sampled'
      PROVE  /\ Belongs(e.kernel, e.scope)'
             /\ e.kernel \in past'.handed /\ e.kernel \notin Buffered'
             /\ vendorEvents'[e] = 1
  BY <1>1, <1>2 DEF Steady, Handled
<1>6. \A e, f \in Sampled' : e.kernel = f.kernel => e = f
  BY DEF Steady, Handled
<1>7. Buffered' \subseteq past'.handed /\ ToSet(buffer'.total) \cap ToSet(buffer'.remaining) = {}
      /\ Distinct(buffer'.remaining)
  BY <1>1 DEF Handled
<1> QED
  BY <1>3, <1>4, <1>5, <1>6, <1>7 DEF Handled

\* and what CUPTI collects, unless a launch is lost with it.
LEMMA SteadyCollected ==
  ASSUME Steady, Collected, cupti'.sampled = cupti.sampled,
         \A k \in ToSet(cupti.sampled) : StillThere(k) => StillThere(k)'
  PROVE  Collected'
BY TakenKept DEF Collected, Steady

\* Nothing is collected of a context that is not sampled.
LEMMA NoneCollected ==
  ASSUME cupti.sampled = <<>>
  PROVE  Collected
BY DEF Collected, Distinct, ToSet

\* So it remains to look at what is sampled.
LEMMA SteadySamples ==
  ASSUME Steady, SamplesInvariant, sampler'.started => sampler.started \/ processing = Absent,
         Clean /\ Clean' => OneSampler' /\ Collected' /\ NoneLost'
  PROVE  SamplesInvariant'
<1>1. Buffered' = Buffered /\ processing' = processing /\ (Clean' => Clean)
  BY DEF Steady, Buffered
<1>2. Clean' => Handled'
  BY <1>1, SteadyHandled DEF SamplesInvariant
<1> QED
  BY <1>1, <1>2 DEF SamplesInvariant

\* The first state,
LEMMA InitSamples ==
  ASSUME Init
  PROVE  SamplesInvariant
<1>1. /\ DOMAIN vendorEvents = {} /\ buffer.total = <<>> /\ buffer.remaining = <<>>
      /\ processing = Absent /\ cupti.sampling = {} /\ cupti.sampled = <<>>
      /\ past.handed = {} /\ phase = "idle"
  BY DEF Init, EmptyBag, SetToBag, Empty, Fresh
<1>2. Buffered = {} /\ Sampled = {} /\ Distinct(buffer.remaining)
  BY <1>1 DEF Buffered, Sampled, ToSet, Distinct
<1>3. Collected
  BY <1>1, NoneCollected
<1>4. OneSampler /\ NoneLost
  BY <1>1 DEF OneSampler, NoneLost
<1>5. Handled
  BY <1>1, <1>2 DEF Handled, Buffered
<1> QED
  BY <1>1, <1>2, <1>3, <1>4, <1>5 DEF SamplesInvariant

\* the session that is made,
LEMMA MakeSessionKeepsSamples ==
  ASSUME Typed, SamplesInvariant, NEW r \in RequestType, MakeSession(r)
  PROVE  SamplesInvariant'
<1>1. past \in PastType
  BY DEF Typed, TypedPast
<1>2. /\ phase = "idle" /\ phase' = "made"
      /\ UNCHANGED <<sampler, cupti, buffer, processing, call, aborted>>
      /\ vendorEvents' = EmptyBag \/ vendorEvents' = vendorEvents
  BY DEF MakeSession, Configure
<1>3. /\ past'.handed = past.handed /\ past'.overlaps = past.overlaps
      /\ past'.late = past.late /\ past'.started = past.started
      /\ past'.pcRefused = past.pcRefused /\ past'.switchedOff = past.switchedOff
  BY <1>1 DEF MakeSession, PastType
<1>4. Sampled' \subseteq Sampled /\ \A e \in Sampled' : vendorEvents'[e] = vendorEvents[e]
  BY <1>2 DEF Sampled, EmptyBag, SetToBag
<1>5. Steady
  BY <1>2, <1>3, <1>4 DEF Steady, KeepsCalls, Clean
<1>6. ASSUME Clean PROVE OneSampler' /\ Collected' /\ NoneLost'
  <2>1. cupti.sampling = {} /\ cupti.sampled = <<>>
    BY <1>2, <1>6 DEF SamplesInvariant, OneSampler
  <2>2. Collected'
    BY <1>2, <2>1, NoneCollected DEF Collected, Distinct, ToSet
  <2> QED
    BY <1>2, <2>1, <2>2 DEF OneSampler, NoneLost
<1> QED
  BY <1>2, <1>5, <1>6, SteadySamples

\* the start that is rejected,
LEMMA RejectedStartKeepsSamples ==
  ASSUME Typed, SamplesInvariant, NEW r \in RequestType, RejectedStart(r)
  PROVE  SamplesInvariant'
<1>1. /\ past \in PastType /\ switches'.pc \in BOOLEAN
      /\ past.switchedOff \in BOOLEAN /\ switches.pc \in BOOLEAN
      /\ past.stranded \in BOOLEAN /\ counters.active \in BOOLEAN
  BY ConfigureTyped DEF Typed, TypedControl, TypedCounters, TypedPast, PastType, CounterType,
     SwitchType, RejectedStart
<1>2. /\ phase = "running"
      /\ UNCHANGED <<phase, request, sampler, cupti, buffer, processing, call, aborted>>
      /\ vendorEvents' = EmptyBag \/ vendorEvents' = vendorEvents
  BY DEF RejectedStart, Configure
<1>3. PICK a \in BOOLEAN, b \in BOOLEAN :
        /\ a = (past.stranded \/ (r.backend = "nvidia" /\ counters.active))
        /\ b = (past.switchedOff \/ (switches.pc /\ ~switches'.pc))
  BY <1>1
<1>4. past' = [past EXCEPT !.starts = @ + 1, !.stranded = a, !.switchedOff = b]
  BY <1>3 DEF RejectedStart
<1>5. /\ past'.handed = past.handed /\ past'.overlaps = past.overlaps
      /\ past'.late = past.late /\ past'.started = past.started
      /\ past'.pcRefused = past.pcRefused /\ past'.switchedOff = b
      /\ past'.session = past.session /\ past'.subscribers = past.subscribers
  BY <1>1, <1>4 DEF PastType
<1>6. Sampled' \subseteq Sampled /\ \A e \in Sampled' : vendorEvents'[e] = vendorEvents[e]
  BY <1>2 DEF Sampled, EmptyBag, SetToBag
<1>7. Clean' => Clean /\ (switches.pc => switches'.pc)
  BY <1>2, <1>3, <1>5 DEF Clean
<1>8. Steady
  BY <1>2, <1>5, <1>6, <1>7 DEF Steady, KeepsCalls
<1>9. ASSUME Clean, Clean' PROVE OneSampler' /\ Collected' /\ NoneLost'
  <2>1. OneSampler'
    BY <1>2, <1>7, <1>9 DEF SamplesInvariant, OneSampler, Hears
  <2>2. \A k : StillThere(k) => StillThere(k)'
    BY <1>2, <1>5 DEF StillThere
  <2>3. Collected'
    BY <1>2, <1>8, <1>9, <2>2, SteadyCollected DEF SamplesInvariant
  <2>4. Asks(request) => vendorEvents' = vendorEvents
    BY RejectedStartIs
  <2>5. NoneLost'
    BY <1>2, <1>5, <1>9, <2>4 DEF SamplesInvariant, NoneLost, Buffered, Sampled
  <2> QED
    BY <2>1, <2>3, <2>5
<1> QED
  BY <1>2, <1>8, <1>9, SteadySamples

\* and the start keep the samples.
LEMMA StartKeepsSamples ==
  ASSUME Typed, SwitchesSet, SamplesInvariant, Start
  PROVE  SamplesInvariant'
<1>1. PICK c \in Contexts \cup {Absent}, n \in {Success} \cup DOMAIN Setup,
           kept \in SUBSET CuptiObjects, on \in BOOLEAN,
           A \in SUBSET (KernelKinds \cup MemoryKinds),
           C \in SUBSET {"resource", "graph", "runtime", "driver"}, d \in Nat :
        StartsAs(c, n, kept, on, A, C, d)
  BY StartIs
<1>2. phase = "made" /\ past.session.launched = {}
  BY StartIs DEF SwitchesSet
<1>3. past \in PastType /\ cupti \in CuptiType
  BY DEF Typed, TypedPast, TypedSampling
<1>4. /\ past'.handed = past.handed /\ past'.overlaps = past.overlaps
      /\ past'.late = past.late /\ past'.started = past.started
      /\ past'.pcRefused = past.pcRefused /\ past'.switchedOff = past.switchedOff
      /\ past'.session = past.session
  BY <1>1, <1>3 DEF StartsAs, PastType
<1>5. /\ UNCHANGED <<sampler, buffer, processing, vendorEvents, call, aborted>>
      /\ cupti'.sampling = cupti.sampling /\ cupti'.sampled = cupti.sampled
  BY <1>1, <1>3 DEF StartsAs, CuptiType
<1>6. Steady
  BY <1>4, <1>5 DEF Steady, KeepsCalls, Clean, Sampled
<1>7. ASSUME Clean PROVE OneSampler' /\ Collected' /\ NoneLost'
  <2>1. cupti.sampling = {} /\ cupti.sampled = <<>>
    BY <1>2, <1>7 DEF SamplesInvariant, OneSampler
  <2>2. Collected'
    BY <1>5, <2>1 DEF Collected, Distinct, ToSet
  <2> QED
    BY <1>2, <1>4, <1>5, <2>1, <2>2 DEF OneSampler, NoneLost
<1> QED
  BY <1>5, <1>6, <1>7, SteadySamples

\* A launch that begins takes nothing from the samples of others.
LEMMA EnteredSteady ==
  ASSUME Typed, NEW l \in Launches, Entered(ThreadOf[l], l), past' = Begins(past, l),
         UNCHANGED <<buffer, processing, vendorEvents, aborted>>
  PROVE  /\ Steady /\ past'.session = past.session
         /\ past'.subscribers = past.subscribers /\ past'.handed = past.handed
         /\ (Clean' => Clean) /\ \A k : StillThere(k) => StillThere(k)'
<1>1. PICK t \in Threads : t = ThreadOf[l] /\ call[t] = Absent
  BY EnteredTyped
<1>2. past \in PastType
  BY DEF Typed, TypedPast
<1>3. PICK A, B : Begins(past, l) = [past EXCEPT !.started = past.started \cup A,
                                                 !.overlaps = past.overlaps \cup B]
  BY DEF Begins
<1>4. /\ past'.handed = past.handed /\ past.overlaps \subseteq past'.overlaps
      /\ past'.late = past.late /\ past.started \subseteq past'.started
      /\ past'.pcRefused = past.pcRefused /\ past'.switchedOff = past.switchedOff
      /\ past'.session = past.session /\ past'.subscribers = past.subscribers
  BY <1>2, <1>3 DEF PastType
<1>5. KeepsCalls /\ Acts(t)
  BY <1>1, <1>4, EnteredQuiet, EnteredActs
<1>6. \A v \in Threads : call[v] # Absent => call'[v] = call[v]
  BY <1>1, <1>5 DEF Acts
<1>7. processing # Absent => call'[processing.thread].launch = call[processing.thread].launch
  BY <1>6, ProcessingIn
<1>8. Sampled' \subseteq Sampled /\ \A e \in Sampled' : vendorEvents'[e] = vendorEvents[e]
  BY DEF Sampled
<1>9. Clean' => Clean
  BY <1>4 DEF Clean
<1>10. Steady
  BY <1>4, <1>5, <1>7, <1>8, <1>9 DEF Steady
<1>11. ASSUME NEW k, StillThere(k) PROVE StillThere(k)'
  <2>1. CASE k[1] \in past.late
    BY <1>4, <2>1 DEF StillThere
  <2>2. CASE \E v \in Threads : /\ call[v] # Absent /\ call[v].launch = k[1]
                                /\ call[v].at = "launched" /\ call[v].heard = past.subscribers
    BY <1>4, <1>6, <2>2 DEF StillThere
  <2> QED
    BY <1>11, <2>1, <2>2 DEF StillThere
<1> QED
  BY <1>4, <1>9, <1>10, <1>11

\* The launch that begins with nothing to start,
LEMMA EnterPlainKeepsSamples ==
  ASSUME Typed, SamplesInvariant, NEW l \in Launches, EnterPlain(ThreadOf[l], l)
  PROVE  SamplesInvariant'
<1>1. /\ Entered(ThreadOf[l], l) /\ past' = Begins(past, l)
      /\ UNCHANGED <<phase, request, switches, sampler, cupti, buffer, processing,
                     vendorEvents, aborted>>
  BY DEF EnterPlain
<1>2. /\ Steady /\ past'.session = past.session /\ past'.handed = past.handed
      /\ \A k : StillThere(k) => StillThere(k)'
  BY <1>1, EnteredSteady
<1>3. ASSUME Clean PROVE OneSampler' /\ Collected' /\ NoneLost'
  <2>1. OneSampler'
    BY <1>1, <1>3 DEF SamplesInvariant, OneSampler, Hears
  <2>2. Collected'
    BY <1>1, <1>2, <1>3, SteadyCollected DEF SamplesInvariant
  <2>3. NoneLost'
    BY <1>1, <1>2, <1>3 DEF SamplesInvariant, NoneLost, Buffered, Sampled
  <2> QED
    BY <2>1, <2>2, <2>3
<1> QED
  BY <1>1, <1>2, <1>3, SteadySamples

\* that starts the sampling of its context,
LEMMA EnterSamplingKeepsSamples ==
  ASSUME Typed, SamplesInvariant, NEW l \in Launches, EnterSampling(ThreadOf[l], l)
  PROVE  SamplesInvariant'
<1>1. /\ Entered(ThreadOf[l], l) /\ past' = Begins(past, l) /\ phase = "running"
      /\ Hears /\ switches.pc /\ ~sampler.started /\ processing = Absent
      /\ UNCHANGED <<phase, request, switches, buffer, processing, vendorEvents, aborted>>
  BY DEF EnterSampling, Entered
<1>2. /\ Steady /\ past'.session = past.session /\ past'.handed = past.handed
  BY <1>1, EnteredSteady
<1>3. cupti \in CuptiType
  BY DEF Typed, TypedSampling
<1>4. PICK c, R : /\ sampler' = [started |-> TRUE, initialized |-> R]
                  /\ cupti' = [cupti EXCEPT !.enabled = @ \cup {c}, !.sampling = @ \cup {c},
                                            !.sampled = <<>>]
  BY DEF EnterSampling, Synchronized
<1>5. /\ sampler'.started /\ cupti'.sampling = cupti.sampling \cup {c}
      /\ cupti'.sampled = <<>> /\ cupti'.subscribed = cupti.subscribed
      /\ cupti'.callbacks = cupti.callbacks
  BY <1>3, <1>4 DEF CuptiType
<1>6. ASSUME Clean PROVE OneSampler' /\ Collected' /\ NoneLost'
  <2>1. cupti.sampling = {}
    BY <1>1, <1>6 DEF SamplesInvariant, OneSampler
  <2>2. OneSampler'
    BY <1>1, <1>5, <2>1 DEF OneSampler, Hears
  <2>3. Collected'
    BY <1>5 DEF Collected, Distinct, ToSet
  <2>4. NoneLost'
    BY <1>1, <1>2, <1>6 DEF SamplesInvariant, NoneLost, Buffered, Sampled
  <2> QED
    BY <2>2, <2>3, <2>4
<1> QED
  BY <1>1, <1>2, <1>6, SteadySamples

\* After an exception of the sampling nothing more is promised.
LEMMA RefusedSamples ==
  ASSUME Typed, NEW p \in PastType, NEW c, NEW swap, NEW left, NEW cost,
         Refused(p, c, swap, left, cost)
  PROVE  ~Clean' /\ sampler'.started = sampler.started
<1>1. past' = [p EXCEPT !.refusals = @ + cost + Cost(swap), !.pcRefused = TRUE,
                        !.session.blind = @ \/ swap = "disabled"]
  BY DEF Refused
<1>2. past'.pcRefused
  BY <1>1 DEF PastType
<1>3. sampler'.started = sampler.started
  BY DEF Refused, FallsBack, Typed, TypedSampling, SamplerType
<1> QED
  BY <1>2, <1>3 DEF Clean

\* and that is refused it;
LEMMA EnterRefusedKeepsSamples ==
  ASSUME Typed, SamplesInvariant, NEW l \in Launches, NEW swap \in Swaps, NEW left,
         EnterRefused(ThreadOf[l], l, swap, left)
  PROVE  SamplesInvariant'
<1>1. Entered(ThreadOf[l], l) /\ UNCHANGED <<buffer, processing>>
  BY DEF EnterRefused
<1>2. Begins(past, l) \in PastType
  BY <1>1, EnteredTyped
<1>3. ~Clean' /\ sampler'.started = sampler.started
  BY <1>2, RefusedSamples DEF EnterRefused
<1> QED
  BY <1>1, <1>3 DEF SamplesInvariant, Buffered

\* the exit that is refused its samples,
LEMMA ExitRefusedKeepsSamples ==
  ASSUME Typed, SamplesInvariant, NEW t \in Threads, NEW swap \in Swaps, ExitRefused(t, swap)
  PROVE  SamplesInvariant'
<1>1. call[t] # Absent /\ UNCHANGED <<buffer, processing>>
  BY DEF ExitRefused, AtExit
<1>2. Exited(past, t) \in PastType
  BY <1>1, ExitedTyped
<1>3. ~Clean' /\ sampler'.started = sampler.started
  BY <1>2, RefusedSamples DEF ExitRefused
<1> QED
  BY <1>1, <1>3 DEF SamplesInvariant, Buffered

\* and the round that is,
LEMMA RoundRefusedKeepsSamples ==
  ASSUME Typed, SamplesInvariant, NEW t \in Threads, NEW swap \in Swaps, RoundRefused(t, swap)
  PROVE  SamplesInvariant'
<1>1. processing # Absent /\ processing.thread = t /\ buffer' = Empty /\ processing' = Absent
  BY DEF RoundRefused
<1>2. Exited(past, t) \in PastType
  BY <1>1, ProcessingIn, ExitedTyped
<1>3. ~Clean'
  BY <1>2, RefusedSamples DEF RoundRefused
<1>4. Buffered' = {}
  BY <1>1 DEF Buffered, Empty, ToSet
<1> QED
  BY <1>1, <1>3, <1>4 DEF SamplesInvariant

\* The driver call of a launch takes nothing from the samples of others,
LEMMA DriverSteady ==
  ASSUME Typed, RangesInvariant, NEW t \in Threads, NEW l \in Launches, NEW n \in Underway,
         NEW p \in Nat \ {0}, DriverAs(t, l, p, n)
  PROVE  /\ Steady /\ (Clean' => Clean) /\ past'.handed = past.handed
         /\ Taken(l)' /\ \A k : Taken(k) => k # l
         /\ \A k : StillThere(k) => StillThere(k)'
         /\ \A k : k[1] = l => StillThere(k)'
<1>1. past \in PastType /\ call \in [Threads -> Underway \cup {Absent}]
  BY DEF Typed, TypedPast, TypedCalls
<1>2. PICK S, R : /\ S = past.late \cup (IF call[t].heard = past.subscribers THEN {} ELSE {l})
                  /\ past' = [past EXCEPT !.late = S, !.session = R]
  <2>1. PICK S : S = past.late \cup (IF call[t].heard = past.subscribers THEN {} ELSE {l})
    OBVIOUS
  <2>2. PICK K, b, a : past' = [past EXCEPT !.late = S, !.session.launched = @ \cup K,
                                            !.session.copied = b, !.session.alone = a]
    BY <2>1 DEF DriverAs
  <2>3. PICK R : R = [past.session EXCEPT !.launched = @ \cup K, !.copied = b, !.alone = a]
    OBVIOUS
  <2>4. past' = [past EXCEPT !.late = S, !.session = R]
    BY <1>1, <2>2, <2>3 DEF PastType
  <2> QED
    BY <2>1, <2>4
<1>3. /\ past'.handed = past.handed /\ past'.overlaps = past.overlaps
      /\ past'.late = S /\ past'.started = past.started
      /\ past'.pcRefused = past.pcRefused /\ past'.switchedOff = past.switchedOff
      /\ past'.subscribers = past.subscribers
  BY <1>1, <1>2 DEF PastType
<1>4. /\ \A v \in Threads : call'[v] = IF v = t THEN n ELSE call[v]
      /\ n.launch = l /\ n.at = "launched" /\ n # Absent /\ n.heard = call[t].heard
      /\ call[t].launch = l /\ call[t] # Absent /\ call[t].at = "entered"
  BY <1>1, AbsentAssumption DEF DriverAs
<1>5. l \in past.started /\ \A v \in Threads : call[v] # Absent /\ call[v].launch = l => v = t
  BY <1>4 DEF RangesInvariant, CallsOwn
<1>6. Taken(l)'
  BY <1>3, <1>4, <1>5 DEF Taken
<1>7. \A k : Taken(k) => k # l
  BY <1>4 DEF Taken
<1>8. UNCHANGED <<buffer, processing, vendorEvents, aborted>>
  BY DEF DriverAs
<1>9. KeepsCalls
  BY <1>4 DEF KeepsCalls
<1>10. processing # Absent => call'[processing.thread].launch = call[processing.thread].launch
  BY <1>4, ProcessingIn
<1>11. Clean' => Clean
  BY <1>3, <1>8 DEF Clean
<1>12. Steady
  BY <1>2, <1>3, <1>8, <1>9, <1>10, <1>11 DEF Steady, Sampled
<1>13. ASSUME NEW k, StillThere(k) PROVE StillThere(k)'
  <2>1. CASE k[1] \in past.late
    BY <1>2, <1>3, <2>1 DEF StillThere
  <2>2. CASE \E v \in Threads : /\ call[v] # Absent /\ call[v].launch = k[1]
                                /\ call[v].at = "launched" /\ call[v].heard = past.subscribers
    BY <1>3, <1>4, <2>2 DEF StillThere
  <2> QED
    BY <1>13, <2>1, <2>2 DEF StillThere
<1>14. ASSUME NEW k, k[1] = l PROVE StillThere(k)'
  <2>1. CASE call[t].heard = past.subscribers
    BY <1>3, <1>4, <1>14, <2>1 DEF StillThere
  <2>2. CASE call[t].heard # past.subscribers
    BY <1>2, <1>3, <1>14, <2>2 DEF StillThere
  <2> QED
    BY <2>1, <2>2
<1> QED
  BY <1>3, <1>6, <1>7, <1>11, <1>12, <1>13, <1>14

\* and has its own where its context is sampled.
LEMMA DriverKeepsSamples ==
  ASSUME Typed, RangesInvariant, SamplesInvariant, NEW t \in Threads, NEW l \in Launches,
         NEW n \in Underway, NEW p \in Nat \ {0}, DriverAs(t, l, p, n)
  PROVE  SamplesInvariant'
<1>1. /\ Steady /\ (Clean' => Clean) /\ past'.handed = past.handed
      /\ Taken(l)' /\ \A k : Taken(k) => k # l
      /\ \A k : StillThere(k) => StillThere(k)'
      /\ \A k : k[1] = l => StillThere(k)'
  BY DriverSteady
<1>2. /\ UNCHANGED <<phase, request, switches, sampler, buffer, processing, vendorEvents,
                     aborted>>
      /\ past'.session.launched = past.session.launched
             \cup (IF phase = "running" THEN ToSet(Kernels(l)) ELSE {})
  <2>1. UNCHANGED <<phase, request, switches, sampler, buffer, processing, vendorEvents, aborted>>
    BY DEF DriverAs
  <2> QED
    BY <2>1, DriverAdds
<1>3. PICK s \in Seq(Kernel), ks \in Seq(Kernel) : s = cupti.sampled /\ ks = Kernels(l)
  BY KernelsTyped DEF Typed, TypedSampling, CuptiType
<1>4. /\ cupti'.sampling = cupti.sampling /\ cupti'.subscribed = cupti.subscribed
      /\ cupti'.callbacks = cupti.callbacks
      /\ cupti'.sampled = IF ContextOf[l] \in cupti.sampling THEN Joined(s, ks) ELSE s
  BY <1>3 DEF DriverAs, Joined, Typed, TypedSampling, CuptiType
<1>5. \A k \in ToSet(ks) : k[1] = l
  BY <1>3, KernelsTyped
<1>6. ASSUME Clean PROVE OneSampler' /\ Collected' /\ NoneLost'
  <2>1. OneSampler /\ Collected /\ Handled /\ NoneLost
    BY <1>6 DEF SamplesInvariant
  <2>2. OneSampler'
    BY <1>2, <1>3, <1>4, <2>1 DEF OneSampler, Hears
  <2>3. Collected'
    <3>1. CASE ContextOf[l] \notin cupti.sampling
      BY <1>1, <1>3, <1>4, <2>1, <3>1, SteadyCollected
    <3>2. CASE ContextOf[l] \in cupti.sampling
      <4>1. \A k \in ToSet(s) : k[1] # l
        BY <1>1, <1>3, <2>1 DEF Collected
      <4>2. Distinct(cupti'.sampled)
        BY <1>3, <1>4, <2>1, <3>2, <4>1, DistinctLaunch DEF Collected
      <4>3. ToSet(cupti'.sampled) = ToSet(s) \cup ToSet(ks)
        BY <1>3, <1>4, <3>2, JoinedHas
      <4>4. ASSUME NEW k \in ToSet(s)
            PROVE  StillThere(k)' /\ k \notin past'.handed /\ Taken(k[1])'
        BY <1>1, <1>3, <2>1, TakenKept DEF Collected, Steady
      <4>5. ASSUME NEW k \in ToSet(ks)
            PROVE  StillThere(k)' /\ k \notin past'.handed /\ Taken(k[1])'
        BY <1>1, <1>5, <2>1 DEF Handled
      <4> QED
        BY <4>2, <4>3, <4>4, <4>5 DEF Collected
    <3> QED
      BY <3>1, <3>2
  <2>4. NoneLost'
    <3>1. ASSUME NEW k \in past'.handed \cap past'.session.launched PROVE k \in past.session.launched
      BY <1>1, <1>2, <1>3, <1>5, <2>1 DEF Handled
    <3> QED
      BY <1>1, <1>2, <2>1, <3>1 DEF NoneLost, Buffered, Sampled
  <2> QED
    BY <2>2, <2>3, <2>4
<1> QED
  BY <1>1, <1>2, <1>6, SteadySamples

\* What the history keeps of a launch that exits.
LEMMA ExitedHistory ==
  ASSUME Typed, NEW t \in Threads, call[t] # Absent, past' = Exited(past, t)
  PROVE  /\ past'.handed = past.handed /\ past'.overlaps = past.overlaps
         /\ past'.late = past.late /\ past'.started = past.started
         /\ past'.pcRefused = past.pcRefused /\ past'.switchedOff = past.switchedOff
         /\ past'.subscribers = past.subscribers
         /\ past'.session.launched = past.session.launched
<1>1. past \in PastType
  BY DEF Typed, TypedPast
<1>2. PICK S \in SessionType : past' = [past EXCEPT !.session = S]
  BY ExitedTyped
<1>3. KeepsHistory(past')
  BY HistoryKept
<1> QED
  BY <1>1, <1>2, <1>3 DEF PastType, KeepsHistory

\* The launch that exits with nothing to stop
LEMMA ExitPlainKeepsSamples ==
  ASSUME Typed, SamplesInvariant, NEW t \in Threads, ExitPlain(t)
  PROVE  SamplesInvariant'
<1>1. /\ call[t] # Absent /\ call[t].at = "launched" /\ ~Stops(t)
      /\ call' = [call EXCEPT ![t] = Absent] /\ past' = Exited(past, t) /\ Leaves(t)
      /\ UNCHANGED <<phase, request, switches, sampler, cupti, buffer, processing,
                     vendorEvents, aborted>>
  BY DEF ExitPlain, AtExit, Leaves
<1>2. /\ past'.handed = past.handed /\ past'.overlaps = past.overlaps
      /\ past'.late = past.late /\ past'.started = past.started
      /\ past'.pcRefused = past.pcRefused /\ past'.switchedOff = past.switchedOff
      /\ past'.subscribers = past.subscribers
      /\ past'.session.launched = past.session.launched
  BY <1>1, ExitedHistory
<1>3. call \in [Threads -> Underway \cup {Absent}]
  BY DEF Typed, TypedCalls
<1>4. \A v \in Threads : call'[v] = IF v = t THEN Absent ELSE call[v]
  BY <1>1, <1>3
<1>5. processing # Absent => call'[processing.thread].launch = call[processing.thread].launch
  BY <1>1, <1>4, CallIn, ProcessingIn
<1>6. KeepsCalls
  BY <1>1, ExitedQuiet
<1>7. Steady
  BY <1>1, <1>2, <1>5, <1>6 DEF Steady, Sampled, Clean
<1>8. ASSUME Clean PROVE OneSampler' /\ Collected' /\ NoneLost'
  <2>1. OneSampler /\ Collected /\ Handled /\ NoneLost
    BY <1>8 DEF SamplesInvariant
  <2>2. OneSampler'
    BY <1>1, <2>1 DEF OneSampler, Hears
  <2>3. ASSUME NEW k \in ToSet(cupti.sampled), StillThere(k) PROVE StillThere(k)'
    <3>1. cupti.sampling # {}
      BY <2>1, <2>3 DEF OneSampler, ToSet
    <3>2. call[t].heard # past.subscribers
      BY <1>1, <2>1, <3>1 DEF OneSampler, Stops, Heard
    <3>3. CASE k[1] \in past.late
      BY <1>2, <3>3 DEF StillThere
    <3>4. CASE \E v \in Threads : /\ call[v] # Absent /\ call[v].launch = k[1]
                                  /\ call[v].at = "launched" /\ call[v].heard = past.subscribers
      BY <1>2, <1>4, <3>2, <3>4 DEF StillThere
    <3> QED
      BY <2>3, <3>3, <3>4 DEF StillThere
  <2>4. Collected'
    BY <1>1, <1>7, <2>1, <2>3, SteadyCollected
  <2>5. NoneLost'
    BY <1>1, <1>2, <2>1 DEF NoneLost, Buffered, Sampled
  <2> QED
    BY <2>2, <2>4, <2>5
<1> QED
  BY <1>1, <1>7, <1>8, SteadySamples

\* hands nothing over, and the one that stops the sampling takes all there is.
LEMMA ExitSamplingKeepsSamples ==
  ASSUME Typed, Overlapping, SamplesInvariant, NEW t \in Threads, ExitSampling(t)
  PROVE  SamplesInvariant'
<1>1. PICK l \in Launches, c \in Contexts :
        l = call[t].launch /\ c = ContextOf[l] /\ call[t] # Absent /\ call[t] \in Underway
  BY CallIn DEF ExitSampling, AtExit
<1>0. PICK s \in Seq(Kernel) : s = cupti.sampled
  BY DEF Typed, TypedSampling, CuptiType
<1>2. PICK w : s = cupti.sampled /\ w = Within(s, BufferPCs)
  BY <1>0
<1>3. /\ sampler.started /\ c \in cupti.sampling
      /\ sampler' = [sampler EXCEPT !.started = FALSE]
      /\ cupti' = [cupti EXCEPT !.sampling = @ \ {c}, !.sampled = <<>>]
      /\ buffer' = [total |-> w, remaining |-> SubSeq(s, Len(w) + 1, Len(s))]
      /\ processing' = [thread |-> t, firstRound |-> TRUE]
      /\ call' = [call EXCEPT ![t].at = "processing"]
      /\ past' = [past EXCEPT !.handed = @ \cup ToSet(s)]
      /\ UNCHANGED <<phase, request, switches, vendorEvents, aborted>>
  BY <1>1, <1>2 DEF ExitSampling, Stops
<1>4. /\ past \in PastType /\ cupti \in CuptiType /\ sampler \in SamplerType
      /\ call \in [Threads -> Underway \cup {Absent}] /\ BufferPCs \in Nat
  BY NvidiaAssumption DEF Typed, TypedPast, TypedSampling, TypedCalls
<1>5. /\ past'.handed = past.handed \cup ToSet(s) /\ past'.overlaps = past.overlaps
      /\ past'.late = past.late /\ past'.started = past.started
      /\ past'.pcRefused = past.pcRefused /\ past'.switchedOff = past.switchedOff
      /\ past'.session = past.session
  BY <1>3, <1>4 DEF PastType
<1>6. /\ cupti'.sampling = cupti.sampling \ {c} /\ cupti'.sampled = <<>>
      /\ ~sampler'.started /\ processing' # Absent /\ processing'.thread = t
  <2>1. processing' \in [thread : Threads, firstRound : BOOLEAN]
    BY <1>3
  <2>2. processing' # Absent
    BY <2>1, AbsentAssumption, Zenon
  <2> QED
    BY <1>3, <1>4, <2>2 DEF CuptiType, SamplerType
<1>7. call'[t].launch = l
  BY <1>1, <1>3, <1>4 DEF Underway
<1>8. KeepsCalls
  BY <1>1, <1>3, ExitedQuiet
<1>9. PICK r : r = Rest(s, BufferPCs) /\ buffer' = [total |-> w, remaining |-> r]
  BY <1>2, <1>3 DEF Rest
<1>10. /\ ToSet(w) \cup ToSet(r) = ToSet(s)
       /\ Distinct(s) => ToSet(w) \cap ToSet(r) = {} /\ Distinct(r)
  BY <1>2, <1>4, <1>9, DistinctCut
<1>11. Buffered' = ToSet(s)
  BY <1>9, <1>10 DEF Buffered
<1>12. ASSUME Clean' PROVE OneSampler' /\ Collected' /\ Handled' /\ NoneLost'
  <2>1. OneSampler /\ Collected /\ Handled /\ NoneLost /\ Buffered = {}
    BY <1>3, <1>5, <1>12 DEF SamplesInvariant, Clean
  <2>2. OneSampler' /\ Collected'
    <3>1. cupti'.sampling = {}
      BY <1>3, <1>6, <2>1 DEF OneSampler
    <3> QED
      BY <1>6, <3>1 DEF OneSampler, Collected, Distinct, ToSet
  <2>3. \A k \in past'.handed : Taken(k[1])'
    BY <1>2, <1>5, <1>8, <2>1, TakenKept DEF Collected, Handled
  <2>4. ASSUME NEW k \in ToSet(s) PROVE Belongs(k, l)'
    <3>1. CASE k[1] \in past.late
      BY <1>5, <3>1 DEF Belongs
    <3>2. CASE \E v \in Threads : call[v] # Absent /\ call[v].launch = k[1]
      <4>1. PICK v \in Threads : call[v] # Absent /\ call[v].launch = k[1]
        BY <3>2
      <4>2. k[1] = l \/ {k[1], l} \in past.overlaps
        BY <1>1, <4>1 DEF Overlapping
      <4> QED
        BY <1>5, <4>2 DEF Belongs
    <3> QED
      BY <1>2, <2>1, <2>4, <3>1, <3>2 DEF Collected, StillThere
  <2>5. \A k \in Buffered' : Belongs(k, call[processing.thread].launch)'
    BY <1>6, <1>7, <1>11, <2>4
  <2>6. ToSet(buffer'.total) \cap ToSet(buffer'.remaining) = {} /\ Distinct(buffer'.remaining)
    BY <1>2, <1>9, <1>10, <2>1 DEF Collected
  <2>7. ASSUME NEW e \in Sampled'
        PROVE  /\ Belongs(e.kernel, e.scope)'
               /\ e.kernel \in past'.handed /\ e.kernel \notin Buffered'
               /\ vendorEvents'[e] = 1
    <3>1. e \in Sampled
      BY <1>3 DEF Sampled
    <3>2. Belongs(e.kernel, e.scope) /\ e.kernel \in past.handed /\ vendorEvents[e] = 1
      BY <2>1, <3>1 DEF Handled
    <3>3. Belongs(e.kernel, e.scope)'
      BY <1>5, <3>2 DEF Belongs
    <3>4. e.kernel \notin ToSet(s)
      BY <1>2, <2>1, <3>2 DEF Collected
    <3> QED
      BY <1>3, <1>5, <1>11, <3>2, <3>3, <3>4
  <2>8. \A e, f \in Sampled' : e.kernel = f.kernel => e = f
    BY <1>3, <2>1 DEF Handled, Sampled
  <2>9. Handled'
    BY <1>5, <1>11, <2>3, <2>5, <2>6, <2>7, <2>8 DEF Handled
  <2>10. NoneLost'
    <3>1. Sampled' = Sampled
      BY <1>3 DEF Sampled
    <3>2. ASSUME phase = "running", Asks(request),
                 NEW k \in past'.handed \cap past'.session.launched
          PROVE  k \in Buffered' \/ \E e \in Sampled' : e.kernel = k
      BY <1>5, <1>11, <2>1, <3>1, <3>2 DEF NoneLost
    <3> QED
      BY <1>3, <3>2 DEF NoneLost
  <2> QED
    BY <2>2, <2>9, <2>10
<1> QED
  BY <1>6, <1>12 DEF SamplesInvariant

\* The samples a round takes out of the buffer are new, and each is recorded once.
LEMMA RoundRecords ==
  ASSUME Typed, Handled, NEW l \in Launches, vendorEvents' = Captured(SampleEvents(l))
  PROVE  /\ Sampled' = Sampled \cup (IF switches.capture THEN SampleEvents(l) ELSE {})
         /\ \A e \in SampleEvents(l) :
              /\ e.scope = l /\ e.kernel \in ToSet(buffer.total)
              /\ e = Event("pcsampling", l, e.kernel)
         /\ \A k \in ToSet(buffer.total) : \E e \in SampleEvents(l) : e.kernel = k
         /\ \A e \in Sampled' : vendorEvents'[e] = 1
<1>1. /\ SampleEvents(l) \in SUBSET EventType
      /\ \A e \in SampleEvents(l) :
           e.kind = "pcsampling" /\ e.scope = l /\ e.kernel \in ToSet(buffer.total)
  BY SampleEventsTyped
<1>2. PICK S \in SUBSET EventType :
        /\ S = IF switches.capture THEN SampleEvents(l) ELSE {}
        /\ vendorEvents' = vendorEvents (+) SetToBag(S)
  BY <1>1 DEF Captured
<1>3. vendorEvents \in [DOMAIN vendorEvents -> Nat \ {0}]
  BY DEF Typed, TypedEvents
<1>4. DOMAIN vendorEvents' = DOMAIN vendorEvents \cup S
  <2>1. DOMAIN (vendorEvents (+) SetToBag(S)) = DOMAIN vendorEvents \cup S
    BY <1>3, MoreEvents
  <2> QED
    BY <1>2, <2>1
<1>5. \A e \in DOMAIN vendorEvents \ S : vendorEvents'[e] = vendorEvents[e]
  <2>1. \A e \in DOMAIN vendorEvents \ S : (vendorEvents (+) SetToBag(S))[e] = vendorEvents[e]
    BY <1>3, MoreEvents
  <2> QED
    BY <1>2, <2>1
<1>6. \A e \in S \ DOMAIN vendorEvents : vendorEvents'[e] = 1
  <2>1. \A e \in S \ DOMAIN vendorEvents : (vendorEvents (+) SetToBag(S))[e] = 1
    BY <1>3, MoreEvents
  <2> QED
    BY <1>2, <2>1
<1>7. Sampled' = Sampled \cup S
  BY <1>1, <1>2, <1>4 DEF Sampled
<1>8. ASSUME NEW e \in S PROVE e \notin DOMAIN vendorEvents
  <2>1. e.kind = "pcsampling" /\ e.kernel \in Buffered
    BY <1>1, <1>2 DEF Buffered
  <2> QED
    BY <2>1 DEF Handled, Sampled
<1>9. ASSUME NEW e \in Sampled' PROVE vendorEvents'[e] = 1
  <2>1. CASE e \in S
    BY <1>6, <1>8, <2>1
  <2>2. CASE e \notin S
    <3>1. e \in Sampled /\ e \in DOMAIN vendorEvents
      BY <1>7, <2>2 DEF Sampled
    <3> QED
      BY <1>5, <2>2, <3>1 DEF Handled
  <2> QED
    BY <2>1, <2>2
<1>10. \A e \in SampleEvents(l) : e = Event("pcsampling", l, e.kernel)
  BY DEF SampleEvents, Event
<1>11. ASSUME NEW k \in ToSet(buffer.total) PROVE \E e \in SampleEvents(l) : e.kernel = k
  <2>1. PICK e : e = Event("pcsampling", l, k)
    OBVIOUS
  <2>2. e \in SampleEvents(l) /\ e.kernel = k
    BY <2>1 DEF SampleEvents, Event
  <2> QED
    BY <2>2
<1> QED
  BY <1>1, <1>2, <1>7, <1>9, <1>10, <1>11

\* A round gives what is in the buffer to the launch, and fetches more;
LEMMA RoundKeepsSamples ==
  ASSUME Typed, SwitchesSet, SamplesInvariant, NEW t \in Threads, Round(t)
  PROVE  SamplesInvariant'
<1>1. PICK l \in Launches : l = call[t].launch
  BY ProcessingIn DEF Round
<1>2. /\ processing # Absent /\ processing.thread = t /\ ~aborted
      /\ vendorEvents' = Captured(SampleEvents(l))
      /\ UNCHANGED <<phase, request, switches, sampler, cupti, call, past>>
  BY <1>1 DEF Round, Going
<1>3. CASE ContextOf[l] \notin sampler.initialized
  <2>1. aborted' /\ UNCHANGED <<buffer, processing>>
    BY <1>1, <1>3 DEF Round
  <2> QED
    BY <1>2, <2>1 DEF SamplesInvariant, Clean, Buffered
<1>4. CASE ContextOf[l] \in sampler.initialized
  <2>1. PICK s \in Seq(Kernel) : s = buffer.remaining
    BY DEF Typed, TypedSampling, BufferType
  <2>2. PICK w, r : w = Within(s, BufferPCs) /\ r = Rest(s, BufferPCs)
    OBVIOUS
  <2>3. /\ buffer' = [total |-> w, remaining |-> r] /\ aborted' = aborted
        /\ processing' = [processing EXCEPT !.firstRound = FALSE]
    BY <1>1, <1>4, <2>1, <2>2 DEF Round, Rest
  <2>4. /\ ToSet(w) \cup ToSet(r) = ToSet(s)
        /\ Distinct(s) => ToSet(w) \cap ToSet(r) = {} /\ Distinct(r)
    BY <2>1, <2>2, DistinctCut, NvidiaAssumption
  <2>5. Buffered' = ToSet(s) /\ Buffered = ToSet(buffer.total) \cup ToSet(s)
    BY <2>1, <2>3, <2>4 DEF Buffered
  <2>6. processing' # Absent /\ processing'.thread = t
    <3>1. processing \in ProcessingType
      BY <1>2 DEF Typed, TypedCalls
    <3>2. processing' \in [thread : Threads, firstRound : BOOLEAN] /\ processing'.thread = t
      BY <1>2, <2>3, <3>1 DEF ProcessingType
    <3>3. processing' # Absent
      BY <3>2, AbsentAssumption, Zenon
    <3> QED
      BY <3>2, <3>3
  <2>7. ASSUME Clean' PROVE OneSampler' /\ Collected' /\ Handled' /\ NoneLost'
    <3>1. OneSampler /\ Collected /\ Handled /\ NoneLost
      BY <1>2, <2>3, <2>7 DEF SamplesInvariant, Clean
    <3>2. /\ Sampled' = Sampled \cup (IF switches.capture THEN SampleEvents(l) ELSE {})
          /\ \A e \in SampleEvents(l) :
               /\ e.scope = l /\ e.kernel \in ToSet(buffer.total)
               /\ e = Event("pcsampling", l, e.kernel)
          /\ \A k \in ToSet(buffer.total) : \E e \in SampleEvents(l) : e.kernel = k
          /\ \A e \in Sampled' : vendorEvents'[e] = 1
      BY <1>2, <3>1, RoundRecords
    <3>3. OneSampler' /\ Collected'
      BY <1>2, <3>1 DEF OneSampler, Hears, Collected, StillThere, Taken
    <3>4. \A k \in past'.handed : Taken(k[1])'
      BY <1>2, <3>1 DEF Handled, Taken
    <3>5. \A k \in Buffered : Belongs(k, l)
      BY <1>1, <1>2, <3>1 DEF Handled
    <3>6. \A k \in Buffered' : Belongs(k, call[processing.thread].launch)'
      BY <1>1, <1>2, <2>5, <2>6, <3>5 DEF Belongs
    <3>7. ToSet(buffer'.total) \cap ToSet(buffer'.remaining) = {} /\ Distinct(buffer'.remaining)
      BY <2>1, <2>3, <2>4, <3>1 DEF Handled
    <3>8. ASSUME NEW e \in Sampled'
          PROVE  /\ Belongs(e.kernel, e.scope)'
                 /\ e.kernel \in past'.handed /\ e.kernel \notin Buffered'
      <4>1. CASE e \in Sampled
        BY <1>2, <2>5, <3>1, <4>1 DEF Handled, Belongs
      <4>2. CASE e \in SampleEvents(l)
        <5>1. e.scope = l /\ e.kernel \in Buffered /\ e.kernel \notin ToSet(s)
          BY <2>1, <2>5, <3>1, <3>2, <4>2 DEF Handled
        <5>2. Belongs(e.kernel, e.scope)'
          BY <1>2, <3>5, <5>1 DEF Belongs
        <5> QED
          BY <1>2, <2>5, <3>1, <5>1, <5>2 DEF Handled
      <4> QED
        BY <3>2, <4>1, <4>2
    <3>9. ASSUME NEW e \in Sampled', NEW f \in Sampled', e.kernel = f.kernel PROVE e = f
      <4>1. \A g \in Sampled : g.kernel \notin Buffered
        BY <3>1 DEF Handled
      <4>2. \A g \in SampleEvents(l) : g.kernel \in Buffered
        BY <2>5, <3>2
      <4>3. CASE e \in Sampled /\ f \in Sampled
        BY <3>1, <3>9, <4>3 DEF Handled
      <4>4. CASE e \in SampleEvents(l) /\ f \in SampleEvents(l)
        BY <3>2, <3>9, <4>4
      <4> QED
        BY <3>2, <3>9, <4>1, <4>2, <4>3, <4>4
    <3>10. Handled'
      BY <1>2, <2>5, <3>1, <3>2, <3>4, <3>6, <3>7, <3>8, <3>9 DEF Handled
    <3>11. ASSUME phase = "running", Asks(request), NEW k \in past.handed \cap past.session.launched
           PROVE  k \in Buffered' \/ \E e \in Sampled' : e.kernel = k
      <4>1. switches.capture
        BY <3>11 DEF SwitchesSet, Asking
      <4>2. CASE k \in ToSet(buffer.total)
        BY <3>2, <4>1, <4>2
      <4>3. CASE k \notin ToSet(buffer.total)
        BY <2>5, <3>1, <3>2, <3>11, <4>3 DEF NoneLost
      <4> QED
        BY <4>2, <4>3
    <3>12. NoneLost'
      BY <1>2, <3>11 DEF NoneLost
    <3> QED
      BY <3>3, <3>10, <3>12
  <2>8. ~sampler'.started
    BY <1>2 DEF SamplesInvariant
  <2> QED
    BY <2>6, <2>7, <2>8 DEF SamplesInvariant
<1> QED
  BY <1>3, <1>4

\* the last one leaves nothing behind.
LEMMA RoundsDoneKeepsSamples ==
  ASSUME Typed, SamplesInvariant, NEW t \in Threads, RoundsDone(t)
  PROVE  SamplesInvariant'
<1>1. /\ processing # Absent /\ processing.thread = t /\ processing' = Absent
      /\ buffer.total = <<>> /\ buffer.remaining = <<>>
      /\ call' = [call EXCEPT ![t] = Absent] /\ past' = Exited(past, t) /\ Leaves(t)
      /\ UNCHANGED <<phase, request, switches, sampler, cupti, buffer, vendorEvents, aborted>>
  BY DEF RoundsDone, Leaves, MoreToHandle
<1>2. call[t] # Absent /\ call[t].at = "processing"
  BY <1>1, ProcessingIn
<1>3. /\ past'.handed = past.handed /\ past'.overlaps = past.overlaps
      /\ past'.late = past.late /\ past'.started = past.started
      /\ past'.pcRefused = past.pcRefused /\ past'.switchedOff = past.switchedOff
      /\ past'.subscribers = past.subscribers
      /\ past'.session.launched = past.session.launched
  BY <1>1, <1>2, ExitedHistory
<1>4. KeepsCalls
  BY <1>1, <1>2, ExitedQuiet
<1>5. call \in [Threads -> Underway \cup {Absent}]
  BY DEF Typed, TypedCalls
<1>6. \A v \in Threads : call'[v] = IF v = t THEN Absent ELSE call[v]
  BY <1>1, <1>5
<1>7. Buffered' = {} /\ Buffered = {} /\ Sampled' = Sampled
  BY <1>1 DEF Buffered, Sampled, ToSet
<1>8. ASSUME Clean' PROVE OneSampler' /\ Collected' /\ Handled' /\ NoneLost'
  <2>1. OneSampler /\ Collected /\ Handled /\ NoneLost
    BY <1>1, <1>3, <1>8 DEF SamplesInvariant, Clean
  <2>2. OneSampler'
    BY <1>1, <2>1 DEF OneSampler, Hears
  <2>3. \A l : Taken(l) => Taken(l)'
    BY <1>3, <1>4, TakenKept
  <2>4. ASSUME NEW k, StillThere(k) PROVE StillThere(k)'
    <3>1. CASE k[1] \in past.late
      BY <1>3, <3>1 DEF StillThere
    <3>2. CASE \E v \in Threads : /\ call[v] # Absent /\ call[v].launch = k[1]
                                  /\ call[v].at = "launched" /\ call[v].heard = past.subscribers
      BY <1>2, <1>3, <1>6, <3>2 DEF StillThere
    <3> QED
      BY <2>4, <3>1, <3>2 DEF StillThere
  <2>5. Collected'
    BY <1>1, <1>3, <2>1, <2>3, <2>4 DEF Collected
  <2>6. \A k, l : Belongs(k, l) => Belongs(k, l)'
    BY <1>3 DEF Belongs
  <2>7. Handled'
    BY <1>1, <1>3, <1>7, <2>1, <2>3, <2>6 DEF Handled
  <2>8. NoneLost'
    BY <1>1, <1>3, <1>7, <2>1 DEF NoneLost
  <2> QED
    BY <2>2, <2>5, <2>7, <2>8
<1> QED
  BY <1>1, <1>7, <1>8 DEF SamplesInvariant

\* Events of other kinds are no samples.
LEMMA OthersAdded ==
  ASSUME Typed, NEW S, vendorEvents' = vendorEvents (+) SetToBag(S),
         \A e \in S : e.kind # "pcsampling"
  PROVE  Sampled' \subseteq Sampled /\ \A e \in Sampled' : vendorEvents'[e] = vendorEvents[e]
<1>1. vendorEvents \in [DOMAIN vendorEvents -> Nat \ {0}]
  BY DEF Typed, TypedEvents
<1>2. DOMAIN vendorEvents' = DOMAIN vendorEvents \cup S
  <2>1. DOMAIN (vendorEvents (+) SetToBag(S)) = DOMAIN vendorEvents \cup S
    BY <1>1, MoreEvents
  <2> QED
    BY <2>1
<1>3. \A e \in DOMAIN vendorEvents \ S : vendorEvents'[e] = vendorEvents[e]
  <2>1. \A e \in DOMAIN vendorEvents \ S : (vendorEvents (+) SetToBag(S))[e] = vendorEvents[e]
    BY <1>1, MoreEvents
  <2> QED
    BY <2>1
<1> QED
  BY <1>2, <1>3 DEF Sampled

\* The flush and what comes of it leave the sampling alone.
LEMMA EndKeepsSamples ==
  ASSUME SamplesInvariant, Steady, UNCHANGED <<switches, sampler, cupti, call>>,
         past'.late = past.late, past'.subscribers = past.subscribers,
         phase' \in {"flushing", "flushed"}
  PROVE  SamplesInvariant'
<1>1. ASSUME Clean PROVE OneSampler' /\ Collected' /\ NoneLost'
  <2>1. OneSampler /\ Collected
    BY <1>1 DEF SamplesInvariant
  <2>2. OneSampler' /\ NoneLost'
    BY <2>1 DEF OneSampler, Hears, NoneLost
  <2>3. \A k : StillThere(k) => StillThere(k)'
    BY DEF StillThere
  <2>4. Collected'
    BY <2>1, <2>3, SteadyCollected
  <2> QED
    BY <2>2, <2>4
<1> QED
  BY <1>1, SteadySamples

\* The flush,
LEMMA FlushKeepsSamples ==
  ASSUME Typed, SamplesInvariant, Flush
  PROVE  SamplesInvariant'
<1>1. PICK c \in Callers, ended \in SUBSET {k.kernel[1] : k \in running} : DoFlush(c, ended)
  BY DEF Flush
<1>2. past \in PastType
  BY DEF Typed, TypedPast
<1>3. PICK D : past' = [past EXCEPT !.session.due = D]
  BY <1>1 DEF DoFlush
<1>4. /\ past'.handed = past.handed /\ past'.overlaps = past.overlaps
      /\ past'.late = past.late /\ past'.started = past.started
      /\ past'.pcRefused = past.pcRefused /\ past'.switchedOff = past.switchedOff
      /\ past'.subscribers = past.subscribers
  BY <1>2, <1>3 DEF PastType
<1>5. /\ phase' = "flushing"
      /\ UNCHANGED <<switches, sampler, cupti, buffer, processing, vendorEvents, call, aborted>>
  BY <1>1 DEF DoFlush
<1>6. Steady
  BY <1>4, <1>5 DEF Steady, KeepsCalls, Sampled, Clean
<1> QED
  BY <1>4, <1>5, <1>6, EndKeepsSamples

\* the records that are handed over,
LEMMA FlushedKeepsSamples ==
  ASSUME Typed, SamplesInvariant, Flushed
  PROVE  SamplesInvariant'
<1>1. past \in PastType
  BY DEF Typed, TypedPast
<1>2. PICK B : past' = [past EXCEPT !.session.based = @ \cup B]
  BY DEF Flushed, Deliver
<1>3. /\ past'.handed = past.handed /\ past'.overlaps = past.overlaps
      /\ past'.late = past.late /\ past'.started = past.started
      /\ past'.pcRefused = past.pcRefused /\ past'.switchedOff = past.switchedOff
      /\ past'.subscribers = past.subscribers
  BY <1>1, <1>2 DEF PastType
<1>4. /\ phase' = "flushed"
      /\ UNCHANGED <<switches, sampler, cupti, buffer, processing, call, aborted>>
  BY DEF Flushed
<1> DEFINE kind(r) == IF r[2] # 0 THEN "kernel" ELSE "memory"
           E == {Event(kind(r), r[1], r) : r \in ToSet(records)}
<1>5. \A e \in E : e.kind # "pcsampling"
  BY DEF Event
<1>6. vendorEvents' = Captured(E)
  BY DEF Flushed, Deliver
<1> HIDE DEF E
<1>7. PICK S : /\ vendorEvents' = vendorEvents (+) SetToBag(S)
               /\ S = IF switches.capture THEN E ELSE {}
  BY <1>6 DEF Captured
<1>8. Sampled' \subseteq Sampled /\ \A e \in Sampled' : vendorEvents'[e] = vendorEvents[e]
  BY <1>5, <1>7, OthersAdded
<1>9. Steady
  BY <1>3, <1>4, <1>8 DEF Steady, KeepsCalls, Clean
<1> QED
  BY <1>3, <1>4, <1>9, EndKeepsSamples

\* and a flush that is refused keep the samples.
LEMMA FlushRefusedKeepsSamples ==
  ASSUME Typed, SamplesInvariant, FlushRefused
  PROVE  SamplesInvariant'
<1>1. past \in PastType
  BY DEF Typed, TypedPast
<1>2. past' = [past EXCEPT !.refusals = @ + 1, !.session.blind = TRUE]
  BY DEF FlushRefused
<1>3. /\ past'.handed = past.handed /\ past'.overlaps = past.overlaps
      /\ past'.late = past.late /\ past'.started = past.started
      /\ past'.pcRefused = past.pcRefused /\ past'.switchedOff = past.switchedOff
      /\ past'.subscribers = past.subscribers
  BY <1>1, <1>2 DEF PastType
<1>4. /\ phase' = "flushed"
      /\ UNCHANGED <<switches, sampler, cupti, buffer, processing, vendorEvents, call, aborted>>
  BY DEF FlushRefused
<1>5. Steady
  BY <1>3, <1>4 DEF Steady, KeepsCalls, Sampled, Clean
<1> QED
  BY <1>3, <1>4, <1>5, EndKeepsSamples

\* The last of the calls that take the collector down finalizes CUPTI.
LEMMA TearDownFinalizes ==
  ASSUME NEW c
  PROVE  \E T : TearDown(c) \in Seq(T) /\ "finalize" \in ToSet(TearDown(c))
<1>1. PICK T : T = {"sampling", "resource", "KERNEL", "CONCURRENT_KERNEL", "MEMCPY", "MEMSET",
                    "graph", "runtime", "driver", "unsubscribe", "finalize"}
  OBVIOUS
<1>2. PICK a \in Seq(T) : a = IF c \in sampler.initialized THEN <<"sampling">> ELSE <<>>
  <2>1. <<"sampling">> \in Seq(T)
    BY <1>1
  <2>2. <<>> \in Seq(T)
    BY EmptySeq
  <2> QED
    BY <2>1, <2>2
<1>3. PICK b \in Seq(T) : b = IF switches.pc THEN a \o <<"resource", "KERNEL">>
                                             ELSE <<"CONCURRENT_KERNEL">>
  <2>0. <<"resource", "KERNEL">> \in Seq(T)
    BY <1>1
  <2>1. PICK u \in Seq(T) : u = <<"resource", "KERNEL">>
    BY <2>0
  <2>2. a \o u \in Seq(T)
    OBVIOUS
  <2>3. <<"CONCURRENT_KERNEL">> \in Seq(T)
    BY <1>1
  <2> QED
    BY <2>1, <2>2, <2>3
<1>4. PICK d \in Seq(T) : d = IF switches.memoryOn THEN <<"MEMCPY", "MEMSET">> ELSE <<>>
  <2>1. <<"MEMCPY", "MEMSET">> \in Seq(T)
    BY <1>1
  <2>2. <<>> \in Seq(T)
    BY EmptySeq
  <2> QED
    BY <2>1, <2>2
<1>5. PICK e \in Seq(T) :
        e = <<"graph", "runtime", "driver", "unsubscribe", "finalize">> /\ "finalize" \in ToSet(e)
  <2>0. <<"graph", "runtime", "driver", "unsubscribe", "finalize">> \in Seq(T)
    BY <1>1
  <2>1. PICK e \in Seq(T) : e = <<"graph", "runtime", "driver", "unsubscribe", "finalize">>
    BY <2>0
  <2>2. DOMAIN e = 1..5 /\ e[5] = "finalize" /\ 5 \in 1..5
    BY <2>1
  <2>3. "finalize" \in ToSet(e)
    BY <2>2 DEF ToSet
  <2> QED
    BY <2>1, <2>3
<1>6. PICK f \in Seq(T) : f = b \o d
  <2>1. b \o d \in Seq(T)
    OBVIOUS
  <2> QED
    BY <2>1
<1>7. TearDown(c) = Joined(f, e)
  BY <1>2, <1>3, <1>4, <1>5, <1>6 DEF TearDown, Joined
<1>8. f \o e \in Seq(T)
  OBVIOUS
<1>9. "finalize" \in ToSet(Joined(f, e))
  <2>1. ToSet(Joined(f, e)) = ToSet(f) \cup ToSet(e)
    BY JoinedHas
  <2> QED
    BY <1>5, <2>1
<1> QED
  BY <1>7, <1>8, <1>9 DEF Joined

\* A stop of which nothing is refused
LEMMA StopFinalizes ==
  ASSUME NEW n, NEW kept, NEW refused, DoStop(n, kept, refused), refused = 0
  PROVE  cupti' = Fresh
<1>1. PICK calls : calls = TearDown(caller)
  OBVIOUS
<1>2. PICK T : calls \in Seq(T) /\ "finalize" \in ToSet(calls)
  BY <1>1, TearDownFinalizes
<1>3. PICK tolerated : tolerated = (switches.optional /\ switches.unavailable)
  OBVIOUS
<1>4. PICK done : done = {calls[i] : i \in
        {i \in DOMAIN calls : i # refused /\ (refused = 0 \/ tolerated \/ i < refused)}}
  OBVIOUS
<1>5. cupti' = TornDown(caller, done)
  BY <1>1, <1>3, <1>4 DEF DoStop
<1>6. PICK i \in DOMAIN calls : calls[i] = "finalize"
  BY <1>2 DEF ToSet
<1>7. i # refused
  BY <1>2, <1>6
<1>8. "finalize" \in done
  BY <1>4, <1>6, <1>7
<1> QED
  BY <1>5, <1>8 DEF TornDown

\* leaves no sampling on,
LEMMA StopKeepsSamples ==
  ASSUME Typed, SamplesInvariant, Stop
  PROVE  SamplesInvariant'
<1>1. PICK n \in 0..MaxRanges, kept \in Kept(CuptiObjects),
           refused \in {0} \cup {i \in DOMAIN TearDown(caller) : TearDown(caller)[i] \in Refusable} :
        DoStop(n, kept, refused)
  BY DEF Stop
<1>2. past \in PastType /\ sampler \in SamplerType /\ past.pcRefused \in BOOLEAN
  BY DEF Typed, TypedPast, TypedSampling, PastType
<1>3. PICK b \in BOOLEAN : b = (past.pcRefused \/ refused # 0)
  BY <1>2
<1>4. PICK d : past' = [past EXCEPT !.kept = @ \cup kept, !.pcRefused = b, !.refusals = d]
  BY <1>1, <1>3 DEF DoStop
<1>5. /\ past'.handed = past.handed /\ past'.overlaps = past.overlaps
      /\ past'.late = past.late /\ past'.started = past.started
      /\ past'.pcRefused = b /\ past'.switchedOff = past.switchedOff
      /\ past'.subscribers = past.subscribers
  BY <1>2, <1>4 DEF PastType
<1>6. /\ phase' \in {"idle", "stopped"} /\ CountersStop(n, kept)
      /\ UNCHANGED <<buffer, processing, call, aborted>>
      /\ sampler' = IF switches.pc THEN [sampler EXCEPT !.initialized = @ \ {caller}] ELSE sampler
      /\ vendorEvents' = vendorEvents (+) SetToBag(IF counters.active THEN RangeEvents(n) ELSE {})
  BY <1>1 DEF DoStop
<1>7. sampler'.started = sampler.started
  BY <1>2, <1>6 DEF SamplerType
<1>8. PICK S : /\ S = IF counters.active THEN RangeEvents(n) ELSE {}
               /\ vendorEvents' = vendorEvents (+) SetToBag(S)
  BY <1>6
<1>9. counters.active => \A e \in RangeEvents(n) : e.kind = "hardware_counter"
  BY <1>6, RangeEventsTyped DEF Typed, CountersStop
<1>10. Sampled' \subseteq Sampled /\ \A e \in Sampled' : vendorEvents'[e] = vendorEvents[e]
  BY <1>8, <1>9, OthersAdded
<1>11. Steady
  BY <1>3, <1>5, <1>6, <1>10 DEF Steady, KeepsCalls, Clean
<1>12. ASSUME Clean' PROVE OneSampler' /\ Collected' /\ NoneLost'
  <2>1. cupti' = Fresh
    BY <1>1, <1>3, <1>5, <1>12, StopFinalizes DEF Clean
  <2>2. cupti'.sampling = {} /\ cupti'.sampled = <<>>
    BY <2>1 DEF Fresh
  <2> QED
    BY <1>6, <2>2 DEF OneSampler, Collected, Distinct, ToSet, NoneLost
<1> QED
  BY <1>7, <1>11, <1>12, SteadySamples

\* and the import takes the samples.
LEMMA ImportKeepsSamples ==
  ASSUME SamplesInvariant, Import
  PROVE  SamplesInvariant'
<1>1. /\ phase = "stopped" /\ phase' = "idle" /\ vendorEvents' = EmptyBag
      /\ UNCHANGED <<sampler, cupti, buffer, processing, call, aborted, past>>
  BY DEF Import
<1>2. Sampled' = {}
  BY <1>1 DEF Sampled, EmptyBag, SetToBag
<1>3. Steady
  BY <1>1, <1>2 DEF Steady, KeepsCalls, Clean
<1>4. ASSUME Clean PROVE OneSampler' /\ Collected' /\ NoneLost'
  <2>1. cupti'.sampling = {} /\ cupti'.sampled = <<>>
    BY <1>1, <1>4 DEF SamplesInvariant, OneSampler
  <2> QED
    BY <1>1, <2>1 DEF OneSampler, Collected, Distinct, ToSet, NoneLost
<1> QED
  BY <1>1, <1>3, <1>4, SteadySamples

\* So no step, from a state where the other invariants hold, gives samples to the
\* wrong launch or loses them,
LEMMA SamplesKept ==
  ASSUME Typed, RangesInvariant, LossInvariant, SamplesInvariant, Next
  PROVE  SamplesInvariant'
<1>0. SwitchesSet /\ Overlapping
  BY DEF LossInvariant, Accounted
<1>1. CASE \E r \in RequestType : MakeSession(r) \/ RejectedStart(r)
  BY <1>1, MakeSessionKeepsSamples, RejectedStartKeepsSamples
<1>2. CASE Start
  BY <1>0, <1>2, StartKeepsSamples
<1>3. CASE \E l \in Launches :
              \/ EnterPlain(ThreadOf[l], l) \/ EnterSampling(ThreadOf[l], l)
              \/ \E swap \in Swaps, left \in {{}, {ContextOf[l]}} :
                   EnterRefused(ThreadOf[l], l, swap, left)
  BY <1>3, EnterPlainKeepsSamples, EnterSamplingKeepsSamples, EnterRefusedKeepsSamples
<1>4. CASE \E t \in Threads, l \in Launches, n \in Underway, p \in Nat \ {0} : DriverAs(t, l, p, n)
  BY <1>4, DriverKeepsSamples
<1>5. CASE \E t \in Threads :
             ExitPlain(t) \/ ExitSampling(t) \/ \E swap \in Swaps : ExitRefused(t, swap)
  BY <1>0, <1>5, ExitPlainKeepsSamples, ExitSamplingKeepsSamples, ExitRefusedKeepsSamples
<1>6. CASE \E t \in Threads :
             Round(t) \/ RoundsDone(t) \/ \E swap \in Swaps : RoundRefused(t, swap)
  BY <1>0, <1>6, RoundKeepsSamples, RoundsDoneKeepsSamples, RoundRefusedKeepsSamples
<1>7. CASE Flush \/ Flushed \/ FlushRefused
  BY <1>7, FlushKeepsSamples, FlushedKeepsSamples, FlushRefusedKeepsSamples
<1>8. CASE Stop \/ Import
  BY <1>8, StopKeepsSamples, ImportKeepsSamples
<1> QED
  BY <1>1, <1>2, <1>3, <1>4, <1>5, <1>6, <1>7, <1>8, ReportCases

\* nor does one that changes nothing.
LEMMA SamplesStutter ==
  ASSUME SamplesInvariant, UNCHANGED vars
  PROVE  SamplesInvariant'
<1>1. UNCHANGED <<phase, request, switches, sampler, cupti, buffer, processing, vendorEvents,
                  call, aborted, past>>
  BY DEF vars
<1>2. Steady
  BY <1>1 DEF Steady, KeepsCalls, Sampled, Clean
<1>3. ASSUME Clean PROVE OneSampler' /\ Collected' /\ NoneLost'
  <2>1. OneSampler' /\ Collected'
    BY <1>1, <1>3 DEF SamplesInvariant, OneSampler, Hears, Collected, StillThere, Taken
  <2>2. NoneLost'
    BY <1>1, <1>3 DEF SamplesInvariant, NoneLost, Buffered, Sampled
  <2> QED
    BY <2>1, <2>2
<1> QED
  BY <1>1, <1>2, <1>3, SteadySamples

\* Samples belong to a launch that was under way with theirs, and each is recorded once,
\* for any launches, threads, contexts and sessions and any size of the buffer.
THEOREM SamplesAlwaysOfTheLaunch == Spec => []SamplesOfTheLaunch
<1> DEFINE All == Typed /\ RangesInvariant /\ LossInvariant /\ SamplesInvariant
<1>1. Init => All
  BY InitTyped, InitRanges, InitLoss, InitSamples
<1>2. All /\ [Next]_vars => All'
  BY StepTyped, StutterTyped, RangesKept, LossKept, LossStutter, SamplesKept, SamplesStutter
<1>3. All => SamplesOfTheLaunch
  BY SamplesTold
<1> QED
  BY <1>1, <1>2, <1>3, PTL DEF Spec
================================================================================
