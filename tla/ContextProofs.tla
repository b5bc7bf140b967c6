---------------------------- MODULE ContextProofs ----------------------------
(* Proofs about scopes, states and metrics.                                     *)
EXTENDS ContextDispatch, TLAPS, WellFoundedInduction

Blocks == [form : ScopeForms \cup {"state"}, scope : Scopes \cup {Absent},
           name : Names \cup States, due : BOOLEAN, shared : BOOLEAN]

----------------------------------------------------------------------------
(* Sequences, and the names of scopes.                                      *)

\* A set of naturals that is not empty has a smallest element.
LEMMA SmallestIn ==
  ASSUME NEW S \in SUBSET Nat, S # {}
  PROVE  \E x \in S : \A y \in S : x <= y
<1> DEFINE Less == {p \in Nat \X Nat : p[1] < p[2]}
<1>1. IsWellFoundedOn(Less, Nat)
  BY NatLessThanWellFounded, Zenon DEF OpToRel
<1>2. PICK x \in S : \A y \in S : <<y, x>> \notin Less
  <2> HIDE DEF Less
  <2> QED
    BY <1>1, WFMin
<1>3. ASSUME NEW y \in S
      PROVE  x <= y
  <2>1. <<y, x>> \notin {p \in Nat \X Nat : p[1] < p[2]} /\ x \in Nat /\ y \in Nat
    BY <1>2
  <2>2. ~(y < x)
    BY <2>1
  <2> QED
    BY <2>1, <2>2
<1> QED
  BY <1>3

\* A sequence that is not empty is its front and its last element.
LEMMA FrontLast ==
  ASSUME NEW T, NEW s \in Seq(T), s # <<>>
  PROVE  /\ Len(s) \in Nat \ {0} /\ Len(Front(s)) = Len(s) - 1
         /\ Front(s) \in Seq(T) /\ Last(s) \in T
         /\ \A k \in 1 .. Len(s) - 1 : Front(s)[k] = s[k]
         /\ s = Append(Front(s), Last(s))
<1>1. Len(s) \in Nat /\ Len(s) # 0 /\ Len(s) - 1 \in Nat
  OBVIOUS
<1>2. /\ Front(s) \in Seq(T) /\ Len(Front(s)) = Len(s) - 1
      /\ \A k \in 1 .. Len(s) - 1 : Front(s)[k] = s[k]
  BY <1>1 DEF Front
<1>3. Last(s) \in T
  BY <1>1 DEF Last
<1>4. s = Append(Front(s), Last(s))
  BY <1>1 DEF Front, Last
<1> QED
  BY <1>1, <1>2, <1>3, <1>4

\* The front and the last element of a sequence that was appended to.
LEMMA FrontOfAppend ==
  ASSUME NEW T, NEW s \in Seq(T), NEW e \in T
  PROVE  /\ Append(s, e) \in Seq(T) /\ Append(s, e) # <<>>
         /\ Len(Append(s, e)) = Len(s) + 1
         /\ Front(Append(s, e)) = s /\ Last(Append(s, e)) = e
         /\ \A k \in 1 .. Len(s) : Append(s, e)[k] = s[k]
  BY DEF Front, Last

\* Appending to the second part of a sequence.
LEMMA AppendToConcat ==
  ASSUME NEW s \in Seq(Names), NEW u \in Seq(Names), NEW e \in Names
  PROVE  Append(s \o u, e) = s \o Append(u, e)
  OBVIOUS

\* What a further block makes of the names.
NameStep(bs, f, k) ==
  IF k = 0 THEN <<>>
  ELSE IF bs[k].form = "state" THEN f[k - 1]
  ELSE Append(f[k - 1], bs[k].name)

IsNames(bs, n, f) == f = [k \in 0 .. n |-> NameStep(bs, f, k)]

\* The first n blocks have the same forms and names.
Alike(bs, cs, n) ==
  \A k \in 1 .. n : bs[k].form = cs[k].form /\ bs[k].name = cs[k].name

\* The recursion in ScopeNames has a solution.
LEMMA NamesExist ==
  ASSUME NEW bs, NEW n \in Nat
  PROVE  \E f : IsNames(bs, n, f)
<1> DEFINE wrong == {m \in Nat : \A f : ~IsNames(bs, m, f)}
<1>1. ASSUME wrong # {} PROVE FALSE
  <2>1. PICK m \in wrong : \A j \in wrong : m <= j
    <3> HIDE DEF wrong
    <3>1. wrong \in SUBSET Nat
      BY DEF wrong
    <3> QED
      BY <1>1, <3>1, SmallestIn
  <2>2. CASE m = 0
    <3> DEFINE f == [k \in 0 .. 0 |-> <<>>]
    <3>1. f = [k \in 0 .. 0 |-> NameStep(bs, f, k)]
      BY DEF NameStep
    <3> HIDE DEF f
    <3>2. IsNames(bs, m, f)
      BY <3>1, <2>2 DEF IsNames
    <3> QED
      BY <3>2, <2>1
  <2>3. CASE m # 0
    <3>1. m - 1 \in Nat /\ m \in Nat /\ m - 1 \notin wrong
      BY <2>1, <2>3
    <3>2. PICK f : IsNames(bs, m - 1, f)
      BY <3>1
    <3> DEFINE g == [k \in 0 .. m |-> IF k = m THEN NameStep(bs, f, m) ELSE f[k]]
    <3>3. \A k \in 0 .. m : NameStep(bs, g, k) = NameStep(bs, f, k)
      BY <3>1 DEF NameStep
    <3>4. \A k \in 0 .. m - 1 : f[k] = NameStep(bs, f, k)
      BY <3>1, <3>2 DEF IsNames
    <3>5. \A k \in 0 .. m : g[k] = NameStep(bs, g, k)
      BY <3>1, <3>3, <3>4
    <3>6. g = [k \in 0 .. m |-> g[k]]
      OBVIOUS
    <3> HIDE DEF g
    <3>7. IsNames(bs, m, g)
      BY <3>5, <3>6 DEF IsNames
    <3> QED
      BY <3>7, <2>1
  <2> QED
    BY <2>2, <2>3
<1> QED
  BY <1>1

\* ScopeNames is the last value of that solution.
LEMMA ScopeNamesIs ==
  ASSUME NEW bs, Len(bs) \in Nat
  PROVE  \E f : IsNames(bs, Len(bs), f) /\ ScopeNames(bs) = f[Len(bs)]
<1> DEFINE names[k \in 0 .. Len(bs)] ==
             IF k = 0 THEN <<>>
             ELSE IF bs[k].form = "state" THEN names[k - 1]
             ELSE Append(names[k - 1], bs[k].name)
<1>1. PICK f : IsNames(bs, Len(bs), f)
  BY NamesExist
<1>2. f = [k \in 0 .. Len(bs) |->
             IF k = 0 THEN <<>>
             ELSE IF bs[k].form = "state" THEN f[k - 1]
             ELSE Append(f[k - 1], bs[k].name)]
  BY <1>1 DEF IsNames, NameStep
<1>3. names = [k \in 0 .. Len(bs) |->
             IF k = 0 THEN <<>>
             ELSE IF bs[k].form = "state" THEN names[k - 1]
             ELSE Append(names[k - 1], bs[k].name)]
  BY <1>2
<1>4. ScopeNames(bs) = names[Len(bs)]
  BY DEF ScopeNames
<1> HIDE DEF names
<1>5. IsNames(bs, Len(bs), names)
  BY <1>3 DEF IsNames, NameStep
<1> QED
  BY <1>4, <1>5

\* Solutions for blocks that agree in forms and names agree.
LEMMA NamesAgree ==
  ASSUME NEW bs, NEW cs, NEW m \in Nat, NEW n \in Nat, NEW f, NEW g,
         IsNames(bs, m, f), IsNames(cs, n, g), NEW l \in Nat, l <= m, l <= n,
         Alike(bs, cs, l)
  PROVE  f[l] = g[l]
<1> DEFINE wrong == {k \in 0 .. l : f[k] # g[k]}
<1>1. ASSUME wrong # {} PROVE FALSE
  <2>1. PICK k \in wrong : \A j \in wrong : k <= j
    <3> HIDE DEF wrong
    <3>1. wrong \in SUBSET Nat
      BY DEF wrong
    <3> QED
      BY <1>1, <3>1, SmallestIn
  <2>2. f[k] = NameStep(bs, f, k) /\ g[k] = NameStep(cs, g, k)
    <3>1. k \in 0 .. m /\ k \in 0 .. n
      BY <2>1
    <3>2. \A j \in 0 .. m : f[j] = NameStep(bs, f, j)
      BY DEF IsNames
    <3>3. \A j \in 0 .. n : g[j] = NameStep(cs, g, j)
      BY DEF IsNames
    <3> QED
      BY <3>1, <3>2, <3>3
  <2>3. k # 0 => f[k - 1] = g[k - 1]
    BY <2>1
  <2>4. k # 0 => bs[k].form = cs[k].form /\ bs[k].name = cs[k].name
    BY <2>1 DEF Alike
  <2>5. NameStep(bs, f, k) = NameStep(cs, g, k)
    BY <2>3, <2>4 DEF NameStep
  <2> QED
    BY <2>1, <2>2, <2>5
<1> QED
  BY <1>1

\* The names are those of the forms and names of the blocks.
LEMMA ScopeNamesSame ==
  ASSUME NEW bs \in Seq(Blocks), NEW cs \in Seq(Blocks), Len(bs) = Len(cs),
         Alike(bs, cs, Len(bs))
  PROVE  ScopeNames(bs) = ScopeNames(cs)
<1>0. PICK n \in Nat : n = Len(bs) /\ n = Len(cs)
  OBVIOUS
<1>1. PICK f : IsNames(bs, n, f) /\ ScopeNames(bs) = f[n]
  BY <1>0, ScopeNamesIs
<1>2. PICK g : IsNames(cs, n, g) /\ ScopeNames(cs) = g[n]
  BY <1>0, ScopeNamesIs
<1>3. Alike(bs, cs, n)
  BY <1>0
<1>4. n <= n
  OBVIOUS
<1>5. f[n] = g[n]
  BY <1>1, <1>2, <1>3, <1>4, NamesAgree
<1> QED
  BY <1>1, <1>2, <1>5

\* No blocks, no names.
LEMMA ScopeNamesNone ==
  ScopeNames(<<>>) = <<>>
<1>1. PICK f : IsNames(<<>>, Len(<<>>), f) /\ ScopeNames(<<>>) = f[Len(<<>>)]
  BY ScopeNamesIs
<1>2. f[0] = <<>>
  BY <1>1 DEF IsNames, NameStep
<1> QED
  BY <1>1, <1>2

\* A scope adds its name, a state nothing.
LEMMA ScopeNamesAppend ==
  ASSUME NEW bs \in Seq(Blocks), NEW b \in Blocks
  PROVE  ScopeNames(Append(bs, b))
           = IF b.form = "state" THEN ScopeNames(bs) ELSE Append(ScopeNames(bs), b.name)
<1> DEFINE cs == Append(bs, b)
           n == Len(bs)
<1>1. /\ n \in Nat /\ Len(cs) = n + 1 /\ cs[n + 1] = b
      /\ \A k \in 1 .. n : cs[k] = bs[k]
  OBVIOUS
<1> HIDE DEF cs
<1>2. PICK f : IsNames(bs, n, f) /\ ScopeNames(bs) = f[n]
  BY ScopeNamesIs
<1>3. PICK g : IsNames(cs, n + 1, g) /\ ScopeNames(cs) = g[n + 1]
  BY <1>1, ScopeNamesIs
<1> HIDE DEF n
<1>4. f[n] = g[n]
  <2>1. n + 1 \in Nat /\ n <= n /\ n <= n + 1
    BY <1>1
  <2>2. Alike(bs, cs, n)
    BY <1>1 DEF Alike
  <2> QED
    BY <1>1, <1>2, <1>3, <2>1, <2>2, NamesAgree
<1>5. g[n + 1] = NameStep(cs, g, n + 1) /\ n + 1 # 0 /\ (n + 1) - 1 = n
  <2>1. \A j \in 0 .. n + 1 : g[j] = NameStep(cs, g, j)
    BY <1>3 DEF IsNames
  <2> QED
    BY <1>1, <2>1
<1>6. g[n + 1] = IF b.form = "state" THEN g[n] ELSE Append(g[n], b.name)
  BY <1>1, <1>5 DEF NameStep
<1> QED
  BY <1>2, <1>3, <1>4, <1>6 DEF cs

\* Scopes have the names of scopes.
LEMMA ScopeNamesType ==
  ASSUME NEW bs \in Seq(Blocks),
         \A k \in 1 .. Len(bs) : bs[k].form # "state" => bs[k].name \in Names
  PROVE  ScopeNames(bs) \in Seq(Names)
<1> DEFINE n == Len(bs)
<1>1. PICK f : IsNames(bs, n, f) /\ ScopeNames(bs) = f[n]
  BY ScopeNamesIs
<1> DEFINE wrong == {k \in 0 .. n : f[k] \notin Seq(Names)}
<1>2. ASSUME wrong # {} PROVE FALSE
  <2>1. PICK k \in wrong : \A j \in wrong : k <= j
    <3> HIDE DEF wrong
    <3>1. wrong \in SUBSET Nat
      BY DEF wrong
    <3> QED
      BY <1>2, <3>1, SmallestIn
  <2>2. f[k] = NameStep(bs, f, k)
    BY <1>1 DEF IsNames
  <2>3. k # 0 => f[k - 1] \in Seq(Names)
    BY <2>1
  <2>4. k # 0 /\ bs[k].form # "state" => bs[k].name \in Names
    BY <2>1
  <2>5. NameStep(bs, f, k) \in Seq(Names)
    BY <2>3, <2>4 DEF NameStep
  <2> QED
    BY <2>1, <2>2, <2>5
<1>3. n \in Nat
  OBVIOUS
<1> QED
  BY <1>1, <1>2, <1>3

----------------------------------------------------------------------------
(* What enter_scope has pushed on a thread, and the blocks it is inside of.  *)

Entries == [scope : Scopes, name : Names]

\* The blocks that enter_scope opened while profiling was on.
IsCall(b) == b.form = "call" /\ b.scope # Absent

\* ps holds the scope and the name of those of the blocks bs, in order: f[j] is
\* the block that ps[j] belongs to.
Matching(ps, bs, f) ==
  /\ f \in [1 .. Len(ps) -> 1 .. Len(bs)]
  /\ \A j, k \in 1 .. Len(ps) : j < k => f[j] < f[k]
  /\ \A k \in 1 .. Len(bs) : IsCall(bs[k]) => \E j \in 1 .. Len(ps) : f[j] = k
  /\ \A j \in 1 .. Len(ps) :
       IsCall(bs[f[j]]) /\ ps[j].scope = bs[f[j]].scope /\ ps[j].name = bs[f[j]].name
Matches(ps, bs) == \E f : Matching(ps, bs, f)

\* Outside of all blocks nothing is pushed.
LEMMA MatchesNone ==
  Matches(<<>>, <<>>)
<1>1. Matching(<<>>, <<>>, <<>>)
  BY DEF Matching
<1> QED
  BY <1>1 DEF Matches

\* Blocks that differ in neither form, scope nor name match the same.
LEMMA MatchesAlike ==
  ASSUME NEW ps \in Seq(Entries), NEW bs \in Seq(Blocks), NEW cs \in Seq(Blocks),
         Matches(ps, bs), Len(cs) = Len(bs),
         \A k \in 1 .. Len(bs) : /\ cs[k].form = bs[k].form /\ cs[k].scope = bs[k].scope
                                 /\ cs[k].name = bs[k].name
  PROVE  Matches(ps, cs)
<1>1. PICK f : Matching(ps, bs, f)
  BY DEF Matches
<1>2. Matching(ps, cs, f)
  BY <1>1 DEF Matching, IsCall
<1> QED
  BY <1>2 DEF Matches

\* enter_scope pushes its scope and its name.
LEMMA MatchesCall ==
  ASSUME NEW ps \in Seq(Entries), NEW bs \in Seq(Blocks), Matches(ps, bs),
         NEW b \in Blocks, IsCall(b), NEW p \in Entries,
         p.scope = b.scope, p.name = b.name
  PROVE  Matches(Append(ps, p), Append(bs, b))
<1>1. PICK f : Matching(ps, bs, f)
  BY DEF Matches
<1>2. PICK m \in Nat, n \in Nat : m = Len(ps) /\ n = Len(bs)
  OBVIOUS
<1>3. PICK qs : qs = Append(ps, p)
  OBVIOUS
<1>4. PICK cs : cs = Append(bs, b)
  OBVIOUS
<1>5. /\ Len(qs) = m + 1 /\ Len(cs) = n + 1 /\ qs[m + 1] = p /\ cs[n + 1] = b
      /\ \A j \in 1 .. m : qs[j] = ps[j]
      /\ \A j \in 1 .. n : cs[j] = bs[j]
  BY <1>2, <1>3, <1>4
<1>6. /\ \A j \in 1 .. m : f[j] \in 1 .. n
      /\ \A j, k \in 1 .. m : j < k => f[j] < f[k]
      /\ \A k \in 1 .. n : IsCall(bs[k]) => \E j \in 1 .. m : f[j] = k
      /\ \A j \in 1 .. m : IsCall(bs[f[j]]) /\ ps[j].scope = bs[f[j]].scope
                           /\ ps[j].name = bs[f[j]].name
  BY <1>1, <1>2 DEF Matching
<1> DEFINE g == [j \in 1 .. m + 1 |-> IF j = m + 1 THEN n + 1 ELSE f[j]]
<1>7. /\ g \in [1 .. m + 1 -> 1 .. n + 1] /\ g[m + 1] = n + 1
      /\ \A j \in 1 .. m : g[j] = f[j]
  BY <1>6
<1> HIDE DEF g
<1>8. \A j \in 1 .. m + 1 : j \in 1 .. m \/ j = m + 1
  OBVIOUS
<1>9. \A j, k \in 1 .. m + 1 : j < k => g[j] < g[k]
  <2> TAKE j, k \in 1 .. m + 1
  <2> HAVE j < k
  <2>1. j \in 1 .. m
    OBVIOUS
  <2>2. CASE k \in 1 .. m
    BY <1>6, <1>7, <2>1, <2>2
  <2>3. CASE k = m + 1
    <3>1. g[k] = n + 1 /\ g[j] \in 1 .. n
      BY <1>6, <1>7, <2>1, <2>3
    <3> QED
      BY <3>1
  <2> QED
    BY <1>8, <2>2, <2>3
<1>10. \A k \in 1 .. n + 1 : IsCall(cs[k]) => \E j \in 1 .. m + 1 : g[j] = k
  <2> TAKE k \in 1 .. n + 1
  <2>1. CASE k = n + 1
    BY <1>7, <2>1
  <2>2. CASE k \in 1 .. n
    BY <1>5, <1>6, <1>7, <2>2
  <2> QED
    BY <2>1, <2>2
<1>11. \A j \in 1 .. m + 1 : IsCall(cs[g[j]]) /\ qs[j].scope = cs[g[j]].scope
                             /\ qs[j].name = cs[g[j]].name
  <2> TAKE j \in 1 .. m + 1
  <2>1. CASE j \in 1 .. m
    <3>1. qs[j] = ps[j] /\ g[j] = f[j] /\ cs[f[j]] = bs[f[j]]
      BY <1>5, <1>6, <1>7, <2>1
    <3> QED
      BY <1>6, <2>1, <3>1
  <2>2. CASE j = m + 1
    BY <1>5, <1>7, <2>2
  <2> QED
    BY <1>8, <2>1, <2>2
<1>12. Matching(qs, cs, g)
  BY <1>5, <1>7, <1>9, <1>10, <1>11 DEF Matching
<1> QED
  BY <1>3, <1>4, <1>12 DEF Matches

\* Any other block pushes nothing.
LEMMA MatchesOther ==
  ASSUME NEW ps \in Seq(Entries), NEW bs \in Seq(Blocks), NEW b \in Blocks, ~IsCall(b)
  PROVE  Matches(ps, bs) <=> Matches(ps, Append(bs, b))
<1>1. PICK m \in Nat, n \in Nat : m = Len(ps) /\ n = Len(bs)
  OBVIOUS
<1>2. PICK cs : cs = Append(bs, b)
  OBVIOUS
<1>3. /\ Len(cs) = n + 1 /\ cs[n + 1] = b
      /\ \A j \in 1 .. n : cs[j] = bs[j]
  BY <1>1, <1>2
<1>4. \A f : Matching(ps, bs, f) => Matching(ps, cs, f)
  <2> SUFFICES ASSUME NEW f, Matching(ps, bs, f) PROVE Matching(ps, cs, f)
    OBVIOUS
  <2>1. \A j \in 1 .. m : f[j] \in 1 .. n /\ f[j] \in 1 .. n + 1
    BY <1>1 DEF Matching
  <2>2. f \in [1 .. m -> 1 .. n + 1]
    BY <2>1, <1>1 DEF Matching
  <2>3. \A k \in 1 .. n + 1 : k \in 1 .. n \/ k = n + 1
    OBVIOUS
  <2>4. \A k \in 1 .. n + 1 : IsCall(cs[k]) => \E j \in 1 .. m : f[j] = k
    BY <1>1, <1>3, <2>3 DEF Matching
  <2> QED
    BY <1>1, <1>3, <2>1, <2>2, <2>4 DEF Matching
<1>5. \A f : Matching(ps, cs, f) => Matching(ps, bs, f)
  <2> SUFFICES ASSUME NEW f, Matching(ps, cs, f) PROVE Matching(ps, bs, f)
    OBVIOUS
  <2>1. \A j \in 1 .. m : f[j] \in 1 .. n + 1 /\ IsCall(cs[f[j]])
    BY <1>1, <1>3 DEF Matching
  <2>2. \A j \in 1 .. m : f[j] \in 1 .. n
    BY <1>3, <2>1
  <2>3. f \in [1 .. m -> 1 .. n]
    BY <2>2, <1>1 DEF Matching
  <2>4. \A k \in 1 .. n : k \in 1 .. n + 1 /\ cs[k] = bs[k]
    BY <1>3
  <2>5. \A k \in 1 .. n : IsCall(bs[k]) => \E j \in 1 .. m : f[j] = k
    BY <1>1, <1>3, <2>4 DEF Matching
  <2> QED
    BY <1>1, <2>2, <2>3, <2>4, <2>5 DEF Matching
<1> QED
  BY <1>2, <1>4, <1>5 DEF Matches

\* What was pushed last belongs to the innermost of those blocks.
LEMMA MatchesPop ==
  ASSUME NEW ps \in Seq(Entries), NEW bs \in Seq(Blocks), NEW b \in Blocks, IsCall(b),
         Matches(ps, Append(bs, b))
  PROVE  /\ ps # <<>> /\ Last(ps).scope = b.scope /\ Last(ps).name = b.name
         /\ Matches(Front(ps), bs)
<1>1. PICK m \in Nat, n \in Nat : m = Len(ps) /\ n = Len(bs)
  OBVIOUS
<1>2. PICK cs : cs = Append(bs, b)
  OBVIOUS
<1>3. /\ Len(cs) = n + 1 /\ cs[n + 1] = b
      /\ \A j \in 1 .. n : cs[j] = bs[j]
  BY <1>1, <1>2
<1>4. PICK f : Matching(ps, cs, f)
  BY <1>2 DEF Matches
<1>5. /\ \A j \in 1 .. m : f[j] \in 1 .. n + 1
      /\ \A j, k \in 1 .. m : j < k => f[j] < f[k]
      /\ \A k \in 1 .. n + 1 : IsCall(cs[k]) => \E j \in 1 .. m : f[j] = k
      /\ \A j \in 1 .. m : IsCall(cs[f[j]]) /\ ps[j].scope = cs[f[j]].scope
                           /\ ps[j].name = cs[f[j]].name
      /\ f = [j \in 1 .. m |-> f[j]]
  BY <1>1, <1>3, <1>4 DEF Matching
<1>6. PICK j \in 1 .. m : f[j] = n + 1
  BY <1>3, <1>5
<1>7. j = m
  <2>1. j < m => f[j] < f[m] /\ f[m] \in 1 .. n + 1
    BY <1>5
  <2> QED
    BY <1>6, <2>1
<1>8. m # 0 /\ ps # <<>> /\ Last(ps) = ps[m]
  BY <1>1, <1>6 DEF Last
<1>9. /\ Len(Front(ps)) = m - 1 /\ m - 1 \in Nat
      /\ \A k \in 1 .. m - 1 : Front(ps)[k] = ps[k] /\ k \in 1 .. m /\ k < m
  BY <1>1, <1>8, FrontLast
<1> DEFINE g == [k \in 1 .. m - 1 |-> f[k]]
<1>10. \A k \in 1 .. m - 1 : f[k] \in 1 .. n /\ g[k] = f[k]
  <2> TAKE k \in 1 .. m - 1
  <2>1. k \in 1 .. m /\ k < m /\ m \in 1 .. m
    BY <1>9
  <2>2. f[k] < f[m] /\ f[k] \in 1 .. n + 1
    BY <1>5, <2>1
  <2> QED
    BY <1>6, <1>7, <2>2
<1>11. g \in [1 .. m - 1 -> 1 .. n]
  BY <1>10
<1> HIDE DEF g
<1>12. \A k, l \in 1 .. m - 1 : k < l => g[k] < g[l]
  BY <1>5, <1>9, <1>10
<1>13. \A k \in 1 .. n : IsCall(bs[k]) => \E l \in 1 .. m - 1 : g[l] = k
  <2> TAKE k \in 1 .. n
  <2> HAVE IsCall(bs[k])
  <2>1. k \in 1 .. n + 1 /\ k # n + 1 /\ cs[k] = bs[k]
    BY <1>3
  <2>2. PICK l \in 1 .. m : f[l] = k
    BY <1>5, <2>1
  <2>3. l # m
    BY <1>6, <1>7, <2>1, <2>2
  <2>4. l \in 1 .. m - 1
    BY <2>3
  <2> QED
    BY <1>10, <2>2, <2>4
<1>14. \A k \in 1 .. m - 1 : /\ IsCall(bs[g[k]]) /\ Front(ps)[k].scope = bs[g[k]].scope
                             /\ Front(ps)[k].name = bs[g[k]].name
  <2> TAKE k \in 1 .. m - 1
  <2>1. k \in 1 .. m /\ Front(ps)[k] = ps[k] /\ g[k] = f[k] /\ f[k] \in 1 .. n
    BY <1>9, <1>10
  <2>2. cs[f[k]] = bs[f[k]]
    BY <1>3, <2>1
  <2> QED
    BY <1>5, <2>1, <2>2
<1>15. Matching(Front(ps), bs, g)
  BY <1>1, <1>9, <1>11, <1>12, <1>13, <1>14 DEF Matching
<1>16. ps[m].scope = b.scope /\ ps[m].name = b.name
  BY <1>3, <1>5, <1>6, <1>7
<1> QED
  BY <1>8, <1>15, <1>16 DEF Matches

----------------------------------------------------------------------------
(* The invariant.                                                           *)

Phases == {"unborn", "paused", "recording", "closing", "closed"}
Stacks == [Threads -> [Addresses -> Seq(Names)]]
ScopeMaps == [Ids -> [Scopes -> Seq(Names \cup States) \cup {Absent}]]

Typed ==
  /\ phase \in [Ids -> Phases]
  /\ source \in [Ids -> Addresses \cup {Absent}]
  /\ main \in [Addresses -> Threads \cup {Absent}]
  /\ initialized \in [Threads -> SUBSET Addresses]
  /\ stack \in Stacks /\ inherited \in Stacks
  /\ state \in [Threads -> States \cup {Absent}]
  /\ scopeMap \in ScopeMaps
  /\ metrics \in [Ids -> SUBSET Metric]
  /\ nextScope \in 0 .. MaxScopes
  /\ blocks \in [Threads -> Seq(Blocks)]
  /\ pushed \in [Threads -> Seq(Entries)]
  /\ decoratedId \in [Names -> Scopes \cup {Absent}]
  /\ freshSource \in SUBSET Ids /\ midScope \in Nat /\ raised \in BOOLEAN

\* A session that is not over has a context source, and the thread it was made on has
\* a stack there.
Lives(i) == phase[i] \in {"paused", "recording", "closing"}
SourcesAre ==
  \A i \in Ids : Lives(i) =>
    /\ source[i] \in Addresses /\ main[source[i]] \in Threads
    /\ source[i] \in initialized[main[source[i]]]

\* Of an address that no source had nothing is left.
UnusedAre ==
  \A a \in Addresses : main[a] = Absent => \A t \in Threads :
    a \notin initialized[t] /\ stack[t][a] = <<>> /\ inherited[t][a] = <<>>

\* A scope has the name of a scope; metrics are due only to one that is known; and the
\* scope object of a decorated function has the id of the call that shares it with none.
BlockOK(b, ids) ==
  /\ b.form # "state" => b.name \in Names
  /\ b.due => b.scope # Absent /\ b.form # "state"
  /\ b.form = "decorated" /\ b.scope # Absent =>
       ids[b.name] # Absent /\ (b.shared \/ ids[b.name] = b.scope)
BlocksAre ==
  \A t \in Threads : \A k \in 1 .. Len(blocks[t]) : BlockOK(blocks[t][k], decoratedId)

\* As long as sessions come and go between scopes, the scopes a thread is inside of
\* were all entered as they will be left, with profiling on or off.
EnteredAs(bs, on) ==
  \A k \in 1 .. Len(bs) : bs[k].form # "state" => (bs[k].scope # Absent <=> on)
Unrecorded ==
  midScope = 0 => \A t \in Threads : EnteredAs(blocks[t], ProfilingOn)

PushedAre ==
  midScope = 0 => \A t \in Threads : Matches(pushed[t], blocks[t])

\* What of the scopes of thread t an active source has seen.
Since(t, a) == IF a \in Sources THEN ScopeNames(blocks[t]) ELSE <<>>

\* The scopes a thread is inside of are on top of its stack.
StacksAre ==
  midScope = 0 => \A t \in Threads, a \in Addresses :
    /\ a \in Sources /\ a \notin initialized[t] => ScopeNames(blocks[t]) = <<>>
    /\ \E base \in Seq(Names) : stack[t][a] = base \o Since(t, a)

\* Of a source that does not reuse an address, below them is what the thread inherited,
\* and its main thread inherited nothing.
FreshOn(a) ==
  /\ inherited[main[a]][a] = <<>>
  /\ \A t \in Threads : a \in initialized[t] =>
       stack[t][a] = inherited[t][a] \o Since(t, a)
FreshAre ==
  \A i \in freshSource :
    /\ phase[i] # "unborn"
    /\ midScope = 0 /\ phase[i] \in {"paused", "recording"} =>
         \A a \in Addresses : source[i] = a => FreshOn(a)

NotRaised == midScope = 0 => ~raised

ContextInv ==
  /\ Typed /\ SourcesAre /\ UnusedAre /\ BlocksAre /\ Unrecorded /\ PushedAre
  /\ StacksAre /\ FreshAre /\ NotRaised /\ MetricsReachTheirScope

\* The invariant holds at first.
LEMMA InitInv ==
  ASSUME Init
  PROVE  ContextInv
<1>1. /\ phase = [i \in Ids |-> "unborn"] /\ blocks = [t \in Threads |-> <<>>]
      /\ pushed = [t \in Threads |-> <<>>] /\ freshSource = {} /\ midScope = 0
      /\ raised = FALSE /\ metrics = [i \in Ids |-> {}]
      /\ stack = [t \in Threads |-> [a \in Addresses |-> <<>>]]
      /\ inherited = [t \in Threads |-> [a \in Addresses |-> <<>>]]
      /\ initialized = [t \in Threads |-> {}]
  BY DEF Init, Lifecycle!Init, Lifecycle!Ids, Ids
<1>2. Typed
  <2>1. stack \in Stacks /\ inherited \in Stacks
    BY <1>1 DEF Stacks
  <2>2. scopeMap \in ScopeMaps
    BY DEF Init, NoScopes, ScopeMaps
  <2>3. nextScope \in 0 .. MaxScopes
    BY DispatchAssumptions DEF Init
  <2>4. blocks \in [Threads -> Seq(Blocks)] /\ pushed \in [Threads -> Seq(Entries)]
    BY <1>1
  <2>5. /\ source \in [Ids -> Addresses \cup {Absent}] /\ main \in [Addresses -> Threads \cup {Absent}]
        /\ state \in [Threads -> States \cup {Absent}]
        /\ decoratedId \in [Names -> Scopes \cup {Absent}]
    BY DEF Init
  <2>6. /\ phase \in [Ids -> Phases] /\ initialized \in [Threads -> SUBSET Addresses]
        /\ metrics \in [Ids -> SUBSET Metric]
    BY <1>1 DEF Phases
  <2>7. freshSource \in SUBSET Ids /\ midScope \in Nat /\ raised \in BOOLEAN
    BY <1>1
  <2> QED
    BY <2>1, <2>2, <2>3, <2>4, <2>5, <2>6, <2>7 DEF Typed
<1>3. SourcesAre /\ UnusedAre
  BY <1>1 DEF SourcesAre, UnusedAre, Lives
<1>4. BlocksAre /\ Unrecorded
  BY <1>1 DEF BlocksAre, Unrecorded, EnteredAs
<1>5. PushedAre
  BY <1>1, MatchesNone DEF PushedAre
<1>6. StacksAre
  <2>1. \A t \in Threads : ScopeNames(blocks[t]) = <<>>
    BY <1>1, ScopeNamesNone
  <2>2. \A t \in Threads, a \in Addresses : stack[t][a] = <<>> /\ Since(t, a) = <<>>
    BY <1>1, <2>1 DEF Since
  <2>3. <<>> \in Seq(Names) /\ <<>> = <<>> \o <<>>
    OBVIOUS
  <2> QED
    BY <2>1, <2>2, <2>3 DEF StacksAre
<1>7. FreshAre /\ NotRaised /\ MetricsReachTheirScope
  BY <1>1 DEF FreshAre, NotRaised, MetricsReachTheirScope
<1> QED
  BY <1>2, <1>3, <1>4, <1>5, <1>6, <1>7 DEF ContextInv

----------------------------------------------------------------------------
(* Sessions.                                                                *)

\* What is active follows from the phases.
LEMMA ActiveStays ==
  ASSUME UNCHANGED <<phase, source>>
  PROVE  Recording' = Recording /\ Sources' = Sources /\ ProfilingOn' = ProfilingOn
  BY DEF Recording, Sources, ProfilingOn, Lifecycle!Open, Lifecycle!Ids

\* Profiling is on while a session records.
LEMMA RecordingIsOn ==
  ASSUME Sources # {}
  PROVE  ProfilingOn
<1>1. PICK i \in Ids : phase[i] = "recording"
  BY DEF Sources, Recording
<1>2. i \in Lifecycle!Open
  BY <1>1 DEF Lifecycle!Open, Lifecycle!Ids, Ids
<1> QED
  BY <1>2 DEF ProfilingOn

\* A source that is active is one of a session.
LEMMA SourcesLive ==
  ASSUME Typed, SourcesAre, NEW a \in Sources
  PROVE  /\ a \in Addresses /\ main[a] \in Threads /\ a \in initialized[main[a]]
         /\ \E i \in Ids : phase[i] = "recording" /\ source[i] = a
  BY DEF Sources, Recording, SourcesAre, Lives

\* Scopes have names of scopes.
LEMMA NamesTyped ==
  ASSUME Typed, BlocksAre, NEW t \in Threads
  PROVE  ScopeNames(blocks[t]) \in Seq(Names) /\ blocks[t] \in Seq(Blocks)
<1>1. blocks[t] \in Seq(Blocks)
  BY DEF Typed
<1>2. \A k \in 1 .. Len(blocks[t]) : blocks[t][k].form # "state" => blocks[t][k].name \in Names
  BY DEF BlocksAre, BlockOK
<1> QED
  BY <1>1, <1>2, ScopeNamesType

\* Outside of all scopes no source has seen any.
LEMMA OutsideNames ==
  ASSUME Outside, NEW t \in Threads
  PROVE  blocks[t] = <<>> /\ ScopeNames(blocks[t]) = <<>>
  BY ScopeNamesNone DEF Outside

\* What records, pauses, closes and destroys sessions.
LEMMA MovesAre ==
  ASSUME Typed, NEW S \in SUBSET Ids, Record(S) \/ Pause(S) \/ Close(S) \/ Release(S)
  PROVE  /\ phase' \in [Ids -> Phases]
         /\ \A i \in Ids :
              /\ Lives(i)' => Lives(i)
              /\ phase'[i] \in {"paused", "recording"} => phase[i] \in {"paused", "recording"}
              /\ phase[i] # "unborn" => phase'[i] # "unborn"
         /\ UNCHANGED <<source, main, initialized, stack, state, pythonVars, inherited,
                        freshSource, raised>>
         /\ midScope' \in Nat /\ (midScope' = 0 => midScope = 0)
         /\ midScope' = 0 /\ ~Outside => Recording' = Recording /\ ProfilingOn' = ProfilingOn
         /\ scopeMap' \in ScopeMaps
         /\ \A i \in Ids, s \in Scopes : scopeMap'[i][s] \in {scopeMap[i][s], Absent}
         /\ metrics' \in [Ids -> SUBSET Metric]
         /\ \A i \in Ids : metrics'[i] \subseteq metrics[i]
<1>1. Lifecycle!Ids = Ids
  BY DEF Lifecycle!Ids, Ids
<1>2. CASE Record(S) \/ Pause(S) \/ Close(S)
  <2>1. /\ UNCHANGED <<source, main, initialized, stack, state, pythonVars, inherited,
                       freshSource, raised, metrics>>
        /\ midScope' = (IF Outside THEN midScope ELSE midScope + 1)
    BY <1>2 DEF Record, Pause, Close, MidScope, sessionOnly, dataVars
  <2>2. /\ phase' \in [Ids -> Phases]
        /\ \A i \in Ids :
              /\ phase'[i] \in {"paused", "recording", "closing"} => phase[i] \in {"paused", "recording", "closing"}
              /\ phase'[i] \in {"paused", "recording"} => phase[i] \in {"paused", "recording"}
              /\ phase[i] # "unborn" => phase'[i] # "unborn"
    <3>1. CASE Record(S)
      BY <1>1, <3>1 DEF Record, Lifecycle!Record, Lifecycle!Move, Typed, Phases
    <3>2. CASE Pause(S)
      BY <1>1, <3>2 DEF Pause, Lifecycle!Pause, Lifecycle!Move, Typed, Phases
    <3>3. CASE Close(S)
      BY <1>1, <3>3 DEF Close, Lifecycle!Close, Lifecycle!Open, Lifecycle!Move, Typed, Phases
    <3> QED
      BY <1>2, <3>1, <3>2, <3>3
  <2>3. /\ scopeMap' \in ScopeMaps
        /\ \A i \in Ids, s \in Scopes : scopeMap'[i][s] \in {scopeMap[i][s], Absent}
    <3>1. scopeMap' = scopeMap \/ \E R : scopeMap' = Cleared(R)
      BY <1>2 DEF Record, Pause, Close, dataVars
    <3>2. scopeMap \in ScopeMaps
      BY DEF Typed
    <3> QED
      BY <3>1, <3>2 DEF Cleared, NoScopes, ScopeMaps
  <2>4. metrics' \in [Ids -> SUBSET Metric] /\ midScope' \in Nat /\ (midScope' = 0 => midScope = 0)
        /\ (midScope' = 0 => Outside)
    BY <2>1 DEF Typed
  <2> QED
    BY <2>1, <2>2, <2>3, <2>4 DEF Lives
<1>3. CASE Release(S)
  <2>1. /\ UNCHANGED <<source, main, initialized, stack, state, pythonVars, inherited,
                       freshSource, raised, midScope>>
        /\ scopeMap' = [i \in Ids |-> IF i \in S THEN NoScopes ELSE scopeMap[i]]
        /\ metrics' = [i \in Ids |-> IF i \in S THEN {} ELSE metrics[i]]
        /\ phase' = [i \in Ids |-> IF i \in S THEN "closed" ELSE phase[i]]
        /\ \A i \in S : phase[i] = "closing"
    BY <1>1, <1>3 DEF Release, sessionOnly, Lifecycle!Release, Lifecycle!Move
  <2>2. /\ phase' \in [Ids -> Phases]
        /\ \A i \in Ids :
              /\ phase'[i] \in {"paused", "recording", "closing"} => phase[i] \in {"paused", "recording", "closing"}
              /\ phase'[i] \in {"paused", "recording"} => phase[i] \in {"paused", "recording"}
              /\ phase[i] # "unborn" => phase'[i] # "unborn"
    BY <2>1 DEF Typed, Phases
  <2>3. Recording' = Recording /\ ProfilingOn' = ProfilingOn
    <3>1. \A i \in Ids : /\ phase'[i] = "recording" <=> phase[i] = "recording"
                         /\ phase'[i] = "paused" <=> phase[i] = "paused"
      BY <2>1
    <3>2. Recording' = Recording
      BY <3>1 DEF Recording
    <3>3. (Lifecycle!Open)' = Lifecycle!Open
      BY <1>1, <3>1 DEF Lifecycle!Open
    <3> QED
      BY <3>2, <3>3 DEF ProfilingOn
  <2>4. /\ scopeMap' \in ScopeMaps
        /\ \A i \in Ids, s \in Scopes : scopeMap'[i][s] \in {scopeMap[i][s], Absent}
    <3>1. scopeMap \in ScopeMaps
      BY DEF Typed
    <3> QED
      BY <2>1, <3>1 DEF NoScopes, ScopeMaps
  <2>5. metrics' \in [Ids -> SUBSET Metric] /\ \A i \in Ids : metrics'[i] \subseteq metrics[i]
    BY <2>1 DEF Typed
  <2>6. midScope' \in Nat /\ (midScope' = 0 => midScope = 0)
    BY <2>1 DEF Typed
  <2> QED
    BY <2>1, <2>2, <2>3, <2>4, <2>5, <2>6 DEF Lives
<1> QED
  BY <1>2, <1>3

\* They keep the invariant.
LEMMA MovesKeep ==
  ASSUME ContextInv, NEW S \in SUBSET Ids, Record(S) \/ Pause(S) \/ Close(S) \/ Release(S)
  PROVE  ContextInv'
<1>1. Typed /\ SourcesAre /\ BlocksAre
  BY DEF ContextInv
<1>2. /\ phase' \in [Ids -> Phases]
      /\ \A i \in Ids :
           /\ Lives(i)' => Lives(i)
           /\ phase'[i] \in {"paused", "recording"} => phase[i] \in {"paused", "recording"}
           /\ phase[i] # "unborn" => phase'[i] # "unborn"
      /\ UNCHANGED <<source, main, initialized, stack, state, nextScope, blocks, pushed,
                     decoratedId, inherited, freshSource, raised>>
      /\ midScope' \in Nat /\ (midScope' = 0 => midScope = 0)
      /\ midScope' = 0 /\ ~Outside => Recording' = Recording /\ ProfilingOn' = ProfilingOn
      /\ scopeMap' \in ScopeMaps
      /\ metrics' \in [Ids -> SUBSET Metric]
      /\ \A i \in Ids : metrics'[i] \subseteq metrics[i]
  BY <1>1, MovesAre DEF pythonVars
<1>3. Typed'
  BY <1>1, <1>2 DEF Typed
<1>4. SourcesAre'
  BY <1>1, <1>2 DEF SourcesAre
<1>5. UnusedAre' /\ BlocksAre'
  BY <1>2 DEF ContextInv, UnusedAre, BlocksAre
<1>6. PushedAre' /\ NotRaised'
  BY <1>2 DEF ContextInv, PushedAre, NotRaised
<1>7. Unrecorded'
  <2>1. CASE midScope' = 0 /\ Outside
    BY <1>2, <2>1 DEF Unrecorded, EnteredAs, Outside
  <2>2. CASE midScope' = 0 /\ ~Outside
    BY <1>2, <2>2 DEF ContextInv, Unrecorded
  <2> QED
    BY <2>1, <2>2 DEF Unrecorded
<1>8. ASSUME midScope' = 0, NEW t \in Threads, NEW a \in Addresses PROVE Since(t, a)' = Since(t, a)
  <2>1. CASE Outside
    BY <1>2, <2>1, OutsideNames DEF Since
  <2>2. CASE ~Outside
    <3>1. Sources' = Sources
      BY <1>2, <1>8, <2>2 DEF Sources
    <3> QED
      BY <1>2, <3>1 DEF Since
  <2> QED
    BY <2>1, <2>2
<1>9. StacksAre'
  <2> SUFFICES ASSUME midScope' = 0, NEW t \in Threads, NEW a \in Addresses
               PROVE  /\ a \in Sources' /\ a \notin initialized'[t] => ScopeNames(blocks'[t]) = <<>>
                      /\ \E base \in Seq(Names) : stack'[t][a] = base \o Since(t, a)'
    BY DEF StacksAre
  <2>1. \E base \in Seq(Names) : stack'[t][a] = base \o Since(t, a)'
    BY <1>2, <1>8 DEF ContextInv, StacksAre
  <2>2. CASE Outside
    BY <1>2, <2>1, <2>2, OutsideNames
  <2>3. CASE ~Outside
    <3>1. Sources' = Sources
      BY <1>2, <2>3 DEF Sources
    <3> QED
      BY <1>2, <2>1, <3>1 DEF ContextInv, StacksAre
  <2> QED
    BY <2>2, <2>3
<1>10. FreshAre'
  <2>1. ASSUME NEW i \in freshSource
        PROVE  /\ phase'[i] # "unborn"
               /\ midScope' = 0 /\ phase'[i] \in {"paused", "recording"} =>
                    \A a \in Addresses : source'[i] = a => FreshOn(a)'
    <3>1. i \in Ids /\ phase[i] # "unborn"
      BY <1>1, <2>1 DEF ContextInv, FreshAre, Typed
    <3>2. ASSUME midScope' = 0, phase'[i] \in {"paused", "recording"},
                 NEW a \in Addresses, source'[i] = a
          PROVE  FreshOn(a)'
      <4>1. FreshOn(a)
        BY <1>2, <2>1, <3>1, <3>2 DEF ContextInv, FreshAre
      <4>2. \A t \in Threads : Since(t, a)' = Since(t, a)
        BY <1>8, <3>2
      <4> QED
        BY <1>2, <4>1, <4>2 DEF FreshOn
    <3> QED
      BY <1>2, <3>1, <3>2
  <2> QED
    BY <1>2, <2>1 DEF FreshAre
<1>11. MetricsReachTheirScope'
  <2>1. \A i \in Ids : \A m \in metrics[i] : m.of = m.scope \/ m.shared \/ midScope > 0
    BY DEF ContextInv, MetricsReachTheirScope
  <2>2. midScope > 0 => midScope' > 0
    BY <1>1, <1>2 DEF Typed
  <2>3. \A i \in Ids : \A m \in metrics'[i] : m.of = m.scope \/ m.shared \/ midScope' > 0
    BY <1>2, <2>1, <2>2
  <2> QED
    BY <2>3 DEF MetricsReachTheirScope
<1> QED
  BY <1>3, <1>4, <1>5, <1>6, <1>7, <1>9, <1>10, <1>11 DEF ContextInv

\* A session that is opened keeps it as well.
LEMMA OpenKeeps ==
  ASSUME ContextInv, NEW t \in Threads, NEW i \in Ids, NEW path \in Paths,
         NEW a \in Addresses, OpenSession(t, i, path, a)
  PROVE  ContextInv'
<1>1. Typed /\ SourcesAre /\ BlocksAre
  BY DEF ContextInv
<1>2. Lifecycle!Ids = Ids
  BY DEF Lifecycle!Ids, Ids
<1>3. /\ phase[i] = "unborn" /\ phase' = [j \in Ids |-> IF j = i THEN "paused" ELSE phase[j]]
      /\ a \notin InUse
      /\ source' = [source EXCEPT ![i] = a] /\ main' = [main EXCEPT ![a] = t]
      /\ initialized' = [initialized EXCEPT ![t] = @ \cup {a}]
      /\ freshSource' = (IF main[a] = Absent THEN freshSource \cup {i} ELSE freshSource)
      /\ midScope' = (IF Outside THEN midScope ELSE midScope + 1)
      /\ UNCHANGED <<stack, state, scopeMap, metrics, nextScope, blocks, pushed, decoratedId,
                     inherited, raised>>
  BY <1>2 DEF OpenSession, Lifecycle!OpenSession, Lifecycle!NextId, Lifecycle!Move, MidScope,
              dataVars, pythonVars
<1>4. /\ \A j \in Ids \ {i} : phase'[j] = phase[j] /\ source'[j] = source[j]
      /\ phase'[i] = "paused" /\ source'[i] = a /\ main'[a] = t
      /\ \A b \in Addresses \ {a} : main'[b] = main[b]
      /\ \A u \in Threads : /\ initialized[u] \subseteq initialized'[u]
                            /\ initialized'[u] \subseteq initialized[u] \cup {a}
      /\ a \in initialized'[t]
  BY <1>1, <1>3 DEF Typed
<1>5. \A j \in Ids : Lives(j) => j # i /\ source[j] # a
  BY <1>3 DEF InUse, Lives
<1>6. Recording' = Recording /\ i \notin Recording
  BY <1>3 DEF Recording
<1>7. Sources' = Sources /\ a \notin Sources
  <2>1. \A j \in Recording : j \in Ids \ {i} /\ Lives(j) /\ source'[j] = source[j]
    BY <1>4, <1>6 DEF Recording, Lives
  <2> QED
    BY <1>5, <1>6, <2>1 DEF Sources
<1>8. midScope' \in Nat /\ (midScope' = 0 => midScope = 0 /\ Outside)
  BY <1>1, <1>3 DEF Typed
<1>9. \A u \in Threads, b \in Addresses : Since(u, b)' = Since(u, b)
  BY <1>3, <1>7 DEF Since
<1>10. Typed'
  BY <1>1, <1>3, <1>8 DEF Typed, Phases
<1>11. SourcesAre'
  BY <1>1, <1>3, <1>4, <1>5 DEF SourcesAre, Lives
<1>12. UnusedAre'
  <2>1. a \in Addresses /\ main'[a] # Absent
    BY <1>4, DispatchAssumptions
  <2>2. ASSUME NEW b \in Addresses, main'[b] = Absent, NEW u \in Threads
        PROVE  b \notin initialized'[u] /\ stack'[u][b] = <<>> /\ inherited'[u][b] = <<>>
    BY <1>3, <1>4, <2>1, <2>2 DEF ContextInv, UnusedAre
  <2> QED
    BY <2>2 DEF UnusedAre
<1>13. BlocksAre' /\ PushedAre' /\ NotRaised'
  BY <1>3, <1>8 DEF ContextInv, BlocksAre, PushedAre, NotRaised
<1>14. Unrecorded'
  BY <1>3, <1>8 DEF Unrecorded, EnteredAs, Outside
<1>15. StacksAre'
  <2>1. ASSUME midScope' = 0, NEW u \in Threads, NEW b \in Addresses
        PROVE  /\ b \in Sources' /\ b \notin initialized'[u] => ScopeNames(blocks'[u]) = <<>>
               /\ \E base \in Seq(Names) : stack'[u][b] = base \o Since(u, b)'
    <3>1. b \in Sources /\ b \notin initialized[u] => ScopeNames(blocks[u]) = <<>>
      BY <1>8, <2>1 DEF ContextInv, StacksAre
    <3>2. \E base \in Seq(Names) : stack[u][b] = base \o Since(u, b)
      BY <1>8, <2>1 DEF ContextInv, StacksAre
    <3>3. b \notin initialized'[u] => b \notin initialized[u]
      BY <1>4
    <3>4. Since(u, b)' = Since(u, b) /\ stack' = stack /\ blocks' = blocks /\ Sources' = Sources
      BY <1>3, <1>7, <1>9
    <3> QED
      BY <3>1, <3>2, <3>3, <3>4
  <2> QED
    BY <2>1 DEF StacksAre
<1>16. FreshAre'
  <2>1. ASSUME NEW j \in freshSource'
        PROVE  /\ phase'[j] # "unborn"
               /\ midScope' = 0 /\ phase'[j] \in {"paused", "recording"} =>
                    \A b \in Addresses : source'[j] = b => FreshOn(b)'
    <3>1. j \in Ids
      BY <1>1, <1>3, <2>1 DEF Typed
    <3>2. CASE j # i
      <4>1. j \in freshSource
        BY <1>3, <2>1, <3>2
      <4>2. phase'[j] = phase[j] /\ source'[j] = source[j] /\ phase[j] # "unborn"
        BY <1>4, <3>1, <3>2, <4>1 DEF ContextInv, FreshAre
      <4>3. ASSUME midScope' = 0, phase'[j] \in {"paused", "recording"},
                   NEW b \in Addresses, source'[j] = b
            PROVE  FreshOn(b)'
        <5>1. FreshOn(b)
          BY <1>8, <4>1, <4>2, <4>3 DEF ContextInv, FreshAre
        <5>2. b # a
          BY <1>5, <3>1, <4>2, <4>3 DEF Lives
        <5>3. main'[b] = main[b] /\ \A u \in Threads : b \in initialized'[u] => b \in initialized[u]
          BY <1>4, <5>2
        <5>4. \A u \in Threads : Since(u, b)' = Since(u, b)
          BY <1>9
        <5> QED
          BY <1>3, <5>1, <5>3, <5>4 DEF FreshOn
      <4> QED
        BY <4>2, <4>3
    <3>3. CASE j = i
      <4>1. main[a] = Absent
        BY <1>3, <2>1, <3>3 DEF ContextInv, FreshAre
      <4>2. \A u \in Threads : stack[u][a] = <<>> /\ inherited[u][a] = <<>> /\ Since(u, a) = <<>>
        BY <1>7, <4>1 DEF ContextInv, UnusedAre, Since
      <4>3. \A u \in Threads : Since(u, a)' = <<>>
        BY <1>9, <4>2
      <4>4. <<>> = <<>> \o <<>>
        OBVIOUS
      <4>5. FreshOn(a)'
        BY <1>3, <1>4, <4>2, <4>3, <4>4 DEF FreshOn
      <4>6. \A b \in Addresses : source'[j] = b => b = a
        BY <1>4, <3>3
      <4>7. \A b \in Addresses : source'[j] = b => FreshOn(b)'
        BY <4>5, <4>6
      <4> QED
        BY <1>4, <3>3, <4>7
    <3> QED
      BY <3>2, <3>3
  <2> QED
    BY <2>1 DEF FreshAre
<1>17. MetricsReachTheirScope'
  <2>1. \A j \in Ids : \A m \in metrics[j] : m.of = m.scope \/ m.shared \/ midScope > 0
    BY DEF ContextInv, MetricsReachTheirScope
  <2>2. midScope > 0 => midScope' > 0
    BY <1>1, <1>8 DEF Typed
  <2>3. \A j \in Ids : \A m \in metrics'[j] : m.of = m.scope \/ m.shared \/ midScope' > 0
    BY <1>3, <2>1, <2>2
  <2> QED
    BY <2>3 DEF MetricsReachTheirScope
<1> QED
  BY <1>10, <1>11, <1>12, <1>13, <1>14, <1>15, <1>16, <1>17 DEF ContextInv

----------------------------------------------------------------------------
(* The blocks of a thread.                                                  *)

\* A thread goes into a block.
LEMMA BlockEntered ==
  ASSUME NEW B \in [Threads -> Seq(Blocks)], NEW t \in Threads, NEW b \in Blocks,
         blocks' = [B EXCEPT ![t] = Append(@, b)]
  PROVE  /\ blocks' \in [Threads -> Seq(Blocks)] /\ blocks'[t] = Append(B[t], b)
         /\ \A u \in Threads \ {t} : blocks'[u] = B[u]
         /\ B[t] \in Seq(Blocks) /\ Len(blocks'[t]) = Len(B[t]) + 1
         /\ \A k \in 1 .. Len(blocks'[t]) :
              (k \in 1 .. Len(B[t]) /\ blocks'[t][k] = B[t][k]) \/ blocks'[t][k] = b
<1>1. B[t] \in Seq(Blocks) /\ blocks'[t] = Append(B[t], b)
  OBVIOUS
<1>2. \A k \in 1 .. Len(Append(B[t], b)) :
        (k \in 1 .. Len(B[t]) /\ Append(B[t], b)[k] = B[t][k]) \/ Append(B[t], b)[k] = b
  BY <1>1
<1>3. Len(Append(B[t], b)) = Len(B[t]) + 1 /\ Append(B[t], b) \in Seq(Blocks)
  BY <1>1
<1>4. blocks' \in [Threads -> Seq(Blocks)] /\ \A u \in Threads \ {t} : blocks'[u] = B[u]
  BY <1>1, <1>3
<1> QED
  BY <1>1, <1>2, <1>3, <1>4

\* A thread leaves the innermost block it is inside of.
LEMMA BlockLeft ==
  ASSUME Typed, NEW t \in Threads, blocks[t] # <<>>, Leave(t)
  PROVE  \E bs \in Seq(Blocks), b \in Blocks :
           /\ blocks[t] = Append(bs, b) /\ b = Last(blocks[t]) /\ blocks'[t] = bs
           /\ Len(blocks[t]) = Len(bs) + 1 /\ blocks[t][Len(bs) + 1] = b
           /\ \A k \in 1 .. Len(bs) : k \in 1 .. Len(blocks[t]) /\ bs[k] = blocks[t][k]
           /\ \A u \in Threads \ {t} : blocks'[u] = blocks[u]
           /\ blocks' \in [Threads -> Seq(Blocks)]
<1>1. PICK s \in Seq(Blocks) : s = blocks[t]
  BY DEF Typed
<1>2. PICK bs, b : bs = Front(s) /\ b = Last(s)
  OBVIOUS
<1>3. /\ Len(s) \in Nat \ {0} /\ Len(bs) = Len(s) - 1 /\ bs \in Seq(Blocks) /\ b \in Blocks
      /\ \A k \in 1 .. Len(s) - 1 : bs[k] = s[k]
      /\ s = Append(bs, b)
  BY <1>1, <1>2, FrontLast
<1>4. blocks' = [blocks EXCEPT ![t] = bs]
  BY <1>1, <1>2 DEF Leave
<1>5. /\ blocks'[t] = bs /\ \A u \in Threads \ {t} : blocks'[u] = blocks[u]
      /\ blocks' \in [Threads -> Seq(Blocks)]
  BY <1>3, <1>4 DEF Typed
<1>6. Len(s) = Len(bs) + 1 /\ s[Len(bs) + 1] = b
  BY <1>2, <1>3 DEF Last
<1>7. \A k \in 1 .. Len(bs) : k \in 1 .. Len(s) /\ bs[k] = s[k]
  BY <1>3
<1> QED
  BY <1>1, <1>2, <1>3, <1>5, <1>6, <1>7

\* Leaving keeps what is known of the other blocks.
LEMMA LeavingKeeps ==
  ASSUME ContextInv, NEW t \in Threads, blocks[t] # <<>>, Leave(t),
         UNCHANGED <<phase, source, decoratedId, midScope>>
  PROVE  BlocksAre' /\ Unrecorded' /\ blocks' \in [Threads -> Seq(Blocks)]
<1>1. PICK bs \in Seq(Blocks), b \in Blocks :
        /\ blocks[t] = Append(bs, b) /\ b = Last(blocks[t]) /\ blocks'[t] = bs
        /\ Len(blocks[t]) = Len(bs) + 1
        /\ \A k \in 1 .. Len(bs) : k \in 1 .. Len(blocks[t]) /\ bs[k] = blocks[t][k]
        /\ \A u \in Threads \ {t} : blocks'[u] = blocks[u]
        /\ blocks' \in [Threads -> Seq(Blocks)]
  BY BlockLeft DEF ContextInv
<1>2. \A u \in Threads : \A k \in 1 .. Len(blocks'[u]) :
        k \in 1 .. Len(blocks[u]) /\ blocks'[u][k] = blocks[u][k]
  BY <1>1
<1>3. BlocksAre'
  BY <1>2 DEF ContextInv, BlocksAre
<1>4. ProfilingOn' = ProfilingOn
  BY ActiveStays
<1>5. Unrecorded'
  BY <1>2, <1>4 DEF ContextInv, Unrecorded, EnteredAs
<1> QED
  BY <1>1, <1>3, <1>5

\* When the sources stay as they are, and the names of the scopes do or no source is
\* active, what is known of the stacks stays.
LEMMA StacksStay ==
  ASSUME ContextInv,
         UNCHANGED <<phase, source, main, initialized, stack, inherited, freshSource, midScope>>,
         midScope = 0 => \A u \in Threads :
           ScopeNames(blocks'[u]) = ScopeNames(blocks[u]) \/ ~ProfilingOn
  PROVE  SourcesAre' /\ UnusedAre' /\ StacksAre' /\ FreshAre'
<1>1. Sources' = Sources
  BY ActiveStays
<1>2. SourcesAre' /\ UnusedAre'
  BY DEF ContextInv, SourcesAre, UnusedAre, Lives
<1>3. ASSUME midScope = 0, NEW u \in Threads, NEW a \in Addresses
      PROVE  /\ Since(u, a)' = Since(u, a)
             /\ a \in Sources => ScopeNames(blocks'[u]) = ScopeNames(blocks[u])
  BY <1>1, <1>3, RecordingIsOn DEF Since
<1>4. StacksAre'
  <2>1. ASSUME midScope = 0, NEW u \in Threads, NEW a \in Addresses
        PROVE  /\ a \in Sources' /\ a \notin initialized'[u] => ScopeNames(blocks'[u]) = <<>>
               /\ \E base \in Seq(Names) : stack'[u][a] = base \o Since(u, a)'
    <3>1. /\ a \in Sources /\ a \notin initialized[u] => ScopeNames(blocks[u]) = <<>>
          /\ \E base \in Seq(Names) : stack[u][a] = base \o Since(u, a)
      BY <2>1 DEF ContextInv, StacksAre
    <3> QED
      BY <1>1, <1>3, <2>1, <3>1
  <2> QED
    BY <2>1 DEF StacksAre
<1>5. FreshAre'
  <2>1. ASSUME NEW i \in freshSource
        PROVE  /\ phase'[i] # "unborn"
               /\ midScope' = 0 /\ phase'[i] \in {"paused", "recording"} =>
                    \A a \in Addresses : source'[i] = a => FreshOn(a)'
    <3>1. phase'[i] # "unborn"
      BY <2>1 DEF ContextInv, FreshAre
    <3>2. ASSUME midScope = 0, phase[i] \in {"paused", "recording"},
                 NEW a \in Addresses, source[i] = a
          PROVE  FreshOn(a)'
      <4>1. FreshOn(a)
        BY <2>1, <3>2 DEF ContextInv, FreshAre
      <4>2. \A u \in Threads : Since(u, a)' = Since(u, a)
        BY <1>3, <3>2
      <4> QED
        BY <4>1, <4>2 DEF FreshOn
    <3> QED
      BY <3>1, <3>2
  <2> QED
    BY <2>1 DEF FreshAre
<1> QED
  BY <1>2, <1>4, <1>5

----------------------------------------------------------------------------
(* What leaves the stacks alone.                                            *)

\* Metrics that were measured for the scope they are added to.
LEMMA MetricsAdded ==
  ASSUME ContextInv, NEW s \in Scopes, NEW of \in Scopes \cup {Absent}, NEW shared \in BOOLEAN,
         NativeAddMetrics(s, of, shared), midScope' = midScope,
         of = s \/ shared \/ midScope > 0
  PROVE  metrics' \in [Ids -> SUBSET Metric] /\ MetricsReachTheirScope'
<1>1. PICK r : r = [scope |-> s, of |-> of, shared |-> shared]
  OBVIOUS
<1>2. r \in Metric /\ (r.of = r.scope \/ r.shared \/ midScope > 0)
  BY <1>1 DEF Metric
<1>3. metrics' = [i \in Ids |-> IF i \in Recording /\ scopeMap[i][s] # Absent
                                  THEN metrics[i] \cup {r} ELSE metrics[i]]
  BY <1>1 DEF NativeAddMetrics
<1>4. metrics \in [Ids -> SUBSET Metric]
  BY DEF ContextInv, Typed
<1>5. \A i \in Ids : metrics'[i] \subseteq metrics[i] \cup {r}
  BY <1>3
<1>6. metrics' \in [Ids -> SUBSET Metric]
  BY <1>2, <1>3, <1>4
<1>7. \A i \in Ids : \A m \in metrics[i] : m.of = m.scope \/ m.shared \/ midScope > 0
  BY DEF ContextInv, MetricsReachTheirScope
<1>8. \A i \in Ids : \A m \in metrics'[i] : m.of = m.scope \/ m.shared \/ midScope' > 0
  BY <1>2, <1>5, <1>7
<1> QED
  BY <1>6, <1>8 DEF MetricsReachTheirScope

\* A block that pushes nothing: a state, or a scope that profiling does not see.
LEMMA QuietBlockKeeps ==
  ASSUME ContextInv, NEW t \in Threads, NEW b \in Blocks, ~b.due, b.scope = Absent,
         b.form # "state" => b.name \in Names /\ ~ProfilingOn,
         blocks' = [blocks EXCEPT ![t] = Append(@, b)],
         state' \in [Threads -> States \cup {Absent}],
         UNCHANGED <<phase, source, main, initialized, stack, scopeMap, metrics, nextScope,
                     pushed, decoratedId, inherited, freshSource, midScope, raised>>
  PROVE  ContextInv'
<1>1. /\ blocks' \in [Threads -> Seq(Blocks)] /\ blocks'[t] = Append(blocks[t], b)
      /\ \A u \in Threads \ {t} : blocks'[u] = blocks[u]
      /\ blocks[t] \in Seq(Blocks)
      /\ \A k \in 1 .. Len(blocks'[t]) :
           (k \in 1 .. Len(blocks[t]) /\ blocks'[t][k] = blocks[t][k]) \/ blocks'[t][k] = b
  BY BlockEntered DEF ContextInv, Typed
<1>2. ProfilingOn' = ProfilingOn
  BY ActiveStays
<1>3. Typed'
  BY <1>1 DEF ContextInv, Typed
<1>4. BlocksAre'
  <2>1. BlockOK(b, decoratedId)
    BY DEF BlockOK
  <2>2. \A u \in Threads : \A k \in 1 .. Len(blocks'[u]) : BlockOK(blocks'[u][k], decoratedId)
    BY <1>1, <2>1 DEF ContextInv, BlocksAre
  <2> QED
    BY <2>2 DEF BlocksAre
<1>5. Unrecorded'
  <2>1. ASSUME midScope = 0
        PROVE  \A u \in Threads : EnteredAs(blocks'[u], ProfilingOn)
    BY <1>1, <2>1 DEF ContextInv, Unrecorded, EnteredAs
  <2> QED
    BY <1>2, <2>1 DEF Unrecorded
<1>6. PushedAre'
  <2>1. pushed[t] \in Seq(Entries) /\ ~IsCall(b)
    BY DEF ContextInv, Typed, IsCall
  <2>2. Matches(pushed[t], blocks[t]) => Matches(pushed[t], blocks'[t])
    BY <1>1, <2>1, MatchesOther
  <2> QED
    BY <1>1, <2>2 DEF ContextInv, PushedAre
<1>7. \A u \in Threads : ScopeNames(blocks'[u]) = ScopeNames(blocks[u]) \/ ~ProfilingOn
  BY <1>1, ScopeNamesAppend
<1>8. SourcesAre' /\ UnusedAre' /\ StacksAre' /\ FreshAre'
  BY <1>7, StacksStay
<1>9. NotRaised' /\ MetricsReachTheirScope'
  BY DEF ContextInv, NotRaised, MetricsReachTheirScope
<1> QED
  BY <1>3, <1>4, <1>5, <1>6, <1>8, <1>9 DEF ContextInv

\* A scope that profiling does not see.
LEMMA EnterUnrecordedKeeps ==
  ASSUME ContextInv, NEW t \in Threads, NEW form \in Forms, NEW n \in Names,
         EnterUnrecorded(t, form, n)
  PROVE  ContextInv'
<1>1. PICK b : b = Block(form, Absent, n, FALSE)
  OBVIOUS
<1>2. b \in Blocks /\ b.name = n /\ b.scope = Absent /\ ~b.due
  BY <1>1, DispatchAssumptions DEF Block, Blocks
<1>3. /\ ~ProfilingOn /\ blocks' = [blocks EXCEPT ![t] = Append(@, b)]
      /\ UNCHANGED <<phase, source, main, initialized, stack, state, scopeMap, metrics,
                     nextScope, pushed, decoratedId, inherited, freshSource, midScope, raised>>
  BY <1>1 DEF EnterUnrecorded, lifecycleVars, contextVars, dataVars, history
<1>4. state' \in [Threads -> States \cup {Absent}]
  BY <1>3 DEF ContextInv, Typed
<1> QED
  BY <1>2, <1>3, <1>4, QuietBlockKeeps

\* A state.
LEMMA EnterStateKeeps ==
  ASSUME ContextInv, NEW t \in Threads, NEW v \in States, EnterState(t, v)
  PROVE  ContextInv'
<1>1. PICK b : b = Block("state", Absent, v, FALSE)
  OBVIOUS
<1>2. b \in Blocks /\ b.form = "state" /\ b.scope = Absent /\ ~b.due
  BY <1>1 DEF Block, Blocks
<1>3. /\ blocks' = [blocks EXCEPT ![t] = Append(@, b)]
      /\ UNCHANGED <<phase, source, main, initialized, stack, scopeMap, metrics,
                     nextScope, pushed, decoratedId, inherited, freshSource, midScope, raised>>
      /\ state' = state \/ state' = [state EXCEPT ![t] = v]
  BY <1>1 DEF EnterState, SetState, stateOnly, lifecycleVars, dataVars, history
<1>4. state' \in [Threads -> States \cup {Absent}]
  BY <1>3 DEF ContextInv, Typed
<1> QED
  BY <1>2, <1>3, <1>4, QuietBlockKeeps

\* The metrics a scope was entered with.
LEMMA AddMetricsKeeps ==
  ASSUME ContextInv, NEW t \in Threads, AddMetrics(t)
  PROVE  ContextInv'
<1>1. PICK s \in Seq(Blocks) : s = blocks[t]
  BY DEF ContextInv, Typed
<1>2. s # <<>> /\ Last(s).due
  BY <1>1 DEF AddMetrics, Idle
<1>3. PICK bs, b : bs = Front(s) /\ b = Last(s)
  OBVIOUS
<1>4. /\ Len(s) \in Nat \ {0} /\ Len(bs) = Len(s) - 1 /\ bs \in Seq(Blocks) /\ b \in Blocks
      /\ \A k \in 1 .. Len(s) - 1 : bs[k] = s[k]
      /\ s = Append(bs, b) /\ s[Len(s)] = b
  BY <1>2, <1>3, FrontLast DEF Last
<1>5. PICK c : c = [b EXCEPT !.due = FALSE]
  OBVIOUS
<1>6. /\ c \in Blocks /\ c.form = b.form /\ c.scope = b.scope /\ c.name = b.name
      /\ c.shared = b.shared /\ ~c.due
  BY <1>4, <1>5 DEF Blocks
<1>7. BlockOK(b, decoratedId)
  <2>1. Len(s) \in 1 .. Len(blocks[t]) /\ blocks[t][Len(s)] = b
    BY <1>1, <1>4
  <2> QED
    BY <2>1 DEF ContextInv, BlocksAre
<1>8. b.scope \in Scopes
  BY <1>2, <1>3, <1>4, <1>7 DEF BlockOK, Blocks
<1>9. /\ NativeAddMetrics(b.scope, b.scope, FALSE)
      /\ blocks' = [blocks EXCEPT ![t] = Append(bs, c)]
      /\ UNCHANGED <<phase, source, main, initialized, stack, state, scopeMap,
                     nextScope, pushed, decoratedId, inherited, freshSource, midScope, raised>>
  BY <1>1, <1>3, <1>5 DEF AddMetrics, lifecycleVars, contextVars, history
<1>10. PICK cs : cs = Append(bs, c)
  OBVIOUS
<1>11. /\ cs \in Seq(Blocks) /\ Len(cs) = Len(s)
       /\ \A k \in 1 .. Len(s) :
            /\ cs[k].form = s[k].form /\ cs[k].scope = s[k].scope /\ cs[k].name = s[k].name
            /\ cs[k] = s[k] \/ cs[k] = c
  <2>1. cs \in Seq(Blocks) /\ Len(cs) = Len(s) /\ cs[Len(s)] = c
    BY <1>4, <1>6, <1>10
  <2>2. \A k \in 1 .. Len(s) - 1 : cs[k] = s[k]
    BY <1>4, <1>10
  <2>3. \A k \in 1 .. Len(s) : k \in 1 .. Len(s) - 1 \/ k = Len(s)
    BY <1>4
  <2> QED
    BY <1>4, <1>6, <2>1, <2>2, <2>3
<1>12. /\ blocks' \in [Threads -> Seq(Blocks)] /\ blocks'[t] = cs
       /\ \A u \in Threads \ {t} : blocks'[u] = blocks[u]
  BY <1>9, <1>10, <1>11 DEF ContextInv, Typed
<1>13. metrics' \in [Ids -> SUBSET Metric] /\ MetricsReachTheirScope'
  BY <1>8, <1>9, MetricsAdded
<1>14. Typed'
  BY <1>9, <1>12, <1>13 DEF ContextInv, Typed
<1>15. BlocksAre'
  <2>1. BlockOK(c, decoratedId)
    BY <1>6, <1>7 DEF BlockOK
  <2>2. \A u \in Threads : \A k \in 1 .. Len(blocks'[u]) : BlockOK(blocks'[u][k], decoratedId)
    BY <1>1, <1>11, <1>12, <2>1 DEF ContextInv, BlocksAre
  <2> QED
    BY <1>9, <2>2 DEF BlocksAre
<1>16. Unrecorded'
  <2>1. ASSUME midScope = 0
        PROVE  \A u \in Threads : EnteredAs(blocks'[u], ProfilingOn)
    BY <1>1, <1>11, <1>12, <2>1 DEF ContextInv, Unrecorded, EnteredAs
  <2>2. ProfilingOn' = ProfilingOn
    BY <1>9, ActiveStays
  <2> QED
    BY <1>9, <2>1, <2>2 DEF Unrecorded
<1>17. PushedAre'
  <2>1. pushed[t] \in Seq(Entries)
    BY DEF ContextInv, Typed
  <2>2. Matches(pushed[t], blocks[t]) => Matches(pushed[t], blocks'[t])
    BY <1>1, <1>11, <1>12, <2>1, MatchesAlike
  <2> QED
    BY <1>9, <1>12, <2>2 DEF ContextInv, PushedAre
<1>18. \A u \in Threads : ScopeNames(blocks'[u]) = ScopeNames(blocks[u])
  <2>1. Alike(cs, s, Len(cs))
    BY <1>11 DEF Alike
  <2>2. ScopeNames(cs) = ScopeNames(s)
    BY <1>11, <2>1, ScopeNamesSame
  <2> QED
    BY <1>1, <1>12, <2>2
<1>19. SourcesAre' /\ UnusedAre' /\ StacksAre' /\ FreshAre'
  BY <1>9, <1>18, StacksStay
<1>20. NotRaised'
  BY <1>9 DEF ContextInv, NotRaised
<1> QED
  BY <1>13, <1>14, <1>15, <1>16, <1>17, <1>19, <1>20 DEF ContextInv

\* Leaving a block that popped nothing: a state, or a scope while profiling is off.
LEMMA QuietLeaveKeeps ==
  ASSUME ContextInv, NEW t \in Threads, blocks[t] # <<>>, Leave(t),
         midScope = 0 => /\ ~IsCall(Last(blocks[t]))
                         /\ Last(blocks[t]).form = "state" \/ ~ProfilingOn,
         state' \in [Threads -> States \cup {Absent}],
         UNCHANGED <<phase, source, main, initialized, stack, scopeMap, metrics, nextScope,
                     pushed, decoratedId, inherited, freshSource, midScope, raised>>
  PROVE  ContextInv'
<1>1. PICK bs \in Seq(Blocks), b \in Blocks :
        /\ blocks[t] = Append(bs, b) /\ b = Last(blocks[t]) /\ blocks'[t] = bs
        /\ \A u \in Threads \ {t} : blocks'[u] = blocks[u]
  BY BlockLeft DEF ContextInv
<1>2. BlocksAre' /\ Unrecorded' /\ blocks' \in [Threads -> Seq(Blocks)]
  BY LeavingKeeps
<1>3. Typed'
  BY <1>2 DEF ContextInv, Typed
<1>4. PushedAre'
  <2>1. pushed[t] \in Seq(Entries)
    BY DEF ContextInv, Typed
  <2>2. midScope = 0 /\ Matches(pushed[t], blocks[t]) => Matches(pushed[t], blocks'[t])
    BY <1>1, <2>1, MatchesOther
  <2> QED
    BY <1>1, <2>2 DEF ContextInv, PushedAre
<1>5. midScope = 0 => \A u \in Threads :
        ScopeNames(blocks'[u]) = ScopeNames(blocks[u]) \/ ~ProfilingOn
  <2>1. b.form = "state" => ScopeNames(blocks[t]) = ScopeNames(bs)
    BY <1>1, ScopeNamesAppend
  <2>2. midScope = 0 => b.form = "state" \/ ~ProfilingOn
    BY <1>1
  <2>3. midScope = 0 => ScopeNames(blocks'[t]) = ScopeNames(blocks[t]) \/ ~ProfilingOn
    BY <1>1, <2>1, <2>2
  <2> QED
    BY <1>1, <2>3
<1>6. SourcesAre' /\ UnusedAre' /\ StacksAre' /\ FreshAre'
  BY <1>5, StacksStay
<1>7. NotRaised' /\ MetricsReachTheirScope'
  BY DEF ContextInv, NotRaised, MetricsReachTheirScope
<1> QED
  BY <1>2, <1>3, <1>4, <1>6, <1>7 DEF ContextInv

\* The innermost block is one of those that are known.
LEMMA InnermostBlock ==
  ASSUME ContextInv, NEW t \in Threads, blocks[t] # <<>>
  PROVE  /\ Last(blocks[t]) \in Blocks /\ BlockOK(Last(blocks[t]), decoratedId)
         /\ midScope = 0 /\ Last(blocks[t]).form # "state" =>
              (Last(blocks[t]).scope # Absent <=> ProfilingOn)
<1>1. blocks[t] \in Seq(Blocks)
  BY DEF ContextInv, Typed
<1>2. Len(blocks[t]) \in 1 .. Len(blocks[t]) /\ Last(blocks[t]) = blocks[t][Len(blocks[t])]
  BY <1>1, FrontLast DEF Last
<1>3. Last(blocks[t]) \in Blocks
  BY <1>1, FrontLast
<1>4. BlockOK(Last(blocks[t]), decoratedId)
  BY <1>2 DEF ContextInv, BlocksAre
<1>5. midScope = 0 => EnteredAs(blocks[t], ProfilingOn)
  BY DEF ContextInv, Unrecorded
<1> QED
  BY <1>2, <1>3, <1>4, <1>5 DEF EnteredAs

\* The exit of a scope that profiling does not see.
LEMMA ExitUnrecordedKeeps ==
  ASSUME ContextInv, NEW t \in Threads, ExitUnrecorded(t)
  PROVE  ContextInv'
<1>1. PICK b : b = Last(blocks[t])
  OBVIOUS
<1>2. /\ blocks[t] # <<>> /\ Leave(t)
      /\ \/ b.form # "state" /\ ~ProfilingOn
         \/ b.form = "with" /\ b.scope = Absent
         \/ b.form = "decorated" /\ decoratedId[b.name] = Absent
      /\ UNCHANGED <<phase, source, main, initialized, stack, state, scopeMap, metrics,
                     nextScope, pushed, decoratedId, inherited, freshSource, midScope, raised>>
  BY <1>1 DEF ExitUnrecorded, lifecycleVars, contextVars, dataVars, history
<1>3. /\ BlockOK(b, decoratedId)
      /\ midScope = 0 /\ b.form # "state" => (b.scope # Absent <=> ProfilingOn)
  BY <1>1, <1>2, InnermostBlock
<1>4. midScope = 0 => ~IsCall(b) /\ ~ProfilingOn
  BY <1>2, <1>3 DEF BlockOK, IsCall
<1>5. state' \in [Threads -> States \cup {Absent}]
  BY <1>2 DEF ContextInv, Typed
<1> QED
  BY <1>1, <1>2, <1>4, <1>5, QuietLeaveKeeps

\* The exit of a state.
LEMMA ExitStateKeeps ==
  ASSUME ContextInv, NEW t \in Threads, ExitState(t)
  PROVE  ContextInv'
<1>1. /\ blocks[t] # <<>> /\ Leave(t) /\ Last(blocks[t]).form = "state"
      /\ UNCHANGED <<phase, source, main, initialized, stack, scopeMap, metrics,
                     nextScope, pushed, decoratedId, inherited, freshSource, midScope, raised>>
      /\ state' = state \/ state' = [state EXCEPT ![t] = Absent]
  BY DEF ExitState, SetState, StateAfter, stateOnly, lifecycleVars, dataVars, history
<1>2. state' \in [Threads -> States \cup {Absent}]
  BY <1>1 DEF ContextInv, Typed
<1>3. ~IsCall(Last(blocks[t]))
  BY <1>1 DEF IsCall
<1> QED
  BY <1>1, <1>2, <1>3, QuietLeaveKeeps

----------------------------------------------------------------------------
(* A thread gets to a context source.                                       *)

\* What thread t has inherited of the stack of a, or does when it gets there now.
Inherits(t, a) ==
  IF a \in initialized[t] THEN inherited[t][a]
  ELSE IF a \in Sources THEN ScopeNames(blocks[main[a]]) ELSE <<>>

\* That is what the history records.
LEMMA InheritIs ==
  ASSUME Typed, SourcesAre, BlocksAre, NEW t \in Threads, NEW A \in SUBSET Addresses,
         Inherit(t, A)
  PROVE  /\ inherited' \in Stacks
         /\ \A u \in Threads \ {t} : inherited'[u] = inherited[u]
         /\ \A a \in A : inherited'[t][a] = Inherits(t, a)
         /\ \A a \in Addresses \ A : inherited'[t][a] = inherited[t][a]
<1> DEFINE f == [a \in Addresses |->
                   IF a \notin A \ initialized[t] THEN inherited[t][a]
                   ELSE IF a \in Sources THEN ScopeNames(blocks[main[a]]) ELSE <<>>]
<1>1. inherited' = [inherited EXCEPT ![t] = f]
  BY DEF Inherit
<1>2. inherited \in Stacks
  BY DEF Typed
<1>3. \A a \in Addresses : f[a] \in Seq(Names)
  <2> TAKE a \in Addresses
  <2>1. inherited[t][a] \in Seq(Names)
    BY <1>2 DEF Stacks
  <2>2. a \in Sources => ScopeNames(blocks[main[a]]) \in Seq(Names)
    BY SourcesLive, NamesTyped
  <2> QED
    BY <2>1, <2>2
<1>4. f \in [Addresses -> Seq(Names)]
  BY <1>3
<1>5. \A a \in A : f[a] = Inherits(t, a)
  BY DEF Inherits
<1>6. \A a \in Addresses \ A : f[a] = inherited[t][a]
  OBVIOUS
<1> HIDE DEF f
<1>7. inherited' \in Stacks /\ inherited'[t] = f
      /\ \A u \in Threads \ {t} : inherited'[u] = inherited[u]
  BY <1>1, <1>2, <1>4 DEF Stacks
<1> QED
  BY <1>5, <1>6, <1>7

\* A stack that a thread gets to is its own, or that of the main thread.
LEMMA StackTyped ==
  ASSUME Typed, NEW t \in Threads, NEW a \in Addresses, main[a] \in Threads
  PROVE  StackOf(t, a) \in Seq(Names)
  BY DEF Typed, Stacks, StackOf

\* The scopes of a thread are on top of it.
LEMMA StackOnTop ==
  ASSUME ContextInv, midScope = 0, NEW t \in Threads, NEW a \in Addresses, main[a] \in Threads
  PROVE  \E base \in Seq(Names) : StackOf(t, a) = base \o Since(t, a)
<1>1. CASE a \in initialized[t]
  BY <1>1 DEF ContextInv, StacksAre, StackOf
<1>2. CASE a \notin initialized[t]
  <2>1. Since(t, a) = <<>>
    BY <1>2 DEF ContextInv, StacksAre, Since
  <2>2. StackOf(t, a) \in Seq(Names)
    BY StackTyped DEF ContextInv
  <2>3. StackOf(t, a) = StackOf(t, a) \o <<>>
    BY <2>2
  <2> QED
    BY <2>1, <2>2, <2>3
<1> QED
  BY <1>1, <1>2

\* Of a source that reuses no address, below them is what the thread inherits.
LEMMA StackFresh ==
  ASSUME ContextInv, midScope = 0, NEW t \in Threads, NEW a \in Addresses, FreshOn(a),
         main[a] \in Threads, a \in initialized[main[a]]
  PROVE  /\ StackOf(t, a) = Inherits(t, a) \o Since(t, a)
         /\ Inherits(main[a], a) = <<>>
<1>1. Inherits(main[a], a) = <<>>
  BY DEF Inherits, FreshOn
<1>2. CASE a \in initialized[t]
  BY <1>2 DEF FreshOn, StackOf, Inherits
<1>3. CASE a \notin initialized[t]
  <2>1. Since(t, a) = <<>>
    BY <1>3 DEF ContextInv, StacksAre, Since
  <2>2. StackOf(t, a) = <<>> \o Since(main[a], a)
    BY <1>3 DEF FreshOn, StackOf
  <2>3. Since(main[a], a) = Inherits(t, a)
    BY <1>3 DEF Since, Inherits
  <2>4. ScopeNames(blocks[main[a]]) \in Seq(Names) /\ <<>> \in Seq(Names)
    BY NamesTyped DEF ContextInv
  <2>5. Since(main[a], a) \in Seq(Names)
    BY <2>4 DEF Since
  <2>6. <<>> \o Since(main[a], a) = Since(main[a], a) \o <<>>
    BY <2>5
  <2>7. Inherits(t, a) \o Since(t, a) = Since(main[a], a) \o <<>>
    BY <2>1, <2>3
  <2>8. StackOf(t, a) = Inherits(t, a) \o Since(t, a)
    BY <2>2, <2>6, <2>7
  <2> QED
    BY <1>1, <2>8
<1> QED
  BY <1>1, <1>2, <1>3

\* depth() keeps the invariant: the thread takes over the stack of the main thread.
LEMMA DepthKeeps ==
  ASSUME ContextInv, NEW t \in Threads, NEW j \in Ids, Depth(t, j)
  PROVE  ContextInv'
<1>1. Typed /\ SourcesAre /\ BlocksAre
  BY DEF ContextInv
<1>2. PICK a : a = source[j]
  OBVIOUS
<1>3. Lives(j)
  BY DEF Depth, Lifecycle!Open, Lives
<1>4. a \in Addresses /\ main[a] \in Threads /\ a \in initialized[main[a]] /\ a \notin initialized[t]
  BY <1>1, <1>2, <1>3 DEF SourcesAre, Depth
<1>5. /\ initialized' = [initialized EXCEPT ![t] = @ \cup {a}]
      /\ stack' = [stack EXCEPT ![t] = [stack[t] EXCEPT ![a] = StackOf(t, a)]]
      /\ Inherit(t, {a})
      /\ UNCHANGED <<phase, source, main, state, scopeMap, metrics, nextScope, blocks, pushed,
                     decoratedId, freshSource, midScope, raised>>
  BY <1>2 DEF Depth, lifecycleVars, dataVars, pythonVars
<1>6. StackOf(t, a) \in Seq(Names)
  BY <1>1, <1>4, StackTyped
<1>7. /\ \A u \in Threads \ {t} : initialized'[u] = initialized[u] /\ stack'[u] = stack[u]
      /\ initialized'[t] = initialized[t] \cup {a}
      /\ stack'[t][a] = StackOf(t, a)
      /\ \A b \in Addresses \ {a} : stack'[t][b] = stack[t][b]
      /\ stack' \in Stacks /\ initialized' \in [Threads -> SUBSET Addresses]
  BY <1>1, <1>4, <1>5, <1>6 DEF Typed, Stacks
<1>8. /\ inherited' \in Stacks
      /\ \A u \in Threads \ {t} : inherited'[u] = inherited[u]
      /\ inherited'[t][a] = Inherits(t, a)
      /\ \A b \in Addresses \ {a} : inherited'[t][b] = inherited[t][b]
  BY <1>1, <1>4, <1>5, InheritIs
<1>9. Sources' = Sources /\ ProfilingOn' = ProfilingOn
  BY <1>5, ActiveStays
<1>10. \A u \in Threads, b \in Addresses : Since(u, b)' = Since(u, b)
  BY <1>5, <1>9 DEF Since
<1>11. Typed'
  BY <1>1, <1>5, <1>7, <1>8 DEF Typed
<1>12. SourcesAre'
  BY <1>1, <1>5, <1>7 DEF SourcesAre, Lives
<1>13. UnusedAre'
  <2>1. main[a] # Absent
    BY <1>4, DispatchAssumptions
  <2>2. ASSUME NEW b \in Addresses, main[b] = Absent, NEW u \in Threads
        PROVE  b \notin initialized'[u] /\ stack'[u][b] = <<>> /\ inherited'[u][b] = <<>>
    <3>1. b # a
      BY <2>1, <2>2
    <3> QED
      BY <1>7, <1>8, <2>2, <3>1 DEF ContextInv, UnusedAre
  <2> QED
    BY <1>5, <2>2 DEF UnusedAre
<1>14. BlocksAre' /\ Unrecorded' /\ PushedAre' /\ NotRaised' /\ MetricsReachTheirScope'
  BY <1>5, <1>9 DEF ContextInv, BlocksAre, Unrecorded, PushedAre, NotRaised,
                    MetricsReachTheirScope
<1>15. StacksAre'
  <2>1. ASSUME midScope = 0, NEW u \in Threads, NEW b \in Addresses
        PROVE  /\ b \in Sources' /\ b \notin initialized'[u] => ScopeNames(blocks'[u]) = <<>>
               /\ \E base \in Seq(Names) : stack'[u][b] = base \o Since(u, b)'
    <3>1. /\ b \in Sources /\ b \notin initialized[u] => ScopeNames(blocks[u]) = <<>>
          /\ \E base \in Seq(Names) : stack[u][b] = base \o Since(u, b)
      BY <2>1 DEF ContextInv, StacksAre
    <3>2. Since(u, b)' = Since(u, b)
      BY <1>10
    <3>3. CASE u = t /\ b = a
      <4>1. \E base \in Seq(Names) : StackOf(t, a) = base \o Since(t, a)
        BY <1>4, <2>1, StackOnTop
      <4> QED
        BY <1>7, <3>2, <3>3, <4>1
    <3>4. CASE ~(u = t /\ b = a)
      <4>1. stack'[u][b] = stack[u][b] /\ (b \notin initialized'[u] => b \notin initialized[u])
        BY <1>7, <3>4
      <4> QED
        BY <1>5, <1>9, <3>1, <3>2, <4>1
    <3> QED
      BY <3>3, <3>4
  <2> QED
    BY <1>5, <2>1 DEF StacksAre
<1>16. FreshAre'
  <2>1. ASSUME NEW i \in freshSource
        PROVE  /\ phase'[i] # "unborn"
               /\ midScope' = 0 /\ phase'[i] \in {"paused", "recording"} =>
                    \A b \in Addresses : source'[i] = b => FreshOn(b)'
    <3>1. phase'[i] # "unborn"
      BY <1>5, <2>1 DEF ContextInv, FreshAre
    <3>2. ASSUME midScope = 0, phase[i] \in {"paused", "recording"},
                 NEW b \in Addresses, source[i] = b
          PROVE  FreshOn(b)'
      <4>1. FreshOn(b)
        BY <2>1, <3>2 DEF ContextInv, FreshAre
      <4>2. \A u \in Threads : Since(u, b)' = Since(u, b)
        BY <1>10
      <4>3. CASE b # a
        <5>1. \A u \in Threads : /\ inherited'[u][b] = inherited[u][b] /\ stack'[u][b] = stack[u][b]
                                 /\ b \in initialized'[u] => b \in initialized[u]
          BY <1>7, <1>8, <4>3
        <5>2. main'[b] = main[b] /\ main[b] \in Threads
          <6>1. i \in Ids
            BY <1>1, <2>1 DEF Typed
          <6> QED
            BY <1>1, <1>5, <3>2, <6>1 DEF SourcesAre, Lives
        <5> QED
          BY <4>1, <4>2, <5>1, <5>2 DEF FreshOn
      <4>4. CASE b = a
        <5>1. /\ StackOf(t, a) = Inherits(t, a) \o Since(t, a)
              /\ Inherits(main[a], a) = <<>>
          BY <1>4, <3>2, <4>1, <4>4, StackFresh
        <5>2. main'[a] = main[a] /\ main[a] # t
          BY <1>4, <1>5
        <5>3. inherited'[main'[a]][a] = <<>>
          BY <1>4, <1>8, <4>1, <4>4, <5>2 DEF FreshOn
        <5>4. stack'[t][a] = inherited'[t][a] \o Since(t, a)'
          BY <1>7, <1>8, <4>2, <4>4, <5>1
        <5>5. ASSUME NEW u \in Threads \ {t}, a \in initialized'[u]
              PROVE  stack'[u][a] = inherited'[u][a] \o Since(u, a)'
          <6>1. a \in initialized[u] /\ stack'[u] = stack[u] /\ inherited'[u] = inherited[u]
            BY <1>7, <1>8, <5>5
          <6> QED
            BY <4>1, <4>2, <4>4, <6>1 DEF FreshOn
        <5> QED
          BY <4>4, <5>3, <5>4, <5>5 DEF FreshOn
      <4> QED
        BY <4>3, <4>4
    <3> QED
      BY <1>5, <3>1, <3>2
  <2> QED
    BY <1>5, <2>1 DEF FreshAre
<1> QED
  BY <1>11, <1>12, <1>13, <1>14, <1>15, <1>16 DEF ContextInv

----------------------------------------------------------------------------
(* A scope is entered.                                                      *)

\* Another call of a decorated function changes of the others' blocks only that the
\* scope object is shared.
LEMMA EnclosingIs ==
  ASSUME Typed, NEW form, NEW n
  PROVE  /\ Enclosing(form, n) \in [Threads -> Seq(Blocks)]
         /\ \A u \in Threads :
              /\ Len(Enclosing(form, n)[u]) = Len(blocks[u])
              /\ \A k \in 1 .. Len(blocks[u]) :
                   LET b == blocks[u][k]
                       c == Enclosing(form, n)[u][k]
                   IN  /\ c.form = b.form /\ c.scope = b.scope /\ c.name = b.name
                       /\ c.due = b.due
                       /\ b.shared => c.shared
                       /\ form = "decorated" /\ b.form = "decorated" /\ b.name = n => c.shared
<1>1. CASE form # "decorated"
  BY <1>1 DEF Enclosing, Typed
<1>2. CASE form = "decorated"
  <2>1. Enclosing(form, n) = [u \in Threads |-> Share(blocks[u], n)]
    BY <1>2 DEF Enclosing
  <2>2. ASSUME NEW u \in Threads
        PROVE  /\ Share(blocks[u], n) \in Seq(Blocks)
               /\ Len(Share(blocks[u], n)) = Len(blocks[u])
               /\ \A k \in 1 .. Len(blocks[u]) :
                    LET b == blocks[u][k]
                        c == Share(blocks[u], n)[k]
                    IN  /\ c.form = b.form /\ c.scope = b.scope /\ c.name = b.name
                        /\ c.due = b.due
                        /\ b.shared => c.shared
                        /\ b.form = "decorated" /\ b.name = n => c.shared
    <3>1. PICK bs \in Seq(Blocks) : bs = blocks[u]
      BY DEF Typed
    <3>2. PICK cs : cs = Share(bs, n)
      OBVIOUS
    <3>3. cs = [k \in 1 .. Len(bs) |-> IF bs[k].form = "decorated" /\ bs[k].name = n
                                         THEN [bs[k] EXCEPT !.shared = TRUE] ELSE bs[k]]
      BY <3>1, <3>2 DEF Share
    <3>4. \A k \in 1 .. Len(bs) :
            /\ cs[k] \in Blocks
            /\ cs[k].form = bs[k].form /\ cs[k].scope = bs[k].scope /\ cs[k].name = bs[k].name
            /\ cs[k].due = bs[k].due
            /\ bs[k].shared => cs[k].shared
            /\ bs[k].form = "decorated" /\ bs[k].name = n => cs[k].shared
      <4> TAKE k \in 1 .. Len(bs)
      <4>1. PICK b \in Blocks : b = bs[k]
        BY <3>1
      <4>2. CASE b.form = "decorated" /\ b.name = n
        <5>1. cs[k] = [b EXCEPT !.shared = TRUE]
          BY <3>3, <4>1, <4>2
        <5> QED
          BY <4>1, <4>2, <5>1 DEF Blocks
      <4>3. CASE ~(b.form = "decorated" /\ b.name = n)
        <5>1. cs[k] = b
          BY <3>3, <4>1, <4>3
        <5> QED
          BY <4>1, <4>3, <5>1
      <4> QED
        BY <4>2, <4>3
    <3>5. cs \in Seq(Blocks) /\ Len(cs) = Len(bs)
      <4>1. cs = [k \in 1 .. Len(bs) |-> cs[k]]
        BY <3>3
      <4>2. cs \in [1 .. Len(bs) -> Blocks]
        BY <3>4, <4>1
      <4>3. Len(bs) \in Nat
        BY <3>1
      <4> QED
        BY <4>2, <4>3
    <3> QED
      BY <3>1, <3>2, <3>4, <3>5
  <2> QED
    BY <1>2, <2>1, <2>2
<1> QED
  BY <1>1, <1>2

\* What entering a scope does to the blocks.
LEMMA EnteredBlocks ==
  ASSUME ContextInv, NEW t \in Threads, NEW form \in Forms, NEW n \in Names,
         EnterScope(t, form, n)
  PROVE  /\ nextScope \in Scopes /\ blocks' \in [Threads -> Seq(Blocks)]
         /\ Len(blocks'[t]) = Len(blocks[t]) + 1 /\ Last(blocks'[t]).name = n
         /\ ScopeNames(blocks'[t]) = Append(ScopeNames(blocks[t]), n)
         /\ \A u \in Threads \ {t} : ScopeNames(blocks'[u]) = ScopeNames(blocks[u])
         /\ BlocksAre' /\ Unrecorded' /\ PushedAre'
         /\ pushed' \in [Threads -> Seq(Entries)]
         /\ decoratedId' \in [Names -> Scopes \cup {Absent}]
<1>1. PICK b : b = Block(form, nextScope, n, form \in Metered)
  OBVIOUS
<1>2. PICK B : B = Enclosing(form, n)
  OBVIOUS
<1>3. nextScope \in Scopes /\ nextScope # Absent
  BY DispatchAssumptions DEF EnterScope, Scopes, ContextInv, Typed
<1>4. /\ b \in Blocks /\ b.form = form /\ form \in ScopeForms /\ form # "state"
      /\ b.name = n /\ b.scope = nextScope
  BY <1>1, <1>3, DispatchAssumptions DEF Block, Blocks, ScopeForms
<1>5. /\ B \in [Threads -> Seq(Blocks)]
      /\ \A u \in Threads :
           /\ B[u] \in Seq(Blocks) /\ blocks[u] \in Seq(Blocks) /\ Len(B[u]) = Len(blocks[u])
           /\ \A k \in 1 .. Len(blocks[u]) :
                /\ B[u][k].form = blocks[u][k].form /\ B[u][k].scope = blocks[u][k].scope
                /\ B[u][k].name = blocks[u][k].name /\ B[u][k].due = blocks[u][k].due
                /\ blocks[u][k].shared => B[u][k].shared
                /\ form = "decorated" /\ blocks[u][k].form = "decorated" /\ blocks[u][k].name = n
                     => B[u][k].shared
  BY <1>2, EnclosingIs DEF ContextInv, Typed
<1>6. /\ ProfilingOn /\ blocks' = [B EXCEPT ![t] = Append(@, b)]
      /\ pushed' = (IF form = "call"
                     THEN [pushed EXCEPT ![t] = Append(@, [scope |-> nextScope, name |-> n])]
                     ELSE pushed)
      /\ decoratedId' = (IF form = "decorated" THEN [decoratedId EXCEPT ![n] = nextScope]
                                               ELSE decoratedId)
      /\ UNCHANGED <<phase, source, midScope>>
  BY <1>1, <1>2 DEF EnterScope, lifecycleVars
<1>7. /\ blocks' \in [Threads -> Seq(Blocks)] /\ blocks'[t] = Append(B[t], b)
      /\ \A u \in Threads \ {t} : blocks'[u] = B[u]
      /\ Len(blocks'[t]) = Len(B[t]) + 1
      /\ \A k \in 1 .. Len(blocks'[t]) :
           (k \in 1 .. Len(B[t]) /\ blocks'[t][k] = B[t][k]) \/ blocks'[t][k] = b
  BY <1>4, <1>5, <1>6, BlockEntered
<1>8. \A u \in Threads : ScopeNames(B[u]) = ScopeNames(blocks[u])
  <2> TAKE u \in Threads
  <2>1. Alike(B[u], blocks[u], Len(B[u]))
    BY <1>5 DEF Alike
  <2> QED
    BY <1>5, <2>1, ScopeNamesSame
<1>9. ScopeNames(blocks'[t]) = Append(ScopeNames(blocks[t]), n)
  BY <1>4, <1>5, <1>7, <1>8, ScopeNamesAppend
<1>10. Last(blocks'[t]).name = n
  BY <1>4, <1>5, <1>7, FrontOfAppend
<1>11. decoratedId' \in [Names -> Scopes \cup {Absent}]
  BY <1>3, <1>6 DEF ContextInv, Typed
<1>12. ASSUME NEW u \in Threads, NEW k \in 1 .. Len(B[u])
       PROVE  BlockOK(B[u][k], decoratedId')
  <2>1. PICK d : d = blocks[u][k]
    OBVIOUS
  <2>2. PICK c : c = B[u][k]
    OBVIOUS
  <2>3. /\ c.form = d.form /\ c.scope = d.scope /\ c.name = d.name /\ c.due = d.due
        /\ d.shared => c.shared
        /\ form = "decorated" /\ d.form = "decorated" /\ d.name = n => c.shared
    BY <1>5, <2>1, <2>2
  <2>4. BlockOK(d, decoratedId)
    BY <1>5, <2>1 DEF ContextInv, BlocksAre
  <2>5. CASE form = "decorated" /\ d.form = "decorated" /\ d.name = n
    <3>1. decoratedId'[n] = nextScope
      BY <1>6, <2>5 DEF ContextInv, Typed
    <3> QED
      BY <1>3, <2>2, <2>3, <2>4, <2>5, <3>1 DEF BlockOK
  <2>6. CASE d.form = "decorated" /\ ~(form = "decorated" /\ d.name = n)
    <3>1. d.name \in Names
      BY <2>4, <2>6 DEF BlockOK
    <3>2. decoratedId'[d.name] = decoratedId[d.name]
      BY <1>6, <2>6, <3>1 DEF ContextInv, Typed
    <3> QED
      BY <2>2, <2>3, <2>4, <3>2 DEF BlockOK
  <2>7. CASE d.form # "decorated"
    BY <2>2, <2>3, <2>4, <2>7 DEF BlockOK
  <2> QED
    BY <2>5, <2>6, <2>7
<1>13. BlockOK(b, decoratedId')
  <2>1. form = "decorated" => decoratedId'[n] = nextScope
    BY <1>6 DEF ContextInv, Typed
  <2> QED
    BY <1>3, <1>4, <2>1 DEF BlockOK
<1>14. BlocksAre'
  BY <1>7, <1>12, <1>13 DEF BlocksAre
<1>15. Unrecorded'
  <2>1. ASSUME midScope = 0, NEW u \in Threads
        PROVE  EnteredAs(blocks'[u], ProfilingOn)
    <3>1. EnteredAs(blocks[u], ProfilingOn)
      BY <2>1 DEF ContextInv, Unrecorded
    <3>2. EnteredAs(B[u], ProfilingOn)
      BY <1>5, <3>1 DEF EnteredAs
    <3> QED
      BY <1>3, <1>4, <1>6, <1>7, <3>2 DEF EnteredAs
  <2>2. ProfilingOn' = ProfilingOn
    BY <1>6, ActiveStays
  <2> QED
    BY <1>6, <2>1, <2>2 DEF Unrecorded
<1>16. PICK p : p = [scope |-> nextScope, name |-> n]
  OBVIOUS
<1>17. p \in Entries /\ p.scope = b.scope /\ p.name = b.name
  BY <1>3, <1>4, <1>16 DEF Entries
<1>18. pushed \in [Threads -> Seq(Entries)]
  BY DEF ContextInv, Typed
<1>19. pushed' \in [Threads -> Seq(Entries)]
  BY <1>6, <1>16, <1>17, <1>18
<1>20. PushedAre'
  <2>1. ASSUME midScope = 0, NEW u \in Threads
        PROVE  Matches(pushed'[u], blocks'[u])
    <3>1. pushed[u] \in Seq(Entries) /\ Matches(pushed[u], blocks[u])
      BY <1>18, <2>1 DEF ContextInv, PushedAre
    <3>2. Matches(pushed[u], B[u])
      BY <1>5, <3>1, MatchesAlike
    <3>3. CASE u # t
      <4>1. pushed'[u] = pushed[u] /\ blocks'[u] = B[u]
        BY <1>6, <1>7, <1>18, <3>3
      <4> QED
        BY <3>2, <4>1
    <3>4. CASE u = t /\ form = "call"
      <4>1. pushed'[t] = Append(pushed[t], p) /\ blocks'[t] = Append(B[t], b) /\ IsCall(b)
        BY <1>3, <1>4, <1>6, <1>7, <1>16, <1>18, <3>4 DEF IsCall
      <4>2. B[t] \in Seq(Blocks)
        BY <1>5
      <4> QED
        BY <1>4, <1>17, <3>1, <3>2, <3>4, <4>1, <4>2, MatchesCall
    <3>5. CASE u = t /\ form # "call"
      <4>1. pushed'[t] = pushed[t] /\ blocks'[t] = Append(B[t], b) /\ ~IsCall(b)
        BY <1>4, <1>6, <1>7, <3>5 DEF IsCall
      <4>2. B[t] \in Seq(Blocks)
        BY <1>5
      <4> QED
        BY <1>4, <3>1, <3>2, <3>5, <4>1, <4>2, MatchesOther
    <3> QED
      BY <3>3, <3>4, <3>5
  <2> QED
    BY <1>6, <2>1 DEF PushedAre
<1>21. \A u \in Threads \ {t} : ScopeNames(blocks'[u]) = ScopeNames(blocks[u])
  BY <1>7, <1>8
<1>22. Len(blocks'[t]) = Len(blocks[t]) + 1
  BY <1>5, <1>7
<1> QED
  BY <1>3, <1>7, <1>9, <1>10, <1>11, <1>14, <1>15, <1>19, <1>20, <1>21, <1>22

\* What entering a scope does to the context stacks.
LEMMA EnteredStacks ==
  ASSUME ContextInv, NEW t \in Threads, NEW form \in Forms, NEW n \in Names,
         EnterScope(t, form, n)
  PROVE  /\ stack' \in Stacks /\ inherited' \in Stacks
         /\ initialized' \in [Threads -> SUBSET Addresses]
         /\ \A u \in Threads \ {t} : /\ stack'[u] = stack[u] /\ inherited'[u] = inherited[u]
                                     /\ initialized'[u] = initialized[u]
         /\ initialized'[t] = initialized[t] \cup Sources
         /\ \A a \in Sources : /\ stack'[t][a] = Append(StackOf(t, a), n)
                               /\ inherited'[t][a] = Inherits(t, a)
         /\ \A a \in Addresses \ Sources : /\ stack'[t][a] = stack[t][a]
                                           /\ inherited'[t][a] = inherited[t][a]
<1>1. Typed /\ SourcesAre /\ BlocksAre
  BY DEF ContextInv
<1>2. /\ stack' = [stack EXCEPT ![t] = Pushed(t, n)]
      /\ initialized' = [initialized EXCEPT ![t] = @ \cup Sources]
      /\ Inherit(t, Sources)
  BY DEF EnterScope, NativeEnterScope
<1>3. Sources \in SUBSET Addresses
  BY <1>1, SourcesLive
<1>4. Pushed(t, n) \in [Addresses -> Seq(Names)]
  <2>1. ASSUME NEW a \in Addresses
        PROVE  (IF a \in Sources THEN Append(StackOf(t, a), n) ELSE stack[t][a]) \in Seq(Names)
    <3>1. a \in Sources => StackOf(t, a) \in Seq(Names)
      BY <1>1, SourcesLive, StackTyped
    <3>2. stack[t][a] \in Seq(Names)
      BY <1>1 DEF Typed, Stacks
    <3> QED
      BY <3>1, <3>2
  <2> QED
    BY <2>1 DEF Pushed
<1>5. /\ \A a \in Sources : Pushed(t, n)[a] = Append(StackOf(t, a), n)
      /\ \A a \in Addresses \ Sources : Pushed(t, n)[a] = stack[t][a]
  BY <1>3 DEF Pushed
<1>6. /\ stack' \in Stacks /\ stack'[t] = Pushed(t, n)
      /\ \A u \in Threads \ {t} : stack'[u] = stack[u]
  BY <1>1, <1>2, <1>4 DEF Typed, Stacks
<1>7. /\ initialized' \in [Threads -> SUBSET Addresses]
      /\ initialized'[t] = initialized[t] \cup Sources
      /\ \A u \in Threads \ {t} : initialized'[u] = initialized[u]
  BY <1>1, <1>2, <1>3 DEF Typed
<1>8. /\ inherited' \in Stacks
      /\ \A u \in Threads \ {t} : inherited'[u] = inherited[u]
      /\ \A a \in Sources : inherited'[t][a] = Inherits(t, a)
      /\ \A a \in Addresses \ Sources : inherited'[t][a] = inherited[t][a]
  BY <1>1, <1>2, <1>3, InheritIs
<1> QED
  BY <1>5, <1>6, <1>7, <1>8

\* The paths it gives the scope have their type.
LEMMA EnteredMap ==
  ASSUME ContextInv, NEW t \in Threads, NEW form \in Forms, NEW n \in Names,
         EnterScope(t, form, n)
  PROVE  scopeMap' \in ScopeMaps
<1>1. Typed /\ SourcesAre /\ BlocksAre
  BY DEF ContextInv
<1>2. nextScope \in Scopes
  BY EnteredBlocks
<1>3. ASSUME NEW i \in Recording
      PROVE  Snapshot(t, n, i) \in Seq(Names \cup States) \cup {Absent}
  <2>1. PICK a : a = source[i]
    OBVIOUS
  <2>2. a \in Sources
    BY <2>1 DEF Sources
  <2>3. StackOf(t, a) \in Seq(Names) /\ a \in Addresses
    BY <1>1, <2>2, SourcesLive, StackTyped
  <2>4. Pushed(t, n)[a] = Append(StackOf(t, a), n)
    BY <2>2, <2>3 DEF Pushed
  <2>5. Pushed(t, n)[a] \in Seq(Names \cup States)
    BY <2>3, <2>4
  <2>6. state[t] \in States \cup {Absent}
    BY <1>1 DEF Typed
  <2>7. Contexts(t, Pushed(t, n)[a]) \in Seq(Names \cup States)
    BY <2>5, <2>6 DEF Contexts
  <2> QED
    BY <2>1, <2>7 DEF Snapshot
<1>4. scopeMap \in ScopeMaps
  BY <1>1 DEF Typed
<1>5. scopeMap' = [i \in Ids |-> IF i \in Recording
                     THEN [scopeMap[i] EXCEPT ![nextScope] = Snapshot(t, n, i)]
                     ELSE scopeMap[i]]
  BY DEF EnterScope, NativeEnterScope
<1>6. \A i \in Ids : scopeMap'[i] \in [Scopes -> Seq(Names \cup States) \cup {Absent}]
  BY <1>2, <1>3, <1>4, <1>5 DEF ScopeMaps
<1>7. scopeMap' = [i \in Ids |-> scopeMap'[i]]
  BY <1>5
<1> QED
  BY <1>6, <1>7 DEF ScopeMaps

\* It keeps the invariant.
LEMMA EnterScopeKeeps ==
  ASSUME ContextInv, NEW t \in Threads, NEW form \in Forms, NEW n \in Names,
         EnterScope(t, form, n)
  PROVE  ContextInv'
<1>1. Typed /\ SourcesAre /\ BlocksAre
  BY DEF ContextInv
<1>2. /\ nextScope' = nextScope + 1 /\ nextScope < MaxScopes /\ ProfilingOn
      /\ UNCHANGED <<phase, source, main, state, metrics, freshSource, midScope, raised>>
  BY DEF EnterScope, lifecycleVars
<1>3. /\ stack' \in Stacks /\ inherited' \in Stacks
      /\ initialized' \in [Threads -> SUBSET Addresses]
      /\ \A u \in Threads \ {t} : /\ stack'[u] = stack[u] /\ inherited'[u] = inherited[u]
                                  /\ initialized'[u] = initialized[u]
      /\ initialized'[t] = initialized[t] \cup Sources
      /\ \A a \in Sources : /\ stack'[t][a] = Append(StackOf(t, a), n)
                            /\ inherited'[t][a] = Inherits(t, a)
      /\ \A a \in Addresses \ Sources : /\ stack'[t][a] = stack[t][a]
                                        /\ inherited'[t][a] = inherited[t][a]
  BY EnteredStacks
<1>4. /\ blocks' \in [Threads -> Seq(Blocks)]
      /\ ScopeNames(blocks'[t]) = Append(ScopeNames(blocks[t]), n)
      /\ \A u \in Threads \ {t} : ScopeNames(blocks'[u]) = ScopeNames(blocks[u])
      /\ BlocksAre' /\ Unrecorded' /\ PushedAre'
      /\ pushed' \in [Threads -> Seq(Entries)]
      /\ decoratedId' \in [Names -> Scopes \cup {Absent}]
  BY EnteredBlocks
<1>5. Sources' = Sources
  BY <1>2, ActiveStays
<1>6. /\ \A u \in Threads \ {t}, a \in Addresses : Since(u, a)' = Since(u, a)
      /\ \A a \in Sources : Since(t, a)' = Append(Since(t, a), n)
      /\ \A a \in Addresses \ Sources : Since(t, a)' = <<>> /\ Since(t, a) = <<>>
  BY <1>4, <1>5 DEF Since
<1>7. \A u \in Threads, a \in Addresses : Since(u, a) \in Seq(Names)
  BY <1>1, NamesTyped DEF Since
<1>8. Typed'
  <2>1. nextScope' \in 0 .. MaxScopes
    BY <1>1, <1>2, DispatchAssumptions DEF Typed
  <2> QED
    BY <1>1, <1>2, <1>3, <1>4, <2>1, EnteredMap DEF Typed
<1>9. SourcesAre'
  <2>1. \A u \in Threads : initialized[u] \subseteq initialized'[u]
    BY <1>3
  <2> QED
    BY <1>1, <1>2, <2>1 DEF SourcesAre, Lives
<1>10. UnusedAre'
  <2>1. ASSUME NEW a \in Addresses, main[a] = Absent, NEW u \in Threads
        PROVE  a \notin initialized'[u] /\ stack'[u][a] = <<>> /\ inherited'[u][a] = <<>>
    <3>1. a \notin Sources
      BY <1>1, <2>1, SourcesLive, DispatchAssumptions
    <3>2. a \notin initialized[u] /\ stack[u][a] = <<>> /\ inherited[u][a] = <<>>
      BY <2>1 DEF ContextInv, UnusedAre
    <3> QED
      BY <1>3, <3>1, <3>2
  <2> QED
    BY <1>2, <2>1 DEF UnusedAre
<1>11. StacksAre'
  <2>1. ASSUME midScope = 0, NEW u \in Threads, NEW a \in Addresses
        PROVE  /\ a \in Sources' /\ a \notin initialized'[u] => ScopeNames(blocks'[u]) = <<>>
               /\ \E base \in Seq(Names) : stack'[u][a] = base \o Since(u, a)'
    <3>1. /\ a \in Sources /\ a \notin initialized[u] => ScopeNames(blocks[u]) = <<>>
          /\ \E base \in Seq(Names) : stack[u][a] = base \o Since(u, a)
      BY <2>1 DEF ContextInv, StacksAre
    <3>2. CASE u # t
      BY <1>3, <1>4, <1>5, <1>6, <3>1, <3>2
    <3>3. CASE u = t /\ a \in Sources
      <4>1. main[a] \in Threads
        BY <1>1, <3>3, SourcesLive
      <4>2. PICK base \in Seq(Names) : StackOf(t, a) = base \o Since(t, a)
        BY <2>1, <4>1, StackOnTop
      <4>3. Append(base \o Since(t, a), n) = base \o Append(Since(t, a), n)
        <5>1. Since(t, a) \in Seq(Names)
          BY <1>7, <3>3
        <5> QED
          BY <5>1, AppendToConcat
      <4>4. stack'[t][a] = base \o Since(t, a)'
        BY <1>3, <1>6, <3>3, <4>2, <4>3
      <4> QED
        BY <1>3, <3>3, <4>4
    <3>4. CASE u = t /\ a \notin Sources
      BY <1>3, <1>5, <1>6, <3>1, <3>4
    <3> QED
      BY <3>2, <3>3, <3>4
  <2> QED
    BY <1>2, <2>1 DEF StacksAre
<1>12. FreshAre'
  <2>1. ASSUME NEW i \in freshSource
        PROVE  /\ phase'[i] # "unborn"
               /\ midScope' = 0 /\ phase'[i] \in {"paused", "recording"} =>
                    \A a \in Addresses : source'[i] = a => FreshOn(a)'
    <3>1. phase'[i] # "unborn"
      BY <1>2, <2>1 DEF ContextInv, FreshAre
    <3>2. ASSUME midScope = 0, phase[i] \in {"paused", "recording"},
                 NEW a \in Addresses, source[i] = a
          PROVE  FreshOn(a)'
      <4>1. FreshOn(a)
        BY <2>1, <3>2 DEF ContextInv, FreshAre
      <4>2. i \in Ids /\ Lives(i)
        BY <1>1, <2>1, <3>2 DEF Typed, Lives
      <4>3. main[a] \in Threads /\ a \in initialized[main[a]] /\ main'[a] = main[a]
        BY <1>1, <1>2, <3>2, <4>2 DEF SourcesAre
      <4>4. /\ StackOf(t, a) = Inherits(t, a) \o Since(t, a) /\ Inherits(main[a], a) = <<>>
        BY <3>2, <4>1, <4>3, StackFresh
      <4>5. inherited'[main'[a]][a] = <<>>
        <5>1. CASE main[a] = t /\ a \in Sources
          BY <1>3, <4>3, <4>4, <5>1
        <5>2. CASE ~(main[a] = t /\ a \in Sources)
          BY <1>3, <4>1, <4>3, <5>2 DEF FreshOn
        <5> QED
          BY <5>1, <5>2
      <4>6. ASSUME NEW u \in Threads, a \in initialized'[u]
            PROVE  stack'[u][a] = inherited'[u][a] \o Since(u, a)'
        <5>1. CASE u = t /\ a \in Sources
          <6>1. Inherits(t, a) \in Seq(Names)
            BY <1>3, <5>1 DEF Stacks
          <6>2. Append(Inherits(t, a) \o Since(t, a), n) = Inherits(t, a) \o Append(Since(t, a), n)
            <7>1. Since(t, a) \in Seq(Names)
              BY <1>7
            <7> QED
              BY <6>1, <7>1, AppendToConcat
          <6> QED
            BY <1>3, <1>6, <4>4, <5>1, <6>2
        <5>2. CASE ~(u = t /\ a \in Sources)
          <6>1. /\ stack'[u][a] = stack[u][a] /\ inherited'[u][a] = inherited[u][a]
                /\ a \in initialized[u] /\ Since(u, a)' = Since(u, a)
            BY <1>3, <1>6, <4>6, <5>2
          <6> QED
            BY <4>1, <6>1 DEF FreshOn
        <5> QED
          BY <5>1, <5>2
      <4> QED
        BY <4>5, <4>6 DEF FreshOn
    <3> QED
      BY <1>2, <3>1, <3>2
  <2> QED
    BY <1>2, <2>1 DEF FreshAre
<1>13. NotRaised' /\ MetricsReachTheirScope'
  BY <1>2 DEF ContextInv, NotRaised, MetricsReachTheirScope
<1> QED
  BY <1>4, <1>8, <1>9, <1>10, <1>11, <1>12, <1>13 DEF ContextInv

----------------------------------------------------------------------------
(* A scope is left.                                                         *)

\* A scope that is left while sessions come and go between scopes is on top of the
\* stacks of all active sources.
LEMMA AllPopped ==
  ASSUME ContextInv, midScope = 0, NEW t \in Threads, NEW bs \in Seq(Blocks),
         NEW b \in Blocks, blocks[t] = Append(bs, b), b.form # "state"
  PROVE  /\ Popped(t, b.name) = Sources
         /\ \A a \in Sources :
              /\ a \in initialized[t]
              /\ \A base \in Seq(Names) : stack[t][a] = base \o Since(t, a) =>
                   Front(stack[t][a]) = base \o ScopeNames(bs)
<1>1. ScopeNames(blocks[t]) = Append(ScopeNames(bs), b.name)
  BY ScopeNamesAppend
<1>2. \A k \in 1 .. Len(blocks[t]) : blocks[t][k].form # "state" => blocks[t][k].name \in Names
  BY DEF ContextInv, BlocksAre, BlockOK
<1>3. Len(blocks[t]) = Len(bs) + 1 /\ blocks[t][Len(bs) + 1] = b
      /\ \A k \in 1 .. Len(bs) : blocks[t][k] = bs[k]
  OBVIOUS
<1>4. Len(bs) \in Nat
  OBVIOUS
<1>5. b.name \in Names
  <2>1. Len(bs) + 1 \in 1 .. Len(blocks[t])
    BY <1>3, <1>4
  <2> QED
    BY <1>2, <1>3, <2>1
<1>6. \A k \in 1 .. Len(bs) : bs[k].form # "state" => bs[k].name \in Names
  <2> TAKE k \in 1 .. Len(bs)
  <2>1. k \in 1 .. Len(blocks[t])
    BY <1>3, <1>4
  <2> QED
    BY <1>2, <1>3, <2>1
<1>7. ScopeNames(bs) \in Seq(Names)
  BY <1>6, ScopeNamesType
<1>8. PICK u \in Seq(Names), n \in Names : u = ScopeNames(bs) /\ n = b.name
  BY <1>5, <1>7
<1>9. ASSUME NEW base \in Seq(Names)
      PROVE  /\ base \o Append(u, n) # <<>>
             /\ Last(base \o Append(u, n)) = n
             /\ Front(base \o Append(u, n)) = base \o u
  <2>1. base \o Append(u, n) = Append(base \o u, n)
    BY AppendToConcat
  <2>2. PICK x \in Seq(Names) : x = base \o u
    <3>1. base \o u \in Seq(Names)
      OBVIOUS
    <3> QED
      BY <3>1
  <2>3. Append(x, n) # <<>> /\ Last(Append(x, n)) = n /\ Front(Append(x, n)) = x
    BY FrontOfAppend
  <2> QED
    BY <2>1, <2>2, <2>3
<1>10. ASSUME NEW a \in Sources
       PROVE  /\ a \in Addresses /\ Balanced(t, a, n) /\ a \in initialized[t]
              /\ Since(t, a) = Append(u, n)
  <2>1. a \in Addresses
    BY SourcesLive DEF ContextInv
  <2>2. Since(t, a) = Append(u, n) /\ ScopeNames(blocks[t]) # <<>>
    <3>1. Append(u, n) # <<>>
      OBVIOUS
    <3> QED
      BY <1>1, <1>8, <1>10, <3>1 DEF Since
  <2>3. a \in initialized[t]
    BY <1>10, <2>1, <2>2 DEF ContextInv, StacksAre
  <2>4. PICK base \in Seq(Names) : stack[t][a] = base \o Since(t, a)
    BY <2>1 DEF ContextInv, StacksAre
  <2> QED
    BY <1>9, <2>1, <2>2, <2>3, <2>4 DEF Balanced
<1>11. Popped(t, n) = Sources
  BY <1>10 DEF Popped
<1>12. ASSUME NEW a \in Sources, NEW base \in Seq(Names), stack[t][a] = base \o Since(t, a)
       PROVE  Front(stack[t][a]) = base \o ScopeNames(bs)
  <2>1. stack[t][a] = base \o Append(u, n)
    BY <1>10, <1>12
  <2> QED
    BY <1>8, <1>9, <2>1
<1> QED
  BY <1>8, <1>10, <1>11, <1>12

\* The exit of a scope keeps what is known of sources and stacks.
LEMMA NativeExitKeeps ==
  ASSUME ContextInv, NEW t \in Threads, NEW n, blocks[t] # <<>>, Leave(t),
         Last(blocks[t]).form # "state", NativeExitScope(t, n),
         midScope = 0 => n = Last(blocks[t]).name,
         UNCHANGED <<phase, source, main, initialized, inherited, freshSource, midScope>>
  PROVE  /\ stack' \in Stacks /\ raised' \in BOOLEAN
         /\ SourcesAre' /\ UnusedAre' /\ StacksAre' /\ FreshAre' /\ NotRaised'
<1>1. Typed /\ SourcesAre /\ BlocksAre
  BY DEF ContextInv
<1>2. PICK bs \in Seq(Blocks), b \in Blocks :
        /\ blocks[t] = Append(bs, b) /\ b = Last(blocks[t]) /\ blocks'[t] = bs
        /\ \A u \in Threads \ {t} : blocks'[u] = blocks[u]
  BY <1>1, BlockLeft
<1>3. /\ stack' = [stack EXCEPT ![t] =
           [a \in Addresses |-> IF a \in Popped(t, n) THEN Front(stack[t][a]) ELSE stack[t][a]]]
      /\ raised' = (raised \/ Popped(t, n) # Sources)
  BY DEF NativeExitScope
<1>4. Popped(t, n) \subseteq Sources
  BY DEF Popped
<1>5. /\ \A u \in Threads \ {t} : stack'[u] = stack[u]
      /\ \A a \in Popped(t, n) : a \in Addresses => stack'[t][a] = Front(stack[t][a])
      /\ \A a \in Addresses \ Popped(t, n) : stack'[t][a] = stack[t][a]
  BY <1>1, <1>3 DEF Typed, Stacks
<1>6. stack' \in Stacks
  <2>1. ASSUME NEW a \in Addresses
        PROVE  (IF a \in Popped(t, n) THEN Front(stack[t][a]) ELSE stack[t][a]) \in Seq(Names)
    <3>1. stack[t][a] \in Seq(Names)
      BY <1>1 DEF Typed, Stacks
    <3>2. CASE a \in Popped(t, n)
      <4>1. stack[t][a] # <<>>
        <5>1. Balanced(t, a, n)
          <6>1. a <= a
            BY DispatchAssumptions
          <6> QED
            BY <3>2, <6>1 DEF Popped
        <5> QED
          BY <5>1 DEF Balanced
      <4> QED
        BY <3>1, <3>2, <4>1, FrontLast
    <3> QED
      BY <3>1, <3>2
  <2>2. [a \in Addresses |-> IF a \in Popped(t, n) THEN Front(stack[t][a]) ELSE stack[t][a]]
          \in [Addresses -> Seq(Names)]
    BY <2>1
  <2> QED
    BY <1>1, <1>3, <2>2 DEF Typed, Stacks
<1>7. raised' \in BOOLEAN
  BY <1>3
<1>8. SourcesAre'
  BY <1>1 DEF SourcesAre, Lives
<1>9. UnusedAre'
  <2>1. ASSUME NEW a \in Addresses, main[a] = Absent, NEW u \in Threads
        PROVE  a \notin initialized'[u] /\ stack'[u][a] = <<>> /\ inherited'[u][a] = <<>>
    <3>1. a \notin Sources
      BY <1>1, <2>1, SourcesLive, DispatchAssumptions
    <3>2. a \notin initialized[u] /\ stack[u][a] = <<>> /\ inherited[u][a] = <<>>
      BY <2>1 DEF ContextInv, UnusedAre
    <3> QED
      BY <1>4, <1>5, <3>1, <3>2
  <2> QED
    BY <2>1 DEF UnusedAre
<1>10. Sources' = Sources
  BY ActiveStays
<1>11. ASSUME midScope = 0
       PROVE  /\ Popped(t, n) = Sources
              /\ \A a \in Sources :
                   /\ a \in initialized[t]
                   /\ \A base \in Seq(Names) : stack[t][a] = base \o Since(t, a) =>
                        Front(stack[t][a]) = base \o ScopeNames(bs)
  <2>1. n = b.name /\ b.form # "state"
    BY <1>2, <1>11
  <2> QED
    BY <1>2, <1>11, <2>1, AllPopped
<1>12. NotRaised'
  BY <1>3, <1>11 DEF ContextInv, NotRaised
<1>13. /\ \A u \in Threads \ {t}, a \in Addresses : Since(u, a)' = Since(u, a)
       /\ \A a \in Sources : Since(t, a)' = ScopeNames(bs)
       /\ \A a \in Addresses \ Sources : Since(t, a)' = <<>> /\ Since(t, a) = <<>>
  BY <1>2, <1>10 DEF Since
<1>14. StacksAre'
  <2>1. ASSUME midScope = 0, NEW u \in Threads, NEW a \in Addresses
        PROVE  /\ a \in Sources' /\ a \notin initialized'[u] => ScopeNames(blocks'[u]) = <<>>
               /\ \E base \in Seq(Names) : stack'[u][a] = base \o Since(u, a)'
    <3>1. /\ a \in Sources /\ a \notin initialized[u] => ScopeNames(blocks[u]) = <<>>
          /\ \E base \in Seq(Names) : stack[u][a] = base \o Since(u, a)
      BY <2>1 DEF ContextInv, StacksAre
    <3>2. CASE u # t
      BY <1>2, <1>5, <1>10, <1>13, <3>1, <3>2
    <3>3. CASE u = t /\ a \in Sources
      <4>1. PICK base \in Seq(Names) : stack[t][a] = base \o Since(t, a)
        BY <3>1, <3>3
      <4>2. stack'[t][a] = base \o ScopeNames(bs) /\ a \in initialized[t]
        BY <1>5, <1>11, <2>1, <3>3, <4>1
      <4> QED
        BY <1>13, <3>3, <4>2
    <3>4. CASE u = t /\ a \notin Sources
      BY <1>4, <1>5, <1>10, <1>13, <3>1, <3>4
    <3> QED
      BY <3>2, <3>3, <3>4
  <2> QED
    BY <2>1 DEF StacksAre
<1>15. FreshAre'
  <2>1. ASSUME NEW i \in freshSource
        PROVE  /\ phase'[i] # "unborn"
               /\ midScope' = 0 /\ phase'[i] \in {"paused", "recording"} =>
                    \A a \in Addresses : source'[i] = a => FreshOn(a)'
    <3>1. phase'[i] # "unborn"
      BY <2>1 DEF ContextInv, FreshAre
    <3>2. ASSUME midScope = 0, phase[i] \in {"paused", "recording"},
                 NEW a \in Addresses, source[i] = a
          PROVE  FreshOn(a)'
      <4>1. FreshOn(a)
        BY <2>1, <3>2 DEF ContextInv, FreshAre
      <4>2. ASSUME NEW u \in Threads, a \in initialized[u]
            PROVE  stack'[u][a] = inherited[u][a] \o Since(u, a)'
        <5>1. stack[u][a] = inherited[u][a] \o Since(u, a) /\ inherited[u][a] \in Seq(Names)
          BY <1>1, <4>1, <4>2 DEF FreshOn, Typed, Stacks
        <5>2. CASE u = t /\ a \in Sources
          <6>1. Front(stack[t][a]) = inherited[t][a] \o ScopeNames(bs)
            BY <1>11, <3>2, <5>1, <5>2
          <6> QED
            BY <1>5, <1>11, <1>13, <3>2, <5>2, <6>1
        <5>3. CASE u = t /\ a \notin Sources
          BY <1>4, <1>5, <1>13, <5>1, <5>3
        <5>4. CASE u # t
          BY <1>5, <1>13, <5>1, <5>4
        <5> QED
          BY <5>2, <5>3, <5>4
      <4> QED
        BY <4>1, <4>2 DEF FreshOn
    <3> QED
      BY <3>1, <3>2
  <2> QED
    BY <2>1 DEF FreshAre
<1> QED
  BY <1>6, <1>7, <1>8, <1>9, <1>12, <1>14, <1>15

\* scope.__exit__ and the decorator's finally keep the invariant.
LEMMA ExitScopeKeeps ==
  ASSUME ContextInv, NEW t \in Threads, ExitScope(t)
  PROVE  ContextInv'
<1>1. PICK b : b = Last(blocks[t])
  OBVIOUS
<1>2. PICK id : id = IF b.form = "decorated" THEN decoratedId[b.name] ELSE b.scope
  OBVIOUS
<1>3. /\ blocks[t] # <<>> /\ ProfilingOn /\ Leave(t)
      /\ b.form \in {"with", "decorated"} /\ id # Absent
      /\ NativeExitScope(t, b.name)
      /\ IF b.form = "decorated" /\ Popped(t, b.name) = Sources
           THEN NativeAddMetrics(id, b.scope, b.shared)
           ELSE UNCHANGED metrics
      /\ UNCHANGED <<phase, source, main, initialized, state, scopeMap, nextScope, pushed,
                     decoratedId, inherited, freshSource, midScope>>
  BY <1>1, <1>2 DEF ExitScope, lifecycleVars
<1>4. /\ b \in Blocks /\ BlockOK(b, decoratedId)
      /\ midScope = 0 => (b.scope # Absent <=> ProfilingOn)
  BY <1>1, <1>3, InnermostBlock
<1>5. PICK bs \in Seq(Blocks), c \in Blocks :
        /\ blocks[t] = Append(bs, c) /\ c = Last(blocks[t]) /\ blocks'[t] = bs
        /\ \A u \in Threads \ {t} : blocks'[u] = blocks[u]
  BY <1>3, BlockLeft DEF ContextInv
<1>6. BlocksAre' /\ Unrecorded' /\ blocks' \in [Threads -> Seq(Blocks)]
  BY <1>3, LeavingKeeps
<1>7. /\ stack' \in Stacks /\ raised' \in BOOLEAN
      /\ SourcesAre' /\ UnusedAre' /\ StacksAre' /\ FreshAre' /\ NotRaised'
  BY <1>1, <1>3, NativeExitKeeps
<1>8. PushedAre'
  <2>1. pushed[t] \in Seq(Entries) /\ ~IsCall(c)
    BY <1>1, <1>3, <1>5 DEF ContextInv, Typed, IsCall
  <2>2. Matches(pushed[t], blocks[t]) => Matches(pushed[t], blocks'[t])
    BY <1>5, <2>1, MatchesOther
  <2> QED
    BY <1>3, <1>5, <2>2 DEF ContextInv, PushedAre
<1>9. metrics' \in [Ids -> SUBSET Metric] /\ MetricsReachTheirScope'
  <2>1. CASE b.form = "decorated" /\ Popped(t, b.name) = Sources
    <3>1. b.name \in Names
      BY <1>4, <2>1 DEF BlockOK
    <3>2. id \in Scopes
      BY <1>2, <1>3, <2>1, <3>1 DEF ContextInv, Typed
    <3>3. b.scope \in Scopes \cup {Absent} /\ b.shared \in BOOLEAN
      BY <1>4 DEF Blocks
    <3>4. b.scope = id \/ b.shared \/ midScope > 0
      <4>1. midScope = 0 => b.scope # Absent
        BY <1>3, <1>4
      <4>2. b.scope # Absent => b.shared \/ id = b.scope
        BY <1>2, <1>4, <2>1 DEF BlockOK
      <4>3. midScope \in Nat
        BY DEF ContextInv, Typed
      <4> QED
        BY <4>1, <4>2, <4>3
    <3> QED
      BY <1>3, <2>1, <3>2, <3>3, <3>4, MetricsAdded
  <2>2. CASE ~(b.form = "decorated" /\ Popped(t, b.name) = Sources)
    <3>1. UNCHANGED <<metrics, midScope>>
      BY <1>3, <2>2
    <3> QED
      BY <3>1 DEF ContextInv, Typed, MetricsReachTheirScope
  <2> QED
    BY <2>1, <2>2
<1>10. Typed'
  BY <1>3, <1>6, <1>7, <1>9 DEF ContextInv, Typed
<1> QED
  BY <1>6, <1>7, <1>8, <1>9, <1>10 DEF ContextInv

\* exit_scope() keeps it.
LEMMA ExitCallKeeps ==
  ASSUME ContextInv, NEW t \in Threads, ExitCall(t)
  PROVE  ContextInv'
<1>1. /\ blocks[t] # <<>> /\ ProfilingOn /\ Leave(t)
      /\ Last(blocks[t]).form = "call"
      /\ UNCHANGED <<phase, source, main, initialized, state, scopeMap, nextScope,
                     decoratedId, inherited, freshSource, midScope>>
  BY DEF ExitCall, lifecycleVars
<1>2. PICK bs \in Seq(Blocks), b \in Blocks :
        /\ blocks[t] = Append(bs, b) /\ b = Last(blocks[t]) /\ blocks'[t] = bs
        /\ \A u \in Threads \ {t} : blocks'[u] = blocks[u]
  BY <1>1, BlockLeft DEF ContextInv
<1>3. BlocksAre' /\ Unrecorded' /\ blocks' \in [Threads -> Seq(Blocks)]
  BY <1>1, LeavingKeeps
<1>4. midScope = 0 => IsCall(b)
  BY <1>1, <1>2, InnermostBlock DEF IsCall
<1>5. pushed[t] \in Seq(Entries) /\ midScope \in Nat
  BY DEF ContextInv, Typed
<1>6. midScope = 0 => /\ pushed[t] # <<>> /\ Last(pushed[t]).scope = b.scope
                      /\ Last(pushed[t]).name = b.name /\ Matches(Front(pushed[t]), bs)
  <2>1. midScope = 0 => Matches(pushed[t], Append(bs, b))
    BY <1>2 DEF ContextInv, PushedAre
  <2> QED
    BY <1>4, <1>5, <2>1, MatchesPop
<1>7. CASE pushed[t] = <<>>
  <2>1. /\ midScope # 0 /\ raised' = TRUE /\ UNCHANGED <<pushed, stack, metrics>>
    BY <1>6, <1>7 DEF ExitCall
  <2>2. SourcesAre' /\ UnusedAre' /\ StacksAre' /\ FreshAre'
    BY <1>1, <2>1, StacksStay
  <2>3. PushedAre' /\ NotRaised' /\ MetricsReachTheirScope'
    BY <1>1, <2>1 DEF ContextInv, PushedAre, NotRaised, MetricsReachTheirScope
  <2>4. Typed'
    BY <1>1, <1>3, <2>1 DEF ContextInv, Typed
  <2> QED
    BY <1>3, <2>2, <2>3, <2>4 DEF ContextInv
<1>8. CASE pushed[t] # <<>>
  <2>1. PICK top : top = Last(pushed[t])
    OBVIOUS
  <2>2. /\ pushed' = [pushed EXCEPT ![t] = Front(@)]
        /\ NativeExitScope(t, top.name)
        /\ IF "call" \in Metered /\ Popped(t, top.name) = Sources
             THEN NativeAddMetrics(top.scope, Last(blocks[t]).scope, FALSE)
             ELSE UNCHANGED metrics
    BY <1>8, <2>1 DEF ExitCall, LastPushed
  <2>3. top \in Entries /\ Front(pushed[t]) \in Seq(Entries)
    BY <1>5, <1>8, <2>1, FrontLast
  <2>4. /\ pushed' \in [Threads -> Seq(Entries)] /\ pushed'[t] = Front(pushed[t])
        /\ \A u \in Threads \ {t} : pushed'[u] = pushed[u]
    BY <2>2, <2>3 DEF ContextInv, Typed
  <2>5. /\ stack' \in Stacks /\ raised' \in BOOLEAN
        /\ SourcesAre' /\ UnusedAre' /\ StacksAre' /\ FreshAre' /\ NotRaised'
    <3>1. midScope = 0 => top.name = Last(blocks[t]).name
      BY <1>2, <1>6, <2>1
    <3>2. Last(blocks[t]).form # "state"
      BY <1>1
    <3> QED
      BY <1>1, <2>2, <3>1, <3>2, NativeExitKeeps
  <2>6. PushedAre'
    <3>1. ASSUME midScope = 0, NEW u \in Threads PROVE Matches(pushed'[u], blocks'[u])
      <4>1. CASE u = t
        BY <1>2, <1>6, <2>4, <3>1, <4>1
      <4>2. CASE u # t
        BY <1>2, <2>4, <3>1, <4>2 DEF ContextInv, PushedAre
      <4> QED
        BY <4>1, <4>2
    <3> QED
      BY <1>1, <3>1 DEF PushedAre
  <2>7. metrics' \in [Ids -> SUBSET Metric] /\ MetricsReachTheirScope'
    <3>1. CASE "call" \in Metered /\ Popped(t, top.name) = Sources
      <4>1. NativeAddMetrics(top.scope, b.scope, FALSE)
        BY <1>2, <2>2, <3>1
      <4>2. top.scope \in Scopes /\ b.scope \in Scopes \cup {Absent}
        BY <2>3 DEF Entries, Blocks
      <4>3. b.scope = top.scope \/ midScope > 0
        BY <1>5, <1>6, <2>1
      <4> QED
        BY <1>1, <4>1, <4>2, <4>3, MetricsAdded
    <3>2. CASE ~("call" \in Metered /\ Popped(t, top.name) = Sources)
      <4>1. UNCHANGED <<metrics, midScope>>
        BY <1>1, <2>2, <3>2
      <4> QED
        BY <4>1 DEF ContextInv, Typed, MetricsReachTheirScope
    <3> QED
      BY <3>1, <3>2
  <2>8. Typed'
    BY <1>1, <1>3, <2>4, <2>5, <2>7 DEF ContextInv, Typed
  <2> QED
    BY <1>3, <2>5, <2>6, <2>7, <2>8 DEF ContextInv
<1> QED
  BY <1>7, <1>8

----------------------------------------------------------------------------
(* The theorems.                                                            *)

\* A step keeps the invariant.
LEMMA StepInv ==
  ASSUME ContextInv, [Next]_vars
  PROVE  ContextInv'
<1>1. CASE Session
  <2>1. CASE \E t \in Threads, i \in Ids, path \in Paths, a \in Addresses :
               OpenSession(t, i, path, a)
    BY <2>1, OpenKeeps
  <2>2. CASE \E S \in SUBSET Ids : Record(S) \/ Pause(S) \/ Close(S) \/ Release(S)
    BY <2>2, MovesKeep
  <2> QED
    BY <1>1, <2>1, <2>2 DEF Session
<1>2. ASSUME NEW t \in Threads, Thread(t) PROVE ContextInv'
  <2>1. ASSUME NEW form \in Forms, NEW n \in Names,
               EnterScope(t, form, n) \/ EnterUnrecorded(t, form, n)
        PROVE  ContextInv'
    BY <2>1, EnterScopeKeeps, EnterUnrecordedKeeps
  <2>2. CASE AddMetrics(t) \/ ExitUnrecorded(t) \/ ExitScope(t) \/ ExitCall(t) \/ ExitState(t)
    BY <2>2, AddMetricsKeeps, ExitUnrecordedKeeps, ExitScopeKeeps, ExitCallKeeps, ExitStateKeeps
  <2>3. ASSUME NEW v \in States, EnterState(t, v) PROVE ContextInv'
    BY <2>3, EnterStateKeeps
  <2>4. ASSUME NEW i \in Ids, Depth(t, i) PROVE ContextInv'
    BY <2>4, DepthKeeps
  <2> QED
    BY <1>2, <2>1, <2>2, <2>3, <2>4 DEF Thread
<1>3. CASE UNCHANGED vars
  <2>1. UNCHANGED <<phase, source, main, initialized, stack, state, scopeMap, metrics,
                    nextScope, blocks, pushed, decoratedId, inherited, freshSource, midScope,
                    raised>>
    BY <1>3 DEF vars, lifecycleVars, contextVars, dataVars, pythonVars, history
  <2>2. SourcesAre' /\ UnusedAre' /\ StacksAre' /\ FreshAre'
    BY <2>1, StacksStay
  <2>3. ProfilingOn' = ProfilingOn
    BY <2>1, ActiveStays
  <2> QED
    BY <2>1, <2>2, <2>3 DEF ContextInv, Typed, BlocksAre, Unrecorded, PushedAre, NotRaised,
                            MetricsReachTheirScope
<1> QED
  BY <1>1, <1>2, <1>3 DEF Next

\* The inductive invariant of the scopes.
THEOREM ContextInvariant == Spec => []ContextInv
<1>1. Init => ContextInv
  BY InitInv
<1>2. ContextInv /\ [Next]_vars => ContextInv'
  BY StepInv
<1> QED
  BY <1>1, <1>2, PTL DEF Spec

\* The variables keep their types.
THEOREM TypesHold == Spec => []TypeOK
<1>1. ContextInv => TypeOK
  BY DEF ContextInv, Typed, TypeOK, Stacks, ScopeMaps
<1> QED
  BY <1>1, ContextInvariant, PTL

\* Metrics reach the scope they were measured for.
THEOREM MetricsReach == Spec => []MetricsReachTheirScope
<1>1. ContextInv => MetricsReachTheirScope
  BY DEF ContextInv
<1> QED
  BY <1>1, ContextInvariant, PTL

\* As long as sessions come and go between scopes, no scope refuses to be left.
THEOREM ScopesExitInTurn == Spec => [](midScope = 0 => ~raised)
<1>1. ContextInv => (midScope = 0 => ~raised)
  BY DEF ContextInv, NotRaised
<1> QED
  BY <1>1, ContextInvariant, PTL

\* A scope gets a path when it is entered and at no other time.
LEMMA PathsWhenEntered ==
  ASSUME ContextInv, [Next]_vars, NEW i \in Ids, NEW s \in Scopes,
         scopeMap[i][s] = Absent, scopeMap'[i][s] # Absent
  PROVE  \E t \in Threads, form \in Forms, n \in Names :
           EnterScope(t, form, n) /\ i \in Recording /\ s = nextScope
<1>1. ASSUME scopeMap'[i][s] = scopeMap[i][s] PROVE FALSE
  BY <1>1
<1>2. ASSUME NEW t \in Threads, NEW form \in Forms, NEW n \in Names, EnterScope(t, form, n)
      PROVE  i \in Recording /\ s = nextScope
  <2>1. scopeMap' = [j \in Ids |-> IF j \in Recording
                       THEN [scopeMap[j] EXCEPT ![nextScope] = Snapshot(t, n, j)]
                       ELSE scopeMap[j]]
    BY <1>2 DEF EnterScope, NativeEnterScope
  <2>2. scopeMap[i] \in [Scopes -> Seq(Names \cup States) \cup {Absent}]
    BY DEF ContextInv, Typed, ScopeMaps
  <2> QED
    BY <2>1, <2>2
<1>3. CASE Session
  <2>1. ASSUME NEW t \in Threads, NEW j \in Ids, NEW path \in Paths, NEW a \in Addresses,
               OpenSession(t, j, path, a)
        PROVE  FALSE
    BY <1>1, <2>1 DEF OpenSession, dataVars
  <2>2. ASSUME NEW S \in SUBSET Ids, Record(S) \/ Pause(S) \/ Close(S) \/ Release(S)
        PROVE  FALSE
    <3>1. scopeMap'[i][s] \in {scopeMap[i][s], Absent}
      BY <2>2, MovesAre DEF ContextInv
    <3> QED
      BY <3>1
  <2> QED
    BY <1>3, <2>1, <2>2 DEF Session
<1>4. ASSUME NEW t \in Threads, Thread(t)
      PROVE  \E form \in Forms, n \in Names : EnterScope(t, form, n)
  <2>1. ASSUME NEW form \in Forms, NEW n \in Names, EnterUnrecorded(t, form, n) PROVE FALSE
    BY <1>1, <2>1 DEF EnterUnrecorded, dataVars
  <2>2. CASE AddMetrics(t) \/ ExitUnrecorded(t) \/ ExitScope(t) \/ ExitCall(t) \/ ExitState(t)
    BY <1>1, <2>2 DEF AddMetrics, ExitUnrecorded, ExitScope, ExitCall, ExitState, dataVars,
                      stateOnly
  <2>3. ASSUME NEW v \in States, EnterState(t, v) PROVE FALSE
    BY <1>1, <2>3 DEF EnterState, stateOnly, dataVars
  <2>4. ASSUME NEW j \in Ids, Depth(t, j) PROVE FALSE
    BY <1>1, <2>4 DEF Depth, dataVars
  <2> QED
    BY <1>4, <2>1, <2>2, <2>3, <2>4 DEF Thread
<1>5. CASE UNCHANGED vars
  BY <1>1, <1>5 DEF vars, dataVars
<1> QED
  BY <1>2, <1>3, <1>4, <1>5 DEF Next

\* The path a scope gets in a recording session that reuses no address.
LEMMA PathIsExact ==
  ASSUME ContextInv, midScope = 0, NEW t \in Threads, NEW form \in Forms, NEW n \in Names,
         EnterScope(t, form, n), NEW i \in freshSource, i \in Recording
  PROVE  scopeMap'[i][nextScope] = PathOf(t, n, i)
<1>1. Typed /\ SourcesAre /\ BlocksAre
  BY DEF ContextInv
<1>2. i \in Ids /\ phase[i] = "recording"
  BY DEF Recording
<1>3. PICK a \in Addresses : a = source[i]
  BY <1>1, <1>2 DEF SourcesAre, Lives
<1>4. a \in Sources
  BY <1>3 DEF Sources
<1>5. main[a] \in Threads /\ a \in initialized[main[a]]
  BY <1>1, <1>4, SourcesLive
<1>6. FreshOn(a)
  BY <1>2, <1>3 DEF ContextInv, FreshAre
<1>7. /\ StackOf(t, a) = Inherits(t, a) \o Since(t, a)
      /\ Inherits(main[a], a) = <<>>
  BY <1>5, <1>6, StackFresh
<1>8. inherited'[t][a] = Inherits(t, a) /\ inherited' \in Stacks
  BY <1>4, EnteredStacks
<1>9. PICK own \in Seq(Names) : own = ScopeNames(blocks[t])
  BY <1>1, NamesTyped
<1>10. PICK above \in Seq(Names) : above = inherited'[t][a]
  BY <1>8 DEF Stacks
<1>11. Since(t, a) = own
  BY <1>4, <1>9 DEF Since
<1>12. Append(StackOf(t, a), n) = above \o Append(own, n)
  <2>1. StackOf(t, a) = above \o own
    BY <1>7, <1>8, <1>10, <1>11
  <2>2. Append(above \o own, n) = above \o Append(own, n)
    BY AppendToConcat
  <2> QED
    BY <2>1, <2>2
<1>13. t = main[a] => above \o Append(own, n) = Append(own, n)
  <2>1. t = main[a] => above = <<>>
    BY <1>7, <1>8, <1>10
  <2>2. Append(own, n) \in Seq(Names)
    OBVIOUS
  <2>3. <<>> \o Append(own, n) = Append(own, n)
    BY <2>2
  <2> QED
    BY <2>1, <2>3
<1>14. PICK all : all = IF t = main[a] THEN Append(own, n) ELSE above \o Append(own, n)
  OBVIOUS
<1>15. Append(StackOf(t, a), n) = all
  BY <1>12, <1>13, <1>14
<1>16. PathOf(t, n, i) = IF state[t] = Absent THEN all ELSE Append(all, state[t])
  BY <1>3, <1>9, <1>10, <1>14 DEF PathOf
<1>17. Snapshot(t, n, i) = Contexts(t, all)
  <2>1. Pushed(t, n)[a] = Append(StackOf(t, a), n)
    BY <1>4 DEF Pushed
  <2> QED
    BY <1>3, <1>15, <2>1 DEF Snapshot
<1>18. scopeMap'[i][nextScope] = Snapshot(t, n, i)
  <2>1. scopeMap' = [j \in Ids |-> IF j \in Recording
                       THEN [scopeMap[j] EXCEPT ![nextScope] = Snapshot(t, n, j)]
                       ELSE scopeMap[j]]
    BY DEF EnterScope, NativeEnterScope
  <2>2. nextScope \in Scopes /\ scopeMap[i] \in [Scopes -> Seq(Names \cup States) \cup {Absent}]
    BY <1>1, <1>2, EnteredBlocks DEF Typed, ScopeMaps
  <2> QED
    BY <1>2, <2>1, <2>2
<1> QED
  BY <1>16, <1>17, <1>18 DEF Contexts

\* The call path of a scope is the one its thread is on.
THEOREM PathsAreExact == Spec => PathsExact
<1>1. ContextInv /\ [Next]_vars => [PathGiven]_vars
  <2> SUFFICES ASSUME ContextInv, [Next]_vars, midScope = 0, NEW i \in freshSource,
                      NEW s \in Scopes, scopeMap[i][s] = Absent, scopeMap'[i][s] # Absent
               PROVE  \E t \in Threads :
                        /\ Len(blocks'[t]) > Len(blocks[t])
                        /\ scopeMap'[i][s] = PathOf(t, Last(blocks'[t]).name, i)
    BY DEF PathGiven
  <2>1. i \in Ids
    BY DEF ContextInv, Typed
  <2>2. PICK t \in Threads, form \in Forms, n \in Names :
          EnterScope(t, form, n) /\ i \in Recording /\ s = nextScope
    BY <2>1, PathsWhenEntered
  <2>3. Len(blocks'[t]) = Len(blocks[t]) + 1 /\ Last(blocks'[t]).name = n
    BY <2>2, EnteredBlocks
  <2>4. Len(blocks[t]) \in Nat
    BY DEF ContextInv, Typed
  <2>5. scopeMap'[i][s] = PathOf(t, n, i)
    BY <2>2, PathIsExact
  <2> QED
    BY <2>3, <2>4, <2>5
<1> QED
  BY <1>1, ContextInvariant, PTL DEF Spec, PathsExact
================================================================================
