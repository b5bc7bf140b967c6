-------------------------- MODULE VendorImportProofs --------------------------
(* Proofs about the imports of vendor files (VendorImport): that no op of the   *)
(* tree gets a kernel twice, that the ranges of the CANN tool are matched in    *)
(* launch order, that a stop gives back what a start has taken and that the     *)
(* events of an import are of its session, for all exports, ops and sessions.   *)
EXTENDS VendorImport, TLAPS, FiniteSetTheorems, WellFoundedInduction

----------------------------------------------------------------------------
(* The inductive invariant.                                                 *)

Phases == {"idle", "recording", "paused", "importing", "matching", "matched"}
AllEvents == EventRecords(Ops \cup {0})

Files == {"mupti_csv", "ixkn_csv", "aclprof_op_summary", "msprof_mstx",
          "aclprof_task_time", "runtime_base_fallback"}
Associations ==
  [source : Files, scope : Ops \cup {0}, state : {"collected", "unmatched"}, event : Nat,
   merged : BOOLEAN,
   name : Names, device : Nat, corr : Nat, task : Nat, start : Nat, end : Nat]

Typed ==
  /\ vendor \in Vendors /\ session \in Nat /\ phase \in Phases /\ now \in Nat \ {0}
  /\ op \in [Ops -> [state : {"idle", "open", "closed"}, since : Nat]]
  /\ opStart \in [Ops -> Nat]
  /\ runtimeEvents \in Seq(EventRecords(Ops)) /\ events \in Seq(AllEvents)
  /\ due \in SUBSET Ops
  /\ artifact \in Seq(Associations)
  /\ at \in Nat \ {0}
  /\ order \in [event : [Names -> Nat \ {0}], range : [Names -> Nat \ {0}]]

\* While a session runs the libraries have what the collector believes to hold, and
\* otherwise nothing.
Held ==
  /\ opRanges \in SUBSET Ops
  /\ held \in [mstx : BOOLEAN, stream : BOOLEAN, domain : BOOLEAN, prof : BOOLEAN]
  /\ phase \in {"recording", "paused"} =>
       sdk = [stream |-> held.stream, domain |-> held.domain,
              prof |-> IF held.prof THEN "running" ELSE "off", ranges |-> opRanges]
  /\ phase \notin {"recording", "paused"} => sdk = AllReleased /\ opRanges = {}

\* The host's events are of ops that began and ended in the session, one for an op.
HostEvents ==
  /\ phase \notin {"recording", "paused"} => runtimeEvents = <<>> /\ opStart = Quiet
  /\ \A o \in Ops : opStart[o] # 0 =>
       op[o].state # "idle" /\ op[o].since = session /\ opStart[o] < now
  /\ \A i \in DOMAIN runtimeEvents :
       /\ op[runtimeEvents[i].op].state = "closed"
       /\ op[runtimeEvents[i].op].since = session
       /\ Timed(runtimeEvents[i])
       /\ \A j \in DOMAIN runtimeEvents : runtimeEvents[i].op = runtimeEvents[j].op => i = j

\* The events of an import have no op twice; where there is no other list they are
\* the host's.
ImportEvents ==
  /\ \A i, j \in DOMAIN events : events[i].op = events[j].op /\ events[i].op # 0 => i = j
  /\ vendor = "mthreads" =>
       /\ due = {events[i].op : i \in DOMAIN events}
       /\ \A i \in DOMAIN events : Timed(events[i]) /\ events[i].op # 0

\* Where each association comes from, by vendor, and that an import starts anew.
Sources ==
  /\ phase \in {"recording", "paused"} => artifact = <<>> /\ used = {}
  /\ phase \in {"recording", "paused", "importing"} => at = 1 /\ order = Untouched
  /\ phase = "matching" => vendor = "cann"
  /\ \A j \in DOMAIN artifact :
       /\ vendor = "mthreads" => artifact[j].source \in {"mupti_csv", "runtime_base_fallback"}
       /\ vendor = "tianshu" => artifact[j].source = "ixkn_csv" /\ artifact[j].scope = 0
       /\ vendor = "cann" /\ phase \in {"importing", "matching"} =>
            artifact[j].source \in {"aclprof_op_summary", "msprof_mstx"}
       /\ vendor = "cann" /\ phase = "importing" =>
            artifact[j].event = 0 /\ artifact[j].scope = 0

\* An association with an op, other than a summary row, has it from the event it took,
\* and no other such association took the same.
Scoped(a) == a.source # "aclprof_op_summary" /\ a.scope # 0
ScopesKnown ==
  \A j \in DOMAIN artifact : Scoped(artifact[j]) =>
    /\ artifact[j].event \in DOMAIN events
    /\ artifact[j].scope = events[artifact[j].event].op
    /\ \A k \in DOMAIN artifact :
         Scoped(artifact[k]) /\ artifact[j].event = artifact[k].event => j = k

\* Moore Threads: the used events are those that rows took, and in the end every
\* event is taken, each by an association with times.
TakenBy(j, i) ==
  artifact[j].event = i /\ artifact[j].scope = events[i].op /\ Timed(artifact[j])
UsedKnown ==
  vendor = "mthreads" =>
    /\ \A j \in DOMAIN artifact : Scoped(artifact[j]) =>
         Timed(artifact[j]) /\ (phase = "importing" => artifact[j].event \in used)
    /\ phase = "importing" => \A i \in used : \E j \in DOMAIN artifact : TakenBy(j, i)
    /\ phase = "matched" => \A i \in DOMAIN events : \E j \in DOMAIN artifact : TakenBy(j, i)

\* The matching by launch order has left behind the events that ranges took, and has
\* not come to the ranges after `at`.
MatchOrder ==
  \A j \in DOMAIN artifact : artifact[j].source = "msprof_mstx" =>
    /\ phase = "matching" /\ j >= at => artifact[j].event = 0 /\ artifact[j].scope = 0
    /\ artifact[j].event = 0 => artifact[j].scope = 0
    /\ artifact[j].event # 0 =>
         /\ artifact[j].event \in DOMAIN events
         /\ SameKernel(artifact[j], events[artifact[j].event])
         /\ artifact[j].event < order.event[Canonical[artifact[j].name]]

ImportInv ==
  /\ Typed /\ Held /\ HostEvents /\ ImportEvents /\ Sources /\ ScopesKnown /\ UsedKnown
  /\ MatchOrder /\ EachKernelOnce /\ LaunchOrderKept /\ EventsOfTheSession

----------------------------------------------------------------------------
(* Smallest elements, and sets in ascending order.                          *)

\* A set of numbers that is not empty has a first.
LEMMA FirstIn ==
  ASSUME NEW S \in SUBSET Nat, S # {}
  PROVE  First(S) \in S /\ \A j \in S : First(S) <= j
<1> DEFINE Less == {p \in Nat \X Nat : p[1] < p[2]}
<1>1. IsWellFoundedOn(Less, Nat)
  BY NatLessThanWellFounded, Zenon DEF OpToRel
<1>2. PICK x \in S : \A y \in S : <<y, x>> \notin Less
  <2> HIDE DEF Less
  <2> QED
    BY <1>1, WFMin
<1>3. ASSUME NEW y \in S
      PROVE  x <= y
  <2>1. <<y, x>> \notin {p \in Nat \X Nat : p[1] < p[2]} /\ x \in Nat /\ y \in Nat
    BY <1>2
  <2>2. ~(y < x)
    BY <2>1
  <2> QED
    BY <2>1, <2>2
<1> QED
  BY <1>3 DEF First

\* Induction, over a set of numbers.
LEMMA SetInduction ==
  ASSUME NEW P, 0 \in P, \A n \in Nat : n \in P => n + 1 \in P
  PROVE  Nat \subseteq P
<1> SUFFICES ASSUME Nat \ P # {} PROVE FALSE
  OBVIOUS
<1> DEFINE m == First(Nat \ P)
<1>1. m \in Nat \ P /\ \A j \in Nat \ P : m <= j
  BY FirstIn
<1> HIDE DEF m
<1>2. m - 1 \in Nat
  BY <1>1
<1>3. m - 1 \in P
  BY <1>1, <1>2
<1> QED
  BY <1>1, <1>2, <1>3

\* A finite set of numbers can be listed in ascending order.
LEMMA CanAscend ==
  \A n \in Nat : \A S \in SUBSET Nat :
    IsFiniteSet(S) /\ Cardinality(S) = n =>
      \E f \in [1 .. n -> S] : \A j, k \in 1 .. n : j < k => f[j] < f[k]
<1> DEFINE Ok(n) == \A S \in SUBSET Nat :
      IsFiniteSet(S) /\ Cardinality(S) = n =>
        \E f \in [1 .. n -> S] : \A j, k \in 1 .. n : j < k => f[j] < f[k]
<1> DEFINE P == {n \in Nat : Ok(n)}
<1>1. Ok(0)
  <2> SUFFICES ASSUME NEW S \in SUBSET Nat
               PROVE  \E f \in [1 .. 0 -> S] :
                        \A j, k \in 1 .. 0 : j < k => f[j] < f[k]
    OBVIOUS
  <2> WITNESS [j \in 1 .. 0 |-> 0] \in [1 .. 0 -> S]
  <2> QED
    OBVIOUS
<1>2. ASSUME NEW n \in Nat, Ok(n)
      PROVE  Ok(n + 1)
  <2> SUFFICES ASSUME NEW S \in SUBSET Nat, IsFiniteSet(S), Cardinality(S) = n + 1
               PROVE  \E f \in [1 .. n + 1 -> S] :
                        \A j, k \in 1 .. n + 1 : j < k => f[j] < f[k]
    OBVIOUS
  <2>1. S # {}
    BY FS_EmptySet
  <2>2. PICK x \in S : \A y \in S : x <= y
    BY <2>1, FirstIn
  <2>3. IsFiniteSet(S \ {x}) /\ Cardinality(S \ {x}) = n
    BY FS_RemoveElement
  <2>4. PICK g \in [1 .. n -> S \ {x}] : \A j, k \in 1 .. n : j < k => g[j] < g[k]
    BY <1>2, <2>3
  <2> DEFINE f == [j \in 1 .. n + 1 |-> IF j = 1 THEN x ELSE g[j - 1]]
  <2>5. \A j \in 1 .. n + 1 : j # 1 => j - 1 \in 1 .. n
    OBVIOUS
  <2>6. f \in [1 .. n + 1 -> S]
    BY <2>5
  <2>7. ASSUME NEW j \in 1 .. n + 1, NEW k \in 1 .. n + 1, j < k
        PROVE  f[j] < f[k]
    <3>1. k # 1 /\ k - 1 \in 1 .. n /\ f[k] = g[k - 1] /\ g[k - 1] \in S \ {x}
      BY <2>5, <2>7
    <3>2. CASE j = 1
      <4>1. f[j] = x /\ x \in Nat /\ f[k] \in Nat /\ x <= f[k] /\ f[k] # x
        BY <2>2, <3>1, <3>2
      <4> HIDE DEF f
      <4> QED
        BY <4>1
    <3>3. CASE j # 1
      <4>1. j - 1 \in 1 .. n /\ f[j] = g[j - 1] /\ j - 1 < k - 1
        BY <2>5, <2>7, <3>3
      <4> QED
        BY <2>4, <3>1, <4>1
    <3> QED
      BY <3>2, <3>3
  <2> HIDE DEF f
  <2> QED
    BY <2>6, <2>7
<1>3. 0 \in P /\ \A n \in Nat : n \in P => n + 1 \in P
  <2> HIDE DEF Ok
  <2> QED
    BY <1>1, <1>2
<1> HIDE DEF P
<1>4. Nat \subseteq P
  BY <1>3, SetInduction
<1> QED
  BY <1>4 DEF P

\* Ascending lists the whole of a finite set, and nothing twice.
LEMMA AscendingLists ==
  ASSUME NEW S \in SUBSET Nat, IsFiniteSet(S)
  PROVE  LET f == Ascending(S) IN
         /\ Cardinality(S) \in Nat
         /\ f \in [1 .. Cardinality(S) -> S]
         /\ \A j, k \in 1 .. Cardinality(S) : f[j] = f[k] => j = k
         /\ \A i \in S : \E k \in 1 .. Cardinality(S) : f[k] = i
<1> DEFINE n == Cardinality(S)
<1> DEFINE f == Ascending(S)
<1>1. n \in Nat
  BY FS_CardinalityType
<1> HIDE DEF n
<1>2. \E g \in [1 .. n -> S] : \A j, k \in 1 .. n : j < k => g[j] < g[k]
  BY <1>1, CanAscend DEF n
<1>3. \E g \in [1 .. n -> S] : \A j, k \in DOMAIN g : j < k => g[j] < g[k]
  BY <1>2
<1>4. f \in [1 .. n -> S] /\ \A j, k \in 1 .. n : j < k => f[j] < f[k]
  BY <1>3 DEF Ascending, n
<1> HIDE DEF f
<1>5. ASSUME NEW j \in 1 .. n, NEW k \in 1 .. n, f[j] = f[k]
      PROVE  j = k
  <2>1. f[j] \in Nat /\ f[k] \in Nat
    BY <1>4
  <2>2. ~(f[j] < f[k]) /\ ~(f[k] < f[j])
    BY <1>5, <2>1
  <2>3. ~(j < k) /\ ~(k < j)
    BY <1>4, <2>2
  <2> QED
    BY <1>1, <2>3
<1>6. f \in Injection(1 .. n, S)
  BY <1>4, <1>5 DEF Injection, IsInjective
<1>7. Cardinality(1 .. n) = n
  BY <1>1, FS_Interval
<1>8. f \in Surjection(1 .. n, S)
  BY <1>6, <1>7, FS_Injection DEF n
<1> QED
  BY <1>1, <1>4, <1>5, <1>8 DEF Surjection, f, n

----------------------------------------------------------------------------
(* What the steps of an import do to its associations.                      *)

\* The constants, as the state sees them.
LEMMA ConstantsKnown ==
  ASSUME Typed
  PROVE  /\ vendor \in {"mthreads", "tianshu", "cann"} /\ 0 \notin Ops
         /\ Canonical \in [Names -> Names] /\ KernelOf \in [Ops -> Names]
         /\ Rows[vendor] \subseteq RowRecords
  BY ImportAssumption, ExportAssumption DEF Typed, Names

\* An association made of a row has what the row says, and no op or event yet.
LEMMA RowAssociation ==
  ASSUME NEW source \in Files, NEW row \in RowRecords
  PROVE  /\ Association(source, row) \in Associations
         /\ Association(source, row).source = source
         /\ Association(source, row).scope = 0 /\ Association(source, row).event = 0
         /\ Association(source, row).start = row.start
         /\ Association(source, row).end = row.end
<1>1. /\ row.name \in Names /\ row.device \in Nat /\ row.corr \in Nat /\ row.task \in Nat
      /\ row.start \in Nat /\ row.end \in Nat
  BY DEF RowRecords, Names
<1>3. Association(source, row) \in Associations
  BY <1>1 DEF Association, Associations
<1> QED
  BY <1>3 DEF Association

\* An association made of event i.
OfEvent(source, e, i) == [Association(source, e) EXCEPT !.scope = e.op, !.event = i]

\* An association made of an event has the op and the times of the event.
LEMMA EventAssociation ==
  ASSUME NEW source \in Files, NEW e \in AllEvents, NEW i \in Nat
  PROVE  /\ OfEvent(source, e, i) \in Associations
         /\ OfEvent(source, e, i).source = source /\ OfEvent(source, e, i).scope = e.op
         /\ OfEvent(source, e, i).event = i
         /\ OfEvent(source, e, i).start = e.start /\ OfEvent(source, e, i).end = e.end
<1>1. /\ e.name \in Names /\ e.device \in Nat /\ e.corr \in Nat /\ e.task \in Nat
      /\ e.start \in Nat /\ e.end \in Nat /\ e.op \in Ops \cup {0}
  BY DEF AllEvents, EventRecords, Names
<1>2. /\ Association(source, e) \in Associations
      /\ Association(source, e).source = source
      /\ Association(source, e).start = e.start /\ Association(source, e).end = e.end
  BY <1>1 DEF Association, Associations
<1> QED
  BY <1>1, <1>2 DEF Associations, OfEvent

\* The nearest of some events is one of them.
LEMMA NearestIn ==
  ASSUME Typed, NEW a \in Associations, NEW S \in SUBSET DOMAIN events, S # {}
  PROVE  Nearest(a, S) \in S
<1> DEFINE scores == {Score(a, i) : i \in S}
<1>1. DOMAIN events \subseteq Nat /\ \A i \in S : events[i] \in AllEvents
  BY DEF Typed
<1>2. \A x, y \in Nat : Dist(x, y) \in Nat
  BY DEF Dist
<1>3. \A i \in S : Score(a, i) \in Nat
  <2> SUFFICES ASSUME NEW i \in S PROVE Score(a, i) \in Nat
    OBVIOUS
  <2>1. /\ a.start \in Nat /\ a.end \in Nat
        /\ events[i].start \in Nat /\ events[i].end \in Nat
    BY <1>1 DEF AllEvents, EventRecords, Associations
  <2>2. Dist(a.start, events[i].start) \in Nat /\ Dist(a.end, events[i].end) \in Nat
    BY <1>2, <2>1
  <2> QED
    BY <2>2 DEF Score
<1>4. scores \in SUBSET Nat /\ scores # {}
  BY <1>3
<1>5. PICK m \in scores : \A s \in scores : m <= s
  <2> HIDE DEF scores
  <2> QED
    BY <1>4, FirstIn
<1> DEFINE best == {i \in S : Score(a, i) = m}
<1>6. best \in SUBSET Nat /\ best # {}
  BY <1>1, <1>5
<1>7. PICK i \in best : \A j \in best : i <= j
  <2> HIDE DEF best
  <2> QED
    BY <1>6, FirstIn
<1>8. \A j \in S : \/ Score(a, i) < Score(a, j)
                   \/ Score(a, i) = Score(a, j) /\ i <= j
  <2> SUFFICES ASSUME NEW j \in S
               PROVE  \/ Score(a, i) < Score(a, j)
                      \/ Score(a, i) = Score(a, j) /\ i <= j
    OBVIOUS
  <2>1. Score(a, i) = m /\ m \in Nat /\ Score(a, j) \in Nat /\ m <= Score(a, j)
    BY <1>3, <1>5, <1>7
  <2>2. Score(a, j) = m => i <= j
    BY <1>7
  <2> QED
    BY <2>1, <2>2
<1>9. i \in S
  BY <1>7
<1> HIDE DEF best, scores
<1> QED
  BY <1>8, <1>9 DEF Nearest

\* What a row adds: on Moore Threads it takes an event that was free, with its op, or
\* has no op; on Tianshu it has none; on CANN it is still to be matched.
LEMMA ReadAdds ==
  ASSUME Typed, NEW row \in Rows[vendor], ReadRow(row)
  PROVE  \E a \in Associations :
    /\ artifact' = Append(artifact, a)
    /\ vendor = "mthreads" =>
         /\ a.source = "mupti_csv"
         /\ \/ a.scope = 0 /\ used' = used
            \/ \E i \in DOMAIN events \ used :
                 /\ a.event = i /\ a.scope = events[i].op /\ used' = used \cup {i}
                 /\ Timed(events[i]) => Timed(a)
    /\ vendor = "tianshu" => a.source = "ixkn_csv" /\ a.scope = 0
    /\ vendor = "cann" =>
         /\ a.source \in {"aclprof_op_summary", "msprof_mstx"}
         /\ a.scope = 0 /\ a.event = 0
<1>1. /\ row \in RowRecords /\ DOMAIN events \subseteq Nat
      /\ \A i \in DOMAIN events : events[i] \in AllEvents
  BY ConstantsKnown DEF Typed
<1>2. \A a : Free(a) # {} => First(Free(a)) \in DOMAIN events \ used
  <2> SUFFICES ASSUME NEW a, Free(a) # {}
               PROVE  First(Free(a)) \in DOMAIN events \ used
    OBVIOUS
  <2>1. Free(a) \in SUBSET Nat /\ Free(a) \subseteq DOMAIN events \ used
    BY <1>1 DEF Free
  <2> QED
    BY <2>1, FirstIn
<1>3. CASE MthreadsRow(row)
  <2> DEFINE a == Association("mupti_csv", row)
  <2>1. a \in Associations /\ a.source = "mupti_csv" /\ a.scope = 0 /\ a.event = 0
        /\ a.start = row.start /\ a.end = row.end
    BY <1>1, RowAssociation DEF Files
  <2>2. vendor = "mthreads"
    BY <1>3 DEF MthreadsRow
  <2>3. \/ row.start > 0 /\ row.end > row.start
        \/ row.start = 0 /\ row.end = 0
    BY <2>2, ExportAssumption DEF Typed
  <2>4. row.start \in Nat /\ row.end \in Nat
    BY <1>1 DEF RowRecords
  <2> HIDE DEF a
  <2>5. CASE Free(a) = {}
    <3>1. /\ artifact' = Append(artifact, [a EXCEPT !.state = "unmatched"])
          /\ used' = used
      BY <1>3, <2>5 DEF MthreadsRow, a
    <3>2. /\ [a EXCEPT !.state = "unmatched"] \in Associations
          /\ [a EXCEPT !.state = "unmatched"].source = "mupti_csv"
          /\ [a EXCEPT !.state = "unmatched"].scope = 0
      BY <2>1 DEF Associations
    <3> QED
      BY <2>2, <3>1, <3>2
  <2>6. CASE Free(a) # {}
    <3> DEFINE i == First(Free(a))
    <3> DEFINE b == TakesMthreads(a, i)
    <3>1. artifact' = Append(artifact, b) /\ used' = used \cup {i}
      BY <1>3, <2>6 DEF MthreadsRow, Uses, a
    <3>2. i \in DOMAIN events \ used
      BY <1>2, <2>6
    <3> HIDE DEF i
    <3>3. events[i] \in AllEvents
      BY <1>1, <3>2
    <3>4. /\ b \in Associations /\ b.source = "mupti_csv" /\ b.scope = events[i].op
          /\ b.event = i
          /\ b.start = Or(row.start, events[i].start) /\ b.end = Or(row.end, events[i].end)
      BY <1>1, <2>1, <3>2, <3>3
         DEF TakesMthreads, Associations, AllEvents, EventRecords, Or
    <3> HIDE DEF b
    <3>5. Timed(events[i]) => Timed(b)
      BY <2>3, <2>4, <3>4 DEF Timed, Or
    <3> QED
      BY <2>2, <3>1, <3>2, <3>4, <3>5
  <2> QED
    BY <2>5, <2>6
<1>4. CASE TianshuRow(row)
  <2> DEFINE a == Association("ixkn_csv", row)
  <2>1. a \in Associations /\ a.source = "ixkn_csv" /\ a.scope = 0
    BY <1>1, RowAssociation DEF Files
  <2>2. vendor = "tianshu"
    BY <1>4 DEF TianshuRow
  <2> HIDE DEF a
  <2>3. CASE Free(a) = {}
    <3>1. artifact' = Append(artifact, IF events = <<>> THEN a
                                       ELSE [a EXCEPT !.state = "unmatched"])
      BY <1>4, <2>3 DEF TianshuRow, a
    <3>2. /\ [a EXCEPT !.state = "unmatched"] \in Associations
          /\ [a EXCEPT !.state = "unmatched"].source = "ixkn_csv"
          /\ [a EXCEPT !.state = "unmatched"].scope = 0
      BY <2>1 DEF Associations
    <3> QED
      BY <2>1, <2>2, <3>1, <3>2
  <2>4. CASE Free(a) # {}
    <3> DEFINE i == First(Free(a))
    <3> DEFINE b == TakesTianshu(a, i)
    <3>1. artifact' = Append(artifact, b)
      BY <1>4, <2>4 DEF TianshuRow, a
    <3>2. i \in DOMAIN events
      BY <1>2, <2>4
    <3> HIDE DEF i
    <3>3. events[i] \in AllEvents /\ i \in Nat
      BY <1>1, <3>2
    <3>4. b \in Associations /\ b.source = "ixkn_csv" /\ b.scope = 0
      BY <2>1, <3>3 DEF TakesTianshu, Associations, AllEvents, EventRecords, Or
    <3> HIDE DEF b
    <3> QED
      BY <2>2, <3>1, <3>4
  <2> QED
    BY <2>3, <2>4
<1>5. CASE OpSummaryRow(row) \/ SupplementalRow(row)
  <2>1. PICK source \in {"aclprof_op_summary", "msprof_mstx"} :
          artifact' = Append(artifact, Association(source, row))
    BY <1>5 DEF OpSummaryRow, SupplementalRow
  <2>2. vendor = "cann"
    BY <1>5 DEF OpSummaryRow, SupplementalRow
  <2>3. /\ Association(source, row) \in Associations
        /\ Association(source, row).source = source
        /\ Association(source, row).scope = 0 /\ Association(source, row).event = 0
    BY <1>1, RowAssociation DEF Files
  <2> QED
    BY <2>1, <2>2, <2>3
<1> QED
  BY <1>3, <1>4, <1>5 DEF ReadRow

\* What the import adds by itself: one association for each of the events, with its op
\* and its times.
LEMMA EventsAdded ==
  ASSUME Typed, NEW S \in SUBSET DOMAIN events, NEW source \in Files
  PROVE  /\ OfEvents(S, source) \in Seq(Associations)
         /\ \A k \in DOMAIN OfEvents(S, source) :
              /\ OfEvents(S, source)[k].source = source
              /\ OfEvents(S, source)[k].event \in S
              /\ OfEvents(S, source)[k].scope = events[OfEvents(S, source)[k].event].op
              /\ Timed(events[OfEvents(S, source)[k].event]) => Timed(OfEvents(S, source)[k])
              /\ \A l \in DOMAIN OfEvents(S, source) :
                   OfEvents(S, source)[k].event = OfEvents(S, source)[l].event => k = l
         /\ \A i \in S : \E k \in DOMAIN OfEvents(S, source) :
              OfEvents(S, source)[k].event = i
<1> DEFINE q == OfEvents(S, source)
<1> DEFINE f == Ascending(S)
<1> DEFINE n == Cardinality(S)
<1>1. /\ DOMAIN events = 1 .. Len(events) /\ Len(events) \in Nat
      /\ \A i \in S : i \in Nat /\ events[i] \in AllEvents
  BY DEF Typed
<1>2. IsFiniteSet(S) /\ S \in SUBSET Nat
  <2>1. IsFiniteSet(1 .. Len(events))
    BY <1>1, FS_Interval
  <2> QED
    BY <1>1, <2>1, FS_Subset
<1>3. /\ n \in Nat /\ f \in [1 .. n -> S]
      /\ \A j, k \in 1 .. n : f[j] = f[k] => j = k
      /\ \A i \in S : \E k \in 1 .. n : f[k] = i
  BY <1>2, AscendingLists
<1> DEFINE A(i) == OfEvent(source, events[i], i)
<1>4. \A i \in S :
        /\ A(i) \in Associations /\ A(i).source = source /\ A(i).scope = events[i].op
        /\ A(i).event = i /\ A(i).start = events[i].start /\ A(i).end = events[i].end
  <2> SUFFICES ASSUME NEW i \in S
               PROVE  /\ A(i) \in Associations /\ A(i).source = source
                      /\ A(i).scope = events[i].op /\ A(i).event = i
                      /\ A(i).start = events[i].start /\ A(i).end = events[i].end
    OBVIOUS
  <2> HIDE DEF f, n, q
  <2>1. events[i] \in AllEvents /\ i \in Nat
    BY <1>1
  <2> QED
    BY <2>1, EventAssociation
<1>5. q = [k \in DOMAIN f |-> A(f[k])]
  BY DEF OfEvents, OfEvent
<1> HIDE DEF f, n, A, q
<1>6. DOMAIN q = 1 .. n /\ \A k \in 1 .. n : f[k] \in S /\ q[k] = A(f[k])
  BY <1>3, <1>5
<1>7. q \in Seq(Associations)
  BY <1>3, <1>4, <1>5
<1>8. ASSUME NEW k \in DOMAIN q
      PROVE  /\ q[k].source = source /\ q[k].event \in S
             /\ q[k].scope = events[q[k].event].op
             /\ Timed(events[q[k].event]) => Timed(q[k])
             /\ q[k].event = f[k]
  BY <1>4, <1>6 DEF Timed
<1>9. \A i \in S : \E k \in DOMAIN q : q[k].event = i
  BY <1>3, <1>6, <1>8
<1>10. \A k, l \in DOMAIN q : q[k].event = q[l].event => k = l
  BY <1>3, <1>6, <1>8
<1> QED
  BY <1>7, <1>8, <1>9, <1>10 DEF q

OrderType == [event : [Names -> Nat \ {0}], range : [Names -> Nat \ {0}]]

\* A summary row looks for events among those there are.
LEMMA TiersKnown ==
  ASSUME NEW a
  PROVE  DOMAIN Tiers(a) = 1 .. 5 /\ \A k \in 1 .. 5 : Tiers(a)[k] \in SUBSET DOMAIN events
  BY DEF Tiers, EventsWith

\* What matching does to the association it comes to.  A range of the tool takes the
\* first event of its kernel from where the last one went, or stays as it is.
Ranged(a, b) ==
  \/ b = a /\ order' = order
  \/ \E i \in DOMAIN events :
       /\ b.event = i /\ b.scope = events[i].op
       /\ Canonical[b.name] = Canonical[a.name]
       /\ Canonical[events[i].name] = Canonical[a.name]
       /\ order.event[Canonical[a.name]] <= i
       /\ order'.event = [order.event EXCEPT ![Canonical[a.name]] = i + 1]

\* A range of the tool is matched so, and keeps the types.
LEMMA RangeStep ==
  ASSUME Typed, at \in DOMAIN artifact, MatchRange(artifact[at])
  PROVE  \E b \in Associations :
           /\ artifact' = [artifact EXCEPT ![at] = b] /\ order' \in OrderType
           /\ b.source = artifact[at].source /\ Ranged(artifact[at], b)
<1> DEFINE a == artifact[at]
<1>1. a \in Associations /\ order \in OrderType
  BY DEF Typed, OrderType
<1>2. /\ a.name \in Names /\ Canonical[a.name] \in Names
      /\ order.event[Canonical[a.name]] \in Nat \ {0}
  BY <1>1, ConstantsKnown DEF Associations, OrderType
<1>3. /\ DOMAIN events = 1 .. Len(events) /\ Len(events) \in Nat
      /\ \A i \in DOMAIN events : events[i] \in AllEvents
  BY DEF Typed
<1> HIDE DEF a
<1>4. CASE UNCHANGED <<artifact, order>>
  <2>1. artifact' = [artifact EXCEPT ![at] = a]
    BY <1>4 DEF a, Typed
  <2> QED
    BY <1>1, <1>4, <2>1 DEF Ranged, a
<1>5. CASE ~UNCHANGED <<artifact, order>>
  <2> DEFINE i == First(InOrder(a))
  <2> DEFINE b == [a EXCEPT !.scope = events[i].op, !.name = events[i].name, !.event = i,
                            !.device = Or(@, events[i].device)]
  <2>1. /\ InOrder(a) # {} /\ artifact' = [artifact EXCEPT ![at] = b]
        /\ order' = [order EXCEPT !.event = NextEvent(a)]
    BY <1>5 DEF MatchRange, a
  <2>2. InOrder(a) \in SUBSET Nat
    BY <1>2, <1>3 DEF InOrder
  <2>3. i \in InOrder(a)
    BY <2>1, <2>2, FirstIn
  <2>4. /\ NextEvent(a) = [order.event EXCEPT ![Canonical[a.name]] = i + 1]
    BY DEF NextEvent
  <2> HIDE DEF i
  <2>5. /\ i \in DOMAIN events /\ i \in Nat /\ order.event[Canonical[a.name]] <= i
        /\ Canonical[a.name] = Canonical[events[i].name]
    BY <1>2, <1>3, <2>3 DEF InOrder, SameKernel
  <2>6. events[i] \in AllEvents
    BY <1>3, <2>5
  <2>7. /\ b \in Associations /\ b.source = a.source /\ b.event = i
        /\ b.scope = events[i].op /\ b.name = events[i].name
    BY <1>1, <2>5, <2>6 DEF Associations, AllEvents, EventRecords, Or, Names
  <2> HIDE DEF b
  <2>8. NextEvent(a) \in [Names -> Nat \ {0}]
    BY <1>1, <1>2, <2>4, <2>5 DEF OrderType
  <2>9. order' \in OrderType /\ order'.event = NextEvent(a)
    BY <1>1, <2>1, <2>8 DEF OrderType
  <2>10. Ranged(a, b)
    BY <2>4, <2>5, <2>7, <2>9 DEF Ranged
  <2> QED
    BY <2>1, <2>7, <2>9, <2>10 DEF a
<1> QED
  BY <1>4, <1>5

\* A summary row is matched with any event, and leaves the launch order alone.
LEMMA SummaryStep ==
  ASSUME Typed, at \in DOMAIN artifact, MatchSummary(artifact[at])
  PROVE  \E b \in Associations :
           /\ artifact' = [artifact EXCEPT ![at] = b] /\ order' \in OrderType
           /\ b.source = artifact[at].source /\ order'.event = order.event
<1> DEFINE a == artifact[at]
<1> DEFINE tiers == {k \in DOMAIN Tiers(a) : Tiers(a)[k] # {}}
<1>1. /\ a \in Associations /\ order \in OrderType
      /\ artifact \in Seq(Associations) /\ at \in Nat
  BY DEF Typed, OrderType
<1>2. /\ DOMAIN events = 1 .. Len(events) /\ Len(events) \in Nat
      /\ \A i \in DOMAIN events : events[i] \in AllEvents
  BY DEF Typed
<1>3. CASE events = <<>>
  <2>1. artifact' = [artifact EXCEPT ![at] = a] /\ order' = order
    BY <1>1, <1>3 DEF MatchSummary
  <2> QED
    BY <1>1, <2>1
<1>4. CASE events # <<>> /\ tiers # {}
  <2> DEFINE i == Nearest(a, Tiers(a)[First(tiers)])
  <2> DEFINE b == Matched(a, i)
  <2>1. artifact' = [artifact EXCEPT ![at] = b] /\ order' = order
    BY <1>4 DEF MatchSummary
  <2>2. tiers \in SUBSET Nat /\ First(tiers) \in tiers
    <3>1. tiers \in SUBSET Nat /\ tiers # {}
      BY <1>4, TiersKnown
    <3> HIDE DEF tiers
    <3> QED
      BY <3>1, FirstIn
  <2>3. Tiers(a)[First(tiers)] \in SUBSET DOMAIN events /\ Tiers(a)[First(tiers)] # {}
    BY <2>2, TiersKnown
  <2>4. i \in DOMAIN events
    BY <1>1, <2>3, NearestIn
  <2> HIDE DEF i
  <2>5. events[i] \in AllEvents /\ i \in Nat
    BY <1>2, <2>4
  <2>6. b \in Associations /\ b.source = a.source
    BY <1>1, <2>5 DEF Matched, Associations, AllEvents, EventRecords, Or
  <2> HIDE DEF b
  <2> QED
    BY <1>1, <2>1, <2>6
<1>5. CASE events # <<>> /\ tiers = {} /\ LaunchRanges(a) = {}
  <2>1. artifact' = [artifact EXCEPT ![at].state = "unmatched"] /\ order' = order
    BY <1>5 DEF MatchSummary
  <2>2. artifact' = [artifact EXCEPT ![at] = [a EXCEPT !.state = "unmatched"]]
    BY <1>1, <2>1
  <2>3. /\ [a EXCEPT !.state = "unmatched"] \in Associations
        /\ [a EXCEPT !.state = "unmatched"].source = a.source
    BY <1>1 DEF Associations
  <2> QED
    BY <1>1, <2>1, <2>2, <2>3
<1>6. CASE events # <<>> /\ tiers = {} /\ LaunchRanges(a) # {}
  <2> DEFINE j == First(LaunchRanges(a))
  <2> DEFINE b == [a EXCEPT !.scope = artifact[j].scope, !.name = artifact[j].name,
                            !.merged = TRUE]
  <2>1. /\ artifact' = [artifact EXCEPT ![at].scope = artifact[j].scope,
                                        ![at].name = artifact[j].name, ![at].merged = TRUE]
        /\ order' = [order EXCEPT !.range[Canonical[a.name]] = j + 1]
    BY <1>6 DEF MatchSummary
  <2>2. /\ a.name \in Names /\ Canonical[a.name] \in Names
        /\ order.range[Canonical[a.name]] \in Nat \ {0}
    BY <1>1, ConstantsKnown DEF Associations, OrderType
  <2>3. LaunchRanges(a) \in SUBSET Nat
    BY <1>1, <2>2 DEF LaunchRanges
  <2>4. j \in LaunchRanges(a)
    BY <1>6, <2>3, FirstIn
  <2> HIDE DEF j
  <2>5. j \in DOMAIN artifact /\ j \in Nat
    BY <1>1, <2>2, <2>4 DEF LaunchRanges
  <2>6. artifact[j] \in Associations
    BY <1>1, <2>5
  <2>7. artifact' = [artifact EXCEPT ![at] = b]
    BY <1>1, <2>1
  <2>8. b \in Associations /\ b.source = a.source
    BY <1>1, <2>6 DEF Associations
  <2> HIDE DEF b
  <2>9. order' \in OrderType /\ order'.event = order.event
    <3>1. [order.range EXCEPT ![Canonical[a.name]] = j + 1] \in [Names -> Nat \ {0}]
      BY <1>1, <2>2, <2>5 DEF OrderType
    <3>2. order' = [order EXCEPT !.range = [order.range EXCEPT ![Canonical[a.name]] = j + 1]]
      BY <1>1, <2>1 DEF OrderType
    <3> QED
      BY <1>1, <3>1, <3>2 DEF OrderType
  <2> QED
    BY <2>7, <2>8, <2>9
<1> QED
  BY <1>3, <1>4, <1>5, <1>6

----------------------------------------------------------------------------
(* What every step keeps.                                                   *)

\* The host's events are those of ops.
LEMMA HostOps ==
  ASSUME Typed
  PROVE  \A i \in DOMAIN runtimeEvents : runtimeEvents[i].op \in Ops
<1>1. \A e \in EventRecords(Ops) : e.op \in Ops
  BY DEF EventRecords
<1>2. runtimeEvents \in Seq(EventRecords(Ops))
  BY DEF Typed
<1> QED
  BY <1>1, <1>2

\* Every step keeps the account of what the CANN libraries have.
LEMMA HeldStep ==
  ASSUME Typed, Held,
         [Next]_vars
  PROVE  Held'
<1> USE DEF Held, Phases
<1>1. CASE Start
  <2>1. PICK mstx, stream, domain \in BOOLEAN,
             outcome \in {"unavailable", "initFails", "noConfig", "startFails", "running"} :
          /\ mstx => options.ranges
          /\ stream \/ domain => mstx
          /\ outcome # "unavailable" => options.runtime
          /\ held' = [mstx |-> mstx, stream |-> stream, domain |-> domain,
                      prof |-> outcome = "running"]
          /\ sdk' = [sdk EXCEPT !.stream = stream, !.domain = domain,
                                !.prof = ProfAfter(outcome)]
    BY <1>1, Zenon DEF Start
  <2>2. sdk = AllReleased /\ opRanges' = {} /\ phase' = "recording"
    BY <1>1 DEF Start
  <2>3. sdk' = [stream |-> stream, domain |-> domain, prof |-> ProfAfter(outcome),
                ranges |-> {}]
    BY <2>1, <2>2 DEF AllReleased
  <2> DEFINE running == outcome = "running"
  <2>4. running \in BOOLEAN /\ ProfAfter(outcome) = IF running THEN "running" ELSE "off"
    BY DEF ProfAfter
  <2>5. held' = [mstx |-> mstx, stream |-> stream, domain |-> domain, prof |-> running]
    BY <2>1
  <2> HIDE DEF running
  <2>6. /\ held'.stream = stream /\ held'.domain = domain /\ held'.prof = running
        /\ held' \in [mstx : BOOLEAN, stream : BOOLEAN, domain : BOOLEAN, prof : BOOLEAN]
    BY <2>4, <2>5
  <2> QED
    BY <2>2, <2>3, <2>4, <2>6
<1>2. CASE Pause
  BY <1>2 DEF Pause, importVars, cannVars
<1>3. CASE Resume
  BY <1>3 DEF Resume, importVars, cannVars
<1>4. CASE Finalize
  <2>1. /\ phase = "paused" /\ phase' = "importing" /\ opRanges' = {} /\ held' = Nothing
        /\ sdk' = Stopped
    BY <1>4 DEF Finalize
  <2>2. /\ sdk.stream = held.stream /\ sdk.domain = held.domain /\ sdk.ranges = opRanges
        /\ sdk.prof = IF held.prof THEN "running" ELSE "off"
    BY <2>1
  <2>3. (sdk.stream /\ ~held.stream) = FALSE /\ (sdk.domain /\ ~held.domain) = FALSE
    BY <2>2
  <2>4. (IF held.prof THEN "off" ELSE sdk.prof) = "off" /\ sdk.ranges \ opRanges = {}
    BY <2>2
  <2>5. Stopped = AllReleased
    BY <2>3, <2>4 DEF Stopped, AllReleased
  <2>6. Nothing \in [mstx : BOOLEAN, stream : BOOLEAN, domain : BOOLEAN, prof : BOOLEAN]
    BY DEF Nothing
  <2> QED
    BY <2>1, <2>5, <2>6
<1>5. CASE EndRows
  BY <1>5 DEF EndRows, EndRowsMthreads, EndRowsTianshu, EndRowsCann, importVars,
     cannVars
<1>6. CASE MatchNext
  BY <1>6 DEF MatchNext, importVars, cannVars
<1>7. CASE Overlay
  BY <1>7 DEF Overlay, importVars, cannVars
<1>8. CASE \E o \in Ops : StartOp(o)
  BY <1>8 DEF StartOp, MstxStart, importVars, cannVars
<1>9. CASE \E o \in Ops : StopOp(o)
  <2>1. PICK o \in Ops : StopOp(o)
    BY <1>9
  <2>2. phase' = phase /\ held' = held
    BY <2>1 DEF StopOp
  <2>3. CASE phase = "recording"
    <3>1. opRanges' = opRanges \ {o} /\ sdk' = [sdk EXCEPT !.ranges = @ \ (opRanges \cap {o})]
      BY <2>1, <2>3 DEF StopOp
    <3>2. sdk.ranges \ (opRanges \cap {o}) = opRanges \ {o}
      BY <2>3
    <3> QED
      BY <2>2, <2>3, <3>1, <3>2
  <2>4. CASE phase # "recording"
    BY <2>1, <2>2, <2>4 DEF StopOp
  <2> QED
    BY <2>3, <2>4
<1>10. CASE \E row \in Rows[vendor] : ReadRow(row)
  BY <1>10 DEF ReadRow, importVars, cannVars
<1>11. CASE UNCHANGED vars
  BY <1>11 DEF vars, importVars, cannVars
<1> QED
  BY <1>1, <1>2, <1>3, <1>4, <1>5, <1>6, <1>7, <1>8, <1>9, <1>10, <1>11 DEF Next

\* Every step keeps the events of the host to the session.
LEMMA HostStep ==
  ASSUME Typed, HostEvents,
         [Next]_vars
  PROVE  HostEvents'
<1> USE DEF HostEvents
<1>1. CASE Start
  BY <1>1 DEF Start, NothingOpen, Quiet, importVars, cannVars
<1>2. CASE Pause
  BY <1>2 DEF Pause, importVars, cannVars
<1>3. CASE Resume
  BY <1>3 DEF Resume, importVars, cannVars
<1>4. CASE Finalize
  <2>1. opStart' = Quiet /\ runtimeEvents' = <<>> /\ phase' = "importing"
    BY <1>4 DEF Finalize, NothingOpen
  <2>2. (\A o \in Ops : opStart'[o] = 0) /\ DOMAIN runtimeEvents' = {}
    BY <2>1 DEF Quiet
  <2> QED
    BY <2>1, <2>2
<1>5. CASE EndRows
  BY <1>5 DEF EndRows, EndRowsMthreads, EndRowsTianshu, EndRowsCann, importVars,
     cannVars
<1>6. CASE MatchNext
  BY <1>6 DEF MatchNext, importVars, cannVars
<1>7. CASE Overlay
  BY <1>7 DEF Overlay, importVars, cannVars
<1>8. CASE \E o \in Ops : StartOp(o)
  <2>1. PICK o \in Ops : StartOp(o)
    BY <1>8
  <2>2. /\ op[o].state = "idle" /\ op' = [op EXCEPT ![o] = [state |-> "open", since |-> session]]
        /\ now' = now + 1 /\ session' = session /\ phase' = phase
        /\ runtimeEvents' = runtimeEvents
        /\ opStart' = opStart \/ (opStart' = [opStart EXCEPT ![o] = now] /\ phase = "recording")
    BY <2>1 DEF StartOp
  <2>3. op'[o].state = "open" /\ op'[o].since = session /\ \A p \in Ops : p # o => op'[p] = op[p]
    BY <2>2 DEF Typed
  <2>4. /\ opStart \in [Ops -> Nat] /\ now \in Nat /\ opStart[o] = 0
    BY <2>2 DEF Typed
  <2>5. \A p \in Ops : opStart'[p] # 0 =>
          op'[p].state # "idle" /\ op'[p].since = session' /\ opStart'[p] < now'
    BY <2>2, <2>3, <2>4
  <2>6. \A i \in DOMAIN runtimeEvents : runtimeEvents[i].op \in Ops
    BY HostOps
  <2>7. \A i \in DOMAIN runtimeEvents : op'[runtimeEvents[i].op] = op[runtimeEvents[i].op]
    BY <2>2, <2>3, <2>6
  <2> QED
    BY <2>2, <2>5, <2>7
<1>9. CASE \E o \in Ops : StopOp(o)
  <2>1. PICK o \in Ops : StopOp(o)
    BY <1>9
  <2>2. /\ op[o].state = "open" /\ op' = [op EXCEPT ![o].state = "closed"]
        /\ now' = now + 1 /\ session' = session /\ phase' = phase
    BY <2>1 DEF StopOp
  <2>3. /\ op'[o].state = "closed" /\ op'[o].since = op[o].since
        /\ \A p \in Ops : p # o => op'[p] = op[p]
    BY <2>2 DEF Typed
  <2>4. /\ opStart \in [Ops -> Nat] /\ now \in Nat /\ KernelOf \in [Ops -> Names]
        /\ runtimeEvents \in Seq(EventRecords(Ops))
    BY ConstantsKnown DEF Typed
  <2>5. \A i \in DOMAIN runtimeEvents :
          runtimeEvents[i].op \in Ops /\ runtimeEvents[i].op # o
    BY <2>2, HostOps
  <2>6. /\ \A p \in Ops : opStart'[p] # 0 => opStart'[p] = opStart[p]
        /\ opStart' = [opStart EXCEPT ![o] = 0] \/ opStart' = opStart
    BY <2>1, <2>4 DEF StopOp
  <2>7. \A p \in Ops : opStart'[p] # 0 =>
          op'[p].state # "idle" /\ op'[p].since = session' /\ opStart'[p] < now'
    BY <2>2, <2>3, <2>4, <2>6
  <2>8. CASE runtimeEvents' = runtimeEvents
    <3>1. phase \notin {"recording", "paused"} => opStart' = opStart
      BY <2>1 DEF StopOp
    <3> QED
      BY <2>2, <2>3, <2>5, <2>7, <2>8, <3>1
  <2>9. CASE runtimeEvents' # runtimeEvents
    <3>1. /\ phase = "recording" /\ opStart[o] # 0
          /\ runtimeEvents' = Append(runtimeEvents, HostEvent(o))
      BY <2>1, <2>9 DEF StopOp
    <3>2. PICK e : e = HostEvent(o)
      OBVIOUS
    <3>3. e.op = o /\ e.start = opStart[o] /\ e.end = now /\ Timed(e)
      BY <2>4, <3>1, <3>2 DEF HostEvent, Timed
    <3> DEFINE n == Len(runtimeEvents)
    <3>4. /\ n \in Nat /\ DOMAIN runtimeEvents = 1 .. n
          /\ DOMAIN runtimeEvents' = 1 .. n + 1 /\ runtimeEvents'[n + 1] = e
          /\ \A i \in 1 .. n : runtimeEvents'[i] = runtimeEvents[i]
      BY <2>4, <3>1, <3>2
    <3> HIDE DEF n
    <3>5. op[o].since = session
      BY <3>1
    <3>6. ASSUME NEW i \in DOMAIN runtimeEvents'
          PROVE  /\ op'[runtimeEvents'[i].op].state = "closed"
                 /\ op'[runtimeEvents'[i].op].since = session'
                 /\ Timed(runtimeEvents'[i])
                 /\ \A j \in DOMAIN runtimeEvents' :
                      runtimeEvents'[i].op = runtimeEvents'[j].op => i = j
      <4>1. CASE i = n + 1
        BY <2>2, <2>3, <2>5, <3>3, <3>4, <3>5, <4>1
      <4>2. CASE i \in 1 .. n
        <5>1. runtimeEvents'[i] = runtimeEvents[i] /\ i \in DOMAIN runtimeEvents
          BY <3>4, <4>2
        <5>2. /\ op[runtimeEvents[i].op].state = "closed"
              /\ op[runtimeEvents[i].op].since = session /\ Timed(runtimeEvents[i])
              /\ op'[runtimeEvents[i].op] = op[runtimeEvents[i].op]
          BY <2>3, <2>5, <5>1
        <5>3. ASSUME NEW j \in DOMAIN runtimeEvents', runtimeEvents'[i].op = runtimeEvents'[j].op
              PROVE  i = j
          <6>1. j # n + 1
            BY <2>5, <3>3, <3>4, <5>1, <5>3
          <6>2. j \in 1 .. n
            BY <3>4, <6>1
          <6>3. runtimeEvents'[j] = runtimeEvents[j] /\ j \in DOMAIN runtimeEvents
            BY <3>4, <6>2
          <6> QED
            BY <5>1, <5>3, <6>3
        <5> QED
          BY <2>2, <5>1, <5>2, <5>3
      <4> QED
        BY <3>4, <4>1, <4>2
    <3> QED
      BY <2>2, <2>7, <3>1, <3>6
  <2> QED
    BY <2>8, <2>9
<1>10. CASE \E row \in Rows[vendor] : ReadRow(row)
  BY <1>10 DEF ReadRow, importVars, cannVars
<1>11. CASE UNCHANGED vars
  BY <1>11 DEF vars, importVars, cannVars
<1> QED
  BY <1>1, <1>2, <1>3, <1>4, <1>5, <1>6, <1>7, <1>8, <1>9, <1>10, <1>11 DEF Next

\* The events that were drained are of the session that is imported.
LEMMA SessionEventsStep ==
  ASSUME Typed, HostEvents, EventsOfTheSession,
         [Next]_vars
  PROVE  EventsOfTheSession'
<1> USE DEF EventsOfTheSession, Typed
<1>1. CASE Start
  BY <1>1 DEF Start, importVars, cannVars
<1>2. CASE Pause
  BY <1>2 DEF Pause, importVars, cannVars
<1>3. CASE Resume
  BY <1>3 DEF Resume, importVars, cannVars
<1>4. CASE Finalize
  BY <1>4 DEF Finalize, HostEvents, importVars, cannVars
<1>5. CASE EndRows
  BY <1>5 DEF EndRows, EndRowsMthreads, EndRowsTianshu, EndRowsCann, importVars,
     cannVars
<1>6. CASE MatchNext
  BY <1>6 DEF MatchNext, importVars, cannVars
<1>7. CASE Overlay
  BY <1>7 DEF Overlay, importVars, cannVars
<1>8. CASE \E o \in Ops : StartOp(o)
  BY <1>8 DEF StartOp, importVars, cannVars
<1>9. CASE \E o \in Ops : StopOp(o)
  BY <1>9 DEF StopOp, importVars, cannVars
<1>10. CASE \E row \in Rows[vendor] : ReadRow(row)
  BY <1>10 DEF ReadRow, importVars, cannVars
<1>11. CASE UNCHANGED vars
  BY <1>11 DEF vars, importVars, cannVars
<1> QED
  BY <1>1, <1>2, <1>3, <1>4, <1>5, <1>6, <1>7, <1>8, <1>9, <1>10, <1>11 DEF Next

\* Every import has an op once.
LEMMA ImportEventsStep ==
  ASSUME Typed, HostEvents, ImportEvents,
         [Next]_vars
  PROVE  ImportEvents'
<1> USE DEF ImportEvents
<1>1. CASE Start
  BY <1>1 DEF Start, importVars, cannVars
<1>2. CASE Pause
  BY <1>2 DEF Pause, importVars, cannVars
<1>3. CASE Resume
  BY <1>3 DEF Resume, importVars, cannVars
<1>4. CASE Finalize
  <2>1. /\ due' = {runtimeEvents[i].op : i \in DOMAIN runtimeEvents} /\ vendor' = vendor
        /\ \E listed \in IF vendor = "cann" THEN Natives ELSE {<<>>} :
             events' = IF listed # <<>> THEN listed ELSE runtimeEvents
    BY <1>4 DEF Finalize
  <2>2. CASE events' = runtimeEvents
    <3>1. \A i \in DOMAIN runtimeEvents : runtimeEvents[i].op # 0 /\ Timed(runtimeEvents[i])
      BY ConstantsKnown, HostOps DEF HostEvents
    <3>2. \A i, j \in DOMAIN runtimeEvents : runtimeEvents[i].op = runtimeEvents[j].op => i = j
      BY DEF HostEvents
    <3> QED
      BY <2>1, <2>2, <3>1, <3>2
  <2>3. CASE events' # runtimeEvents
    <3>1. vendor = "cann" /\ events' \in Natives
      BY <2>1, <2>3
    <3>2. events' \in Seq(EventRecords({0}))
      BY <3>1, ExportAssumption
    <3>3. \A e \in EventRecords({0}) : e.op = 0
      BY DEF EventRecords
    <3>4. \A i \in DOMAIN events' : events'[i].op = 0
      BY <3>2, <3>3
    <3> QED
      BY <2>1, <3>1, <3>4
  <2> QED
    BY <2>2, <2>3
<1>5. CASE EndRows
  BY <1>5 DEF EndRows, EndRowsMthreads, EndRowsTianshu, EndRowsCann, importVars,
     cannVars
<1>6. CASE MatchNext
  BY <1>6 DEF MatchNext, importVars, cannVars
<1>7. CASE Overlay
  BY <1>7 DEF Overlay, importVars, cannVars
<1>8. CASE \E o \in Ops : StartOp(o)
  BY <1>8 DEF StartOp, importVars, cannVars
<1>9. CASE \E o \in Ops : StopOp(o)
  BY <1>9 DEF StopOp, importVars, cannVars
<1>10. CASE \E row \in Rows[vendor] : ReadRow(row)
  BY <1>10 DEF ReadRow, importVars, cannVars
<1>11. CASE UNCHANGED vars
  BY <1>11 DEF vars, importVars, cannVars
<1> QED
  BY <1>1, <1>2, <1>3, <1>4, <1>5, <1>6, <1>7, <1>8, <1>9, <1>10, <1>11 DEF Next

----------------------------------------------------------------------------
(* What every step keeps of the associations.                               *)

\* What the end of the rows adds: nothing before CANN's matching and on Tianshu,
\* otherwise associations of events that no row has.
LEMMA EndAdds ==
  ASSUME Typed, EndRows
  PROVE  \/ /\ artifact' = artifact
            /\ \/ vendor = "tianshu" /\ phase' = "matched"
               \/ vendor = "cann" /\ phase' = "matching"
         \/ /\ phase' = "matched"
            /\ \E S \in SUBSET DOMAIN events, source \in Files :
                 /\ artifact' = artifact \o OfEvents(S, source)
                 /\ \/ vendor = "mthreads" /\ S = DOMAIN events \ used
                       /\ source = "runtime_base_fallback"
                    \/ vendor = "cann"
                       /\ source \in {"aclprof_task_time", "runtime_base_fallback"}
                       /\ \A j \in DOMAIN artifact : artifact[j].source # "aclprof_op_summary"
<1>1. CASE EndRowsMthreads
  <2>1. DOMAIN events \ used \in SUBSET DOMAIN events /\ "runtime_base_fallback" \in Files
    BY DEF Files
  <2> QED
    BY <1>1, <2>1 DEF EndRowsMthreads
<1>2. CASE EndRowsTianshu
  BY <1>2 DEF EndRowsTianshu
<1>3. CASE EndRowsCann
  <2> DEFINE S == {i \in DOMAIN events : Timed(events[i])}
  <2> DEFINE source == IF native THEN "aclprof_task_time" ELSE "runtime_base_fallback"
  <2>1. S \in SUBSET DOMAIN events /\ source \in Files
        /\ source \in {"aclprof_task_time", "runtime_base_fallback"}
    BY DEF Files
  <2>2. vendor = "cann"
    BY <1>3 DEF EndRowsCann
  <2>3. CASE \E j \in DOMAIN artifact : artifact[j].source = "aclprof_op_summary"
    BY <1>3, <2>3 DEF EndRowsCann
  <2>4. CASE ~ \E j \in DOMAIN artifact : artifact[j].source = "aclprof_op_summary"
    <3>1. artifact' = artifact \o OfEvents(S, source) /\ phase' = "matched"
      BY <1>3, <2>4 DEF EndRowsCann
    <3> HIDE DEF S, source
    <3> QED
      BY <2>1, <2>2, <2>4, <3>1
  <2> QED
    BY <2>3, <2>4
<1> QED
  BY <1>1, <1>2, <1>3 DEF EndRows

\* A step of the matching ends it or changes the association it comes to.
LEMMA MatchStep ==
  ASSUME Typed, MatchNext
  PROVE  \/ artifact' = artifact /\ order' = order /\ at' = at /\ phase' = "matched"
         \/ /\ phase' = phase /\ at' = at + 1 /\ at \in DOMAIN artifact
            /\ \E b \in Associations :
                 /\ artifact' = [artifact EXCEPT ![at] = b] /\ order' \in OrderType
                 /\ b.source = artifact[at].source
                 /\ IF b.source = "msprof_mstx" THEN Ranged(artifact[at], b)
                    ELSE order'.event = order.event
<1>1. CASE at > Len(artifact)
  BY <1>1 DEF MatchNext
<1>2. CASE ~(at > Len(artifact))
  <2>1. at \in DOMAIN artifact
    BY <1>2 DEF Typed
  <2>2. phase' = phase /\ at' = at + 1
    BY <1>2 DEF MatchNext
  <2>3. CASE artifact[at].source = "msprof_mstx"
    BY <1>2, <2>1, <2>2, <2>3, RangeStep DEF MatchNext
  <2>4. CASE artifact[at].source # "msprof_mstx"
    BY <1>2, <2>1, <2>2, <2>4, SummaryStep DEF MatchNext
  <2> QED
    BY <2>3, <2>4
<1> QED
  BY <1>1, <1>2

\* Joining two lists of associations.
LEMMA Joined ==
  ASSUME NEW s \in Seq(Associations), NEW q \in Seq(Associations)
  PROVE  /\ s \o q \in Seq(Associations)
         /\ DOMAIN (s \o q) = 1 .. Len(s) + Len(q)
         /\ DOMAIN s = 1 .. Len(s) /\ DOMAIN q = 1 .. Len(q)
         /\ Len(s) \in Nat /\ Len(q) \in Nat
         /\ \A j \in DOMAIN s : (s \o q)[j] = s[j]
         /\ \A k \in DOMAIN q : Len(s) + k \in DOMAIN (s \o q) /\ (s \o q)[Len(s) + k] = q[k]
         /\ \A j \in DOMAIN (s \o q) : j \notin DOMAIN s =>
              j - Len(s) \in DOMAIN q /\ (s \o q)[j] = q[j - Len(s)]
  OBVIOUS

\* Replacing an association.
LEMMA Replaced ==
  ASSUME NEW s \in Seq(Associations), NEW i, NEW b \in Associations
  PROVE  /\ [s EXCEPT ![i] = b] \in Seq(Associations)
         /\ DOMAIN [s EXCEPT ![i] = b] = DOMAIN s
         /\ i \in DOMAIN s => [s EXCEPT ![i] = b][i] = b
         /\ \A j \in DOMAIN s : j # i => [s EXCEPT ![i] = b][j] = s[j]
<1>1. s \in [1 .. Len(s) -> Associations] /\ Len(s) \in Nat
  OBVIOUS
<1>2. [s EXCEPT ![i] = b] \in [1 .. Len(s) -> Associations]
  BY <1>1
<1> QED
  BY <1>1, <1>2

\* Every step keeps the types.
LEMMA TypedStep ==
  ASSUME Typed,
         [Next]_vars
  PROVE  Typed'
<1> USE DEF Typed, Phases, OrderType
<1>1. CASE Start
  <2>1. artifact' \in Seq(Associations) /\ at' \in Nat \ {0}
    BY <1>1 DEF Start
  <2>2. order' \in OrderType
    BY <1>1 DEF Start, Untouched
  <2>3. /\ vendor' \in Vendors /\ session' \in Nat /\ phase' \in Phases /\ now' \in Nat \ {0}
        /\ op' \in [Ops -> [state : {"idle", "open", "closed"}, since : Nat]]
        /\ opStart' \in [Ops -> Nat]
        /\ runtimeEvents' \in Seq(EventRecords(Ops)) /\ events' \in Seq(AllEvents)
        /\ due' \in SUBSET Ops
    BY <1>1 DEF Start, NothingOpen, Quiet, importVars, cannVars
  <2> QED
    BY <2>1, <2>2, <2>3
<1>2. CASE Pause
  BY <1>2 DEF Pause, importVars, cannVars
<1>3. CASE Resume
  BY <1>3 DEF Resume, importVars, cannVars
<1>4. CASE Finalize
  <2>1. opStart' \in [Ops -> Nat] /\ runtimeEvents' \in Seq(EventRecords(Ops))
    BY <1>4 DEF Finalize, NothingOpen, Quiet
  <2>2. due' \in SUBSET Ops
    BY <1>4, HostOps DEF Finalize
  <2>3. \E listed \in Natives \cup {<<>>} : events' = listed \/ events' = runtimeEvents
    BY <1>4 DEF Finalize
  <2>4. events' \in Seq(AllEvents)
    <3>1. \A ops \in SUBSET (Ops \cup {0}) : EventRecords(ops) \subseteq AllEvents
      BY DEF EventRecords, AllEvents
    <3>2. EventRecords(Ops) \subseteq AllEvents /\ EventRecords({0}) \subseteq AllEvents
      BY <3>1
    <3>3. Seq(EventRecords(Ops)) \subseteq Seq(AllEvents)
      BY <3>2
    <3>4. Seq(EventRecords({0})) \subseteq Seq(AllEvents)
      BY <3>2
    <3> QED
      <4>1. <<>> \in Seq(AllEvents) /\ Natives \subseteq Seq(AllEvents)
        BY <3>4, ExportAssumption
      <4>2. runtimeEvents \in Seq(AllEvents)
        BY <3>3
      <4> QED
        BY <2>3, <4>1, <4>2
  <2>5. /\ vendor' \in Vendors /\ session' \in Nat /\ phase' \in Phases /\ now' \in Nat \ {0}
        /\ op' \in [Ops -> [state : {"idle", "open", "closed"}, since : Nat]]
        /\ artifact' \in Seq(Associations)
        /\ at' \in Nat \ {0}
        /\ order' \in OrderType
    BY <1>4 DEF Finalize, importVars, cannVars
  <2> QED
    BY <2>1, <2>2, <2>3, <2>4, <2>5
<1>5. CASE EndRows
  <2>1. artifact' \in Seq(Associations)
    <3>1. artifact' # artifact =>
            \E S \in SUBSET DOMAIN events, source \in Files :
               artifact' = artifact \o OfEvents(S, source)
      BY <1>5, EndAdds
    <3>2. ASSUME NEW S \in SUBSET DOMAIN events, NEW source \in Files
          PROVE  artifact \o OfEvents(S, source) \in Seq(Associations)
      <4>1. OfEvents(S, source) \in Seq(Associations)
        BY EventsAdded
      <4> QED
        BY <4>1, Joined
    <3>3. CASE artifact' # artifact
      <4>1. PICK S \in SUBSET DOMAIN events, source \in Files :
              artifact' = artifact \o OfEvents(S, source)
        BY <3>1, <3>3
      <4> QED
        BY <3>2, <4>1
    <3> QED
      BY <3>3
  <2>2. /\ vendor' \in Vendors /\ session' \in Nat /\ phase' \in Phases /\ now' \in Nat \ {0}
        /\ op' \in [Ops -> [state : {"idle", "open", "closed"}, since : Nat]]
        /\ opStart' \in [Ops -> Nat]
        /\ runtimeEvents' \in Seq(EventRecords(Ops)) /\ events' \in Seq(AllEvents)
        /\ due' \in SUBSET Ops
        /\ at' \in Nat \ {0}
        /\ order' \in OrderType
    BY <1>5 DEF EndRows, EndRowsMthreads, EndRowsTianshu, EndRowsCann, importVars,
       cannVars
  <2> QED
    BY <2>1, <2>2
<1>6. CASE MatchNext
  <2>1. artifact' \in Seq(Associations) /\ at' \in Nat \ {0} /\ order' \in OrderType
    <3>1. CASE artifact' = artifact /\ order' = order /\ at' = at
      BY <3>1
    <3>2. CASE ~(artifact' = artifact /\ order' = order /\ at' = at)
      <4>1. PICK b \in Associations :
              artifact' = [artifact EXCEPT ![at] = b] /\ order' \in OrderType /\ at' = at + 1
        BY <1>6, <3>2, MatchStep
      <4>2. [artifact EXCEPT ![at] = b] \in Seq(Associations)
        BY Replaced
      <4> QED
        BY <4>1, <4>2
    <3> QED
      BY <3>1, <3>2
  <2>2. /\ vendor' \in Vendors /\ session' \in Nat /\ phase' \in Phases /\ now' \in Nat \ {0}
        /\ op' \in [Ops -> [state : {"idle", "open", "closed"}, since : Nat]]
        /\ opStart' \in [Ops -> Nat]
        /\ runtimeEvents' \in Seq(EventRecords(Ops)) /\ events' \in Seq(AllEvents)
        /\ due' \in SUBSET Ops
    BY <1>6 DEF MatchNext, importVars, cannVars
  <2> QED
    BY <2>1, <2>2
<1>7. CASE Overlay
  BY <1>7 DEF Overlay, importVars, cannVars
<1>8. CASE \E o \in Ops : StartOp(o)
  <2>1. op' \in [Ops -> [state : {"idle", "open", "closed"}, since : Nat]]
    BY <1>8 DEF StartOp
  <2>2. opStart' \in [Ops -> Nat]
    BY <1>8 DEF StartOp
  <2>3. /\ vendor' \in Vendors /\ session' \in Nat /\ phase' \in Phases /\ now' \in Nat \ {0}
        /\ runtimeEvents' \in Seq(EventRecords(Ops)) /\ events' \in Seq(AllEvents)
        /\ due' \in SUBSET Ops
        /\ artifact' \in Seq(Associations)
        /\ at' \in Nat \ {0}
        /\ order' \in OrderType
    BY <1>8 DEF StartOp, importVars, cannVars
  <2> QED
    BY <2>1, <2>2, <2>3
<1>9. CASE \E o \in Ops : StopOp(o)
  <2>1. op' \in [Ops -> [state : {"idle", "open", "closed"}, since : Nat]]
    <3>1. PICK o \in Ops : op' = [op EXCEPT ![o].state = "closed"]
      BY <1>9 DEF StopOp
    <3>2. op' = [op EXCEPT ![o] = [op[o] EXCEPT !.state = "closed"]]
      BY <3>1
    <3>3. [op[o] EXCEPT !.state = "closed"] \in [state : {"idle", "open", "closed"}, since : Nat]
      OBVIOUS
    <3> QED
      BY <3>2, <3>3
  <2>2. opStart' \in [Ops -> Nat]
    BY <1>9 DEF StopOp
  <2>3. runtimeEvents' \in Seq(EventRecords(Ops)) /\ events' \in Seq(AllEvents)
    <3>1. PICK o \in Ops : StopOp(o)
      BY <1>9
    <3>2. \/ runtimeEvents' = runtimeEvents
          \/ runtimeEvents' = Append(runtimeEvents, HostEvent(o))
      BY <3>1 DEF StopOp
    <3>3. KernelOf[o] \in DOMAIN Canonical /\ opStart[o] \in Nat /\ now \in Nat
      BY ConstantsKnown DEF Names
    <3>4. HostEvent(o) \in EventRecords(Ops)
      BY <3>3 DEF HostEvent, EventRecords
    <3>5. Append(runtimeEvents, HostEvent(o)) \in Seq(EventRecords(Ops))
      BY <3>4
    <3>6. events' = events
      BY <3>1 DEF StopOp, importVars
    <3> QED
      BY <3>2, <3>5, <3>6
  <2>4. /\ vendor' \in Vendors /\ session' \in Nat /\ phase' \in Phases /\ now' \in Nat \ {0}
        /\ due' \in SUBSET Ops
        /\ artifact' \in Seq(Associations)
        /\ at' \in Nat \ {0}
        /\ order' \in OrderType
    BY <1>9 DEF StopOp, importVars, cannVars
  <2> QED
    BY <2>1, <2>2, <2>3, <2>4
<1>10. CASE \E row \in Rows[vendor] : ReadRow(row)
  <2>1. artifact' \in Seq(Associations)
    <3>1. PICK a \in Associations : artifact' = Append(artifact, a)
      BY <1>10, ReadAdds
    <3>2. Append(artifact, a) \in Seq(Associations)
      OBVIOUS
    <3> QED
      BY <3>1, <3>2
  <2>2. /\ vendor' \in Vendors /\ session' \in Nat /\ phase' \in Phases /\ now' \in Nat \ {0}
        /\ op' \in [Ops -> [state : {"idle", "open", "closed"}, since : Nat]]
        /\ opStart' \in [Ops -> Nat]
        /\ runtimeEvents' \in Seq(EventRecords(Ops)) /\ events' \in Seq(AllEvents)
        /\ due' \in SUBSET Ops
        /\ at' \in Nat \ {0}
        /\ order' \in OrderType
    BY <1>10 DEF ReadRow, importVars, cannVars
  <2> QED
    BY <2>1, <2>2
<1>11. CASE UNCHANGED vars
  BY <1>11 DEF vars, importVars, cannVars
<1> QED
  BY <1>1, <1>2, <1>3, <1>4, <1>5, <1>6, <1>7, <1>8, <1>9, <1>10, <1>11 DEF Next

\* Every step keeps what is known of where associations come from.
LEMMA SourcesStep ==
  ASSUME Typed, Sources,
         [Next]_vars
  PROVE  Sources'
<1> USE DEF Sources
<1>1. CASE Start
  BY <1>1 DEF Start, importVars, cannVars
<1>2. CASE Pause
  BY <1>2 DEF Pause, importVars, cannVars
<1>3. CASE Resume
  BY <1>3 DEF Resume, importVars, cannVars
<1>4. CASE Finalize
  BY <1>4 DEF Finalize, importVars, cannVars
<1>5. CASE EndRows
  <2>1. /\ phase = "importing" /\ vendor' = vendor /\ at' = at /\ order' = order
    BY <1>5 DEF EndRows
  <2>2. CASE artifact' = artifact
    <3>1. \/ phase' = "matched"
          \/ vendor = "cann" /\ phase' = "matching"
      BY <1>5, EndAdds
    <3> QED
      BY <2>1, <2>2, <3>1
  <2>3. CASE artifact' # artifact
    <3>1. PICK S \in SUBSET DOMAIN events, source \in Files :
            /\ artifact' = artifact \o OfEvents(S, source) /\ phase' = "matched"
            /\ \/ vendor = "mthreads" /\ source = "runtime_base_fallback"
               \/ vendor = "cann"
      BY <1>5, <2>3, EndAdds
    <3>2. PICK q : q = OfEvents(S, source)
      OBVIOUS
    <3>3. q \in Seq(Associations) /\ \A k \in DOMAIN q : q[k].source = source
      BY <3>2, EventsAdded
    <3>4. \A j \in DOMAIN artifact' : \/ j \in DOMAIN artifact /\ artifact'[j] = artifact[j]
                                      \/ artifact'[j].source = source
      BY <3>1, <3>2, <3>3, Joined DEF Typed
    <3>5. vendor # "tianshu"
      BY <3>1
    <3> QED
      BY <2>1, <3>1, <3>4, <3>5
  <2> QED
    BY <2>2, <2>3
<1>6. CASE MatchNext
  <2>1. phase = "matching" /\ vendor' = vendor /\ vendor = "cann"
    BY <1>6 DEF MatchNext
  <2>2. phase' \in {"matching", "matched"}
    BY <1>6, <2>1, MatchStep
  <2>3. \A j \in DOMAIN artifact' : j \in DOMAIN artifact /\ artifact'[j].source = artifact[j].source
    <3>1. CASE artifact' = artifact
      BY <3>1
    <3>2. CASE artifact' # artifact
      <4>1. PICK b \in Associations :
              artifact' = [artifact EXCEPT ![at] = b] /\ b.source = artifact[at].source
        BY <1>6, <3>2, MatchStep
      <4> QED
        BY <4>1, Replaced DEF Typed
    <3> QED
      BY <3>1, <3>2
  <2> QED
    BY <2>1, <2>2, <2>3
<1>7. CASE Overlay
  BY <1>7 DEF Overlay, importVars, cannVars
<1>8. CASE \E o \in Ops : StartOp(o)
  BY <1>8 DEF StartOp, importVars, cannVars
<1>9. CASE \E o \in Ops : StopOp(o)
  BY <1>9 DEF StopOp, importVars, cannVars
<1>10. CASE \E row \in Rows[vendor] : ReadRow(row)
  <2>1. PICK row \in Rows[vendor] : ReadRow(row)
    BY <1>10
  <2>2. PICK a \in Associations :
          /\ artifact' = Append(artifact, a)
          /\ vendor = "mthreads" => a.source = "mupti_csv"
          /\ vendor = "tianshu" => a.source = "ixkn_csv" /\ a.scope = 0
          /\ vendor = "cann" => /\ a.source \in {"aclprof_op_summary", "msprof_mstx"}
                                /\ a.scope = 0 /\ a.event = 0
    BY <2>1, ReadAdds
  <2>3. /\ phase = "importing" /\ phase' = phase /\ vendor' = vendor /\ at' = at
        /\ order' = order
    BY <2>1 DEF ReadRow
  <2>4. \A j \in DOMAIN artifact' :
         \/ j \in DOMAIN artifact /\ artifact'[j] = artifact[j]
         \/ artifact'[j] = a
    BY <2>2 DEF Typed
  <2> QED
    BY <2>2, <2>3, <2>4
<1>11. CASE UNCHANGED vars
  BY <1>11 DEF vars, importVars, cannVars
<1> QED
  BY <1>1, <1>2, <1>3, <1>4, <1>5, <1>6, <1>7, <1>8, <1>9, <1>10, <1>11 DEF Next

\* A list with one more.
LEMMA Appended ==
  ASSUME NEW s \in Seq(Associations), NEW a \in Associations
  PROVE  /\ Len(s) \in Nat /\ DOMAIN s = 1 .. Len(s)
         /\ DOMAIN Append(s, a) = 1 .. Len(s) + 1
         /\ Append(s, a)[Len(s) + 1] = a
         /\ \A j \in DOMAIN s : Append(s, a)[j] = s[j] /\ j # Len(s) + 1
  OBVIOUS

\* Every step keeps the ops of the associations apart.
LEMMA ScopesStep ==
  ASSUME Typed, Sources, UsedKnown, MatchOrder, ScopesKnown,
         [Next]_vars
  PROVE  ScopesKnown'
<1> USE DEF ScopesKnown
<1>1. CASE Start
  BY <1>1 DEF Start
<1>2. CASE Pause
  BY <1>2 DEF Pause, importVars, cannVars
<1>3. CASE Resume
  BY <1>3 DEF Resume, importVars, cannVars
<1>4. CASE Finalize
  <2>1. artifact' = <<>>
    BY <1>4 DEF Finalize, Sources
  <2> QED
    BY <2>1
<1>5. CASE EndRows
  <2>1. phase = "importing" /\ events' = events
    BY <1>5 DEF EndRows
  <2>2. CASE artifact' = artifact
    BY <2>1, <2>2
  <2>3. CASE artifact' # artifact
    <3>1. PICK S \in SUBSET DOMAIN events, source \in Files :
            /\ artifact' = artifact \o OfEvents(S, source)
            /\ \/ vendor = "mthreads" /\ S = DOMAIN events \ used
               \/ vendor = "cann"
      BY <1>5, <2>3, EndAdds
    <3>2. PICK q : q = OfEvents(S, source)
      OBVIOUS
    <3>3. /\ q \in Seq(Associations)
          /\ \A k \in DOMAIN q : /\ q[k].event \in S /\ q[k].scope = events[q[k].event].op
                                 /\ \A l \in DOMAIN q : q[k].event = q[l].event => k = l
      BY <3>2, EventsAdded
    <3>4. \A j \in DOMAIN artifact : Scoped(artifact[j]) => artifact[j].event \notin S
      BY <2>1, <3>1 DEF Sources, Scoped, UsedKnown
    <3>5. \A j \in DOMAIN artifact' :
            \/ j \in DOMAIN artifact /\ artifact'[j] = artifact[j]
            \/ /\ j \notin DOMAIN artifact /\ j - Len(artifact) \in DOMAIN q
               /\ artifact'[j] = q[j - Len(artifact)]
      BY <3>1, <3>2, <3>3, Joined DEF Typed
    <3>6. /\ \A j \in DOMAIN artifact' : j \in Nat
          /\ Len(artifact) \in Nat
      BY <3>1, <3>2, <3>3, Joined DEF Typed
    <3>7. \A j, k \in DOMAIN artifact' :
            j - Len(artifact) = k - Len(artifact) => j = k
      BY <3>6
    <3>8. ASSUME NEW j \in DOMAIN artifact', Scoped(artifact'[j])
          PROVE  /\ artifact'[j].event \in DOMAIN events
                 /\ artifact'[j].scope = events[artifact'[j].event].op
                 /\ \A k \in DOMAIN artifact' :
                      Scoped(artifact'[k]) /\ artifact'[j].event = artifact'[k].event => j = k
      <4>1. CASE j \in DOMAIN artifact /\ artifact'[j] = artifact[j]
        BY <3>3, <3>4, <3>5, <3>8, <4>1
      <4>2. CASE j - Len(artifact) \in DOMAIN q /\ artifact'[j] = q[j - Len(artifact)]
        BY <3>3, <3>4, <3>5, <3>7, <3>8, <4>2
      <4> QED
        BY <3>5, <4>1, <4>2
    <3> QED
      BY <2>1, <3>8
  <2> QED
    BY <2>2, <2>3
<1>6. CASE MatchNext
  <2>1. events' = events /\ phase = "matching" /\ vendor = "cann"
    BY <1>6 DEF MatchNext, Sources
  <2>2. CASE artifact' = artifact
    BY <2>1, <2>2
  <2>3. CASE artifact' # artifact
    <3>1. PICK b \in Associations :
            /\ artifact' = [artifact EXCEPT ![at] = b] /\ at \in DOMAIN artifact
            /\ b.source = artifact[at].source
            /\ b.source = "msprof_mstx" => Ranged(artifact[at], b)
      BY <1>6, <2>3, MatchStep
    <3>2. /\ DOMAIN artifact' = DOMAIN artifact /\ artifact'[at] = b
          /\ \A j \in DOMAIN artifact : j # at => artifact'[j] = artifact[j]
      BY <3>1, Replaced DEF Typed
    <3>3. \A j \in DOMAIN artifact :
            artifact[j].source \in {"aclprof_op_summary", "msprof_mstx"}
      BY <2>1 DEF Sources
    <3>4. CASE b.source # "msprof_mstx"
      <4>1. ~Scoped(b)
        BY <3>1, <3>3, <3>4 DEF Scoped
      <4> QED
        BY <2>1, <3>2, <4>1
    <3>5. CASE b = artifact[at]
      BY <2>1, <3>2, <3>5
    <3>6. CASE b.source = "msprof_mstx" /\ b # artifact[at]
      <4>1. PICK i \in DOMAIN events :
              /\ b.event = i /\ b.scope = events[i].op
              /\ Canonical[events[i].name] = Canonical[artifact[at].name]
              /\ order.event[Canonical[artifact[at].name]] <= i
        BY <3>1, <3>6 DEF Ranged
      <4>2. \A c \in Names : order.event[c] \in Nat
        BY DEF Typed
      <4>3. Canonical[artifact[at].name] \in Names
        <5>1. artifact[at] \in Associations
          BY <3>1 DEF Typed
        <5> QED
          BY <5>1, ConstantsKnown DEF Associations
      <4>4. ASSUME NEW k \in DOMAIN artifact, Scoped(artifact[k])
            PROVE  artifact[k].event # i
        <5>1. artifact[k].source = "msprof_mstx" /\ artifact[k].scope # 0
          BY <3>3, <4>4 DEF Scoped
        <5>2. /\ SameKernel(artifact[k], events[artifact[k].event])
              /\ artifact[k].event < order.event[Canonical[artifact[k].name]]
          BY <5>1 DEF MatchOrder
        <5>3. ASSUME artifact[k].event = i
              PROVE  FALSE
          <6>1. Canonical[artifact[k].name] = Canonical[artifact[at].name]
            BY <4>1, <5>2, <5>3 DEF SameKernel
          <6>2. i < order.event[Canonical[artifact[at].name]] /\ i \in Nat
            BY <5>2, <5>3, <6>1 DEF Typed
          <6> QED
            BY <4>1, <4>2, <4>3, <6>2
        <5> QED
          BY <5>3
      <4> QED
        BY <2>1, <3>2, <4>1, <4>4
    <3> QED
      BY <3>4, <3>5, <3>6
  <2> QED
    BY <2>2, <2>3
<1>7. CASE Overlay
  BY <1>7 DEF Overlay, importVars, cannVars
<1>8. CASE \E o \in Ops : StartOp(o)
  BY <1>8 DEF StartOp, importVars, cannVars
<1>9. CASE \E o \in Ops : StopOp(o)
  BY <1>9 DEF StopOp, importVars, cannVars
<1>10. CASE \E row \in Rows[vendor] : ReadRow(row)
  <2>1. PICK row \in Rows[vendor] : ReadRow(row)
    BY <1>10
  <2>2. PICK a \in Associations :
          /\ artifact' = Append(artifact, a)
          /\ vendor = "mthreads" =>
               \/ a.scope = 0
               \/ \E i \in DOMAIN events \ used : a.event = i /\ a.scope = events[i].op
          /\ vendor = "tianshu" => a.scope = 0
          /\ vendor = "cann" => a.scope = 0
    BY <2>1, ReadAdds
  <2>3. /\ phase = "importing" /\ events' = events
        /\ vendor \in {"mthreads", "tianshu", "cann"}
    BY <2>1, ConstantsKnown DEF ReadRow
  <2>4. /\ Len(artifact) \in Nat /\ DOMAIN artifact = 1 .. Len(artifact)
        /\ DOMAIN artifact' = 1 .. Len(artifact) + 1
        /\ artifact'[Len(artifact) + 1] = a
        /\ \A j \in DOMAIN artifact : artifact'[j] = artifact[j] /\ j # Len(artifact) + 1
    BY <2>2, Appended DEF Typed
  <2>5. Scoped(a) => /\ a.event \in DOMAIN events /\ a.scope = events[a.event].op
                     /\ \A j \in DOMAIN artifact :
                          Scoped(artifact[j]) => artifact[j].event # a.event
    BY <2>2, <2>3 DEF Scoped, UsedKnown
  <2>6. \A j \in DOMAIN artifact' : \/ j \in DOMAIN artifact /\ artifact'[j] = artifact[j]
                                    \/ j = Len(artifact) + 1 /\ artifact'[j] = a
    BY <2>4
  <2> QED
    BY <2>3, <2>5, <2>6
<1>11. CASE UNCHANGED vars
  BY <1>11 DEF vars, importVars, cannVars
<1> QED
  BY <1>1, <1>2, <1>3, <1>4, <1>5, <1>6, <1>7, <1>8, <1>9, <1>10, <1>11 DEF Next

\* Every step keeps the account of the events that rows took.
LEMMA UsedStep ==
  ASSUME Typed, Sources, ImportEvents, UsedKnown,
         [Next]_vars
  PROVE  UsedKnown'
<1> USE DEF UsedKnown
<1>1. CASE Start
  BY <1>1 DEF Start
<1>2. CASE Pause
  BY <1>2 DEF Pause, importVars, cannVars
<1>3. CASE Resume
  BY <1>3 DEF Resume, importVars, cannVars
<1>4. CASE Finalize
  <2>1. artifact' = <<>> /\ used' = {} /\ phase' = "importing"
    BY <1>4 DEF Finalize, Sources
  <2> QED
    BY <2>1
<1>5. CASE EndRows
  <2>1. phase = "importing" /\ events' = events /\ used' = used /\ vendor' = vendor
    BY <1>5 DEF EndRows
  <2>2. SUFFICES ASSUME vendor = "mthreads" PROVE UsedKnown'
    BY <2>1
  <2> DEFINE S == DOMAIN events \ used
  <2>3. /\ artifact' = artifact \o OfEvents(S, "runtime_base_fallback")
        /\ phase' = "matched"
    BY <1>5, <2>2 DEF EndRows, EndRowsMthreads, EndRowsTianshu, EndRowsCann
  <2>4. PICK q : q = OfEvents(S, "runtime_base_fallback")
    OBVIOUS
  <2>5. S \in SUBSET DOMAIN events /\ "runtime_base_fallback" \in Files
    BY DEF Files
  <2>6. /\ q \in Seq(Associations)
        /\ \A k \in DOMAIN q : /\ q[k].event \in S /\ q[k].scope = events[q[k].event].op
                               /\ Timed(events[q[k].event]) => Timed(q[k])
        /\ \A i \in S : \E k \in DOMAIN q : q[k].event = i
    <3> HIDE DEF S
    <3> QED
      BY <2>4, <2>5, EventsAdded
  <2>7. \A i \in DOMAIN events : Timed(events[i])
    BY <2>2 DEF ImportEvents
  <2>8. \A k \in DOMAIN q : Timed(q[k])
    BY <2>5, <2>6, <2>7
  <2>9. /\ \A j \in DOMAIN artifact : j \in DOMAIN artifact' /\ artifact'[j] = artifact[j]
        /\ \A j \in DOMAIN artifact' : \/ j \in DOMAIN artifact /\ artifact'[j] = artifact[j]
                                       \/ \E k \in DOMAIN q : artifact'[j] = q[k]
        /\ \A k \in DOMAIN q : \E j \in DOMAIN artifact' : artifact'[j] = q[k]
    <3>1. /\ DOMAIN artifact' = 1 .. Len(artifact) + Len(q)
          /\ DOMAIN artifact = 1 .. Len(artifact) /\ Len(artifact) \in Nat /\ Len(q) \in Nat
          /\ \A j \in DOMAIN artifact : artifact'[j] = artifact[j]
          /\ \A k \in DOMAIN q : /\ Len(artifact) + k \in DOMAIN artifact'
                                 /\ artifact'[Len(artifact) + k] = q[k]
          /\ \A j \in DOMAIN artifact' : j \notin DOMAIN artifact =>
               /\ j - Len(artifact) \in DOMAIN q
               /\ artifact'[j] = q[j - Len(artifact)]
      <4> HIDE DEF S
      <4> QED
        BY <2>3, <2>4, <2>6, Joined DEF Typed
    <3>2. \A j \in DOMAIN artifact : j \in DOMAIN artifact'
      BY <3>1
    <3> QED
      BY <3>1, <3>2
  <2>10. \A j \in DOMAIN artifact' : Scoped(artifact'[j]) => Timed(artifact'[j])
    BY <2>2, <2>8, <2>9
  <2>11. ASSUME NEW i \in DOMAIN events'
         PROVE  \E j \in DOMAIN artifact' : TakenBy(j, i)'
    <3>1. CASE i \in used
      <4>1. PICK j \in DOMAIN artifact : TakenBy(j, i)
        BY <2>1, <2>2, <3>1
      <4>2. j \in DOMAIN artifact' /\ TakenBy(j, i)'
        BY <2>1, <2>9, <4>1 DEF TakenBy
      <4> QED
        BY <4>2
    <3>2. CASE i \notin used
      <4>1. PICK k \in DOMAIN q : q[k].event = i
        BY <2>1, <2>6, <2>11, <3>2
      <4>2. PICK j \in DOMAIN artifact' : artifact'[j] = q[k]
        BY <2>9
      <4>3. TakenBy(j, i)'
        BY <2>1, <2>6, <2>8, <4>1, <4>2 DEF TakenBy
      <4> QED
        BY <4>3
    <3> QED
      BY <3>1, <3>2
  <2> QED
    BY <2>3, <2>10, <2>11
<1>6. CASE MatchNext
  BY <1>6 DEF MatchNext, Sources
<1>7. CASE Overlay
  <2>1. /\ vendor' = vendor /\ artifact' = artifact /\ phase' = "idle" /\ events' = events
        /\ used' = used
    BY <1>7 DEF Overlay
  <2> QED
    BY <2>1
<1>8. CASE \E o \in Ops : StartOp(o)
  <2>1. /\ vendor' = vendor /\ artifact' = artifact /\ phase' = phase
        /\ events' = events /\ used' = used
    BY <1>8 DEF StartOp, importVars
  <2>2. \A i, j : TakenBy(j, i)' <=> TakenBy(j, i)
    BY <2>1 DEF TakenBy
  <2> QED
    BY <2>1, <2>2
<1>9. CASE \E o \in Ops : StopOp(o)
  <2>1. /\ vendor' = vendor /\ artifact' = artifact /\ phase' = phase
        /\ events' = events /\ used' = used
    BY <1>9 DEF StopOp, importVars
  <2>2. \A i, j : TakenBy(j, i)' <=> TakenBy(j, i)
    BY <2>1 DEF TakenBy
  <2> QED
    BY <2>1, <2>2
<1>10. CASE \E row \in Rows[vendor] : ReadRow(row)
  <2>1. PICK row \in Rows[vendor] : ReadRow(row)
    BY <1>10
  <2>2. SUFFICES ASSUME vendor = "mthreads" PROVE UsedKnown'
    BY <2>1 DEF ReadRow
  <2>3. PICK a \in Associations :
          /\ artifact' = Append(artifact, a)
          /\ \/ a.scope = 0 /\ used' = used
             \/ \E i \in DOMAIN events \ used :
                  /\ a.event = i /\ a.scope = events[i].op /\ used' = used \cup {i}
                  /\ Timed(events[i]) => Timed(a)
    BY <2>1, <2>2, ReadAdds
  <2>4. phase = "importing" /\ phase' = phase /\ events' = events
    BY <2>1 DEF ReadRow
  <2>5. /\ Len(artifact) \in Nat /\ DOMAIN artifact = 1 .. Len(artifact)
        /\ DOMAIN artifact' = 1 .. Len(artifact) + 1
        /\ artifact'[Len(artifact) + 1] = a
        /\ \A j \in DOMAIN artifact : artifact'[j] = artifact[j] /\ j # Len(artifact) + 1
    BY <2>3, Appended DEF Typed
  <2>6. /\ \A j \in DOMAIN artifact : j \in DOMAIN artifact' /\ artifact'[j] = artifact[j]
        /\ \A j \in DOMAIN artifact' : \/ j \in DOMAIN artifact /\ artifact'[j] = artifact[j]
                                       \/ artifact'[j] = a
        /\ \E j \in DOMAIN artifact' : artifact'[j] = a
    BY <2>5
  <2>7. \A i \in DOMAIN events : Timed(events[i])
    BY <2>2 DEF ImportEvents
  <2>8. Scoped(a) => Timed(a) /\ a.event \in used'
    BY <2>3, <2>7 DEF Scoped
  <2>9. used \subseteq used'
    BY <2>3
  <2>10. \A j \in DOMAIN artifact' :
           Scoped(artifact'[j]) => Timed(artifact'[j]) /\ artifact'[j].event \in used'
    BY <2>2, <2>4, <2>6, <2>8, <2>9
  <2>11. ASSUME NEW i \in used'
         PROVE  \E j \in DOMAIN artifact' : TakenBy(j, i)'
    <3>1. CASE i \in used
      <4>1. PICK j \in DOMAIN artifact : TakenBy(j, i)
        BY <2>2, <2>4, <3>1
      <4>2. j \in DOMAIN artifact' /\ TakenBy(j, i)'
        BY <2>4, <2>6, <4>1 DEF TakenBy
      <4> QED
        BY <4>2
    <3>2. CASE i \notin used
      <4>1. /\ i \in DOMAIN events /\ a.event = i /\ a.scope = events[i].op
            /\ Timed(events[i]) => Timed(a)
        BY <2>3, <2>11, <3>2
      <4>2. PICK j \in DOMAIN artifact' : artifact'[j] = a
        BY <2>6
      <4>3. TakenBy(j, i)'
        BY <2>4, <2>7, <4>1, <4>2 DEF TakenBy
      <4> QED
        BY <4>3
    <3> QED
      BY <3>1, <3>2
  <2> QED
    BY <2>4, <2>10, <2>11
<1>11. CASE UNCHANGED vars
  <2>1. /\ vendor' = vendor /\ artifact' = artifact /\ phase' = phase
        /\ events' = events /\ used' = used
    BY <1>11 DEF vars, importVars
  <2>2. \A i, j : TakenBy(j, i)' <=> TakenBy(j, i)
    BY <2>1 DEF TakenBy
  <2> QED
    BY <2>1, <2>2
<1> QED
  BY <1>1, <1>2, <1>3, <1>4, <1>5, <1>6, <1>7, <1>8, <1>9, <1>10, <1>11 DEF Next

\* Every step keeps the matching in launch order ahead of what it took.
LEMMA MatchOrderStep ==
  ASSUME Typed, Sources, MatchOrder,
         [Next]_vars
  PROVE  MatchOrder'
<1> USE DEF MatchOrder
<1>1. CASE Start
  BY <1>1 DEF Start
<1>2. CASE Pause
  BY <1>2 DEF Pause, importVars, cannVars
<1>3. CASE Resume
  BY <1>3 DEF Resume, importVars, cannVars
<1>4. CASE Finalize
  <2>1. artifact' = <<>>
    BY <1>4 DEF Finalize, Sources
  <2> QED
    BY <2>1
<1>5. CASE EndRows
  <2>1. /\ phase = "importing" /\ at' = at /\ events' = events /\ order' = order
    BY <1>5 DEF EndRows
  <2>2. vendor \in {"mthreads", "tianshu", "cann"}
    BY ConstantsKnown
  <2>3. \A j \in DOMAIN artifact : artifact[j].source = "msprof_mstx" =>
          artifact[j].event = 0 /\ artifact[j].scope = 0
    BY <2>1, <2>2 DEF Sources
  <2>4. \A j \in DOMAIN artifact' : artifact'[j].source = "msprof_mstx" =>
          j \in DOMAIN artifact /\ artifact'[j] = artifact[j]
    <3>1. CASE artifact' = artifact
      BY <3>1
    <3>2. CASE artifact' # artifact
      <4>1. PICK S \in SUBSET DOMAIN events, source \in Files :
              /\ artifact' = artifact \o OfEvents(S, source)
              /\ source \in {"aclprof_task_time", "runtime_base_fallback"}
        BY <1>5, <3>2, EndAdds
      <4>2. PICK q : q = OfEvents(S, source)
        OBVIOUS
      <4>3. q \in Seq(Associations) /\ \A k \in DOMAIN q : q[k].source = source
        BY <4>2, EventsAdded
      <4>4. \A j \in DOMAIN artifact' : \/ j \in DOMAIN artifact /\ artifact'[j] = artifact[j]
                                        \/ artifact'[j].source = source
        BY <4>1, <4>2, <4>3, Joined DEF Typed
      <4> QED
        BY <4>1, <4>4
    <3> QED
      BY <3>1, <3>2
  <2> QED
    BY <2>3, <2>4
<1>6. CASE MatchNext
  <2>1. phase = "matching" /\ events' = events
    BY <1>6 DEF MatchNext
  <2>2. CASE artifact' = artifact /\ order' = order /\ at' = at /\ phase' = "matched"
    BY <2>1, <2>2
  <2>3. CASE ~(artifact' = artifact /\ order' = order /\ at' = at /\ phase' = "matched")
    <3>1. PICK b \in Associations :
            /\ artifact' = [artifact EXCEPT ![at] = b] /\ at \in DOMAIN artifact
            /\ at' = at + 1 /\ phase' = phase /\ order' \in OrderType
            /\ b.source = artifact[at].source
            /\ IF b.source = "msprof_mstx" THEN Ranged(artifact[at], b)
               ELSE order'.event = order.event
      BY <1>6, <2>3, MatchStep
    <3>2. /\ DOMAIN artifact' = DOMAIN artifact /\ artifact'[at] = b
          /\ \A j \in DOMAIN artifact : j # at => artifact'[j] = artifact[j]
      BY <3>1, Replaced DEF Typed
    <3>3. at \in Nat /\ DOMAIN artifact \subseteq Nat /\ DOMAIN events \subseteq Nat
      BY DEF Typed
    <3>4. \A c \in Names : order.event[c] \in Nat /\ order.event \in [Names -> Nat \ {0}]
      BY DEF Typed
    <3>5. \A j \in DOMAIN artifact :
            artifact[j].name \in Names /\ Canonical[artifact[j].name] \in Names
      <4>1. \A j \in DOMAIN artifact : artifact[j] \in Associations
        BY DEF Typed
      <4> QED
        BY <4>1, ConstantsKnown DEF Associations
    <3>6. \A c \in Names : order'.event[c] \in Nat /\ order.event[c] <= order'.event[c]
      <4>1. CASE order'.event = order.event
        BY <3>4, <4>1
      <4>2. CASE order'.event # order.event
        <5>1. PICK i \in DOMAIN events :
                /\ order.event[Canonical[artifact[at].name]] <= i
                /\ order'.event = [order.event EXCEPT ![Canonical[artifact[at].name]] = i + 1]
          BY <3>1, <4>2 DEF Ranged
        <5> QED
          BY <3>1, <3>3, <3>4, <3>5, <5>1
      <4> QED
        BY <4>1, <4>2
    <3>7. \A j \in DOMAIN artifact : j >= at + 1 => j >= at
      BY <3>3
    <3>8. ASSUME NEW j \in DOMAIN artifact, j # at, artifact[j].source = "msprof_mstx"
          PROVE  /\ j >= at + 1 => artifact[j].event = 0 /\ artifact[j].scope = 0
                 /\ artifact[j].event = 0 => artifact[j].scope = 0
                 /\ artifact[j].event # 0 =>
                      /\ artifact[j].event \in DOMAIN events
                      /\ SameKernel(artifact[j], events[artifact[j].event])
                      /\ artifact[j].event < order'.event[Canonical[artifact[j].name]]
      <4>1. j >= at + 1 => artifact[j].event = 0 /\ artifact[j].scope = 0
        BY <2>1, <3>7, <3>8
      <4>2. artifact[j].event = 0 => artifact[j].scope = 0
        BY <3>8
      <4>3. ASSUME artifact[j].event # 0
            PROVE  /\ artifact[j].event \in DOMAIN events
                   /\ SameKernel(artifact[j], events[artifact[j].event])
                   /\ artifact[j].event < order'.event[Canonical[artifact[j].name]]
        <5>1. /\ artifact[j].event \in DOMAIN events
              /\ SameKernel(artifact[j], events[artifact[j].event])
              /\ artifact[j].event < order.event[Canonical[artifact[j].name]]
          BY <3>8, <4>3
        <5> QED
          BY <3>3, <3>4, <3>5, <3>6, <5>1
      <4> QED
        BY <4>1, <4>2, <4>3
    <3>9. ASSUME b.source = "msprof_mstx"
          PROVE  /\ b.event = 0 => b.scope = 0
                 /\ b.event # 0 =>
                      /\ b.event \in DOMAIN events /\ SameKernel(b, events[b.event])
                      /\ b.event < order'.event[Canonical[b.name]]
      <4>1. CASE b = artifact[at] /\ order' = order
        BY <3>1, <3>9, <4>1
      <4>2. CASE ~(b = artifact[at] /\ order' = order)
        <5>1. PICK i \in DOMAIN events :
                /\ b.event = i /\ Canonical[b.name] = Canonical[artifact[at].name]
                /\ Canonical[events[i].name] = Canonical[artifact[at].name]
                /\ order'.event = [order.event EXCEPT ![Canonical[artifact[at].name]] = i + 1]
          BY <3>1, <3>9, <4>2 DEF Ranged
        <5>2. order'.event[Canonical[b.name]] = i + 1 /\ i \in Nat /\ i # 0
          BY <3>1, <3>3, <3>4, <3>5, <5>1 DEF Typed
        <5> QED
          BY <5>1, <5>2 DEF SameKernel
      <4> QED
        BY <4>1, <4>2
    <3>10. ~(at >= at + 1)
      BY <3>3
    <3>11. ASSUME NEW j \in DOMAIN artifact', artifact'[j].source = "msprof_mstx"
           PROVE  /\ phase' = "matching" /\ j >= at' =>
                       artifact'[j].event = 0 /\ artifact'[j].scope = 0
                  /\ artifact'[j].event = 0 => artifact'[j].scope = 0
                  /\ artifact'[j].event # 0 =>
                       /\ artifact'[j].event \in DOMAIN events'
                       /\ SameKernel(artifact'[j], events'[artifact'[j].event])
                       /\ artifact'[j].event < order'.event[Canonical[artifact'[j].name]]
      <4>1. CASE j = at
        BY <2>1, <3>1, <3>2, <3>9, <3>10, <3>11, <4>1
      <4>2. CASE j # at
        BY <2>1, <3>1, <3>2, <3>8, <3>11, <4>2
      <4> QED
        BY <4>1, <4>2
    <3> QED
      BY <3>11 DEF SameKernel
  <2> QED
    BY <2>2, <2>3
<1>7. CASE Overlay
  BY <1>7 DEF Overlay, importVars, cannVars
<1>8. CASE \E o \in Ops : StartOp(o)
  BY <1>8 DEF StartOp, importVars, cannVars
<1>9. CASE \E o \in Ops : StopOp(o)
  BY <1>9 DEF StopOp, importVars, cannVars
<1>10. CASE \E row \in Rows[vendor] : ReadRow(row)
  <2>1. PICK row \in Rows[vendor] : ReadRow(row)
    BY <1>10
  <2>2. PICK a \in Associations :
          /\ artifact' = Append(artifact, a)
          /\ a.source = "msprof_mstx" => a.scope = 0 /\ a.event = 0
    <3>1. vendor \in {"mthreads", "tianshu", "cann"}
      BY ConstantsKnown
    <3> QED
      BY <2>1, <3>1, ReadAdds
  <2>3. /\ phase = "importing" /\ phase' = phase /\ events' = events /\ order' = order
    BY <2>1 DEF ReadRow
  <2>4. \A j \in DOMAIN artifact' : \/ j \in DOMAIN artifact /\ artifact'[j] = artifact[j]
                                    \/ artifact'[j] = a
    BY <2>2, Appended DEF Typed
  <2> QED
    BY <2>2, <2>3, <2>4 DEF SameKernel
<1>11. CASE UNCHANGED vars
  BY <1>11 DEF vars, importVars, cannVars
<1> QED
  BY <1>1, <1>2, <1>3, <1>4, <1>5, <1>6, <1>7, <1>8, <1>9, <1>10, <1>11 DEF Next

\* Every step keeps the ranges of the tool in launch order.
LEMMA LaunchOrderStep ==
  ASSUME Typed, Sources, MatchOrder, LaunchOrderKept,
         [Next]_vars
  PROVE  LaunchOrderKept'
<1> USE DEF LaunchOrderKept, Matches
<1>1. CASE Start
  BY <1>1 DEF Start
<1>2. CASE Pause
  BY <1>2 DEF Pause, importVars, cannVars
<1>3. CASE Resume
  BY <1>3 DEF Resume, importVars, cannVars
<1>4. CASE Finalize
  <2>1. artifact' = <<>>
    BY <1>4 DEF Finalize, Sources
  <2> QED
    BY <2>1
<1>5. CASE EndRows
  <2>1. /\ phase = "importing" /\ at' = at /\ events' = events /\ order' = order
    BY <1>5 DEF EndRows
  <2>2. vendor \in {"mthreads", "tianshu", "cann"}
    BY ConstantsKnown
  <2>3. \A j \in DOMAIN artifact : artifact[j].source = "msprof_mstx" =>
          artifact[j].event = 0 /\ artifact[j].scope = 0
    BY <2>1, <2>2 DEF Sources
  <2>4. \A j \in DOMAIN artifact' : artifact'[j].source = "msprof_mstx" =>
          j \in DOMAIN artifact /\ artifact'[j] = artifact[j]
    <3>1. CASE artifact' = artifact
      BY <3>1
    <3>2. CASE artifact' # artifact
      <4>1. PICK S \in SUBSET DOMAIN events, source \in Files :
              /\ artifact' = artifact \o OfEvents(S, source)
              /\ source \in {"aclprof_task_time", "runtime_base_fallback"}
        BY <1>5, <3>2, EndAdds
      <4>2. PICK q : q = OfEvents(S, source)
        OBVIOUS
      <4>3. q \in Seq(Associations) /\ \A k \in DOMAIN q : q[k].source = source
        BY <4>2, EventsAdded
      <4>4. \A j \in DOMAIN artifact' : \/ j \in DOMAIN artifact /\ artifact'[j] = artifact[j]
                                        \/ artifact'[j].source = source
        BY <4>1, <4>2, <4>3, Joined DEF Typed
      <4> QED
        BY <4>1, <4>4
    <3> QED
      BY <3>1, <3>2
  <2> QED
    BY <2>3, <2>4
<1>6. CASE MatchNext
  <2>1. phase = "matching" /\ events' = events
    BY <1>6 DEF MatchNext
  <2>2. CASE artifact' = artifact
    BY <2>2 DEF SameKernel
  <2>3. CASE artifact' # artifact
    <3>1. PICK b \in Associations :
            /\ artifact' = [artifact EXCEPT ![at] = b] /\ at \in DOMAIN artifact
            /\ b.source = artifact[at].source
            /\ b.source = "msprof_mstx" => Ranged(artifact[at], b)
      BY <1>6, <2>3, MatchStep
    <3>2. /\ DOMAIN artifact' = DOMAIN artifact /\ artifact'[at] = b
          /\ \A j \in DOMAIN artifact : j # at => artifact'[j] = artifact[j]
      BY <3>1, Replaced DEF Typed
    <3>3. at \in Nat /\ DOMAIN artifact \subseteq Nat /\ DOMAIN events \subseteq Nat
      BY DEF Typed
    <3>4. \A c \in Names : order.event[c] \in Nat
      BY DEF Typed
    <3>5. \A j \in DOMAIN artifact : Canonical[artifact[j].name] \in Names
      <4>1. \A j \in DOMAIN artifact : artifact[j] \in Associations
        BY DEF Typed
      <4> QED
        BY <4>1, ConstantsKnown DEF Associations
    <3>6. artifact[at].source = "msprof_mstx" => artifact[at].event = 0
      BY <2>1, <3>1, <3>3 DEF MatchOrder
    <3>7. CASE b.source = "msprof_mstx" /\ b # artifact[at]
      <4>1. PICK i \in DOMAIN events :
              /\ b.event = i /\ Canonical[b.name] = Canonical[artifact[at].name]
              /\ order.event[Canonical[artifact[at].name]] <= i
        BY <3>1, <3>7 DEF Ranged
      <4>2. ASSUME NEW j \in DOMAIN artifact, j # at, artifact[j].source = "msprof_mstx",
                   artifact[j].event # 0
            PROVE  j < at /\ (SameKernel(artifact[j], b) => artifact[j].event < b.event)
        <5>1. j < at
          BY <2>1, <3>3, <4>2 DEF MatchOrder
        <5>2. /\ artifact[j].event \in DOMAIN events
              /\ artifact[j].event < order.event[Canonical[artifact[j].name]]
          BY <4>2 DEF MatchOrder
        <5>3. SameKernel(artifact[j], b) =>
                Canonical[artifact[j].name] = Canonical[artifact[at].name]
          BY <4>1 DEF SameKernel
        <5>4. SameKernel(artifact[j], b) => artifact[j].event < i
          BY <3>3, <3>4, <3>5, <4>1, <5>2, <5>3
        <5> QED
          BY <4>1, <5>1, <5>4
      <4>3. ASSUME NEW j \in DOMAIN artifact', NEW k \in DOMAIN artifact',
                   artifact'[j].source = "msprof_mstx", artifact'[j].event # 0,
                   artifact'[k].source = "msprof_mstx", artifact'[k].event # 0,
                   j < k, SameKernel(artifact'[j], artifact'[k])
            PROVE  artifact'[j].event < artifact'[k].event
        <5>1. j # at
          <6>1. SUFFICES ASSUME j = at PROVE FALSE
            OBVIOUS
          <6>2. k \in DOMAIN artifact /\ k # at /\ artifact'[k] = artifact[k] /\ k \in Nat
            BY <3>2, <3>3, <4>3, <6>1
          <6>3. k < at
            BY <4>2, <4>3, <6>2
          <6> QED
            BY <3>3, <4>3, <6>1, <6>2, <6>3
        <5>2. j \in DOMAIN artifact /\ artifact'[j] = artifact[j]
          BY <3>2, <5>1
        <5>3. CASE k = at
          BY <3>2, <4>2, <4>3, <5>1, <5>2, <5>3
        <5>4. CASE k # at
          <6>1. k \in DOMAIN artifact /\ artifact'[k] = artifact[k]
            BY <3>2, <5>4
          <6> QED
            BY <4>3, <5>2, <6>1
        <5> QED
          BY <5>3, <5>4
      <4> QED
        BY <4>3 DEF SameKernel
    <3>8. CASE b = artifact[at]
      <4>1. \A j \in DOMAIN artifact' : artifact'[j] = artifact[j]
        BY <3>1, <3>2, <3>8
      <4> QED
        BY <3>2, <4>1 DEF SameKernel
    <3>9. CASE b.source # "msprof_mstx"
      <4>1. \A j \in DOMAIN artifact' : artifact'[j].source = "msprof_mstx" =>
              j \in DOMAIN artifact /\ artifact'[j] = artifact[j]
        BY <3>2, <3>9
      <4> QED
        BY <4>1 DEF SameKernel
    <3> QED
      BY <3>7, <3>8, <3>9
  <2> QED
    BY <2>2, <2>3
<1>7. CASE Overlay
  BY <1>7 DEF Overlay, importVars, cannVars
<1>8. CASE \E o \in Ops : StartOp(o)
  BY <1>8 DEF StartOp, importVars, cannVars
<1>9. CASE \E o \in Ops : StopOp(o)
  BY <1>9 DEF StopOp, importVars, cannVars
<1>10. CASE \E row \in Rows[vendor] : ReadRow(row)
  <2>1. PICK row \in Rows[vendor] : ReadRow(row)
    BY <1>10
  <2>2. PICK a \in Associations :
          /\ artifact' = Append(artifact, a)
          /\ a.source = "msprof_mstx" => a.scope = 0 /\ a.event = 0
    <3>1. vendor \in {"mthreads", "tianshu", "cann"}
      BY ConstantsKnown
    <3> QED
      BY <2>1, <3>1, ReadAdds
  <2>3. /\ phase = "importing" /\ phase' = phase /\ events' = events /\ order' = order
    BY <2>1 DEF ReadRow
  <2>4. \A j \in DOMAIN artifact' : \/ j \in DOMAIN artifact /\ artifact'[j] = artifact[j]
                                    \/ artifact'[j] = a
    BY <2>2, Appended DEF Typed
  <2>5. \A j \in DOMAIN artifact : artifact[j].source = "msprof_mstx" => artifact[j].event = 0
    <3>1. vendor \in {"mthreads", "tianshu", "cann"}
      BY ConstantsKnown
    <3> QED
      BY <2>3, <3>1 DEF Sources
  <2> QED
    BY <2>2, <2>4, <2>5
<1>11. CASE UNCHANGED vars
  BY <1>11 DEF vars, importVars, cannVars
<1> QED
  BY <1>1, <1>2, <1>3, <1>4, <1>5, <1>6, <1>7, <1>8, <1>9, <1>10, <1>11 DEF Next

\* What the overlay lays over the op of a launch: one kernel at most, and on Moore
\* Threads one for every launch that was timed.
LEMMA LaidOnce ==
  ASSUME Typed, ImportEvents, Sources, ScopesKnown, UsedKnown, phase = "matched",
         NEW o \in Ops
  PROVE  LET laid == {j \in DOMAIN artifact :
                        artifact[j].scope = o /\ AddsKernel(artifact[j])} IN
         /\ Cardinality(laid) <= 1
         /\ vendor = "mthreads" /\ o \in due => Cardinality(laid) = 1
<1> DEFINE laid == {j \in DOMAIN artifact : artifact[j].scope = o /\ AddsKernel(artifact[j])}
<1>1. o # 0
  BY ConstantsKnown
<1>2. \A j \in laid : Scoped(artifact[j])
  BY <1>1 DEF AddsKernel, MergesIntoOp, Scoped
<1>3. \A j, k \in laid : j = k
  <2> SUFFICES ASSUME NEW j \in laid, NEW k \in laid PROVE j = k
    OBVIOUS
  <2>1. /\ artifact[j].event \in DOMAIN events /\ artifact[k].event \in DOMAIN events
        /\ events[artifact[j].event].op = o /\ events[artifact[k].event].op = o
    BY <1>2 DEF ScopesKnown
  <2>2. artifact[j].event = artifact[k].event
    BY <1>1, <2>1 DEF ImportEvents
  <2>3. Scoped(artifact[j]) /\ Scoped(artifact[k])
        /\ j \in DOMAIN artifact /\ k \in DOMAIN artifact
    BY <1>2
  <2> HIDE DEF laid
  <2> QED
    BY <2>2, <2>3 DEF ScopesKnown
<1>4. vendor = "mthreads" /\ o \in due => laid # {}
  <2> SUFFICES ASSUME vendor = "mthreads", o \in due PROVE laid # {}
    OBVIOUS
  <2>1. PICK i \in DOMAIN events : events[i].op = o
    BY DEF ImportEvents
  <2>2. PICK j \in DOMAIN artifact : TakenBy(j, i)
    BY DEF UsedKnown
  <2>3. artifact[j].scope = o /\ Timed(artifact[j])
    BY <2>1, <2>2 DEF TakenBy
  <2>4. artifact[j].source # "aclprof_op_summary"
    BY DEF Sources
  <2>5. j \in laid
    BY <2>3, <2>4 DEF AddsKernel, MergesIntoOp
  <2> QED
    BY <2>5
<1>5. laid = {} \/ \E j : laid = {j}
  <2> HIDE DEF laid
  <2> QED
    BY <1>3
<1>6. laid = {} => Cardinality(laid) = 0
  BY FS_EmptySet
<1>7. laid # {} => Cardinality(laid) = 1
  <2> HIDE DEF laid
  <2> QED
    BY <1>5, FS_Singleton
<1> HIDE DEF laid
<1>8. Cardinality(laid) <= 1 /\ (vendor = "mthreads" /\ o \in due => Cardinality(laid) = 1)
  BY <1>4, <1>6, <1>7
<1> QED
  BY <1>8 DEF laid

\* Every step keeps each kernel of the tree to one.
LEMMA EachKernelStep ==
  ASSUME Typed, ImportEvents, Sources, ScopesKnown, UsedKnown, EachKernelOnce,
         [Next]_vars
  PROVE  EachKernelOnce'
<1> USE DEF EachKernelOnce, Imported
<1>1. CASE Start
  BY <1>1 DEF Start, importVars, cannVars
<1>2. CASE Pause
  BY <1>2 DEF Pause, importVars, cannVars
<1>3. CASE Resume
  BY <1>3 DEF Resume, importVars, cannVars
<1>4. CASE Finalize
  BY <1>4 DEF Finalize, importVars, cannVars
<1>5. CASE EndRows
  BY <1>5 DEF EndRows, EndRowsMthreads, EndRowsTianshu, EndRowsCann, importVars,
     cannVars
<1>6. CASE MatchNext
  <2>1. phase' \in {"matching", "matched"}
    BY <1>6 DEF MatchNext
  <2> QED
    BY <2>1
<1>7. CASE Overlay
  <2>1. /\ phase = "matched" /\ vendor' = vendor /\ due' = due
        /\ tree' = [o \in Ops \cup {0} |-> Cardinality({j \in DOMAIN artifact :
                      artifact[j].scope = o /\ AddsKernel(artifact[j])})]
    BY <1>7 DEF Overlay
  <2>2. ASSUME NEW o \in Ops
        PROVE  /\ tree'[o] <= 1
               /\ vendor' = "mthreads" /\ o \in due' => tree'[o] = 1
    BY <2>1, LaidOnce
  <2> QED
    BY <2>2
<1>8. CASE \E o \in Ops : StartOp(o)
  BY <1>8 DEF StartOp, importVars, cannVars
<1>9. CASE \E o \in Ops : StopOp(o)
  BY <1>9 DEF StopOp, importVars, cannVars
<1>10. CASE \E row \in Rows[vendor] : ReadRow(row)
  BY <1>10 DEF ReadRow, importVars, cannVars
<1>11. CASE UNCHANGED vars
  BY <1>11 DEF vars, importVars, cannVars
<1> QED
  BY <1>1, <1>2, <1>3, <1>4, <1>5, <1>6, <1>7, <1>8, <1>9, <1>10, <1>11 DEF Next

----------------------------------------------------------------------------
(* The theorems.                                                            *)

\* The invariant holds of every state of every import.
THEOREM ImportInvariant == Spec => []ImportInv
<1>1. Init => ImportInv
  <2> SUFFICES ASSUME Init PROVE ImportInv
    OBVIOUS
  <2>1. /\ runtimeEvents = <<>> /\ events = <<>> /\ artifact = <<>> /\ due = {}
        /\ phase = "idle" /\ session = 0 /\ now = 1 /\ opStart = Quiet /\ used = {} /\ at = 1
        /\ order = Untouched /\ opRanges = {} /\ held = Nothing /\ sdk = AllReleased
        /\ op = [o \in Ops |-> [state |-> "idle", since |-> 0]] /\ vendor \in Vendors
    BY DEF Init
  <2>2. Typed
    BY <2>1 DEF Typed, Phases, Quiet, Untouched
  <2>3. Held
    BY <2>1 DEF Held, Nothing
  <2>4. HostEvents
    BY <2>1 DEF HostEvents, Quiet
  <2>5. ImportEvents /\ Sources /\ ScopesKnown /\ MatchOrder /\ LaunchOrderKept
    BY <2>1 DEF ImportEvents, Sources, ScopesKnown, MatchOrder, LaunchOrderKept, Matches
  <2>6. UsedKnown /\ EachKernelOnce /\ EventsOfTheSession
    BY <2>1 DEF UsedKnown, EachKernelOnce, Imported, EventsOfTheSession
  <2> QED
    BY <2>2, <2>3, <2>4, <2>5, <2>6 DEF ImportInv
<1>2. ImportInv /\ [Next]_vars => ImportInv'
  <2> SUFFICES ASSUME ImportInv, [Next]_vars PROVE ImportInv'
    OBVIOUS
  <2>1. Typed' /\ Held' /\ HostEvents' /\ ImportEvents' /\ EventsOfTheSession'
    BY TypedStep, HeldStep, HostStep, ImportEventsStep, SessionEventsStep DEF ImportInv
  <2>2. Sources' /\ ScopesKnown' /\ UsedKnown' /\ MatchOrder'
    BY SourcesStep, ScopesStep, UsedStep, MatchOrderStep DEF ImportInv
  <2>3. EachKernelOnce' /\ LaunchOrderKept'
    BY EachKernelStep, LaunchOrderStep DEF ImportInv
  <2> QED
    BY <2>1, <2>2, <2>3 DEF ImportInv
<1> QED
  BY <1>1, <1>2, PTL DEF Spec

\* Whatever the export holds, the overlay gives each op of the tree one kernel at most,
\* and the Moore Threads import gives one to every op that was timed: a row takes an
\* event that no row has taken (usedRuntimeEvents), the fallback those that are left.
THEOREM KernelsLaidOnce == Spec => []EachKernelOnce
<1>1. ImportInv => EachKernelOnce
  BY DEF ImportInv
<1> QED
  BY <1>1, ImportInvariant, PTL

\* The ranges of one kernel take its events in launch order and no event twice
\* (correlateVendorToRuntimeEvents and its nextEventByKernel).
THEOREM RangesInLaunchOrder == Spec => []LaunchOrderKept
<1>1. ImportInv => LaunchOrderKept
  BY DEF ImportInv
<1> QED
  BY <1>1, ImportInvariant, PTL

\* After doStop() no range, domain or stream is left and aclprof is off, whichever of
\* the steps of doStart() had failed.
THEOREM ToolReleased == Spec => []EverythingReleased
<1>1. ImportInv => EverythingReleased
  BY DEF ImportInv, Held, EverythingReleased, AllReleased
<1> QED
  BY <1>1, ImportInvariant, PTL

\* The events that the importer drains are of ops that began and ended in the session:
\* doStart() and doStop() forget the ops that are open.
THEOREM DrainedOfTheSession == Spec => []EventsOfTheSession
<1>1. ImportInv => EventsOfTheSession
  BY DEF ImportInv
<1> QED
  BY <1>1, ImportInvariant, PTL
===============================================================================
