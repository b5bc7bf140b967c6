----------------------------- MODULE LaunchProofs -----------------------------
(* Proofs about the debugger's launches, for any number of launches, threads,  *)
(* devices and kernels, on every driver: no run is lost in silence, what a run *)
(* exports is what its own kernel wrote, buffers are freed, and the contexts    *)
(* the adapters make current and retain are given back.                         *)
EXTENDS DebuggerLaunch, TLAPS, FiniteSetTheorems, WellFoundedInduction

OpenPcs == {"body", "sync", "finalize", "deliver"}

\* What the proofs need of the types.  What a buffer holds when it is copied back is
\* left open.
LaunchRecords(D) ==
  [pc : OpenPcs \cup {"idle", "done"}, thread : Threads \cup {NoContext},
   kernel : Kernels \cup {NoContext}, handle : BOOLEAN, ran : BOOLEAN,
   raised : BOOLEAN, data : D, outcome : {"none", "refused", "raised", "returned"}]
Typed ==
  /\ \E D : launch \in [Launches -> LaunchRecords(D)]
  /\ stack \in [Threads -> Seq(Launches)]
  /\ current \in [Threads -> Devices \cup {NoContext}]
  /\ caller \in [Threads -> Devices \cup {NoContext}]
  /\ adapter \in [Launches -> [retained : Devices \cup {NoContext}, captured : BOOLEAN,
                               previous : Devices \cup {NoContext}]]

\* A thread's stack holds its open launches, each once.
StackOK ==
  /\ \A t \in Threads : \A i \in 1 .. Len(stack[t]) :
       /\ launch[stack[t][i]].thread = t /\ launch[stack[t][i]].pc \in OpenPcs
       /\ \A j \in 1 .. Len(stack[t]) : stack[t][i] = stack[t][j] => i = j
  /\ \A l \in Launches : launch[l].pc \in OpenPcs =>
       /\ launch[l].thread \in Threads
       /\ \E i \in 1 .. Len(stack[launch[l].thread]) : stack[launch[l].thread][i] = l

\* Only an open launch of an instrumented kernel has an adapter that holds something,
\* until its buffer is released.
AdaptersOK ==
  \A l \in Launches : adapter[l] # NoAdapter =>
    /\ launch[l].pc \in {"body", "sync", "finalize"}
    /\ launch[l].handle /\ launch[l].kernel.hidden

\* Below the last adapter that saved a context lies the application's: it is what that
\* adapter saved, or, if none did, what is current.
Chain(s, a, now, before) ==
  /\ (\A j \in 1 .. Len(s) : ~a[s[j]].captured) => now = before
  /\ \A i \in 1 .. Len(s) :
       a[s[i]].captured /\ (\A j \in i + 1 .. Len(s) : ~a[s[j]].captured)
         => a[s[i]].previous = before
ChainOK ==
  driver \in {"corex", "cuda"} =>
    \A t \in Threads : Chain(stack[t], adapter, current[t], caller[t])

\* A device's primary context is retained once for each adapter that retained it.
Retaining(d) == {l \in Launches : adapter[l].retained = d}
CountOK ==
  \A d \in Devices : IsFiniteSet(Retaining(d)) /\ primary[d] = Cardinality(Retaining(d))
PrimaryTyped == primary \in [Devices -> Nat]

LaunchInv == Typed /\ StackOK /\ AdaptersOK /\ ChainOK /\ CountOK /\ PrimaryTyped

----------------------------------------------------------------------------
(* Stacks.                                                                  *)

\* A launch is pushed in front of the others.
LEMMA Pushed ==
  ASSUME NEW s \in Seq(Launches), NEW l \in Launches
  PROVE  LET p == <<l>> \o s IN
         /\ p \in Seq(Launches) /\ Len(p) = Len(s) + 1 /\ p[1] = l
         /\ \A i \in 1 .. Len(s) : p[i + 1] = s[i]
         /\ \A i \in 1 .. Len(p) : i = 1 \/ (i - 1 \in 1 .. Len(s) /\ p[i] = s[i - 1])
  OBVIOUS

\* The innermost launch is taken off.
LEMMA Taken ==
  ASSUME NEW s \in Seq(Launches), Len(s) > 0
  PROVE  /\ Tail(s) \in Seq(Launches) /\ Len(Tail(s)) = Len(s) - 1
         /\ \A i \in 1 .. Len(Tail(s)) : i + 1 \in 1 .. Len(s) /\ Tail(s)[i] = s[i + 1]
         /\ Head(s) = s[1]
  OBVIOUS

\* An open launch that is the innermost of its thread is the first of its stack.
LEMMA InnerIsFirst ==
  ASSUME LaunchInv, NEW l \in Launches, launch[l].pc \in OpenPcs, Inner(l)
  PROVE  /\ launch[l].thread \in Threads
         /\ Len(stack[launch[l].thread]) > 0 /\ stack[launch[l].thread][1] = l
<1> DEFINE t == launch[l].thread
<1>1. t \in Threads /\ \E i \in 1 .. Len(stack[t]) : stack[t][i] = l
  BY DEF LaunchInv, StackOK
<1>2. stack[t] \in Seq(Launches)
  BY <1>1 DEF LaunchInv, Typed
<1>3. Len(stack[t]) > 0
  BY <1>1, <1>2
<1> QED
  BY <1>1, <1>2, <1>3, Taken DEF Inner

----------------------------------------------------------------------------
(* Chains of saved contexts.                                                *)

\* A chain depends on the adapters of its own launches only.
LEMMA ChainFrame ==
  ASSUME NEW s \in Seq(Launches), NEW a, NEW b, NEW now, NEW before,
         \A i \in 1 .. Len(s) : a[s[i]] = b[s[i]], Chain(s, a, now, before)
  PROVE  Chain(s, b, now, before)
  BY DEF Chain

\* A launch that saves nothing may be pushed.
LEMMA ChainPush ==
  ASSUME NEW s \in Seq(Launches), NEW l \in Launches, NEW a, NEW now, NEW before,
         ~a[l].captured, Chain(s, a, now, before)
  PROVE  Chain(<<l>> \o s, a, now, before)
<1> DEFINE p == <<l>> \o s
<1>1. /\ p \in Seq(Launches) /\ Len(p) = Len(s) + 1 /\ p[1] = l
      /\ \A i \in 1 .. Len(s) : p[i + 1] = s[i]
      /\ \A i \in 1 .. Len(p) : i = 1 \/ (i - 1 \in 1 .. Len(s) /\ p[i] = s[i - 1])
  BY Pushed
<1>2. Len(s) \in Nat
  OBVIOUS
<1> HIDE DEF p
<1>3. ASSUME \A j \in 1 .. Len(p) : ~a[p[j]].captured PROVE now = before
  <2>1. \A j \in 1 .. Len(s) : j + 1 \in 1 .. Len(p) /\ p[j + 1] = s[j]
    BY <1>1, <1>2
  <2> QED
    BY <1>3, <2>1 DEF Chain
<1>4. ASSUME NEW i \in 1 .. Len(p), a[p[i]].captured,
             \A j \in i + 1 .. Len(p) : ~a[p[j]].captured
      PROVE  a[p[i]].previous = before
  <2>1. i - 1 \in 1 .. Len(s) /\ p[i] = s[i - 1]
    BY <1>1, <1>4
  <2>2. \A j \in (i - 1) + 1 .. Len(s) : j + 1 \in i + 1 .. Len(p) /\ p[j + 1] = s[j]
    BY <1>1, <1>2, <2>1
  <2> QED
    BY <1>4, <2>1, <2>2 DEF Chain
<1>5. Chain(p, a, now, before)
  BY <1>3, <1>4 DEF Chain
<1> QED
  BY <1>5 DEF p

\* A launch that saves what is current may be pushed, whatever is current then.
LEMMA ChainSave ==
  ASSUME NEW s \in Seq(Launches), NEW l \in Launches, NEW a, NEW now, NEW next,
         NEW before, a[l].captured, a[l].previous = now, Chain(s, a, now, before)
  PROVE  Chain(<<l>> \o s, a, next, before)
<1> DEFINE p == <<l>> \o s
<1>1. /\ p \in Seq(Launches) /\ Len(p) = Len(s) + 1 /\ p[1] = l
      /\ \A i \in 1 .. Len(s) : p[i + 1] = s[i]
      /\ \A i \in 1 .. Len(p) : i = 1 \/ (i - 1 \in 1 .. Len(s) /\ p[i] = s[i - 1])
  BY Pushed
<1>2. Len(s) \in Nat
  OBVIOUS
<1> HIDE DEF p
<1>3. ~(\A j \in 1 .. Len(p) : ~a[p[j]].captured)
  BY <1>1, <1>2
<1>4. ASSUME NEW i \in 1 .. Len(p), a[p[i]].captured,
             \A j \in i + 1 .. Len(p) : ~a[p[j]].captured
      PROVE  a[p[i]].previous = before
  <2>1. CASE i = 1
    <3>1. \A j \in 1 .. Len(s) : j + 1 \in i + 1 .. Len(p) /\ p[j + 1] = s[j]
      BY <1>1, <1>2, <2>1
    <3>2. now = before
      BY <1>4, <3>1 DEF Chain
    <3> QED
      BY <1>1, <2>1, <3>2
  <2>2. CASE i # 1
    <3>1. i - 1 \in 1 .. Len(s) /\ p[i] = s[i - 1]
      BY <1>1, <2>2
    <3>2. \A j \in (i - 1) + 1 .. Len(s) : j + 1 \in i + 1 .. Len(p) /\ p[j + 1] = s[j]
      BY <1>1, <1>2, <3>1
    <3> QED
      BY <1>4, <3>1, <3>2 DEF Chain
  <2> QED
    BY <2>1, <2>2
<1>5. Chain(p, a, next, before)
  BY <1>3, <1>4 DEF Chain
<1> QED
  BY <1>5 DEF p

\* The innermost launch is taken off after its adapter.
LEMMA ChainPop ==
  ASSUME NEW s \in Seq(Launches), Len(s) > 0, NEW a, NEW now, NEW before,
         ~a[s[1]].captured, Chain(s, a, now, before)
  PROVE  Chain(Tail(s), a, now, before)
<1> DEFINE q == Tail(s)
<1>1. /\ q \in Seq(Launches) /\ Len(q) = Len(s) - 1
      /\ \A i \in 1 .. Len(q) : i + 1 \in 1 .. Len(s) /\ q[i] = s[i + 1]
  BY Taken
<1>2. Len(s) \in Nat
  OBVIOUS
<1> HIDE DEF q
<1>3. \A j \in 2 .. Len(s) : j - 1 \in 1 .. Len(q) /\ q[j - 1] = s[j]
  BY <1>1, <1>2
<1>4. ASSUME \A j \in 1 .. Len(q) : ~a[q[j]].captured PROVE now = before
  <2>1. \A j \in 1 .. Len(s) : j = 1 \/ j \in 2 .. Len(s)
    BY <1>2
  <2> QED
    BY <1>3, <1>4, <2>1 DEF Chain
<1>5. ASSUME NEW i \in 1 .. Len(q), a[q[i]].captured,
             \A j \in i + 1 .. Len(q) : ~a[q[j]].captured
      PROVE  a[q[i]].previous = before
  <2>1. \A j \in (i + 1) + 1 .. Len(s) : j - 1 \in i + 1 .. Len(q) /\ q[j - 1] = s[j]
    BY <1>1, <1>2
  <2>2. i + 1 \in 1 .. Len(s) /\ q[i] = s[i + 1]
    BY <1>1
  <2> QED
    BY <1>5, <2>1, <2>2 DEF Chain
<1>6. Chain(q, a, now, before)
  BY <1>4, <1>5 DEF Chain
<1> QED
  BY <1>6 DEF q

\* The innermost launch gives back what it saved.
LEMMA ChainRestore ==
  ASSUME NEW s \in Seq(Launches), Len(s) > 0, NEW a, NEW b, NEW now, NEW before,
         ~b[s[1]].captured, \A i \in 2 .. Len(s) : b[s[i]] = a[s[i]],
         Chain(s, a, now, before)
  PROVE  Chain(s, b, IF a[s[1]].captured THEN a[s[1]].previous ELSE now, before)
<1>1. Len(s) \in Nat /\ 1 \in 1 .. Len(s) /\ \A i \in 1 .. Len(s) : i = 1 \/ i \in 2 .. Len(s)
  OBVIOUS
<1>2. ASSUME \A j \in 1 .. Len(s) : ~b[s[j]].captured
      PROVE  (IF a[s[1]].captured THEN a[s[1]].previous ELSE now) = before
  <2>1. \A j \in 2 .. Len(s) : ~a[s[j]].captured
    BY <1>1, <1>2
  <2>2. CASE a[s[1]].captured
    <3>1. \A j \in 1 + 1 .. Len(s) : ~a[s[j]].captured
      BY <2>1
    <3> QED
      BY <1>1, <2>2, <3>1 DEF Chain
  <2>3. CASE ~a[s[1]].captured
    BY <1>1, <2>1, <2>3 DEF Chain
  <2> QED
    BY <2>2, <2>3
<1>3. ASSUME NEW i \in 1 .. Len(s), b[s[i]].captured,
             \A j \in i + 1 .. Len(s) : ~b[s[j]].captured
      PROVE  b[s[i]].previous = before
  <2>1. i \in 2 .. Len(s)
    BY <1>1, <1>3
  <2>2. \A j \in i + 1 .. Len(s) : j \in 2 .. Len(s)
    BY <1>1, <2>1
  <2> QED
    BY <1>3, <2>1, <2>2 DEF Chain
<1> QED
  BY <1>2, <1>3 DEF Chain

\* The initial states: nothing is open and nothing retained.
LEMMA InitInv == Init => LaunchInv
<1> SUFFICES ASSUME Init PROVE LaunchInv
  OBVIOUS
<1>1. launch \in [Launches -> LaunchRecords({"none"})]
  BY DEF Init, Idle, LaunchRecords
<1>2. Typed
  BY <1>1, EngineAssumption DEF Init, EngineInit, Typed, NoAdapter
<1>3. StackOK
  BY DEF Init, StackOK, Idle, OpenPcs
<1>4. \A d \in Devices : Retaining(d) = {}
  BY EngineAssumption DEF Init, EngineInit, Retaining, NoAdapter
<1>5. CountOK /\ PrimaryTyped
  BY <1>4, FS_EmptySet DEF Init, EngineInit, CountOK, PrimaryTyped
<1>6. ChainOK
  BY DEF Init, EngineInit, ChainOK, Chain
<1> QED
  BY <1>2, <1>3, <1>5, <1>6 DEF LaunchInv, AdaptersOK, Init, EngineInit

----------------------------------------------------------------------------
(* Stacks and counts over a step.                                           *)

\* An entry of a stack is open on its thread.
LEMMA EntryOpen ==
  ASSUME LaunchInv, NEW t \in Threads, NEW i \in 1 .. Len(stack[t])
  PROVE  launch[stack[t][i]].thread = t /\ launch[stack[t][i]].pc \in OpenPcs
  BY DEF LaunchInv, StackOK

\* Two entries of a stack differ.
LEMMA EntriesDiffer ==
  ASSUME LaunchInv, NEW t \in Threads, NEW i \in 1 .. Len(stack[t]),
         NEW j \in 1 .. Len(stack[t]), stack[t][i] = stack[t][j]
  PROVE  i = j
  BY DEF LaunchInv, StackOK

\* A launch that was idle is opened in front of its thread's stack.
LEMMA StackPush ==
  ASSUME LaunchInv, NEW l \in Launches, NEW t \in Threads, launch[l].pc = "idle",
         stack' = [stack EXCEPT ![t] = <<l>> \o @],
         \A m \in Launches \ {l} : launch'[m] = launch[m],
         launch'[l].pc = "body", launch'[l].thread = t
  PROVE  StackOK' /\ stack' \in [Threads -> Seq(Launches)]
<1> DEFINE p == <<l>> \o stack[t]
<1>1. \A u \in Threads : stack[u] \in Seq(Launches)
  BY DEF LaunchInv, Typed
<1>2. /\ p \in Seq(Launches) /\ Len(p) = Len(stack[t]) + 1 /\ p[1] = l
      /\ \A i \in 1 .. Len(stack[t]) : p[i + 1] = stack[t][i]
      /\ \A i \in 1 .. Len(p) : i = 1 \/ (i - 1 \in 1 .. Len(stack[t]) /\ p[i] = stack[t][i - 1])
  BY <1>1, Pushed
<1>3. stack' = [stack EXCEPT ![t] = p]
  OBVIOUS
<1> HIDE DEF p
<1>4. stack'[t] = p /\ \A u \in Threads \ {t} : stack'[u] = stack[u]
  BY <1>3 DEF LaunchInv, Typed
<1>5. stack' \in [Threads -> Seq(Launches)]
  BY <1>2, <1>3 DEF LaunchInv, Typed
<1>6. \A u \in Threads : Len(stack[u]) \in Nat /\ \A i \in 1 .. Len(stack[u]) :
        stack[u][i] \in Launches \ {l}
  <2> TAKE u \in Threads
  <2>1. Len(stack[u]) \in Nat /\ \A i \in 1 .. Len(stack[u]) : stack[u][i] \in Launches
    BY <1>1
  <2>2. \A i \in 1 .. Len(stack[u]) : launch[stack[u][i]].pc \in OpenPcs
    BY DEF LaunchInv, StackOK
  <2> QED
    BY <2>1, <2>2 DEF OpenPcs
<1>7. ASSUME NEW u \in Threads, NEW i \in 1 .. Len(stack'[u])
      PROVE  /\ launch'[stack'[u][i]].thread = u /\ launch'[stack'[u][i]].pc \in OpenPcs
             /\ \A j \in 1 .. Len(stack'[u]) : stack'[u][i] = stack'[u][j] => i = j
  <2>1. CASE u # t
    <3>1. stack'[u] = stack[u]
      BY <1>4, <2>1
    <3>2. i \in 1 .. Len(stack[u]) /\ stack[u][i] \in Launches \ {l}
      BY <1>6, <1>7, <3>1
    <3>3. launch'[stack[u][i]].thread = u /\ launch'[stack[u][i]].pc \in OpenPcs
      BY <3>2, EntryOpen
    <3>4. \A j \in 1 .. Len(stack[u]) : stack[u][i] = stack[u][j] => i = j
      BY <3>2, EntriesDiffer
    <3> QED
      BY <3>1, <3>3, <3>4
  <2>2. CASE u = t /\ i = 1
    <3>1. \A j \in 1 .. Len(p) : j # 1 => p[j] # l
      <4> TAKE j \in 1 .. Len(p)
      <4>1. j = 1 \/ (j - 1 \in 1 .. Len(stack[t]) /\ p[j] = stack[t][j - 1])
        BY <1>2
      <4> QED
        BY <1>6, <4>1
    <3>2. stack'[u] = p /\ stack'[u][i] = l
      BY <1>2, <1>4, <2>2
    <3>3. launch'[l].thread = u /\ launch'[l].pc \in OpenPcs
      BY <2>2 DEF OpenPcs
    <3>4. \A j \in 1 .. Len(p) : p[1] = p[j] => 1 = j
      BY <1>2, <3>1
    <3> QED
      BY <2>2, <3>2, <3>3, <3>4
  <2>3. CASE u = t /\ i # 1
    <3>1. i - 1 \in 1 .. Len(stack[t]) /\ p[i] = stack[t][i - 1]
      BY <1>2, <1>4, <1>7, <2>3
    <3>2. p[i] \in Launches \ {l}
      BY <1>6, <3>1
    <3>3. launch'[p[i]].thread = t /\ launch'[p[i]].pc \in OpenPcs
      BY <3>1, <3>2 DEF LaunchInv, StackOK
    <3>4. ASSUME NEW j \in 1 .. Len(p), p[i] = p[j] PROVE i = j
      <4>1. j - 1 \in 1 .. Len(stack[t]) /\ p[j] = stack[t][j - 1]
        BY <1>2, <3>2, <3>4
      <4>2. stack[t][i - 1] = stack[t][j - 1]
        BY <3>1, <3>4, <4>1
      <4>3. i - 1 = j - 1
        <5> HIDE <3>4
        <5> QED
          BY <3>1, <4>1, <4>2, EntriesDiffer
      <4> QED
        BY <4>3, <2>3, <1>4, <1>2, <1>6
    <3> QED
      BY <1>4, <2>3, <3>3, <3>4
  <2> QED
    BY <2>1, <2>2, <2>3
<1>8. ASSUME NEW m \in Launches, launch'[m].pc \in OpenPcs
      PROVE  /\ launch'[m].thread \in Threads
             /\ \E i \in 1 .. Len(stack'[launch'[m].thread]) :
                  stack'[launch'[m].thread][i] = m
  <2>1. CASE m = l
    <3>1. 1 \in 1 .. Len(p)
      BY <1>2, <1>6
    <3> QED
      BY <1>2, <1>4, <2>1, <3>1
  <2>2. CASE m # l
    <3>1. launch'[m] = launch[m]
      BY <2>2
    <3>2. launch[m].thread \in Threads /\ \E i \in 1 .. Len(stack[launch[m].thread]) :
                                              stack[launch[m].thread][i] = m
      BY <1>8, <3>1 DEF LaunchInv, StackOK
    <3>3. CASE launch[m].thread # t
      BY <1>4, <3>1, <3>2, <3>3
    <3>4. CASE launch[m].thread = t
      <4>1. PICK i \in 1 .. Len(stack[t]) : stack[t][i] = m
        BY <3>2, <3>4
      <4>2. i + 1 \in 1 .. Len(p) /\ p[i + 1] = m
        BY <1>2, <1>6, <4>1
      <4> QED
        BY <1>4, <3>1, <3>4, <4>2
    <3> QED
      BY <3>3, <3>4
  <2> QED
    BY <2>1, <2>2
<1>9. StackOK'
  BY <1>7, <1>8 DEF StackOK
<1> QED
  BY <1>5, <1>9

\* The innermost launch is over.
LEMMA StackPop ==
  ASSUME LaunchInv, NEW l \in Launches, launch[l].pc \in OpenPcs, Inner(l),
         stack' = [stack EXCEPT ![launch[l].thread] = Tail(@)],
         \A m \in Launches \ {l} : launch'[m] = launch[m], launch'[l].pc = "done"
  PROVE  StackOK' /\ stack' \in [Threads -> Seq(Launches)]
<1> DEFINE t == launch[l].thread
           q == Tail(stack[t])
<1>1. t \in Threads /\ Len(stack[t]) > 0 /\ stack[t][1] = l
  BY InnerIsFirst
<1>2. stack[t] \in Seq(Launches) /\ Len(stack[t]) \in Nat
  BY <1>1 DEF LaunchInv, Typed
<1>3. /\ q \in Seq(Launches) /\ Len(q) = Len(stack[t]) - 1
      /\ \A i \in 1 .. Len(q) : i + 1 \in 1 .. Len(stack[t]) /\ q[i] = stack[t][i + 1]
  BY <1>1, <1>2, Taken
<1>4. stack' = [stack EXCEPT ![t] = q]
  OBVIOUS
<1> HIDE DEF q
<1>5. stack'[t] = q /\ \A u \in Threads \ {t} : stack'[u] = stack[u]
  BY <1>1, <1>4 DEF LaunchInv, Typed
<1>6. stack' \in [Threads -> Seq(Launches)]
  BY <1>1, <1>3, <1>4 DEF LaunchInv, Typed
<1>7. \A u \in Threads : \A i \in 1 .. Len(stack'[u]) : stack'[u][i] \in Launches
  BY <1>6
<1>8. \A i \in 1 .. Len(q) : q[i] # l
  <2> TAKE i \in 1 .. Len(q)
  <2>1. i + 1 \in 1 .. Len(stack[t]) /\ q[i] = stack[t][i + 1] /\ 1 \in 1 .. Len(stack[t])
    BY <1>1, <1>2, <1>3
  <2>2. stack[t][i + 1] = stack[t][1] => i + 1 = 1
    BY <1>1, <2>1 DEF LaunchInv, StackOK
  <2>3. i + 1 # 1
    BY <1>2, <1>3
  <2> QED
    BY <1>1, <2>1, <2>2, <2>3
<1>9. ASSUME NEW u \in Threads, NEW i \in 1 .. Len(stack'[u])
      PROVE  /\ launch'[stack'[u][i]].thread = u /\ launch'[stack'[u][i]].pc \in OpenPcs
             /\ \A j \in 1 .. Len(stack'[u]) : stack'[u][i] = stack'[u][j] => i = j
  <2>1. CASE u # t
    <3>1. stack'[u] = stack[u]
      BY <1>5, <2>1
    <3>2. launch[stack[u][i]].thread = u
      BY <1>9, <3>1 DEF LaunchInv, StackOK
    <3>3. stack[u][i] \in Launches \ {l}
      BY <1>7, <1>9, <2>1, <3>1, <3>2
    <3>4. launch'[stack[u][i]].thread = u /\ launch'[stack[u][i]].pc \in OpenPcs
      BY <1>9, <3>1, <3>3, EntryOpen
    <3>5. \A j \in 1 .. Len(stack[u]) : stack[u][i] = stack[u][j] => i = j
      BY <1>9, <3>1, EntriesDiffer
    <3> QED
      BY <3>1, <3>4, <3>5
  <2>2. CASE u = t
    <3>1. i + 1 \in 1 .. Len(stack[t]) /\ q[i] = stack[t][i + 1] /\ q[i] \in Launches \ {l}
      BY <1>3, <1>5, <1>7, <1>8, <1>9, <2>2
    <3>2. launch'[q[i]].thread = t /\ launch'[q[i]].pc \in OpenPcs
      BY <1>1, <3>1 DEF LaunchInv, StackOK
    <3>3. ASSUME NEW j \in 1 .. Len(q), q[i] = q[j] PROVE i = j
      <4>1. j + 1 \in 1 .. Len(stack[t]) /\ q[j] = stack[t][j + 1]
        BY <1>3
      <4>2. stack[t][i + 1] = stack[t][j + 1]
        BY <3>1, <3>3, <4>1
      <4>3. i + 1 = j + 1
        <5> HIDE DEF t
        <5> QED
          BY <1>1, <3>1, <4>1, <4>2, EntriesDiffer
      <4> QED
        BY <1>3, <1>2, <1>5, <1>9, <2>2, <4>3
    <3> QED
      BY <1>5, <2>2, <3>2, <3>3
  <2> QED
    BY <2>1, <2>2
<1>10. ASSUME NEW m \in Launches, launch'[m].pc \in OpenPcs
       PROVE  /\ launch'[m].thread \in Threads
              /\ \E i \in 1 .. Len(stack'[launch'[m].thread]) :
                   stack'[launch'[m].thread][i] = m
  <2>1. m # l
    BY <1>10 DEF OpenPcs
  <2>2. launch'[m] = launch[m]
    BY <2>1
  <2>3. launch[m].thread \in Threads /\ \E i \in 1 .. Len(stack[launch[m].thread]) :
                                            stack[launch[m].thread][i] = m
    BY <1>10, <2>2 DEF LaunchInv, StackOK
  <2>4. CASE launch[m].thread # t
    BY <1>5, <2>2, <2>3, <2>4
  <2>5. CASE launch[m].thread = t
    <3>1. PICK i \in 1 .. Len(stack[t]) : stack[t][i] = m
      BY <2>3, <2>5
    <3>2. i # 1
      BY <1>1, <2>1, <3>1
    <3>3. i - 1 \in 1 .. Len(q) /\ q[i - 1] = m
      BY <1>2, <1>3, <3>1, <3>2
    <3> QED
      BY <1>5, <2>2, <2>5, <3>3, <1>1
  <2> QED
    BY <2>4, <2>5
<1>11. StackOK'
  BY <1>9, <1>10 DEF StackOK
<1> QED
  BY <1>6, <1>11

\* The stacks stay as long as no launch is opened or closed.
LEMMA StackStays ==
  ASSUME LaunchInv, stack' = stack,
         \A m \in Launches :
           /\ launch'[m].pc \in OpenPcs <=> launch[m].pc \in OpenPcs
           /\ launch[m].pc \in OpenPcs => launch'[m].thread = launch[m].thread
  PROVE  StackOK' /\ stack' \in [Threads -> Seq(Launches)]
<1>1. \A t \in Threads : \A i \in 1 .. Len(stack[t]) : stack[t][i] \in Launches
  BY DEF LaunchInv, Typed
<1>2. StackOK'
  BY <1>1 DEF LaunchInv, StackOK
<1> QED
  BY <1>2 DEF LaunchInv, Typed

\* An adapter that held nothing retains a context.
LEMMA CountUp ==
  ASSUME LaunchInv, NEW l \in Launches, NEW d \in Devices, NEW a, a.retained = d,
         adapter[l] = NoAdapter, adapter' = [adapter EXCEPT ![l] = a],
         primary' = [primary EXCEPT ![d] = @ + 1]
  PROVE  CountOK' /\ PrimaryTyped'
<1>1. adapter[l].retained = NoContext /\ NoContext \notin Devices
  BY EngineAssumption DEF NoAdapter
<1>2. adapter'[l].retained = d /\ \A m \in Launches \ {l} : adapter'[m] = adapter[m]
  BY DEF LaunchInv, Typed
<1>3. Retaining(d)' = Retaining(d) \cup {l} /\ l \notin Retaining(d)
  BY <1>1, <1>2 DEF Retaining
<1>4. \A e \in Devices \ {d} : Retaining(e)' = Retaining(e)
  BY <1>1, <1>2 DEF Retaining
<1>5. /\ primary'[d] = primary[d] + 1 /\ \A e \in Devices \ {d} : primary'[e] = primary[e]
      /\ primary' \in [Devices -> Nat]
  BY DEF LaunchInv, PrimaryTyped
<1>6. IsFiniteSet(Retaining(d)) /\ primary[d] = Cardinality(Retaining(d))
  BY DEF LaunchInv, CountOK
<1>7. IsFiniteSet(Retaining(d)') /\ Cardinality(Retaining(d)') = primary[d] + 1
  BY <1>3, <1>6, FS_AddElement
<1>8. CountOK'
  BY <1>4, <1>5, <1>7 DEF LaunchInv, CountOK
<1> QED
  BY <1>5, <1>8 DEF PrimaryTyped

\* An adapter is destroyed and drops what it retained.
LEMMA CountDown ==
  ASSUME LaunchInv, NEW l \in Launches, adapter' = [adapter EXCEPT ![l] = NoAdapter],
         primary' = [d \in Devices |->
                       primary[d] - (IF adapter[l].retained = d THEN 1 ELSE 0)]
  PROVE  CountOK' /\ PrimaryTyped'
<1>1. adapter'[l].retained = NoContext /\ \A m \in Launches \ {l} : adapter'[m] = adapter[m]
  BY DEF LaunchInv, Typed, NoAdapter
<1>2. NoContext \notin Devices
  BY EngineAssumption
<1>3. ASSUME NEW d \in Devices
      PROVE  /\ IsFiniteSet(Retaining(d)') /\ primary'[d] = Cardinality(Retaining(d)')
             /\ primary'[d] \in Nat
  <2>1. IsFiniteSet(Retaining(d)) /\ primary[d] = Cardinality(Retaining(d)) /\ primary[d] \in Nat
    BY DEF LaunchInv, CountOK, PrimaryTyped
  <2>2. CASE adapter[l].retained = d
    <3>1. Retaining(d)' = Retaining(d) \ {l} /\ l \in Retaining(d)
      BY <1>1, <1>2, <2>2 DEF Retaining
    <3>2. IsFiniteSet(Retaining(d)') /\ Cardinality(Retaining(d)') = primary[d] - 1
      BY <2>1, <3>1, FS_RemoveElement
    <3>3. primary'[d] = primary[d] - 1
      BY <2>2
    <3>4. Cardinality(Retaining(d)') \in Nat
      BY <3>2, FS_CardinalityType
    <3> QED
      BY <3>2, <3>3, <3>4
  <2>3. CASE adapter[l].retained # d
    <3>1. Retaining(d)' = Retaining(d)
      BY <1>1, <1>2, <2>3 DEF Retaining
    <3>2. primary'[d] = primary[d]
      BY <2>1, <2>3
    <3> QED
      BY <2>1, <3>1, <3>2
  <2> QED
    BY <2>2, <2>3
<1>4. primary' \in [Devices -> Nat]
  BY <1>3
<1> QED
  BY <1>3, <1>4 DEF CountOK, PrimaryTyped

----------------------------------------------------------------------------
(* The steps of a launch.                                                   *)

EngineTyped ==
  /\ current \in [Threads -> Devices \cup {NoContext}]
  /\ caller \in [Threads -> Devices \cup {NoContext}]
  /\ adapter \in [Launches -> [retained : Devices \cup {NoContext}, captured : BOOLEAN,
                               previous : Devices \cup {NoContext}]]
LaunchTyped == \E D : launch \in [Launches -> LaunchRecords(D)]

\* What a step that leaves the adapters and contexts alone keeps of them.
LEMMA EngineFrame ==
  ASSUME LaunchInv, UNCHANGED <<driver, current, caller, primary, adapter>>
  PROVE  EngineTyped' /\ CountOK' /\ PrimaryTyped' /\ (stack' = stack => ChainOK')
<1>1. EngineTyped'
  BY DEF LaunchInv, Typed, EngineTyped
<1>2. CountOK' /\ PrimaryTyped'
  BY DEF LaunchInv, CountOK, PrimaryTyped, Retaining
<1>3. ASSUME stack' = stack PROVE ChainOK'
  BY <1>3 DEF LaunchInv, ChainOK, Chain
<1> QED
  BY <1>1, <1>2, <1>3

\* A step of a launch that neither opens nor closes one and touches no adapter.
LEMMA StepKeeps ==
  ASSUME LaunchInv, NEW l \in Launches, LaunchTyped',
         UNCHANGED <<driver, current, caller, primary, adapter, stack>>,
         \A m \in Launches \ {l} : launch'[m] = launch[m],
         launch'[l].pc \in OpenPcs <=> launch[l].pc \in OpenPcs,
         launch[l].pc \in OpenPcs => /\ launch'[l].thread = launch[l].thread
                                     /\ launch'[l].handle = launch[l].handle
                                     /\ launch'[l].kernel = launch[l].kernel,
         launch'[l].pc \in {"body", "sync", "finalize"} \/ adapter[l] = NoAdapter
  PROVE  LaunchInv'
<1>1. StackOK' /\ stack' \in [Threads -> Seq(Launches)]
  BY StackStays
<1>2. EngineTyped' /\ CountOK' /\ PrimaryTyped' /\ ChainOK'
  BY EngineFrame
<1>3. AdaptersOK'
  BY DEF LaunchInv, AdaptersOK, OpenPcs
<1>4. Typed'
  BY <1>1, <1>2 DEF Typed, EngineTyped, LaunchTyped
<1> QED
  BY <1>1, <1>2, <1>3, <1>4 DEF LaunchInv

\* A refused launch is over at once.
LEMMA RefusedKeeps ==
  ASSUME LaunchInv, NEW l \in Launches, NEW t \in Threads, NEW k \in Kernels,
         Enter(l, t, k), Refused(k)
  PROVE  LaunchInv'
<1> DEFINE r == [Idle EXCEPT !.pc = "done", !.thread = t, !.kernel = k,
                             !.outcome = "refused"]
<1>1. /\ launch[l].pc = "idle" /\ launch' = [launch EXCEPT ![l] = r]
      /\ UNCHANGED <<engineVars, stack>>
  BY DEF Enter
<1>2. r \in LaunchRecords({"none"}) /\ r.pc = "done"
  BY DEF LaunchRecords, Idle
<1> HIDE DEF r
<1>3. PICK D : launch \in [Launches -> LaunchRecords(D)]
  BY DEF LaunchInv, Typed
<1>4. launch'[l] = r /\ \A m \in Launches \ {l} : launch'[m] = launch[m]
  BY <1>1, <1>3
<1>5. launch' \in [Launches -> LaunchRecords(D \cup {"none"})]
  BY <1>1, <1>2, <1>3 DEF LaunchRecords
<1>6. adapter[l] = NoAdapter
  BY <1>1 DEF LaunchInv, AdaptersOK
<1> QED
  BY <1>1, <1>2, <1>4, <1>5, <1>6, StepKeeps DEF LaunchTyped, engineVars, OpenPcs

\* A launch is opened: its device is made current, and what that replaces is kept.
LEMMA OpenedKeeps ==
  ASSUME LaunchInv, NEW l \in Launches, NEW t \in Threads, NEW k \in Kernels,
         Enter(l, t, k), ~Refused(k)
  PROVE  LaunchInv'
<1> DEFINE h == k.debug \/ config.enabled
           r == [Idle EXCEPT !.pc = "body", !.thread = t, !.kernel = k, !.handle = h]
<1>1. /\ launch[l].pc = "idle" /\ launch' = [launch EXCEPT ![l] = r]
      /\ stack' = [stack EXCEPT ![t] = <<l>> \o @]
      /\ IF k.hidden THEN PrepareBuffer(t, l, k.device) ELSE UNCHANGED engineVars
  BY DEF Enter
<1>2. /\ r \in LaunchRecords({"none"}) /\ r.pc = "body" /\ r.thread = t /\ r.kernel = k
      /\ r.handle = (k.debug \/ config.enabled)
  <2>1. h \in BOOLEAN /\ h = (k.debug \/ config.enabled)
    OBVIOUS
  <2> HIDE DEF h
  <2>2. r \in LaunchRecords({"none"})
    <3>1. ASSUME NEW b \in BOOLEAN
          PROVE  [Idle EXCEPT !.pc = "body", !.thread = t, !.kernel = k, !.handle = b]
                   \in LaunchRecords({"none"})
      BY DEF LaunchRecords, Idle, OpenPcs
    <3> QED
      BY <2>1, <3>1
  <2>3. r.pc = "body" /\ r.thread = t /\ r.kernel = k
    BY DEF Idle
  <2>4. r.handle = h
    BY <2>1 DEF Idle
  <2> QED
    BY <2>1, <2>2, <2>3, <2>4
<1> HIDE DEF r
<1>3. PICK D : launch \in [Launches -> LaunchRecords(D)]
  BY DEF LaunchInv, Typed
<1>4. launch'[l] = r /\ \A m \in Launches \ {l} : launch'[m] = launch[m]
  BY <1>1, <1>3
<1>5. launch' \in [Launches -> LaunchRecords(D \cup {"none"})]
  BY <1>1, <1>2, <1>3 DEF LaunchRecords
<1>6. adapter[l] = NoAdapter
  BY <1>1 DEF LaunchInv, AdaptersOK
<1>7. StackOK' /\ stack' \in [Threads -> Seq(Launches)]
  BY <1>1, <1>2, <1>4, StackPush
<1>8. (k.hidden => k.debug) /\ k.device \in Devices
  BY KernelAssumption
<1>9. ASSUME EngineTyped', CountOK', PrimaryTyped', ChainOK',
             \A m \in Launches \ {l} : adapter'[m] = adapter[m],
             adapter'[l] # NoAdapter => k.hidden
      PROVE  LaunchInv'
  <2>1. AdaptersOK'
    BY <1>2, <1>4, <1>8, <1>9 DEF LaunchInv, AdaptersOK
  <2>2. Typed'
    BY <1>5, <1>7, <1>9 DEF Typed, EngineTyped
  <2> QED
    BY <1>7, <1>9, <2>1, <2>2 DEF LaunchInv
<1>10. /\ stack[t] \in Seq(Launches) /\ stack'[t] = <<l>> \o stack[t]
       /\ \A u \in Threads \ {t} : stack'[u] = stack[u] /\ stack[u] \in Seq(Launches)
  BY <1>1 DEF LaunchInv, Typed
<1>11. \A u \in Threads : \A i \in 1 .. Len(stack[u]) : stack[u][i] \in Launches \ {l}
  <2> TAKE u \in Threads
  <2> TAKE i \in 1 .. Len(stack[u])
  <2>1. stack[u][i] \in Launches
    BY DEF LaunchInv, Typed
  <2> QED
    BY <1>1, <2>1, EntryOpen DEF OpenPcs
<1>12. CASE UNCHANGED <<driver, current, caller, primary, adapter>>
  <2>1. EngineTyped' /\ CountOK' /\ PrimaryTyped'
    BY <1>12, EngineFrame
  <2>2. ~adapter[l].captured
    BY <1>6 DEF NoAdapter
  <2>3. ASSUME driver' \in {"corex", "cuda"}, NEW u \in Threads
        PROVE  Chain(stack'[u], adapter', current'[u], caller'[u])
    <3>1. Chain(stack[u], adapter, current[u], caller[u])
      BY <1>12, <2>3 DEF LaunchInv, ChainOK
    <3>2. CASE u = t
      <4>1. Chain(<<l>> \o stack[u], adapter, current[u], caller[u])
        BY <1>10, <2>2, <3>1, <3>2, ChainPush
      <4> QED
        BY <1>10, <1>12, <3>2, <4>1
    <3>3. CASE u # t
      BY <1>10, <1>12, <3>1, <3>3
    <3> QED
      BY <3>2, <3>3
  <2>4. ChainOK'
    BY <2>3 DEF ChainOK
  <2> QED
    BY <1>6, <1>9, <1>12, <2>1, <2>4
<1>13. CASE k.hidden /\ SetDevice(t, l, k.device) /\ UNCHANGED <<driver, caller>>
  <2> DEFINE d == k.device
             Take(a) == /\ primary' = [primary EXCEPT ![d] = @ + 1]
                        /\ current' = [current EXCEPT ![t] = d]
                        /\ adapter' = [adapter EXCEPT ![l] = a]
             saved == [retained |-> d, captured |-> TRUE, previous |-> current[t]]
             plain == [NoAdapter EXCEPT !.retained = d]
  <2>1. \/ UNCHANGED <<current, primary, adapter>>
        \/ driver \in {"corex", "cuda"} /\ Take(saved)
        \/ driver = "musa" /\ Take(plain)
        \/ /\ driver \in {"tops", "maca"} /\ current' = [current EXCEPT ![t] = d]
           /\ UNCHANGED <<primary, adapter>>
    BY <1>13 DEF SetDevice, CorexSetDevice, MusaSetDevice, Retained
  <2>2. CASE UNCHANGED <<current, primary, adapter>>
    BY <1>12, <1>13, <2>2
  <2>3. CASE driver \in {"corex", "cuda"} /\ Take(saved)
    <3>1. /\ saved.retained = d /\ saved.captured /\ saved.previous = current[t]
          /\ saved \in [retained : Devices \cup {NoContext}, captured : BOOLEAN,
                        previous : Devices \cup {NoContext}]
      BY <1>8 DEF LaunchInv, Typed
    <3> HIDE DEF saved
    <3>2. CountOK' /\ PrimaryTyped'
      BY <1>6, <1>8, <2>3, <3>1, CountUp
    <3>3. EngineTyped'
      BY <1>8, <1>13, <2>3, <3>1 DEF LaunchInv, Typed, EngineTyped
    <3>4. /\ \A m \in Launches \ {l} : adapter'[m] = adapter[m]
          /\ adapter'[l] = saved
          /\ \A u \in Threads \ {t} : current'[u] = current[u]
      BY <2>3 DEF LaunchInv, Typed
    <3>5. ASSUME NEW u \in Threads
          PROVE  Chain(stack'[u], adapter', current'[u], caller'[u])
      <4>1. Chain(stack[u], adapter, current[u], caller[u])
        BY <2>3 DEF LaunchInv, ChainOK
      <4>2. \A i \in 1 .. Len(stack[u]) : adapter[stack[u][i]] = adapter'[stack[u][i]]
        BY <1>11, <3>4
      <4>3. stack[u] \in Seq(Launches)
        BY <1>10
      <4>4. Chain(stack[u], adapter', current[u], caller[u])
        BY <4>1, <4>2, <4>3, ChainFrame
      <4>5. CASE u = t
        <5>1. adapter'[l].captured /\ adapter'[l].previous = current[u]
          BY <3>1, <3>4, <4>5
        <5>2. Chain(<<l>> \o stack[u], adapter', current'[u], caller[u])
          BY <4>3, <4>4, <5>1, ChainSave
        <5> QED
          BY <1>10, <1>13, <4>5, <5>2
      <4>6. CASE u # t
        BY <1>10, <1>13, <3>4, <4>4, <4>6
      <4> QED
        BY <4>5, <4>6
    <3>6. ChainOK'
      BY <3>5 DEF ChainOK
    <3> QED
      BY <1>9, <1>13, <3>2, <3>3, <3>4, <3>6
  <2>4. CASE driver = "musa" /\ Take(plain)
    <3>1. /\ plain.retained = d
          /\ plain \in [retained : Devices \cup {NoContext}, captured : BOOLEAN,
                        previous : Devices \cup {NoContext}]
      BY <1>8 DEF NoAdapter
    <3> HIDE DEF plain
    <3>2. CountOK' /\ PrimaryTyped'
      BY <1>6, <1>8, <2>4, <3>1, CountUp
    <3>3. EngineTyped'
      BY <1>8, <1>13, <2>4, <3>1 DEF LaunchInv, Typed, EngineTyped
    <3>4. \A m \in Launches \ {l} : adapter'[m] = adapter[m]
      BY <2>4 DEF LaunchInv, Typed
    <3>5. ChainOK'
      BY <1>13, <2>4 DEF ChainOK
    <3> QED
      BY <1>9, <1>13, <3>2, <3>3, <3>4, <3>5
  <2>5. CASE /\ driver \in {"tops", "maca"} /\ current' = [current EXCEPT ![t] = d]
             /\ UNCHANGED <<primary, adapter>>
    <3>1. EngineTyped'
      BY <1>8, <1>13, <2>5 DEF LaunchInv, Typed, EngineTyped
    <3>2. CountOK' /\ PrimaryTyped'
      BY <2>5 DEF LaunchInv, CountOK, PrimaryTyped, Retaining
    <3>3. ChainOK'
      BY <1>13, <2>5 DEF ChainOK
    <3> QED
      BY <1>6, <1>9, <2>5, <3>1, <3>2, <3>3
  <2> QED
    BY <2>1, <2>2, <2>3, <2>4, <2>5
<1> QED
  BY <1>1, <1>12, <1>13 DEF PrepareBuffer, engineVars

\* What holds of adapters and contexts once the adapter of launch l is gone and the
\* launch is still on its stack.
Given(l) ==
  /\ EngineTyped' /\ CountOK' /\ PrimaryTyped'
  /\ adapter'[l] = NoAdapter /\ \A m \in Launches \ {l} : adapter'[m] = adapter[m]
  /\ driver' \in {"corex", "cuda"} =>
       \A u \in Threads : Chain(stack[u], adapter', current'[u], caller'[u])

\* The adapter of the innermost launch gives back what it holds.
LEMMA ReleaseGives ==
  ASSUME LaunchInv, NEW l \in Launches, launch[l].pc \in OpenPcs, Inner(l),
         DestroyAdapter(launch[l].thread, l), UNCHANGED <<driver, caller>>
  PROVE  Given(l)
<1> DEFINE t == launch[l].thread
           a == adapter[l]
<1>1. t \in Threads /\ Len(stack[t]) > 0 /\ stack[t][1] = l
  BY InnerIsFirst
<1>2. /\ current' = IF a.captured THEN [current EXCEPT ![t] = a.previous] ELSE current
      /\ primary' = [d \in Devices |-> primary[d] - (IF a.retained = d THEN 1 ELSE 0)]
      /\ adapter' = [adapter EXCEPT ![l] = NoAdapter]
  BY DEF DestroyAdapter
<1>3. CountOK' /\ PrimaryTyped'
  BY <1>2, CountDown
<1>4. /\ adapter'[l] = NoAdapter /\ \A m \in Launches \ {l} : adapter'[m] = adapter[m]
      /\ current'[t] = (IF a.captured THEN a.previous ELSE current[t])
      /\ \A u \in Threads \ {t} : current'[u] = current[u]
  BY <1>1, <1>2 DEF LaunchInv, Typed
<1>5. EngineTyped'
  <2>1. a.previous \in Devices \cup {NoContext}
    BY DEF LaunchInv, Typed
  <2>2. NoAdapter \in [retained : Devices \cup {NoContext}, captured : BOOLEAN,
                       previous : Devices \cup {NoContext}]
    BY DEF NoAdapter
  <2>3. current' \in [Threads -> Devices \cup {NoContext}]
    BY <1>1, <1>2, <2>1 DEF LaunchInv, Typed
  <2> QED
    BY <1>2, <2>2, <2>3 DEF LaunchInv, Typed, EngineTyped
<1>6. ASSUME driver' \in {"corex", "cuda"}, NEW u \in Threads
      PROVE  Chain(stack[u], adapter', current'[u], caller'[u])
  <2>1. Chain(stack[u], adapter, current[u], caller[u])
    BY <1>6 DEF LaunchInv, ChainOK
  <2>2. stack[u] \in Seq(Launches) /\ \A i \in 1 .. Len(stack[u]) : stack[u][i] \in Launches
    BY DEF LaunchInv, Typed
  <2>3. CASE u = t
    <3>1. ~adapter'[stack[u][1]].captured
      BY <1>1, <1>4, <2>3 DEF NoAdapter
    <3>2. ASSUME NEW i \in 2 .. Len(stack[u])
          PROVE  adapter'[stack[u][i]] = adapter[stack[u][i]]
      <4>1. 1 \in 1 .. Len(stack[u]) /\ i \in 1 .. Len(stack[u]) /\ i # 1
        BY <2>2
      <4>2. stack[u][i] # stack[u][1]
        BY <4>1, EntriesDiffer
      <4> QED
        BY <1>1, <1>4, <2>2, <2>3, <4>1, <4>2
    <3>3. Chain(stack[u], adapter',
                IF adapter[stack[u][1]].captured THEN adapter[stack[u][1]].previous
                ELSE current[u], caller[u])
      BY <1>1, <2>1, <2>2, <2>3, <3>1, <3>2, ChainRestore
    <3> QED
      BY <1>1, <1>4, <2>3, <3>3
  <2>4. CASE u # t
    <3>1. ASSUME NEW i \in 1 .. Len(stack[u])
          PROVE  adapter[stack[u][i]] = adapter'[stack[u][i]]
      <4>1. stack[u][i] # l
        BY <2>4, EntryOpen
      <4> QED
        BY <1>4, <2>2, <4>1
    <3>2. Chain(stack[u], adapter', current[u], caller[u])
      BY <2>1, <2>2, <3>1, ChainFrame
    <3> QED
      BY <1>4, <2>4, <3>2
  <2> QED
    BY <2>3, <2>4
<1> QED
  BY <1>3, <1>4, <1>5, <1>6 DEF Given

\* A launch whose adapter holds nothing has given back everything.
LEMMA NothingToGive ==
  ASSUME LaunchInv, NEW l \in Launches, adapter[l] = NoAdapter,
         UNCHANGED <<driver, current, caller, primary, adapter>>
  PROVE  Given(l)
<1>1. EngineTyped' /\ CountOK' /\ PrimaryTyped'
  BY EngineFrame
<1>2. driver' \in {"corex", "cuda"} =>
        \A u \in Threads : Chain(stack[u], adapter', current'[u], caller'[u])
  BY DEF LaunchInv, ChainOK
<1> QED
  BY <1>1, <1>2 DEF Given

\* The innermost launch is over and has given back everything.
LEMMA LeaveKeeps ==
  ASSUME LaunchInv, NEW l \in Launches, NEW o \in {"raised", "returned"},
         launch[l].pc \in OpenPcs, Inner(l), Leave(l, o), Given(l)
  PROVE  LaunchInv'
<1> DEFINE t == launch[l].thread
<1>1. t \in Threads /\ Len(stack[t]) > 0 /\ stack[t][1] = l
  BY InnerIsFirst
<1>2. PICK D : launch \in [Launches -> LaunchRecords(D)]
  BY DEF LaunchInv, Typed
<1>3. /\ launch' = [launch EXCEPT ![l].pc = "done", ![l].outcome = o]
      /\ stack' = [stack EXCEPT ![t] = Tail(@)]
  BY DEF Leave
<1>4. launch' \in [Launches -> LaunchRecords(D)]
  <2> DEFINE r == [launch[l] EXCEPT !.pc = "done", !.outcome = o]
  <2>1. r \in LaunchRecords(D)
    BY <1>2 DEF LaunchRecords
  <2>2. launch' = [launch EXCEPT ![l] = r]
    BY <1>2, <1>3
  <2> HIDE DEF r
  <2> QED
    BY <1>2, <2>1, <2>2
<1>5. launch'[l].pc = "done" /\ \A m \in Launches \ {l} : launch'[m] = launch[m]
  BY <1>2, <1>3 DEF LaunchRecords
<1>6. StackOK' /\ stack' \in [Threads -> Seq(Launches)]
  BY <1>3, <1>5, StackPop
<1>7. AdaptersOK'
  BY <1>5 DEF LaunchInv, AdaptersOK, Given
<1>8. ASSUME driver' \in {"corex", "cuda"}, NEW u \in Threads
      PROVE  Chain(stack'[u], adapter', current'[u], caller'[u])
  <2>1. Chain(stack[u], adapter', current'[u], caller'[u])
    BY <1>8 DEF Given
  <2>2. CASE u = t
    <3>1. ~adapter'[stack[u][1]].captured
      BY <1>1, <2>2 DEF Given, NoAdapter
    <3>2. stack[u] \in Seq(Launches) /\ stack'[u] = Tail(stack[u])
      BY <1>3, <2>2 DEF LaunchInv, Typed
    <3> QED
      BY <1>1, <2>1, <2>2, <3>1, <3>2, ChainPop
  <2>3. CASE u # t
    <3>1. stack'[u] = stack[u]
      BY <1>3, <2>3 DEF LaunchInv, Typed
    <3> QED
      BY <2>1, <3>1
  <2> QED
    BY <2>2, <2>3
<1>9. ChainOK'
  BY <1>8 DEF ChainOK
<1>10. Typed'
  BY <1>4, <1>6 DEF Given, Typed, EngineTyped
<1> QED
  BY <1>6, <1>7, <1>9, <1>10 DEF LaunchInv, Given

\* The kernel is enqueued or the launch raises.
LEMMA BodyKeeps ==
  ASSUME LaunchInv, NEW l \in Launches, NEW e \in BOOLEAN, NEW x \in BOOLEAN, Body(l, e, x)
  PROVE  LaunchInv'
<1>1. PICK D : launch \in [Launches -> LaunchRecords(D)]
  BY DEF LaunchInv, Typed
<1>2. /\ launch[l].pc = "body" /\ UNCHANGED <<driver, current, caller, primary, adapter, stack>>
      /\ launch' = [launch EXCEPT ![l].pc = IF x THEN "finalize" ELSE "sync",
                                  ![l].ran = e, ![l].raised = x]
  BY DEF Body
<1>3. launch' \in [Launches -> LaunchRecords(D)]
  <2> DEFINE r == [launch[l] EXCEPT !.pc = IF x THEN "finalize" ELSE "sync",
                                    !.ran = e, !.raised = x]
  <2>1. r \in LaunchRecords(D)
    BY <1>1 DEF LaunchRecords, OpenPcs
  <2>2. launch' = [launch EXCEPT ![l] = r]
    BY <1>1, <1>2
  <2> HIDE DEF r
  <2> QED
    BY <1>1, <2>1, <2>2
<1>4. /\ launch'[l].pc \in {"sync", "finalize"} /\ launch'[l].thread = launch[l].thread
      /\ launch'[l].handle = launch[l].handle /\ launch'[l].kernel = launch[l].kernel
      /\ \A m \in Launches \ {l} : launch'[m] = launch[m]
  BY <1>1, <1>2 DEF LaunchRecords
<1> QED
  BY <1>2, <1>3, <1>4, StepKeeps DEF LaunchTyped, OpenPcs

\* The device is waited for.
LEMMA SynchronizeKeeps ==
  ASSUME LaunchInv, NEW l \in Launches, Synchronize(l)
  PROVE  LaunchInv'
<1> DEFINE x == Kernel(l).hidden /\ driver = "host"
<1>1. PICK D : launch \in [Launches -> LaunchRecords(D)]
  BY DEF LaunchInv, Typed
<1>2. /\ launch[l].pc = "sync" /\ UNCHANGED <<driver, current, caller, primary, adapter, stack>>
      /\ launch' = [launch EXCEPT ![l].pc = "finalize", ![l].raised = x]
  BY DEF Synchronize
<1>3. x \in BOOLEAN
  OBVIOUS
<1> HIDE DEF x
<1>4. launch' \in [Launches -> LaunchRecords(D)]
  <2> DEFINE r == [launch[l] EXCEPT !.pc = "finalize", !.raised = x]
  <2>1. r \in LaunchRecords(D)
    BY <1>1, <1>3 DEF LaunchRecords, OpenPcs
  <2>2. launch' = [launch EXCEPT ![l] = r]
    BY <1>1, <1>2
  <2> HIDE DEF r
  <2> QED
    BY <1>1, <2>1, <2>2
<1>5. /\ launch'[l].pc = "finalize" /\ launch'[l].thread = launch[l].thread
      /\ launch'[l].handle = launch[l].handle /\ launch'[l].kernel = launch[l].kernel
      /\ \A m \in Launches \ {l} : launch'[m] = launch[m]
  BY <1>1, <1>2 DEF LaunchRecords
<1> QED
  BY <1>2, <1>4, <1>5, StepKeeps DEF LaunchTyped, OpenPcs

\* The finalizer ends the launch, or copies its buffer and stays to deliver it.
LEMMA FinalizeKeeps ==
  ASSUME LaunchInv, NEW l \in Launches, Finalize(l)
  PROVE  LaunchInv'
<1> DEFINE t == launch[l].thread
           dropped == launch[l].raised /\ ~config.onError
<1>1. launch[l].pc = "finalize" /\ launch[l].pc \in OpenPcs /\ Inner(l)
  BY DEF Finalize, OpenPcs
<1>2. PICK D : launch \in [Launches -> LaunchRecords(D)]
  BY DEF LaunchInv, Typed
<1>3. ~(launch[l].handle /\ Kernel(l).hidden) => adapter[l] = NoAdapter
  BY DEF LaunchInv, AdaptersOK, Kernel
<1>4. ASSUME NEW g, ReleaseBuffer(t, l, g) PROVE Given(l)
  BY <1>1, <1>4, ReleaseGives DEF ReleaseBuffer
<1>5. ASSUME UNCHANGED engineVars, adapter[l] = NoAdapter PROVE Given(l)
  BY <1>5, NothingToGive DEF engineVars
<1>6. CASE ~launch[l].handle \/ dropped
  <2>1. /\ Leave(l, IF launch[l].raised THEN "raised" ELSE "returned")
        /\ IF launch[l].handle /\ Kernel(l).hidden THEN ReleaseBuffer(t, l, Gpu)
           ELSE UNCHANGED engineVars
    BY <1>6 DEF Finalize
  <2>2. Given(l)
    BY <1>3, <1>4, <1>5, <2>1
  <2> QED
    BY <1>1, <2>1, <2>2, LeaveKeeps
<1>7. CASE ~(~launch[l].handle \/ dropped)
  <2>1. stack' = stack
    BY <1>7 DEF Finalize
  <2>2. PICK x : /\ launch' = [launch EXCEPT ![l] = [launch[l] EXCEPT !.pc = "deliver",
                                                                      !.data = x]]
                 /\ Given(l)
    <3>1. CASE ~Kernel(l).hidden
      <4>1. launch' = [launch EXCEPT ![l].pc = "deliver"] /\ UNCHANGED engineVars
        BY <1>7, <3>1 DEF Finalize
      <4>2. launch' = [launch EXCEPT ![l] = [launch[l] EXCEPT !.pc = "deliver",
                                                              !.data = launch[l].data]]
        BY <1>2, <4>1 DEF LaunchRecords
      <4> QED
        BY <1>3, <1>5, <3>1, <4>1, <4>2
    <3>2. CASE Kernel(l).hidden
      <4> DEFINE g == Exported(Gpu, Kernel(l).stream, l)
                 y == g.memory[l].host
      <4>1. /\ launch' = [launch EXCEPT ![l].pc = "deliver", ![l].data = y]
            /\ ReleaseBuffer(t, l, g)
        BY <1>7, <3>2 DEF Finalize
      <4> HIDE DEF g, y
      <4>2. launch' = [launch EXCEPT ![l] = [launch[l] EXCEPT !.pc = "deliver",
                                                              !.data = y]]
        BY <1>2, <4>1 DEF LaunchRecords
      <4> QED
        BY <1>4, <4>1, <4>2
    <3> QED
      BY <3>1, <3>2
  <2>3. launch' \in [Launches -> LaunchRecords(D \cup {x})]
    <3>1. \A m \in Launches : launch[m] \in LaunchRecords(D \cup {x})
      BY <1>2 DEF LaunchRecords
    <3>2. [launch[l] EXCEPT !.pc = "deliver", !.data = x] \in LaunchRecords(D \cup {x})
      BY <3>1 DEF LaunchRecords, OpenPcs
    <3> QED
      BY <1>2, <2>2, <3>1, <3>2
  <2>4. /\ launch'[l].pc = "deliver" /\ launch'[l].thread = launch[l].thread
        /\ \A m \in Launches \ {l} : launch'[m] = launch[m]
    BY <1>2, <2>2 DEF LaunchRecords
  <2>5. StackOK' /\ stack' \in [Threads -> Seq(Launches)]
    BY <1>1, <2>1, <2>4, StackStays DEF OpenPcs
  <2>6. AdaptersOK'
    BY <2>2, <2>4 DEF LaunchInv, AdaptersOK, Given
  <2>7. ChainOK'
    BY <2>1, <2>2 DEF Given, ChainOK
  <2>8. Typed'
    BY <2>2, <2>3, <2>5 DEF Given, Typed, EngineTyped
  <2> QED
    BY <2>2, <2>5, <2>6, <2>7, <2>8 DEF LaunchInv, Given
<1> QED
  BY <1>6, <1>7

\* The run is appended and the launch is over.
LEMMA DeliverKeeps ==
  ASSUME LaunchInv, NEW l \in Launches, Deliver(l)
  PROVE  LaunchInv'
<1>1. launch[l].pc = "deliver" /\ launch[l].pc \in OpenPcs /\ Inner(l) /\ UNCHANGED engineVars
  BY DEF Deliver, OpenPcs
<1>2. adapter[l] = NoAdapter
  BY <1>1 DEF LaunchInv, AdaptersOK
<1>3. Given(l)
  BY <1>1, <1>2, NothingToGive DEF engineVars
<1>4. Leave(l, "raised") \/ Leave(l, IF launch[l].raised \/ config.handler = "raises"
                                     THEN "raised" ELSE "returned")
  BY DEF Deliver
<1> QED
  BY <1>1, <1>3, <1>4, LeaveKeeps

\* Steps of no launch.
LEMMA OthersKeep ==
  ASSUME LaunchInv,
         UNCHANGED <<driver, current, caller, primary, adapter, stack, launch>>
  PROVE  LaunchInv'
<1>1. EngineTyped' /\ CountOK' /\ PrimaryTyped' /\ ChainOK'
  BY EngineFrame
<1>2. StackOK' /\ AdaptersOK' /\ LaunchTyped' /\ stack' \in [Threads -> Seq(Launches)]
  BY DEF LaunchInv, StackOK, AdaptersOK, Typed, LaunchTyped
<1> QED
  BY <1>1, <1>2 DEF LaunchInv, Typed, EngineTyped, LaunchTyped

\* Every step keeps the invariant.
LEMMA NextKeeps == LaunchInv /\ [Next]_vars => LaunchInv'
<1> SUFFICES ASSUME LaunchInv, [Next]_vars PROVE LaunchInv'
  OBVIOUS
<1>1. CASE Application
  BY <1>1, OthersKeep DEF Application, Activate, Deactivate, Configure, engineVars
<1>2. ASSUME NEW l \in Launches, Step(l) PROVE LaunchInv'
  <2>1. ASSUME NEW t \in Threads, NEW k \in Kernels, Enter(l, t, k) PROVE LaunchInv'
    BY <2>1, RefusedKeeps, OpenedKeeps
  <2>2. ASSUME NEW e \in BOOLEAN, NEW x \in BOOLEAN, Body(l, e, x) PROVE LaunchInv'
    BY <2>2, BodyKeeps
  <2>3. CASE Synchronize(l)
    BY <2>3, SynchronizeKeeps
  <2>4. CASE Finalize(l)
    BY <2>4, FinalizeKeeps
  <2>5. CASE Deliver(l)
    BY <2>5, DeliverKeeps
  <2> QED
    BY <1>2, <2>1, <2>2, <2>3, <2>4, <2>5 DEF Step
<1>3. ASSUME NEW s \in Streams, StreamStep(s), UNCHANGED <<pyVars, stack, launch, exported>>
      PROVE  LaunchInv'
  BY <1>3, OthersKeep DEF StreamStep
<1>4. CASE UNCHANGED vars
  BY <1>4, OthersKeep DEF vars, engineVars
<1> QED
  BY <1>1, <1>2, <1>3, <1>4 DEF Next

\* The invariant is inductive.
LEMMA Invariant == Spec => []LaunchInv
<1>1. Init => LaunchInv
  BY InitInv
<1>2. LaunchInv /\ [Next]_vars => LaunchInv'
  BY NextKeeps
<1> QED
  BY <1>1, <1>2, PTL DEF Spec

----------------------------------------------------------------------------
(* The theorems.                                                            *)

\* An engine does not leave its context behind: a thread none of whose launches has
\* an adapter that saved a context finds the application's context current, and with
\* no launch open no primary context is retained.
THEOREM ContextsComeBack == Spec => []ContextsRestored
<1>1. LaunchInv => ContextsRestored
  <2> SUFFICES ASSUME LaunchInv PROVE ContextsRestored
    OBVIOUS
  <2>1. ASSUME driver \in {"corex", "cuda"}, NEW t \in Threads,
               \A l \in Launches : adapter[l].captured => launch[l].thread # t
        PROVE  current[t] = caller[t]
    <3>1. ASSUME NEW j \in 1 .. Len(stack[t]) PROVE ~adapter[stack[t][j]].captured
      <4>1. stack[t][j] \in Launches
        BY DEF LaunchInv, Typed
      <4>2. launch[stack[t][j]].thread = t
        BY EntryOpen
      <4> QED
        BY <2>1, <4>1, <4>2
    <3> QED
      BY <2>1, <3>1 DEF LaunchInv, ChainOK, Chain
  <2>2. ASSUME \A t \in Threads : stack[t] = <<>>, NEW d \in Devices PROVE primary[d] = 0
    <3>1. ASSUME NEW l \in Launches PROVE adapter[l] = NoAdapter
      <4>1. launch[l].pc \notin OpenPcs
        BY <2>2 DEF LaunchInv, StackOK
      <4> QED
        BY <4>1 DEF LaunchInv, AdaptersOK, OpenPcs
    <3>2. Retaining(d) = {}
      BY <3>1, EngineAssumption DEF Retaining, NoAdapter
    <3> QED
      BY <3>2, FS_EmptySet DEF LaunchInv, CountOK
  <2> QED
    BY <2>1, <2>2 DEF ContextsRestored
<1> QED
  BY <1>1, Invariant, PTL

\* No run is lost in silence: a launch that was given a finalizer and returned to its
\* caller without an exception has appended its run.
THEOREM RunsAreNotLost == Spec => []NoSilentLoss
<1>1. Init => NoSilentLoss
  BY DEF Init, Idle, NoSilentLoss
<1>2. LaunchInv /\ NoSilentLoss /\ [Next]_vars => NoSilentLoss'
  <2> SUFFICES ASSUME LaunchInv, NoSilentLoss, [Next]_vars PROVE NoSilentLoss'
    OBVIOUS
  <2>1. PICK D : launch \in [Launches -> LaunchRecords(D)]
    BY DEF LaunchInv, Typed
  <2>2. ASSUME exported \subseteq exported',
               \A m \in Launches : \/ launch'[m].outcome = launch[m].outcome
                                      /\ launch'[m].handle = launch[m].handle
                                   \/ launch'[m].outcome = "returned"
                                      /\ launch'[m].handle => m \in exported'
        PROVE  NoSilentLoss'
    BY <2>2 DEF NoSilentLoss
  <2>3. CASE UNCHANGED <<launch, exported>>
    BY <2>2, <2>3
  <2>4. ASSUME NEW l \in Launches, NEW t \in Threads, NEW k \in Kernels, Enter(l, t, k)
        PROVE  NoSilentLoss'
    <3>1. /\ exported' = exported /\ \A m \in Launches \ {l} : launch'[m] = launch[m]
          /\ launch'[l].outcome \in {"none", "refused"}
      BY <2>1, <2>4 DEF Enter, Idle
    <3> QED
      BY <2>2, <3>1
  <2>5. ASSUME NEW l \in Launches, NEW e \in BOOLEAN, NEW x \in BOOLEAN, Body(l, e, x)
        PROVE  NoSilentLoss'
    <3>1. \A m \in Launches : launch'[m].outcome = launch[m].outcome
                              /\ launch'[m].handle = launch[m].handle
      BY <2>1, <2>5 DEF Body, LaunchRecords
    <3>2. exported' = exported
      BY <2>5 DEF Body
    <3> QED
      BY <2>2, <3>1, <3>2
  <2>6. ASSUME NEW l \in Launches, Synchronize(l) PROVE NoSilentLoss'
    <3>1. \A m \in Launches : launch'[m].outcome = launch[m].outcome
                              /\ launch'[m].handle = launch[m].handle
      BY <2>1, <2>6 DEF Synchronize, LaunchRecords
    <3>2. exported' = exported
      BY <2>6 DEF Synchronize
    <3> QED
      BY <2>2, <3>1, <3>2
  <2>7. ASSUME NEW l \in Launches, NEW o \in {"raised", "returned"}, Leave(l, o)
        PROVE  /\ \A m \in Launches \ {l} : launch'[m] = launch[m]
               /\ launch'[l].outcome = o /\ launch'[l].handle = launch[l].handle
    BY <2>1, <2>7 DEF Leave, LaunchRecords
  <2>8. ASSUME NEW l \in Launches, Finalize(l) PROVE NoSilentLoss'
    <3> DEFINE dropped == launch[l].raised /\ ~config.onError
    <3>1. exported' = exported
      BY <2>8 DEF Finalize
    <3>2. CASE ~launch[l].handle \/ dropped
      <4>1. Leave(l, IF launch[l].raised THEN "raised" ELSE "returned")
        BY <2>8, <3>2 DEF Finalize
      <4>2. /\ \A m \in Launches \ {l} : launch'[m] = launch[m]
            /\ launch'[l].outcome = (IF launch[l].raised THEN "raised" ELSE "returned")
            /\ launch'[l].handle = launch[l].handle
        BY <2>7, <4>1
      <4>3. launch'[l].outcome = "returned" => ~launch'[l].handle
        BY <3>2, <4>2
      <4> QED
        BY <2>2, <3>1, <4>2, <4>3
    <3>3. CASE ~(~launch[l].handle \/ dropped)
      <4>1. \/ launch' = [launch EXCEPT ![l].pc = "deliver"]
            \/ \E y : launch' = [launch EXCEPT ![l].pc = "deliver", ![l].data = y]
        BY <2>8, <3>3 DEF Finalize
      <4>2. \A m \in Launches : launch'[m].outcome = launch[m].outcome
                                /\ launch'[m].handle = launch[m].handle
        BY <2>1, <4>1 DEF LaunchRecords
      <4> QED
        BY <2>2, <3>1, <4>2
    <3> QED
      BY <3>2, <3>3
  <2>9. ASSUME NEW l \in Launches, Deliver(l) PROVE NoSilentLoss'
    <3>1. CASE Leave(l, "raised") /\ UNCHANGED exported
      <4>1. /\ \A m \in Launches \ {l} : launch'[m] = launch[m]
            /\ launch'[l].outcome = "raised"
        BY <2>7, <3>1
      <4> QED
        BY <2>2, <3>1, <4>1
    <3>2. CASE /\ exported' = exported \cup {l}
               /\ Leave(l, IF launch[l].raised \/ config.handler = "raises"
                           THEN "raised" ELSE "returned")
      <4>1. \A m \in Launches \ {l} : launch'[m] = launch[m]
        BY <2>7, <3>2
      <4> QED
        BY <2>2, <3>2, <4>1
    <3> QED
      BY <2>9, <3>1, <3>2 DEF Deliver
  <2> QED
    BY <2>3, <2>4, <2>5, <2>6, <2>8, <2>9
    DEF Next, Application, Activate, Deactivate, Configure, Step, vars
<1> QED
  BY <1>1, <1>2, Invariant, PTL DEF Spec

----------------------------------------------------------------------------
(* The invariant of the buffers.                                            *)

\* A stream holds kernels between steps: every other operation is run, or waited for,
\* by the step that issues it.
KernelOps == [kind : {"kernel"}, launch : Launches]
OpsOf(ops) == {ops[i].launch : i \in 1 .. Len(ops)}
Waiting(g) == UNION {OpsOf(g.streams[s]) : s \in Streams}

\* What a kernel makes of its buffer, and the buffers once the kernels of a set of
\* launches have run.
Ran(b) == [b EXCEPT !.device = IF b.device = "header" THEN "written" ELSE "spoiled"]
After(m, L) == [l \in Launches |-> IF l \in L THEN Ran(m[l]) ELSE m[l]]
Final(g) == After(g.memory, Waiting(g))

\* Memory and streams as they are between steps: a launch waits at most once.
Buffers == [device : Contents, host : Contents, on : Devices \cup {NoContext}]
Sound(g) ==
  /\ g = [memory |-> g.memory, streams |-> g.streams]
  /\ g.memory \in [Launches -> Buffers]
  /\ g.streams \in [Streams -> Seq(KernelOps)]
  /\ \A s, u \in Streams : \A i \in 1 .. Len(g.streams[s]), j \in 1 .. Len(g.streams[u]) :
       g.streams[s][i].launch = g.streams[u][j].launch => s = u /\ i = j

\* Only an instrumented launch between its preparation and its finalizer has a buffer.
Holding(r) == r.pc \in {"body", "sync", "finalize"} /\ r.kernel.hidden

\* It waits on its kernel's stream, after its kernel was enqueued; a failed launch is the
\* only one the drivers that synchronise leave waiting.
MayWait(r, s, d) ==
  /\ Holding(r) /\ r.pc # "body" /\ r.ran
  /\ s = r.kernel.stream
  /\ d \in {"cann", "corex"} /\ r.pc = "finalize" => r.raised

\* What memory and streams g, driver d and library b have to do with launch l, whose
\* record is r: once everything that waits has run, its buffer holds what its kernel
\* wrote, or the header if the kernel was never enqueued.
Fits(l, r, g, d, b) ==
  /\ r.pc # "idle" => r.kernel \in Kernels
  /\ ~Holding(r) => g.memory[l] = NoBuffer
  /\ \A s \in Streams : l \in OpsOf(g.streams[s]) => MayWait(r, s, d)
  /\ r.pc \in {"idle", "body"} => ~r.ran
  /\ r.pc \in {"idle", "body", "sync", "finalize"} => r.data = "none"
  /\ Holding(r) => /\ Final(g)[l].device = (IF r.ran THEN "written" ELSE "header")
                   /\ r.handle /\ b # "missing"
  /\ r.data # "none" /\ d # "host" /\ (r.raised => d # "cann" /\ b # "synchronous")
       => r.data = IF r.ran THEN "written" ELSE "header"

DataInv ==
  /\ Sound(Gpu) /\ driver \in Drivers /\ library \in LibraryOf(driver)
  /\ \A l \in Launches : Fits(l, launch[l], Gpu, driver, library)

----------------------------------------------------------------------------
(* What waits on the streams, and what runs.                                *)

\* A set of numbers that is not empty has a smallest.
LEMMA SmallestIn ==
  ASSUME NEW S \in SUBSET Nat, S # {}
  PROVE  \E x \in S : \A y \in S : x <= y
<1> DEFINE Less == {p \in Nat \X Nat : p[1] < p[2]}
<1>1. IsWellFoundedOn(Less, Nat)
  BY NatLessThanWellFounded, Zenon DEF OpToRel
<1>2. PICK x \in S : \A y \in S : <<y, x>> \notin Less
  <2> HIDE DEF Less
  <2> QED
    BY <1>1, WFMin
<1>3. ASSUME NEW y \in S
      PROVE  x <= y
  <2>1. <<y, x>> \notin {p \in Nat \X Nat : p[1] < p[2]} /\ x \in Nat /\ y \in Nat
    BY <1>2
  <2>2. ~(y < x)
    BY <2>1
  <2> QED
    BY <2>1, <2>2
<1> QED
  BY <1>3

\* A kernel changes its own launch's buffer on the device.
LEMMA KernelRuns ==
  ASSUME NEW m \in [Launches -> Buffers], NEW op \in KernelOps
  PROVE  RunOp(m, op) = After(m, {op.launch})
<1>1. op.kind = "kernel" /\ op.launch \in Launches /\ m[op.launch] \in Buffers
  BY DEF KernelOps
<1>2. RunOp(m, op) = [m EXCEPT ![op.launch].device =
                        IF m[op.launch].device = "header" THEN "written" ELSE "spoiled"]
  BY <1>1 DEF RunOp
<1>3. RunOp(m, op) = [m EXCEPT ![op.launch] = Ran(m[op.launch])]
  BY <1>1, <1>2 DEF Ran, Buffers
<1> QED
  BY <1>1, <1>3 DEF After

\* A kernel changes nothing but what the device holds.
LEMMA RanType ==
  ASSUME NEW b \in Buffers
  PROVE  Ran(b) \in Buffers /\ Ran(b).host = b.host /\ Ran(b).on = b.on
  BY DEF Ran, Buffers, Contents

\* After a set of kernels, theirs are the only buffers that changed.
LEMMA AfterType ==
  ASSUME NEW m \in [Launches -> Buffers], NEW L
  PROVE  /\ After(m, L) \in [Launches -> Buffers]
         /\ \A l \in Launches : l \notin L => After(m, L)[l] = m[l]
         /\ \A l \in Launches : l \in L => After(m, L)[l] = Ran(m[l])
  BY RanType DEF After

\* No kernel changes nothing.
LEMMA AfterNone ==
  ASSUME NEW m \in [Launches -> Buffers]
  PROVE  After(m, {}) = m
  BY DEF After

\* Two sets of kernels run one after the other.
LEMMA AfterBoth ==
  ASSUME NEW m \in [Launches -> Buffers], NEW A, NEW B, A \cap B = {}
  PROVE  After(After(m, A), B) = After(m, A \cup B)
<1>1. After(m, A) \in [Launches -> Buffers]
  BY AfterType
<1>2. \A l \in Launches : After(After(m, A), B)[l] = After(m, A \cup B)[l]
  BY <1>1, AfterType DEF After
<1> QED
  BY <1>1, <1>2 DEF After

\* A sequence of kernels, each of a launch of its own, with at most one operation of
\* another kind at the end.
KernelsFirst(q, n) ==
  /\ q \in Seq([kind : {"memset", "h2d", "kernel", "d2h"}, launch : Launches])
  /\ n \in Nat /\ Len(q) \in {n, n + 1}
  /\ \A i \in 1 .. n : q[i] \in KernelOps
  /\ \A i, j \in 1 .. n : q[i].launch = q[j].launch => i = j
FirstOf(q, n) == {q[i].launch : i \in 1 .. n}

\* Such a sequence runs its kernels, and then the last operation.
LEMMA KernelsRun ==
  ASSUME NEW m \in [Launches -> Buffers], NEW q, NEW n, KernelsFirst(q, n)
  PROVE  RunAll(m, q) = IF Len(q) = n THEN After(m, FirstOf(q, n))
                        ELSE RunOp(After(m, FirstOf(q, n)), q[n + 1])
<1> DEFINE run[i \in 0 .. Len(q)] == IF i = 0 THEN m ELSE RunOp(run[i - 1], q[i])
           v == [i \in 0 .. Len(q) |->
                   IF i <= n THEN After(m, FirstOf(q, i))
                   ELSE RunOp(After(m, FirstOf(q, n)), q[n + 1])]
<1>1. n \in Nat /\ Len(q) \in Nat /\ (Len(q) = n \/ Len(q) = n + 1)
  BY DEF KernelsFirst
<1>2. FirstOf(q, 0) = {}
  BY DEF FirstOf
<1>3. ASSUME NEW i \in 1 .. n
      PROVE  After(m, FirstOf(q, i)) = RunOp(After(m, FirstOf(q, i - 1)), q[i])
  <2>0. q[i] \in KernelOps /\ \A j \in 1 .. n : q[i].launch = q[j].launch => i = j
    BY DEF KernelsFirst
  <2>1a. \A j \in 1 .. i - 1 : j \in 1 .. n /\ i # j
    BY <1>1
  <2>1. q[i] \in KernelOps /\ q[i].launch \notin FirstOf(q, i - 1)
    BY <2>0, <2>1a DEF FirstOf
  <2>2. FirstOf(q, i) = FirstOf(q, i - 1) \cup {q[i].launch}
    BY <1>1 DEF FirstOf
  <2>3. After(m, FirstOf(q, i - 1)) \in [Launches -> Buffers]
    BY AfterType
  <2>4. RunOp(After(m, FirstOf(q, i - 1)), q[i]) = After(After(m, FirstOf(q, i - 1)), {q[i].launch})
    BY <2>1, <2>3, KernelRuns
  <2> QED
    BY <2>1, <2>2, <2>4, AfterBoth
<1>4. \A i \in 0 .. Len(q) : v[i] = (IF i = 0 THEN m ELSE RunOp(v[i - 1], q[i]))
  <2> TAKE i \in 0 .. Len(q)
  <2>1. CASE i = 0
    <3>1. v[0] = After(m, FirstOf(q, 0))
      BY <1>1
    <3> QED
      BY <1>2, <2>1, <3>1, AfterNone
  <2>2. CASE i \in 1 .. n
    <3>1. v[i] = After(m, FirstOf(q, i)) /\ v[i - 1] = After(m, FirstOf(q, i - 1))
      BY <1>1, <2>2
    <3> QED
      BY <1>1, <1>3, <2>2, <3>1
  <2>3. CASE i = n + 1
    <3>1. /\ v[i] = RunOp(After(m, FirstOf(q, n)), q[n + 1])
          /\ v[i - 1] = After(m, FirstOf(q, n))
      BY <1>1, <2>3
    <3> QED
      BY <1>1, <2>3, <3>1
  <2> QED
    BY <1>1, <2>1, <2>2, <2>3
<1>5. v = [i \in 0 .. Len(q) |-> IF i = 0 THEN m ELSE RunOp(v[i - 1], q[i])]
  BY <1>4
<1>6. run = [i \in 0 .. Len(q) |-> IF i = 0 THEN m ELSE RunOp(run[i - 1], q[i])]
  <2> HIDE DEF v
  <2> QED
    BY <1>5
<1>7. RunAll(m, q) = run[Len(q)]
  BY DEF RunAll
<1>8. /\ \A i \in 0 .. Len(q) : run[i] = (IF i = 0 THEN m ELSE RunOp(run[i - 1], q[i]))
      /\ v[Len(q)] = (IF Len(q) = n THEN After(m, FirstOf(q, n))
                     ELSE RunOp(After(m, FirstOf(q, n)), q[n + 1]))
  <2>1. \A i \in 0 .. Len(q) : run[i] = (IF i = 0 THEN m ELSE RunOp(run[i - 1], q[i]))
    <3> HIDE DEF run
    <3> QED
      BY <1>6
  <2> QED
    BY <1>1, <2>1
<1> HIDE DEF run, v
<1>9. ASSUME \E i \in 0 .. Len(q) : run[i] # v[i] PROVE FALSE
  <2> DEFINE bad == {i \in 0 .. Len(q) : run[i] # v[i]}
  <2>0. bad \in SUBSET Nat /\ bad # {}
    BY <1>1, <1>9
  <2> HIDE DEF bad
  <2>1a. PICK i \in bad : \A j \in bad : i <= j
    BY <2>0, SmallestIn
  <2>1. /\ i \in 0 .. Len(q) /\ run[i] # v[i]
        /\ \A j \in 0 .. Len(q) : run[j] # v[j] => i <= j
    BY <2>1a DEF bad
  <2>2. CASE i = 0
    BY <1>1, <1>4, <1>8, <2>1, <2>2
  <2>3. CASE i # 0
    <3>1. i - 1 \in 0 .. Len(q) /\ ~(i <= i - 1)
      BY <1>1, <2>1, <2>3
    <3>2. run[i - 1] = v[i - 1]
      BY <2>1, <3>1
    <3> QED
      BY <1>4, <1>8, <2>1, <2>3, <3>2
  <2> QED
    BY <2>2, <2>3
<1> QED
  BY <1>1, <1>7, <1>8, <1>9
\* What a step makes of the memory and the streams, when it lets the kernels of some
\* waiting launches run: nothing that matters once everything has run.
Later(g, h, A) ==
  /\ A \subseteq Waiting(g) /\ Sound(h)
  /\ h.memory = After(g.memory, A) /\ Waiting(h) = Waiting(g) \ A

\* When the rest has run too, it is as if all had run from the start.
LEMMA LaterFinal ==
  ASSUME NEW g, NEW h, NEW A, Sound(g), Later(g, h, A)
  PROVE  Final(h) = Final(g)
<1>1. /\ g.memory \in [Launches -> Buffers] /\ A \cap (Waiting(g) \ A) = {}
      /\ A \cup (Waiting(g) \ A) = Waiting(g)
  BY DEF Sound, Later
<1> QED
  BY <1>1, AfterBoth DEF Later, Final

\* A stream of sound streams runs, with an operation of another kind at its end or not.
LEMMA StreamIsFirst ==
  ASSUME NEW g, Sound(g), NEW s \in Streams,
         NEW op \in [kind : {"memset", "h2d", "kernel", "d2h"}, launch : Launches]
  PROVE  LET q == g.streams[s] IN
         /\ KernelsFirst(q, Len(q)) /\ FirstOf(q, Len(q)) = OpsOf(q)
         /\ KernelsFirst(Append(q, op), Len(q)) /\ FirstOf(Append(q, op), Len(q)) = OpsOf(q)
         /\ Len(Append(q, op)) = Len(q) + 1 /\ Append(q, op)[Len(q) + 1] = op
<1> DEFINE q == g.streams[s]
           AllOps == [kind : {"memset", "h2d", "kernel", "d2h"}, launch : Launches]
<1>1. q \in Seq(KernelOps)
  BY DEF Sound
<1>2. \A i, j \in 1 .. Len(q) : q[i].launch = q[j].launch => i = j
  BY DEF Sound
<1> HIDE DEF q
<1>3. Len(q) \in Nat /\ \A i \in 1 .. Len(q) : q[i] \in KernelOps
  BY <1>1
<1>4. KernelOps \subseteq AllOps
  BY DEF KernelOps
<1> HIDE DEF AllOps
<1>5. q \in Seq(AllOps)
  BY <1>1, <1>4
<1>6. op \in AllOps
  BY DEF AllOps
<1>7. /\ Append(q, op) \in Seq(AllOps) /\ Len(Append(q, op)) = Len(q) + 1
      /\ Append(q, op)[Len(q) + 1] = op
      /\ \A i \in 1 .. Len(q) : Append(q, op)[i] = q[i]
  BY <1>5, <1>6
<1>8. KernelsFirst(q, Len(q))
  BY <1>2, <1>3, <1>5 DEF KernelsFirst, AllOps
<1>9. KernelsFirst(Append(q, op), Len(q))
  BY <1>2, <1>3, <1>7 DEF KernelsFirst, AllOps
<1>10. FirstOf(q, Len(q)) = OpsOf(q) /\ FirstOf(Append(q, op), Len(q)) = OpsOf(q)
  BY <1>7 DEF FirstOf, OpsOf
<1> QED
  BY <1>7, <1>8, <1>9, <1>10 DEF q

\* The streams of a set are emptied.
Emptied(g, S) ==
  [memory |-> After(g.memory, UNION {OpsOf(g.streams[s]) : s \in S}),
   streams |-> [s \in Streams |-> IF s \in S THEN <<>> ELSE g.streams[s]]]

\* An empty stream holds nothing.
LEMMA NoOps == OpsOf(<<>>) = {}
  BY DEF OpsOf

\* What is on two streams is of different launches.
LEMMA StreamsApart ==
  ASSUME NEW g, Sound(g), NEW s \in Streams, NEW u \in Streams, s # u
  PROVE  OpsOf(g.streams[s]) \cap OpsOf(g.streams[u]) = {}
  BY DEF Sound, OpsOf

\* Emptying some streams is sound and loses nothing.
LEMMA EmptiedLater ==
  ASSUME NEW g, Sound(g), NEW S \in SUBSET Streams
  PROVE  Later(g, Emptied(g, S), UNION {OpsOf(g.streams[s]) : s \in S})
<1> DEFINE e == Emptied(g, S)
           A == UNION {OpsOf(g.streams[s]) : s \in S}
<1>1. /\ e = [memory |-> After(g.memory, A),
               streams |-> [s \in Streams |-> IF s \in S THEN <<>> ELSE g.streams[s]]]
      /\ e.memory = After(g.memory, A)
      /\ e.streams = [s \in Streams |-> IF s \in S THEN <<>> ELSE g.streams[s]]
  BY DEF Emptied
<1> HIDE DEF e
<1>2. e.memory \in [Launches -> Buffers]
  BY <1>1, AfterType DEF Sound
<1>3. \A s \in Streams : /\ s \in S => e.streams[s] = <<>>
                         /\ s \notin S => e.streams[s] = g.streams[s]
  BY <1>1
<1>4. e.streams \in [Streams -> Seq(KernelOps)]
  BY <1>1 DEF Sound
<1>5. \A s, u \in Streams : \A i \in 1 .. Len(e.streams[s]), j \in 1 .. Len(e.streams[u]) :
        e.streams[s][i].launch = e.streams[u][j].launch => s = u /\ i = j
  <2> TAKE s, u \in Streams
  <2> TAKE i \in 1 .. Len(e.streams[s]), j \in 1 .. Len(e.streams[u])
  <2>1. e.streams[s] = g.streams[s] /\ e.streams[u] = g.streams[u]
    BY <1>3
  <2> QED
    BY <2>1 DEF Sound
<1>6. Sound(e)
  BY <1>1, <1>2, <1>4, <1>5 DEF Sound
<1>7. Waiting(e) = Waiting(g) \ A
  <2>1. Waiting(e) = UNION {OpsOf(g.streams[s]) : s \in Streams \ S}
    BY <1>3, NoOps DEF Waiting
  <2>2. \A s \in Streams \ S : OpsOf(g.streams[s]) \cap A = {}
    BY StreamsApart
  <2> QED
    BY <2>1, <2>2 DEF Waiting
<1>8. A \subseteq Waiting(g)
  BY DEF Waiting
<1> QED
  BY <1>1, <1>6, <1>7, <1>8 DEF e, Later

\* An operation, and its effect at once.
AnyOps == [kind : {"memset", "h2d", "kernel", "d2h"}, launch : Launches]
Applied(g, op) == [g EXCEPT !.memory = RunOp(@, op)]

\* No stream is emptied.
LEMMA EmptiedNone ==
  ASSUME NEW g, Sound(g)
  PROVE  Emptied(g, {}) = g
<1>1. /\ g = [memory |-> g.memory, streams |-> g.streams]
      /\ g.memory \in [Launches -> Buffers] /\ g.streams \in [Streams -> Seq(KernelOps)]
  BY DEF Sound
<1>2. UNION {OpsOf(g.streams[s]) : s \in {}} = {}
  OBVIOUS
<1>3. After(g.memory, {}) = g.memory
  BY <1>1, AfterNone
<1>4. [s \in Streams |-> IF s \in {} THEN <<>> ELSE g.streams[s]] = g.streams
  BY <1>1
<1> QED
  BY <1>1, <1>2, <1>3, <1>4 DEF Emptied

\* Waiting for a stream empties it, and runs what was queued last.
LEMMA DrainedIs ==
  ASSUME NEW g, Sound(g), NEW s \in Streams
  PROVE  Drained(g, s) = Emptied(g, {s})
<1> DEFINE op == [kind |-> "kernel", launch |-> CHOOSE l \in Launches : TRUE]
<1>1. KernelsFirst(g.streams[s], Len(g.streams[s]))
      /\ FirstOf(g.streams[s], Len(g.streams[s])) = OpsOf(g.streams[s])
  <2>1. CASE Launches = {}
    <3>1. g.streams[s] \in Seq(KernelOps) /\ KernelOps = {}
      BY <2>1 DEF Sound, KernelOps
    <3>2. g.streams[s] = <<>>
      BY <3>1
    <3> QED
      BY <2>1, <3>2 DEF KernelsFirst, FirstOf, OpsOf
  <2>2. CASE Launches # {}
    <3>1. op \in [kind : {"memset", "h2d", "kernel", "d2h"}, launch : Launches]
      BY <2>2
    <3> HIDE DEF op
    <3> QED
      BY <3>1, StreamIsFirst
  <2> QED
    BY <2>1, <2>2
<1>2. RunAll(g.memory, g.streams[s]) = After(g.memory, OpsOf(g.streams[s]))
  <2>1. g.memory \in [Launches -> Buffers]
    BY DEF Sound
  <2> QED
    BY <1>1, <2>1, KernelsRun
<1>3. UNION {OpsOf(g.streams[u]) : u \in {s}} = OpsOf(g.streams[s])
  OBVIOUS
<1>4. [g.streams EXCEPT ![s] = <<>>] = [u \in Streams |-> IF u \in {s} THEN <<>> ELSE g.streams[u]]
  BY DEF Sound
<1> QED
  BY <1>2, <1>3, <1>4 DEF Drained, Emptied

\* Waiting for a stream with one more operation queued runs that operation last.
LEMMA DrainedWith ==
  ASSUME NEW g, Sound(g), NEW s \in Streams, NEW op \in AnyOps
  PROVE  Drained(Queued(g, s, op), s) = Applied(Emptied(g, {s}), op)
<1> DEFINE q == g.streams[s]
           p == Append(q, op)
           h == Queued(g, s, op)
<1>1. /\ g = [memory |-> g.memory, streams |-> g.streams]
      /\ g.memory \in [Launches -> Buffers] /\ g.streams \in [Streams -> Seq(KernelOps)]
  BY DEF Sound
<1>2. /\ KernelsFirst(p, Len(q)) /\ FirstOf(p, Len(q)) = OpsOf(q)
      /\ Len(p) = Len(q) + 1 /\ p[Len(q) + 1] = op
  BY StreamIsFirst DEF AnyOps
<1>3. h.memory = g.memory /\ h.streams = [g.streams EXCEPT ![s] = p]
  BY <1>1 DEF Queued
<1>4. Len(q) \in Nat
  BY <1>1
<1> HIDE DEF p, h
<1>5. RunAll(g.memory, p) = RunOp(After(g.memory, OpsOf(q)), op)
  <2>1. Len(p) # Len(q)
    BY <1>2, <1>4
  <2> QED
    BY <1>1, <1>2, <2>1, KernelsRun
<1>6. h.streams[s] = p /\ [h.streams EXCEPT ![s] = <<>>] = [g.streams EXCEPT ![s] = <<>>]
  BY <1>1, <1>3
<1>7. Drained(h, s) = [memory |-> RunOp(After(g.memory, OpsOf(q)), op),
                       streams |-> [g.streams EXCEPT ![s] = <<>>]]
  BY <1>3, <1>5, <1>6 DEF Drained
<1>8. /\ UNION {OpsOf(g.streams[u]) : u \in {s}} = OpsOf(q)
      /\ [g.streams EXCEPT ![s] = <<>>] = [u \in Streams |-> IF u \in {s} THEN <<>> ELSE g.streams[u]]
  BY <1>1
<1>9. Applied(Emptied(g, {s}), op)
        = [memory |-> RunOp(After(g.memory, OpsOf(q)), op),
           streams |-> [g.streams EXCEPT ![s] = <<>>]]
  <2> DEFINE M == After(g.memory, OpsOf(q))
             T == [g.streams EXCEPT ![s] = <<>>]
  <2>1. Emptied(g, {s}) = [memory |-> M, streams |-> T]
    BY <1>8 DEF Emptied
  <2> HIDE DEF M, T
  <2>2. Applied([memory |-> M, streams |-> T], op) = [memory |-> RunOp(M, op), streams |-> T]
    BY DEF Applied
  <2>3. Applied(Emptied(g, {s}), op) = [memory |-> RunOp(M, op), streams |-> T]
    BY <2>1, <2>2
  <2> QED
    BY <2>3 DEF M, T
<1> QED
  BY <1>7, <1>9 DEF h

\* One more stream is emptied.
LEMMA EmptiedOneMore ==
  ASSUME NEW g, Sound(g), NEW S \in SUBSET Streams, NEW s \in S
  PROVE  Drained(Emptied(g, S \ {s}), s) = Emptied(g, S)
<1> DEFINE e == Emptied(g, S \ {s})
           A == UNION {OpsOf(g.streams[u]) : u \in S \ {s}}
<1>1. Sound(e)
  BY EmptiedLater DEF Later
<1>2. e.memory = After(g.memory, A)
      /\ e.streams = [u \in Streams |-> IF u \in S \ {s} THEN <<>> ELSE g.streams[u]]
  BY DEF Emptied
<1> HIDE DEF e
<1>3. e.streams[s] = g.streams[s]
  BY <1>2
<1>4. A \cap OpsOf(g.streams[s]) = {}
  BY StreamsApart
<1>5. A \cup OpsOf(g.streams[s]) = UNION {OpsOf(g.streams[u]) : u \in S}
  OBVIOUS
<1>6. UNION {OpsOf(e.streams[u]) : u \in {s}} = OpsOf(g.streams[s])
  BY <1>3
<1>7. After(e.memory, OpsOf(g.streams[s])) = After(g.memory, UNION {OpsOf(g.streams[u]) : u \in S})
  <2>1. g.memory \in [Launches -> Buffers]
    BY DEF Sound
  <2> QED
    BY <1>2, <1>4, <1>5, <2>1, AfterBoth
<1>8. [u \in Streams |-> IF u \in {s} THEN <<>> ELSE e.streams[u]]
        = [u \in Streams |-> IF u \in S THEN <<>> ELSE g.streams[u]]
  BY <1>2
<1>9. Drained(e, s) = Emptied(e, {s})
  BY <1>1, DrainedIs
<1>10. Emptied(e, {s}) = Emptied(g, S)
  BY <1>6, <1>7, <1>8 DEF Emptied
<1> QED
  BY <1>9, <1>10 DEF e

\* Waiting for the device empties every stream, in whatever order.
LEMMA DrainedAllIs ==
  ASSUME NEW g, Sound(g)
  PROVE  DrainedAll(g) = Emptied(g, Streams)
<1> DEFINE drained[S \in SUBSET Streams] ==
             IF S = {} THEN g
             ELSE LET s == CHOOSE u \in S : TRUE IN Drained(drained[S \ {s}], s)
           v == [S \in SUBSET Streams |-> Emptied(g, S)]
<1>1. v = [S \in SUBSET Streams |->
             IF S = {} THEN g
             ELSE LET s == CHOOSE u \in S : TRUE IN Drained(v[S \ {s}], s)]
  <2>1. ASSUME NEW S \in SUBSET Streams, S # {}
        PROVE  Emptied(g, S) = LET s == CHOOSE u \in S : TRUE IN Drained(v[S \ {s}], s)
    <3>1. PICK s : s = (CHOOSE u \in S : TRUE) /\ s \in S
      BY <2>1
    <3>2. v[S \ {s}] = Emptied(g, S \ {s})
      OBVIOUS
    <3> HIDE DEF v
    <3> QED
      BY <3>1, <3>2, EmptiedOneMore
  <2>2. \A S \in SUBSET Streams : v[S] = (IF S = {} THEN g
             ELSE LET s == CHOOSE u \in S : TRUE IN Drained(v[S \ {s}], s))
    BY <2>1, EmptiedNone
  <2> QED
    BY <2>2
<1>2. drained = [S \in SUBSET Streams |->
             IF S = {} THEN g
             ELSE LET s == CHOOSE u \in S : TRUE IN Drained(drained[S \ {s}], s)]
  <2> HIDE DEF v
  <2> QED
    BY <1>1
<1>3. DrainedAll(g) = drained[Streams]
  BY DEF DrainedAll
<1> HIDE DEF drained
<1>4. \A S \in SUBSET Streams : drained[S] = (IF S = {} THEN g
        ELSE LET s == CHOOSE u \in S : TRUE IN Drained(drained[S \ {s}], s))
  BY <1>2
<1> DEFINE wrong == {S \in SUBSET Streams : drained[S] # Emptied(g, S)}
           sizes == {Cardinality(S) : S \in wrong}
<1>5. ASSUME wrong # {} PROVE FALSE
  <2>1. \A S \in SUBSET Streams : IsFiniteSet(S) /\ Cardinality(S) \in Nat
    BY EngineAssumption, FS_Subset, FS_CardinalityType
  <2>2. PICK n \in sizes : \A j \in sizes : n <= j
    <3>1. sizes \in SUBSET Nat /\ sizes # {}
      BY <1>5, <2>1
    <3> HIDE DEF sizes
    <3> QED
      BY <3>1, SmallestIn
  <2>3. PICK S \in wrong : n = Cardinality(S)
    BY <2>2
  <2>4. S # {}
    BY <1>4, <2>3, EmptiedNone
  <2>5. PICK s : s = (CHOOSE u \in S : TRUE) /\ s \in S
    BY <2>4
  <2>6. Cardinality(S \ {s}) = n - 1 /\ n \in Nat /\ Cardinality(S \ {s}) \in Nat
    BY <2>1, <2>3, <2>5, FS_RemoveElement
  <2>7. S \ {s} \notin wrong
    BY <2>2, <2>6
  <2>8. drained[S \ {s}] = Emptied(g, S \ {s})
    BY <2>3, <2>7
  <2>9. drained[S] = Drained(drained[S \ {s}], s)
    BY <1>4, <2>3, <2>4, <2>5
  <2>10. S \in SUBSET Streams /\ s \in S /\ drained[S] # Emptied(g, S)
    BY <2>3, <2>5
  <2> HIDE DEF wrong, sizes
  <2>11. Drained(Emptied(g, S \ {s}), s) = Emptied(g, S)
    BY <2>10, EmptiedOneMore
  <2> QED
    BY <2>8, <2>9, <2>10, <2>11
<1> QED
  BY <1>3, <1>5

----------------------------------------------------------------------------
(* What a step makes of memory and streams, for the launches but those of X: nothing   *)
(* new waits, nothing that is not waiting changes, and in the end all is as it was.    *)
Kept(g, h, X) ==
  /\ Sound(h)
  /\ \A s \in Streams : OpsOf(h.streams[s]) \subseteq OpsOf(g.streams[s])
  /\ \A k \in Launches \ X :
       /\ Final(h)[k] = Final(g)[k]
       /\ k \notin Waiting(g) => h.memory[k] = g.memory[k]

\* Steps follow one another.
LEMMA KeptTwice ==
  ASSUME NEW g, NEW h, NEW i, NEW X, Kept(g, h, X), Kept(h, i, X)
  PROVE  Kept(g, i, X)
<1>1. \A s \in Streams : OpsOf(i.streams[s]) \subseteq OpsOf(g.streams[s])
  BY DEF Kept
<1>2. \A k \in Launches : k \notin Waiting(g) => k \notin Waiting(h)
  BY DEF Kept, Waiting
<1>3. \A k \in Launches \ X : k \notin Waiting(g) => i.memory[k] = g.memory[k]
  BY <1>2 DEF Kept
<1> QED
  BY <1>1, <1>3 DEF Kept

\* A step that changes nothing.
LEMMA KeptSame ==
  ASSUME NEW g, NEW X, Sound(g)
  PROVE  Kept(g, g, X)
  BY DEF Kept

\* Emptying streams changes nothing in the end; it keeps what the host holds.
LEMMA KeptEmptied ==
  ASSUME NEW g, Sound(g), NEW S \in SUBSET Streams, NEW X
  PROVE  /\ Kept(g, Emptied(g, S), X) /\ Final(Emptied(g, S)) = Final(g)
         /\ \A k \in Launches : Emptied(g, S).memory[k].host = g.memory[k].host
         /\ \A k \in Launches, s \in S : k \notin OpsOf(Emptied(g, S).streams[s])
<1> DEFINE e == Emptied(g, S)
           A == UNION {OpsOf(g.streams[s]) : s \in S}
<1>1. Later(g, e, A)
  BY EmptiedLater
<1>2. Final(e) = Final(g)
  BY <1>1, LaterFinal
<1>3. Sound(e) /\ e.memory = After(g.memory, A) /\ A \subseteq Waiting(g)
  BY <1>1 DEF Later
<1>4. g.memory \in [Launches -> Buffers]
  BY DEF Sound
<1>5. \A k \in Launches : /\ k \notin A => e.memory[k] = g.memory[k]
                          /\ k \in A => e.memory[k] = Ran(g.memory[k])
  BY <1>3, <1>4, AfterType
<1>6. \A k \in Launches : e.memory[k].host = g.memory[k].host
  BY <1>4, <1>5, RanType
<1>7. e.streams = [s \in Streams |-> IF s \in S THEN <<>> ELSE g.streams[s]]
  BY DEF Emptied
<1> HIDE DEF e
<1>8. \A s \in Streams : /\ s \in S => OpsOf(e.streams[s]) = {}
                         /\ s \notin S => OpsOf(e.streams[s]) = OpsOf(g.streams[s])
  BY <1>7, NoOps
<1>9. \A s \in Streams : OpsOf(e.streams[s]) \subseteq OpsOf(g.streams[s])
  BY <1>8
<1>10. \A k \in Launches : k \notin Waiting(g) => e.memory[k] = g.memory[k]
  BY <1>3, <1>5
<1>11. Kept(g, e, X)
  BY <1>2, <1>3, <1>9, <1>10 DEF Kept
<1> QED
  BY <1>2, <1>6, <1>8, <1>11 DEF e

\* What one operation makes of a buffer.
OpOn(kind, b) ==
  CASE kind = "memset" -> [b EXCEPT !.device = "zero"]
    [] kind = "h2d"    -> [b EXCEPT !.device = IF b.device = "zero" THEN "header" ELSE "spoiled"]
    [] kind = "kernel" -> Ran(b)
    [] kind = "d2h"    -> [b EXCEPT !.host = b.device]

\* An operation changes one launch's buffer.
LEMMA OpRuns ==
  ASSUME NEW m \in [Launches -> Buffers], NEW op \in AnyOps
  PROVE  /\ RunOp(m, op) = [m EXCEPT ![op.launch] = OpOn(op.kind, m[op.launch])]
         /\ OpOn(op.kind, m[op.launch]) \in Buffers
<1>1. op.kind \in {"memset", "h2d", "kernel", "d2h"} /\ op.launch \in Launches
      /\ m[op.launch] \in Buffers
  BY DEF AnyOps
<1>2. PICK b \in Buffers : b = m[op.launch]
  BY <1>1
<1>3. CASE op.kind = "memset"
  <2>1. RunOp(m, op) = [m EXCEPT ![op.launch].device = "zero"]
    BY <1>3 DEF RunOp
  <2>2. OpOn(op.kind, b) = [b EXCEPT !.device = "zero"] /\ OpOn(op.kind, b) \in Buffers
    BY <1>3 DEF OpOn, Buffers, Contents
  <2> QED
    BY <1>1, <1>2, <2>1, <2>2
<1>4. CASE op.kind = "h2d"
  <2>1. RunOp(m, op) = [m EXCEPT ![op.launch].device = IF b.device = "zero" THEN "header" ELSE "spoiled"]
    BY <1>2, <1>4 DEF RunOp
  <2>2. OpOn(op.kind, b) = [b EXCEPT !.device = IF b.device = "zero" THEN "header" ELSE "spoiled"]
        /\ OpOn(op.kind, b) \in Buffers
    BY <1>4 DEF OpOn, Buffers, Contents
  <2> QED
    BY <1>1, <1>2, <2>1, <2>2
<1>5. CASE op.kind = "kernel"
  <2>1. RunOp(m, op) = [m EXCEPT ![op.launch].device = IF b.device = "header" THEN "written" ELSE "spoiled"]
    BY <1>2, <1>5 DEF RunOp
  <2>2. OpOn(op.kind, b) = [b EXCEPT !.device = IF b.device = "header" THEN "written" ELSE "spoiled"]
        /\ OpOn(op.kind, b) \in Buffers
    BY <1>5 DEF OpOn, Ran, Buffers, Contents
  <2> QED
    BY <1>1, <1>2, <2>1, <2>2
<1>6. CASE op.kind = "d2h"
  <2>1. RunOp(m, op) = [m EXCEPT ![op.launch].host = b.device]
    BY <1>2, <1>6 DEF RunOp
  <2>2. OpOn(op.kind, b) = [b EXCEPT !.host = b.device] /\ OpOn(op.kind, b) \in Buffers
    BY <1>6 DEF OpOn, Buffers, Contents
  <2> QED
    BY <1>1, <1>2, <2>1, <2>2
<1> QED
  BY <1>1, <1>3, <1>4, <1>5, <1>6

\* An operation that runs at once leaves the other launches alone.
LEMMA KeptApplied ==
  ASSUME NEW g, Sound(g), NEW op \in AnyOps
  PROVE  /\ Kept(g, Applied(g, op), {op.launch})
         /\ Applied(g, op).memory[op.launch] = OpOn(op.kind, g.memory[op.launch])
         /\ Waiting(Applied(g, op)) = Waiting(g)
<1>1. /\ g = [memory |-> g.memory, streams |-> g.streams]
      /\ g.memory \in [Launches -> Buffers] /\ g.streams \in [Streams -> Seq(KernelOps)]
  BY DEF Sound
<1>2. op.launch \in Launches
  BY DEF AnyOps
<1>3. PICK M : M = RunOp(g.memory, op)
  OBVIOUS
<1>4. PICK T : T = g.streams
  OBVIOUS
<1>5. g = [memory |-> g.memory, streams |-> T]
  BY <1>1, <1>4
<1>6. Applied(g, op) = [memory |-> M, streams |-> T]
  BY <1>3, <1>5 DEF Applied
<1>7. PICK h : h = Applied(g, op)
  OBVIOUS
<1>8. h.memory = M /\ h.streams = g.streams /\ h = [memory |-> h.memory, streams |-> h.streams]
  BY <1>4, <1>6, <1>7
<1>9. M \in [Launches -> Buffers] /\ M[op.launch] = OpOn(op.kind, g.memory[op.launch])
      /\ \A k \in Launches \ {op.launch} : M[k] = g.memory[k]
  <2> DEFINE y == OpOn(op.kind, g.memory[op.launch])
  <2>1. M = [g.memory EXCEPT ![op.launch] = y] /\ y \in Buffers
    BY <1>1, <1>3, OpRuns
  <2> HIDE DEF y
  <2>2. /\ M \in [Launches -> Buffers] /\ M[op.launch] = y
        /\ \A k \in Launches \ {op.launch} : M[k] = g.memory[k]
    BY <1>1, <1>2, <2>1
  <2> QED
    BY <2>2 DEF y
<1>10. Sound(h)
  BY <1>8, <1>9 DEF Sound
<1>11. Waiting(h) = Waiting(g)
  BY <1>8 DEF Waiting
<1>12. \A k \in Launches \ {op.launch} : Final(h)[k] = Final(g)[k]
  BY <1>8, <1>9, <1>11 DEF Final, After
<1>13. Kept(g, h, {op.launch})
  BY <1>8, <1>9, <1>10, <1>12 DEF Kept
<1> QED
  BY <1>7, <1>8, <1>9, <1>11, <1>13

\* A launch that waits on no stream has its buffer in its final state.
LEMMA FinalNow ==
  ASSUME NEW g, NEW l \in Launches, l \notin Waiting(g)
  PROVE  Final(g)[l] = g.memory[l]
  BY DEF Final, After

\* What waits afterwards waited before.
LEMMA KeptWaiting ==
  ASSUME NEW g, NEW h, NEW X, Kept(g, h, X)
  PROVE  Waiting(h) \subseteq Waiting(g)
  BY DEF Kept, Waiting

\* The header goes through the default stream, or around every stream.
LEMMA IssueHeader ==
  ASSUME NEW g, Sound(g), NEW l \in Launches, NEW kind \in {"memset", "h2d"},
         driver \in Drivers
  PROVE  \E S \in SUBSET Streams :
           Issue(g, NullStream, kind, l) = Applied(Emptied(g, S), [kind |-> kind, launch |-> l])
<1> DEFINE op == [kind |-> kind, launch |-> l]
<1>1. op \in AnyOps
  BY DEF AnyOps
<1>2. NullStream \in Streams
  BY EngineAssumption
<1>3. driver \in {"host", "tops", "cann", "musa", "corex", "cuda", "maca"}
  BY EngineAssumption
<1>4. CASE driver \in {"host", "cann"}
  <2>1. Issue(g, NullStream, kind, l) = [g EXCEPT !.memory = RunOp(@, op)]
    BY <1>4 DEF Issue, HostOps, CannOps
  <2> HIDE DEF op
  <2>2. Issue(g, NullStream, kind, l) = Applied(Emptied(g, {}), op)
    BY <2>1, EmptiedNone DEF Applied
  <2> QED
    BY <2>2 DEF op
<1>5. CASE driver \in {"tops", "musa", "corex", "cuda", "maca"}
  <2>1. Issue(g, NullStream, kind, l) = Drained(Queued(g, NullStream, op), NullStream)
    BY <1>5 DEF Issue, TopsOps, MusaOps, CorexOps, CudaOps, MacaOps
  <2> HIDE DEF op
  <2>2. Issue(g, NullStream, kind, l) = Applied(Emptied(g, {NullStream}), op)
    BY <1>1, <1>2, <2>1, DrainedWith
  <2> QED
    BY <1>2, <2>2 DEF op
<1> QED
  BY <1>3, <1>4, <1>5

\* The device buffer is cleared and holds the header when the launch begins.
LEMMA HeaderReady ==
  ASSUME NEW g, Sound(g), NEW l \in Launches, l \notin Waiting(g), driver \in Drivers
  PROVE  LET h == InitHeader(g, l) IN
         /\ Kept(g, h, {l}) /\ l \notin Waiting(h) /\ h.memory[l].device = "header"
<1> DEFINE clear == [kind |-> "memset", launch |-> l]
           copy == [kind |-> "h2d", launch |-> l]
<1>1. clear \in AnyOps /\ clear.kind = "memset" /\ clear.launch = l
      /\ copy \in AnyOps /\ copy.kind = "h2d" /\ copy.launch = l
  BY DEF AnyOps
<1>2. PICK S1 \in SUBSET Streams :
        Issue(g, NullStream, "memset", l) = Applied(Emptied(g, S1), clear)
  BY IssueHeader
<1>3. PICK e1 : e1 = Emptied(g, S1)
  OBVIOUS
<1>4. PICK g1 : g1 = Applied(e1, clear)
  OBVIOUS
<1>5. Kept(g, e1, {l}) /\ Sound(e1) /\ l \notin Waiting(e1)
  <2>1. Kept(g, e1, {l})
    BY <1>3, KeptEmptied
  <2> QED
    BY <2>1, KeptWaiting DEF Kept
<1> HIDE DEF clear, copy
<1>6. Kept(e1, g1, {l}) /\ Sound(g1) /\ l \notin Waiting(g1)
      /\ g1.memory[l] = OpOn("memset", e1.memory[l])
  <2>1. Kept(e1, g1, {l}) /\ g1.memory[l] = OpOn("memset", e1.memory[l])
        /\ Waiting(g1) = Waiting(e1)
    BY <1>1, <1>4, <1>5, KeptApplied
  <2> QED
    BY <1>5, <2>1 DEF Kept
<1>7. PICK S2 \in SUBSET Streams :
        Issue(g1, NullStream, "h2d", l) = Applied(Emptied(g1, S2), copy)
  BY <1>6, IssueHeader DEF copy
<1>8. PICK e2 : e2 = Emptied(g1, S2)
  OBVIOUS
<1>9. PICK g2 : g2 = Applied(e2, copy)
  OBVIOUS
<1>10. Kept(g1, e2, {}) /\ Kept(g1, e2, {l}) /\ Sound(e2) /\ l \notin Waiting(e2)
       /\ e2.memory[l] = g1.memory[l]
  <2>1. Kept(g1, e2, {}) /\ Kept(g1, e2, {l})
    BY <1>6, <1>8, KeptEmptied
  <2> QED
    BY <1>6, <2>1, KeptWaiting DEF Kept
<1>11. Kept(e2, g2, {l}) /\ l \notin Waiting(g2)
       /\ g2.memory[l] = OpOn("h2d", e2.memory[l])
  BY <1>1, <1>9, <1>10, KeptApplied
<1>12. Kept(g, g2, {l})
  <2>1. Kept(g, g1, {l})
    BY <1>5, <1>6, KeptTwice
  <2>2. Kept(g1, g2, {l})
    BY <1>10, <1>11, KeptTwice
  <2> QED
    BY <2>1, <2>2, KeptTwice
<1>13. g2.memory[l].device = "header"
  <2>1. PICK b \in Buffers : b = e1.memory[l]
    BY <1>5 DEF Sound
  <2>2. PICK c : c = OpOn("memset", b)
    OBVIOUS
  <2>3. c \in Buffers /\ c.device = "zero"
    BY <2>2 DEF OpOn, Buffers, Contents
  <2>4. OpOn("h2d", c).device = "header"
    BY <2>3 DEF OpOn, Buffers
  <2> QED
    BY <1>6, <1>10, <1>11, <2>1, <2>2, <2>4
<1>14. InitHeader(g, l) = g2
  BY <1>2, <1>3, <1>4, <1>7, <1>8, <1>9 DEF InitHeader, clear
<1> QED
  BY <1>11, <1>12, <1>13, <1>14

\* A buffer is allocated for a launch that waits nowhere.
LEMMA KeptFresh ==
  ASSUME NEW g, Sound(g), NEW l \in Launches, l \notin Waiting(g), NEW b \in Buffers
  PROVE  LET h == [g EXCEPT !.memory[l] = b] IN
         Kept(g, h, {l}) /\ Waiting(h) = Waiting(g) /\ h.memory[l] = b
<1>1. /\ g = [memory |-> g.memory, streams |-> g.streams]
      /\ g.memory \in [Launches -> Buffers] /\ g.streams \in [Streams -> Seq(KernelOps)]
  BY DEF Sound
<1>2. PICK T : T = g.streams
  OBVIOUS
<1>3. PICK m : m = g.memory
  OBVIOUS
<1>4. PICK M : M = [m EXCEPT ![l] = b]
  OBVIOUS
<1>5. g = [memory |-> m, streams |-> T]
  BY <1>1, <1>2, <1>3
<1>6. [g EXCEPT !.memory[l] = b] = [memory |-> M, streams |-> T]
  BY <1>4, <1>5
<1>7. PICK h : h = [memory |-> M, streams |-> T]
  OBVIOUS
<1>8. h.memory = M /\ h.streams = g.streams /\ h = [memory |-> h.memory, streams |-> h.streams]
  BY <1>2, <1>7
<1>9. M \in [Launches -> Buffers] /\ M[l] = b /\ \A k \in Launches \ {l} : M[k] = g.memory[k]
  BY <1>1, <1>3, <1>4
<1>10. Sound(h)
  BY <1>8, <1>9 DEF Sound
<1>11. Waiting(h) = Waiting(g)
  BY <1>8 DEF Waiting
<1>12. \A k \in Launches \ {l} : Final(h)[k] = Final(g)[k]
  BY <1>8, <1>9, <1>11 DEF Final, After
<1>13. Kept(g, h, {l})
  BY <1>8, <1>9, <1>10, <1>12 DEF Kept
<1> QED
  BY <1>6, <1>7, <1>8, <1>9, <1>11, <1>13

\* The copy back: the driver empties some streams, copies, and empties some more.  But
\* for a direct copy on CANN's default stream and the synchronous copies of CoreX, which
\* know nothing of the launch's stream, that stream is among those emptied first.
LEMMA CopyBack ==
  ASSUME NEW g, Sound(g), NEW s \in Streams, NEW l \in Launches,
         driver \in Drivers, library \in LibraryOf(driver), library # "missing"
  PROVE  \E S1, S2 \in SUBSET Streams :
           /\ Exported(g, s, l)
                = Emptied(Applied(Emptied(g, S1), [kind |-> "d2h", launch |-> l]), S2)
           /\ \/ s \in S1 \/ driver = "host"
              \/ driver = "cann" \/ (driver = "corex" /\ library = "synchronous")
<1> DEFINE op == [kind |-> "d2h", launch |-> l]
<1>1. op \in AnyOps /\ NullStream \in Streams
  BY EngineAssumption DEF AnyOps
<1>2. driver \in {"host", "tops", "cann", "musa", "corex", "cuda", "maca"}
  BY EngineAssumption
<1>3. PICK i : i = Issue(g, s, "d2h", l)
  OBVIOUS
<1>4. \A S \in SUBSET Streams : LET e == Emptied(g, S) IN
        /\ Sound(Applied(e, op)) /\ Emptied(Applied(e, op), {}) = Applied(e, op)
        /\ Drained(Applied(e, op), s) = Emptied(Applied(e, op), {s})
        /\ DrainedAll(Applied(e, op)) = Emptied(Applied(e, op), Streams)
  <2> TAKE S \in SUBSET Streams
  <2>1. Sound(Emptied(g, S))
    BY KeptEmptied DEF Kept
  <2>2. Sound(Applied(Emptied(g, S), op))
    BY <1>1, <2>1, KeptApplied DEF Kept
  <2> QED
    BY <2>2, EmptiedNone, DrainedIs, DrainedAllIs
<1>5. Exported(g, s, l) = Synchronized(i, s)
  BY <1>3 DEF Exported
<1>6. CASE i = Applied(g, op) /\ driver \in {"host", "cann"} /\ Synchronized(i, s) = i
  <2>1. i = Emptied(Applied(Emptied(g, {}), op), {})
    BY <1>4, <1>6, EmptiedNone
  <2> QED
    BY <1>5, <1>6, <2>1
<1>7. CASE i = Queued(g, s, op) /\ Synchronized(i, s) = Drained(i, s)
  <2>1. Drained(i, s) = Applied(Emptied(g, {s}), op)
    BY <1>1, <1>7, DrainedWith
  <2>2. Exported(g, s, l) = Emptied(Applied(Emptied(g, {s}), op), {})
    BY <1>4, <1>5, <1>7, <2>1
  <2> HIDE DEF op
  <2>3. \E S1, S2 \in SUBSET Streams :
          Exported(g, s, l) = Emptied(Applied(Emptied(g, S1), op), S2) /\ s \in S1
    BY <2>2
  <2> QED
    BY <2>3 DEF op
<1>8. ASSUME i = Drained(Queued(g, NullStream, op), NullStream),
             Synchronized(i, s) \in {i, Drained(i, s), DrainedAll(i)},
             s = NullStream \/ (driver = "corex" /\ library = "synchronous")
      PROVE  \E S1, S2 \in SUBSET Streams :
               /\ Exported(g, s, l) = Emptied(Applied(Emptied(g, S1), op), S2)
               /\ s \in S1 \/ (driver = "corex" /\ library = "synchronous")
  <2>1. i = Applied(Emptied(g, {NullStream}), op)
    BY <1>1, <1>8, DrainedWith
  <2> HIDE DEF op
  <2>2. \E S2 \in SUBSET Streams :
          Exported(g, s, l) = Emptied(Applied(Emptied(g, {NullStream}), op), S2)
    BY <1>1, <1>4, <1>5, <1>8, <2>1
  <2> QED
    BY <1>1, <1>8, <2>2
<1>9. CASE driver = "host"
  BY <1>3, <1>6, <1>9 DEF Issue, HostOps, Synchronized, Applied
<1>10. CASE driver = "cann"
  BY <1>3, <1>6, <1>7, <1>10 DEF Issue, CannOps, Synchronized, Applied
<1>11. CASE driver = "tops"
  BY <1>3, <1>7, <1>8, <1>11 DEF Issue, TopsOps, Synchronized
<1>12. CASE driver = "musa"
  BY <1>3, <1>7, <1>8, <1>12 DEF Issue, MusaOps, Synchronized
<1>13. CASE driver = "maca"
  BY <1>3, <1>7, <1>13 DEF Issue, MacaOps, Synchronized
<1>14. CASE driver \in {"corex", "cuda"}
  <2>1. library = "complete" \/ (driver = "corex" /\ library = "synchronous")
    BY <1>14 DEF LibraryOf, CorexLibrary
  <2> QED
    BY <1>3, <1>7, <1>8, <1>14, <2>1 DEF Issue, CorexOps, CudaOps, Synchronized
<1> QED
  BY <1>2, <1>9, <1>10, <1>11, <1>12, <1>13, <1>14

\* A kernel is enqueued for a launch that waits nowhere.
LEMMA KernelQueued ==
  ASSUME NEW g, Sound(g), NEW s \in Streams, NEW l \in Launches, l \notin Waiting(g)
  PROVE  LET h == Queued(g, s, [kind |-> "kernel", launch |-> l]) IN
         /\ Sound(h) /\ h.memory = g.memory
         /\ OpsOf(h.streams[s]) = OpsOf(g.streams[s]) \cup {l}
         /\ \A u \in Streams \ {s} : h.streams[u] = g.streams[u]
<1> DEFINE op == [kind |-> "kernel", launch |-> l]
<1>1. /\ g = [memory |-> g.memory, streams |-> g.streams]
      /\ g.memory \in [Launches -> Buffers] /\ g.streams \in [Streams -> Seq(KernelOps)]
  BY DEF Sound
<1>2. op \in KernelOps /\ op.launch = l
  BY DEF KernelOps
<1> HIDE DEF op
<1>3. PICK q : q = g.streams[s]
  OBVIOUS
<1>4. PICK p : p = Append(q, op)
  OBVIOUS
<1>5. q \in Seq(KernelOps) /\ Len(q) \in Nat
  BY <1>1, <1>3
<1>6. p \in Seq(KernelOps) /\ Len(p) = Len(q) + 1 /\ p[Len(q) + 1] = op
      /\ \A i \in 1 .. Len(q) : p[i] = q[i]
  BY <1>2, <1>4, <1>5
<1>7. PICK T : T = [g.streams EXCEPT ![s] = p]
  OBVIOUS
<1>8. Queued(g, s, op) = [memory |-> g.memory, streams |-> T]
  <2>1. PICK m : m = g.memory
    OBVIOUS
  <2>2. PICK S : S = g.streams
    OBVIOUS
  <2>3. g = [memory |-> m, streams |-> S] /\ T = [S EXCEPT ![s] = p] /\ p = Append(S[s], op)
    BY <1>1, <1>3, <1>4, <1>7, <2>1, <2>2
  <2>4. Queued([memory |-> m, streams |-> S], s, op)
          = [memory |-> m, streams |-> [S EXCEPT ![s] = Append(@, op)]]
    BY DEF Queued
  <2> QED
    BY <2>1, <2>3, <2>4
<1>9. PICK h : h = Queued(g, s, op)
  OBVIOUS
<1>10. h.memory = g.memory /\ h.streams = T /\ h = [memory |-> h.memory, streams |-> h.streams]
  BY <1>8, <1>9
<1>11. T[s] = p /\ T \in [Streams -> Seq(KernelOps)] /\ \A u \in Streams \ {s} : T[u] = g.streams[u]
  BY <1>1, <1>6, <1>7
<1>12. OpsOf(p) = OpsOf(q) \cup {l}
  <2>1. 1 .. Len(p) = (1 .. Len(q)) \cup {Len(q) + 1}
    BY <1>5, <1>6
  <2>2. \A i \in 1 .. Len(q) : p[i].launch = q[i].launch
    BY <1>6
  <2>3. p[Len(q) + 1].launch = l
    BY <1>2, <1>6
  <2> QED
    BY <2>1, <2>2, <2>3 DEF OpsOf
<1>13. \A u \in Streams : \A j \in 1 .. Len(g.streams[u]) : g.streams[u][j].launch # l
  BY DEF Waiting, OpsOf
<1>14. \A u \in Streams : \A j \in 1 .. Len(T[u]) :
         \/ j \in 1 .. Len(g.streams[u]) /\ T[u][j] = g.streams[u][j]
         \/ u = s /\ j = Len(q) + 1 /\ T[u][j] = op
  BY <1>3, <1>5, <1>6, <1>11
<1>15. \A u, w \in Streams : \A i \in 1 .. Len(T[u]), j \in 1 .. Len(T[w]) :
         T[u][i].launch = T[w][j].launch => u = w /\ i = j
  <2> TAKE u, w \in Streams
  <2> TAKE i \in 1 .. Len(T[u]), j \in 1 .. Len(T[w])
  <2> HAVE T[u][i].launch = T[w][j].launch
  <2>1. CASE u = s /\ i = Len(q) + 1 /\ T[u][i] = op
    <3>1. T[w][j].launch = l
      BY <1>2, <2>1
    <3>2. w = s /\ j = Len(q) + 1
      BY <1>13, <1>14, <3>1
    <3> QED
      BY <2>1, <3>2
  <2>2. CASE w = s /\ j = Len(q) + 1 /\ T[w][j] = op
    <3>1. T[u][i].launch = l
      BY <1>2, <2>2
    <3>2. u = s /\ i = Len(q) + 1
      BY <1>13, <1>14, <3>1
    <3> QED
      BY <2>2, <3>2
  <2>3. CASE /\ i \in 1 .. Len(g.streams[u]) /\ T[u][i] = g.streams[u][i]
             /\ j \in 1 .. Len(g.streams[w]) /\ T[w][j] = g.streams[w][j]
    BY <2>3 DEF Sound
  <2> QED
    BY <1>14, <2>1, <2>2, <2>3
<1>16. Sound(h)
  BY <1>1, <1>10, <1>11, <1>15 DEF Sound
<1> QED
  BY <1>3, <1>9, <1>10, <1>11, <1>12, <1>16 DEF op

\* The oldest operation of a stream runs: it is a kernel.
LEMMA OldestRuns ==
  ASSUME NEW g, Sound(g), NEW s \in Streams, g.streams[s] # <<>>
  PROVE  Kept(g, [memory |-> RunOp(g.memory, Head(g.streams[s])),
                  streams |-> [g.streams EXCEPT ![s] = Tail(@)]], {})
<1>0. PICK h : h = [memory |-> RunOp(g.memory, Head(g.streams[s])),
                    streams |-> [g.streams EXCEPT ![s] = Tail(@)]]
  OBVIOUS
<1>1. /\ g = [memory |-> g.memory, streams |-> g.streams]
      /\ g.memory \in [Launches -> Buffers] /\ g.streams \in [Streams -> Seq(KernelOps)]
  BY DEF Sound
<1>2. PICK q : q = g.streams[s]
  OBVIOUS
<1>3. q \in Seq(KernelOps) /\ Len(q) \in Nat /\ Len(q) > 0
  BY <1>1, <1>2
<1>4. PICK p : p = Tail(q)
  OBVIOUS
<1>5. p \in Seq(KernelOps) /\ Len(p) = Len(q) - 1 /\ Head(q) = q[1] /\ q[1] \in KernelOps
      /\ \A i \in 1 .. Len(p) : p[i] = q[i + 1]
  BY <1>3, <1>4
<1>6. PICK T : T = [g.streams EXCEPT ![s] = p]
  OBVIOUS
<1>7. PICK l : l = q[1].launch
  OBVIOUS
<1>8. l \in Launches /\ l \in OpsOf(q)
  BY <1>3, <1>5, <1>7 DEF KernelOps, OpsOf
<1>9. h.memory = After(g.memory, {l}) /\ h.streams = T
      /\ h = [memory |-> h.memory, streams |-> h.streams]
  <2>1. RunOp(g.memory, Head(g.streams[s])) = After(g.memory, {l})
    BY <1>1, <1>2, <1>5, <1>7, KernelRuns
  <2>2. [g.streams EXCEPT ![s] = Tail(@)] = T
    BY <1>2, <1>4, <1>6
  <2> QED
    BY <1>0, <2>1, <2>2
<1>10. T[s] = p /\ T \in [Streams -> Seq(KernelOps)] /\ \A u \in Streams \ {s} : T[u] = g.streams[u]
  BY <1>1, <1>5, <1>6
<1>11. \A i \in 1 .. Len(p) : i + 1 \in 1 .. Len(q) /\ i + 1 # 1
  BY <1>3, <1>5
<1>12. OpsOf(p) = OpsOf(q) \ {l}
  <2>1. \A i \in 1 .. Len(q) : i = 1 \/ (i - 1 \in 1 .. Len(p) /\ p[i - 1] = q[i])
    BY <1>3, <1>5
  <2>2. \A i \in 1 .. Len(q) : q[i].launch = l => i = 1
    <3>1. 1 \in 1 .. Len(q)
      BY <1>3
    <3> QED
      BY <1>2, <1>7, <3>1 DEF Sound
  <2>3. OpsOf(p) \subseteq OpsOf(q) \ {l}
    <3>1. \A i \in 1 .. Len(p) : p[i].launch = q[i + 1].launch /\ q[i + 1].launch # l
      BY <1>5, <1>11, <2>2
    <3> QED
      BY <1>11, <3>1 DEF OpsOf
  <2>4. OpsOf(q) \ {l} \subseteq OpsOf(p)
    BY <1>7, <2>1 DEF OpsOf
  <2> QED
    BY <2>3, <2>4
<1>13. \A u, w \in Streams : \A i \in 1 .. Len(T[u]), j \in 1 .. Len(T[w]) :
         T[u][i].launch = T[w][j].launch => u = w /\ i = j
  <2> DEFINE at(u, i) == IF u = s THEN i + 1 ELSE i
  <2>1. \A u \in Streams : \A i \in 1 .. Len(T[u]) :
          at(u, i) \in 1 .. Len(g.streams[u]) /\ T[u][i] = g.streams[u][at(u, i)]
    BY <1>2, <1>5, <1>10, <1>11
  <2> TAKE u, w \in Streams
  <2> TAKE i \in 1 .. Len(T[u]), j \in 1 .. Len(T[w])
  <2> HAVE T[u][i].launch = T[w][j].launch
  <2>2. u = w /\ at(u, i) = at(w, j)
    <3>1. PICK x : x = at(u, i)
      OBVIOUS
    <3>2. PICK y : y = at(w, j)
      OBVIOUS
    <3>3. /\ x \in 1 .. Len(g.streams[u]) /\ T[u][i] = g.streams[u][x]
          /\ y \in 1 .. Len(g.streams[w]) /\ T[w][j] = g.streams[w][y]
      BY <2>1, <3>1, <3>2
    <3> HIDE DEF at
    <3>4. u = w /\ x = y
      BY <3>3 DEF Sound
    <3> QED
      BY <3>1, <3>2, <3>4
  <2>3. i \in Nat /\ j \in Nat
    BY <1>10
  <2> QED
    BY <2>2, <2>3
<1>14. Sound(h)
  <2>1. After(g.memory, {l}) \in [Launches -> Buffers]
    BY <1>1, AfterType
  <2>2. h.memory \in [Launches -> Buffers] /\ h.streams \in [Streams -> Seq(KernelOps)]
        /\ h = [memory |-> h.memory, streams |-> h.streams]
    BY <1>9, <1>10, <2>1
  <2>3. \A u, w \in Streams : \A i \in 1 .. Len(h.streams[u]), j \in 1 .. Len(h.streams[w]) :
          h.streams[u][i].launch = h.streams[w][j].launch => u = w /\ i = j
    BY <1>9, <1>13
  <2> QED
    BY <2>2, <2>3 DEF Sound
<1>15. \A u \in Streams \ {s} : l \notin OpsOf(g.streams[u])
  BY <1>2, <1>8, StreamsApart
<1>16. Waiting(h) = Waiting(g) \ {l}
  <2>1. \A u \in Streams : OpsOf(h.streams[u]) = OpsOf(g.streams[u]) \ {l}
    BY <1>2, <1>9, <1>10, <1>12, <1>15
  <2>2. \A k : k \in Waiting(h) <=> \E u \in Streams : k \in OpsOf(g.streams[u]) \ {l}
    BY <2>1, Zenon DEF Waiting
  <2>3. \A k : k \in Waiting(g) <=> \E u \in Streams : k \in OpsOf(g.streams[u])
    BY DEF Waiting
  <2> QED
    BY <2>2, <2>3
<1>17. {l} \subseteq Waiting(g)
  BY <1>2, <1>8 DEF Waiting
<1>18. Final(h) = Final(g)
  BY <1>9, <1>14, <1>16, <1>17, LaterFinal DEF Later
<1>19. \A u \in Streams : OpsOf(h.streams[u]) \subseteq OpsOf(g.streams[u])
  BY <1>2, <1>9, <1>10, <1>12
<1>20. \A k \in Launches : k \notin Waiting(g) => h.memory[k] = g.memory[k]
  <2>1. \A k \in Launches : k # l => After(g.memory, {l})[k] = g.memory[k]
    BY DEF After
  <2> QED
    BY <1>9, <1>17, <2>1
<1> QED
  BY <1>0, <1>14, <1>18, <1>19, <1>20 DEF Kept

\* The launch's buffers are freed, which waits for the device.
LEMMA KeptReleased ==
  ASSUME NEW g, Sound(g), NEW l \in Launches
  PROVE  LET h == [DrainedAll(g) EXCEPT !.memory[l] = NoBuffer] IN
         Kept(g, h, {l}) /\ Waiting(h) = {} /\ h.memory[l] = NoBuffer
<1>1. PICK e : e = Emptied(g, Streams)
  OBVIOUS
<1>2. DrainedAll(g) = e
  BY <1>1, DrainedAllIs
<1>3. Kept(g, e, {l}) /\ Sound(e) /\ \A k \in Launches, s \in Streams : k \notin OpsOf(e.streams[s])
  <2>1. Kept(g, e, {l}) /\ \A k \in Launches, s \in Streams : k \notin OpsOf(e.streams[s])
    BY <1>1, KeptEmptied
  <2> QED
    BY <2>1 DEF Kept
<1>4. Waiting(e) = {}
  <2>1. \A s \in Streams : e.streams[s] = <<>>
    BY <1>1 DEF Emptied
  <2> QED
    BY <2>1, NoOps DEF Waiting
<1>5. NoBuffer \in Buffers
  BY DEF NoBuffer, Buffers, Contents
<1>6. PICK h : h = [e EXCEPT !.memory[l] = NoBuffer]
  OBVIOUS
<1>7. Kept(e, h, {l}) /\ Waiting(h) = Waiting(e) /\ h.memory[l] = NoBuffer
  BY <1>3, <1>4, <1>5, <1>6, KeptFresh
<1>8. Kept(g, h, {l})
  BY <1>3, <1>7, KeptTwice
<1> QED
  BY <1>2, <1>4, <1>6, <1>7, <1>8

----------------------------------------------------------------------------
(* The invariant of the buffers over the steps.                             *)

\* A launch that holds no buffer, or has not launched yet, waits nowhere.
LEMMA Nowhere ==
  ASSUME NEW l, NEW r, NEW g, NEW d, NEW b, Fits(l, r, g, d, b),
         ~Holding(r) \/ r.pc = "body"
  PROVE  l \notin Waiting(g)
  BY DEF Fits, MayWait, Waiting

\* A launch fits what a step keeps for it.
LEMMA FitsKept ==
  ASSUME NEW g, NEW h, NEW X, Kept(g, h, X), NEW k \in Launches \ X,
         NEW r, NEW d, NEW b, Fits(k, r, g, d, b)
  PROVE  Fits(k, r, h, d, b)
<1>1. ~Holding(r) => h.memory[k] = NoBuffer
  BY Nowhere DEF Kept, Fits
<1>2. \A s \in Streams : k \in OpsOf(h.streams[s]) => MayWait(r, s, d)
  BY DEF Kept, Fits
<1>3. Final(h)[k] = Final(g)[k]
  BY DEF Kept
<1> QED
  BY <1>1, <1>2, <1>3 DEF Fits

\* A step of launch l, which leaves the others as they were.
LEMMA DataStep ==
  ASSUME DataInv, NEW X \in SUBSET Launches, NEW h, h = Gpu', Kept(Gpu, h, X),
         UNCHANGED <<driver, library>>, \A k \in Launches \ X : launch'[k] = launch[k],
         \A k \in X : Fits(k, launch'[k], h, driver, library)
  PROVE  DataInv'
<1>1. \A k \in Launches : Fits(k, launch'[k], h, driver, library)
  <2> TAKE k \in Launches
  <2>1. CASE k \in X
    BY <2>1
  <2>2. CASE k \notin X
    <3>1. Fits(k, launch[k], Gpu, driver, library)
      BY DEF DataInv
    <3>2. Fits(k, launch[k], h, driver, library)
      BY <2>2, <3>1, FitsKept
    <3> QED
      BY <2>2, <3>2
  <2> QED
    BY <2>1, <2>2
<1>2. Sound(h)
  BY DEF Kept
<1> QED
  BY <1>1, <1>2 DEF DataInv

\* Memory and streams as a step sets them.
LEMMA SetIs ==
  ASSUME NEW g, Sound(g), SetGpu(g)
  PROVE  Gpu' = g
  BY DEF Sound, SetGpu, Gpu

\* A launch is refused or opened.
LEMMA EnterData ==
  ASSUME LaunchInv, DataInv, NEW l \in Launches, NEW t \in Threads, NEW k \in Kernels,
         Enter(l, t, k)
  PROVE  DataInv'
<1>1. PICK D : launch \in [Launches -> LaunchRecords(D)]
  BY DEF LaunchInv, Typed
<1>2. Fits(l, launch[l], Gpu, driver, library) /\ Sound(Gpu) /\ driver \in Drivers
  BY DEF DataInv
<1>3. launch[l].pc = "idle" /\ ~Holding(launch[l]) /\ l \notin Waiting(Gpu)
  <2>1. launch[l].pc = "idle" /\ ~Holding(launch[l])
    BY DEF Enter, Holding
  <2> QED
    BY <1>2, <2>1, Nowhere
<1>4. Gpu.memory[l] = NoBuffer /\ \A s \in Streams : l \notin OpsOf(Gpu.streams[s])
  BY <1>2, <1>3 DEF Fits, Waiting
<1>5. CASE Refused(k)
  <2> DEFINE r == [Idle EXCEPT !.pc = "done", !.thread = t, !.kernel = k,
                               !.outcome = "refused"]
  <2>1. launch' = [launch EXCEPT ![l] = r] /\ UNCHANGED engineVars
    BY <1>5 DEF Enter
  <2>2. r.pc = "done" /\ r.data = "none" /\ r.kernel = k
    BY DEF Idle
  <2> HIDE DEF r
  <2>3. launch'[l] = r /\ \A j \in Launches \ {l} : launch'[j] = launch[j]
    BY <1>1, <2>1
  <2>4. Fits(l, r, Gpu, driver, library)
    BY <1>4, <2>2 DEF Fits, Holding
  <2>5. Gpu' = Gpu /\ UNCHANGED <<driver, library>>
    BY <2>1 DEF Gpu, engineVars
  <2>6. Kept(Gpu, Gpu, {l})
    BY <1>2, KeptSame
  <2> QED
    BY <2>3, <2>4, <2>5, <2>6, DataStep
<1>6. CASE ~Refused(k)
  <2> DEFINE a == k.debug \/ config.enabled
             r == [Idle EXCEPT !.pc = "body", !.thread = t, !.kernel = k, !.handle = a]
  <2>1. /\ launch' = [launch EXCEPT ![l] = r]
        /\ IF k.hidden THEN PrepareBuffer(t, l, k.device) ELSE UNCHANGED engineVars
        /\ k.hidden => library # "missing"
    BY <1>6 DEF Enter, AdapterReady
  <2>2. r.pc = "body" /\ r.data = "none" /\ r.kernel = k /\ ~r.ran /\ (k.hidden => r.handle)
    <3>1. a \in BOOLEAN /\ (k.hidden => a)
      BY KernelAssumption
    <3> HIDE DEF a
    <3> QED
      BY <3>1 DEF Idle
  <2> HIDE DEF r
  <2>3. launch'[l] = r /\ \A j \in Launches \ {l} : launch'[j] = launch[j]
    BY <1>1, <2>1
  <2>4. CASE ~k.hidden
    <3>1. Fits(l, r, Gpu, driver, library)
      BY <1>4, <2>2, <2>4 DEF Fits, Holding
    <3>2. Gpu' = Gpu /\ UNCHANGED <<driver, library>>
      BY <2>1, <2>4 DEF Gpu, engineVars
    <3>3. Kept(Gpu, Gpu, {l})
      BY <1>2, KeptSame
    <3> QED
      BY <2>3, <3>1, <3>2, <3>3, DataStep
  <2>5. CASE k.hidden
    <3> DEFINE b == [device |-> "stale", host |-> "zero", on |-> k.device]
    <3>1. b \in Buffers
      BY KernelAssumption DEF Buffers, Contents
    <3>2. PICK g : g = [Gpu EXCEPT !.memory[l] = b]
      OBVIOUS
    <3>3. SetGpu(InitHeader(g, l)) /\ UNCHANGED <<driver, library>>
      BY <2>1, <2>5, <3>2 DEF PrepareBuffer
    <3> HIDE DEF b
    <3>4. Kept(Gpu, g, {l}) /\ Waiting(g) = Waiting(Gpu)
      BY <1>2, <1>3, <3>1, <3>2, KeptFresh
    <3>5. PICK h : h = InitHeader(g, l)
      OBVIOUS
    <3>6. Sound(g)
      BY <3>4 DEF Kept
    <3>7. Kept(g, h, {l}) /\ l \notin Waiting(h) /\ h.memory[l].device = "header"
      BY <1>2, <1>3, <3>4, <3>5, <3>6, HeaderReady
    <3>8. Kept(Gpu, h, {l})
      BY <3>4, <3>7, KeptTwice
    <3>9. h = Gpu'
      BY <3>3, <3>5, <3>7, SetIs DEF Kept
    <3>10. Final(h)[l].device = "header"
      BY <3>7, FinalNow
    <3>11. \A s \in Streams : l \notin OpsOf(h.streams[s])
      BY <3>7 DEF Waiting
    <3>12. Fits(l, r, h, driver, library)
      BY <2>1, <2>2, <2>5, <3>10, <3>11 DEF Fits, Holding
    <3> QED
      BY <2>3, <3>3, <3>8, <3>9, <3>12, DataStep
  <2> QED
    BY <2>4, <2>5
<1> QED
  BY <1>5, <1>6

\* The kernel is enqueued, or the launcher raises before it is.
LEMMA BodyData ==
  ASSUME LaunchInv, DataInv, NEW l \in Launches, NEW e \in BOOLEAN, NEW x \in BOOLEAN,
         Body(l, e, x)
  PROVE  DataInv'
<1>1. PICK D : launch \in [Launches -> LaunchRecords(D)]
  BY DEF LaunchInv, Typed
<1>2. PICK r : r = launch[l]
  OBVIOUS
<1>3. Fits(l, r, Gpu, driver, library) /\ Sound(Gpu) /\ r.pc = "body"
      /\ r \in LaunchRecords(D) /\ l \notin Waiting(Gpu)
  <2>1. Fits(l, r, Gpu, driver, library) /\ Sound(Gpu) /\ r.pc = "body"
        /\ r \in LaunchRecords(D)
    BY <1>1, <1>2 DEF DataInv, Body
  <2> QED
    BY <2>1, Nowhere
<1>4. PICK n : n = [r EXCEPT !.pc = IF x THEN "finalize" ELSE "sync", !.ran = e, !.raised = x]
  OBVIOUS
<1>5. launch' = [launch EXCEPT ![l] = n] /\ UNCHANGED <<driver, library>>
  BY <1>1, <1>2, <1>4 DEF Body
<1>6. launch'[l] = n /\ \A j \in Launches \ {l} : launch'[j] = launch[j]
  BY <1>1, <1>5
<1>7. /\ n.pc = (IF x THEN "finalize" ELSE "sync") /\ n.kernel = r.kernel
      /\ n.handle = r.handle /\ n.data = r.data
  BY <1>3, <1>4 DEF LaunchRecords
<1>8. n.ran = e
  BY <1>3, <1>4 DEF LaunchRecords
<1>9. n.raised = x
  BY <1>3, <1>4 DEF LaunchRecords
<1>10. Holding(n) <=> r.kernel.hidden
  BY <1>7 DEF Holding
<1>11. Holding(r) <=> r.kernel.hidden
  BY <1>3 DEF Holding
<1>12. n.kernel \in Kernels /\ n.data = "none" /\ n.pc \in {"sync", "finalize"}
  BY <1>3, <1>7 DEF Fits
<1>13. CASE ~(e /\ r.kernel.hidden)
  <2>1. Gpu' = Gpu
    BY <1>2, <1>13 DEF Body, Gpu, Kernel
  <2>2. Kept(Gpu, Gpu, {l})
    BY <1>3, KeptSame
  <2>3. \A s \in Streams : l \notin OpsOf(Gpu.streams[s])
    BY <1>3 DEF Waiting
  <2>4. Holding(n) => Final(Gpu)[l].device = "header" /\ ~e /\ n.handle /\ library # "missing"
    <3>1. ~r.ran
      BY <1>3 DEF Fits
    <3> QED
      BY <1>3, <1>7, <1>10, <1>11, <1>13, <3>1 DEF Fits
  <2>5. ~Holding(n) => Gpu.memory[l] = NoBuffer
    BY <1>3, <1>10, <1>11 DEF Fits
  <2>6. Fits(l, n, Gpu, driver, library)
    BY <1>8, <1>12, <2>3, <2>4, <2>5 DEF Fits
  <2> QED
    BY <1>5, <1>6, <2>1, <2>2, <2>6, DataStep
<1>14. CASE e /\ r.kernel.hidden
  <2>1. PICK s : s = r.kernel.stream
    OBVIOUS
  <2>2. s \in Streams
    BY <1>7, <1>12, <2>1, KernelAssumption
  <2>3. PICK h : h = Queued(Gpu, s, [kind |-> "kernel", launch |-> l])
    OBVIOUS
  <2>4. SetGpu(h)
    BY <1>2, <1>14, <2>1, <2>3 DEF Body, Kernel
  <2>5. /\ Sound(h) /\ h.memory = Gpu.memory
        /\ OpsOf(h.streams[s]) = OpsOf(Gpu.streams[s]) \cup {l}
        /\ \A u \in Streams \ {s} : h.streams[u] = Gpu.streams[u]
    BY <1>3, <2>2, <2>3, KernelQueued
  <2>6. Waiting(h) = Waiting(Gpu) \cup {l}
    BY <2>2, <2>5 DEF Waiting
  <2>7. Gpu' = h
    BY <2>4, <2>5, SetIs
  <2>8. \A k \in Launches \ {l} : Final(h)[k] = Final(Gpu)[k]
    BY <2>5, <2>6 DEF Final, After
  <2>9. Final(h)[l].device = "written"
    <3>1. PICK b \in Buffers : b = Gpu.memory[l]
      BY <1>3 DEF Sound
    <3>2. Final(Gpu)[l].device = "header"
      <4>1. ~r.ran
        BY <1>3 DEF Fits
      <4> QED
        BY <1>3, <1>11, <1>14, <4>1 DEF Fits
    <3>3. b.device = "header"
      BY <1>3, <3>1, <3>2, FinalNow
    <3>4. Final(h)[l] = Ran(b)
      BY <2>5, <2>6, <3>1 DEF Final, After
    <3> QED
      BY <3>3, <3>4 DEF Ran, Buffers
  <2>10. \A u \in Streams : l \in OpsOf(h.streams[u]) => u = s
    BY <1>3, <2>5 DEF Waiting
  <2>11. MayWait(n, s, driver)
    BY <1>7, <1>8, <1>9, <1>10, <1>12, <1>14, <2>1 DEF MayWait
  <2>12. n.handle /\ library # "missing"
    BY <1>3, <1>7, <1>11, <1>14 DEF Fits
  <2>13. Fits(l, n, h, driver, library)
    BY <1>8, <1>10, <1>12, <1>14, <2>9, <2>10, <2>11, <2>12 DEF Fits
  <2>14. \A k \in Launches \ {l} : Fits(k, launch[k], h, driver, library)
    <3> TAKE k \in Launches \ {l}
    <3>1. Fits(k, launch[k], Gpu, driver, library)
      BY DEF DataInv
    <3>2. \A u \in Streams : k \in OpsOf(h.streams[u]) => k \in OpsOf(Gpu.streams[u])
      BY <2>5
    <3>3. Final(h)[k] = Final(Gpu)[k] /\ h.memory[k] = Gpu.memory[k]
      BY <2>5, <2>8
    <3> QED
      BY <3>1, <3>2, <3>3 DEF Fits
  <2>15. \A k \in Launches : Fits(k, launch'[k], h, driver, library)
    BY <1>6, <2>13, <2>14
  <2> QED
    BY <1>5, <2>5, <2>7, <2>15 DEF DataInv
<1> QED
  BY <1>13, <1>14

\* The device is waited for, on the drivers that do.
LEMMA SynchronizeData ==
  ASSUME LaunchInv, DataInv, NEW l \in Launches, Synchronize(l)
  PROVE  DataInv'
<1>1. PICK D : launch \in [Launches -> LaunchRecords(D)]
  BY DEF LaunchInv, Typed
<1>2. PICK r : r = launch[l]
  OBVIOUS
<1>3. Fits(l, r, Gpu, driver, library) /\ Sound(Gpu) /\ r.pc = "sync"
      /\ r \in LaunchRecords(D)
  BY <1>1, <1>2 DEF DataInv, Synchronize
<1> DEFINE x == r.kernel.hidden /\ driver = "host"
<1>4. PICK n : n = [r EXCEPT !.pc = "finalize", !.raised = x]
  OBVIOUS
<1>5. launch' = [launch EXCEPT ![l] = n] /\ UNCHANGED <<driver, library>>
  BY <1>1, <1>2, <1>4 DEF Synchronize, Kernel
<1> HIDE DEF x
<1>6. launch'[l] = n /\ \A j \in Launches \ {l} : launch'[j] = launch[j]
  BY <1>1, <1>5
<1>7. n.pc = "finalize" /\ n.kernel = r.kernel /\ n.data = r.data
  BY <1>3, <1>4 DEF LaunchRecords
<1>8. n.ran = r.ran
  BY <1>3, <1>4 DEF LaunchRecords
<1>9. n.handle = r.handle
  BY <1>3, <1>4 DEF LaunchRecords
<1>10. Holding(n) <=> Holding(r)
  BY <1>3, <1>7 DEF Holding
<1>11. ASSUME NEW h, Kept(Gpu, h, {}), Gpu' = h,
              \A s \in Streams : l \in OpsOf(h.streams[s]) => driver \notin {"cann", "corex"}
       PROVE  DataInv'
  <2>1. Fits(l, r, h, driver, library)
    BY <1>3, <1>11, FitsKept
  <2>2. \A s \in Streams : l \in OpsOf(h.streams[s]) => MayWait(n, s, driver)
    BY <1>7, <1>8, <1>10, <1>11, <2>1 DEF Fits, MayWait
  <2>3. n.data = "none" /\ n.kernel \in Kernels
    BY <1>3, <1>7 DEF Fits
  <2>4. Holding(n) => /\ Final(h)[l].device = (IF n.ran THEN "written" ELSE "header")
                      /\ n.handle /\ library # "missing"
    BY <1>8, <1>9, <1>10, <2>1 DEF Fits
  <2>5. ~Holding(n) => h.memory[l] = NoBuffer
    BY <1>10, <2>1 DEF Fits
  <2>6. Fits(l, n, h, driver, library)
    BY <1>7, <2>2, <2>3, <2>4, <2>5 DEF Fits
  <2>7. Kept(Gpu, h, {l})
    BY <1>11 DEF Kept
  <2> QED
    BY <1>5, <1>6, <1>11, <2>6, <2>7, DataStep
<1>12. CASE r.kernel.hidden /\ driver \in {"cann", "corex", "tops", "musa"}
  <2>1. PICK h : h = DrainedAll(Gpu)
    OBVIOUS
  <2>2. h = Emptied(Gpu, Streams)
    BY <1>3, <2>1, DrainedAllIs
  <2>3. Kept(Gpu, h, {}) /\ \A s \in Streams : l \notin OpsOf(h.streams[s])
    BY <1>3, <2>2, KeptEmptied
  <2>4. SetGpu(h)
    BY <1>2, <1>12, <2>1 DEF Synchronize, Kernel
  <2>5. Gpu' = h
    BY <2>3, <2>4, SetIs DEF Kept
  <2> QED
    BY <1>11, <2>3, <2>5
<1>13. CASE ~(r.kernel.hidden /\ driver \in {"cann", "corex", "tops", "musa"})
  <2>1. Gpu' = Gpu
    BY <1>2, <1>13 DEF Synchronize, Gpu, Kernel
  <2>2. Kept(Gpu, Gpu, {})
    BY <1>3, KeptSame
  <2>3. \A s \in Streams : l \in OpsOf(Gpu.streams[s]) => r.kernel.hidden
    BY <1>3 DEF Fits, MayWait, Holding
  <2> QED
    BY <1>11, <1>13, <2>1, <2>2, <2>3
<1> QED
  BY <1>12, <1>13

\* What the finalizer copies back.
LEMMA ExportData ==
  ASSUME DataInv, NEW l \in Launches, NEW r, r = launch[l], r.pc = "finalize",
         r.kernel.hidden, NEW h, h = Exported(Gpu, r.kernel.stream, l)
  PROVE  /\ Kept(Gpu, h, {l}) /\ Sound(h)
         /\ driver # "host" /\ (r.raised => driver # "cann" /\ library # "synchronous")
              => h.memory[l].host = IF r.ran THEN "written" ELSE "header"
<1>1. Fits(l, r, Gpu, driver, library) /\ Sound(Gpu) /\ driver \in Drivers
      /\ library \in LibraryOf(driver) /\ Holding(r)
  BY DEF DataInv, Holding
<1>2. PICK s : s = r.kernel.stream
  OBVIOUS
<1>3. s \in Streams /\ library # "missing"
  BY <1>1, <1>2, KernelAssumption DEF Fits
<1> DEFINE op == [kind |-> "d2h", launch |-> l]
<1>4. op \in AnyOps /\ op.kind = "d2h" /\ op.launch = l
  BY DEF AnyOps
<1>5. PICK S1, S2 \in SUBSET Streams :
        /\ h = Emptied(Applied(Emptied(Gpu, S1), op), S2)
        /\ \/ s \in S1 \/ driver = "host"
           \/ driver = "cann" \/ (driver = "corex" /\ library = "synchronous")
  BY <1>1, <1>2, <1>3, CopyBack
<1> HIDE DEF op
<1>6. PICK e : e = Emptied(Gpu, S1)
  OBVIOUS
<1>7. PICK a : a = Applied(e, op)
  OBVIOUS
<1>8. /\ Kept(Gpu, e, {}) /\ Kept(Gpu, e, {l}) /\ Final(e) = Final(Gpu)
      /\ \A u \in S1 : l \notin OpsOf(e.streams[u])
  BY <1>1, <1>6, KeptEmptied
<1>9. Sound(e)
  BY <1>8 DEF Kept
<1>10. Kept(e, a, {l}) /\ a.memory[l] = OpOn("d2h", e.memory[l])
  BY <1>4, <1>7, <1>9, KeptApplied
<1>11. Sound(a)
  BY <1>10 DEF Kept
<1>12. Kept(a, h, {l}) /\ h.memory[l].host = a.memory[l].host
  BY <1>5, <1>6, <1>7, <1>11, KeptEmptied
<1>13. Kept(Gpu, h, {l})
  <2>1. Kept(Gpu, a, {l})
    BY <1>8, <1>10, KeptTwice
  <2> QED
    BY <1>12, <2>1, KeptTwice
<1>14. h.memory[l].host = e.memory[l].device
  <2>1. PICK b \in Buffers : b = e.memory[l]
    BY <1>9 DEF Sound
  <2>2. OpOn("d2h", b).host = b.device
    BY DEF OpOn, Buffers
  <2> QED
    BY <1>10, <1>12, <2>1, <2>2
<1>15. ASSUME driver # "host", r.raised => driver # "cann" /\ library # "synchronous"
       PROVE  h.memory[l].host = IF r.ran THEN "written" ELSE "header"
  <2>1. \A u \in Streams : l \in OpsOf(e.streams[u]) => u = s /\ MayWait(r, u, driver)
    BY <1>1, <1>2, <1>8 DEF Kept, Fits, MayWait
  <2>2. l \notin Waiting(e)
    BY <1>5, <1>8, <1>15, <2>1 DEF Waiting, MayWait
  <2>3. e.memory[l] = Final(Gpu)[l]
    BY <1>8, <2>2, FinalNow
  <2> QED
    BY <1>1, <1>14, <2>3 DEF Fits
<1>16. Sound(h)
  BY <1>13 DEF Kept
<1> QED
  BY <1>13, <1>15, <1>16

\* A launch's buffers are freed, and it has left its body.
LEMMA ReleaseData ==
  ASSUME LaunchInv, DataInv, NEW l \in Launches, NEW g, Sound(g), Kept(Gpu, g, {l}),
         NEW t, ReleaseBuffer(t, l, g), NEW n, n.pc \in {"deliver", "done"}, n.kernel \in Kernels,
         launch'[l] = n, \A k \in Launches \ {l} : launch'[k] = launch[k],
         /\ n.data # "none" /\ driver # "host"
         /\ n.raised => driver # "cann" /\ library # "synchronous"
         => n.data = IF n.ran THEN "written" ELSE "header"
  PROVE  DataInv'
<1>1. PICK h : h = [DrainedAll(g) EXCEPT !.memory[l] = NoBuffer]
  OBVIOUS
<1>2. Kept(g, h, {l}) /\ Waiting(h) = {} /\ h.memory[l] = NoBuffer
  BY <1>1, KeptReleased
<1>3. Kept(Gpu, h, {l}) /\ Sound(h)
  <2>1. Kept(Gpu, h, {l})
    BY <1>2, KeptTwice
  <2> QED
    BY <2>1 DEF Kept
<1>4. SetGpu(h) /\ UNCHANGED <<driver, library>>
  BY <1>1 DEF ReleaseBuffer
<1>5. Gpu' = h
  BY <1>3, <1>4, SetIs
<1>6. Fits(l, n, h, driver, library)
  <2>1. \A s \in Streams : l \notin OpsOf(h.streams[s])
    BY <1>2 DEF Waiting
  <2>2. ~Holding(n)
    BY DEF Holding
  <2> QED
    BY <1>2, <2>1, <2>2 DEF Fits
<1> QED
  BY <1>3, <1>4, <1>5, <1>6, DataStep

\* A launch that holds no buffer goes on to its end.
LEMMA LeftData ==
  ASSUME LaunchInv, DataInv, NEW l \in Launches, NEW r, r = launch[l], ~Holding(r),
         UNCHANGED engineVars, NEW n, n.pc \in {"deliver", "done"}, n.kernel \in Kernels,
         n.ran = r.ran, n.raised = r.raised, n.data = r.data,
         launch'[l] = n, \A k \in Launches \ {l} : launch'[k] = launch[k]
  PROVE  DataInv'
<1>1. Fits(l, r, Gpu, driver, library) /\ Sound(Gpu)
  BY DEF DataInv
<1>2. Gpu' = Gpu /\ UNCHANGED <<driver, library>>
  BY DEF Gpu, engineVars
<1>3. Kept(Gpu, Gpu, {l})
  BY <1>1, KeptSame
<1>4. ~Holding(n)
  BY DEF Holding
<1>5. \A s \in Streams : l \notin OpsOf(Gpu.streams[s])
  BY <1>1 DEF Fits, MayWait
<1>6. Fits(l, n, Gpu, driver, library)
  BY <1>1, <1>4, <1>5 DEF Fits
<1> QED
  BY <1>2, <1>3, <1>6, DataStep

\* What a launch that leaves its context carries on.
LEMMA LeftRecord ==
  ASSUME LaunchInv, NEW l \in Launches, NEW o, Leave(l, o)
  PROVE  /\ \A k \in Launches \ {l} : launch'[k] = launch[k]
         /\ launch'[l].pc = "done" /\ launch'[l].kernel = launch[l].kernel
         /\ launch'[l].ran = launch[l].ran /\ launch'[l].raised = launch[l].raised
         /\ launch'[l].data = launch[l].data
<1>1. PICK D : launch \in [Launches -> LaunchRecords(D)]
  BY DEF LaunchInv, Typed
<1>2. launch' = [launch EXCEPT ![l].pc = "done", ![l].outcome = o]
  BY DEF Leave
<1>3. launch'[l] = [launch[l] EXCEPT !.pc = "done", !.outcome = o]
      /\ \A k \in Launches \ {l} : launch'[k] = launch[k]
  BY <1>1, <1>2
<1>4. PICK r \in LaunchRecords(D) : r = launch[l]
  BY <1>1
<1>5. PICK n : n = [r EXCEPT !.pc = "done", !.outcome = o]
  OBVIOUS
<1>6. n.pc = "done" /\ n.kernel = r.kernel /\ n.data = r.data
  BY <1>5 DEF LaunchRecords
<1>7. n.ran = r.ran
  BY <1>5 DEF LaunchRecords
<1>8. n.raised = r.raised
  BY <1>5 DEF LaunchRecords
<1> QED
  BY <1>3, <1>4, <1>5, <1>6, <1>7, <1>8

\* The finalizer releases the buffer, after it copied it back or without.
LEMMA FinalizeData ==
  ASSUME LaunchInv, DataInv, NEW l \in Launches, Finalize(l)
  PROVE  DataInv'
<1> DEFINE o == IF launch[l].raised THEN "raised" ELSE "returned"
           dropped == launch[l].raised /\ ~config.onError
<1>1. PICK D : launch \in [Launches -> LaunchRecords(D)]
  BY DEF LaunchInv, Typed
<1>2. PICK r : r = launch[l]
  OBVIOUS
<1>3. Fits(l, r, Gpu, driver, library) /\ Sound(Gpu) /\ r.pc = "finalize"
      /\ r \in LaunchRecords(D)
  BY <1>1, <1>2 DEF DataInv, Finalize
<1>4. r.kernel \in Kernels /\ r.data = "none"
  BY <1>3 DEF Fits
<1>5. Kept(Gpu, Gpu, {l})
  BY <1>3, KeptSame
<1>6. CASE ~r.handle \/ dropped
  <2>1. Leave(l, o)
    BY <1>2, <1>6 DEF Finalize
  <2> HIDE DEF o
  <2>2. /\ \A k \in Launches \ {l} : launch'[k] = launch[k]
        /\ launch'[l].pc = "done" /\ launch'[l].kernel = r.kernel
        /\ launch'[l].ran = r.ran /\ launch'[l].raised = r.raised
        /\ launch'[l].data = r.data
    BY <1>2, <2>1, LeftRecord
  <2>3. PICK n : n = launch'[l]
    OBVIOUS
  <2>4. CASE r.kernel.hidden
    <3>1. r.handle
      BY <1>3, <2>4 DEF Fits, Holding
    <3>2. ReleaseBuffer(launch[l].thread, l, Gpu)
      BY <1>2, <1>6, <2>4, <3>1 DEF Finalize, Kernel
    <3> HIDE DEF dropped
    <3> QED
      BY <1>3, <1>4, <1>5, <2>2, <2>3, <3>2, ReleaseData
  <2>5. CASE ~r.kernel.hidden
    <3>1. UNCHANGED engineVars
      BY <1>2, <1>6, <2>5 DEF Finalize, Kernel
    <3>2. ~Holding(r)
      BY <2>5 DEF Holding
    <3> HIDE DEF dropped
    <3> QED
      BY <1>2, <1>4, <2>2, <2>3, <3>1, <3>2, LeftData
  <2> QED
    BY <2>4, <2>5
<1>7. CASE ~(~r.handle \/ dropped) /\ ~r.kernel.hidden
  <2>1. launch' = [launch EXCEPT ![l].pc = "deliver"] /\ UNCHANGED engineVars
    BY <1>2, <1>7 DEF Finalize, Kernel
  <2>2. PICK n : n = [r EXCEPT !.pc = "deliver"]
    OBVIOUS
  <2>3. launch'[l] = n /\ \A k \in Launches \ {l} : launch'[k] = launch[k]
    BY <1>1, <1>2, <2>1, <2>2
  <2>4. n.pc = "deliver" /\ n.kernel = r.kernel /\ n.data = r.data
    BY <1>3, <2>2 DEF LaunchRecords
  <2>5. n.ran = r.ran
    BY <1>3, <2>2 DEF LaunchRecords
  <2>6. n.raised = r.raised
    BY <1>3, <2>2 DEF LaunchRecords
  <2>7. ~Holding(r)
    BY <1>7 DEF Holding
  <2> QED
    BY <1>2, <1>4, <2>1, <2>3, <2>4, <2>5, <2>6, <2>7, LeftData
<1>8. CASE ~(~r.handle \/ dropped) /\ r.kernel.hidden
  <2>1. PICK h : h = Exported(Gpu, r.kernel.stream, l)
    OBVIOUS
  <2>2. PICK y : y = h.memory[l].host
    OBVIOUS
  <2>3. launch' = [launch EXCEPT ![l].pc = "deliver", ![l].data = y]
        /\ ReleaseBuffer(launch[l].thread, l, h)
    BY <1>2, <1>8, <2>1, <2>2 DEF Finalize, Kernel
  <2>4. /\ Kept(Gpu, h, {l}) /\ Sound(h)
        /\ driver # "host" /\ (r.raised => driver # "cann" /\ library # "synchronous")
             => y = IF r.ran THEN "written" ELSE "header"
    BY <1>2, <1>3, <1>8, <2>1, <2>2, ExportData
  <2>5. PICK n : n = [r EXCEPT !.pc = "deliver", !.data = y]
    OBVIOUS
  <2>6. launch'[l] = n /\ \A k \in Launches \ {l} : launch'[k] = launch[k]
    BY <1>1, <1>2, <2>3, <2>5
  <2>7. n.pc = "deliver" /\ n.kernel = r.kernel /\ n.data = y
    BY <1>3, <2>5 DEF LaunchRecords
  <2>8. n.ran = r.ran
    BY <1>3, <2>5 DEF LaunchRecords
  <2>9. n.raised = r.raised
    BY <1>3, <2>5 DEF LaunchRecords
  <2>10. /\ n.data # "none" /\ driver # "host"
         /\ n.raised => driver # "cann" /\ library # "synchronous"
         => n.data = IF n.ran THEN "written" ELSE "header"
    BY <2>4, <2>7, <2>8, <2>9
  <2> HIDE DEF dropped, o
  <2>11. PICK t : t = launch[l].thread
    OBVIOUS
  <2>12. n.pc \in {"deliver", "done"} /\ n.kernel \in Kernels /\ ReleaseBuffer(t, l, h)
    BY <1>4, <2>3, <2>7, <2>11
  <2>13. Kept(Gpu, h, {l}) /\ Sound(h)
    BY <2>4
  <2> QED
    BY <2>6, <2>10, <2>12, <2>13, ReleaseData
<1> QED
  BY <1>6, <1>7, <1>8

\* The run is delivered.
LEMMA DeliverData ==
  ASSUME LaunchInv, DataInv, NEW l \in Launches, Deliver(l)
  PROVE  DataInv'
<1>1. PICK r : r = launch[l]
  OBVIOUS
<1>2. r.pc = "deliver" /\ Fits(l, r, Gpu, driver, library)
  BY <1>1 DEF DataInv, Deliver
<1>3. r.kernel \in Kernels /\ ~Holding(r)
  BY <1>2 DEF Fits, Holding
<1>4. UNCHANGED engineVars /\ \E o : Leave(l, o)
  BY DEF Deliver
<1>5. /\ \A k \in Launches \ {l} : launch'[k] = launch[k]
      /\ launch'[l].pc = "done" /\ launch'[l].kernel = r.kernel
      /\ launch'[l].ran = r.ran /\ launch'[l].raised = r.raised
      /\ launch'[l].data = r.data
  BY <1>1, <1>4, LeftRecord
<1>6. PICK n : n = launch'[l]
  OBVIOUS
<1> QED
  BY <1>1, <1>3, <1>4, <1>5, <1>6, LeftData

\* Nothing has been launched.
LEMMA InitData == Init => DataInv
<1> SUFFICES ASSUME Init PROVE DataInv
  OBVIOUS
<1>1. memory = [l \in Launches |-> NoBuffer] /\ pending = [s \in Streams |-> <<>>]
  BY DEF Init, EngineInit
<1>2. Gpu.memory = memory /\ Gpu.streams = pending
      /\ Gpu = [memory |-> Gpu.memory, streams |-> Gpu.streams]
  BY DEF Gpu
<1>3. NoBuffer \in Buffers
  BY DEF NoBuffer, Buffers, Contents
<1>4. Sound(Gpu)
  BY <1>1, <1>2, <1>3 DEF Sound
<1>5. \A l \in Launches : Fits(l, launch[l], Gpu, driver, library)
  <2> TAKE l \in Launches
  <2>1. launch[l] = Idle
    BY DEF Init
  <2>2. Idle.pc = "idle" /\ ~Idle.ran /\ Idle.data = "none"
    BY DEF Idle
  <2>3. \A s \in Streams : l \notin OpsOf(Gpu.streams[s])
    BY <1>1, <1>2, NoOps
  <2> QED
    BY <1>1, <1>2, <2>1, <2>2, <2>3 DEF Fits, Holding
<1> QED
  BY <1>4, <1>5 DEF DataInv, Init, EngineInit

\* Every step keeps the invariant of the buffers.
LEMMA NextData == LaunchInv /\ DataInv /\ [Next]_vars => DataInv'
<1> SUFFICES ASSUME LaunchInv, DataInv, [Next]_vars PROVE DataInv'
  OBVIOUS
<1>1. ASSUME UNCHANGED <<engineVars, launch>> PROVE DataInv'
  <2>1. Gpu' = Gpu /\ UNCHANGED <<driver, library>>
    BY <1>1 DEF Gpu, engineVars
  <2> QED
    BY <1>1, <2>1 DEF DataInv
<1>2. CASE Application
  BY <1>1, <1>2 DEF Application, Activate, Deactivate, Configure
<1>3. ASSUME NEW l \in Launches, Step(l) PROVE DataInv'
  BY <1>3, EnterData, BodyData, SynchronizeData, FinalizeData, DeliverData DEF Step
<1>4. ASSUME NEW s \in Streams, StreamStep(s), UNCHANGED <<pyVars, stack, launch, exported>>
      PROVE  DataInv'
  <2>1. PICK h : h = [memory |-> RunOp(memory, Head(pending[s])),
                      streams |-> [pending EXCEPT ![s] = Tail(@)]]
    OBVIOUS
  <2>2. Gpu' = h /\ UNCHANGED <<driver, library>>
    BY <1>4, <2>1 DEF StreamStep, Gpu
  <2>3. Gpu.memory = memory /\ Gpu.streams = pending /\ Sound(Gpu)
    BY DEF Gpu, DataInv
  <2>4. Gpu.streams[s] # <<>>
    BY <1>4, <2>3 DEF StreamStep
  <2>5. Kept(Gpu, [memory |-> RunOp(Gpu.memory, Head(Gpu.streams[s])),
                   streams |-> [Gpu.streams EXCEPT ![s] = Tail(@)]], {})
    BY <2>3, <2>4, OldestRuns
  <2>6. Kept(Gpu, h, {})
    BY <2>1, <2>3, <2>5
  <2>7. \A k \in Launches \ {} : launch'[k] = launch[k]
    BY <1>4
  <2> QED
    BY <2>2, <2>6, <2>7, DataStep
<1>5. CASE UNCHANGED vars
  BY <1>1, <1>5 DEF vars
<1> QED
  BY <1>2, <1>3, <1>4, <1>5 DEF Next

\* The invariant of the buffers holds together with that of the launches.
LEMMA DataInvariant == Spec => []DataInv
<1>1. Init => DataInv
  BY InitData
<1>2. LaunchInv /\ DataInv /\ [Next]_vars => DataInv'
  BY NextData
<1> QED
  BY <1>1, <1>2, Invariant, PTL DEF Spec

----------------------------------------------------------------------------
(* The theorems about the buffers.                                          *)

\* A run copied back from the device holds what its own kernel wrote after its header
\* was in place, on every driver and stream, whatever the launches of other threads have
\* queued on the same streams.
THEOREM ExportsAreComplete == Spec => []ExportsComplete
<1>1. DataInv => ExportsComplete
  BY DEF DataInv, Fits, ExportsComplete
<1> QED
  BY <1>1, DataInvariant, PTL

\* Whatever path a launch takes out of its context, its buffers are freed and its
\* adapter is gone.
THEOREM BuffersAreFreed == Spec => []NothingLeaks
<1>1. LaunchInv /\ DataInv => NothingLeaks
  <2> SUFFICES ASSUME LaunchInv, DataInv, NEW l \in Launches,
                      launch[l].pc \in {"deliver", "done"}
               PROVE  memory[l] = NoBuffer /\ adapter[l] = NoAdapter
    BY DEF NothingLeaks
  <2>1. Fits(l, launch[l], Gpu, driver, library)
    BY DEF DataInv
  <2>2. memory[l] = NoBuffer
    BY <2>1 DEF Fits, Holding, Gpu
  <2>3. adapter[l] = NoAdapter
    BY DEF LaunchInv, AdaptersOK
  <2> QED
    BY <2>2, <2>3
<1> QED
  BY <1>1, Invariant, DataInvariant, PTL
=============================================================================
