--------------------------- MODULE GpuCollectorProofs ---------------------------
(* Proofs about the CUPTI collector, for any number of threads, data, launches, *)
(* graph nodes and retries: types, what a new session takes, what the           *)
(* correlation map counts, which data get a kernel and under which op.          *)
EXTENDS GpuCollector, TLAPS, FiniteSetTheorems, SequenceTheorems

HookRecords == [scope : Scopes \cup {Absent}, seen : BOOLEAN, launched : BOOLEAN]
SessionRecords ==
  [do : {"none", "attach", "detach"}, data : DataObjects \cup {Absent},
   pc : {"none", "first", "wait", "forced", "commit"}, goal : 0 .. MaxCalls,
   retries : 0 .. MaxRetries, returned : SUBSET CorrIds]
GraphRecords ==
  [nodes : 0 .. MaxNodes \cup {Absent}, kernels : 1 .. MaxNodes \cup {Absent},
   instances : Nat \cup {Absent}, execKnown : BOOLEAN, unseen : BOOLEAN]
WorkerRecords ==
  [busy : BOOLEAN, data : SUBSET DataObjects, buffer : SUBSET Records, max : 0 .. MaxCalls]

\* A thread's queue holds the scope of the op in progress and nothing else.
QueueOK ==
  \A t \in Threads : /\ opInProgress[t] => Len(externIdQueue[t]) = 1
                     /\ ~opInProgress[t] => Len(externIdQueue[t]) = 0

\* Scope ids are given out by ops and calls, one each at most.
ScopesLeft == nextScope <= 1 + ops + calls

Types == TypeOK /\ QueueOK /\ ScopesLeft

----------------------------------------------------------------------------
(* Types.                                                                   *)

\* A call is a launch id of the collector when it is not absent.
LEMMA IdsAreNumbers == /\ MaxCalls \in Nat /\ MaxOps \in Nat /\ MaxNodes \in Nat
                       /\ MaxRetries \in Nat /\ MaxScopes \in Nat
                       /\ Absent \notin Nat /\ Absent \notin CorrIds /\ Absent \notin Scopes
  BY CollectorAssumptions DEF CorrIds, Scopes, MaxScopes

\* The initial state is typed.
LEMMA InitTypes == Init => Types
<1> SUFFICES ASSUME Init PROVE Types
  OBVIOUS
<1> USE IdsAreNumbers DEF Init
<1>1. nextScope \in 1 .. MaxScopes + 1 /\ hook \in [Threads -> HookRecords]
  BY DEF NoHook, HookRecords
<1>2. /\ call \in [Threads -> CorrIds \cup {Absent}] /\ opInProgress \in [Threads -> BOOLEAN]
      /\ externIdQueue \in [Threads -> Seq(Scopes)]
      /\ corrIdToExternId \in [CorrIds -> Entries \cup {Absent}]
  OBVIOUS
<1>3. graph \in GraphRecords
  BY DEF NoGraph, GraphRecords
<1>4. worker \in WorkerRecords
  BY DEF NoWorker, WorkerRecords
<1>5. session \in SessionRecords
  BY DEF NoSession, SessionRecords
<1>6. attaches \in 0 .. MaxAttach /\ raises \in 0 .. MaxRaises
  BY CollectorAssumptions
<1>7. /\ scopeMap \in [DataObjects -> SUBSET Scopes]
      /\ metrics \in [DataObjects -> SUBSET Metrics]
  OBVIOUS
<1>8. /\ launch \in [CorrIds -> LaunchInfos \cup {Absent}] /\ lost \in [Threads -> BOOLEAN]
      /\ since \in [DataObjects -> SUBSET CorrIds]
      /\ ops \in 0 .. MaxOps /\ calls \in 0 .. MaxCalls
  OBVIOUS
<1>9. TypeOK
  <2>1. apiExternIds \subseteq Scopes /\ dataSet \subseteq DataObjects
    OBVIOUS
  <2>2. maxSubmitted \in 0 .. MaxCalls /\ maxCompleted \in 0 .. MaxCalls
    OBVIOUS
  <2>3. subscribed \in BOOLEAN /\ crashed \in BOOLEAN
    OBVIOUS
  <2>4. running \subseteq Records /\ forced \subseteq Records
    OBVIOUS
  <2>5. incomplete \subseteq Records /\ delivered \subseteq Records
    OBVIOUS
  <2> HIDE DEF Init
  <2> QED
    BY <1>1, <1>2, <1>3, <1>4, <1>5, <1>6, <1>7, <1>8, <2>1, <2>2, <2>3, <2>4, <2>5
    DEF TypeOK, HookRecords, GraphRecords, WorkerRecords, SessionRecords
<1>10. QueueOK /\ ScopesLeft
  BY DEF QueueOK, ScopesLeft
<1> QED
  BY <1>9, <1>10 DEF Types

\* The threads' share of the types.
LEMMA ThreadTypes ==
  ASSUME Types
  PROVE  /\ opInProgress \in [Threads -> BOOLEAN]
         /\ externIdQueue \in [Threads -> Seq(Scopes)]
         /\ hook \in [Threads -> HookRecords] /\ call \in [Threads -> CorrIds \cup {Absent}]
         /\ lost \in [Threads -> BOOLEAN]
<1>1. TypeOK
  BY DEF Types
<1> QED
  BY <1>1 DEF TypeOK, HookRecords

\* Opening an op that is not nested.
LEMMA StartOpTypes ==
  ASSUME Types, NEW t \in Threads, NEW s \in Scopes, StartsOp(t), StartOp(t, s)
  PROVE  /\ opInProgress' \in [Threads -> BOOLEAN]
         /\ externIdQueue' \in [Threads -> Seq(Scopes)] /\ QueueOK'
         /\ externIdQueue'[t] = <<s>> /\ opInProgress'[t]
         /\ \A u \in Threads \ {t} : /\ externIdQueue'[u] = externIdQueue[u]
                                     /\ opInProgress'[u] = opInProgress[u]
<1> DEFINE q == externIdQueue[t]
<1>0. /\ opInProgress \in [Threads -> BOOLEAN]
      /\ externIdQueue \in [Threads -> Seq(Scopes)]
  BY ThreadTypes
<1>1. q \in Seq(Scopes) /\ Len(q) = 0 /\ q = <<>>
  <2>1. QueueOK
    BY DEF Types
  <2> QED
    BY <1>0, <2>1, EmptySeq DEF QueueOK, StartsOp
<1>2. Append(q, s) = <<s>>
  BY <1>1
<1>3. /\ opInProgress' = [opInProgress EXCEPT ![t] = TRUE]
      /\ externIdQueue' = [externIdQueue EXCEPT ![t] = <<s>>]
  BY <1>2 DEF StartOp
<1>4. <<s>> \in Seq(Scopes) /\ Len(<<s>>) = 1
  OBVIOUS
<1>5. /\ opInProgress' \in [Threads -> BOOLEAN]
      /\ externIdQueue' \in [Threads -> Seq(Scopes)]
      /\ externIdQueue'[t] = <<s>> /\ opInProgress'[t]
      /\ \A u \in Threads \ {t} : /\ externIdQueue'[u] = externIdQueue[u]
                                  /\ opInProgress'[u] = opInProgress[u]
  BY <1>0, <1>1, <1>3, <1>4
<1>6. QueueOK'
  BY <1>4, <1>5 DEF Types, QueueOK
<1> QED
  BY <1>5, <1>6

\* The tail of a sequence of one.
LEMMA TailOfOne ==
  ASSUME NEW S, NEW q \in Seq(S), Len(q) = 1
  PROVE  Tail(q) \in Seq(S) /\ Len(Tail(q)) = 0 /\ Tail(q) = <<>>
<1>1. q # <<>>
  OBVIOUS
<1>2. Tail(q) \in Seq(S) /\ Len(Tail(q)) = Len(q) - 1
  BY <1>1
<1>3. Len(Tail(q)) = 0
  BY <1>2
<1>4. Tail(q) = <<>>
  BY <1>2, <1>3, EmptySeq
<1> QED
  BY <1>2, <1>3, <1>4

\* Closing an op, or finding none.
LEMMA EndOpTypes ==
  ASSUME Types, NEW t \in Threads, EndOp(t)
  PROVE  /\ opInProgress' \in [Threads -> BOOLEAN]
         /\ externIdQueue' \in [Threads -> Seq(Scopes)] /\ QueueOK'
         /\ externIdQueue'[t] = <<>> /\ ~opInProgress'[t]
         /\ \A u \in Threads \ {t} : /\ externIdQueue'[u] = externIdQueue[u]
                                     /\ opInProgress'[u] = opInProgress[u]
<1> DEFINE q == externIdQueue[t]
<1>0. /\ opInProgress \in [Threads -> BOOLEAN]
      /\ externIdQueue \in [Threads -> Seq(Scopes)]
  BY ThreadTypes
<1>1. /\ q \in Seq(Scopes)
      /\ opInProgress[t] => Len(q) = 1
      /\ ~opInProgress[t] => Len(q) = 0
  <2>1. QueueOK
    BY DEF Types
  <2> QED
    BY <1>0, <2>1 DEF QueueOK
<1>2. CASE opInProgress[t]
  <2>1. Tail(q) \in Seq(Scopes) /\ Len(Tail(q)) = 0 /\ Tail(q) = <<>>
    <3>1. q \in Seq(Scopes) /\ Len(q) = 1
      BY <1>1, <1>2
    <3> HIDE DEF q
    <3> QED
      BY <3>1, TailOfOne
  <2>2. /\ opInProgress' = [opInProgress EXCEPT ![t] = FALSE]
        /\ externIdQueue' = [externIdQueue EXCEPT ![t] = <<>>]
    BY <1>2, <2>1 DEF EndOp
  <2>3. /\ opInProgress' \in [Threads -> BOOLEAN]
        /\ externIdQueue' \in [Threads -> Seq(Scopes)]
        /\ externIdQueue'[t] = <<>> /\ ~opInProgress'[t]
        /\ \A u \in Threads \ {t} : /\ externIdQueue'[u] = externIdQueue[u]
                                    /\ opInProgress'[u] = opInProgress[u]
    BY <1>0, <1>1, <2>1, <2>2
  <2>4. QueueOK'
    BY <2>1, <2>3 DEF Types, QueueOK
  <2> QED
    BY <2>3, <2>4
<1>3. CASE ~opInProgress[t]
  <2>1. q = <<>>
    BY <1>1, <1>3, EmptySeq
  <2>2. opInProgress' = opInProgress /\ externIdQueue' = externIdQueue
    BY <1>3 DEF EndOp
  <2>3. QueueOK'
    BY <2>2 DEF Types, QueueOK
  <2> QED
    BY <1>0, <1>1, <1>3, <2>1, <2>2, <2>3
<1> QED
  BY <1>2, <1>3

\* A new scope is known to every data that collects.
LEMMA AddScopeTypes ==
  ASSUME scopeMap \in [DataObjects -> SUBSET Scopes], NEW D, NEW s \in Scopes
  PROVE  AddScope(D, s) \in [DataObjects -> SUBSET Scopes]
  BY DEF AddScope

\* There are scope ids left for every op and call within the bounds.
LEMMA NextScopeIsScope ==
  ASSUME Types, ops < MaxOps \/ calls < MaxCalls
  PROVE  nextScope \in Scopes /\ nextScope + 1 \in 1 .. MaxScopes + 1 /\ nextScope \in Nat
<1>1. nextScope \in 1 .. MaxScopes + 1 /\ ops \in 0 .. MaxOps /\ calls \in 0 .. MaxCalls
  BY DEF Types, TypeOK
<1>2. nextScope <= 1 + ops + calls
  BY DEF Types, ScopesLeft
<1> QED
  BY <1>1, <1>2, IdsAreNumbers DEF Scopes, MaxScopes

\* The launch hook's enter keeps the types.
LEMMA EnterOpTypes ==
  ASSUME Types, NEW t \in Threads, EnterOp(t)
  PROVE  Types'
<1>1. TypeOK
  BY DEF Types
<1>2. /\ ops < MaxOps /\ ops' = ops + 1 /\ nextScope' = nextScope + 1
      /\ hook' = [hook EXCEPT ![t] = [scope |-> nextScope, seen |-> dataSet # {},
                                      launched |-> FALSE]]
      /\ scopeMap' = AddScope(dataSet, nextScope)
  BY DEF EnterOp
<1>3. UNCHANGED <<call, corrVars, graph, subscribed, dataSet, metrics,
                  vendorEvents, cuptiVars, session, crashed, launch, lost, since,
                  delivered, attaches, raises, calls>>
  BY DEF EnterOp
<1>4. nextScope \in Scopes /\ nextScope' \in 1 .. MaxScopes + 1 /\ nextScope \in Nat
  BY <1>2, NextScopeIsScope
<1>5. ops' \in 0 .. MaxOps
  BY <1>1, <1>2, IdsAreNumbers DEF TypeOK
<1>6. hook' \in [Threads -> HookRecords]
  <2> DEFINE seen == dataSet # {}
  <2>1. seen \in BOOLEAN
    OBVIOUS
  <2>2. hook' = [hook EXCEPT ![t] = [scope |-> nextScope, seen |-> seen, launched |-> FALSE]]
    BY <1>2
  <2> HIDE DEF seen
  <2>3. [scope |-> nextScope, seen |-> seen, launched |-> FALSE] \in HookRecords
    BY <1>4, <2>1 DEF HookRecords
  <2> QED
    BY <2>2, <2>3, ThreadTypes
<1>7. scopeMap' \in [DataObjects -> SUBSET Scopes]
  BY <1>1, <1>2, <1>4, AddScopeTypes DEF TypeOK
<1>8. /\ opInProgress' \in [Threads -> BOOLEAN]
      /\ externIdQueue' \in [Threads -> Seq(Scopes)] /\ QueueOK'
  <2>1. CASE dataSet # {} /\ StartsOp(t)
    <3>1. StartOp(t, nextScope)
      BY <2>1 DEF EnterOp
    <3> QED
      BY <1>4, <2>1, <3>1, StartOpTypes
  <2>2. CASE ~(dataSet # {} /\ StartsOp(t))
    <3>1. UNCHANGED <<opInProgress, externIdQueue>>
      BY <2>2 DEF EnterOp
    <3>2. QueueOK'
      BY <3>1 DEF Types, QueueOK
    <3> QED
      BY <3>1, <3>2, ThreadTypes
  <2> QED
    BY <2>1, <2>2
<1>9. TypeOK'
  BY <1>1, <1>3, <1>4, <1>5, <1>6, <1>7, <1>8
  DEF TypeOK, HookRecords, corrVars, cuptiVars
<1>10. ScopesLeft'
  BY <1>1, <1>2, <1>3, IdsAreNumbers DEF Types, TypeOK, ScopesLeft
<1> QED
  BY <1>8, <1>9, <1>10 DEF Types

\* The launch hook's exit keeps the types.
LEMMA ExitOpTypes ==
  ASSUME Types, NEW t \in Threads, ExitOp(t)
  PROVE  Types'
<1>1. TypeOK
  BY DEF Types
<1>2. hook' = [hook EXCEPT ![t] = NoHook]
  BY DEF ExitOp
<1>3. UNCHANGED <<nextScope, call, corrVars, graph, subscribed, dataVars,
                  cuptiVars, session, crashed, launch, since, delivered, attaches, ops,
                  raises, calls>>
  BY DEF ExitOp
<1>4. hook' \in [Threads -> HookRecords]
  BY <1>2, ThreadTypes DEF NoHook, HookRecords
<1>5. /\ opInProgress' \in [Threads -> BOOLEAN]
      /\ externIdQueue' \in [Threads -> Seq(Scopes)] /\ QueueOK'
      /\ lost' \in [Threads -> BOOLEAN]
  <2>1. CASE dataSet # {}
    <3>1. EndOp(t) /\ lost' = [lost EXCEPT ![t] = FALSE]
      BY <2>1 DEF ExitOp
    <3> QED
      BY <3>1, EndOpTypes, ThreadTypes
  <2>2. CASE dataSet = {}
    <3> DEFINE gone == lost[t] \/ (hook[t].seen /\ ~hook[t].launched)
    <3>1. UNCHANGED <<opInProgress, externIdQueue>> /\ lost' = [lost EXCEPT ![t] = gone]
      BY <2>2 DEF ExitOp
    <3>2. gone \in BOOLEAN
      OBVIOUS
    <3>3. QueueOK'
      BY <3>1 DEF Types, QueueOK
    <3> HIDE DEF gone
    <3> QED
      BY <3>1, <3>2, <3>3, ThreadTypes
  <2> QED
    BY <2>1, <2>2
<1>6. TypeOK'
  BY <1>1, <1>3, <1>4, <1>5 DEF TypeOK, HookRecords, corrVars, cuptiVars, dataVars
<1>7. ScopesLeft'
  BY <1>3 DEF Types, ScopesLeft
<1> QED
  BY <1>5, <1>6, <1>7 DEF Types

\* A launch that raises keeps the types.
LEMMA LaunchRaisesTypes ==
  ASSUME Types, NEW t \in Threads, LaunchRaises(t)
  PROVE  Types'
<1>1. TypeOK
  BY DEF Types
<1> DEFINE gone == lost[t] \/ hook[t].seen
<1>2. /\ raises < MaxRaises /\ raises' = raises + 1
      /\ hook' = [hook EXCEPT ![t] = NoHook] /\ lost' = [lost EXCEPT ![t] = gone]
      /\ UNCHANGED <<nextScope, call, opInProgress, externIdQueue, corrVars, graph,
                     subscribed, dataVars, cuptiVars, session, crashed, launch,
                     since, delivered, attaches, ops, calls>>
  BY DEF LaunchRaises
<1>3. gone \in BOOLEAN
  OBVIOUS
<1> HIDE DEF gone
<1>4. hook' \in [Threads -> HookRecords] /\ lost' \in [Threads -> BOOLEAN]
  BY <1>2, <1>3, ThreadTypes DEF NoHook, HookRecords
<1>5. raises' \in 0 .. MaxRaises
  <2>1. raises \in 0 .. MaxRaises
    BY <1>1 DEF TypeOK
  <2>2. raises < MaxRaises /\ raises' = raises + 1 /\ MaxRaises \in Nat
    BY <1>2, CollectorAssumptions
  <2> HIDE <1>1, <1>2
  <2> QED
    BY <2>1, <2>2
<1>6. TypeOK'
  BY <1>1, <1>2, <1>4, <1>5 DEF TypeOK, HookRecords, corrVars, cuptiVars, dataVars
<1>7. QueueOK' /\ ScopesLeft'
  BY <1>2 DEF Types, QueueOK, ScopesLeft
<1> QED
  BY <1>6, <1>7 DEF Types

\* What a subscribed launch does: it is correlated with the one scope of its thread's
\* queue, which is new unless an op was in progress.
Opened(t) == IF StartsOp(t) THEN nextScope ELSE externIdQueue[t][1]
Info(t, isGraph, kernels) ==
  [op |-> IF hook[t].seen THEN hook[t].scope ELSE Absent,
   graph |-> isGraph, kernels |-> kernels,
   partly |-> isGraph /\ graph.unseen /\ GraphInstances # ManyInstances,
   lost |-> lost[t],
   sinks |-> {d \in dataSet : Opened(t) \in scopeMap'[d]}]
Entry(t, isGraph) ==
  [extern |-> Opened(t), left |-> IF isGraph THEN GraphInstances ELSE 1]

\* What a launch that CUPTI reports changes.
LEMMA CallEnterSubscribed ==
  ASSUME Types, NEW t \in Threads, NEW isGraph \in BOOLEAN, NEW kernels \in 0 .. (1 + MaxNodes),
         CallEnter(t, isGraph, kernels), subscribed
  PROVE  /\ Opened(t) \in Scopes /\ externIdQueue'[t] = <<Opened(t)>> /\ opInProgress'[t]
         /\ opInProgress' \in [Threads -> BOOLEAN]
         /\ externIdQueue' \in [Threads -> Seq(Scopes)] /\ QueueOK'
         /\ \A u \in Threads \ {t} : externIdQueue'[u] = externIdQueue[u]
         /\ corrIdToExternId' = [corrIdToExternId EXCEPT ![calls + 1] = Entry(t, isGraph)]
         /\ running' = running \cup {[corr |-> calls + 1, kernel |-> k] : k \in 1 .. kernels}
         /\ launch' = [launch EXCEPT ![calls + 1] = Info(t, isGraph, kernels)]
         /\ StartsOp(t) => /\ nextScope' = nextScope + 1
                           /\ scopeMap' = AddScope(dataSet, nextScope)
                           /\ apiExternIds' = apiExternIds \cup {nextScope}
         /\ ~StartsOp(t) => UNCHANGED <<nextScope, opInProgress, externIdQueue,
                                        scopeMap, apiExternIds>>
<1> DEFINE q == IF StartsOp(t) THEN Append(externIdQueue[t], nextScope) ELSE externIdQueue[t]
           o == Opened(t)
<1>1. nextScope \in Scopes
  <2>1. calls < MaxCalls
    BY DEF CallEnter
  <2> QED
    BY <2>1, NextScopeIsScope
<1>2. externIdQueue[t] \in Seq(Scopes)
  BY ThreadTypes
<1>3. o \in Scopes /\ q = <<o>> /\ Len(q) = 1 /\ q[Len(q)] = o /\ q # <<>>
  <2>1. CASE StartsOp(t)
    <3>1. Len(externIdQueue[t]) = 0
      BY <2>1 DEF Types, QueueOK, StartsOp
    <3>2. externIdQueue[t] = <<>>
      BY <1>2, <3>1, EmptySeq
    <3> QED
      BY <1>1, <2>1, <3>2 DEF Opened
  <2>2. CASE ~StartsOp(t)
    <3>1. Len(externIdQueue[t]) = 1
      BY <2>2 DEF Types, QueueOK, StartsOp
    <3>2. externIdQueue[t][1] \in Scopes /\ externIdQueue[t] = <<externIdQueue[t][1]>>
      BY <1>2, <3>1
    <3> QED
      BY <2>2, <3>1, <3>2 DEF Opened
  <2> QED
    BY <2>1, <2>2
<1>4. /\ StartsOp(t) => /\ StartOp(t, nextScope) /\ nextScope' = nextScope + 1
                        /\ scopeMap' = AddScope(dataSet, nextScope)
                        /\ apiExternIds' = apiExternIds \cup {nextScope}
      /\ ~StartsOp(t) => UNCHANGED <<nextScope, opInProgress, externIdQueue,
                                     scopeMap, apiExternIds>>
  BY DEF CallEnter
<1>5. /\ Correlate(calls + 1, q, IF isGraph THEN GraphInstances ELSE 1)
      /\ running' = running \cup {[corr |-> calls + 1, kernel |-> k] : k \in 1 .. kernels}
  BY DEF CallEnter
<1>6. launch' = [launch EXCEPT ![calls + 1] =
        [op |-> IF hook[t].seen THEN hook[t].scope ELSE Absent,
         graph |-> isGraph, kernels |-> kernels,
         partly |-> isGraph /\ graph.unseen /\ GraphInstances # ManyInstances,
         lost |-> lost[t],
         sinks |-> {d \in dataSet : q[Len(q)] \in scopeMap'[d]}]]
  BY DEF CallEnter
<1> HIDE DEF q, o
<1>7. launch' = [launch EXCEPT ![calls + 1] = Info(t, isGraph, kernels)]
  BY <1>3, <1>6 DEF Info, o
<1>8. corrIdToExternId' = [corrIdToExternId EXCEPT ![calls + 1] = Entry(t, isGraph)]
  BY <1>3, <1>5 DEF Correlate, Entry, o
<1>9. CASE StartsOp(t)
  <2>1. /\ opInProgress' \in [Threads -> BOOLEAN]
        /\ externIdQueue' \in [Threads -> Seq(Scopes)] /\ QueueOK'
        /\ externIdQueue'[t] = <<nextScope>> /\ opInProgress'[t]
        /\ \A u \in Threads \ {t} : externIdQueue'[u] = externIdQueue[u]
    BY <1>1, <1>4, <1>9, StartOpTypes
  <2>2. Opened(t) = nextScope
    BY <1>9 DEF Opened
  <2> QED
    BY <1>3, <1>4, <1>5, <1>7, <1>8, <1>9, <2>1, <2>2 DEF o
<1>10. CASE ~StartsOp(t)
  <2>1. UNCHANGED <<opInProgress, externIdQueue>>
    BY <1>4, <1>10
  <2>2. externIdQueue'[t] = <<Opened(t)>>
    BY <1>3, <1>10, <2>1 DEF o, q
  <2>3. QueueOK'
    BY <2>1 DEF Types, QueueOK
  <2>4. opInProgress'[t]
    BY <1>10, <2>1 DEF StartsOp
  <2> QED
    BY <1>3, <1>4, <1>5, <1>7, <1>8, <1>10, <2>1, <2>2, <2>3, <2>4, ThreadTypes DEF o
<1> QED
  BY <1>9, <1>10

\* What is known of a graph is typed.
LEMMA InstancesTypes ==
  ASSUME Types
  PROVE  GraphInstances \in Nat /\ graph \in GraphRecords
<1>1. graph \in GraphRecords
  BY DEF Types, TypeOK, GraphRecords
<1> QED
  BY <1>1, CollectorAssumptions DEF GraphInstances, GraphRecords

\* Records of a launch.
LEMMA LaunchedRecords ==
  ASSUME NEW c \in CorrIds, NEW kernels \in 0 .. (1 + MaxNodes)
  PROVE  {[corr |-> c, kernel |-> k] : k \in 1 .. kernels} \subseteq Records
  BY IdsAreNumbers DEF Records

\* A launch keeps the types, traced or not.
LEMMA CallEnterTypes ==
  ASSUME Types, NEW t \in Threads, NEW isGraph \in BOOLEAN, NEW kernels \in 0 .. (1 + MaxNodes),
         CallEnter(t, isGraph, kernels)
  PROVE  Types'
<1> DEFINE c == calls + 1
           inHook == hook[t] # NoHook
<1>1. TypeOK
  BY DEF Types
<1>2. /\ calls < MaxCalls /\ calls' = c /\ call' = [call EXCEPT ![t] = c]
      /\ hook' = [hook EXCEPT ![t].launched = inHook]
      /\ UNCHANGED <<maxSubmitted, maxCompleted, graph, subscribed, dataSet,
                     metrics, vendorEvents, forced, incomplete, worker, session,
                     crashed, lost, since, delivered, attaches, ops, raises>>
  BY DEF CallEnter
<1>3. c \in CorrIds /\ calls' \in 0 .. MaxCalls /\ call' \in [Threads -> CorrIds \cup {Absent}]
  <2>1. calls \in 0 .. MaxCalls /\ MaxCalls \in Nat
    BY <1>1, IdsAreNumbers DEF TypeOK
  <2>2. c \in CorrIds /\ c \in 0 .. MaxCalls
    BY <1>2, <2>1 DEF CorrIds
  <2> HIDE DEF c
  <2> QED
    BY <1>2, <2>2, ThreadTypes
<1>8. ops \in Nat /\ calls \in Nat /\ ops' = ops /\ calls' = calls + 1
  BY <1>1, <1>2, IdsAreNumbers DEF TypeOK
<1>4. hook' \in [Threads -> HookRecords]
  <2>1. inHook \in BOOLEAN
    OBVIOUS
  <2> HIDE DEF inHook
  <2>2. [hook[t] EXCEPT !.launched = inHook] \in HookRecords
    BY <2>1, ThreadTypes DEF HookRecords
  <2>3. hook' = [hook EXCEPT ![t] = [hook[t] EXCEPT !.launched = inHook]]
    BY <1>2
  <2> QED
    BY <2>2, <2>3, ThreadTypes
<1>5. /\ nextScope \in Nat /\ nextScope \in Scopes /\ nextScope + 1 \in 1 .. MaxScopes + 1
      /\ nextScope <= 1 + ops + calls
  BY <1>2, NextScopeIsScope DEF Types, ScopesLeft
<1> HIDE DEF c, inHook
<1>6. CASE subscribed
  <2>1. /\ Opened(t) \in Scopes /\ opInProgress' \in [Threads -> BOOLEAN]
        /\ externIdQueue' \in [Threads -> Seq(Scopes)] /\ QueueOK'
        /\ corrIdToExternId' = [corrIdToExternId EXCEPT ![c] = Entry(t, isGraph)]
        /\ running' = running \cup {[corr |-> c, kernel |-> k] : k \in 1 .. kernels}
        /\ launch' = [launch EXCEPT ![c] = Info(t, isGraph, kernels)]
    BY <1>6, CallEnterSubscribed DEF c
  <2>2. \/ /\ nextScope' = nextScope + 1 /\ scopeMap' = AddScope(dataSet, nextScope)
           /\ apiExternIds' = apiExternIds \cup {nextScope}
        \/ UNCHANGED <<nextScope, scopeMap, apiExternIds>>
    BY <1>6, CallEnterSubscribed
  <2>3. Entry(t, isGraph) \in Entries
    BY <2>1, InstancesTypes DEF Entry, Entries
  <2>4. Info(t, isGraph, kernels) \in LaunchInfos
    <3> DEFINE partly == isGraph /\ graph.unseen /\ GraphInstances # ManyInstances
               sinks == {d \in dataSet : Opened(t) \in scopeMap'[d]}
               op == IF hook[t].seen THEN hook[t].scope ELSE Absent
    <3>1. partly \in BOOLEAN /\ lost[t] \in BOOLEAN
      BY ThreadTypes
    <3>2. sinks \in SUBSET DataObjects
      BY <1>1 DEF TypeOK
    <3>3. op \in Scopes \cup {Absent}
      BY ThreadTypes DEF HookRecords
    <3>4. Info(t, isGraph, kernels) =
            [op |-> op, graph |-> isGraph, kernels |-> kernels, partly |-> partly,
             lost |-> lost[t], sinks |-> sinks]
      BY DEF Info
    <3> HIDE DEF op, partly, sinks
    <3> QED
      BY <3>1, <3>2, <3>3, <3>4 DEF LaunchInfos
  <2>5. /\ corrIdToExternId' \in [CorrIds -> Entries \cup {Absent}]
        /\ launch' \in [CorrIds -> LaunchInfos \cup {Absent}]
    BY <1>1, <1>3, <2>1, <2>3, <2>4 DEF TypeOK
  <2>6. running' \subseteq Records
    BY <1>1, <1>3, <2>1, LaunchedRecords DEF TypeOK
  <2>7. /\ nextScope' \in 1 .. MaxScopes + 1 /\ apiExternIds' \subseteq Scopes
        /\ scopeMap' \in [DataObjects -> SUBSET Scopes]
    <3>1. /\ nextScope \in 1 .. MaxScopes + 1 /\ apiExternIds \subseteq Scopes
          /\ scopeMap \in [DataObjects -> SUBSET Scopes]
      BY <1>1 DEF TypeOK
    <3>2. AddScope(dataSet, nextScope) \in [DataObjects -> SUBSET Scopes]
      BY <1>5, <3>1, AddScopeTypes
    <3> QED
      BY <1>5, <2>2, <3>1, <3>2
  <2>8. TypeOK'
    BY <1>1, <1>2, <1>3, <1>4, <2>1, <2>5, <2>6, <2>7 DEF TypeOK, HookRecords
  <2>9. ScopesLeft'
    BY <1>5, <1>8, <2>2 DEF ScopesLeft
  <2> QED
    BY <2>1, <2>8, <2>9 DEF Types
<1>7. CASE ~subscribed
  <2>1. UNCHANGED <<nextScope, opInProgress, externIdQueue, scopeMap,
                    apiExternIds, corrIdToExternId, running, launch>>
    BY <1>7 DEF CallEnter
  <2>2. TypeOK'
    BY <1>1, <1>2, <1>3, <1>4, <2>1 DEF TypeOK, HookRecords
  <2>3. QueueOK'
    BY <2>1 DEF Types, QueueOK
  <2>4. ScopesLeft'
    BY <1>5, <1>8, <2>1 DEF ScopesLeft
  <2> QED
    BY <2>2, <2>3, <2>4 DEF Types
<1> QED
  BY <1>6, <1>7

\* The end of a launch keeps the types.
LEMMA CallExitTypes ==
  ASSUME Types, NEW t \in Threads, CallExit(t)
  PROVE  Types'
<1>1. TypeOK
  BY DEF Types
<1>2. /\ call[t] # Absent /\ call' = [call EXCEPT ![t] = Absent]
      /\ UNCHANGED <<nextScope, hook, corrIdToExternId, apiExternIds, maxCompleted,
                     graph, subscribed, dataVars, cuptiVars, session, crashed,
                     launch, since, delivered, attaches, ops, raises, calls>>
  BY DEF CallExit
<1>3. call' \in [Threads -> CorrIds \cup {Absent}] /\ call[t] \in 0 .. MaxCalls
  BY <1>2, ThreadTypes, IdsAreNumbers DEF CorrIds
<1>4. CASE subscribed
  <2>1. /\ EndOp(t) /\ maxSubmitted' = Larger(maxSubmitted, call[t])
        /\ lost' = [lost EXCEPT ![t] = FALSE]
    BY <1>4 DEF CallExit
  <2>2. maxSubmitted' \in 0 .. MaxCalls
    BY <1>1, <1>3, <2>1 DEF TypeOK, Larger
  <2>3. /\ opInProgress' \in [Threads -> BOOLEAN]
        /\ externIdQueue' \in [Threads -> Seq(Scopes)] /\ QueueOK'
        /\ lost' \in [Threads -> BOOLEAN]
    BY <2>1, EndOpTypes, ThreadTypes
  <2>4. TypeOK'
    BY <1>1, <1>2, <1>3, <2>2, <2>3 DEF TypeOK, cuptiVars, dataVars
  <2>5. ScopesLeft'
    BY <1>2 DEF Types, ScopesLeft
  <2> QED
    BY <2>3, <2>4, <2>5 DEF Types
<1>5. CASE ~subscribed
  <2> DEFINE gone == lost[t] \/ hook[t].seen \/ launch[call[t]] # Absent
  <2>1. /\ UNCHANGED <<opInProgress, externIdQueue, maxSubmitted>>
        /\ lost' = [lost EXCEPT ![t] = gone]
    BY <1>5 DEF CallExit
  <2>2. gone \in BOOLEAN
    OBVIOUS
  <2> HIDE DEF gone
  <2>3. lost' \in [Threads -> BOOLEAN]
    BY <2>1, <2>2, ThreadTypes
  <2>4. TypeOK'
    BY <1>1, <1>2, <1>3, <2>1, <2>3 DEF TypeOK, cuptiVars, dataVars
  <2>5. QueueOK' /\ ScopesLeft'
    BY <1>2, <2>1 DEF Types, QueueOK, ScopesLeft
  <2> QED
    BY <2>4, <2>5 DEF Types
<1> QED
  BY <1>4, <1>5

\* The steps about the CUDA graph touch nothing else.
LEMMA GraphTypes ==
  ASSUME Types, Graph
  PROVE  Types'
<1>1. TypeOK /\ graph \in GraphRecords
  BY InstancesTypes DEF Types
<1>2. UNCHANGED graphOnly
  BY DEF Graph, GraphNodeCreated, GraphNodeDestroyed, GraphExecCreated, GraphDestroyed
<1>3. graph' \in GraphRecords
  <2>1. CASE GraphNodeCreated
    <3> DEFINE unseen == graph.unseen \/ ~subscribed
               instances == IF ~subscribed THEN graph.instances
                            ELSE IF graph.instances = Absent THEN 1 ELSE graph.instances + 1
    <3>1. /\ graph.nodes # Absent /\ graph.nodes < MaxNodes
          /\ graph' = [graph EXCEPT !.nodes = graph.nodes + 1, !.unseen = unseen,
                                    !.instances = instances]
      BY <2>1 DEF GraphNodeCreated
    <3>2. unseen \in BOOLEAN
      OBVIOUS
    <3>3. instances \in Nat \cup {Absent}
      BY <1>1 DEF GraphRecords
    <3>4. graph.nodes + 1 \in 0 .. MaxNodes
      BY <1>1, <3>1, IdsAreNumbers DEF GraphRecords
    <3> HIDE DEF unseen, instances
    <3> QED
      BY <1>1, <3>1, <3>2, <3>3, <3>4 DEF GraphRecords
  <2>2. CASE GraphNodeDestroyed
    <3> DEFINE instances == IF ~subscribed THEN graph.instances
                            ELSE IF graph.instances = Absent THEN ManyInstances
                            ELSE Less1(graph.instances)
    <3>1. /\ graph.nodes # Absent /\ graph.nodes > 0
          /\ graph' = [graph EXCEPT !.nodes = graph.nodes - 1, !.unseen = TRUE,
                                    !.instances = instances]
      BY <2>2 DEF GraphNodeDestroyed
    <3>2. instances \in Nat \cup {Absent}
      BY <1>1, CollectorAssumptions DEF GraphRecords, Less1
    <3>3. graph.nodes - 1 \in 0 .. MaxNodes
      BY <1>1, <3>1, IdsAreNumbers DEF GraphRecords
    <3> HIDE DEF instances
    <3> QED
      BY <1>1, <3>1, <3>2, <3>3 DEF GraphRecords
  <2>3. CASE GraphExecCreated
    <3>1. /\ graph.nodes # Absent /\ graph.nodes > 0 /\ subscribed \in BOOLEAN
          /\ graph' = [graph EXCEPT !.kernels = graph.nodes, !.execKnown = subscribed]
      BY <1>1, <2>3 DEF GraphExecCreated, TypeOK
    <3>2. graph.nodes \in 1 .. MaxNodes
      BY <1>1, <3>1, IdsAreNumbers DEF GraphRecords
    <3> QED
      BY <1>1, <3>1, <3>2 DEF GraphRecords
  <2>4. CASE GraphDestroyed
    <3>1. graph' = [graph EXCEPT !.nodes = Absent,
                      !.instances = IF subscribed THEN Absent ELSE graph.instances]
      BY <2>4 DEF GraphDestroyed
    <3> QED
      BY <1>1, <3>1 DEF GraphRecords
  <2> QED
    BY <2>1, <2>2, <2>3, <2>4 DEF Graph
<1>4. TypeOK'
  BY <1>1, <1>2, <1>3
  DEF TypeOK, graphOnly, threadVars, corrVars, dataVars, cuptiVars, history, GraphRecords
<1>5. QueueOK' /\ ScopesLeft'
  BY <1>2 DEF Types, QueueOK, ScopesLeft, graphOnly, threadVars, history
<1> QED
  BY <1>4, <1>5 DEF Types

\* The worker, the session and what they share are typed.
LEMMA WorkerType ==
  ASSUME Types
  PROVE  worker \in WorkerRecords /\ session \in SessionRecords
<1>1. TypeOK
  BY DEF Types
<1> QED
  BY <1>1 DEF TypeOK, WorkerRecords, SessionRecords

\* A completed buffer keeps the types.
LEMMA BufferCompletesTypes ==
  ASSUME Types, NEW B \in SUBSET (running \cup forced), BufferCompletes(B)
  PROVE  Types'
<1>1. TypeOK
  BY DEF Types
<1>2. /\ worker' = [busy |-> TRUE, data |-> dataSet, buffer |-> B, max |-> 0]
      /\ running' = running \ B /\ forced' = forced \ B
      /\ UNCHANGED <<nextScope, threadVars, corrVars, graph, subscribed, dataVars,
                     incomplete, session, crashed, history>>
  BY DEF BufferCompletes
<1>3. worker' \in WorkerRecords
  BY <1>1, <1>2, IdsAreNumbers DEF TypeOK, WorkerRecords
<1>4. TypeOK'
  BY <1>1, <1>2, <1>3 DEF TypeOK, threadVars, corrVars, dataVars, history, WorkerRecords
<1>5. QueueOK' /\ ScopesLeft'
  BY <1>2 DEF Types, QueueOK, ScopesLeft, threadVars, history
<1> QED
  BY <1>4, <1>5 DEF Types

\* What importing a record does when its launch is correlated, and when it is not.
LEMMA ImportSteps ==
  ASSUME Types, NEW r \in worker.buffer, ImportRecord(r)
  PROVE  /\ worker.busy
         /\ worker' = [worker EXCEPT !.buffer = worker.buffer \ {r},
                                     !.max = Larger(worker.max, r.corr)]
         /\ delivered' = delivered \cup {r}
         /\ UNCHANGED <<nextScope, threadVars, maxSubmitted, maxCompleted, graph,
                        subscribed, dataSet, running, forced, incomplete, session,
                        launch, lost, since, attaches, ops, raises, calls>>
         /\ corrIdToExternId[r.corr] = Absent =>
              UNCHANGED <<scopeMap, metrics, crashed, apiExternIds, corrIdToExternId>>
         /\ corrIdToExternId[r.corr] # Absent =>
              LET extern == corrIdToExternId[r.corr].extern IN
              /\ crashed' \in BOOLEAN
              /\ scopeMap' = IF IsChild(r, extern) THEN AddScope(worker.data, extern)
                             ELSE scopeMap
              /\ metrics' = [d \in DataObjects |->
                   IF r \notin incomplete /\ d \in Takers(r, extern)
                   THEN metrics[d] \cup {[rec |-> r, scope |-> extern,
                                          child |-> IsChild(r, extern)]}
                   ELSE metrics[d]]
              /\ apiExternIds' = apiExternIds \ {extern}
              /\ corrIdToExternId' = [corrIdToExternId EXCEPT ![r.corr] = Consumed(r.corr)]
<1>1. /\ worker.busy
      /\ worker' = [worker EXCEPT !.buffer = worker.buffer \ {r},
                                  !.max = Larger(worker.max, r.corr)]
      /\ delivered' = delivered \cup {r}
      /\ UNCHANGED <<nextScope, threadVars, maxSubmitted, maxCompleted, graph,
                     subscribed, dataSet, running, forced, incomplete, session,
                     launch, lost, since, attaches, ops, raises, calls>>
  BY DEF ImportRecord
<1>2. CASE corrIdToExternId[r.corr] = Absent
  <2>1. UNCHANGED <<scopeMap, metrics, crashed, apiExternIds, corrIdToExternId>>
    BY <1>2 DEF ImportRecord
  <2> QED
    BY <1>1, <1>2, <2>1
<1>3. CASE corrIdToExternId[r.corr] # Absent
  <2> DEFINE extern == corrIdToExternId[r.corr].extern
             whole == r \notin incomplete
  <2>1. /\ crashed' = (~whole /\ Takers(r, extern) # {})
        /\ scopeMap' = IF IsChild(r, extern) THEN AddScope(worker.data, extern) ELSE scopeMap
        /\ metrics' = [d \in DataObjects |->
             IF whole /\ d \in Takers(r, extern)
             THEN metrics[d] \cup {[rec |-> r, scope |-> extern, child |-> IsChild(r, extern)]}
             ELSE metrics[d]]
        /\ apiExternIds' = apiExternIds \ {extern}
        /\ corrIdToExternId' = [corrIdToExternId EXCEPT ![r.corr] = Consumed(r.corr)]
    BY <1>3 DEF ImportRecord
  <2>2. crashed' \in BOOLEAN
    BY <2>1
  <2> QED
    BY <1>1, <1>3, <2>1, <2>2
<1> QED
  BY <1>2, <1>3

\* The import of a record keeps the types.
LEMMA ImportTypes ==
  ASSUME Types, NEW r \in worker.buffer, ImportRecord(r)
  PROVE  Types'
<1> DEFINE e == corrIdToExternId[r.corr]
<1>1. TypeOK
  BY DEF Types
<1>2. r \in Records /\ r.corr \in CorrIds /\ r.corr \in 0 .. MaxCalls
  BY WorkerType, IdsAreNumbers DEF WorkerRecords, Records, CorrIds
<1>3. /\ worker' = [worker EXCEPT !.buffer = worker.buffer \ {r},
                                  !.max = Larger(worker.max, r.corr)]
      /\ delivered' = delivered \cup {r}
      /\ UNCHANGED <<nextScope, threadVars, maxSubmitted, maxCompleted, graph,
                     subscribed, dataSet, running, forced, incomplete, session,
                     launch, lost, since, attaches, ops, raises, calls>>
  BY ImportSteps
<1>4. worker' \in WorkerRecords
  <2>1. worker.max \in 0 .. MaxCalls /\ worker.buffer \ {r} \in SUBSET Records
    BY WorkerType DEF WorkerRecords
  <2>2. Larger(worker.max, r.corr) \in 0 .. MaxCalls
    BY <1>2, <2>1 DEF Larger
  <2> QED
    BY <1>3, <2>1, <2>2, WorkerType DEF WorkerRecords
<1>5. /\ scopeMap' \in [DataObjects -> SUBSET Scopes]
      /\ metrics' \in [DataObjects -> SUBSET Metrics]
      /\ crashed' \in BOOLEAN /\ apiExternIds' \subseteq Scopes
      /\ corrIdToExternId' \in [CorrIds -> Entries \cup {Absent}]
  <2>0. /\ scopeMap \in [DataObjects -> SUBSET Scopes]
        /\ metrics \in [DataObjects -> SUBSET Metrics]
        /\ crashed \in BOOLEAN /\ apiExternIds \subseteq Scopes
        /\ corrIdToExternId \in [CorrIds -> Entries \cup {Absent}]
    BY <1>1 DEF TypeOK
  <2>1. CASE e = Absent
    <3>1. UNCHANGED <<scopeMap, metrics, crashed, apiExternIds, corrIdToExternId>>
      BY <2>1, ImportSteps
    <3> QED
      BY <2>0, <3>1
  <2>2. CASE e # Absent
    <3> DEFINE x == e.extern
    <3>1. /\ crashed' \in BOOLEAN
          /\ scopeMap' = IF IsChild(r, x) THEN AddScope(worker.data, x) ELSE scopeMap
          /\ metrics' = [d \in DataObjects |->
               IF r \notin incomplete /\ d \in Takers(r, x)
               THEN metrics[d] \cup {[rec |-> r, scope |-> x, child |-> IsChild(r, x)]}
               ELSE metrics[d]]
          /\ apiExternIds' = apiExternIds \ {x}
          /\ corrIdToExternId' = [corrIdToExternId EXCEPT ![r.corr] = Consumed(r.corr)]
      BY <2>2, ImportSteps
    <3>2. e \in Entries /\ x \in Scopes /\ e.left \in Nat
      BY <1>2, <2>0, <2>2 DEF Entries
    <3>3. Consumed(r.corr) \in Entries \cup {Absent}
      <4>1. Less1(e.left) \in Nat
        BY <3>2, CollectorAssumptions DEF Less1
      <4> QED
        BY <3>2, <4>1 DEF Consumed, Entries
    <3> HIDE DEF x, e
    <3>4. [rec |-> r, scope |-> x, child |-> IsChild(r, x)] \in Metrics
      <4>1. IsChild(r, x) \in BOOLEAN
        BY DEF IsChild
      <4>2. ASSUME NEW b \in BOOLEAN PROVE [rec |-> r, scope |-> x, child |-> b] \in Metrics
        BY <1>2, <3>2 DEF Metrics
      <4> QED
        BY <4>1, <4>2
    <3>5. AddScope(worker.data, x) \in [DataObjects -> SUBSET Scopes]
      BY <2>0, <3>2, AddScopeTypes
    <3>6. metrics' \in [DataObjects -> SUBSET Metrics]
      BY <2>0, <3>1, <3>4
    <3>7. corrIdToExternId' \in [CorrIds -> Entries \cup {Absent}]
      BY <2>0, <3>1, <3>3
    <3> QED
      BY <2>0, <3>1, <3>5, <3>6, <3>7
  <2> QED
    BY <2>1, <2>2
<1>6. TypeOK'
  BY <1>1, <1>2, <1>3, <1>4, <1>5 DEF TypeOK, threadVars, WorkerRecords
<1>7. QueueOK' /\ ScopesLeft'
  BY <1>3 DEF Types, QueueOK, ScopesLeft, threadVars
<1> QED
  BY <1>6, <1>7 DEF Types

\* The end of a buffer keeps the types.
LEMMA BufferDoneTypes ==
  ASSUME Types, BufferDone
  PROVE  Types'
<1>1. TypeOK
  BY DEF Types
<1>2. /\ maxCompleted' = Larger(maxCompleted, worker.max) /\ worker' = NoWorker
      /\ UNCHANGED <<nextScope, threadVars, corrIdToExternId, apiExternIds,
                     maxSubmitted, graph, subscribed, dataVars, running, forced,
                     incomplete, session, crashed, history>>
  BY DEF BufferDone
<1>3. worker' \in WorkerRecords
  BY <1>2, IdsAreNumbers DEF WorkerRecords, NoWorker
<1>4. maxCompleted' \in 0 .. MaxCalls
  BY <1>1, <1>2, WorkerType DEF TypeOK, WorkerRecords, Larger
<1>5. TypeOK'
  BY <1>1, <1>2, <1>3, <1>4 DEF TypeOK, threadVars, dataVars, history, WorkerRecords
<1>6. QueueOK' /\ ScopesLeft'
  BY <1>2 DEF Types, QueueOK, ScopesLeft, threadVars, history
<1> QED
  BY <1>5, <1>6 DEF Types

\* A session call is about a data.
DataKnown == session.pc # "none" => session.data \in DataObjects

\* The steps of session calls; what they leave alone is in sessionOnly.
SessionStep ==
  \/ \E d \in DataObjects : Attach(d) \/ Detach(d)
  \/ FlushFirst \/ FlushRetry \/ FlushReturns
  \/ \E unfinished \in SUBSET running : FlushForced(unfinished)
  \/ Register \/ Unregister \/ Stop

\* The retries left of a session are a number within the bound.
LEMMA SessionSteps ==
  ASSUME Types, DataKnown, SessionStep
  PROVE  /\ UNCHANGED sessionOnly
         /\ session' \in SessionRecords /\ DataKnown'
         /\ attaches' \in 0 .. MaxAttach /\ subscribed' \in BOOLEAN
         /\ dataSet' \subseteq DataObjects /\ scopeMap' \in [DataObjects -> SUBSET Scopes]
         /\ running' \subseteq running /\ forced' \subseteq running \cup forced
         /\ incomplete' \subseteq incomplete \cup running
         /\ launch' \in [CorrIds -> LaunchInfos \cup {Absent}]
         /\ since' \in [DataObjects -> SUBSET CorrIds]
<1> DEFINE Goal == /\ UNCHANGED sessionOnly
                   /\ session' \in SessionRecords /\ DataKnown'
                   /\ attaches' \in 0 .. MaxAttach /\ subscribed' \in BOOLEAN
                   /\ dataSet' \subseteq DataObjects
                   /\ scopeMap' \in [DataObjects -> SUBSET Scopes]
                   /\ running' \subseteq running /\ forced' \subseteq running \cup forced
                   /\ incomplete' \subseteq incomplete \cup running
                   /\ launch' \in [CorrIds -> LaunchInfos \cup {Absent}]
                   /\ since' \in [DataObjects -> SUBSET CorrIds]
<1>1. /\ session \in SessionRecords /\ attaches \in 0 .. MaxAttach /\ subscribed \in BOOLEAN
      /\ dataSet \subseteq DataObjects /\ scopeMap \in [DataObjects -> SUBSET Scopes]
      /\ launch \in [CorrIds -> LaunchInfos \cup {Absent}]
      /\ since \in [DataObjects -> SUBSET CorrIds] /\ maxSubmitted \in 0 .. MaxCalls
  BY DEF Types, TypeOK, SessionRecords
<1>2. NoSession \in SessionRecords /\ NoSession.pc = "none"
  BY IdsAreNumbers DEF NoSession, SessionRecords
<1>3. ASSUME NEW do \in {"attach", "detach"}, NEW d \in DataObjects, BeginFlush(do, d)
      PROVE  session' \in SessionRecords /\ DataKnown'
  <2>1. session' = [do |-> do, data |-> d, pc |-> "first", goal |-> 0,
                    retries |-> MaxRetries, returned |-> {}]
    BY <1>3 DEF BeginFlush, NoSession
  <2>2. 0 \in 0 .. MaxCalls /\ MaxRetries \in 0 .. MaxRetries
    BY IdsAreNumbers
  <2>3. session' \in SessionRecords
    BY <2>1, <2>2 DEF SessionRecords
  <2> QED
    BY <2>1, <2>3 DEF DataKnown
<1>4. ASSUME NEW d \in DataObjects, Attach(d) PROVE Goal
  <2>1. /\ BeginFlush("attach", d) /\ subscribed' = TRUE
        /\ attaches < MaxAttach /\ attaches' = attaches + 1
        /\ UNCHANGED <<sessionOnly, dataSet, scopeMap, running, forced, incomplete,
                       launch, since>>
    BY <1>4 DEF Attach
  <2>2. attaches' \in 0 .. MaxAttach
    BY <1>1, <2>1, CollectorAssumptions
  <2> QED
    BY <1>1, <1>3, <2>1, <2>2
<1>5. ASSUME NEW d \in DataObjects, Detach(d) PROVE Goal
  <2>1. /\ BeginFlush("detach", d)
        /\ UNCHANGED <<sessionOnly, attaches, subscribed, dataSet, scopeMap, running,
                       forced, incomplete, launch, since>>
    BY <1>5 DEF Detach
  <2> QED
    BY <1>1, <1>3, <2>1
<1>6. CASE FlushFirst \/ FlushRetry \/ FlushReturns
  <2>1. UNCHANGED <<sessionOnly, attaches, subscribed, dataSet, scopeMap, running, forced,
                    incomplete, launch, since>>
    BY <1>6 DEF FlushFirst, FlushRetry, FlushReturns
  <2>2. session' \in SessionRecords /\ session'.data = session.data /\ session.pc # "none"
    <3>1. CASE FlushFirst
      BY <1>1, <3>1 DEF FlushFirst, SessionRecords
    <3>2. CASE FlushRetry
      BY <1>1, <3>2, IdsAreNumbers DEF FlushRetry, RetriesLeft, SessionRecords
    <3>3. CASE FlushReturns
      BY <1>1, <3>3 DEF FlushReturns, SessionRecords
    <3> QED
      BY <1>6, <3>1, <3>2, <3>3
  <2> QED
    BY <1>1, <2>1, <2>2 DEF DataKnown
<1>7. ASSUME NEW unfinished \in SUBSET running, FlushForced(unfinished) PROVE Goal
  <2> DEFINE back == {c \in CorrIds : /\ launch[c] # Absent
                                      /\ \A t \in Threads : call[t] # c}
  <2>1. /\ session.pc = "wait"
        /\ session' = [session EXCEPT !.pc = "forced", !.returned = back]
        /\ running' = running \ running /\ forced' = running
        /\ incomplete' = incomplete \cup (unfinished \cap running)
        /\ UNCHANGED <<sessionOnly, attaches, subscribed, dataSet, scopeMap, launch, since>>
    BY <1>7 DEF FlushForced, Taken
  <2>2. back \in SUBSET CorrIds
    OBVIOUS
  <2> HIDE DEF back
  <2>3. session' \in SessionRecords /\ session'.data = session.data
    BY <1>1, <2>1, <2>2 DEF SessionRecords
  <2> QED
    BY <1>1, <2>1, <2>3 DEF DataKnown
<1>8. CASE Register
  <2>1. /\ session.pc = "commit" /\ session' = NoSession
        /\ dataSet' = dataSet \cup {session.data}
        /\ since' = [since EXCEPT ![session.data] = session.returned]
        /\ UNCHANGED <<sessionOnly, attaches, subscribed, scopeMap, running, forced,
                       incomplete, launch>>
    BY <1>8 DEF Register
  <2>2. session.data \in DataObjects /\ session.returned \in SUBSET CorrIds
    BY <1>1, <2>1 DEF DataKnown, SessionRecords
  <2> QED
    BY <1>1, <1>2, <2>1, <2>2 DEF DataKnown
<1>9. CASE Unregister
  <2> DEFINE without(c) == [launch[c] EXCEPT !.sinks = launch[c].sinks \ {session.data}]
  <2>1. /\ session' = NoSession /\ dataSet' = dataSet \ {session.data}
        /\ scopeMap' = IF session.data \in KeepsScopes THEN scopeMap
                       ELSE [scopeMap EXCEPT ![session.data] = {}]
        /\ launch' = [c \in CorrIds |-> IF launch[c] = Absent THEN Absent ELSE without(c)]
        /\ UNCHANGED <<sessionOnly, attaches, subscribed, running, forced, incomplete, since>>
    BY <1>9 DEF Unregister
  <2>2. ASSUME NEW c \in CorrIds, launch[c] # Absent PROVE without(c) \in LaunchInfos
    BY <1>1, <2>2 DEF LaunchInfos
  <2> HIDE DEF without
  <2>3. launch' \in [CorrIds -> LaunchInfos \cup {Absent}]
    BY <2>1, <2>2
  <2>4. scopeMap' \in [DataObjects -> SUBSET Scopes]
    BY <1>1, <2>1
  <2> QED
    BY <1>1, <1>2, <2>1, <2>3, <2>4 DEF DataKnown
<1>10. CASE Stop
  <2>1. /\ subscribed' = FALSE /\ running' = {} /\ forced' = {}
        /\ UNCHANGED <<sessionOnly, attaches, dataSet, scopeMap, incomplete, session, launch,
                       since>>
    BY <1>10 DEF Stop
  <2> QED
    BY <1>1, <2>1 DEF DataKnown
<1>11. Goal
  BY <1>4, <1>5, <1>6, <1>7, <1>8, <1>9, <1>10 DEF SessionStep
<1> QED
  BY <1>11

\* A session call's steps keep the types.
LEMMA SessionTypes ==
  ASSUME Types, DataKnown, SessionStep
  PROVE  Types' /\ DataKnown'
<1>1. TypeOK
  BY DEF Types
<1>2. /\ UNCHANGED sessionOnly
      /\ session' \in SessionRecords /\ DataKnown'
      /\ attaches' \in 0 .. MaxAttach /\ subscribed' \in BOOLEAN
      /\ dataSet' \subseteq DataObjects /\ scopeMap' \in [DataObjects -> SUBSET Scopes]
      /\ running' \subseteq running /\ forced' \subseteq running \cup forced
      /\ incomplete' \subseteq incomplete \cup running
      /\ launch' \in [CorrIds -> LaunchInfos \cup {Absent}]
      /\ since' \in [DataObjects -> SUBSET CorrIds]
  BY SessionSteps
<1>3. running' \subseteq Records /\ forced' \subseteq Records /\ incomplete' \subseteq Records
  BY <1>1, <1>2 DEF TypeOK
<1>4. TypeOK'
  BY <1>1, <1>2, <1>3 DEF TypeOK, sessionOnly, threadVars, SessionRecords
<1>5. QueueOK' /\ ScopesLeft'
  BY <1>2 DEF Types, QueueOK, ScopesLeft, sessionOnly, threadVars
<1> QED
  BY <1>2, <1>4, <1>5 DEF Types

\* Every step is one of those above.
ThreadStep(t) ==
  \/ EnterOp(t) \/ ExitOp(t) \/ LaunchRaises(t) \/ CallExit(t)
  \/ \E isGraph \in BOOLEAN : \E kernels \in 0 .. (1 + MaxNodes) :
       CallEnter(t, isGraph, kernels)
AnyStep ==
  \/ \E t \in Threads : ThreadStep(t)
  \/ Graph
  \/ \E B \in SUBSET (running \cup forced) : BufferCompletes(B)
  \/ \E r \in worker.buffer : ImportRecord(r)
  \/ BufferDone
  \/ SessionStep

\* A step is one of these.
LEMMA StepKinds == Types /\ Next => AnyStep
<1> SUFFICES ASSUME Types, Next PROVE AnyStep
  OBVIOUS
<1>1. ASSUME NEW t \in Threads, LaunchKernel(t) PROVE ThreadStep(t)
  <2>1. 0 \in 0 .. (1 + MaxNodes) /\ 1 \in 0 .. (1 + MaxNodes)
    BY IdsAreNumbers
  <2> QED
    BY <1>1, <2>1 DEF LaunchKernel, ThreadStep
<1>2. ASSUME NEW t \in Threads, LaunchGraph(t) PROVE ThreadStep(t)
  <2>1. graph.kernels \in 0 .. (1 + MaxNodes)
    BY <1>2, InstancesTypes, IdsAreNumbers DEF LaunchGraph, GraphRecords
  <2> QED
    BY <1>2, <2>1 DEF LaunchGraph, ThreadStep
<1>3. ASSUME NEW t \in Threads, Thread(t) PROVE ThreadStep(t)
  BY <1>1, <1>2, <1>3 DEF Thread, ThreadStep
<1>4. Flush \/ Lifecycle => SessionStep
  BY DEF Flush, Lifecycle, SessionStep
<1> QED
  BY <1>3, <1>4 DEF Next, Worker, AnyStep

\* Every step keeps the types.
LEMMA NextTypes == Types /\ DataKnown /\ [Next]_vars => Types' /\ DataKnown'
<1> SUFFICES ASSUME Types, DataKnown, [Next]_vars PROVE Types' /\ DataKnown'
  OBVIOUS
<1>1. CASE UNCHANGED vars
  <2>1. TypeOK
    BY DEF Types
  <2>2. TypeOK'
    BY <1>1, <2>1 DEF TypeOK, vars, threadVars, corrVars, dataVars, cuptiVars, history
  <2>3. QueueOK' /\ ScopesLeft' /\ DataKnown'
    BY <1>1 DEF Types, QueueOK, ScopesLeft, DataKnown, vars, threadVars, history
  <2> QED
    BY <2>2, <2>3 DEF Types
<1>2. ASSUME NEW t \in Threads, ThreadStep(t) PROVE Types' /\ session' = session
  <2>1. Types'
    BY <1>2, EnterOpTypes, ExitOpTypes, LaunchRaisesTypes, CallExitTypes, CallEnterTypes
    DEF ThreadStep
  <2> QED
    BY <1>2, <2>1 DEF ThreadStep, EnterOp, ExitOp, LaunchRaises, CallExit, CallEnter
<1>3. CASE Graph
  <2>1. session' = session
    BY <1>3 DEF Graph, GraphNodeCreated, GraphNodeDestroyed, GraphExecCreated,
                GraphDestroyed, graphOnly
  <2> QED
    BY <1>3, <2>1, GraphTypes DEF DataKnown
<1>4. ASSUME NEW B \in SUBSET (running \cup forced), BufferCompletes(B)
      PROVE  Types' /\ DataKnown'
  BY <1>4, BufferCompletesTypes DEF BufferCompletes, DataKnown
<1>5. ASSUME NEW r \in worker.buffer, ImportRecord(r) PROVE Types' /\ DataKnown'
  BY <1>5, ImportTypes DEF ImportRecord, DataKnown
<1>6. CASE BufferDone
  BY <1>6, BufferDoneTypes DEF BufferDone, DataKnown
<1>7. CASE SessionStep
  BY <1>7, SessionTypes
<1>8. ASSUME NEW t \in Threads, ThreadStep(t) PROVE Types' /\ DataKnown'
  BY <1>2, <1>8 DEF DataKnown
<1> QED
  BY <1>1, <1>3, <1>4, <1>5, <1>6, <1>7, <1>8, StepKinds DEF AnyStep

\* The invariant of the types.
LEMMA TypesHold == Spec => [](Types /\ DataKnown)
<1>1. Init => Types /\ DataKnown
  BY InitTypes DEF Init, NoSession, DataKnown
<1> QED
  BY <1>1, NextTypes, PTL DEF Spec

\* The variables keep their types, for any number of everything: no queue is empty when
\* its head is taken, and the scope ids stay within what ops and calls use up.
THEOREM CollectorTypes == Spec => []TypeOK
<1>1. Types => TypeOK
  BY DEF Types
<1> QED
  BY <1>1, TypesHold, PTL

----------------------------------------------------------------------------
(* What a new session takes.                                                *)

\* The records CUPTI has, is handing over, or has handed over.
InFlight == running \cup forced \cup worker.buffer

\* Launches are numbered as they come.
Numbered ==
  /\ \A c \in CorrIds : launch[c] # Absent => c <= calls
  /\ \A r \in InFlight \cup delivered : r.corr <= calls
  /\ \A c \in session.returned : c <= calls
  /\ \A d \in DataObjects : \A c \in since[d] : c <= calls
IdleWorker == ~worker.busy => worker.buffer = {}

\* Once a forced flush has begun, no record of a call that had returned by then is left
\* with CUPTI; once it is over, none is on its way; and so it stays for good.
Fresh ==
  /\ session.pc = "forced" => \A r \in running : r.corr \notin session.returned
  /\ session.pc = "commit" => \A r \in InFlight : r.corr \notin session.returned
  /\ \A d \in DataObjects : \A r \in InFlight : r.corr \notin since[d]
FreshInv == Numbered /\ IdleWorker /\ Fresh

\* What FreshInv depends on.
LEMMA FreshFrame ==
  ASSUME FreshInv,
         UNCHANGED <<calls, launch, running, forced, worker, delivered, session, since>>
  PROVE  FreshInv'
  BY DEF FreshInv, Numbered, IdleWorker, Fresh, InFlight

\* A launch brings records with a number of their own.
LEMMA FreshLaunch ==
  ASSUME Types, FreshInv, NEW t \in Threads, NEW isGraph \in BOOLEAN,
         NEW kernels \in 0 .. (1 + MaxNodes), CallEnter(t, isGraph, kernels)
  PROVE  FreshInv'
<1>1. /\ calls < MaxCalls /\ calls' = calls + 1
      /\ UNCHANGED <<forced, worker, delivered, session, since>>
  BY DEF CallEnter
<1>2. /\ calls \in 0 .. MaxCalls /\ running \subseteq Records
      /\ InFlight \subseteq Records /\ delivered \subseteq Records
      /\ session \in SessionRecords /\ since \in [DataObjects -> SUBSET CorrIds]
      /\ launch \in [CorrIds -> LaunchInfos \cup {Absent}]
  BY WorkerType DEF Types, TypeOK, InFlight, WorkerRecords
<1>3. /\ \A r \in running' \ running : r.corr = calls + 1
      /\ \A c \in CorrIds : launch'[c] # Absent => launch[c] # Absent \/ c = calls + 1
  <2>1. CASE subscribed
    <3>1. /\ running' = running \cup {[corr |-> calls + 1, kernel |-> k] : k \in 1 .. kernels}
          /\ launch' = [launch EXCEPT ![calls + 1] = Info(t, isGraph, kernels)]
      BY <2>1, CallEnterSubscribed
    <3> QED
      BY <1>2, <3>1
  <2>2. CASE ~subscribed
    BY <2>2 DEF CallEnter
  <2> QED
    BY <2>1, <2>2
<1>4. /\ \A r \in InFlight \cup delivered : r.corr \in Nat
      /\ \A c \in session.returned : c \in Nat
      /\ \A d \in DataObjects : \A c \in since[d] : c \in Nat
      /\ \A c \in CorrIds : c \in Nat
  BY <1>2 DEF Records, CorrIds, SessionRecords
<1>5. \A r \in InFlight' : r \in InFlight \/ (r \in running' /\ r.corr = calls + 1)
  BY <1>1, <1>3 DEF InFlight
<1>6. Numbered'
  BY <1>1, <1>2, <1>3, <1>4, <1>5 DEF FreshInv, Numbered
<1>7. /\ \A c \in session.returned : c # calls + 1
      /\ \A d \in DataObjects : \A c \in since[d] : c # calls + 1
  BY <1>2, <1>4 DEF FreshInv, Numbered
<1>8. Fresh'
  BY <1>1, <1>3, <1>5, <1>7 DEF FreshInv, Fresh
<1> QED
  BY <1>1, <1>6, <1>8 DEF FreshInv, IdleWorker

\* An import only takes a record off its way.
LEMMA FreshImport ==
  ASSUME Types, FreshInv, NEW r \in worker.buffer, ImportRecord(r)
  PROVE  FreshInv'
<1>1. /\ worker' = [worker EXCEPT !.buffer = worker.buffer \ {r},
                                  !.max = Larger(worker.max, r.corr)]
      /\ worker.busy /\ delivered' = delivered \cup {r}
      /\ UNCHANGED <<running, forced, session, launch, since, calls>>
  BY ImportSteps
<1>2. worker'.buffer = worker.buffer \ {r} /\ worker'.busy = worker.busy
  BY <1>1, WorkerType DEF WorkerRecords
<1>3. InFlight' \subseteq InFlight /\ r \in InFlight
  BY <1>1, <1>2 DEF InFlight
<1> QED
  BY <1>1, <1>2, <1>3 DEF FreshInv, Numbered, IdleWorker, Fresh

\* A flush leaves nothing of the calls that had returned.
LEMMA FreshSession ==
  ASSUME Types, DataKnown, FreshInv, SessionStep
  PROVE  FreshInv'
<1>1. UNCHANGED <<calls, worker, delivered>>
  BY SessionSteps DEF sessionOnly
<1>2. /\ session \in SessionRecords /\ since \in [DataObjects -> SUBSET CorrIds]
      /\ launch \in [CorrIds -> LaunchInfos \cup {Absent}]
  BY WorkerType DEF Types, TypeOK
<1>3. IdleWorker'
  BY <1>1 DEF FreshInv, IdleWorker
<1>4. ASSUME NEW do, NEW d, BeginFlush(do, d), UNCHANGED <<running, forced, launch, since>>
      PROVE  FreshInv'
  <2>1. session'.pc = "first" /\ session'.returned = {}
    BY <1>4 DEF BeginFlush, NoSession
  <2> QED
    BY <1>1, <1>3, <1>4, <2>1 DEF FreshInv, Numbered, Fresh, InFlight
<1>5. CASE FlushFirst \/ FlushRetry
  <2>1. UNCHANGED <<running, forced, launch, since>>
    BY <1>5 DEF FlushFirst, FlushRetry
  <2>2. session'.pc = "wait" /\ session'.returned = session.returned
    BY <1>2, <1>5 DEF FlushFirst, FlushRetry, SessionRecords
  <2> QED
    BY <1>1, <1>3, <2>1, <2>2 DEF FreshInv, Numbered, Fresh, InFlight
<1>6. ASSUME NEW unfinished \in SUBSET running, FlushForced(unfinished) PROVE FreshInv'
  <2> DEFINE back == {c \in CorrIds : /\ launch[c] # Absent
                                      /\ \A t \in Threads : call[t] # c}
  <2>1. /\ session' = [session EXCEPT !.pc = "forced", !.returned = back]
        /\ running' = {} /\ forced' = running /\ UNCHANGED <<launch, since>>
    BY <1>6 DEF FlushForced, Taken
  <2>2. \A c \in back : c <= calls
    BY DEF FreshInv, Numbered
  <2> HIDE DEF back
  <2>3. session'.pc = "forced" /\ session'.returned = back
    BY <1>2, <2>1 DEF SessionRecords
  <2>4. InFlight' \subseteq InFlight
    BY <1>1, <2>1 DEF InFlight
  <2> QED
    BY <1>1, <1>3, <2>1, <2>2, <2>3, <2>4 DEF FreshInv, Numbered, Fresh
<1>7. CASE FlushReturns
  <2>1. /\ session.pc = "forced" /\ forced = {} /\ ~worker.busy
        /\ UNCHANGED <<running, forced, launch, since>>
    BY <1>7 DEF FlushReturns, FlushedAll
  <2>2. session'.pc = "commit" /\ session'.returned = session.returned
    BY <1>2, <1>7 DEF FlushReturns, SessionRecords
  <2>3. InFlight' = running /\ InFlight' = InFlight
    BY <1>1, <2>1 DEF FreshInv, IdleWorker, InFlight
  <2> QED
    BY <1>1, <1>3, <2>1, <2>2, <2>3 DEF FreshInv, Numbered, Fresh
<1>8. CASE Register
  <2>1. /\ session.pc = "commit" /\ session' = NoSession
        /\ since' = [since EXCEPT ![session.data] = session.returned]
        /\ UNCHANGED <<running, forced, launch>>
    BY <1>8 DEF Register
  <2>2. session'.pc = "none" /\ session'.returned = {}
    BY <2>1 DEF NoSession
  <2>3. \A d \in DataObjects : since'[d] \in {since[d], session.returned}
    BY <1>2, <2>1
  <2>4. InFlight' = InFlight
    BY <1>1, <2>1 DEF InFlight
  <2> QED
    BY <1>1, <1>3, <2>1, <2>2, <2>3, <2>4 DEF FreshInv, Numbered, Fresh
<1>9. CASE Unregister
  <2>1. /\ session' = NoSession /\ UNCHANGED <<running, forced, since>>
        /\ \A c \in CorrIds : launch'[c] # Absent => launch[c] # Absent
    BY <1>9 DEF Unregister
  <2>2. session'.pc = "none" /\ session'.returned = {}
    BY <2>1 DEF NoSession
  <2> QED
    BY <1>1, <1>3, <2>1, <2>2 DEF FreshInv, Numbered, Fresh, InFlight
<1>10. CASE Stop
  <2>1. running' = {} /\ forced' = {} /\ UNCHANGED <<session, launch, since>>
    BY <1>10 DEF Stop
  <2>2. InFlight' \subseteq InFlight
    BY <1>1, <2>1 DEF InFlight
  <2> QED
    BY <1>1, <1>3, <2>1, <2>2 DEF FreshInv, Numbered, Fresh
<1> QED
  BY <1>4, <1>5, <1>6, <1>7, <1>8, <1>9, <1>10 DEF SessionStep, Attach, Detach

\* Every step keeps FreshInv.
LEMMA FreshNext ==
  Types /\ DataKnown /\ FreshInv /\ [Next]_vars => FreshInv'
<1> SUFFICES ASSUME Types, DataKnown, FreshInv, [Next]_vars PROVE FreshInv'
  OBVIOUS
<1>1. CASE UNCHANGED vars
  BY <1>1, FreshFrame DEF vars, cuptiVars, history
<1>2. ASSUME NEW t \in Threads, ThreadStep(t) PROVE FreshInv'
  <2>1. CASE EnterOp(t) \/ ExitOp(t) \/ LaunchRaises(t) \/ CallExit(t)
    BY <2>1, FreshFrame DEF EnterOp, ExitOp, LaunchRaises, CallExit, cuptiVars
  <2> QED
    BY <1>2, <2>1, FreshLaunch DEF ThreadStep
<1>3. CASE Graph
  BY <1>3, FreshFrame DEF Graph, GraphNodeCreated, GraphNodeDestroyed, GraphExecCreated,
                          GraphDestroyed, graphOnly, cuptiVars, history
<1>4. ASSUME NEW B \in SUBSET (running \cup forced), BufferCompletes(B) PROVE FreshInv'
  <2>1. /\ ~worker.busy /\ worker'.buffer = B /\ worker'.busy
        /\ running' = running \ B /\ forced' = forced \ B
        /\ UNCHANGED <<session, launch, since, calls, delivered>>
    BY <1>4 DEF BufferCompletes, history
  <2>2. InFlight' \subseteq InFlight
    BY <2>1 DEF InFlight
  <2> QED
    BY <2>1, <2>2 DEF FreshInv, Numbered, IdleWorker, Fresh
<1>5. CASE BufferDone
  <2>1. /\ worker'.buffer = {} /\ UNCHANGED <<running, forced, session>>
        /\ UNCHANGED <<launch, since, calls, delivered>>
    BY <1>5 DEF BufferDone, NoWorker, history
  <2>2. InFlight' \subseteq InFlight
    BY <2>1 DEF InFlight
  <2> QED
    BY <2>1, <2>2 DEF FreshInv, Numbered, IdleWorker, Fresh
<1> QED
  BY <1>1, <1>2, <1>3, <1>4, <1>5, FreshImport, FreshSession, StepKinds DEF AnyStep

\* FreshInv is an invariant.
LEMMA FreshHolds == Spec => [](Types /\ DataKnown /\ FreshInv)
<1>1. Init => FreshInv
  BY DEF Init, FreshInv, Numbered, IdleWorker, Fresh, InFlight, NoWorker, NoSession
<1> QED
  BY <1>1, FreshNext, TypesHold, PTL DEF Spec

\* A session starts with new activities: data registered after a flush never takes a
\* kernel of a call that had returned before that flush, however calls, buffers and
\* flushes of several threads interleave.
THEOREM SessionsAreFresh == Spec => SessionsStartFresh
<1> DEFINE New == \A d \in DataObjects : \A m \in metrics'[d] \ metrics[d] :
                    m.rec.corr \notin since[d]
<1>1. Types /\ DataKnown /\ FreshInv /\ [Next]_vars => [New]_vars
  <2> SUFFICES ASSUME Types, DataKnown, FreshInv, Next PROVE New
    OBVIOUS
  <2>1. CASE metrics' = metrics
    BY <2>1
  <2>2. ASSUME NEW r \in worker.buffer, ImportRecord(r) PROVE New
    <3>1. CASE corrIdToExternId[r.corr] = Absent
      BY <2>1, <2>2, <3>1, ImportSteps
    <3>2. CASE corrIdToExternId[r.corr] # Absent
      <4>1. \A d \in DataObjects : \A m \in metrics'[d] \ metrics[d] : m.rec = r
        <5> DEFINE x == corrIdToExternId[r.corr].extern
        <5>1. metrics' = [d \in DataObjects |->
               IF r \notin incomplete /\ d \in Takers(r, x)
               THEN metrics[d] \cup {[rec |-> r, scope |-> x, child |-> IsChild(r, x)]}
               ELSE metrics[d]]
          BY <2>2, <3>2, ImportSteps
        <5> HIDE DEF x
        <5> QED
          BY <5>1
      <4>2. r \in InFlight
        BY DEF InFlight
      <4> QED
        BY <4>1, <4>2 DEF FreshInv, Fresh
    <3> QED
      BY <3>1, <3>2
  <2>3. AnyStep
    BY StepKinds
  <2>4. (\E r \in worker.buffer : ImportRecord(r)) \/ metrics' = metrics
    <3>1. ASSUME NEW t \in Threads, ThreadStep(t) PROVE metrics' = metrics
      BY <3>1 DEF ThreadStep, EnterOp, ExitOp, LaunchRaises, CallExit, CallEnter, dataVars
    <3>2. Graph => metrics' = metrics
      BY DEF Graph, GraphNodeCreated, GraphNodeDestroyed, GraphExecCreated,
             GraphDestroyed, graphOnly, dataVars
    <3>3. SessionStep => metrics' = metrics
      BY SessionSteps DEF sessionOnly
    <3> QED
      BY <2>3, <3>1, <3>2, <3>3 DEF AnyStep, BufferCompletes, BufferDone, dataVars
  <2> QED
    BY <2>1, <2>2, <2>4
<1> QED
  BY <1>1, FreshHolds, PTL DEF Spec, SessionsStartFresh

----------------------------------------------------------------------------
(* Counting: the correlation map knows how many kernels of a launch are to  *)
(* come, and every kernel reaches the data that collected at its launch.    *)

\* A record on its way was not delivered, belongs to a launch, and is in one place only.
RecordsOK ==
  /\ \A r \in InFlight \cup delivered : /\ launch[r.corr] # Absent
                                        /\ r.kernel <= launch[r.corr].kernels
  /\ InFlight \cap delivered = {}
  /\ running \cap forced = {}
  /\ (running \cup forced) \cap worker.buffer = {}

\* While every node was seen, the node count of a graph is that of its executable.
GraphOK ==
  ~graph.unseen =>
    /\ graph.kernels = Absent =>
         graph.instances = graph.nodes \/ (graph.nodes = 0 /\ graph.instances = Absent)
    /\ graph.kernels # Absent /\ graph.instances # Absent =>
         graph.instances = graph.kernels

\* An entry counts down from the kernels of its launch, or from "unknown", and goes with
\* the last kernel.
Exact(c) ==
  LET entry == corrIdToExternId[c]
      missing == Undelivered(c)
  IN  \/ /\ launch[c].graph /\ entry # Absent
         /\ entry.left = ManyInstances - launch[c].kernels + Cardinality(missing)
      \/ missing = {} /\ entry = Absent
      \/ missing # {} /\ entry # Absent /\ entry.left = Cardinality(missing)
CountsKnown(c) == launch[c] # Absent /\ launch[c].kernels > 0 /\ ~launch[c].partly
CorrOK == \A c \in CorrIds : CountsKnown(c) => Exact(c)

\* The data that were collecting at a launch, and still are, know its op, and the worker
\* that has one of its records has them in its copy of the data set.
SinksOK ==
  /\ \A c \in CorrIds : launch[c] # Absent => launch[c].sinks \subseteq dataSet
  /\ \A r \in worker.buffer : launch[r.corr].sinks \subseteq worker.data
  /\ \A c \in CorrIds : launch[c] # Absent /\ corrIdToExternId[c] # Absent =>
       \A d \in launch[c].sinks : corrIdToExternId[c].extern \in scopeMap[d]

CountInv == RecordsOK /\ GraphOK /\ CorrOK /\ SinksOK /\ KernelsCounted

\* What the invariants talk about is typed.
LEMMA CountTypes ==
  ASSUME Types
  PROVE  /\ launch \in [CorrIds -> LaunchInfos \cup {Absent}]
         /\ corrIdToExternId \in [CorrIds -> Entries \cup {Absent}]
         /\ running \subseteq Records /\ forced \subseteq Records /\ delivered \subseteq Records
         /\ worker.buffer \subseteq Records /\ worker.data \subseteq DataObjects
         /\ scopeMap \in [DataObjects -> SUBSET Scopes]
         /\ metrics \in [DataObjects -> SUBSET Metrics]
         /\ dataSet \subseteq DataObjects /\ calls \in 0 .. MaxCalls
  BY WorkerType DEF Types, TypeOK, WorkerRecords

\* The kernels that have not been delivered are finitely many.
LEMMA MissingIsFinite ==
  ASSUME Types, NEW c \in CorrIds, launch[c] # Absent
  PROVE  /\ launch[c] \in LaunchInfos /\ launch[c].kernels \in 0 .. (1 + MaxNodes)
         /\ IsFiniteSet(Undelivered(c)) /\ Cardinality(Undelivered(c)) \in Nat
         /\ Cardinality(Undelivered(c)) <= launch[c].kernels
         /\ Undelivered(c) = {} <=> Cardinality(Undelivered(c)) = 0
<1>1. launch[c] \in LaunchInfos
  BY CountTypes
<1>2. launch[c].kernels \in 0 .. (1 + MaxNodes)
  BY <1>1 DEF LaunchInfos
<1> DEFINE n == launch[c].kernels
<1>3. n \in Nat /\ Undelivered(c) \subseteq 1 .. n
  BY <1>2, IdsAreNumbers DEF Undelivered
<1>4. IsFiniteSet(1 .. n) /\ Cardinality(1 .. n) = n
  <2> HIDE DEF n
  <2>1. IsFiniteSet(1 .. n)
    BY <1>3, FS_Interval
  <2>2. Cardinality(1 .. n) = IF 1 > n THEN 0 ELSE n - 1 + 1
    BY <1>3, FS_Interval
  <2> QED
    BY <1>3, <2>1, <2>2
<1>5. IsFiniteSet(Undelivered(c)) /\ Cardinality(Undelivered(c)) <= n
  BY <1>3, <1>4, FS_Subset
<1>6. /\ Cardinality(Undelivered(c)) \in Nat
      /\ Undelivered(c) = {} <=> Cardinality(Undelivered(c)) = 0
  BY <1>5, FS_CardinalityType, FS_EmptySet
<1> QED
  BY <1>1, <1>2, <1>5, <1>6

\* A record delivered for the first time leaves one kernel less of its launch to come.
LEMMA OneLess ==
  ASSUME Types, NEW r \in Records, r \notin delivered, launch[r.corr] # Absent,
         r.kernel <= launch[r.corr].kernels,
         delivered' = delivered \cup {r}, launch' = launch
  PROVE  /\ Undelivered(r.corr)' = Undelivered(r.corr) \ {r.kernel}
         /\ Undelivered(r.corr) # {}
         /\ Cardinality(Undelivered(r.corr)') = Cardinality(Undelivered(r.corr)) - 1
         /\ \A c \in CorrIds \ {r.corr} : Undelivered(c)' = Undelivered(c)
<1> DEFINE c == r.corr
<1>1. c \in CorrIds /\ r.kernel \in 1 .. (1 + MaxNodes) /\ r = [corr |-> c, kernel |-> r.kernel]
  BY DEF Records
<1>2. launch[c].kernels \in 0 .. (1 + MaxNodes) /\ IsFiniteSet(Undelivered(c))
  BY <1>1, MissingIsFinite
<1>3. r.kernel \in Undelivered(c)
  BY <1>1, <1>2, IdsAreNumbers DEF Undelivered
<1>4. \A b, k : [corr |-> b, kernel |-> k] = r => b = c /\ k = r.kernel
  OBVIOUS
<1>5. Undelivered(c)' = Undelivered(c) \ {r.kernel}
  BY <1>1, <1>4 DEF Undelivered
<1>6. \A b \in CorrIds \ {c} : Undelivered(b)' = Undelivered(b)
  BY <1>4 DEF Undelivered
<1>7. Cardinality(Undelivered(c) \ {r.kernel}) = Cardinality(Undelivered(c)) - 1
  BY <1>2, <1>3, FS_RemoveElement
<1> QED
  BY <1>3, <1>5, <1>6, <1>7

\* While the counts are exact, the correlation map is what CorrelationExact says.
LEMMA ExactShown ==
  ASSUME Types, CorrOK
  PROVE  CorrelationExact
<1> SUFFICES ASSUME NEW c \in CorrIds, CountsKnown(c)
             PROVE  LET entry == corrIdToExternId[c] IN
                    IF entry # Absent /\ entry.left > 1 + MaxNodes THEN launch[c].graph
                    ELSE IF Undelivered(c) = {} THEN entry = Absent
                    ELSE entry # Absent /\ entry.left = Cardinality(Undelivered(c))
  BY DEF CorrelationExact, CountsKnown
<1>1. Exact(c)
  BY DEF CorrOK
<1>2. /\ launch[c].kernels \in 0 .. (1 + MaxNodes)
      /\ Cardinality(Undelivered(c)) \in Nat
      /\ Cardinality(Undelivered(c)) <= launch[c].kernels
  BY MissingIsFinite DEF CountsKnown
<1>3. ManyInstances \in Nat /\ ManyInstances > 2 * (1 + MaxNodes) /\ MaxNodes \in Nat
  BY CollectorAssumptions
<1> QED
  BY <1>1, <1>2, <1>3 DEF Exact

----------------------------------------------------------------------------
(* Steps.                                                                   *)

\* Steps that leave all of it alone but let scope maps grow.
LEMMA CountFrame ==
  ASSUME Types, CountInv,
         UNCHANGED <<launch, running, forced, worker, delivered, incomplete,
                     corrIdToExternId, graph, dataSet, metrics>>,
         \A d \in DataObjects : scopeMap[d] \subseteq scopeMap'[d]
  PROVE  CountInv'
<1>1. RecordsOK' /\ GraphOK'
  BY DEF CountInv, RecordsOK, GraphOK, InFlight
<1>2. CorrOK'
  <2>1. \A c \in CorrIds : CountsKnown(c)' <=> CountsKnown(c)
    BY DEF CountsKnown
  <2>2. \A c \in CorrIds : Undelivered(c)' = Undelivered(c)
    BY DEF Undelivered
  <2>3. \A c \in CorrIds : Exact(c)' <=> Exact(c)
    BY <2>2 DEF Exact
  <2> QED
    BY <2>1, <2>3 DEF CountInv, CorrOK
<1>3. SinksOK'
  <2>1. \A c \in CorrIds : launch[c] # Absent => launch[c].sinks \subseteq DataObjects
    BY CountTypes DEF LaunchInfos
  <2> QED
    BY <2>1 DEF CountInv, SinksOK
<1>4. KernelsCounted'
  BY DEF CountInv, KernelsCounted
<1> QED
  BY <1>1, <1>2, <1>3, <1>4 DEF CountInv

\* Steps that only take records away from CUPTI, or hand them to the worker.
LEMMA CountHandOver ==
  ASSUME Types, CountInv,
         UNCHANGED <<launch, delivered, corrIdToExternId, graph, scopeMap, metrics>>,
         InFlight' \subseteq InFlight, incomplete \subseteq incomplete',
         dataSet \subseteq dataSet',
         running' \cap forced' = {}, (running' \cup forced') \cap worker'.buffer = {},
         \A r \in worker'.buffer : launch[r.corr].sinks \subseteq worker'.data
  PROVE  CountInv'
<1>1. RecordsOK' /\ GraphOK'
  BY DEF CountInv, RecordsOK, GraphOK
<1>2. CorrOK'
  <2>1. \A c \in CorrIds : CountsKnown(c)' <=> CountsKnown(c)
    BY DEF CountsKnown
  <2>2. \A c \in CorrIds : Undelivered(c)' = Undelivered(c)
    BY DEF Undelivered
  <2>3. \A c \in CorrIds : Exact(c)' <=> Exact(c)
    BY <2>2 DEF Exact
  <2> QED
    BY <2>1, <2>3 DEF CountInv, CorrOK
<1>3. SinksOK'
  BY DEF CountInv, SinksOK
<1>4. KernelsCounted'
  BY DEF CountInv, KernelsCounted
<1> QED
  BY <1>1, <1>2, <1>3, <1>4 DEF CountInv

\* The steps of the program's graph.
LEMMA CountGraph ==
  ASSUME Types, CountInv, Graph
  PROVE  CountInv'
<1>1. UNCHANGED graphOnly
  BY DEF Graph, GraphNodeCreated, GraphNodeDestroyed, GraphExecCreated, GraphDestroyed
<1>2. graph \in GraphRecords
  BY InstancesTypes, IdsAreNumbers
<1>3. GraphOK'
  <2>1. CASE GraphNodeCreated
    <3> DEFINE unseen == graph.unseen \/ ~subscribed
               instances == IF ~subscribed THEN graph.instances
                            ELSE IF graph.instances = Absent THEN 1 ELSE graph.instances + 1
    <3>1. /\ graph.nodes \in Nat /\ graph.kernels = Absent
          /\ graph' = [graph EXCEPT !.nodes = graph.nodes + 1, !.unseen = unseen,
                                    !.instances = instances]
      BY <1>2, <2>1, IdsAreNumbers DEF GraphNodeCreated, GraphRecords
    <3>2. unseen \in BOOLEAN
      OBVIOUS
    <3>3. ~unseen => subscribed /\ ~graph.unseen
      OBVIOUS
    <3>4. subscribed /\ ~graph.unseen => instances = graph.nodes + 1
      BY <3>1, IdsAreNumbers DEF CountInv, GraphOK
    <3> HIDE DEF unseen, instances
    <3>5. /\ graph'.unseen = unseen /\ graph'.kernels = Absent
          /\ graph'.nodes = graph.nodes + 1 /\ graph'.instances = instances
      BY <1>2, <3>1, <3>2 DEF GraphRecords
    <3> QED
      BY <3>3, <3>4, <3>5 DEF GraphOK
  <2>2. CASE GraphNodeDestroyed
    BY <1>2, <2>2 DEF GraphNodeDestroyed, GraphRecords, CountInv, GraphOK
  <2>3. CASE GraphExecCreated
    BY <1>2, <2>3 DEF GraphExecCreated, GraphRecords, CountInv, GraphOK
  <2>4. CASE GraphDestroyed
    BY <1>2, <2>4 DEF GraphDestroyed, GraphRecords, CountInv, GraphOK
  <2> QED
    BY <2>1, <2>2, <2>3, <2>4 DEF Graph
<1>4. RecordsOK' /\ SinksOK' /\ KernelsCounted'
  BY <1>1 DEF CountInv, RecordsOK, InFlight, SinksOK, KernelsCounted,
              graphOnly, cuptiVars, corrVars, dataVars, history
<1>5. CorrOK'
  <2>1. UNCHANGED <<launch, delivered, corrIdToExternId>>
    BY <1>1 DEF graphOnly, corrVars, history
  <2>2. \A c \in CorrIds : CountsKnown(c)' <=> CountsKnown(c)
    BY <2>1 DEF CountsKnown
  <2>3. \A c \in CorrIds : Undelivered(c)' = Undelivered(c)
    BY <2>1 DEF Undelivered
  <2>4. \A c \in CorrIds : Exact(c)' <=> Exact(c)
    BY <2>1, <2>3 DEF Exact
  <2> QED
    BY <2>2, <2>4 DEF CountInv, CorrOK
<1> QED
  BY <1>3, <1>4, <1>5 DEF CountInv

\* A launch that is reported starts a count of its own.
LEMMA LaunchKinds ==
  ASSUME Types, NEW t \in Threads, LaunchKernel(t) \/ LaunchGraph(t)
  PROVE  \E isGraph \in BOOLEAN : \E kernels \in 0 .. (1 + MaxNodes) :
           /\ CallEnter(t, isGraph, kernels)
           /\ isGraph => kernels = graph.kernels /\ hook[t] = NoHook
           /\ ~isGraph => kernels <= 1
<1>1. CASE LaunchKernel(t)
  <2>1. 0 \in 0 .. (1 + MaxNodes) /\ 1 \in 0 .. (1 + MaxNodes)
    BY IdsAreNumbers
  <2>2. PICK kernels \in {0, 1} : CallEnter(t, FALSE, kernels)
    BY <1>1 DEF LaunchKernel
  <2>3. kernels \in 0 .. (1 + MaxNodes) /\ kernels <= 1
    BY <2>1
  <2> QED
    BY <2>2, <2>3
<1>2. CASE LaunchGraph(t)
  <2>1. CallEnter(t, TRUE, graph.kernels) /\ graph.kernels # Absent /\ hook[t] = NoHook
    BY <1>2 DEF LaunchGraph
  <2>2. graph.kernels \in 0 .. (1 + MaxNodes)
    BY <2>1, InstancesTypes, IdsAreNumbers DEF GraphRecords
  <2> QED
    BY <2>1, <2>2
<1> QED
  BY <1>1, <1>2

\* What a launch that CUPTI reports adds: an entry and records with a number of their own.
LEMMA LaunchSteps ==
  ASSUME Types, FreshInv, NEW t \in Threads, NEW isGraph \in BOOLEAN,
         NEW kernels \in 0 .. (1 + MaxNodes), CallEnter(t, isGraph, kernels), subscribed,
         NEW c \in CorrIds, c = calls + 1
  PROVE  /\ running' = running \cup {[corr |-> c, kernel |-> k] : k \in 1 .. kernels}
         /\ Opened(t) \in Scopes
         /\ launch'[c] = Info(t, isGraph, kernels) /\ launch'[c] # Absent
         /\ corrIdToExternId'[c] = Entry(t, isGraph) /\ corrIdToExternId'[c] # Absent
         /\ \A b \in CorrIds \ {c} : /\ launch'[b] = launch[b]
                                     /\ corrIdToExternId'[b] = corrIdToExternId[b]
         /\ \A r \in InFlight \cup delivered : r.corr \in CorrIds \ {c}
<1> DEFINE info == Info(t, isGraph, kernels)
<1>1. /\ Opened(t) \in Scopes
      /\ corrIdToExternId' = [corrIdToExternId EXCEPT ![c] = Entry(t, isGraph)]
      /\ running' = running \cup {[corr |-> c, kernel |-> k] : k \in 1 .. kernels}
      /\ launch' = [launch EXCEPT ![c] = info]
  BY CallEnterSubscribed
<1>2. info \in LaunchInfos
  <2> DEFINE partly == isGraph /\ graph.unseen /\ GraphInstances # ManyInstances
             op == IF hook[t].seen THEN hook[t].scope ELSE Absent
             sinks == {d \in dataSet : Opened(t) \in scopeMap'[d]}
  <2>1. op \in Scopes \cup {Absent} /\ partly \in BOOLEAN /\ lost[t] \in BOOLEAN
    BY ThreadTypes DEF HookRecords
  <2>2. sinks \subseteq DataObjects
    BY CountTypes
  <2> HIDE DEF partly, op, sinks
  <2>3. [op |-> op, graph |-> isGraph, kernels |-> kernels, partly |-> partly,
         lost |-> lost[t], sinks |-> sinks] \in LaunchInfos
    BY <2>1, <2>2 DEF LaunchInfos
  <2> QED
    BY <2>3 DEF Info, partly, op, sinks
<1>3. Entry(t, isGraph) \in Entries
  BY <1>1, InstancesTypes DEF Entry, Entries
<1>4. \A r \in InFlight \cup delivered : r.corr \in CorrIds \ {c}
  <2>1. \A r \in InFlight \cup delivered : r.corr \in CorrIds /\ r.corr <= calls
    BY CountTypes DEF Records, InFlight, FreshInv, Numbered
  <2> QED
    BY <2>1, CountTypes
<1> HIDE DEF info
<1>5. /\ launch'[c] = info /\ launch'[c] # Absent
      /\ corrIdToExternId'[c] = Entry(t, isGraph) /\ corrIdToExternId'[c] # Absent
      /\ \A b \in CorrIds \ {c} : /\ launch'[b] = launch[b]
                                  /\ corrIdToExternId'[b] = corrIdToExternId[b]
  BY <1>1, <1>2, <1>3, CountTypes, AbsentAssumption
<1> QED
  BY <1>1, <1>4, <1>5 DEF info

\* A launch: with a subscription it starts a count of its own, without one nothing does.
LEMMA CountLaunch ==
  ASSUME Types, FreshInv, CountInv, NEW t \in Threads, NEW isGraph \in BOOLEAN,
         NEW kernels \in 0 .. (1 + MaxNodes), CallEnter(t, isGraph, kernels),
         isGraph => kernels = graph.kernels, ~isGraph => kernels <= 1
  PROVE  CountInv'
<1> DEFINE n == IF isGraph THEN GraphInstances ELSE 1
<1>1. /\ calls < MaxCalls
      /\ UNCHANGED <<graph, dataSet, metrics, forced, incomplete, worker, delivered>>
  BY DEF CallEnter
<1>2. PICK c \in CorrIds : c = calls + 1
  BY <1>1, CountTypes, IdsAreNumbers DEF CorrIds
<1>3. CASE ~subscribed
  BY <1>1, <1>3, CountFrame DEF CallEnter
<1>4. CASE subscribed
  <2> DEFINE x == Opened(t)
             info == Info(t, isGraph, kernels)
             new == {[corr |-> c, kernel |-> k] : k \in 1 .. kernels}
  <2>1. /\ StartsOp(t) => scopeMap' = AddScope(dataSet, nextScope)
        /\ ~StartsOp(t) => UNCHANGED scopeMap
    BY <1>4, CallEnterSubscribed
  <2>2. /\ running' = running \cup new /\ x \in Scopes
        /\ launch'[c] = info /\ launch'[c] # Absent
        /\ corrIdToExternId'[c] = Entry(t, isGraph) /\ corrIdToExternId'[c] # Absent
        /\ \A b \in CorrIds \ {c} : /\ launch'[b] = launch[b]
                                    /\ corrIdToExternId'[b] = corrIdToExternId[b]
        /\ \A r \in InFlight \cup delivered : r.corr \in CorrIds \ {c}
    BY <1>2, <1>4, LaunchSteps
  <2>3. /\ info.graph = isGraph /\ info.kernels = kernels
        /\ info.partly = (isGraph /\ graph.unseen /\ GraphInstances # ManyInstances)
        /\ info.sinks = {d \in dataSet : x \in scopeMap'[d]}
        /\ Entry(t, isGraph).extern = x /\ Entry(t, isGraph).left = n
    BY DEF Info, Entry
  <2>4. /\ \A r \in new : r.corr = c /\ r.kernel \in 1 .. kernels
        /\ \A r \in InFlight \cup delivered : r.corr \in CorrIds \ {c}
    BY <2>2
  <2> HIDE DEF info, x, new
  <2>5. InFlight' = InFlight \cup new
    BY <1>1, <2>2 DEF InFlight
  <2>6. RecordsOK'
    <3>1. \A r \in InFlight' \cup delivered' : /\ launch'[r.corr] # Absent
                                               /\ r.kernel <= launch'[r.corr].kernels
      BY <1>1, <2>2, <2>3, <2>4, <2>5, IdsAreNumbers DEF CountInv, RecordsOK
    <3>2. /\ InFlight' \cap delivered' = {} /\ running' \cap forced' = {}
          /\ (running' \cup forced') \cap worker'.buffer = {}
      BY <1>1, <2>2, <2>4, <2>5 DEF CountInv, RecordsOK, InFlight
    <3> QED
      BY <3>1, <3>2 DEF RecordsOK
  <2>7. GraphOK'
    BY <1>1 DEF CountInv, GraphOK
  <2>8. \A d \in DataObjects : scopeMap[d] \subseteq scopeMap'[d]
    BY <2>1, CountTypes DEF AddScope
  <2>9. SinksOK'
    <3>1. \A b \in CorrIds : launch'[b] # Absent => launch'[b].sinks \subseteq dataSet'
      BY <1>1, <2>2, <2>3 DEF CountInv, SinksOK
    <3>2. \A r \in worker'.buffer : launch'[r.corr].sinks \subseteq worker'.data
      BY <1>1, <2>2, <2>4 DEF CountInv, SinksOK, InFlight
    <3>3. ASSUME NEW b \in CorrIds, launch'[b] # Absent, corrIdToExternId'[b] # Absent,
                 NEW d \in launch'[b].sinks
          PROVE  corrIdToExternId'[b].extern \in scopeMap'[d]
      <4>1. CASE b = c
        BY <2>2, <2>3, <3>3, <4>1
      <4>2. CASE b # c
        <5>1. d \in dataSet /\ d \in DataObjects
          BY <2>2, <3>3, <4>2, CountTypes DEF CountInv, SinksOK
        <5>2. corrIdToExternId[b].extern \in scopeMap[d]
          BY <2>2, <3>3, <4>2 DEF CountInv, SinksOK
        <5> QED
          BY <2>2, <2>8, <3>3, <4>2, <5>1, <5>2
      <4> QED
        BY <4>1, <4>2
    <3> QED
      BY <3>1, <3>2, <3>3 DEF SinksOK
  <2>10. KernelsCounted'
    BY <1>1, <2>2, <2>4 DEF CountInv, KernelsCounted
  <2>11. ASSUME NEW b \in CorrIds \ {c}, CountsKnown(b)' PROVE Exact(b)'
    <3>1. Undelivered(b)' = Undelivered(b)
      BY <1>1, <2>2 DEF Undelivered
    <3>2. CountsKnown(b)
      BY <2>2, <2>11 DEF CountsKnown
    <3> QED
      BY <2>2, <3>1, <3>2 DEF CountInv, CorrOK, Exact
  <2>12. ASSUME CountsKnown(c)' PROVE Exact(c)'
    <3>1. Undelivered(c)' = 1 .. kernels
      BY <1>1, <2>2, <2>3, <2>4 DEF Undelivered
    <3>2. kernels \in Nat /\ kernels > 0 /\ kernels \in 0 .. (1 + MaxNodes)
      BY <2>2, <2>3, <2>12, IdsAreNumbers DEF CountsKnown
    <3>3. Cardinality(1 .. kernels) = kernels /\ 1 .. kernels # {}
      <4>1. Cardinality(1 .. kernels) = IF 1 > kernels THEN 0 ELSE kernels - 1 + 1
        BY <3>2, FS_Interval
      <4> QED
        BY <3>2, <4>1
    <3>4. CASE ~isGraph
      BY <2>2, <2>3, <3>1, <3>2, <3>3, <3>4 DEF Exact
    <3>5. CASE isGraph /\ GraphInstances = ManyInstances
      <4>1. /\ corrIdToExternId'[c].left = ManyInstances /\ corrIdToExternId'[c] # Absent
            /\ launch'[c].graph /\ launch'[c].kernels = kernels
            /\ Cardinality(Undelivered(c)') = kernels
        BY <2>2, <2>3, <3>1, <3>3, <3>5
      <4>2. ManyInstances = ManyInstances - kernels + kernels
        BY <3>2, CollectorAssumptions
      <4> QED
        BY <4>1, <4>2 DEF Exact
    <3>6. CASE isGraph /\ GraphInstances # ManyInstances
      <4>1. ~graph.unseen
        BY <2>2, <2>3, <2>12, <3>6 DEF CountsKnown
      <4>2. graph.instances # Absent /\ GraphInstances = graph.instances
        BY <3>6 DEF GraphInstances
      <4>3. graph.kernels = kernels /\ graph.kernels # Absent
        BY <3>2, <3>6, IdsAreNumbers
      <4>4. GraphInstances = kernels
        BY <4>1, <4>2, <4>3 DEF CountInv, GraphOK
      <4> QED
        BY <2>2, <2>3, <3>1, <3>3, <3>6, <4>4 DEF Exact
    <3> QED
      BY <3>4, <3>5, <3>6
  <2>13. CorrOK'
    BY <2>11, <2>12 DEF CorrOK
  <2> QED
    BY <2>6, <2>7, <2>9, <2>10, <2>13 DEF CountInv
<1> QED
  BY <1>3, <1>4

\* The import of a record: one less to come, and its data have its metric.
LEMMA CountImport ==
  ASSUME Types, FreshInv, CountInv, NEW r \in worker.buffer, ImportRecord(r)
  PROVE  CountInv'
<1>1. PICK c \in CorrIds : c = r.corr /\ r \in Records
  BY CountTypes DEF Records
<1>2. /\ worker'.buffer = worker.buffer \ {r} /\ worker'.data = worker.data
      /\ delivered' = delivered \cup {r}
      /\ UNCHANGED <<graph, dataSet, running, forced, incomplete, launch>>
  <2>1. /\ worker' = [worker EXCEPT !.buffer = worker.buffer \ {r},
                                    !.max = Larger(worker.max, r.corr)]
        /\ delivered' = delivered \cup {r}
        /\ UNCHANGED <<graph, dataSet, running, forced, incomplete, launch>>
    BY ImportSteps
  <2> QED
    BY <2>1, WorkerType DEF WorkerRecords
<1>3. /\ r \notin delivered /\ launch[c] # Absent /\ r.kernel <= launch[c].kernels
      /\ r \notin running \cup forced
  BY <1>1 DEF CountInv, RecordsOK, InFlight
<1>4. /\ \A b \in CorrIds \ {c} : corrIdToExternId'[b] = corrIdToExternId[b]
      /\ corrIdToExternId[c] = Absent => corrIdToExternId'[c] = Absent
      /\ corrIdToExternId[c] # Absent => corrIdToExternId'[c] = Consumed(c)
  BY <1>1, ImportSteps, CountTypes
<1>5. corrIdToExternId[c] # Absent => corrIdToExternId[c] \in Entries /\ Absent \notin Entries
  BY CountTypes, AbsentAssumption
<1>6. RecordsOK'
  <2>1. InFlight' = InFlight \ {r} /\ r \in InFlight
    BY <1>2, <1>3 DEF InFlight
  <2>2. /\ \A q \in InFlight' \cup delivered' : /\ launch'[q.corr] # Absent
                                                /\ q.kernel <= launch'[q.corr].kernels
        /\ InFlight' \cap delivered' = {}
    BY <1>2, <2>1 DEF CountInv, RecordsOK
  <2>3. running' \cap forced' = {} /\ (running' \cup forced') \cap worker'.buffer = {}
    BY <1>2 DEF CountInv, RecordsOK
  <2> QED
    BY <2>2, <2>3 DEF RecordsOK
<1>7. GraphOK'
  BY <1>2 DEF CountInv, GraphOK
<1>8. /\ Undelivered(c)' = Undelivered(c) \ {r.kernel} /\ Undelivered(c) # {}
      /\ Cardinality(Undelivered(c)') = Cardinality(Undelivered(c)) - 1
      /\ \A b \in CorrIds \ {c} : Undelivered(b)' = Undelivered(b)
  BY <1>1, <1>2, <1>3, OneLess
<1>9. CorrOK'
  <2>1. ASSUME NEW b \in CorrIds \ {c}, CountsKnown(b)' PROVE Exact(b)'
    <3>1. CountsKnown(b)
      BY <1>2, <2>1 DEF CountsKnown
    <3> QED
      BY <1>2, <1>4, <1>8, <3>1 DEF CountInv, CorrOK, Exact
  <2>2. ASSUME CountsKnown(c)' PROVE Exact(c)'
    <3> DEFINE e == corrIdToExternId[c]
               u == Cardinality(Undelivered(c))
               l == launch[c].kernels
    <3>1. Exact(c)
      BY <1>2, <2>2 DEF CountInv, CorrOK, CountsKnown
    <3>2. u \in Nat /\ u > 0 /\ l \in 0 .. (1 + MaxNodes)
      BY <1>3, <1>8, MissingIsFinite
    <3>3. e # Absent
      BY <1>8, <3>1 DEF Exact
    <3>4. e \in Entries /\ e.left \in Nat
      BY <1>5, <3>3 DEF Entries
    <3>5. e.left = u \/ (launch[c].graph /\ e.left = ManyInstances - l + u)
      BY <1>8, <3>1 DEF Exact
    <3>6. ManyInstances - l >= 1 /\ ManyInstances \in Nat
      BY <3>2, CollectorAssumptions
    <3>7. Less1(e.left) = e.left - 1
      BY <3>2, <3>4, <3>5, <3>6 DEF Less1
    <3>8. corrIdToExternId'[c] =
            IF e.left - 1 = 0 THEN Absent ELSE [e EXCEPT !.left = e.left - 1]
      BY <1>4, <3>3, <3>7 DEF Consumed
    <3>9. [e EXCEPT !.left = e.left - 1].left = e.left - 1
      BY <3>4 DEF Entries
    <3>10. e.left - 1 # 0 => [e EXCEPT !.left = e.left - 1] # Absent
      <4>1. e.left - 1 # 0 => e.left - 1 \in Nat
        BY <3>2, <3>4, <3>5, <3>6
      <4>2. e.left - 1 # 0 => [e EXCEPT !.left = e.left - 1] \in Entries
        BY <3>4, <4>1 DEF Entries
      <4> QED
        BY <4>2, AbsentAssumption
    <3>11. launch'[c] = launch[c]
      BY <1>2
    <3>12. Undelivered(c)' = {} <=> u = 1
      <4>1. Types'
        BY ImportTypes
      <4>2. launch'[c] # Absent
        BY <1>2, <1>3
      <4>3. launch' \in [CorrIds -> LaunchInfos \cup {Absent}]
        BY <4>1 DEF Types, TypeOK
      <4>4. IsFiniteSet(Undelivered(c) \ {r.kernel})
        BY <1>3, MissingIsFinite, FS_Subset
      <4>5. Undelivered(c)' = {} <=> Cardinality(Undelivered(c)') = 0
        BY <1>8, <4>4, FS_EmptySet
      <4> QED
        BY <1>8, <3>2, <4>5
    <3>13. CASE e.left = u
      <4>1. CASE u = 1
        BY <3>8, <3>12, <3>13, <4>1 DEF Exact
      <4>2. CASE u # 1
        BY <1>8, <3>2, <3>8, <3>9, <3>10, <3>12, <3>13, <4>2 DEF Exact
      <4> QED
        BY <4>1, <4>2
    <3>14. CASE launch[c].graph /\ e.left = ManyInstances - l + u
      <4>1. e.left - 1 # 0 /\ e.left - 1 = ManyInstances - l + (u - 1)
        BY <3>2, <3>6, <3>14
      <4> QED
        BY <1>8, <3>8, <3>9, <3>10, <3>11, <3>14, <4>1 DEF Exact
    <3> QED
      BY <3>5, <3>13, <3>14
  <2> QED
    BY <2>1, <2>2 DEF CorrOK
<1>10. \A d \in DataObjects : scopeMap[d] \subseteq scopeMap'[d] /\ metrics[d] \subseteq metrics'[d]
  <2>1. CASE corrIdToExternId[c] = Absent
    BY <1>1, <2>1, ImportSteps
  <2>2. CASE corrIdToExternId[c] # Absent
    <3> DEFINE x == corrIdToExternId[c].extern
    <3>1. /\ scopeMap' = IF IsChild(r, x) THEN AddScope(worker.data, x) ELSE scopeMap
          /\ metrics' = [d \in DataObjects |->
               IF r \notin incomplete /\ d \in Takers(r, x)
               THEN metrics[d] \cup {[rec |-> r, scope |-> x, child |-> IsChild(r, x)]}
               ELSE metrics[d]]
      BY <1>1, <2>2, ImportSteps
    <3> HIDE DEF x
    <3> QED
      BY <3>1 DEF AddScope
  <2> QED
    BY <2>1, <2>2
<1>11. SinksOK'
  <2>1. \A b \in CorrIds : launch'[b] # Absent => launch'[b].sinks \subseteq dataSet'
    BY <1>2 DEF CountInv, SinksOK
  <2>2. \A q \in worker'.buffer : launch'[q.corr].sinks \subseteq worker'.data
    BY <1>2 DEF CountInv, SinksOK
  <2>3. ASSUME NEW b \in CorrIds, launch'[b] # Absent, corrIdToExternId'[b] # Absent,
               NEW d \in launch'[b].sinks
        PROVE  corrIdToExternId'[b].extern \in scopeMap'[d]
    <3>1. /\ corrIdToExternId[b] # Absent
          /\ corrIdToExternId'[b].extern = corrIdToExternId[b].extern
      <4>1. CASE b = c
        BY <1>4, <1>5, <2>3, <4>1 DEF Consumed, Entries
      <4>2. CASE b # c
        BY <1>4, <2>3, <4>2
      <4> QED
        BY <4>1, <4>2
    <3>2. d \in DataObjects /\ d \in launch[b].sinks /\ launch[b] # Absent
      BY <1>2, <2>1, <2>3, CountTypes
    <3>3. corrIdToExternId[b].extern \in scopeMap[d]
      BY <3>1, <3>2 DEF CountInv, SinksOK
    <3> QED
      BY <1>10, <3>1, <3>2, <3>3
  <2> QED
    BY <2>1, <2>2, <2>3 DEF SinksOK
<1>12. ASSUME corrIdToExternId[c] # Absent
       PROVE  \A d \in DataObjects :
                r \notin incomplete /\ d \in Takers(r, corrIdToExternId[c].extern) =>
                  \E m \in metrics'[d] : m.rec = r
  <2> DEFINE x == corrIdToExternId[c].extern
  <2>1. /\ scopeMap' = IF IsChild(r, x) THEN AddScope(worker.data, x) ELSE scopeMap
        /\ metrics' = [d \in DataObjects |->
             IF r \notin incomplete /\ d \in Takers(r, x)
             THEN metrics[d] \cup {[rec |-> r, scope |-> x, child |-> IsChild(r, x)]}
             ELSE metrics[d]]
    BY <1>1, <1>12, ImportSteps
  <2> HIDE DEF x
  <2>2. \A d \in DataObjects : r \notin incomplete /\ d \in Takers(r, x) =>
          [rec |-> r, scope |-> x, child |-> IsChild(r, x)] \in metrics'[d]
    BY <2>1
  <2>3. \A d \in DataObjects : r \notin incomplete /\ d \in Takers(r, x) =>
          \E m \in metrics'[d] : m.rec = r
    BY <2>2
  <2> QED
    BY <2>3 DEF x
<1>13. KernelsCounted'
  <2> SUFFICES ASSUME NEW q \in delivered' \ incomplete', ~launch'[q.corr].partly,
                      NEW d \in launch'[q.corr].sinks
               PROVE  \E m \in metrics'[d] : m.rec = q
    BY DEF KernelsCounted
  <2>1. q \in Records /\ q.corr \in CorrIds /\ launch[q.corr] # Absent
    BY <1>1, <1>2, <1>3, CountTypes DEF CountInv, RecordsOK, Records
  <2>2. d \in DataObjects /\ d \in launch[q.corr].sinks /\ ~launch[q.corr].partly
    BY <1>2, <2>1, CountTypes DEF LaunchInfos
  <2>3. CASE q \in delivered
    BY <1>2, <1>10, <2>2, <2>3 DEF CountInv, KernelsCounted
  <2>4. CASE q = r
    <3> DEFINE x == corrIdToExternId[c].extern
    <3>1. launch[c].kernels > 0
      BY <1>1, <1>3, MissingIsFinite, IdsAreNumbers DEF Records
    <3>2. CountsKnown(c) /\ Exact(c)
      BY <1>1, <1>3, <2>2, <2>4, <3>1 DEF CountsKnown, CountInv, CorrOK
    <3>3. corrIdToExternId[c] # Absent
      BY <1>8, <3>2 DEF Exact
    <3>4. d \in worker.data /\ x \in scopeMap[d]
      BY <1>1, <1>3, <2>2, <2>4, <3>3 DEF CountInv, SinksOK
    <3>5. d \in Takers(r, x)
      BY <3>4 DEF Takers
    <3>6. r \notin incomplete
      BY <1>2, <2>4
    <3> HIDE DEF x
    <3> QED
      BY <1>12, <2>2, <2>4, <3>3, <3>5, <3>6 DEF x
  <2> QED
    BY <1>2, <2>3, <2>4
<1> QED
  BY <1>6, <1>7, <1>9, <1>11, <1>13 DEF CountInv

\* The steps of session calls: a data that is taken out is no sink any more.
LEMMA CountSession ==
  ASSUME Types, DataKnown, FreshInv, CountInv, SessionStep
  PROVE  CountInv'
<1>1. UNCHANGED <<corrIdToExternId, graph, metrics, worker, delivered>>
  BY SessionSteps DEF sessionOnly
<1>2. \A r \in worker.buffer : launch[r.corr].sinks \subseteq worker.data
  BY DEF CountInv, SinksOK
<1>3. CASE UNCHANGED <<dataSet, scopeMap, running, forced, incomplete, launch>>
  BY <1>1, <1>3, CountFrame
<1>4. ASSUME NEW unfinished \in SUBSET running, FlushForced(unfinished) PROVE CountInv'
  <2>1. /\ running' = {} /\ forced' = running /\ incomplete \subseteq incomplete'
        /\ UNCHANGED <<dataSet, scopeMap, launch>>
    BY <1>4 DEF FlushForced, Taken
  <2>2. InFlight' \subseteq InFlight /\ forced' \cap worker.buffer = {}
    BY <1>1, <2>1 DEF InFlight, CountInv, RecordsOK
  <2> QED
    BY <1>1, <1>2, <2>1, <2>2, CountHandOver
<1>5. CASE Register
  <2>1. /\ dataSet \subseteq dataSet'
        /\ UNCHANGED <<scopeMap, running, forced, incomplete, launch>>
    BY <1>5 DEF Register
  <2>2. /\ InFlight' \subseteq InFlight /\ running' \cap forced' = {}
        /\ (running' \cup forced') \cap worker'.buffer = {}
    BY <1>1, <2>1 DEF InFlight, CountInv, RecordsOK
  <2> QED
    BY <1>1, <1>2, <2>1, <2>2, CountHandOver
<1>6. CASE Stop
  <2>1. /\ running' = {} /\ forced' = {}
        /\ UNCHANGED <<dataSet, scopeMap, incomplete, launch>>
    BY <1>6 DEF Stop
  <2>2. InFlight' \subseteq InFlight
    BY <1>1, <2>1 DEF InFlight
  <2> QED
    BY <1>1, <1>2, <2>1, <2>2, CountHandOver
<1>7. CASE Unregister
  <2> DEFINE gone == session.data
  <2>1. /\ gone \in DataObjects /\ dataSet' = dataSet \ {gone}
        /\ scopeMap' = IF gone \in KeepsScopes THEN scopeMap
                       ELSE [scopeMap EXCEPT ![gone] = {}]
        /\ launch' = [c \in CorrIds |-> IF launch[c] = Absent THEN Absent
                        ELSE [launch[c] EXCEPT !.sinks = launch[c].sinks \ {gone}]]
        /\ UNCHANGED <<running, forced, incomplete>>
    BY <1>7 DEF Unregister, DataKnown
  <2>2. Types'
    BY SessionTypes
  <2>3. \A c \in CorrIds :
          /\ launch'[c] # Absent <=> launch[c] # Absent
          /\ launch[c] # Absent => /\ launch'[c].sinks = launch[c].sinks \ {gone}
                                   /\ launch'[c].kernels = launch[c].kernels
                                   /\ launch'[c].graph = launch[c].graph
                                   /\ launch'[c].partly = launch[c].partly
    <3> SUFFICES ASSUME NEW c \in CorrIds
                 PROVE  /\ launch'[c] # Absent <=> launch[c] # Absent
                        /\ launch[c] # Absent =>
                             /\ launch'[c].sinks = launch[c].sinks \ {gone}
                             /\ launch'[c].kernels = launch[c].kernels
                             /\ launch'[c].graph = launch[c].graph
                             /\ launch'[c].partly = launch[c].partly
      OBVIOUS
    <3> HIDE DEF gone
    <3>1. CASE launch[c] = Absent
      BY <2>1, <3>1
    <3>2. CASE launch[c] # Absent
      <4> DEFINE l == [launch[c] EXCEPT !.sinks = launch[c].sinks \ {gone}]
      <4>1. launch[c] \in LaunchInfos
        BY <3>2, CountTypes
      <4>2. l \in LaunchInfos /\ launch'[c] = l
        BY <2>1, <3>2, <4>1 DEF LaunchInfos
      <4>3. l.sinks = launch[c].sinks \ {gone} /\ l.kernels = launch[c].kernels
        BY <4>1 DEF LaunchInfos
      <4>4. l.graph = launch[c].graph /\ l.partly = launch[c].partly
        BY <4>1 DEF LaunchInfos
      <4> HIDE DEF l
      <4> QED
        BY <3>2, <4>2, <4>3, <4>4, AbsentAssumption
    <3> QED
      BY <3>1, <3>2
  <2> HIDE DEF gone
  <2>4. \A r \in InFlight \cup delivered : r.corr \in CorrIds
    BY CountTypes DEF InFlight, Records
  <2>5. InFlight' = InFlight
    BY <1>1, <2>1 DEF InFlight
  <2>6. RecordsOK'
    BY <1>1, <2>1, <2>3, <2>4, <2>5 DEF CountInv, RecordsOK
  <2>7. GraphOK'
    BY <1>1 DEF CountInv, GraphOK
  <2>8. CorrOK'
    <3> SUFFICES ASSUME NEW c \in CorrIds, CountsKnown(c)' PROVE Exact(c)'
      BY DEF CorrOK
    <3>1. launch[c] # Absent
      BY <2>3 DEF CountsKnown
    <3>2. CountsKnown(c)
      BY <2>3, <3>1 DEF CountsKnown
    <3>3. Undelivered(c)' = Undelivered(c)
      BY <1>1, <2>3, <3>1 DEF Undelivered
    <3>4. Exact(c)
      BY <3>2 DEF CountInv, CorrOK
    <3> QED
      BY <1>1, <2>3, <3>1, <3>3, <3>4 DEF Exact
  <2>9. SinksOK'
    <3>1. \A c \in CorrIds : launch'[c] # Absent => launch'[c].sinks \subseteq dataSet'
      BY <2>1, <2>3 DEF CountInv, SinksOK
    <3>2. \A r \in worker'.buffer : launch'[r.corr].sinks \subseteq worker'.data
      <4> SUFFICES ASSUME NEW r \in worker.buffer
                   PROVE  launch'[r.corr].sinks \subseteq worker.data
        BY <1>1
      <4>1. r.corr \in CorrIds /\ launch[r.corr] # Absent
        BY <2>4 DEF CountInv, RecordsOK, InFlight
      <4> QED
        BY <1>2, <2>3, <4>1
    <3>3. ASSUME NEW c \in CorrIds, launch'[c] # Absent, corrIdToExternId'[c] # Absent,
                 NEW d \in launch'[c].sinks
          PROVE  corrIdToExternId'[c].extern \in scopeMap'[d]
      <4>1. d \in launch[c].sinks /\ d # gone /\ launch[c] # Absent
        BY <2>3, <3>3
      <4>2. d \in DataObjects
        BY <4>1, CountTypes DEF CountInv, SinksOK
      <4>3. scopeMap'[d] = scopeMap[d]
        BY <2>1, <4>1, <4>2, CountTypes
      <4> QED
        BY <1>1, <3>3, <4>1, <4>3 DEF CountInv, SinksOK
    <3> QED
      BY <3>1, <3>2, <3>3 DEF SinksOK
  <2>10. KernelsCounted'
    <3> SUFFICES ASSUME NEW q \in delivered \ incomplete, ~launch'[q.corr].partly,
                        NEW d \in launch'[q.corr].sinks
                 PROVE  \E m \in metrics[d] : m.rec = q
      BY <1>1, <2>1 DEF KernelsCounted
    <3>1. q.corr \in CorrIds /\ launch[q.corr] # Absent
      BY <2>4 DEF CountInv, RecordsOK
    <3> QED
      BY <2>3, <3>1 DEF CountInv, KernelsCounted
  <2> QED
    BY <2>6, <2>7, <2>8, <2>9, <2>10 DEF CountInv
<1>8. (\E d \in DataObjects : Attach(d) \/ Detach(d)) \/ FlushFirst \/ FlushRetry \/ FlushReturns
        => UNCHANGED <<dataSet, scopeMap, running, forced, incomplete, launch>>
  BY DEF Attach, Detach, FlushFirst, FlushRetry, FlushReturns
<1> QED
  BY <1>3, <1>4, <1>5, <1>6, <1>7, <1>8 DEF SessionStep

\* Every step keeps the counts.
LEMMA CountNext ==
  Types /\ DataKnown /\ FreshInv /\ CountInv /\ [Next]_vars => CountInv'
<1> SUFFICES ASSUME Types, DataKnown, FreshInv, CountInv, [Next]_vars PROVE CountInv'
  OBVIOUS
<1>1. CASE UNCHANGED vars
  BY <1>1, CountFrame DEF vars, cuptiVars, corrVars, dataVars, history
<1>2. ASSUME NEW t \in Threads, Thread(t) PROVE CountInv'
  <2>1. CASE EnterOp(t)
    <3>1. nextScope \in Scopes /\ scopeMap' = AddScope(dataSet, nextScope)
      BY <2>1, NextScopeIsScope DEF EnterOp
    <3>2. \A d \in DataObjects : scopeMap[d] \subseteq scopeMap'[d]
      BY <3>1, CountTypes DEF AddScope
    <3> QED
      BY <2>1, <3>2, CountFrame DEF EnterOp, cuptiVars, corrVars
  <2>2. CASE ExitOp(t) \/ LaunchRaises(t) \/ CallExit(t)
    BY <2>2, CountFrame DEF ExitOp, LaunchRaises, CallExit, cuptiVars, corrVars, dataVars
  <2>3. CASE LaunchKernel(t) \/ LaunchGraph(t)
    BY <2>3, LaunchKinds, CountLaunch
  <2> QED
    BY <1>2, <2>1, <2>2, <2>3 DEF Thread
<1>3. ASSUME NEW B \in SUBSET (running \cup forced), BufferCompletes(B) PROVE CountInv'
  <2>1. /\ ~worker.busy /\ worker'.buffer = B /\ worker'.data = dataSet
        /\ running' = running \ B /\ forced' = forced \ B
        /\ UNCHANGED <<launch, delivered, corrIdToExternId, graph, scopeMap, metrics,
                       dataSet, incomplete>>
    BY <1>3 DEF BufferCompletes, corrVars, dataVars, history
  <2>2. /\ InFlight' \subseteq InFlight /\ running' \cap forced' = {}
        /\ (running' \cup forced') \cap worker'.buffer = {}
    BY <2>1 DEF InFlight, CountInv, RecordsOK
  <2>3. \A r \in B : launch[r.corr].sinks \subseteq dataSet
    BY CountTypes DEF CountInv, RecordsOK, SinksOK, InFlight, Records
  <2> QED
    BY <2>1, <2>2, <2>3, CountHandOver
<1>4. CASE BufferDone
  <2>1. /\ worker'.buffer = {}
        /\ UNCHANGED <<launch, delivered, corrIdToExternId, graph, scopeMap, metrics,
                       dataSet, incomplete, running, forced>>
    BY <1>4 DEF BufferDone, NoWorker, dataVars, history
  <2>2. InFlight' \subseteq InFlight /\ running' \cap forced' = {}
    BY <2>1 DEF InFlight, CountInv, RecordsOK
  <2> QED
    BY <2>1, <2>2, CountHandOver
<1>5. ASSUME NEW r \in worker.buffer, ImportRecord(r) PROVE CountInv'
  BY <1>5, CountImport
<1>6. Flush \/ Lifecycle => SessionStep
  BY DEF Flush, Lifecycle, SessionStep
<1>7. CASE Graph
  BY <1>7, CountGraph
<1>8. CASE Flush \/ Lifecycle
  BY <1>6, <1>8, CountSession
<1> QED
  BY <1>1, <1>2, <1>3, <1>4, <1>5, <1>7, <1>8 DEF Next, Worker

\* The counts hold throughout.
LEMMA CountHolds == Spec => [](Types /\ CountInv)
<1>1. Init => CountInv
  <2> SUFFICES ASSUME Init PROVE CountInv
    OBVIOUS
  <2>1. RecordsOK
    BY DEF Init, RecordsOK, InFlight, NoWorker
  <2>2. GraphOK
    BY IdsAreNumbers DEF Init, GraphOK, NoGraph
  <2>3. CorrOK
    BY DEF Init, CorrOK, CountsKnown
  <2>4. SinksOK /\ KernelsCounted
    BY DEF Init, SinksOK, KernelsCounted, NoWorker
  <2> QED
    BY <2>1, <2>2, <2>3, <2>4 DEF CountInv
<1> QED
  BY <1>1, CountNext, FreshHolds, PTL DEF Spec

\* The correlation map of CuptiProfiler is exact, for any launches, graphs and buffers:
\* while a launch of a known number of kernels has an entry, the entry counts those not
\* imported yet, and it is gone once there are none.
THEOREM CorrelationIsExact == Spec => []CorrelationExact
<1>1. Types /\ CountInv => CorrelationExact
  BY ExactShown DEF CountInv
<1> QED
  BY <1>1, CountHolds, PTL

\* Every finished kernel that was imported is in every data that was collecting when it
\* was launched and has been since, in whatever order and buffers records come.
THEOREM KernelsAreCounted == Spec => []KernelsCounted
<1>1. CountInv => KernelsCounted
  BY DEF CountInv
<1> QED
  BY <1>1, CountHolds, PTL

----------------------------------------------------------------------------
(* Ops: which scope a kernel is recorded under.                             *)

\* A launch whose thread had seen the end of its previous op.
Kept(c) == launch[c] # Absent /\ ~launch[c].lost

\* Launch c's kernels go to scope s, or did.
Claims(c, s) ==
  \/ corrIdToExternId[c] # Absent /\ corrIdToExternId[c].extern = s
  \/ \E d \in DataObjects : \E m \in metrics[d] : m.rec.corr = c /\ m.scope = s

Pending(c) == \E r \in InFlight : r.corr = c
Current(t) == externIdQueue[t][1]

\* A hook that was dispatched, with its launch still to come.
Offers(t) == hook[t].seen /\ ~hook[t].launched

\* Every scope id in use was given out.
Used ==
  /\ \A c \in CorrIds : \A s \in Scopes : Claims(c, s) => s < nextScope
  /\ \A s \in apiExternIds : s < nextScope
  /\ \A t \in Threads : /\ opInProgress[t] => Current(t) < nextScope
                        /\ hook[t].seen => hook[t].scope \in Scopes /\ hook[t].scope < nextScope
                        /\ call[t] # Absent => call[t] <= calls

\* A thread that lost no end has an op in progress outside calls exactly for a hook whose
\* launch is to come, and that op is the hook's.
ThreadOK(t) ==
  /\ call[t] # Absent /\ hook[t].seen => hook[t].launched
  /\ ~lost[t] =>
       /\ call[t] = Absent /\ Offers(t) => opInProgress[t] /\ Current(t) = hook[t].scope
       /\ call[t] = Absent /\ ~Offers(t) => ~opInProgress[t]
       /\ call[t] # Absent /\ launch[call[t]] = Absent /\ ~hook[t].seen => ~opInProgress[t]
ThreadsOK == \A t \in Threads : ThreadOK(t)

\* The scope of a hook whose launch is to come is nobody else's.
HooksFree ==
  \A t \in Threads : Offers(t) =>
    /\ hook[t].scope \notin apiExternIds
    /\ \A c \in CorrIds : Kept(c) => ~Claims(c, hook[t].scope)
    /\ \A u \in Threads \ {t} : Offers(u) => hook[u].scope # hook[t].scope

\* A launch inside a hook's op is correlated with that op, any other with an api id that
\* stays one until its record comes: no other launch has it or can get it.
HookEntry(c, s) == s = launch[c].op /\ s \notin apiExternIds /\ ~launch[c].graph
ApiEntry(c, s) ==
  /\ s \in apiExternIds
  /\ \A t \in Threads : opInProgress[t] /\ call[t] # c => Current(t) # s
  /\ \A b \in CorrIds \ {c} : corrIdToExternId[b] # Absent => corrIdToExternId[b].extern # s
EntryOK(c) ==
  Kept(c) /\ corrIdToExternId[c] # Absent =>
    /\ launch[c].op # Absent => HookEntry(c, corrIdToExternId[c].extern)
    /\ launch[c].op = Absent /\ ~launch[c].graph /\ Pending(c) =>
         ApiEntry(c, corrIdToExternId[c].extern)
EntriesOK == \A c \in CorrIds : EntryOK(c)

\* No two launches have a scope in common.
Apart == \A b, c \in CorrIds : b # c /\ Kept(b) /\ Kept(c) =>
           \A s \in Scopes : ~(Claims(b, s) /\ Claims(c, s))
MetricsOK == \A d \in DataObjects : \A m \in metrics[d] :
               m.rec \in delivered /\ (Kept(m.rec.corr) => UnderItsOp(m))
OneKernel == \A c \in CorrIds :
               launch[c] # Absent /\ ~launch[c].graph => launch[c].kernels <= 1
Quiet == ~subscribed => InFlight = {}

OpInv == /\ Used /\ ThreadsOK /\ HooksFree /\ EntriesOK /\ Apart
         /\ MetricsOK /\ OneKernel /\ Quiet

\* What these talk about is typed.
LEMMA OpTypes ==
  ASSUME Types
  PROVE  /\ hook \in [Threads -> HookRecords] /\ call \in [Threads -> CorrIds \cup {Absent}]
         /\ opInProgress \in [Threads -> BOOLEAN] /\ externIdQueue \in [Threads -> Seq(Scopes)]
         /\ lost \in [Threads -> BOOLEAN] /\ nextScope \in Nat /\ calls \in Nat
         /\ \A t \in Threads : opInProgress[t] => Current(t) \in Scopes
         /\ \A t \in Threads : hook[t].seen => hook[t] # NoHook
         /\ \A s \in Scopes : s \in Nat
         /\ apiExternIds \subseteq Scopes
<1>1. /\ hook \in [Threads -> HookRecords] /\ call \in [Threads -> CorrIds \cup {Absent}]
      /\ opInProgress \in [Threads -> BOOLEAN] /\ externIdQueue \in [Threads -> Seq(Scopes)]
      /\ lost \in [Threads -> BOOLEAN]
  BY ThreadTypes
<1>2. /\ nextScope \in 1 .. MaxScopes + 1 /\ calls \in 0 .. MaxCalls
      /\ apiExternIds \subseteq Scopes
  BY DEF Types, TypeOK
<1>3. ASSUME NEW t \in Threads, opInProgress[t] PROVE Current(t) \in Scopes
  <2>1. Len(externIdQueue[t]) = 1
    BY <1>3 DEF Types, QueueOK
  <2>2. externIdQueue[t] \in Seq(Scopes)
    BY <1>1
  <2>3. externIdQueue[t][1] \in Scopes
    BY <2>1, <2>2
  <2> QED
    BY <2>3 DEF Current
<1>4. \A t \in Threads : hook[t].seen => hook[t] # NoHook
  BY DEF NoHook
<1> QED
  BY <1>1, <1>2, <1>3, <1>4, IdsAreNumbers DEF Scopes

\* The launches are the same up to the data they go to.
SameLaunches ==
  \A c \in CorrIds :
    /\ launch'[c] = Absent <=> launch[c] = Absent
    /\ launch[c] # Absent => /\ launch'[c].op = launch[c].op
                             /\ launch'[c].graph = launch[c].graph
                             /\ launch'[c].kernels = launch[c].kernels
                             /\ launch'[c].lost = launch[c].lost

\* Who is kept and what is under its op does not depend on the data of a launch.
LEMMA SameKept ==
  ASSUME Types, RecordsOK, SameLaunches
  PROVE  /\ \A c \in CorrIds : Kept(c)' <=> Kept(c)
         /\ \A d \in DataObjects : \A m \in metrics[d] :
              m.rec \in delivered => (UnderItsOp(m)' <=> UnderItsOp(m))
<1>1. \A c \in CorrIds : Kept(c)' <=> Kept(c)
  BY DEF Kept, SameLaunches
<1>2. ASSUME NEW d \in DataObjects, NEW m \in metrics[d], m.rec \in delivered
      PROVE  UnderItsOp(m)' <=> UnderItsOp(m)
  <2>1. m.rec.corr \in CorrIds /\ launch[m.rec.corr] # Absent
    BY <1>2, CountTypes DEF RecordsOK, Records
  <2> QED
    BY <2>1 DEF SameLaunches, UnderItsOp
<1> QED
  BY <1>1, <1>2

\* Steps that leave threads, entries and metrics alone.
LEMMA OpFrame ==
  ASSUME Types, RecordsOK, OpInv,
         UNCHANGED <<nextScope, threadVars, lost, calls, apiExternIds,
                     corrIdToExternId, metrics>>,
         delivered \subseteq delivered', InFlight' \subseteq InFlight, SameLaunches,
         ~subscribed' => InFlight' = {}
  PROVE  OpInv'
<1>1. \A c \in CorrIds : \A s : Claims(c, s)' <=> Claims(c, s)
  BY DEF Claims
<1>2. \A c \in CorrIds : Kept(c)' <=> Kept(c)
  BY SameKept
<1>3. \A c \in CorrIds : Pending(c)' => Pending(c)
  BY DEF Pending
<1>4. \A t \in Threads : (Offers(t)' <=> Offers(t)) /\ Current(t)' = Current(t)
  BY DEF Offers, Current, threadVars
<1>5. UNCHANGED <<hook, call, opInProgress, externIdQueue>>
  BY DEF threadVars
<1>6. Used'
  BY <1>1, <1>4, <1>5 DEF OpInv, Used
<1>7. ThreadsOK'
  <2> SUFFICES ASSUME NEW t \in Threads PROVE ThreadOK(t)'
    BY DEF ThreadsOK
  <2>1. call[t] # Absent => (launch'[call[t]] = Absent <=> launch[call[t]] = Absent)
    BY OpTypes DEF SameLaunches
  <2> QED
    BY <1>4, <1>5, <2>1 DEF OpInv, ThreadsOK, ThreadOK
<1>8. HooksFree'
  BY <1>1, <1>2, <1>4, <1>5 DEF OpInv, HooksFree
<1>9. EntriesOK'
  <2> SUFFICES ASSUME NEW c \in CorrIds, Kept(c)', corrIdToExternId[c] # Absent
               PROVE  EntryOK(c)'
    BY DEF EntriesOK, EntryOK
  <2>1. Kept(c) /\ launch[c] # Absent
    BY <1>2 DEF Kept
  <2>2. EntryOK(c)
    BY DEF OpInv, EntriesOK
  <2>3. launch'[c].op = launch[c].op /\ launch'[c].graph = launch[c].graph
    BY <2>1 DEF SameLaunches
  <2>4. \A s : /\ HookEntry(c, s)' <=> HookEntry(c, s)
               /\ ApiEntry(c, s)' <=> ApiEntry(c, s)
    BY <1>4, <1>5, <2>3 DEF HookEntry, ApiEntry
  <2> QED
    BY <1>3, <2>1, <2>2, <2>3, <2>4 DEF EntryOK
<1>10. Apart'
  BY <1>1, <1>2 DEF OpInv, Apart
<1>11. MetricsOK'
  <2> SUFFICES ASSUME NEW d \in DataObjects, NEW m \in metrics[d]
               PROVE  m.rec \in delivered' /\ (Kept(m.rec.corr)' => UnderItsOp(m)')
    BY DEF MetricsOK
  <2>1. m.rec \in delivered /\ (Kept(m.rec.corr) => UnderItsOp(m))
    BY DEF OpInv, MetricsOK
  <2>2. m.rec.corr \in CorrIds
    BY CountTypes, <2>1 DEF Records
  <2> QED
    BY <1>2, <2>1, <2>2, SameKept
<1>12. OneKernel'
  BY DEF OpInv, OneKernel, SameLaunches
<1>13. Quiet'
  BY DEF Quiet
<1> QED
  BY <1>6, <1>7, <1>8, <1>9, <1>10, <1>11, <1>12, <1>13 DEF OpInv

\* Steps of one thread that launch nothing; what they make of its own op is checked by
\* the caller.
LEMMA OpThread ==
  ASSUME Types, OpInv, NEW t \in Threads,
         UNCHANGED <<apiExternIds, corrIdToExternId, metrics, launch, running, forced,
                     worker, delivered, subscribed>>,
         \A u \in Threads \ {t} :
           /\ hook'[u] = hook[u] /\ call'[u] = call[u] /\ lost'[u] = lost[u]
           /\ opInProgress'[u] = opInProgress[u] /\ externIdQueue'[u] = externIdQueue[u],
         nextScope' \in Nat, nextScope <= nextScope',
         ThreadOK(t)',
         \A u \in Threads : call'[u] # Absent => call'[u] <= calls',
         opInProgress'[t] => \/ Current(t)' = nextScope /\ nextScope < nextScope'
                             \/ Current(t)' = Current(t) /\ opInProgress[t],
         \A c \in CorrIds : Pending(c) /\ opInProgress'[t] /\ call'[t] # c =>
                              Current(t)' = nextScope \/ (opInProgress[t] /\ call[t] # c),
         \/ ~hook'[t].seen
         \/ /\ hook[t].seen /\ hook'[t].scope = hook[t].scope
            /\ hook[t].launched => hook'[t].launched
         \/ hook'[t].scope = nextScope /\ nextScope \in Scopes /\ nextScope < nextScope'
  PROVE  OpInv'
<1>1. InFlight' = InFlight /\ Quiet'
  BY DEF InFlight, Quiet, OpInv
<1>2. /\ \A c \in CorrIds : \A s : Claims(c, s)' <=> Claims(c, s)
      /\ \A c \in CorrIds : Kept(c)' <=> Kept(c)
      /\ \A c \in CorrIds : Pending(c)' <=> Pending(c)
  BY <1>1 DEF Claims, Kept, Pending
<1>3. \A u \in Threads \ {t} : (Offers(u)' <=> Offers(u)) /\ Current(u)' = Current(u)
  BY DEF Offers, Current
<1>4. Offers(t)' => \/ Offers(t) /\ hook'[t].scope = hook[t].scope
                    \/ hook'[t].scope = nextScope /\ nextScope \in Scopes
  BY DEF Offers
<1>5. Used'
  <2>1. /\ \A c \in CorrIds : \A s \in Scopes : Claims(c, s) => s < nextScope'
        /\ \A s \in apiExternIds : s < nextScope'
    BY OpTypes DEF OpInv, Used
  <2>2. ASSUME NEW u \in Threads
        PROVE  /\ opInProgress'[u] => Current(u)' < nextScope'
               /\ hook'[u].seen => hook'[u].scope \in Scopes /\ hook'[u].scope < nextScope'
    <3>1. /\ opInProgress[u] => Current(u) < nextScope'
          /\ hook[u].seen => hook[u].scope \in Scopes /\ hook[u].scope < nextScope'
      <4>1. /\ opInProgress[u] => Current(u) \in Nat /\ Current(u) < nextScope
            /\ hook[u].seen => hook[u].scope \in Scopes /\ hook[u].scope < nextScope
        BY OpTypes DEF OpInv, Used
      <4> QED
        BY <4>1, OpTypes
    <3>2. CASE u = t
      BY <3>1, <3>2
    <3>3. CASE u # t
      BY <1>3, <3>1, <3>3
    <3> QED
      BY <3>2, <3>3
  <2> QED
    BY <1>2, <2>1, <2>2 DEF Used
<1>6. ThreadsOK'
  <2>1. ASSUME NEW u \in Threads \ {t} PROVE ThreadOK(u)'
    BY <1>3 DEF OpInv, ThreadsOK, ThreadOK
  <2> QED
    BY <2>1 DEF ThreadsOK
<1>7. HooksFree'
  <2>1. /\ \A c \in CorrIds : ~Claims(c, nextScope) \/ nextScope \notin Scopes
        /\ nextScope \notin apiExternIds
        /\ \A u \in Threads : Offers(u) => hook[u].scope # nextScope
    BY OpTypes DEF OpInv, Used, Offers
  <2> SUFFICES ASSUME NEW u \in Threads, Offers(u)'
               PROVE  /\ hook'[u].scope \notin apiExternIds
                      /\ \A c \in CorrIds : Kept(c) => ~Claims(c, hook'[u].scope)
                      /\ \A v \in Threads \ {u} : Offers(v)' => hook'[v].scope # hook'[u].scope
    BY <1>2 DEF HooksFree
  <2>2. CASE u # t
    <3>1. Offers(u) /\ hook'[u].scope = hook[u].scope
      BY <1>3, <2>2
    <3>2. \A v \in Threads \ {u} : Offers(v)' => hook'[v].scope # hook'[u].scope
      BY <1>3, <1>4, <2>1, <3>1 DEF OpInv, HooksFree
    <3> QED
      BY <3>1, <3>2 DEF OpInv, HooksFree
  <2>3. CASE u = t
    <3>1. CASE Offers(t) /\ hook'[t].scope = hook[t].scope
      BY <1>3, <2>3, <3>1 DEF OpInv, HooksFree
    <3>2. CASE hook'[t].scope = nextScope /\ nextScope \in Scopes
      BY <1>3, <2>1, <2>3, <3>2
    <3> QED
      BY <1>4, <2>3, <3>1, <3>2
  <2> QED
    BY <2>2, <2>3
<1>8. EntriesOK'
  <2> SUFFICES ASSUME NEW c \in CorrIds, Kept(c), corrIdToExternId[c] # Absent PROVE EntryOK(c)'
    BY <1>2 DEF EntriesOK, EntryOK
  <2> DEFINE s == corrIdToExternId[c].extern
  <2>1. EntryOK(c)
    BY DEF OpInv, EntriesOK
  <2>2. HookEntry(c, s)' <=> HookEntry(c, s)
    BY DEF HookEntry
  <2>3. ASSUME ApiEntry(c, s), Pending(c) PROVE ApiEntry(c, s)'
    <3>1. \A u \in Threads : opInProgress'[u] /\ call'[u] # c => Current(u)' # s
      <4>1. s # nextScope
        BY <2>3, OpTypes DEF ApiEntry, OpInv, Used
      <4>2. ASSUME NEW u \in Threads, opInProgress'[u], call'[u] # c PROVE Current(u)' # s
        <5>1. CASE u = t
          BY <2>3, <4>1, <4>2, <5>1 DEF ApiEntry
        <5>2. CASE u # t
          BY <1>3, <2>3, <4>2, <5>2 DEF ApiEntry
        <5> QED
          BY <5>1, <5>2
      <4> QED
        BY <4>2
    <3> QED
      BY <2>3, <3>1 DEF ApiEntry
  <2> QED
    BY <1>2, <2>1, <2>2, <2>3 DEF EntryOK
<1>9. Apart'
  BY <1>2 DEF OpInv, Apart
<1>10. MetricsOK' /\ OneKernel'
  BY <1>2 DEF OpInv, MetricsOK, OneKernel, Kept, UnderItsOp
<1> QED
  BY <1>1, <1>5, <1>6, <1>7, <1>8, <1>9, <1>10 DEF OpInv

\* Calls do not change where no call begins or ends.
LEMMA CallsBounded ==
  ASSUME Types, OpInv, calls' = calls,
         \A u \in Threads : call'[u] = call[u] \/ call'[u] = Absent
  PROVE  \A u \in Threads : call'[u] # Absent => call'[u] <= calls'
  BY DEF OpInv, Used

\* LaunchHook.enter opens the op of its scope unless nothing collects.
LEMMA OpEnter ==
  ASSUME Types, OpInv, NEW t \in Threads, EnterOp(t)
  PROVE  OpInv'
<1> DEFINE seen == dataSet # {}
<1>0. seen \in BOOLEAN
  OBVIOUS
<1>1. /\ hook[t] = NoHook /\ call[t] = Absent /\ nextScope' = nextScope + 1
      /\ hook' = [hook EXCEPT ![t] = [scope |-> nextScope, seen |-> seen, launched |-> FALSE]]
      /\ UNCHANGED <<call, corrVars, subscribed, metrics, cuptiVars, launch, lost, delivered,
                     calls>>
  BY DEF EnterOp
<1> HIDE DEF seen
<1>2. nextScope \in Scopes /\ nextScope \in Nat
  BY NextScopeIsScope DEF EnterOp
<1>3. /\ hook'[t] = [scope |-> nextScope, seen |-> seen, launched |-> FALSE]
      /\ \A u \in Threads \ {t} : hook'[u] = hook[u]
  BY <1>1, OpTypes
<1>4. hook'[t].scope = nextScope /\ (hook'[t].seen <=> seen) /\ ~hook'[t].launched
  <2>1. hook'[t].scope = nextScope /\ hook'[t].seen = seen /\ hook'[t].launched = FALSE
    BY <1>3
  <2> QED
    BY <1>0, <2>1
<1>5. hook'[t].seen => hook'[t].scope = nextScope
  BY <1>4
<1>6. ~lost[t] => ~opInProgress[t]
  BY <1>1 DEF OpInv, ThreadsOK, ThreadOK, Offers, NoHook
<1>7. CASE seen /\ StartsOp(t)
  <2>1. StartOp(t, nextScope)
    BY <1>7 DEF EnterOp, seen
  <2>2. /\ externIdQueue'[t] = <<nextScope>> /\ opInProgress'[t]
        /\ \A u \in Threads \ {t} : /\ externIdQueue'[u] = externIdQueue[u]
                                    /\ opInProgress'[u] = opInProgress[u]
    BY <1>2, <1>7, <2>1, StartOpTypes
  <2>3. Current(t)' = nextScope
    BY <2>2 DEF Current
  <2>4. ThreadOK(t)'
    BY <1>1, <1>4, <1>7, <2>2, <2>3 DEF ThreadOK, Offers
  <2> QED
    BY <1>1, <1>2, <1>3, <1>5, <2>2, <2>3, <2>4, OpThread, CallsBounded DEF corrVars, cuptiVars
<1>8. CASE ~(seen /\ StartsOp(t))
  <2>1. UNCHANGED <<opInProgress, externIdQueue>>
    BY <1>8 DEF EnterOp, seen
  <2>2. Current(t)' = Current(t)
    BY <2>1 DEF Current
  <2>3. ThreadOK(t)'
    BY <1>1, <1>4, <1>6, <1>8, <2>1 DEF ThreadOK, Offers, StartsOp
  <2> QED
    BY <1>1, <1>2, <1>3, <1>5, <2>1, <2>2, <2>3, OpThread, CallsBounded DEF corrVars, cuptiVars
<1> QED
  BY <1>7, <1>8

\* LaunchHook.exit closes the op, or loses its end when nothing collects.
LEMMA OpExit ==
  ASSUME Types, OpInv, NEW t \in Threads, ExitOp(t)
  PROVE  OpInv'
<1>1. /\ hook[t] # NoHook /\ call[t] = Absent /\ hook' = [hook EXCEPT ![t] = NoHook]
      /\ UNCHANGED <<nextScope, call, corrVars, subscribed, dataVars, cuptiVars, launch,
                     delivered, calls>>
  BY DEF ExitOp
<1>2. /\ hook'[t] = NoHook /\ \A u \in Threads \ {t} : hook'[u] = hook[u]
      /\ nextScope \in Nat
  BY <1>1, OpTypes
<1>3. ~hook'[t].seen
  BY <1>2 DEF NoHook
<1>4. CASE dataSet # {}
  <2>1. EndOp(t) /\ lost' = [lost EXCEPT ![t] = FALSE]
    BY <1>4 DEF ExitOp
  <2>2. /\ ~opInProgress'[t]
        /\ \A u \in Threads \ {t} : /\ externIdQueue'[u] = externIdQueue[u]
                                    /\ opInProgress'[u] = opInProgress[u]
                                    /\ lost'[u] = lost[u]
    BY <2>1, EndOpTypes, OpTypes
  <2>3. ThreadOK(t)'
    BY <1>1, <1>2, <1>3, <2>2 DEF ThreadOK, Offers
  <2> QED
    BY <1>1, <1>2, <1>3, <2>2, <2>3, OpThread, CallsBounded DEF corrVars, cuptiVars, dataVars
<1>5. CASE dataSet = {}
  <2> DEFINE gone == lost[t] \/ (hook[t].seen /\ ~hook[t].launched)
  <2>1. /\ UNCHANGED <<opInProgress, externIdQueue>>
        /\ lost' = [lost EXCEPT ![t] = gone]
    BY <1>5 DEF ExitOp
  <2>2. (lost'[t] <=> gone) /\ \A u \in Threads \ {t} : lost'[u] = lost[u]
    BY <2>1, OpTypes
  <2>3. ~lost'[t] => ~opInProgress[t]
    BY <1>1, <2>2 DEF OpInv, ThreadsOK, ThreadOK, Offers
  <2>4. ThreadOK(t)' /\ Current(t)' = Current(t)
    BY <1>1, <1>2, <1>3, <2>1, <2>3 DEF ThreadOK, Offers, Current
  <2> QED
    BY <1>1, <1>2, <1>3, <2>1, <2>2, <2>4, OpThread, CallsBounded DEF corrVars, cuptiVars, dataVars
<1> QED
  BY <1>4, <1>5

\* A launch that raises loses the end of a dispatched hook's op.
LEMMA OpRaises ==
  ASSUME Types, OpInv, NEW t \in Threads, LaunchRaises(t)
  PROVE  OpInv'
<1> DEFINE gone == lost[t] \/ hook[t].seen
<1>1. /\ hook[t] # NoHook /\ call[t] = Absent /\ ~hook[t].launched
      /\ hook' = [hook EXCEPT ![t] = NoHook] /\ lost' = [lost EXCEPT ![t] = gone]
      /\ UNCHANGED <<nextScope, call, opInProgress, externIdQueue, corrVars, subscribed,
                     dataVars, cuptiVars, launch, delivered, calls>>
  BY DEF LaunchRaises
<1>2. /\ hook'[t] = NoHook /\ \A u \in Threads \ {t} : hook'[u] = hook[u]
      /\ nextScope \in Nat
      /\ (lost'[t] <=> gone) /\ \A u \in Threads \ {t} : lost'[u] = lost[u]
  BY <1>1, OpTypes
<1>3. ~hook'[t].seen
  BY <1>2 DEF NoHook
<1>4. ~lost'[t] => ~opInProgress[t]
  BY <1>1, <1>2 DEF OpInv, ThreadsOK, ThreadOK, Offers
<1>5. ThreadOK(t)' /\ Current(t)' = Current(t)
  BY <1>1, <1>2, <1>3, <1>4 DEF ThreadOK, Offers, Current
<1> QED
  BY <1>1, <1>2, <1>3, <1>5, OpThread, CallsBounded DEF corrVars, cuptiVars, dataVars

\* The end of a call closes the op, or is lost when CUPTI is unsubscribed - but then no
\* record is on its way.
LEMMA OpCallExit ==
  ASSUME Types, OpInv, NEW t \in Threads, CallExit(t)
  PROVE  OpInv'
<1>1. /\ call[t] # Absent /\ call' = [call EXCEPT ![t] = Absent]
      /\ UNCHANGED <<nextScope, hook, corrIdToExternId, apiExternIds, subscribed, dataVars,
                     cuptiVars, launch, delivered, calls>>
  BY DEF CallExit
<1>2. call'[t] = Absent /\ (\A u \in Threads \ {t} : call'[u] = call[u]) /\ nextScope \in Nat
  BY <1>1, OpTypes
<1>3. ~Offers(t)' /\ (hook[t].seen => hook[t].launched)
  <2>1. hook[t].seen => hook[t].launched
    BY <1>1 DEF OpInv, ThreadsOK, ThreadOK
  <2>2. ~Offers(t)
    BY <2>1, OpTypes DEF Offers
  <2> QED
    BY <1>1, <2>1, <2>2 DEF Offers
<1>4. CASE subscribed
  <2>1. EndOp(t) /\ lost' = [lost EXCEPT ![t] = FALSE]
    BY <1>4 DEF CallExit
  <2>2. /\ ~opInProgress'[t]
        /\ \A u \in Threads \ {t} : /\ externIdQueue'[u] = externIdQueue[u]
                                    /\ opInProgress'[u] = opInProgress[u]
                                    /\ lost'[u] = lost[u]
    BY <2>1, EndOpTypes, OpTypes
  <2>3. ThreadOK(t)'
    BY <1>1, <1>2, <1>3, <2>2 DEF ThreadOK
  <2> QED
    BY <1>1, <1>2, <2>2, <2>3, OpThread, CallsBounded DEF cuptiVars, dataVars
<1>5. CASE ~subscribed
  <2> DEFINE gone == lost[t] \/ hook[t].seen \/ launch[call[t]] # Absent
  <2>1. UNCHANGED <<opInProgress, externIdQueue>> /\ lost' = [lost EXCEPT ![t] = gone]
    BY <1>5 DEF CallExit
  <2>2. (lost'[t] <=> gone) /\ \A u \in Threads \ {t} : lost'[u] = lost[u]
    BY <2>1, OpTypes
  <2>3. ~lost'[t] => ~opInProgress[t]
    BY <1>1, <2>2 DEF OpInv, ThreadsOK, ThreadOK
  <2>4. ThreadOK(t)' /\ Current(t)' = Current(t)
    BY <1>1, <1>2, <1>3, <2>1, <2>3 DEF ThreadOK, Current
  <2>5. \A c \in CorrIds : ~Pending(c)
    BY <1>5 DEF OpInv, Quiet, Pending
  <2> QED
    BY <1>1, <1>2, <2>1, <2>2, <2>4, <2>5, OpThread, CallsBounded DEF cuptiVars, dataVars
<1> QED
  BY <1>4, <1>5

\* A launch that CUPTI does not report leaves its thread's op as it was.
LEMMA OpUnseen ==
  ASSUME Types, OpInv, NEW t \in Threads, NEW isGraph, NEW kernels,
         CallEnter(t, isGraph, kernels), ~subscribed
  PROVE  OpInv'
<1> DEFINE inHook == hook[t] # NoHook
<1>1. /\ call[t] = Absent /\ ~hook[t].launched /\ calls' = calls + 1 /\ calls < MaxCalls
      /\ call' = [call EXCEPT ![t] = calls + 1]
      /\ hook' = [hook EXCEPT ![t].launched = inHook]
      /\ UNCHANGED <<nextScope, opInProgress, externIdQueue, apiExternIds, corrIdToExternId,
                     running, launch, subscribed, metrics, forced, worker, lost, delivered>>
  BY DEF CallEnter
<1>2. inHook \in BOOLEAN
  OBVIOUS
<1> HIDE DEF inHook
<1>3. /\ call'[t] = calls + 1 /\ \A u \in Threads \ {t} : call'[u] = call[u]
      /\ hook'[t].scope = hook[t].scope /\ (hook'[t].seen <=> hook[t].seen)
      /\ (hook'[t].launched <=> inHook)
      /\ \A u \in Threads \ {t} : hook'[u] = hook[u]
      /\ calls \in Nat /\ nextScope \in Nat /\ calls + 1 \in CorrIds
  <2>1. hook[t] \in HookRecords /\ hook' = [hook EXCEPT ![t] = [hook[t] EXCEPT !.launched = inHook]]
    BY <1>1, OpTypes
  <2>2. /\ hook'[t] = [hook[t] EXCEPT !.launched = inHook]
        /\ \A u \in Threads \ {t} : hook'[u] = hook[u]
    BY <2>1, OpTypes
  <2>3. /\ hook'[t].scope = hook[t].scope /\ hook'[t].seen = hook[t].seen
        /\ hook'[t].launched = inHook
    BY <2>1, <2>2 DEF HookRecords
  <2>4. calls \in 0 .. MaxCalls /\ MaxCalls \in Nat
    BY IdsAreNumbers DEF Types, TypeOK
  <2>5. calls + 1 \in CorrIds
    BY <1>1, <2>4 DEF CorrIds
  <2> QED
    BY <1>1, <2>2, <2>3, <2>5, OpTypes
<1>4. hook[t].seen => inHook
  BY OpTypes DEF inHook
<1>5. ~hook[t].seen /\ ~lost[t] => ~opInProgress[t]
  BY <1>1 DEF OpInv, ThreadsOK, ThreadOK, Offers
<1>6. ThreadOK(t)'
  <2>1. call'[t] # Absent
    BY <1>3, IdsAreNumbers
  <2> QED
    BY <1>1, <1>3, <1>4, <1>5, <2>1 DEF ThreadOK
<1>7. \A u \in Threads : call'[u] # Absent => call'[u] <= calls'
  <2>1. \A u \in Threads \ {t} : call[u] # Absent => call[u] \in Nat /\ call[u] <= calls
    BY OpTypes DEF OpInv, Used, CorrIds
  <2> QED
    BY <1>1, <1>3, <2>1
<1>8. \A c \in CorrIds : ~Pending(c)
  BY DEF OpInv, Quiet, Pending
<1>9. Current(t)' = Current(t)
  BY <1>1 DEF Current
<1> QED
  BY <1>1, <1>3, <1>6, <1>7, <1>8, <1>9, OpThread

\* A launch that CUPTI reports: what it does to its thread, and which scope it takes.
LEMMA OpTaken ==
  ASSUME Types, OpInv, NEW t \in Threads, NEW isGraph \in BOOLEAN,
         NEW kernels \in 0 .. (1 + MaxNodes), CallEnter(t, isGraph, kernels), subscribed,
         NEW c \in CorrIds, c = calls + 1
  PROVE  /\ call[t] = Absent /\ ~hook[t].launched /\ calls' = calls + 1
         /\ call'[t] = c /\ \A u \in Threads \ {t} : call'[u] = call[u]
         /\ \A u \in Threads \ {t} : hook'[u] = hook[u]
         /\ hook'[t].scope = hook[t].scope /\ (hook'[t].seen <=> hook[t].seen)
         /\ hook'[t].seen => hook'[t].launched
         /\ opInProgress'[t] /\ Current(t)' = Opened(t)
         /\ \A u \in Threads \ {t} : /\ opInProgress'[u] = opInProgress[u]
                                     /\ Current(u)' = Current(u)
         /\ nextScope' \in Nat /\ nextScope <= nextScope' /\ Opened(t) < nextScope'
         /\ apiExternIds \subseteq apiExternIds'
         /\ apiExternIds' \subseteq apiExternIds \cup {nextScope}
         /\ \A s \in apiExternIds' : s < nextScope'
         /\ \/ /\ Opened(t) = nextScope /\ Opened(t) \in apiExternIds' /\ ~opInProgress[t]
            \/ /\ Opened(t) = Current(t) /\ opInProgress[t] /\ apiExternIds' = apiExternIds
         /\ ~lost[t] => IF hook[t].seen THEN opInProgress[t] /\ Opened(t) = hook[t].scope
                                        ELSE ~opInProgress[t]
         /\ UNCHANGED <<subscribed, metrics, lost, delivered, forced, worker>>
<1> DEFINE inHook == hook[t] # NoHook
<1>1. /\ call[t] = Absent /\ ~hook[t].launched /\ calls' = calls + 1
      /\ call' = [call EXCEPT ![t] = c]
      /\ hook' = [hook EXCEPT ![t].launched = inHook]
      /\ UNCHANGED <<subscribed, metrics, forced, worker, lost, delivered>>
  BY DEF CallEnter
<1>2. inHook \in BOOLEAN
  OBVIOUS
<1> HIDE DEF inHook
<1>3. hook[t] \in HookRecords /\ hook'[t] = [hook[t] EXCEPT !.launched = inHook]
      /\ \A u \in Threads \ {t} : hook'[u] = hook[u]
  BY <1>1, OpTypes
<1>4. /\ hook'[t].scope = hook[t].scope /\ (hook'[t].seen <=> hook[t].seen)
      /\ hook'[t].seen => hook'[t].launched
  <2>1. /\ hook'[t].scope = hook[t].scope /\ hook'[t].seen = hook[t].seen
        /\ hook'[t].launched = inHook
    BY <1>3 DEF HookRecords
  <2>2. hook[t].seen => inHook
    BY OpTypes DEF inHook
  <2> QED
    BY <2>1, <2>2
<1>5. call'[t] = c /\ \A u \in Threads \ {t} : call'[u] = call[u]
  BY <1>1, OpTypes
<1>6. ~lost[t] => IF hook[t].seen THEN opInProgress[t] /\ Current(t) = hook[t].scope
                                  ELSE ~opInProgress[t]
  BY <1>1 DEF OpInv, ThreadsOK, ThreadOK, Offers
<1>7. /\ Opened(t) \in Scopes /\ externIdQueue'[t] = <<Opened(t)>> /\ opInProgress'[t]
      /\ \A u \in Threads \ {t} : externIdQueue'[u] = externIdQueue[u]
      /\ StartsOp(t) => /\ nextScope' = nextScope + 1
                        /\ apiExternIds' = apiExternIds \cup {nextScope}
      /\ ~StartsOp(t) => UNCHANGED <<nextScope, apiExternIds>>
  BY CallEnterSubscribed
<1>8. \A u \in Threads \ {t} : opInProgress'[u] = opInProgress[u]
  <2>1. CASE StartsOp(t)
    BY <2>1, OpTypes DEF CallEnter, StartOp
  <2>2. CASE ~StartsOp(t)
    BY <2>2 DEF CallEnter
  <2> QED
    BY <2>1, <2>2
<1>9. Current(t)' = Opened(t) /\ \A u \in Threads \ {t} : Current(u)' = Current(u)
  BY <1>7 DEF Current
<1>10. (StartsOp(t) <=> ~opInProgress[t])
       /\ Opened(t) = IF StartsOp(t) THEN nextScope ELSE Current(t)
  BY DEF StartsOp, Opened, Current
<1>11. /\ nextScope \in Nat /\ \A s \in apiExternIds : s \in Nat /\ s < nextScope
       /\ opInProgress[t] => Current(t) < nextScope
  BY OpTypes DEF OpInv, Used
<1>12. /\ nextScope' \in Nat /\ nextScope <= nextScope' /\ Opened(t) < nextScope'
       /\ \A s \in apiExternIds' : s < nextScope'
  BY <1>7, <1>10, <1>11
<1>13. /\ apiExternIds \subseteq apiExternIds'
       /\ apiExternIds' \subseteq apiExternIds \cup {nextScope}
       /\ \/ /\ Opened(t) = nextScope /\ Opened(t) \in apiExternIds' /\ ~opInProgress[t]
          \/ /\ Opened(t) = Current(t) /\ opInProgress[t] /\ apiExternIds' = apiExternIds
  BY <1>7, <1>10
<1>14. ~lost[t] => IF hook[t].seen THEN opInProgress[t] /\ Opened(t) = hook[t].scope
                                   ELSE ~opInProgress[t]
  BY <1>6, <1>10
<1> QED
  BY <1>1, <1>3, <1>4, <1>5, <1>7, <1>8, <1>9, <1>12, <1>13, <1>14

\* A reported launch that is kept takes a scope no other kept launch has: the one of its
\* hook, or a new one.
LEMMA OpLaunch ==
  ASSUME Types, FreshInv, OpInv, NEW t \in Threads, NEW isGraph \in BOOLEAN,
         NEW kernels \in 0 .. (1 + MaxNodes), CallEnter(t, isGraph, kernels), subscribed,
         isGraph => hook[t] = NoHook, ~isGraph => kernels <= 1
  PROVE  OpInv'
<1> DEFINE info == Info(t, isGraph, kernels)
           new == {[corr |-> calls + 1, kernel |-> k] : k \in 1 .. kernels}
<1>0. PICK o \in Scopes : o = Opened(t)
  BY CallEnterSubscribed
<1>1. PICK c \in CorrIds : c = calls + 1
  <2>1. calls < MaxCalls
    BY DEF CallEnter
  <2> QED
    BY <2>1, CountTypes, IdsAreNumbers DEF CorrIds
<1>2. /\ o \in Scopes /\ running' = running \cup new
      /\ launch'[c] = info /\ launch'[c] # Absent
      /\ corrIdToExternId'[c] = Entry(t, isGraph) /\ corrIdToExternId'[c] # Absent
      /\ \A b \in CorrIds \ {c} : /\ launch'[b] = launch[b]
                                  /\ corrIdToExternId'[b] = corrIdToExternId[b]
      /\ \A r \in InFlight \cup delivered : r.corr \in CorrIds \ {c}
  BY <1>1, LaunchSteps
<1>3. /\ call[t] = Absent /\ ~hook[t].launched /\ calls' = calls + 1
      /\ call'[t] = c /\ \A u \in Threads \ {t} : call'[u] = call[u]
      /\ \A u \in Threads \ {t} : hook'[u] = hook[u]
      /\ hook'[t].scope = hook[t].scope /\ (hook'[t].seen <=> hook[t].seen)
      /\ hook'[t].seen => hook'[t].launched
      /\ UNCHANGED <<subscribed, metrics, lost, delivered, forced, worker>>
  BY <1>0, <1>1, OpTaken
<1>4. /\ opInProgress'[t] /\ Current(t)' = o
      /\ \A u \in Threads \ {t} : /\ opInProgress'[u] = opInProgress[u]
                                  /\ Current(u)' = Current(u)
  BY <1>0, <1>1, OpTaken
<1>5. /\ nextScope' \in Nat /\ nextScope <= nextScope' /\ o < nextScope'
      /\ apiExternIds \subseteq apiExternIds'
      /\ apiExternIds' \subseteq apiExternIds \cup {nextScope}
      /\ \A s \in apiExternIds' : s < nextScope'
  BY <1>0, <1>1, OpTaken
<1>6. /\ \/ o = nextScope /\ o \in apiExternIds' /\ ~opInProgress[t]
         \/ o = Current(t) /\ opInProgress[t] /\ apiExternIds' = apiExternIds
      /\ ~lost[t] => IF hook[t].seen THEN opInProgress[t] /\ o = hook[t].scope
                                     ELSE ~opInProgress[t]
  BY <1>0, <1>1, OpTaken
<1>7. /\ info.graph = isGraph /\ info.kernels = kernels /\ info.lost = lost[t]
      /\ info.op = IF hook[t].seen THEN hook[t].scope ELSE Absent
      /\ Entry(t, isGraph).extern = o
  BY <1>0 DEF Info, Entry
<1>8. /\ \A u \in Threads : hook[u].seen => hook[u].scope \in Scopes /\ hook[u].scope < nextScope
      /\ \A u \in Threads : opInProgress[u] => Current(u) < nextScope
      /\ \A b \in CorrIds : \A s \in Scopes : Claims(b, s) => s < nextScope
      /\ nextScope \in Nat /\ \A s \in Scopes : s \in Nat
  BY OpTypes DEF OpInv, Used
<1>9. hook[t].seen => ~isGraph /\ hook[t].scope # Absent /\ Offers(t)
  <2>1. hook[t].seen => hook[t] # NoHook
    BY OpTypes
  <2> QED
    BY <1>3, <1>8, <2>1, IdsAreNumbers DEF Offers
<1>10. /\ ~Offers(t)' /\ \A u \in Threads \ {t} : Offers(u)' <=> Offers(u)
  BY <1>3 DEF Offers
<1> HIDE DEF info, new
<1>11. /\ \A b \in CorrIds \ {c} : /\ \A s : Claims(b, s)' <=> Claims(b, s)
                                   /\ Kept(b)' <=> Kept(b)
                                   /\ Pending(b)' <=> Pending(b)
       /\ \A s : Claims(c, s)' => s = o
       /\ Kept(c)' => ~lost[t]
  <2>1. \A r \in new : r.corr = c
    BY <1>1 DEF new
  <2>2. InFlight' = InFlight \cup new
    BY <1>2, <1>3 DEF InFlight
  <2>3. \A b \in CorrIds \ {c} : Pending(b)' <=> Pending(b)
    BY <2>1, <2>2 DEF Pending
  <2>4. \A b \in CorrIds \ {c} : Kept(b)' <=> Kept(b)
    BY <1>2 DEF Kept
  <2>5. \A b \in CorrIds \ {c} : \A s : Claims(b, s)' <=> Claims(b, s)
    BY <1>2, <1>3 DEF Claims
  <2>6. \A d \in DataObjects : \A m \in metrics[d] : m.rec.corr # c
    BY <1>2 DEF OpInv, MetricsOK
  <2>7. \A s : Claims(c, s)' => s = o
    BY <1>2, <1>3, <1>7, <2>6 DEF Claims
  <2>8. Kept(c)' => ~lost[t]
    BY <1>2, <1>7 DEF Kept
  <2> QED
    BY <2>3, <2>4, <2>5, <2>7, <2>8
<1>12. ~lost[t] => /\ hook[t].seen => o = hook[t].scope /\ apiExternIds' = apiExternIds
                   /\ ~hook[t].seen => o = nextScope /\ o \in apiExternIds'
  BY <1>6
<1>13. ~lost[t] => \A b \in CorrIds : Kept(b) => ~Claims(b, o)
  <2>1. CASE hook[t].seen
    BY <1>9, <1>12, <2>1 DEF OpInv, HooksFree
  <2>2. CASE ~hook[t].seen
    BY <1>2, <1>8, <1>12, <2>2
  <2> QED
    BY <2>1, <2>2
<1>14. Used'
  <2>1. \A b \in CorrIds : \A s \in Scopes : Claims(b, s)' => s < nextScope'
    <3>1. ASSUME NEW b \in CorrIds, NEW s \in Scopes, Claims(b, s)' PROVE s < nextScope'
      <4>1. CASE b = c
        BY <1>5, <1>11, <3>1, <4>1
      <4>2. CASE b # c
        BY <1>5, <1>8, <1>11, <3>1, <4>2
      <4> QED
        BY <4>1, <4>2
    <3> QED
      BY <3>1
  <2>2. \A u \in Threads : opInProgress'[u] => Current(u)' < nextScope'
    <3>1. \A u \in Threads : opInProgress[u] => Current(u) \in Nat
      BY OpTypes
    <3> QED
      BY <1>4, <1>5, <1>8, <3>1
  <2>3. \A u \in Threads : hook'[u].seen => hook'[u].scope \in Scopes /\ hook'[u].scope < nextScope'
    <3>1. \A u \in Threads : /\ hook'[u].scope = hook[u].scope
                             /\ hook'[u].seen <=> hook[u].seen
      BY <1>3
    <3> QED
      BY <1>5, <1>8, <3>1
  <2>4. \A u \in Threads : call'[u] # Absent => call'[u] <= calls'
    <3>1. \A u \in Threads \ {t} : call[u] # Absent => call[u] \in Nat /\ call[u] <= calls
      BY OpTypes DEF OpInv, Used, CorrIds
    <3> QED
      <4>1. \A u \in Threads \ {t} : call'[u] # Absent => call'[u] <= calls + 1
        BY <1>3, <3>1, OpTypes
      <4>2. call'[t] <= calls + 1
        BY <1>1, <1>3, OpTypes
      <4> QED
        BY <1>3, <4>1, <4>2
  <2> QED
    BY <1>5, <2>1, <2>2, <2>3, <2>4 DEF Used
<1>15. ThreadsOK'
  <2> SUFFICES ASSUME NEW u \in Threads PROVE ThreadOK(u)'
    BY DEF ThreadsOK
  <2>1. CASE u = t
    <3>1. c # Absent
      BY IdsAreNumbers
    <3> QED
      BY <1>2, <1>3, <2>1, <3>1 DEF ThreadOK
  <2>2. CASE u # t
    <3>1. call[u] # Absent => call[u] \in CorrIds \ {c}
      <4>1. call[u] # Absent => call[u] \in CorrIds /\ call[u] \in Nat /\ call[u] <= calls
        BY OpTypes DEF OpInv, Used, CorrIds
      <4> QED
        BY <1>1, <4>1, OpTypes
    <3>2. call[u] # Absent => launch'[call[u]] = launch[call[u]]
      BY <1>2, <3>1
    <3> QED
      BY <1>3, <1>4, <1>10, <2>2, <3>2 DEF OpInv, ThreadsOK, ThreadOK
  <2> QED
    BY <2>1, <2>2
<1>16. HooksFree'
  <2> SUFFICES ASSUME NEW u \in Threads, Offers(u)'
               PROVE  /\ hook'[u].scope \notin apiExternIds'
                      /\ \A b \in CorrIds : Kept(b)' => ~Claims(b, hook[u].scope)'
                      /\ \A v \in Threads \ {u} : Offers(v)' => hook'[v].scope # hook'[u].scope
    BY DEF HooksFree
  <2>1. u # t /\ Offers(u) /\ hook'[u] = hook[u]
    BY <1>3, <1>10
  <2>2. hook[u].scope \in Scopes /\ hook[u].scope < nextScope /\ hook[u].scope \in Nat
    BY <1>8, <2>1 DEF Offers
  <2>3. hook'[u].scope \notin apiExternIds'
    BY <1>5, <1>8, <2>1, <2>2 DEF OpInv, HooksFree
  <2>4. ~lost[t] => o # hook[u].scope
    <3>1. CASE hook[t].seen
      BY <1>9, <1>12, <2>1, <3>1 DEF OpInv, HooksFree
    <3>2. CASE ~hook[t].seen
      BY <1>8, <1>12, <2>2, <3>2
    <3> QED
      BY <3>1, <3>2
  <2>5. ASSUME NEW b \in CorrIds, Kept(b)' PROVE ~Claims(b, hook[u].scope)'
    <3>1. CASE b = c
      BY <1>11, <2>1, <2>4, <2>5, <3>1
    <3>2. CASE b # c
      <4>1. \A s : Claims(b, s)' <=> Claims(b, s)
        BY <1>11, <3>2
      <4>2. Kept(b) /\ ~Claims(b, hook[u].scope)
        BY <1>11, <2>1, <2>5, <3>2 DEF OpInv, HooksFree
      <4> QED
        BY <1>2, <1>3, <2>1, <3>2, <4>2 DEF Claims
    <3> QED
      BY <3>1, <3>2
  <2>6. \A v \in Threads \ {u} : Offers(v)' => hook'[v].scope # hook'[u].scope
    BY <1>3, <1>10, <2>1 DEF OpInv, HooksFree
  <2> QED
    BY <2>3, <2>5, <2>6

<1>17. ASSUME NEW b \in CorrIds \ {c}, EntryOK(b) PROVE EntryOK(b)'
  <2> SUFFICES ASSUME Kept(b), corrIdToExternId[b] # Absent PROVE EntryOK(b)'
    BY <1>2, <1>11 DEF EntryOK
  <2>0. PICK s \in Scopes : s = corrIdToExternId[b].extern
    BY CountTypes, AbsentAssumption DEF Entries
  <2>1. s < nextScope /\ s # nextScope
    BY <1>8, <2>0 DEF Claims
  <2>2. s \in apiExternIds' <=> s \in apiExternIds
    BY <1>5, <2>1
  <2>3. corrIdToExternId'[b] = corrIdToExternId[b] /\ launch'[b] = launch[b]
    BY <1>2
  <2>4. HookEntry(b, s) => HookEntry(b, s)'
    BY <2>2, <2>3 DEF HookEntry
  <2>5. ASSUME ApiEntry(b, s) PROVE ApiEntry(b, s)'
    <3>1. o # s
      BY <1>3, <1>6, <2>1, <2>5, IdsAreNumbers DEF ApiEntry
    <3>2. \A u \in Threads : opInProgress'[u] /\ call'[u] # b => Current(u)' # s
      BY <1>3, <1>4, <2>5, <3>1 DEF ApiEntry
    <3>3. \A e \in CorrIds \ {b} :
            corrIdToExternId'[e] # Absent => corrIdToExternId'[e].extern # s
      BY <1>2, <1>7, <2>5, <3>1 DEF ApiEntry
    <3> QED
      BY <2>2, <2>3, <2>5, <3>2, <3>3 DEF ApiEntry
  <2> QED
    BY <1>11, <1>17, <2>0, <2>3, <2>4, <2>5 DEF EntryOK
<1>18. EntryOK(c)'
  <2> SUFFICES ASSUME Kept(c)'
               PROVE  /\ info.op # Absent => HookEntry(c, o)'
                      /\ info.op = Absent /\ ~info.graph => ApiEntry(c, o)'
    BY <1>2, <1>7 DEF EntryOK
  <2>1. ~lost[t]
    BY <1>11
  <2>2. CASE hook[t].seen
    <3>1. info.op = hook[t].scope /\ o = info.op /\ ~isGraph /\ info.op # Absent
      BY <1>7, <1>9, <1>12, <2>1, <2>2
    <3>2. o \notin apiExternIds'
      BY <1>9, <1>12, <2>1, <2>2 DEF OpInv, HooksFree
    <3> QED
      BY <1>2, <1>7, <3>1, <3>2 DEF HookEntry
  <2>3. CASE ~hook[t].seen
    <3>1. info.op = Absent /\ o = nextScope /\ o \in apiExternIds'
      BY <1>7, <1>12, <2>1, <2>3
    <3>2. \A u \in Threads : opInProgress'[u] /\ call'[u] # c => Current(u)' # o
      <4>1. \A u \in Threads \ {t} : opInProgress[u] => Current(u) \in Nat
        BY OpTypes
      <4> QED
        BY <1>3, <1>4, <1>8, <3>1, <4>1
    <3>3. ASSUME NEW e \in CorrIds \ {c}, corrIdToExternId'[e] # Absent
          PROVE  corrIdToExternId'[e].extern # o
      <4>1. corrIdToExternId'[e] = corrIdToExternId[e]
        BY <1>2
      <4>2. corrIdToExternId[e].extern \in Scopes
        BY <3>3, <4>1, CountTypes, AbsentAssumption DEF Entries
      <4>3. corrIdToExternId[e].extern < nextScope
        BY <1>8, <3>3, <4>1, <4>2 DEF Claims
      <4> QED
        BY <1>8, <3>1, <4>1, <4>2, <4>3
    <3> QED
      BY <3>1, <3>2, <3>3 DEF ApiEntry
  <2> QED
    BY <2>2, <2>3
<1>19. EntriesOK'
  <2>1. \A b \in CorrIds : EntryOK(b)
    BY DEF OpInv, EntriesOK
  <2> QED
    BY <1>17, <1>18, <2>1 DEF EntriesOK
<1>20. Apart'
  <2> SUFFICES ASSUME NEW a \in CorrIds, NEW b \in CorrIds, a # b, Kept(a)', Kept(b)',
                      NEW s \in Scopes
               PROVE  ~(Claims(a, s)' /\ Claims(b, s)')
    BY DEF Apart
  <2>1. CASE a # c /\ b # c
    BY <1>11, <2>1 DEF OpInv, Apart
  <2>2. CASE a = c
    BY <1>11, <1>13, <2>2
  <2>3. CASE b = c
    BY <1>11, <1>13, <2>3
  <2> QED
    BY <2>1, <2>2, <2>3
<1>21. MetricsOK'
  <2> SUFFICES ASSUME NEW d \in DataObjects, NEW m \in metrics[d]
               PROVE  m.rec \in delivered /\ (Kept(m.rec.corr)' => UnderItsOp(m)')
    BY <1>3 DEF MetricsOK
  <2>1. m.rec \in delivered /\ (Kept(m.rec.corr) => UnderItsOp(m))
    BY DEF OpInv, MetricsOK
  <2>2. m.rec.corr \in CorrIds \ {c}
    BY <1>2, <2>1
  <2>3. launch'[m.rec.corr] = launch[m.rec.corr]
    BY <1>2, <2>2
  <2>4. UnderItsOp(m)' <=> UnderItsOp(m)
    BY <2>3 DEF UnderItsOp
  <2> QED
    BY <1>11, <2>1, <2>2, <2>4
<1>22. OneKernel'
  <2>1. \A b \in CorrIds \ {c} : launch'[b] # Absent /\ ~launch'[b].graph => launch'[b].kernels <= 1
    BY <1>2 DEF OpInv, OneKernel
  <2>2. ~launch'[c].graph => launch'[c].kernels <= 1
    BY <1>2, <1>7
  <2> QED
    BY <2>1, <2>2 DEF OneKernel
<1>23. Quiet'
  BY <1>3 DEF Quiet
<1> QED
  BY <1>14, <1>15, <1>16, <1>19, <1>20, <1>21, <1>22, <1>23 DEF OpInv

\* The import of a record puts it where its launch's entry says: on the op of its hook, or
\* below the op of its own call.
LEMMA OpImport ==
  ASSUME Types, RecordsOK, OpInv, NEW r \in worker.buffer, ImportRecord(r)
  PROVE  OpInv'
<1>1. PICK c \in CorrIds : c = r.corr /\ r \in Records
  BY CountTypes DEF Records
<1>2. /\ delivered' = delivered \cup {r} /\ InFlight' = InFlight \ {r} /\ r \in InFlight
      /\ UNCHANGED <<nextScope, threadVars, lost, calls, launch, subscribed>>
  <2>1. /\ worker' = [worker EXCEPT !.buffer = worker.buffer \ {r},
                                    !.max = Larger(worker.max, r.corr)]
        /\ delivered' = delivered \cup {r}
        /\ UNCHANGED <<nextScope, threadVars, lost, calls, launch, subscribed, running, forced>>
    BY ImportSteps
  <2>2. worker'.buffer = worker.buffer \ {r}
    BY <2>1, WorkerType DEF WorkerRecords
  <2>3. r \notin running \cup forced
    BY DEF RecordsOK
  <2> QED
    BY <2>1, <2>2, <2>3 DEF InFlight
<1>3. CASE corrIdToExternId[c] = Absent
  <2>1. UNCHANGED <<metrics, apiExternIds, corrIdToExternId>>
    BY <1>1, <1>3, ImportSteps
  <2>2. SameLaunches /\ (~subscribed' => InFlight' = {})
    BY <1>2 DEF SameLaunches, OpInv, Quiet
  <2> QED
    BY <1>2, <2>1, <2>2, OpFrame
<1>4. CASE corrIdToExternId[c] # Absent
  <2>1. PICK x \in Scopes : x = corrIdToExternId[c].extern
    BY <1>4, CountTypes DEF Entries
  <2>2. corrIdToExternId[c] \in Entries
    BY <1>4, CountTypes
  <2>3. /\ metrics' = [d \in DataObjects |->
             IF r \notin incomplete /\ d \in Takers(r, x)
             THEN metrics[d] \cup {[rec |-> r, scope |-> x, child |-> IsChild(r, x)]}
             ELSE metrics[d]]
        /\ apiExternIds' = apiExternIds \ {x}
        /\ corrIdToExternId' = [corrIdToExternId EXCEPT ![c] = Consumed(c)]
    <3>1. /\ metrics' = [d \in DataObjects |->
               IF r \notin incomplete /\ d \in Takers(r, corrIdToExternId[r.corr].extern)
               THEN metrics[d] \cup {[rec |-> r, scope |-> corrIdToExternId[r.corr].extern,
                                      child |-> IsChild(r, corrIdToExternId[r.corr].extern)]}
               ELSE metrics[d]]
          /\ apiExternIds' = apiExternIds \ {corrIdToExternId[r.corr].extern}
          /\ corrIdToExternId' = [corrIdToExternId EXCEPT ![r.corr] = Consumed(r.corr)]
      BY <1>1, <1>4, ImportSteps
    <3> QED
      BY <1>1, <2>1, <3>1
  <2> DEFINE m0 == [rec |-> r, scope |-> x, child |-> IsChild(r, x)]
  <2>4. \A d \in DataObjects : metrics[d] \subseteq metrics'[d] /\ metrics'[d] \subseteq metrics[d] \cup {m0}
    BY <2>3
  <2>5. /\ \A b \in CorrIds \ {c} : corrIdToExternId'[b] = corrIdToExternId[b]
        /\ corrIdToExternId'[c] # Absent => corrIdToExternId'[c].extern = x
    <3>1. corrIdToExternId'[c] = Consumed(c)
      BY <2>3, CountTypes
    <3>2. Consumed(c) # Absent => Consumed(c).extern = x
      BY <2>1, <2>2 DEF Consumed, Entries
    <3> QED
      BY <2>3, <3>1, <3>2, CountTypes
  <2>6. /\ m0.rec = r /\ m0.scope = x /\ (m0.child <=> IsChild(r, x))
    <3> DEFINE child == IsChild(r, x)
    <3>1. child \in BOOLEAN
      BY DEF IsChild
    <3> HIDE DEF child
    <3>2. [rec |-> r, scope |-> x, child |-> child].child <=> child
      BY <3>1
    <3> QED
      BY <3>2 DEF child
  <2>7. /\ \A b \in CorrIds : \A s : Claims(b, s)' => Claims(b, s)
        /\ \A b \in CorrIds : Kept(b)' <=> Kept(b)
        /\ \A b \in CorrIds : Pending(b)' => Pending(b)
    <3>1. ASSUME NEW b \in CorrIds, NEW s, Claims(b, s)' PROVE Claims(b, s)
      <4>1. CASE corrIdToExternId'[b] # Absent /\ corrIdToExternId'[b].extern = s
        BY <1>4, <2>1, <2>5, <4>1 DEF Claims
      <4>2. ASSUME NEW d \in DataObjects, NEW m \in metrics'[d], m.rec.corr = b, m.scope = s
            PROVE  Claims(b, s)
        <5> HIDE DEF m0
        <5>1. m \in metrics[d] \/ m = m0
          BY <2>4
        <5> QED
          BY <1>1, <1>4, <2>1, <2>6, <4>2, <5>1 DEF Claims
      <4> QED
        BY <3>1, <4>1, <4>2 DEF Claims
    <3> QED
      BY <1>2, <3>1 DEF Kept, Pending
  <2> HIDE DEF m0
  <2>8. ~launch[c].graph => ~Pending(c)'
    <3>1. launch[c] # Absent /\ r.kernel <= launch[c].kernels /\ r.kernel >= 1
      BY <1>1, <1>2, IdsAreNumbers DEF RecordsOK, Records
    <3> SUFFICES ASSUME ~launch[c].graph, NEW q \in InFlight, q.corr = c PROVE q = r
      BY <1>2 DEF Pending
    <3>2. launch[c].kernels <= 1 /\ launch[c].kernels \in Nat
      BY <3>1, MissingIsFinite, IdsAreNumbers DEF OpInv, OneKernel
    <3>3. q \in Records /\ q.kernel <= launch[c].kernels
      BY CountTypes DEF InFlight, RecordsOK
    <3>4. q.kernel \in Nat /\ r.kernel \in Nat /\ q.kernel >= 1
      BY <1>1, <3>3, IdsAreNumbers DEF Records
    <3>5. q.kernel = 1 /\ r.kernel = 1
      BY <3>1, <3>2, <3>3, <3>4
    <3> QED
      BY <1>1, <3>3, <3>5 DEF Records
  <2>9. \A t \in Threads : (Offers(t)' <=> Offers(t)) /\ Current(t)' = Current(t)
    BY <1>2 DEF Offers, Current, threadVars
  <2>10. UNCHANGED <<hook, call, opInProgress, externIdQueue>>
    BY <1>2 DEF threadVars
  <2>11. Used'
    BY <1>2, <2>3, <2>7, <2>9, <2>10 DEF OpInv, Used
  <2>12. ThreadsOK'
    BY <1>2, <2>9, <2>10 DEF OpInv, ThreadsOK, ThreadOK
  <2>13. HooksFree'
    BY <2>3, <2>7, <2>9, <2>10 DEF OpInv, HooksFree
  <2>14. EntriesOK'
    <3> SUFFICES ASSUME NEW b \in CorrIds, Kept(b), corrIdToExternId'[b] # Absent
                 PROVE  EntryOK(b)'
      BY <2>7 DEF EntriesOK, EntryOK
    <3>1. corrIdToExternId[b] # Absent /\ corrIdToExternId'[b].extern = corrIdToExternId[b].extern
      BY <1>4, <2>1, <2>5
    <3>2. PICK s \in Scopes : s = corrIdToExternId[b].extern
      BY <3>1, CountTypes DEF Entries
    <3>3. EntryOK(b)
      BY DEF OpInv, EntriesOK
    <3>4. HookEntry(b, s) => HookEntry(b, s)'
      BY <1>2, <2>3 DEF HookEntry
    <3>5. ASSUME ApiEntry(b, s), b # c PROVE ApiEntry(b, s)'
      <4>1. s # x
        BY <1>4, <2>1, <3>5 DEF ApiEntry
      <4>2. \A a \in CorrIds \ {b} :
              corrIdToExternId'[a] # Absent => corrIdToExternId'[a].extern # s
        BY <1>4, <2>1, <2>5, <3>5 DEF ApiEntry
      <4> QED
        BY <2>3, <2>9, <2>10, <3>5, <4>1, <4>2 DEF ApiEntry
    <3> QED
      BY <1>2, <2>7, <2>8, <3>1, <3>2, <3>3, <3>4, <3>5 DEF EntryOK
  <2>15. Apart'
    BY <2>7 DEF OpInv, Apart
  <2>16. MetricsOK'
    <3> SUFFICES ASSUME NEW d \in DataObjects, NEW m \in metrics'[d]
                 PROVE  m.rec \in delivered' /\ (Kept(m.rec.corr)' => UnderItsOp(m)')
      BY DEF MetricsOK
    <3>1. UnderItsOp(m)' <=> UnderItsOp(m)
      BY <1>2 DEF UnderItsOp
    <3>2. CASE m \in metrics[d]
      BY <1>2, <3>1, <3>2 DEF OpInv, MetricsOK, Kept
    <3>3. CASE m = m0
      <4>1. m.rec = r /\ m.scope = x /\ (m.child <=> IsChild(r, x))
        BY <2>6, <3>3
      <4>2. Kept(c) => EntryOK(c) /\ Pending(c)
        BY <1>1, <1>2 DEF OpInv, EntriesOK, Pending
      <4>3. Kept(c) => UnderItsOp(m)
        BY <1>1, <1>4, <2>1, <4>1, <4>2 DEF UnderItsOp, EntryOK, HookEntry, ApiEntry, IsChild
      <4> QED
        BY <1>1, <1>2, <2>7, <3>1, <4>1, <4>3
    <3> QED
      BY <2>4, <3>2, <3>3
  <2>17. OneKernel' /\ Quiet'
    BY <1>2 DEF OpInv, OneKernel, Quiet
  <2> QED
    BY <2>11, <2>12, <2>13, <2>14, <2>15, <2>16, <2>17 DEF OpInv
<1> QED
  BY <1>3, <1>4

\* Every step keeps the ops apart.
LEMMA OpNext ==
  Types /\ DataKnown /\ FreshInv /\ CountInv /\ OpInv /\ [Next]_vars => OpInv'
<1> SUFFICES ASSUME Types, DataKnown, FreshInv, CountInv, OpInv, [Next]_vars PROVE OpInv'
  OBVIOUS
<1>0. RecordsOK
  BY DEF CountInv
<1>1. ASSUME UNCHANGED <<nextScope, threadVars, lost, calls, apiExternIds,
                         corrIdToExternId, metrics, launch, delivered, subscribed>>,
             InFlight' \subseteq InFlight
      PROVE  OpInv'
  <2>1. SameLaunches /\ (~subscribed' => InFlight' = {})
    BY <1>1 DEF SameLaunches, OpInv, Quiet
  <2> QED
    BY <1>0, <1>1, <2>1, OpFrame
<1>2. CASE UNCHANGED vars
  BY <1>1, <1>2 DEF vars, corrVars, dataVars, cuptiVars, history, InFlight
<1>3. ASSUME NEW t \in Threads, Thread(t) PROVE OpInv'
  <2>1. CASE LaunchKernel(t) \/ LaunchGraph(t)
    <3>1. PICK isGraph \in BOOLEAN, kernels \in 0 .. (1 + MaxNodes) :
            /\ CallEnter(t, isGraph, kernels)
            /\ isGraph => hook[t] = NoHook
            /\ ~isGraph => kernels <= 1
      BY <2>1, LaunchKinds
    <3> QED
      BY <3>1, OpLaunch, OpUnseen
  <2> QED
    BY <1>3, <2>1, OpEnter, OpExit, OpRaises, OpCallExit DEF Thread
<1>4. CASE Graph
  BY <1>1, <1>4 DEF Graph, GraphNodeCreated, GraphNodeDestroyed, GraphExecCreated,
     GraphDestroyed, graphOnly, corrVars, dataVars, cuptiVars, history, InFlight
<1>5. ASSUME NEW B \in SUBSET (running \cup forced), BufferCompletes(B) PROVE OpInv'
  <2>1. InFlight' \subseteq InFlight
    BY <1>5 DEF BufferCompletes, InFlight
  <2> QED
    BY <1>1, <1>5, <2>1 DEF BufferCompletes, corrVars, dataVars, history
<1>6. CASE BufferDone
  <2>1. InFlight' \subseteq InFlight
    BY <1>6 DEF BufferDone, NoWorker, InFlight
  <2> QED
    BY <1>1, <1>6, <2>1 DEF BufferDone, dataVars, history
<1>7. ASSUME NEW r \in worker.buffer, ImportRecord(r) PROVE OpInv'
  BY <1>0, <1>7, OpImport
<1>8. CASE Flush \/ Lifecycle
  <2>1. SessionStep
    BY <1>8 DEF Flush, Lifecycle, SessionStep
  <2>2. UNCHANGED <<nextScope, threadVars, lost, calls, apiExternIds,
                    corrIdToExternId, metrics, delivered, worker>>
    BY <2>1, SessionSteps DEF sessionOnly
  <2>3. InFlight' \subseteq InFlight
    BY <2>1, <2>2, SessionSteps DEF InFlight
  <2>4. SameLaunches
    <3>1. CASE Unregister
      <4>1. launch' = [c \in CorrIds |-> IF launch[c] = Absent THEN Absent ELSE
                         [launch[c] EXCEPT !.sinks = launch[c].sinks \ {session.data}]]
        BY <3>1 DEF Unregister
      <4> SUFFICES ASSUME NEW c \in CorrIds
                   PROVE  /\ launch'[c] = Absent <=> launch[c] = Absent
                          /\ launch[c] # Absent => /\ launch'[c].op = launch[c].op
                                                   /\ launch'[c].graph = launch[c].graph
                                                   /\ launch'[c].kernels = launch[c].kernels
                                                   /\ launch'[c].lost = launch[c].lost
        BY DEF SameLaunches
      <4>2. CASE launch[c] = Absent
        BY <4>1, <4>2
      <4>3. CASE launch[c] # Absent
        <5> DEFINE l == [launch[c] EXCEPT !.sinks = launch[c].sinks \ {session.data}]
        <5>1. launch[c] \in LaunchInfos
          BY <4>3, CountTypes
        <5>2. l \in LaunchInfos /\ launch'[c] = l
          BY <4>1, <4>3, <5>1 DEF LaunchInfos
        <5>3. l.op = launch[c].op /\ l.graph = launch[c].graph
          BY <5>1 DEF LaunchInfos
        <5>4. l.kernels = launch[c].kernels /\ l.lost = launch[c].lost
          BY <5>1 DEF LaunchInfos
        <5> HIDE DEF l
        <5> QED
          BY <4>3, <5>2, <5>3, <5>4, AbsentAssumption
      <4> QED
        BY <4>2, <4>3
    <3>2. CASE ~Unregister
      <4>1. launch' = launch
        BY <2>1, <3>2 DEF SessionStep, Attach, Detach, FlushFirst, FlushRetry, FlushReturns,
           FlushForced, Register, Stop
      <4> QED
        BY <4>1 DEF SameLaunches
    <3> QED
      BY <3>1, <3>2
  <2>5. ~subscribed' => InFlight' = {}
    <3>1. CASE Stop
      BY <2>2, <3>1 DEF Stop, InFlight, FreshInv, IdleWorker
    <3>2. CASE ~Stop
      <4>1. subscribed' = subscribed \/ subscribed'
        BY <2>1, <3>2 DEF SessionStep, Attach, Detach, FlushFirst, FlushRetry, FlushReturns,
           FlushForced, Register, Unregister
      <4> QED
        BY <2>3, <4>1 DEF OpInv, Quiet
    <3> QED
      BY <3>1, <3>2
  <2> QED
    BY <1>0, <2>2, <2>3, <2>4, <2>5, OpFrame
<1> QED
  BY <1>2, <1>3, <1>4, <1>5, <1>6, <1>7, <1>8 DEF Next, Worker

\* A kernel launched inside a hook's op is recorded on that op, any other one below an op
\* of its own, which no two launches share, as long as its thread saw the end of its
\* previous op - whatever launches, imports and sessions come in between.
THEOREM KernelsGoUnderTheirOp == Spec => []KernelsUnderTheirOp
<1>1. Init => OpInv
  <2> SUFFICES ASSUME Init PROVE OpInv
    OBVIOUS
  <2>1. \A t \in Threads : hook[t] = NoHook /\ ~hook[t].seen /\ ~opInProgress[t] /\ call[t] = Absent
    BY DEF Init, NoHook
  <2>2. \A c \in CorrIds : corrIdToExternId[c] = Absent /\ launch[c] = Absent
    BY DEF Init
  <2>3. \A d \in DataObjects : metrics[d] = {}
    BY DEF Init
  <2>4. Used
    BY <2>1, <2>2, <2>3 DEF Init, Used, Claims
  <2>5. ThreadsOK /\ HooksFree
    BY <2>1 DEF ThreadsOK, ThreadOK, HooksFree, Offers
  <2>6. EntriesOK /\ Apart /\ MetricsOK /\ OneKernel
    BY <2>2, <2>3 DEF EntriesOK, EntryOK, Apart, MetricsOK, OneKernel, Kept
  <2>7. Quiet
    BY DEF Init, Quiet, InFlight, NoWorker
  <2> QED
    BY <2>4, <2>5, <2>6, <2>7 DEF OpInv
<1>2. Types /\ CountInv /\ OpInv => KernelsUnderTheirOp
  <2> SUFFICES ASSUME Types, CountInv, OpInv, NEW d \in DataObjects, NEW m \in metrics[d],
                      ~launch[m.rec.corr].lost
               PROVE  /\ UnderItsOp(m)
                      /\ \A n \in metrics[d] :
                           n.scope = m.scope /\ ~launch[n.rec.corr].lost =>
                             n.rec.corr = m.rec.corr
    BY DEF KernelsUnderTheirOp
  <2>1. ASSUME NEW n \in metrics[d]
        PROVE  /\ n.rec.corr \in CorrIds /\ n.scope \in Scopes /\ n.rec \in delivered
               /\ launch[n.rec.corr] # Absent /\ Claims(n.rec.corr, n.scope)
    <3>1. n \in Metrics /\ n.rec \in delivered
      BY CountTypes DEF OpInv, MetricsOK
    <3>2. n.rec.corr \in CorrIds /\ n.scope \in Scopes /\ launch[n.rec.corr] # Absent
      BY <3>1 DEF Metrics, Records, CountInv, RecordsOK
    <3> QED
      BY <3>1, <3>2 DEF Claims
  <2>2. Kept(m.rec.corr) /\ UnderItsOp(m)
    BY <2>1 DEF OpInv, MetricsOK, Kept
  <2>3. ASSUME NEW n \in metrics[d], n.scope = m.scope, ~launch[n.rec.corr].lost
        PROVE  n.rec.corr = m.rec.corr
    BY <2>1, <2>2, <2>3 DEF OpInv, Apart, Kept
  <2> QED
    BY <2>2, <2>3
<1>3. Spec => [](Types /\ DataKnown /\ FreshInv /\ CountInv)
  BY FreshHolds, CountHolds, PTL
<1> QED
  BY <1>1, <1>2, <1>3, OpNext, PTL DEF Spec

----------------------------------------------------------------------------
(* Vendor events.                                                           *)

\* The vendor event of a record is taken from the api ids as they stand before the import
\* erases one of them, as the place of its metric is.
LEMMA VendorImport ==
  ASSUME Types, VendorScopesMatch, NEW r \in worker.buffer, ImportRecord(r)
  PROVE  VendorScopesMatch'
<1>1. PICK e : e = corrIdToExternId[r.corr].extern
  OBVIOUS
<1>2. PICK child : child = IsChild(r, e)
  OBVIOUS
<1>3. child \in BOOLEAN
  BY <1>2 DEF IsChild
<1> DEFINE m0 == [rec |-> r, scope |-> e, child |-> child]
           event(m) == [rec |-> m.rec, scope |-> IF m.child THEN Absent ELSE m.scope]
<1>4. vendorEvents \subseteq vendorEvents'
  BY DEF ImportRecord
<1>5. ASSUME corrIdToExternId[r.corr] # Absent, r \notin incomplete
      PROVE  event(m0) \in vendorEvents'
  <2>1. [rec |-> r, scope |-> VendorScope(r, corrIdToExternId[r.corr].extern)] \in vendorEvents'
    BY <1>5 DEF ImportRecord
  <2>2. VendorScope(r, e) = IF child THEN Absent ELSE e
    BY <1>2 DEF VendorScope
  <2>3. m0.rec = r /\ m0.child = child /\ m0.scope = e
    OBVIOUS
  <2> QED
    BY <1>1, <2>1, <2>2, <2>3
<1>6. ASSUME NEW d \in DataObjects, NEW m \in metrics'[d]
      PROVE  \/ m \in metrics[d]
             \/ m = m0 /\ corrIdToExternId[r.corr] # Absent /\ r \notin incomplete
  <2>1. CASE corrIdToExternId[r.corr] = Absent
    BY <1>6, <2>1, ImportSteps
  <2>2. CASE corrIdToExternId[r.corr] # Absent
    <3>1. metrics' = [b \in DataObjects |->
               IF r \notin incomplete /\ b \in Takers(r, corrIdToExternId[r.corr].extern)
               THEN metrics[b] \cup {[rec |-> r, scope |-> corrIdToExternId[r.corr].extern,
                                      child |-> IsChild(r, corrIdToExternId[r.corr].extern)]}
               ELSE metrics[b]]
      BY <2>2, ImportSteps
    <3> QED
      BY <1>1, <1>2, <1>6, <2>2, <3>1
  <2> QED
    BY <2>1, <2>2
<1> HIDE DEF m0
<1> SUFFICES ASSUME NEW d \in DataObjects, NEW m \in metrics'[d]
             PROVE  event(m) \in vendorEvents'
  BY DEF VendorScopesMatch
<1>7. m \in metrics[d] => event(m) \in vendorEvents
  BY DEF VendorScopesMatch
<1> QED
  BY <1>4, <1>5, <1>6, <1>7

\* A metric of a kernel and the vendor event of its record name the same scope: the event
\* carries one exactly where the metric is on that scope itself and not on a child.
THEOREM VendorEventsMatch == Spec => []VendorScopesMatch
<1>1. Init => VendorScopesMatch
  BY DEF Init, VendorScopesMatch
<1>2. Types /\ DataKnown /\ VendorScopesMatch /\ [Next]_vars => VendorScopesMatch'
  <2> SUFFICES ASSUME Types, DataKnown, VendorScopesMatch, [Next]_vars PROVE VendorScopesMatch'
    OBVIOUS
  <2>1. ASSUME UNCHANGED <<metrics, vendorEvents>> PROVE VendorScopesMatch'
    BY <2>1 DEF VendorScopesMatch
  <2>2. CASE UNCHANGED vars
    BY <2>1, <2>2 DEF vars, dataVars
  <2>3. ASSUME NEW t \in Threads, ThreadStep(t) PROVE VendorScopesMatch'
    BY <2>1, <2>3 DEF ThreadStep, EnterOp, ExitOp, LaunchRaises, CallExit, CallEnter, dataVars
  <2>4. CASE Graph
    BY <2>1, <2>4 DEF Graph, GraphNodeCreated, GraphNodeDestroyed, GraphExecCreated,
       GraphDestroyed, graphOnly, dataVars
  <2>5. CASE BufferDone \/ \E B \in SUBSET (running \cup forced) : BufferCompletes(B)
    BY <2>1, <2>5 DEF BufferDone, BufferCompletes, dataVars
  <2>6. CASE SessionStep
    BY <2>1, <2>6, SessionSteps DEF sessionOnly
  <2> QED
    BY <2>2, <2>3, <2>4, <2>5, <2>6, VendorImport, StepKinds DEF AnyStep
<1> QED
  BY <1>1, <1>2, TypesHold, PTL DEF Spec
================================================================================
