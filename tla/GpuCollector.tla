---------------------------- MODULE GpuCollector ----------------------------
(***************************************************************************)
(* The CUPTI collector: how a kernel that some thread launches becomes a   *)
(* metric of the Data objects of the active sessions                       *)
(* (Profiler/csrc/include/Profiler/GPUProfiler.h, lib/Profiler/Cupti/      *)
(* CuptiProfiler.cpp, include/Context/Context.h and the scope map of       *)
(* lib/Data/TreeData.cpp).                                                 *)
(*                                                                         *)
(* Four kinds of process interleave: application threads, which open ops   *)
(* from the launch hook and launch kernels; the device, which runs them;   *)
(* the CUPTI worker, which imports completed activity buffers record by    *)
(* record; and one session call at a time (attach, detach, stop), which    *)
(* flushes the collector while it holds the GIL and the manager's lock.    *)
(*                                                                         *)
(* A launch is identified by its CUPTI correlation id.  A runtime call and *)
(* the driver call nested in it report the same id; their callbacks are    *)
(* idempotent after the first, and are one CallEnter and one CallExit.     *)
(***************************************************************************)
EXTENDS Integers, Sequences, FiniteSets

CONSTANTS
  Threads,        \* application threads
  DataObjects,    \* the Data objects sessions register
  MaxAttach,      \* bound: session activations
  MaxOps,         \* bound: ops the launch hook opens
  MaxCalls,       \* bound: launches, hence correlation ids
  MaxNodes,       \* bound: kernel nodes of the CUDA graph
  MaxRetries,     \* maxRetries of Correlation::flush
  MaxRaises,      \* bound: launches that raise before the driver call
  KeepsScopes,    \* the Data of vendor sessions: deactivate does not clear them
  ManyInstances,  \* numeric_limits<size_t>::max(), "unknown graph"
  Absent          \* "no such key" / no scope

ASSUME CollectorAssumptions ==
  /\ {MaxAttach, MaxOps, MaxCalls, MaxNodes, MaxRetries, MaxRaises} \subseteq Nat
  /\ ManyInstances \in Nat /\ ManyInstances > 2 * (1 + MaxNodes)
  /\ KeepsScopes \subseteq DataObjects
  /\ Absent \notin Nat

MaxScopes == MaxOps + MaxCalls
Scopes    == 1 .. MaxScopes
CorrIds   == 1 .. MaxCalls
Records   == [corr : CorrIds, kernel : 1 .. (1 + MaxNodes)]
Metrics   == [rec : Records, scope : Scopes, child : BOOLEAN]
Entries   == [extern : Scopes, left : Nat]   \* of corrIdToExternId
LaunchInfos == [op : Scopes \cup {Absent}, graph : BOOLEAN, kernels : 0 .. (1 + MaxNodes),
                partly : BOOLEAN, lost : BOOLEAN, sinks : SUBSET DataObjects]

ASSUME AbsentAssumption == Absent \notin Entries /\ Absent \notin LaunchInfos

VARIABLES
  nextScope,      \* Scope::scopeIdCounter
  hook,           \* per thread: the launch-hook op it is inside, and whether
                  \*   the manager dispatched it to the collector
  call,           \* per thread: the launch it is inside, or Absent
  opInProgress,   \* OpInterface::opInProgress (thread_local)
  externIdQueue,  \* Correlation::externIdQueue (thread_local)
  corrIdToExternId, apiExternIds,
  maxSubmitted, maxCompleted,
  graph,          \* the program's CUDA graph and the maps about it
  subscribed,     \* doStart .. doStop: callbacks and activities enabled
  dataSet,        \* Profiler::dataSet
  scopeMap,       \* keys of TreeData::scopeIdToContextId
  metrics,        \* the kernel metrics each Data holds
  vendorEvents,   \* CuptiProfilerPimpl::vendorEvents
  running,        \* CUPTI: records of launched kernels, not handed over
  forced,         \* those a forced flush is handing over
  incomplete,     \* those it took while the kernel still ran
  worker,         \* completeBuffer's locals
  session,        \* the session call in progress
  crashed,        \* a null Metric was dereferenced
  launch, lost, since, delivered, attaches, ops, raises, calls \* history and bounds

threadVars == <<hook, call, opInProgress, externIdQueue>>
corrVars   == <<corrIdToExternId, apiExternIds, maxSubmitted, maxCompleted>>
dataVars   == <<dataSet, scopeMap, metrics, vendorEvents>>
cuptiVars  == <<running, forced, incomplete, worker>>
history    == <<launch, lost, since, delivered, attaches, ops, raises, calls>>
vars == <<nextScope, threadVars, corrVars, graph, subscribed, dataVars,
          cuptiVars, session, crashed, history>>

NoHook    == [scope |-> Absent, seen |-> FALSE, launched |-> FALSE]
NoSession == [do |-> "none", data |-> Absent, pc |-> "none",
              goal |-> 0, retries |-> 0, returned |-> {}]
NoWorker  == [busy |-> FALSE, data |-> {}, buffer |-> {}, max |-> 0]
NoGraph   == [nodes |-> 0, kernels |-> Absent, instances |-> Absent,
              execKnown |-> FALSE, unseen |-> FALSE]

Init ==
  /\ nextScope = 1
  /\ hook = [t \in Threads |-> NoHook]
  /\ call = [t \in Threads |-> Absent]
  /\ opInProgress = [t \in Threads |-> FALSE]
  /\ externIdQueue = [t \in Threads |-> <<>>]
  /\ corrIdToExternId = [c \in CorrIds |-> Absent]
  /\ apiExternIds = {}
  /\ maxSubmitted = 0 /\ maxCompleted = 0
  /\ graph = NoGraph
  /\ subscribed = FALSE
  /\ dataSet = {}
  /\ scopeMap = [d \in DataObjects |-> {}]
  /\ metrics = [d \in DataObjects |-> {}]
  /\ vendorEvents = {}
  /\ running = {} /\ forced = {} /\ incomplete = {}
  /\ worker = NoWorker
  /\ session = NoSession
  /\ crashed = FALSE
  /\ launch = [c \in CorrIds |-> Absent]
  /\ lost = [t \in Threads |-> FALSE]
  /\ since = [d \in DataObjects |-> {}]
  /\ delivered = {}
  /\ attaches = 0 /\ ops = 0 /\ raises = 0 /\ calls = 0

Larger(a, b) == IF a < b THEN b ELSE a   \* atomicMax

\* --n on a size_t.
Less1(n) == IF n = 0 THEN ManyInstances ELSE n - 1

\* The manager's lock is free for the shared holders.
ManagerFree == session.pc = "none"

-----------------------------------------------------------------------------
(* Ops.  OpInterface::enterOp returns early while an op is in progress.    *)

\* Faulty: OpInterface::enterOp without its early return.
StartsOpAlways(t) == TRUE

StartsOp(t) == ~opInProgress[t]

\* OpInterface::enterOp over GPUProfiler::startOp: push the scope id (the
\* callers add it to every data).
StartOp(t, s) ==
  /\ opInProgress' = [opInProgress EXCEPT ![t] = TRUE]
  /\ externIdQueue' = [externIdQueue EXCEPT ![t] = Append(@, s)]

\* OpInterface::exitOp over GPUProfiler::stopOp.
EndOp(t) ==
  IF opInProgress[t]
    THEN /\ opInProgress' = [opInProgress EXCEPT ![t] = FALSE]
         /\ externIdQueue' = [externIdQueue EXCEPT ![t] = Tail(@)]
    ELSE UNCHANGED <<opInProgress, externIdQueue>>

\* Data::addOp of an unseen scope, on every data in D.
AddScope(D, s) == [d \in DataObjects |->
                     IF d \in D THEN scopeMap[d] \cup {s} ELSE scopeMap[d]]

(***************************************************************************)
(* LaunchHook.enter: a new scope id, SessionManager::enterOp under the     *)
(* shared lock.  With no active session nothing is dispatched.             *)
(***************************************************************************)
EnterOp(t) ==
  /\ ManagerFree
  /\ hook[t] = NoHook /\ call[t] = Absent
  /\ ops < MaxOps
  /\ ops' = ops + 1
  /\ nextScope' = nextScope + 1
  /\ hook' = [hook EXCEPT ![t] = [scope |-> nextScope, seen |-> dataSet # {},
                                  launched |-> FALSE]]
  /\ scopeMap' = AddScope(dataSet, nextScope)
  /\ IF dataSet # {} /\ StartsOp(t)
       THEN StartOp(t, nextScope)
       ELSE UNCHANGED <<opInProgress, externIdQueue>>
  /\ UNCHANGED <<call, corrVars, graph, subscribed, dataSet, metrics,
                 vendorEvents, cuptiVars, session, crashed, launch, lost, since,
                 delivered, attaches, raises, calls>>

\* LaunchHook.exit: exitOp reaches the collector while a session is active.
ExitOp(t) ==
  /\ ManagerFree
  /\ hook[t] # NoHook /\ call[t] = Absent
  /\ hook' = [hook EXCEPT ![t] = NoHook]
  /\ IF dataSet # {}
       THEN EndOp(t) /\ lost' = [lost EXCEPT ![t] = FALSE]
       ELSE /\ UNCHANGED <<opInProgress, externIdQueue>>
            /\ lost' = [lost EXCEPT
                 ![t] = @ \/ (hook[t].seen /\ ~hook[t].launched)]
  /\ UNCHANGED <<nextScope, call, corrVars, graph, subscribed, dataVars,
                 cuptiVars, session, crashed, launch, since, delivered, attaches, ops,
                 raises, calls>>

\* The launch raises before it reaches the driver: no exit hook runs.
LaunchRaises(t) ==
  /\ raises < MaxRaises
  /\ hook[t] # NoHook /\ call[t] = Absent /\ ~hook[t].launched
  /\ hook' = [hook EXCEPT ![t] = NoHook]
  /\ lost' = [lost EXCEPT ![t] = @ \/ hook[t].seen]
  /\ raises' = raises + 1
  /\ UNCHANGED <<nextScope, call, opInProgress, externIdQueue, corrVars, graph,
                 subscribed, dataVars, cuptiVars, session, crashed, launch,
                 since, delivered, attaches, ops, calls>>

-----------------------------------------------------------------------------
(* Launches: callbackFn for the runtime and driver API domains.            *)

\* How many kernels the graph launch will report, as far as is known.
GraphInstances ==
  IF graph.execKnown /\ graph.instances # Absent
    THEN graph.instances ELSE ManyInstances

\* Correlation::correlate with the queue q of the launching thread.
Correlate(c, q, n) ==
  corrIdToExternId' =
    IF q = <<>> THEN corrIdToExternId
    ELSE [corrIdToExternId EXCEPT
            ![c] = [extern |-> q[Len(q)], left |-> n]]

(***************************************************************************)
(* CUPTI_API_ENTER and the launch itself.  ThreadState::enterOp opens an   *)
(* op of its own when the launch is not inside a hook's.  The driver may   *)
(* refuse the launch, which then runs no kernel.  Without a subscription   *)
(* there is neither a callback nor a record.                               *)
(***************************************************************************)
CallEnter(t, isGraph, kernels) ==
  LET c == calls + 1
      opens == StartsOp(t)
      queue == IF opens THEN Append(externIdQueue[t], nextScope)
                        ELSE externIdQueue[t]
  IN
  /\ call[t] = Absent /\ ~hook[t].launched
  /\ calls < MaxCalls
  /\ calls' = c
  /\ call' = [call EXCEPT ![t] = c]
  /\ hook' = [hook EXCEPT ![t].launched = (hook[t] # NoHook)]
  /\ IF subscribed
       THEN /\ IF opens
                 THEN /\ StartOp(t, nextScope)
                      /\ nextScope' = nextScope + 1
                      /\ scopeMap' = AddScope(dataSet, nextScope)
                      /\ apiExternIds' = apiExternIds \cup {nextScope}
                 ELSE UNCHANGED <<nextScope, opInProgress, externIdQueue,
                                  scopeMap, apiExternIds>>
            /\ Correlate(c, queue, IF isGraph THEN GraphInstances ELSE 1)
            /\ running' = running \cup
                 {[corr |-> c, kernel |-> k] : k \in 1 .. kernels}
            /\ launch' = [launch EXCEPT ![c] =
                 [op |-> IF hook[t].seen THEN hook[t].scope ELSE Absent,
                  graph |-> isGraph, kernels |-> kernels,
                  partly |-> /\ isGraph /\ graph.unseen
                             /\ GraphInstances # ManyInstances,
                  lost |-> lost[t],
                  sinks |-> {d \in dataSet : queue[Len(queue)] \in scopeMap'[d]}]]
       ELSE UNCHANGED <<nextScope, opInProgress, externIdQueue, scopeMap,
                        apiExternIds, corrIdToExternId, running, launch>>
  /\ UNCHANGED <<maxSubmitted, maxCompleted, graph, subscribed, dataSet,
                 metrics, vendorEvents, forced, incomplete, worker, session,
                 crashed, lost, since, delivered, attaches, ops, raises>>

LaunchKernel(t) == \E kernels \in {0, 1} : CallEnter(t, FALSE, kernels)
LaunchGraph(t)  == /\ graph.kernels # Absent /\ hook[t] = NoHook
                   /\ CallEnter(t, TRUE, graph.kernels)

\* CUPTI_API_EXIT: close the op, whoever opened it, and submit the id.
CallExit(t) ==
  /\ call[t] # Absent
  /\ call' = [call EXCEPT ![t] = Absent]
  /\ IF subscribed
       THEN /\ EndOp(t)
            /\ maxSubmitted' = Larger(maxSubmitted, call[t])
            /\ lost' = [lost EXCEPT ![t] = FALSE]
       ELSE /\ UNCHANGED <<opInProgress, externIdQueue, maxSubmitted>>
            /\ lost' = [lost EXCEPT
                 ![t] = @ \/ hook[t].seen \/ launch[call[t]] # Absent]
  /\ UNCHANGED <<nextScope, hook, corrIdToExternId, apiExternIds, maxCompleted,
                 graph, subscribed, dataVars, cuptiVars, session, crashed,
                 launch, since, delivered, attaches, ops, raises, calls>>

-----------------------------------------------------------------------------
(* The CUDA graph: callbackFn for the resource domain, while subscribed.   *)
(* "nodes" is the template the program built, "kernels" what was           *)
(* instantiated from it; "instances" is graphIdToNumInstances[graphId],    *)
(* "execKnown" whether graphExecIdToGraphId has the executable graph, and  *)
(* "unseen" that nodes came or went without a subscription or after the    *)
(* instantiation, so that the count is not the executable's.               *)

graphOnly == <<nextScope, threadVars, corrVars, subscribed, dataVars,
               cuptiVars, session, crashed, history>>

GraphNodeCreated ==
  /\ graph.nodes # Absent /\ graph.nodes < MaxNodes
  /\ graph.kernels = Absent
  /\ graph' = [graph EXCEPT
       !.nodes = @ + 1,
       !.unseen = @ \/ ~subscribed,
       !.instances = IF ~subscribed THEN @
                     ELSE IF @ = Absent THEN 1 ELSE @ + 1]
  /\ UNCHANGED graphOnly

GraphNodeDestroyed ==
  /\ graph.nodes # Absent /\ graph.nodes > 0 /\ graph.kernels # Absent
  /\ graph' = [graph EXCEPT
       !.nodes = @ - 1,
       !.unseen = TRUE,
       !.instances = IF ~subscribed THEN @
                     ELSE IF @ = Absent THEN ManyInstances ELSE Less1(@)]
  /\ UNCHANGED graphOnly

GraphExecCreated ==
  /\ graph.nodes # Absent /\ graph.nodes > 0 /\ graph.kernels = Absent
  /\ graph' = [graph EXCEPT !.kernels = graph.nodes,
                            !.execKnown = subscribed]
  /\ UNCHANGED graphOnly

GraphDestroyed ==
  /\ graph.nodes # Absent /\ graph.kernels # Absent
  /\ graph' = [graph EXCEPT !.nodes = Absent,
                            !.instances = IF subscribed THEN Absent ELSE @]
  /\ UNCHANGED graphOnly

-----------------------------------------------------------------------------
(* The device and the CUPTI worker.                                        *)

\* Some kernels have completed and CUPTI hands their records over:
\* completeBuffer begins.  It snapshots the data set for the whole buffer.
BufferCompletes(B) ==
  /\ ~worker.busy
  /\ B # {} /\ B \subseteq running \cup forced
  /\ worker' = [busy |-> TRUE, data |-> dataSet, buffer |-> B, max |-> 0]
  /\ running' = running \ B
  /\ forced' = forced \ B
  /\ UNCHANGED <<nextScope, threadVars, corrVars, graph, subscribed, dataVars,
                 incomplete, session, crashed, history>>

\* The kernel's metric goes below the op, not on it.
IsChild(r, extern) == launch[r.corr].graph \/ extern \in apiExternIds

\* Faulty: the vendor event is taken after the import erased the api id.
VendorScopeLate(r, extern) == IF launch[r.corr].graph THEN Absent ELSE extern

\* recordVendorActivity: the scope is left out where the base import adds a
\* child; it runs before the import.
VendorScope(r, extern) == IF IsChild(r, extern) THEN Absent ELSE extern

\* The data that take the metric: addMetric ignores a scope it does not know,
\* addOp adds it.
Takers(r, extern) ==
  {d \in worker.data : IsChild(r, extern) \/ extern \in scopeMap[d]}

\* Faulty: the entry goes with the first kernel of the launch.
ConsumedAtOnce(c) == Absent

\* Faulty: the entry is only ever decremented.
ConsumedNever(c) == [corrIdToExternId[c] EXCEPT !.left = Less1(@)]

\* corrIdToExternId after one more kernel of launch c was imported.
Consumed(c) ==
  LET left == Less1(corrIdToExternId[c].left)
  IN  IF left = 0 THEN Absent ELSE [corrIdToExternId[c] EXCEPT !.left = left]

(***************************************************************************)
(* One record: recordVendorActivity, then processActivityKernel.  A record *)
(* of a kernel that had not finished converts to a null Metric, which      *)
(* addMetric dereferences when the data knows the scope.                   *)
(***************************************************************************)
ImportRecord(r) ==
  LET entry == corrIdToExternId[r.corr]
      extern == entry.extern
      whole == r \notin incomplete
  IN
  /\ worker.busy /\ r \in worker.buffer
  /\ worker' = [worker EXCEPT !.buffer = @ \ {r}, !.max = Larger(@, r.corr)]
  /\ delivered' = delivered \cup {r}
  /\ vendorEvents' =
       IF ~whole THEN vendorEvents
       ELSE vendorEvents \cup
              {[rec |-> r, scope |-> IF entry = Absent THEN Absent
                                     ELSE VendorScope(r, extern)]}
  /\ IF entry = Absent
       THEN UNCHANGED <<scopeMap, metrics, crashed, apiExternIds,
                        corrIdToExternId>>
       ELSE /\ crashed' = (~whole /\ Takers(r, extern) # {})
            /\ scopeMap' = IF IsChild(r, extern)
                             THEN AddScope(worker.data, extern) ELSE scopeMap
            /\ metrics' =
                 [d \in DataObjects |->
                    IF whole /\ d \in Takers(r, extern)
                      THEN metrics[d] \cup {[rec |-> r, scope |-> extern,
                                             child |-> IsChild(r, extern)]}
                      ELSE metrics[d]]
            /\ apiExternIds' = apiExternIds \ {extern}
            /\ corrIdToExternId' =
                 [corrIdToExternId EXCEPT ![r.corr] = Consumed(r.corr)]
  /\ UNCHANGED <<nextScope, threadVars, maxSubmitted, maxCompleted, graph,
                 subscribed, dataSet, running, forced, incomplete, session,
                 launch, lost, since, attaches, ops, raises, calls>>

BufferDone ==
  /\ worker.busy /\ worker.buffer = {}
  /\ maxCompleted' = Larger(maxCompleted, worker.max)
  /\ worker' = NoWorker
  /\ UNCHANGED <<nextScope, threadVars, corrIdToExternId, apiExternIds,
                 maxSubmitted, graph, subscribed, dataVars, running, forced,
                 incomplete, session, crashed, history>>

-----------------------------------------------------------------------------
(* Session calls: Profiler::start, flush, registerData, unregisterData and *)
(* stop in the order Session::activate, deactivate and finalize make them. *)

sessionOnly == <<nextScope, threadVars, apiExternIds, corrIdToExternId,
                 maxSubmitted, maxCompleted, graph, metrics, vendorEvents,
                 worker, crashed, lost, delivered, ops, raises, calls>>

BeginFlush(do, d) ==
  session' = [NoSession EXCEPT !.do = do, !.data = d, !.pc = "first",
                               !.retries = MaxRetries]

\* Session::activate: start the collector, then flush it.
Attach(d) ==
  /\ ManagerFree /\ d \notin dataSet
  /\ attaches < MaxAttach
  /\ attaches' = attaches + 1
  /\ subscribed' = TRUE
  /\ BeginFlush("attach", d)
  /\ UNCHANGED <<sessionOnly, dataSet, scopeMap, running, forced, incomplete,
                 launch, since>>

\* Session::deactivate: flush first.
Detach(d) ==
  /\ ManagerFree /\ d \in dataSet
  /\ BeginFlush("detach", d)
  /\ UNCHANGED <<sessionOnly, attaches, subscribed, dataSet, scopeMap, running, forced,
                 incomplete, launch, since>>

\* A flush returns once the worker is through with what it was handed; which
\* kernels had completed by then is up to the device.
FlushedAll == forced = {} /\ ~worker.busy

FlushFirst ==
  /\ session.pc = "first" /\ FlushedAll
  /\ session' = [session EXCEPT !.pc = "wait", !.goal = maxSubmitted]
  /\ UNCHANGED <<sessionOnly, attaches, subscribed, dataSet, scopeMap, running, forced,
                 incomplete, launch, since>>

\* Faulty: the retry loop does not count.
RetriesForever == session.retries

RetriesLeft == session.retries - 1

FlushRetry ==
  /\ session.pc = "wait" /\ FlushedAll
  /\ maxCompleted < session.goal /\ session.retries > 0
  /\ session' = [session EXCEPT !.retries = RetriesLeft]
  /\ UNCHANGED <<sessionOnly, attaches, subscribed, dataSet, scopeMap, running, forced,
                 incomplete, launch, since>>

\* Faulty: an ordinary flush instead of the forced one.
TakenFinished(unfinished) == running \ unfinished

\* CUPTI_ACTIVITY_FLAG_FLUSH_FORCED takes every record, those of kernels
\* that still run (a subset of `unfinished') included.
Taken(unfinished) == running

FlushForced(unfinished) ==
  /\ session.pc = "wait"
  /\ maxCompleted >= session.goal \/ session.retries = 0
  /\ session' = [session EXCEPT !.pc = "forced",
       !.returned = {c \in CorrIds : /\ launch[c] # Absent
                                     /\ \A t \in Threads : call[t] # c}]
  /\ running' = running \ Taken(unfinished)
  /\ forced' = Taken(unfinished)
  /\ incomplete' = incomplete \cup (unfinished \cap Taken(unfinished))
  /\ UNCHANGED <<sessionOnly, attaches, subscribed, dataSet, scopeMap, launch, since>>

FlushReturns ==
  /\ session.pc = "forced" /\ FlushedAll
  /\ session' = [session EXCEPT !.pc = "commit"]
  /\ UNCHANGED <<sessionOnly, attaches, subscribed, dataSet, scopeMap, running, forced,
                 incomplete, launch, since>>

\* registerData, and the session is published.
Register ==
  /\ session.pc = "commit" /\ session.do = "attach"
  /\ dataSet' = dataSet \cup {session.data}
  /\ since' = [since EXCEPT ![session.data] = session.returned]
  /\ session' = NoSession
  /\ UNCHANGED <<sessionOnly, attaches, subscribed, scopeMap, running, forced,
                 incomplete, launch>>

\* unregisterData, and Data::clear except under a vendor adapter.
Unregister ==
  /\ session.pc = "commit" /\ session.do = "detach"
  /\ dataSet' = dataSet \ {session.data}
  /\ scopeMap' = IF session.data \in KeepsScopes THEN scopeMap
                 ELSE [scopeMap EXCEPT ![session.data] = {}]
  /\ launch' = [c \in CorrIds |-> IF launch[c] = Absent THEN Absent ELSE
                  [launch[c] EXCEPT !.sinks = @ \ {session.data}]]
  /\ session' = NoSession
  /\ UNCHANGED <<sessionOnly, attaches, subscribed, running, forced, incomplete, since>>

\* Profiler::stop once no data is registered: unsubscribe, cuptiFinalize.
Stop ==
  /\ ManagerFree /\ subscribed /\ dataSet = {} /\ ~worker.busy
  /\ subscribed' = FALSE
  /\ running' = {} /\ forced' = {}
  /\ UNCHANGED <<sessionOnly, attaches, dataSet, scopeMap, incomplete, session, launch,
                 since>>

-----------------------------------------------------------------------------
Thread(t) == \/ EnterOp(t) \/ ExitOp(t) \/ LaunchRaises(t)
             \/ LaunchKernel(t) \/ LaunchGraph(t) \/ CallExit(t)
Graph  == \/ GraphNodeCreated \/ GraphNodeDestroyed
          \/ GraphExecCreated \/ GraphDestroyed
Worker == \/ \E B \in SUBSET (running \cup forced) : BufferCompletes(B)
          \/ \E r \in worker.buffer : ImportRecord(r)
          \/ BufferDone
Flush  == \/ FlushFirst \/ FlushRetry \/ FlushReturns
          \/ \E unfinished \in SUBSET running : FlushForced(unfinished)
          \/ Register \/ Unregister
Lifecycle == \/ \E d \in DataObjects : Attach(d) \/ Detach(d)
             \/ Stop

Next == /\ ~crashed
        /\ \/ \E t \in Threads : Thread(t)
           \/ Graph
           \/ Worker
           \/ Flush
           \/ Lifecycle

(***************************************************************************)
(* The worker imports what CUPTI hands it, and a session call that began   *)
(* goes on.  Nothing makes a kernel finish or a program launch one.        *)
(***************************************************************************)
Spec == Init /\ [][Next]_vars /\ WF_vars(~crashed /\ Worker)
                              /\ WF_vars(~crashed /\ Flush)

-----------------------------------------------------------------------------
(* Properties.                                                             *)

\* The variables keep their types.
TypeOK ==
  /\ nextScope \in 1 .. MaxScopes + 1
  /\ hook \in [Threads -> [scope : Scopes \cup {Absent}, seen : BOOLEAN,
                           launched : BOOLEAN]]
  /\ call \in [Threads -> CorrIds \cup {Absent}]
  /\ opInProgress \in [Threads -> BOOLEAN]
  /\ externIdQueue \in [Threads -> Seq(Scopes)]
  /\ corrIdToExternId \in [CorrIds -> Entries \cup {Absent}]
  /\ apiExternIds \subseteq Scopes
  /\ maxSubmitted \in 0 .. MaxCalls /\ maxCompleted \in 0 .. MaxCalls
  /\ graph \in [nodes : 0 .. MaxNodes \cup {Absent}, kernels : 1 .. MaxNodes \cup {Absent},
                instances : Nat \cup {Absent}, execKnown : BOOLEAN, unseen : BOOLEAN]
  /\ subscribed \in BOOLEAN /\ crashed \in BOOLEAN
  /\ dataSet \subseteq DataObjects
  /\ scopeMap \in [DataObjects -> SUBSET Scopes]
  /\ metrics \in [DataObjects -> SUBSET Metrics]
  /\ running \subseteq Records /\ forced \subseteq Records
  /\ incomplete \subseteq Records /\ delivered \subseteq Records
  /\ worker \in [busy : BOOLEAN, data : SUBSET DataObjects, buffer : SUBSET Records,
                 max : 0 .. MaxCalls]
  /\ session \in [do : {"none", "attach", "detach"}, data : DataObjects \cup {Absent},
                  pc : {"none", "first", "wait", "forced", "commit"},
                  goal : 0 .. MaxCalls, retries : 0 .. MaxRetries,
                  returned : SUBSET CorrIds]
  /\ launch \in [CorrIds -> LaunchInfos \cup {Absent}]
  /\ lost \in [Threads -> BOOLEAN]
  /\ since \in [DataObjects -> SUBSET CorrIds]
  /\ ops \in 0 .. MaxOps /\ calls \in 0 .. MaxCalls
  /\ attaches \in 0 .. MaxAttach /\ raises \in 0 .. MaxRaises

\* A kernel launched inside a hook's op is recorded on that op, every other
\* one below an op of its own, which no two launches share - as long as the
\* thread saw the end of its previous op.
UnderItsOp(m) ==
  LET l == launch[m.rec.corr]
  IN  IF l.op = Absent THEN m.child ELSE m.scope = l.op /\ ~m.child
KernelsUnderTheirOp ==
  \A d \in DataObjects : \A m \in metrics[d] :
    ~launch[m.rec.corr].lost =>
      /\ UnderItsOp(m)
      /\ \A n \in metrics[d] :
           n.scope = m.scope /\ ~launch[n.rec.corr].lost =>
             n.rec.corr = m.rec.corr

\* Every finished kernel that was imported is in every data that was
\* collecting when it was launched and has been since: multi-kernel launches
\* keep their correlation until the last one (graphs whose nodes the
\* collector saw only in part excepted).
KernelsCounted ==
  \A r \in delivered \ incomplete :
    LET l == launch[r.corr] IN
    ~l.partly => \A d \in l.sinks : \E m \in metrics[d] : m.rec = r

\* The correlation map is exact: while a launch of a known number of kernels
\* has an entry, "left" is how many of them have not been imported, and the
\* entry is gone once there are none - nothing is dropped, nothing leaks.
Undelivered(c) == {k \in 1 .. launch[c].kernels :
                     [corr |-> c, kernel |-> k] \notin delivered}
CorrelationExact ==
  \A c \in CorrIds :
    launch[c] # Absent /\ launch[c].kernels > 0 /\ ~launch[c].partly =>
      LET entry == corrIdToExternId[c] IN
      IF entry # Absent /\ entry.left > 1 + MaxNodes THEN launch[c].graph
      ELSE IF Undelivered(c) = {} THEN entry = Absent
      ELSE entry # Absent /\ entry.left = Cardinality(Undelivered(c))

\* A vendor event carries a scope exactly where the base profile put the
\* kernel's metric on that scope itself and not on a child.
VendorScopesMatch ==
  \A d \in DataObjects : \A m \in metrics[d] :
    [rec |-> m.rec, scope |-> IF m.child THEN Absent ELSE m.scope]
      \in vendorEvents

\* A session starts with new activities: data registered after a flush never
\* takes a kernel of a call that had returned before that flush.
SessionsStartFresh ==
  [][\A d \in DataObjects : \A m \in metrics'[d] \ metrics[d] :
       m.rec.corr \notin since[d]]_vars

\* A flush returns although kernels still run: its retries are bounded.
FlushesReturn == session.pc # "none" ~> (session.pc = "none" \/ crashed)

=============================================================================
