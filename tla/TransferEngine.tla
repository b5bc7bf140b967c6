---------------------------- MODULE TransferEngine ----------------------------
(* The debugger's device buffers: the transfer engine that allocates, clears,   *)
(* copies back and frees them, the adapter of each driver it works through, and *)
(* the driver underneath (streams, copies and primary contexts).  One engine,   *)
(* and so one adapter, belongs to each launch.  The operators change the        *)
(* engine's state; the module of the launch protocol says when.                 *)
EXTENDS Naturals, Sequences, FiniteSets

CONSTANTS
  Launches,      \* the kernel launches of a behaviour
  Threads,       \* the host threads that make them
  Devices,       \* the device ordinals
  Streams,       \* the streams kernels are launched on
  NullStream,    \* the default stream, handle 0
  NoContext,     \* no context is current
  Callers,       \* what may be current on the threads before the first launch
  Drivers        \* the transfer drivers to explore

ASSUME EngineAssumption ==
  /\ NullStream \in Streams /\ IsFiniteSet(Streams)
  /\ NoContext \notin Devices
  /\ Callers \subseteq [Threads -> Devices \cup {NoContext}]
  /\ Drivers \subseteq {"host", "tops", "cann", "musa", "corex", "cuda", "maca"}

VARIABLES
  driver,        \* the driver the kernel's backend resolves to
  library,       \* what of the driver's library was found when it was loaded
  memory,        \* [Launches -> what the launch's device and host buffer hold]
  pending,       \* [Streams -> the operations queued on the stream]
  current,       \* [Threads -> the context current on the thread]
  caller,        \* [Threads -> the context the application had current]
  primary,       \* [Devices -> how often primary contexts are retained]
  adapter        \* [Launches -> what the launch's adapter retained and saved]

engineVars ==
  <<driver, library, memory, pending, current, caller, primary, adapter>>

NoBuffer == [device |-> "none", host |-> "none", on |-> NoContext]
Contents == {"none", "stale", "zero", "header", "written", "spoiled"}
NoAdapter == [retained |-> NoContext, captured |-> FALSE, previous |-> NoContext]

(* ------------------------ the device, from its use ------------------------ *)

\* What an operation does to a launch's buffers when the device runs it.  A kernel
\* claims its slots in the header it finds, so it needs one already written.
RunOp(m, op) ==
  LET at == m[op.launch].device IN
  CASE op.kind = "memset" -> [m EXCEPT ![op.launch].device = "zero"]
    [] op.kind = "h2d"    -> [m EXCEPT ![op.launch].device =
                                IF at = "zero" THEN "header" ELSE "spoiled"]
    [] op.kind = "kernel" -> [m EXCEPT ![op.launch].device =
                                IF at = "header" THEN "written" ELSE "spoiled"]
    [] op.kind = "d2h"    -> [m EXCEPT ![op.launch].host = at]

\* Memory and streams change together: an operation waits in its stream, and a
\* stream that is waited for runs everything queued on it.
Queued(g, s, op) == [g EXCEPT !.streams[s] = Append(@, op)]
RunAll(m, ops) ==
  LET run[i \in 0..Len(ops)] == IF i = 0 THEN m ELSE RunOp(run[i - 1], ops[i])
  IN run[Len(ops)]
Drained(g, s) == [memory  |-> RunAll(g.memory, g.streams[s]),
                  streams |-> [g.streams EXCEPT ![s] = <<>>]]
DrainedAll(g) ==
  LET drained[S \in SUBSET Streams] ==
        IF S = {} THEN g
        ELSE LET s == CHOOSE s \in S : TRUE IN Drained(drained[S \ {s}], s)
  IN drained[Streams]
Gpu == [memory |-> memory, streams |-> pending]
SetGpu(g) == memory' = g.memory /\ pending' = g.streams

\* The oldest operation of a stream runs on its own.
StreamStep(s) ==
  /\ pending[s] # <<>>
  /\ memory' = RunOp(memory, Head(pending[s]))
  /\ pending' = [pending EXCEPT ![s] = Tail(@)]
  /\ UNCHANGED <<driver, library, current, caller, primary, adapter>>

(* ------------------------------ the adapters ------------------------------ *)

\* How an adapter issues an operation on stream s: "queued" on it, "ordered" after
\* the default stream and finished on return, or "direct" with no order at all.
HostOps(kind, s) == "direct"
TopsOps(kind, s) == IF s = NullStream THEN "ordered" ELSE "queued"
CannOps(kind, s) == IF s = NullStream THEN "direct" ELSE "queued"
MusaOps(kind, s) == IF s = NullStream THEN "ordered" ELSE "queued"
CorexOps(kind, s) == IF s # NullStream /\ library = "complete" THEN "queued" ELSE "ordered"
CudaOps(kind, s) == CorexOps(kind, s)
MacaOps(kind, s) ==
  IF s = NullStream /\ kind # "d2h" THEN "ordered" ELSE "queued"

Issue(g, s, kind, l) ==
  LET how == CASE driver = "host" -> HostOps(kind, s)
               [] driver = "tops" -> TopsOps(kind, s)
               [] driver = "cann" -> CannOps(kind, s)
               [] driver = "musa" -> MusaOps(kind, s)
               [] driver = "corex" -> CorexOps(kind, s)
               [] driver = "cuda" -> CudaOps(kind, s)
               [] driver = "maca" -> MacaOps(kind, s)
      op == [kind |-> kind, launch |-> l]
  IN CASE how = "queued"  -> Queued(g, s, op)
       [] how = "ordered" -> Drained(Queued(g, NullStream, op), NullStream)
       [] how = "direct"  -> [g EXCEPT !.memory = RunOp(@, op)]

\* synchronize(stream): three adapters do nothing for the default stream, one
\* waits for the whole context.
Synchronized(g, s) ==
  CASE driver = "host" -> g
    [] driver \in {"cann", "corex", "cuda"} ->
         IF s = NullStream THEN g ELSE Drained(g, s)
    [] driver = "musa" -> IF s = NullStream THEN DrainedAll(g) ELSE Drained(g, s)
    [] driver \in {"tops", "maca"} -> Drained(g, s)

\* setDevice of the adapters that retain a primary context.  A context of the
\* device that is current already is used as it is; CoreX and CUDA remember what
\* they replace.
Retained(t, l, d, a) ==
  IF current[t] = d THEN UNCHANGED <<current, primary, adapter>>
  ELSE /\ primary' = [primary EXCEPT ![d] = @ + 1]
       /\ current' = [current EXCEPT ![t] = d]
       /\ adapter' = [adapter EXCEPT ![l] = a]
CorexSetDevice(t, l, d) ==
  Retained(t, l, d, [retained |-> d, captured |-> TRUE, previous |-> current[t]])
MusaSetDevice(t, l, d) ==
  Retained(t, l, d, [NoAdapter EXCEPT !.retained = d])

SetDevice(t, l, d) ==
  CASE driver \in {"corex", "cuda"} -> CorexSetDevice(t, l, d)
    [] driver = "musa" -> MusaSetDevice(t, l, d)
    [] driver \in {"tops", "maca"} -> /\ current' = [current EXCEPT ![t] = d]
                                      /\ UNCHANGED <<primary, adapter>>
    [] OTHER -> UNCHANGED <<current, primary, adapter>>

\* The destructor of an adapter: restore what was current, drop what was retained.
\* (Faulty variant: nothing is restored.)
DestroyAdapterOnly(t, l) ==
  /\ primary' = [d \in Devices |-> primary[d] - (IF adapter[l].retained = d THEN 1 ELSE 0)]
  /\ adapter' = [adapter EXCEPT ![l] = NoAdapter]
  /\ UNCHANGED current
DestroyAdapter(t, l) ==
  LET a == adapter[l] IN
  /\ current' = IF a.captured THEN [current EXCEPT ![t] = a.previous] ELSE current
  /\ primary' = [d \in Devices |-> primary[d] - (IF a.retained = d THEN 1 ELSE 0)]
  /\ adapter' = [adapter EXCEPT ![l] = NoAdapter]

(* ------------------------------- the engine ------------------------------- *)

\* The libraries that are opened at run time: TOPS needs every symbol, CoreX has a
\* fallback for the asynchronous ones, which every CUDA driver has.  The other
\* adapters are linked.
TopsLibrary == {"missing", "complete"}
CorexLibrary == {"missing", "synchronous", "complete"}
LibraryOf(d) == CASE d = "tops" -> TopsLibrary
                  [] d = "corex" -> CorexLibrary
                  [] d = "cuda" -> CorexLibrary \ {"synchronous"}
                  [] OTHER -> {"complete"}

\* Otherwise the process aborts.  CANN has no setDevice and needs a context.
AdapterReady(t) ==
  library # "missing" /\ (driver = "cann" => current[t] # NoContext)

\* prepare() allocates; initHeader() clears the device buffer and copies the
\* header, both on the default stream whatever the launch's stream is.
InitHeader(g, l) ==
  Issue(Issue(g, NullStream, "memset", l), NullStream, "h2d", l)

PrepareBuffer(t, l, d) ==
  /\ SetDevice(t, l, d)
  /\ SetGpu(InitHeader([Gpu EXCEPT !.memory[l] =
                          [device |-> "stale", host |-> "zero", on |-> d]], l))
  /\ UNCHANGED <<driver, library, caller>>

\* syncExport(): copy back on the launch's stream, then wait for that stream.
\* (Faulty variant: wait, then copy.)
ExportedEarly(g, s, l) == Issue(Synchronized(g, s), s, "d2h", l)
Exported(g, s, l) == Synchronized(Issue(g, s, "d2h", l), s)

\* release(): both buffers are freed, which waits for the device, and the engine
\* goes with its adapter.  (Faulty variant: the engine stays.)
ReleaseBufferOnly(t, l, g) ==
  /\ SetGpu([DrainedAll(g) EXCEPT !.memory[l] = NoBuffer])
  /\ UNCHANGED <<current, primary, adapter, driver, library, caller>>
ReleaseBuffer(t, l, g) ==
  /\ SetGpu([DrainedAll(g) EXCEPT !.memory[l] = NoBuffer])
  /\ DestroyAdapter(t, l)
  /\ UNCHANGED <<driver, library, caller>>

EngineInit ==
  /\ driver \in Drivers
  /\ library \in LibraryOf(driver)
  /\ memory = [l \in Launches |-> NoBuffer]
  /\ pending = [s \in Streams |-> <<>>]
  /\ caller \in Callers
  /\ current = caller
  /\ primary = [d \in Devices |-> 0]
  /\ adapter = [l \in Launches |-> NoAdapter]

EngineTypeOK ==
  /\ memory \in [Launches -> [device : Contents, host : Contents,
                              on : Devices \cup {NoContext}]]
  /\ current \in [Threads -> Devices \cup {NoContext}]
  /\ primary \in [Devices -> Nat]
  /\ adapter \in [Launches -> [retained : Devices \cup {NoContext},
                               captured : BOOLEAN,
                               previous : Devices \cup {NoContext}]]
===============================================================================
