# A verification development for FlagPrism

FlagPrism is a pair of tools for FlagTree/Triton GPU kernels: a **profiler**
(`src/Profiler`: a Python API over a C++ library that collects kernel times,
hardware metrics and in-kernel instrumentation through each vendor's library)
and a **debugger** (`src/Debugger`: compiler passes that make a kernel write
records, a runtime that brings the records to the host, and an offline decoder).
This directory keeps TLA+ models of the parts of it whose control flow is hard
to test, the TLC runs that check them and the proofs TLAPS checks.

To check a model: `tlc -config SessionManager.cfg MCSessionManager.tla`;
to check proofs: `tlapm SessionProofs.tla`.  `PROJECT.json` has the
machine-readable side: the runs, the source lines of each definition, the
hazards, the findings, and one faulty operator ("mutant") for each property of
a passing run, which that property must reject.

Paths below are relative to `src/`; `csrc` is `Profiler/csrc`, `py` is
`Profiler/python/flagtree_profiler`.

## 1. The system

### 1.1 Components

**Profiler API and hooks** (`py/profile.py`, `py/hooks/*`, `py/flags.py`).
*State*: `_active_sessions` (the hooks each session was started with), the flags
`profiling_on` and `instrumentation_on`, `HookManager.active_hooks` and
`session_hooks`, the class-wide state of `InstrumentationHook`, whether the
debugger instruments for the profiler.  *Operations*: `start`, `activate`,
`deactivate`, `finalize`, and the launch hooks that the Triton runtime calls
around every kernel launch.  *Hard*: rollback when a later step of `start`
raises; hooks shared by sessions; launches of other threads in between.
*Correct* when what is installed (hooks, passes, flags, debugger) is what the
sessions that exist asked for, and no session records that Python does not know.

**Session manager** (`csrc/lib/Session/Session.cpp`, `csrc/include/Session/Session.h`,
`csrc/include/Profiler/Profiler.h`).  *State*: `sessions`, `sessionPaths`,
`activeSessions`, four maps that count how many active sessions registered an
interface (scope, op, instrumentation, context source), and for each profiler
singleton `started`, `dataSet`, `modeAndOptions`; of the instrumentation profiler
`runtime` and `modeOptions` too.  *Operations*: add, activate,
deactivate and finalize a session, each also for all sessions; dispatch of
scopes, ops, metrics, states.  *Hard*: any stage of a call may throw, calls are
made of several critical sections, profilers are shared between sessions.
*Correct* when an active session really collects, nothing reaches a session that
was taken out, counters match, and what is being closed gets closed.

**Scopes, states, context sources** (`py/scope.py`, `py/state.py`, `py/context.py`,
`csrc/include/Context/*`, `csrc/lib/Context/*`, the dispatch loops of
`Session.cpp`).  *State*: thread-local stacks of scope names keyed by context
source, a thread-local state, Python-side stacks of scope ids.  *Hard*: threads
inherit the main thread's stack when they are first seen; sinks must read the
stack after sources have changed it; sessions come and go inside scopes.
*Correct* when every scope gets the call path it was written in, can be left,
and receives its own metrics.

**GPU collector** (`csrc/include/Profiler/GPUProfiler.h`,
`csrc/lib/Profiler/Cupti/CuptiProfiler.cpp`).  *State*: per-thread queues of op
ids, the maps correlation id -> op id (with the number of kernels still to
come) and correlation id -> api id, the graph tables, the submitted and
completed correlation ids.  *Operations*: CUPTI callbacks on the launching
threads, activity buffers on CUPTI's worker thread, flush and stop on the
thread of a session call.  *Hard*: records arrive late, out of order, or for
kernels that still run; sessions attach and detach in between; exits get lost.
*Correct* when every kernel lands on its op, in every data that was collecting,
exactly once, and a flush always returns.

**NVIDIA hardware counters, PC sampling and the adapter**
(`csrc/lib/Profiler/Cupti/NvidiaHardwareCounters.cpp`, `CuptiPCSampling.cpp`,
`csrc/lib/Profiler/Vendor/NvidiaAdapter.cpp`).  *State*: the objects of the range
profiler, the pass loop, the one process-wide flag `pcSamplingStarted`, the set of
configured contexts, the bag of vendor events and the reasons for what is missing.
*Hard*: CUPTI may refuse any call at any point and the base profile must survive;
sampling is started by one thread and stopped by another; replays report a kernel
once per pass.  *Correct* when counters and samples name the kernel they were
measured on, what is lost is reported, and everything taken is released.

**Vendor collectors** (`csrc/lib/Profiler/Vendor/*`): Enflame, MetaX and Moore
Threads through activity libraries (callbacks on launching threads, records on a
worker); Moore Threads, Tianshu and CANN through the exports of a tool that are
matched with host-side events when a session is finalized.  *Hard*: partial start
and stop, late and invalid records, attribution of rows that carry neither ids nor
times.  *Correct* when a session gets its kernels, each once, and nothing stays
subscribed.

**Instrumentation profiler, Proton dialect, circular buffer**
(`csrc/lib/Profiler/Instrumentation`, `Profiler/Dialect`,
`Profiler/common/lib/TraceDataIO`).  The compiler passes number the scopes of a
kernel and lower its record ops to stores in a ring per warp; the profiler gives
each launch a buffer; the parser pairs starts with ends and unwraps the clocks.
*Hard*: rings that overwrite, warp-specialised partitions that hand their context
on, cycle counters that wrap, a launch whose import throws half way.  *Correct*
when what the profile shows happened, and what survived in the ring is shown.

**Data** (`csrc/lib/Data/*`, `csrc/include/Data/*`): scope id -> tree node or
trace event, aggregation of metrics, hatchet and chrome-trace dumps.

**ROCm collector** (`csrc/lib/Profiler/RocTracer`): `GPUProfiler` over ROCTracer.

**Debugger launch protocol and transfer engine**
(`Debugger/python/flagtree_debugger/api.py`, `runtime.py`, `Debugger/python/Bindings.cpp`,
`Debugger/lib/Runtime/TransferEngine.cpp`).  *State*: the module-wide configuration,
a handle with a device buffer per launch, the adapter of one of seven drivers with
the context it retained.  *Hard*: copies queued on the launch's stream, launches of
several threads during a reconfiguration, launches that raise.  *Correct* when what
is exported is what the kernel wrote, no run is lost in silence, and buffers and
contexts are given back.

**Debugger compiler side, decoder and reports** (`Debugger/lib/Instrumentation`,
`Debugger/lib/Metadata`, `Debugger/lib/Decode`): the insertion passes plan records
and payloads and lower them to stores; the decoder finds them by the same plan.
*Hard*: two sides of one layout, two back ends, two capture levels, buffers that
overflow, operations control flow does not reach.  *Correct* when the report says
what the operations saw and leaves nothing out without saying so.

**Command line, viewer, device drivers**: script runner, offline reader, `dlopen`
tables.

### 1.2 How they interact

A user thread calls `start`; Python switches `profiling_on` on, calls native
`start` (the manager adds and activates the session, which starts the profiler
singleton and registers the session's data with it) and registers hooks.  A
launch of a kernel runs `HookManager.enter`, which makes the manager enter an op
in each active session's data and in the profiler; CUPTI then calls back on the
same thread, and its worker delivers activity records later, which are written to
the data registered at that moment.  `with scope(...)` calls the manager, which
tells all active context sources and then all active data.  Every pybind call
keeps the GIL until it returns; the manager's lock is exclusive for lifecycle
calls and shared for dispatch; CUPTI's worker takes neither.  Finalizing a vendor
session stops its collector, imports what the tool wrote and lays it over the tree.
The debugger hangs on the same launches: a prepare hook gives an instrumented
kernel its buffer, and the finalizer of the launch exports it.

### 1.3 What is hard

`PROJECT.json` lists the hazards at their lines: partial failures in
multi-step calls, state shared by sessions (singletons, hooks, flags), objects
reused by overlapping calls, callbacks and records that outlive what they refer
to, flushes that race kernels, layouts two sides must agree on.  Those with
properties are checked; those with a note say why not, or what is known not to hold.

## 2. The modules

| module | models | uses |
|---|---|---|
| `SessionLifecycle` | abstract: what a user is promised of sessions | |
| `SessionManager` | manager, sessions, profiler base class | implements `SessionLifecycle` |
| `HookManager` | `hooks/hook.py` and both hooks, as operators on a state | |
| `ProfilerApi` | `profile.py` and launches | extends `HookManager` |
| `ContextDispatch` | scopes, states, metrics down to trees | composes with `SessionLifecycle` |
| `GpuCollector` | CUPTI collector, base class, ops, graph tables, flush | |
| `NvidiaCollectors` | counters, PC sampling, memory activities, adapter and degraded paths | |
| `ActivityCollector` | Enflame, MetaX, Moore Threads (activity libraries) | |
| `VendorImport` | Moore Threads, Tianshu, CANN (exports of a tool) | |
| `CircularTrace` | compiled record ops, ring buffer, parser, as operators | |
| `InstrumentationProfiler` | instrumented launches and sessions | extends `CircularTrace` |
| `TransferEngine` | device buffers, drivers, streams, contexts, as operators | |
| `DebuggerLaunch` | debugger API and launch protocol | extends `TransferEngine` |
| `RecordLayout` | arithmetic of the device buffer | |
| `DebugScopes` | markers, ids and captures: the metadata passes, as operators | |
| `RecordPlan` | what the insertion pass plans for a kernel | extends `DebugScopes`, `RecordLayout` |
| `DebugRecords` | an instrumented launch from compilation to report | extends `RecordPlan` |
| `SessionProofs` | theorems about the manager, in three layers, and about the activity collectors | extends `SessionManager`, `ActivityCollector` |
| `ProfilerApiProofs` | theorems about the hook registry and the API; about the circular parser, the scope ids and the rows of instrumented launches | extends `ProfilerApi`, `InstrumentationProfiler` |
| `LaunchProofs` | theorems about the debugger's launches and their buffers | extends `DebuggerLaunch` |
| `DebugRecordsProofs` | theorems about the layout of the buffer, and about records, artifacts and reports | extends `DebugRecords` |
| `ContextProofs` | theorems about scopes, paths and metrics | extends `ContextDispatch` |
| `GpuCollectorProofs` | theorems about the CUPTI collector, its flushes and its counts | extends `GpuCollector` |
| `VendorImportProofs` | theorems about the imports of exports | extends `VendorImport` |
| `NvidiaProofs` | theorems about the optional collectors | extends `NvidiaCollectors` |
| `MC*` | instances for TLC | |

### 2.1 SessionManager

The variables are the fields of the code under their names. `collector` is what
`doStart` and `doStop` left of the device library ("partial" after one threw). The
bindings never release the GIL, so one native call runs at a time; a call of
several critical sections is several steps: `starting` is the session that `start`
has added but not yet activated, `detached` the sessions a finalize has moved out
of the maps. `Faults` are the stages that may throw: constructing the session,
starting, stopping, dumping, and (bounded by `MaxFlushFaults`) flushing.
`AddSession` is `makeSession` with its path reuse, vendor-overlap and mode checks.
`Configure` is what `getProfiler` does to the shared profiler before the mode is
compared: the PC-sampling switch, and `InstrumentationProfiler::setMode`, which
throws for an unknown device, replaces `runtime` and inserts into `modeOptions`. A
start that is refused after it (`ModeRefused`) leaves that behind; the history
variable `disturbed` has the profilers to which this happened since the last
accepted start. `ActivateImpl` / `DeactivateImpl` are `Session::activate` /
`deactivate` with the registration of interfaces after and before; `Finalize` is
one `Session::finalize` of a detached session, `Abort` the exception that ends
`finalizeAllSessions`.

`SessionLifecycle` is the abstraction: ids are given out in order, a path has at
most one open session, sessions record and pause, closing frees the path at once,
and what is being closed is eventually closed.  The refinement maps `phase` from
the three maps and `pathOf` from `sessions`.

### 2.2 HookManager and ProfilerApi

The registry is one record and each static method an operator to the set of its
results, because `profile.py` calls several in one API call and swallows what some
raise.  An API call is one step (the application makes them from one thread), a
launch two (its enter and its exit hooks), by any of `Threads`.  Init chooses
whether the target supports native instrumentation; elsewhere the debugger
instruments.  Native sessions are reduced to which exist and which record.

### 2.3 ContextDispatch

Here a native call is one step between which other Python threads run.  Sessions
do what `SessionLifecycle` allows; each owns a shadow context source at one of
`Addresses` (an address can be used again) and a tree, reduced to scope id -> path
and the metrics it took.  `stack`, `initialized` and `main` are the thread-local
maps of `Shadow.cpp`, which are keyed by address and never erased.  `blocks` is the
nesting a thread is inside in Python, in the three forms it can be written (`with`,
a decorated function whose calls share one scope object, `enter_scope`/`exit_scope`
with its thread-local list).  `exitScope` visits sources in address order and
stops at the first that throws.  `ScopeNames`, the scopes among the blocks of a thread,
and `inherited`, what it took over from the main thread, exist for the properties only.

### 2.4 GpuCollector

Processes: application threads (`EnterOp`/`ExitOp` of the launch hook,
`CallEnter`/`CallExit` of the CUPTI callbacks), the device, the CUPTI worker
(`BufferCompletes`, `ImportRecord` one record at a time, `BufferDone`), and one
session call (`Attach`, `Detach`, `Stop`, the flush in `FlushFirst`, `FlushRetry`,
`FlushForced`, `FlushReturns`).  Conventions: the runtime and driver callbacks of
one correlation id are one pair (the second is idempotent in the code); the ENTER
callback and the launch itself are one step; CUPTI delivers each record once and a
flush blocks until the worker is done; a hook op has one launch; stopping CUPTI
drops pending records.  CUPTI is outside the repository and is modelled from how
the code uses it.

### 2.5 NvidiaCollectors

Two consecutive sessions on the one `CuptiProfiler`, of the NVIDIA adapter or of the
legacy backends, with the base collector reduced to which kernels it was given.
`DoStart`, `DoFlush` and `DoStop` make their calls in the order of the code; `Refused`
marks where CUPTI answered with an error, and each handler falls back, gives up or
throws as written.  `EnterPlain`/`EnterSampling`, `Driver`, `ExitPlain`/`ExitSampling`
are a launch with its replays; `processing` is the loop of `processPCSamplingData`,
whose rounds (`Round`) interleave with the other thread.  `Import` is the adapter's
import: evaluation of the ranges, join with the recorded kernels, reasons.

Assumed of CUPTI: a second subscribe fails; stopping the sampling fills the
configured buffer and leaves the rest as remaining; each sampled kernel gives one
sample record; exit callbacks come only for entries the same subscriber saw; a kernel
replay is serial and its records arrive in order; a record is made if a kernel
activity kind was enabled at the launch; `cuptiFinalize` clears everything.  Records
are handed over at the flush: an earlier hand-over commutes with everything else.

### 2.6 ActivityCollector

The three collectors differ in which kinds they enable, who correlates and when a
record is complete; `kind` chooses.  `ApiEnter`, `Queue`, `DriverCall`, `ApiExit` are an
API call of a launching thread, `BufferCompletes` a record on the library's thread
(complete or unusable), `RecordLost` one it drops and reports.  `sdk` is what the
library has, `held` what the collector believes; `Start` and `StartFails` take and roll
back step by step.  A session is `active` once its data is registered; MetaX counter
ranges begin and end around that.  One sort of fault per behaviour.

### 2.7 VendorImport

`StartOp` and `StopOp` collect host-side events on a clock that advances with each op.
`Finalize` stops the collector and drains the events; `ReadRow` imports one row at a
time, in any order and number up to `MaxRows`, from the set an export may hold;
`EndRows` adds what the import adds itself; for CANN, `MatchNext` matches one
association at a time through the tiers of the code (ids, the strict and the fuzzy
window, the launch order); `Overlay` is the finalize step of `Session.cpp` that merges
associations into ops or adds kernels.  Names are told apart as the code does: equal,
one contained in the other, equal without the suffix of a core.

### 2.8 CircularTrace and InstrumentationProfiler

`ScopeIds`, `ContextsOf`, `Segments`, `BufferBytes` are the passes' analysis of the
record ops of a kernel; `Store`, `RecordStart`, `RecordEnd` the lowered stores into a
warp's segment; `ParseSegment` and `ParseBlock` the parser, entry by entry.  A kernel is
a sequence of record ops and, for each stage and warp, the runs control flow may take.
`modeOptions` keeps the options of all modes so far: a start merges its own into them
(`Merged`), a start that is refused (`RefusedStart`) does so too, and the parser takes
the units of the warps from there (`Units`), where the compiler took them from the
session's mode.  Where the two differ, segments are cut at other places than they were
written at, and a read that begins between two entries finds `Garbage`.  In
`InstrumentationProfiler` a launch enters the hooks (`EnterLaunch`), runs block by block
and warp by warp (`Partition`, `FinalizeBlock`: index saved and restored for
partitions), and is imported at its exit.  `truth` records every execution of a scope,
for the properties. `AllocateScope` is one record op of the walk that gives the ids. One
thread launches, as the hook keeps one buffer.

### 2.9 TransferEngine and DebuggerLaunch

The engine's state is what each launch's device and host buffer hold, the queues of
the streams, the current context of each thread, and the retain counts of primary
contexts.  An adapter issues an operation "queued" on the stream, "ordered" behind the
default stream, or "direct"; this is read off each of the seven adapters, with the
libraries that may be missing or lack asynchronous symbols.  A stream runs its oldest
operation at any time.  `DebuggerLaunch` has `Enter` (prepare), `Body`, `Synchronize`,
`Finalize`, `Deliver` of each launch, nested on a thread and interleaved with
`Activate`, `Configure`, `Deactivate`, which change the module globals the finalizer
reads.

### 2.10 RecordLayout, DebugScopes, RecordPlan and DebugRecords

`RecordLayout` is the arithmetic of header, slots and payload regions.
`DebugScopes` is what the metadata passes make of a module: collect markers, or the
default ones of a run that collects everything, become scopes with a level, tracked
operations get ids, and inputs nothing tracked computed are captured at their use.
`RecordPlan` is the insertion pass: which operations are tracked, what they record at
which level, which addresses are regular enough for a summary, how payload entries are
laid out, and what makes the compilation fail.  `DebugRecords` compiles a source, runs
two program instances operation by operation (each may take or skip branches and
repeat loops) storing word by word into the buffer, and exports: header check, slots,
references, artifacts, inactive records cut, summaries computed on the host for Enflame.
A 64-bit value occupies two words, and reading words that do not belong together gives
`Torn`; an address is `Torn` too if it was computed with the stride of another type.
A value of type "ptr" has a `pointee` and a `trace`: whether it is a base, a base and
offsets, or leads to none.  `elementBits` takes the width of what a pointer finally points
to, so loads and stores of pointers get an address summary with that stride; a level-2
dump of a pointer is computed anew from its base (`Skewed` if by another stride) and
stores nothing if the base is lost (`Lost`).  Writer (`StoredFields`) and reader (`ReadFields`) of a record have a layout each.
Values are small integers with NaN and infinity; a mean is scaled to stay whole and a
norm left squared.

Simplified: of a record only the words with data are stored, since kind and operation are
taken from the plan; the passes' limits on the size of a summarised tensor are one
`SummaryLimit`; a prefix mask does not wrap below zero; a chain of pointers to pointers
ends at a 32-bit value, and no bitcast changes the width behind a traced pointer.

## 3. The runs

| run | checks | shows |
|---|---|---|
| `session_manager` | `TypeOK`, `KeysAgree`, `CountsCoverActive`, `CollectorFollows`, `DetachedUnreachable`, `ImplementsLifecycle` | all lifecycle calls with every failure, and the refinement with its liveness |
| `profiler_api` | `LaunchHookShared`, `DebuggerFollows`, `RecordingIsTracked` | hooks, debugger and tracking follow the sessions through failures and rollbacks |
| `context_dispatch` | `PathsExact`, `MetricsReachTheirScope` | paths and metrics are exact while sessions come and go between scopes |
| `gpu_collector` | `KernelsUnderTheirOp`, `VendorScopesMatch`, `SessionsStartFresh` | two threads: kernels land under their op, vendor scopes match, sessions start fresh |
| `gpu_graphs` | `KernelsCounted`, `CorrelationExact`, `FlushesReturn` | CUDA graphs: kernels counted once, correlation table exact, every flush returns |
| `nvidia_collectors` | `RangesNameTheirKernel`, `SamplesOfTheLaunch`, `LossIsReported`, `CountersReleased` | counters and samples under refusal of any one call |
| `vendor_activity` | `SessionGetsItsKernels`, `OneRowPerLaunch`, `NothingStaysEnabled`, `RangesFollowTheSession` | activity libraries with late, invalid and lost records |
| `vendor_import` | `EachKernelOnce`, `LaunchOrderKept`, `EverythingReleased`, `EventsOfTheSession` | rows of exports against host events |
| `instrumentation` | `PairsAreReal`, `KeepsWhatIsLeft`, `EachUnderItsOp` | ring buffers, wraps, partitions: the profile against what the warps executed |
| `debugger_launch` | `ExportsComplete`, `NoSilentLoss`, `NothingLeaks`, `ContextsRestored` | launches on seven drivers while the debugger is reconfigured |
| `debugger_records` | `RecordsTellTheTruth`, `NothingIsMissing`, `ArtifactsExact`, `AcceptedIsExported` | the report against what the operations saw |
| `scope_straddles_start` | `ScopesExit` (violated) | a session activated inside a scope makes the exit of the scope raise |

The last one checks a statement of a comment the code does not keep; `PROJECT.json`
quotes it.

### 3.1 Bounds

* `session_manager`: three sessions, two paths, two profilers, seven requests
  (direct, PC sampling, vendor base-only, vendor with metrics, instrumentation in two
  modes that share one option and differ in another, and on a device the build does not
  know), one throwing flush.  Two sessions are enough for sharing and conflicts, a third for a
  start after a failed or refused one; more flush faults only raise the same counters.
* `profiler_api`: two sessions, two instrumentation objects, one launching thread, one
  throwing flush: two owners of a shared hook are enough to drop it too early or late.
* `context_dispatch`: two threads, one session (restarted states included), two
  names, one state, three scopes, depth two: enough for inheritance from the main
  thread, recursion and overlap of a shared scope object, and nested scopes of equal
  and of different names.  `MaxMidScope = 0` keeps session calls between scopes;
  `scope_straddles_start` allows one inside and has two sessions.
* `gpu_collector`: two threads, two data (one of a vendor session, which keeps its
  scopes), two attachments, one hook op, two launches, one lost exit, one retry.
  `gpu_graphs` trades the second thread and op for a graph of two nodes.
* `nvidia_collectors`: a plain launch, a graph of two kernels and a copy, and a launch of
  another context, by two threads, each once; two starts, rejected ones included; two
  ranges (so that a session can exceed the limit), two passes, a buffer of one sample (so
  that each launch needs further rounds), one refused call of eleven that stand for the
  stages.  Launches may begin only under a session and end under the next one.
* `vendor_activity`: two calls, two consecutive sessions; one fault sort per behaviour.
* `vendor_import`: two ops with names of which one contains the other, two sessions,
  exports of up to three rows, windows of one and two ticks.
* `instrumentation`: four kernels (nested scopes in a loop; three warps of which two are
  partitions over two stages; overlapping scopes on a grid of two; no record ops), seven modes,
  some by a string that leaves options out, some by an object that names all,
  two launches, two sessions, one mode (`RefusedModes`) that a refused start may ask for; rings of a few entries wrap, and counters that
  start at 995 of 1000 wrap inside and outside scopes.
* `debugger_launch`: two launches, threads, devices and streams, all seven drivers, four
  kernels (not instrumented, full dump that does not fit, full dump on a stream,
  records alone on another device).
* `debugger_records`: two instances, twelve sources (two of them with pointers as values,
  of either width, traced and lost), three back ends and three kinds of run,
  capacities 3, 8, 20 and 32, which are below, at and above what the kernels need, loops
  run twice; payload offsets are cut at 2048 instead of 2^32, which payloads behind 32
  slots exceed.

Symmetry is used for threads, names and calls, only where no liveness is checked.

### 3.2 Fairness

`SessionManager` assumes weak fairness of a native call that has begun: under the GIL
nothing can stop it, so a detached session gets finalized, aborted or dropped.
`GpuCollector` assumes it of CUPTI's worker and of a flush that has begun; nothing is
assumed of kernels (they may run forever) nor of the program (it may never launch).
`FlushesReturn` rests on the retry bound of the code, not on kernels ending.
All other modules state safety only, and no fairness.  Runs set
`CHECK_DEADLOCK FALSE` where ids, launches or sessions are used up and the program
simply stops, and in `debugger_launch` where an adapter that is not ready aborts.

## 4. What is proved

TLAPS checks the following for all values of the constants that satisfy the modules'
named assumptions: any paths, profilers, requests, faults, any number of sessions;
any capacity, grid, record count and payload size.  The assumptions are those TLC
evaluates in the runs, and nothing else is taken on trust.

**The manager** (`SessionProofs`, first part, from `SessionAssumptions`), in three layers.

1. `TypeCorrect` (`Spec => []TypeOK`; in particular the
   `size_t` counters of interfaces, which the code decrements unconditionally, never go
   below zero) and `ActiveIsCounted` (`Spec => []CountsCoverActive`: each interface of
   an active session is counted for it, also after flushes that threw).  Types alone are
   not inductive: a counter is a natural number after a decrement only if it was at
   least one, which is what `CountsCoverActive` says of active sessions; that in turn
   needs the maps to agree on who is active.  `IInv` is the conjunction of types,
   `ActivityIndex` and the counters.  Rather than case by action, the proof names three
   kinds of steps (`Activates`, `Deactivates`, `Closes`), shows that every action is one of
   them or leaves the state alone (`StepKinds`), and carries `IInv` over each kind.  The
   lemmas about `Share` (how many sessions of a set use a profiler) do the arithmetic of
   a set of sessions being activated or dropped at once.
2. `MapsAgree` (`Spec => []KeysAgree`), `ProfilerFollows`
   (`Spec => []CollectorFollows`) and `NothingReachesDetached`
   (`Spec => []DetachedUnreachable`).  The inductive invariant is `Flow`: who is found
   under which path and mode (`IndexOK`, with `InMode`: the base mode always, device and
   options of the instrumentation profiler unless a refused start has changed them), an
   active session's profiler is started with its data registered (`Recording`), counters are exact while no flush threw (`Exact`),
   and a started profiler has a session left that will stop it (`Owned`).  `Exact` is
   needed because `CountsCoverActive` bounds the counters from below only, while
   unreachability needs the interface to be dropped when the last owner goes.
   `DetachedUnreachable` is about what is registered (`dataSet` and the counters); copies
   of `dataSet` that a collector's thread took before are section 5's.
3. `SafelyImplementsLifecycle`: each initial state is an initial
   state of `SessionLifecycle` and each step one of its steps or none, under the
   refinement the run checks.  `DetachSeen`, `AddSessionSeen` and `StepSeen` name the
   abstract step; `PathsStay` shows that the others do not touch what the abstraction sees.

**The layout of the debugger's buffer** (`DebugRecordsProofs`, at the start): `DecodingInverts` (the
decoder's division and remainder give back instance and record), `SlotsAreApart` and
`SlotsFillTheGrid` (the records of a launch are exactly the slots that are read),
`OverflowIsHonest` (a header without overflow means every record has its slot, otherwise
it tells how many are missing), `PayloadsAreApart` (regions of two instances never
overlap) and `WideEntriesAreAligned` (an eight-byte entry is at a multiple of eight in
every instance).

**The hook registry and the API** (`ProfilerApiProofs`): `LaunchHookIsShared`,
`DebuggerIsFollowed` and `RecordingIsKnown`, for any number of sessions, threads and
instances.  The inductive invariant `ApiInv` adds two facts to the types.  `HooksOK`: a
hook is active exactly when some registered session has it on; the operations of the
registry are lemmas of their own (`RegisterOK`, `DeactivateOK`, `UnregisterOK`, ...), and
while a failed registration is rolled back only `NearlyOK` holds, which excepts the
session in question.  From it follows that taking off a registered session's hooks never
raises, so the calls that drop a session always reach the switch of the debugger.
`ExistingIsTracked` strengthens `RecordingIsTracked` to all native sessions, recording or
not: a session may be activated later, by an id that only the Python layer holds.

**The debugger's launches** (`LaunchProofs`): `ContextsComeBack` (`Spec =>
[]ContextsRestored`) and `RunsAreNotLost` (`Spec => []NoSilentLoss`), for any launches,
threads, devices, kernels and settings, on all seven drivers.  The invariant `LaunchInv`
says that a thread's stack holds its open launches once each (`StackOK`), that only an
open launch of an instrumented kernel has an adapter with something in it (`AdaptersOK`),
that below the last adapter of a stack that saved a context lies the application's
context (`ChainOK`), and that a device is retained once per adapter that retained it
(`CountOK`).  `ChainOK` is what makes the restoration inductive: a nested launch of the
device that is current saves nothing, so "the adapter saved what was current" says too
little.  The lemmas `ChainPush`, `ChainSave`, `ChainRestore` and `ChainPop` are about any
sequence of adapters; the actions only cite them.  It matters that launches of a thread
end innermost first, which the `with` statement of `launch_context` enforces.

**The CUPTI collector** (`GpuCollectorProofs`): `CollectorTypes` (`Spec => []TypeOK`) and
`SessionsAreFresh` (`Spec => SessionsStartFresh`), for any threads, data, launches, graph
nodes and retries.  Types need two facts of their own: a thread's queue of op ids has one
element exactly while an op is in progress (`QueueOK`; `stopOp` pops it unconditionally),
and ids are used up one per op or call at most (`ScopesLeft`).  Freshness rests on
`Fresh`: once a forced flush has begun CUPTI holds no record of a call that had returned
by then, once it is over no such record is on its way, and so it stays, because a later
launch has a later id (`Numbered`).

**What the collector counts** (same module): `CorrelationIsExact`
(`Spec => []CorrelationExact`) and `KernelsAreCounted` (`Spec => []KernelsCounted`) come
from `CountInv`.  A record on its way is in one place only and was not delivered
(`RecordsOK`); so each import takes one kernel from those missing, and the entry of its
launch counts down with it, from the kernels or from "unknown" (`Exact`), which a number of
graph nodes no larger than `MaxNodes` never reaches.  The node count of a graph is its
executable's while every node was seen (`GraphOK`).  The data collecting at a launch know
its op and are in the copy of the worker that imports its records (`SinksOK`).

`KernelsGoUnderTheirOp` (`Spec => []KernelsUnderTheirOp`) needs `OpInv`, which says why the
set of api ids can be trusted although it is read long after it was written: the id of an
open hook has no entry and no metric of a kept launch (`HooksFree`), an entry either names
the hook's op or an id made for its own call, which stays in the set until the record
comes because no other launch has it (`EntriesOK`) or gets it, ids being used once
(`Used`), and two kept launches never claim one scope (`Apart`).  Launches whose end was
lost are the premise of the property; they may share.  `ThreadsOK` ties what a thread has
open to its queue, and `Quiet` says no record is left when the collector unsubscribes.
`VendorEventsMatch` (`Spec => []VendorScopesMatch`) is inductive as it stands: the event is
taken from the api ids before the import erases one.

**The buffers of the debugger's launches** (`LaunchProofs`, second half):
`ExportsAreComplete` (`Spec => []ExportsComplete`) and `BuffersAreFreed` (`Spec =>
[]NothingLeaks`).  Neither property is inductive, nor is what memory holds at a moment:
kernels of any launches wait on the streams, and any step may let some of them run.  The
invariant `DataInv` therefore speaks of `Final`, memory once all that waits has run:
there the buffer of an open launch holds what its kernel wrote, or its header if the
kernel was never enqueued (`Fits`).  A launch waits at most once and on its kernel's
stream (`Sound`, `MayWait`), so copying back behind that stream sees the final state; on
CANN's default stream and for the synchronous copies of CoreX, which know of no stream,
it does because those drivers synchronised the device first, unless the launch raised.
`Kept` is what all operations of the engine have in common: nothing new waits, what does
not wait is unchanged, and the final state of the other launches is the same.
`CopyBack` and `HeaderReady` go through the drivers once; the actions cite them.  What a
stream leaves behind (`KernelsRun`) and what emptying every stream does, in the order a
`CHOOSE` takes them (`DrainedAllIs`), are inductions; they are done with the smallest
counterexample (`SmallestIn`, from `WFMin`), because the induction rules of the library take
an operator as parameter.  They need `IsFiniteSet(Streams)`, a part of `EngineAssumption`.

**The activity collectors** (`SessionProofs`, second part; theorems of `CollectorSpec`):
`SessionsGetTheirKernels`, `OneRowForEachLaunch`, `NothingLeftEnabled` and `RangesFollow`,
for Enflame, MetaX and Moore Threads alike, any calls, threads, faults and sessions.  The inductive invariant is
`ActivityInv`.  Kernels of a session are exact because a record is in one place only
(queued, with the library, or delivered) and each place says under which subscription and
session it was made; rows are exact because a launch is in the table of pending launches
until its row is written, and a record or the end of the session takes it out.  Of MUPTI
the model has a row carry both times or neither, as the writer of the collector does.

**The imports** (`VendorImportProofs`): `KernelsLaidOnce`, `RangesInLaunchOrder`,
`ToolReleased` and `DrainedOfTheSession`, for exports of any content and length.  Their
invariant `ImportInv` says which events were drained and are not matched yet, that
associations name events of the drained list, each once, and that the cursor of the
launch order of a kernel's name is beyond every event the name was given.  The helpers that pick
the first, the nearest or the ascending events are `CHOOSE`s over finite sets of
numbers; their lemmas rest on the same least-number argument.

**Scopes, paths and metrics** (`ContextProofs`): `PathsAreExact` (`Spec => PathsExact`, an
action property), `MetricsReach` (`Spec => []MetricsReachTheirScope`) and `ScopesExitInTurn`
(while sessions come and go between scopes no exit raises, which is the half of
`ScopesExit` that holds), for any threads, names, states, sessions, addresses and depths.
`ContextInv` ties three stacks of a thread to each other: its stack in a source ends with
the names of the scopes it is inside of, if the source is one that records (`StacksAre`);
below them is what it inherited, if the source reuses no address (`FreshAre`); and what
`enter_scope` pushed matches, entry by entry, the open blocks of that form (`PushedAre`,
`Matches`).  All hold only while `midScope = 0`, and `Unrecorded` says why sessions may
come and go then: with none recording, an open block has entered no scope.  From
`StacksAre` the name to pop is on top of every active source, so no exit raises; from
`PushedAre` `exit_scope` pops the block it leaves, and from `BlocksAre` a decorated
function has the id of its last call, which is its own unless calls overlap.  `ScopeNames`
is recursive; that it has a value at all, is the same for blocks of the same names and
grows by one name per scope are inductions by the smallest counterexample.

**The optional collectors** (`NvidiaProofs`): `TypesHold`, `CountersAlwaysReleased`
(`Spec => []CountersReleased`), `RangesAlwaysNameTheirKernel` (`Spec =>
[]RangesNameTheirKernel`), `LossesAreReported` (`Spec => []LossIsReported`) and
`SamplesAlwaysOfTheLaunch` (`Spec => []SamplesOfTheLaunch`), for any threads, contexts,
launches and requests, whichever calls CUPTI refuses.  `CountersHeld` accounts for every
object of the range profiler: the counters hold it or CUPTI kept it, and the counters hold some only while a session is
under way that was not stranded by a rejected start.  The ranges rest on `Aligned`: the
kernels that are recorded, continued by those in the records not handed over yet, are the
kernels of the ranges in their order.  What makes it inductive is `Exclusive` (with
counters there is no PC sampling, every launch is replayed serially and none is left on
the device) and `CallsOwn` (a launch that is under way or not yet made has neither range
nor record): so the records of one launch, repeated once per pass, add exactly its kernels
to what `recordKernel` keeps (`RecordedRepeated`), and both sequences are cut at the same
limit (`WithinConcat`).  `StepCases` sorts the actions into those that touch ranges or
records, each with a lemma of its own, and those that do not (`Quiet`).

A loss is reported because at every moment of a session what is asked for is in the
artifact's events already, still on its way, or given up with a reason (`LossInvariant`).
For kernels and copies the way is short: on the device under observation, in the records,
delivered.  For samples it leads through the callbacks of other threads, and only holds
for a launch that is alone: `SamplesAccounted` follows it from entry (sampling is on) over
its driver call (CUPTI has samples of its context) and its exit (they are in the buffer)
to the rounds that record them.  `Overlapping` is what makes this inductive: whenever two
launches are under way at once, the history knows that they overlap, so a step of one
thread leaves no other launch alone (`ActsAlone`) and only its own has to be followed.

Samples are given to the launches they are of (`SamplesInvariant`) because a kernel's
samples are in one place at a time: with CUPTI, in the buffer, or recorded (`Collected`,
`Handled`).  While CUPTI has them their launch has not exited, if this session hears it
(`StillThere`): its exit would stop the sampling, since one context at most is sampled and
only while the callbacks are heard (`OneSampler`).  So the launch whose exit takes them is
their own or under way with it, and `Overlapping` knows the pair; `pcSamplingStarted` is
false as long as they are processed, so no other launch puts samples into the buffer.  Of
the session's own kernels none is lost between the buffer and the events (`NoneLost`),
because the buffer is cut without loss or repetition (`DistinctCut`).  The invariants of
the ranges and of the losses are premises of its steps: `CallsOwn` tells that a launch
makes its driver call once, `SwitchesSet` that a running session captures.

**Rows of instrumented launches** (`ProfilerApiProofs`, second part): `RowsUnderTheirOp` (`Spec =>
[]EachUnderItsOp`), for any kernels, modes, data and number of launches.  A row is written
under the scope id its data finds in the thread's map, and what that id became an op of is
another table; `OpsFollow` ties the two: during a launch the map and the ops are exactly
those of this launch, made together by its enter hook, or both empty when the hook does not
start ops, unless an earlier exit raised and left its entries (`stale`, which the property
excuses); and between launches the map is empty unless the last exit raised.  What a
kernel's warps write meanwhile does not matter.

`RowsAreReal` (`Spec => []PairsAreReal`) and `RingKeeps` (`Spec => []KeepsWhatIsLeft`) say
what the rows are, for any kernels, warps, blocks, modes and sizes of the ring, while the
options in effect select the warps that the session's own mode does (`OptionsFit`).  The
invariant `TraceInv` says, phase by phase, that each warp of a block has a history: a
sequence of entries of which the word count is twice the length, the ring holds the
newest (`InBuffer`), and the log of executions is what its starts and ends pair up to
(`Written`).  The histories are not state, so the invariant says that they exist; TLC
cannot enumerate them and checks the two consequences only.  The argument has four parts.

* *Writing.* A store extends the history of its warp by one and leaves the words of the
  others alone (`StoreWrites`): segments are apart and inside the buffer, entry n is in the
  slot that n has modulo the capacity, and a start that finds the id of its scope open, or
  an end that does not, would break the pairing (`MidRun`).  `RunWrites` carries this along
  a run, op by op, whichever of the two orders of the stores the mode has.
* *Parsing.* `SegmentParsed`, a theorem about `ParseSegment` for any entries: the events
  are the starts with the next end of their scope (a start of an open scope is skipped, and
  an end of a closed one), and the parser raises exactly if such a pair runs back in time.
* *The seam.* The parser reads slots, not ages: the newest lap first, then what is left
  of the one before.  `PlaceOf` gives the age of every slot, and `PairingsMatch` shows that
  what pairs up in that order paired up in the history: a start of the newest lap has its
  own end there, so no older end is taken for it, and an end whose start is older, or
  overwritten, finds its scope closed.  Conversely a pair on one side of the seam is
  found.  `SegmentTells` and `BlockTells` put the two together.
* *Names.* `PathsAreEnclosing`: where scopes nest, the path made of the parents of an id is
  the names open around its start.  The stack of the pass pops its top at every end, the
  reference closes by name; `StackIsOpen` says that nesting makes them the same.

The assumptions are those of `ProfilerAssumption`, each about what comes in, as the code
neither repairs nor always refuses it.  `KernelOK`: scopes are paired in the kernel (the
pass refuses others, "must appear in pairs") and along every run that control flow may
take (a warp that leaves a loop between start and end breaks every tool of this kind); a
kernel has at most 256 scopes, as an entry keeps eight bits of the id and nothing checks
it; and a run takes less than a lap of the counter.  `ModeOK`: selected units ascend, the
sampling strategy is the one compiler and parser agree on, and the string form of a mode
names the options it has or leaves them out.  `RingOK`: a segment holds whole
entries; sizes of 4 bytes per segment, which the pass accepts, do not, and entries of
neighbouring warps would overlap.

**The debugger's records** (`DebugRecordsProofs`): `DebugTells` (`Spec =>
[]RecordsTellTheTruth`), `DebugMisses` (`Spec => []NothingIsMissing`), `DebugDumps` (`Spec
=> []ArtifactsExact`) and `DebugAccepts` (`Spec => []AcceptedIsExported`), for any sources,
modes, grid, capacity, trip counts and values.  Two assumptions about what comes in are
stated with the model: `SourcesAssumption` (operations are typed, what has a type has
lanes, and ids that come with a source, which only an earlier run of the same pass sets,
are distinct: the pass keeps the ids it finds, and records of two operations with one id
cannot be told apart) and `TensorsAssumption` (a tensor of n lanes has n values).

What the four say holds of the exported run only, so the invariant `DebugInv` says by
phase what each later one relies on.  Before the launch: `Sound`, what compilation has
come to.  While the instances run: `BufferHolds`, the words of a record that an instance
ran are those it wrote last and the words of any other are nobody's.  It is inductive because
a step of one instance writes words of its own slots and payload entries (`WordsWritten`)
and no two records share one (`SlotWords`, `Area`), which is the layout's theorems word by
word.  At the end: `Exported`, the report is that of such a buffer, and the four properties
follow from it (`ExportTrue` and its like).  Writer and reader are two definitions; that
they agree is `FieldsAgree` and `ReadsBack` for records and `CutRead` for dumps.  Addresses
are the deep part: what the device computes from the first lane is the least or greatest
of all the lanes' (`Spaced`), because an address is only summarised where the offsets add
up to a step of one (`OffsetsAdd`).  Of pointers the theorems claim what the device
computes by their own width: first, last and span of an access, and dumped addresses, if
the stride is that of a lane (`StrideRight`), and dumped pointers if they lead to a base
and their stride is right (`Computed`); count and presence of the records are claimed of
all.

`Sound` is proved of every source in every mode (`DebugCompile`).  Marking keeps ids
distinct (`MarkedSound`), ids given to operations start above those they have, and
those given to captured operands above these (`FirstFree`, `CaptureIds`), so no two records of
a plan name the same thing; a plan has only records that make sense of their operation
(`PlanPlanned`); payload entries are aligned and follow each other (`EntryFits`).  These
are facts about recursive definitions: `Joins` and `Selects` describe the concatenations
and selections along a source, and an induction by the smallest counterexample (`UpTo`)
says what they consist of.  Sums over lanes and instances have no closed form and need
none, since device and host take the same ones.

**Only model-checked**:
* liveness (that of the refinement, and `FlushesReturn`): fairness and `ENABLED` are
  beyond the prover.

Which scopes and levels come of the collect markers, and which operations a mode tracks,
decides what is recorded but not whether it is true: no theorem says more of them than
their types.

## 5. Known to deviate, without a run of their own

Met while modelling, and where possible in the models; the hazards name the lines.
Properties exclude these cases explicitly, in their premises.

*Python layer.*
* Searching `session_hooks` (a `defaultdict`) creates entries in the sessions
  searched: `deactivate(a); deactivate(b); activate(b)` gives `b` the hook of `a`.
* Exit hooks of a launch are those active at its end, not those that were entered;
  the heads of the hook chains are not added again on reactivation (`hook.py:132`).
* On an unsupported target `instrumentation_on` stays set after a failed start; the
  rollback of a failed start finalizes a session that was already running on the path,
  and that of a second instrumentation session takes down the first.
* `exit_scope` pops another scope when profiling was switched on or off in between;
  the metrics of a recursive decorated function go to the call that entered last;
  leaving a nested state clears the outer one, and a state left while no session
  records lingers.

*Manager and CUPTI collector.*
* `getProfiler` switches PC sampling on the shared collector before modes are
  compared, also under a running session.
* It also calls `InstrumentationProfiler::setMode` (`Session.cpp:61`) before: a refused
  instrumentation start changes `runtime` and `modeOptions` of the session that runs.
  `CollectorFollows` excludes a profiler so `disturbed`, until the next accepted start.
* `finalize_all` drops, unfinalized, the sessions behind one whose finalize throws; a
  flush that throws in `deactivate` leaves the interfaces counted.
* A context source at a recycled address finds the stacks of its predecessor.
* After a launch that raised, the next kernel of the thread goes to the abandoned op; a
  kernel that still runs at a forced flush gives a null metric that is dereferenced.
* The worker snapshots the data set when a buffer begins and holds no lock on it:
  a data that is unregistered and destroyed after that is still written to.
* `addOp` on an op that exists gives a second node of the same name; the sleep
  between flush retries takes microseconds for milliseconds; the dump keeps only
  the first device of each type; `TreeData::addOp` merges into a vector without room.

*NVIDIA counters and sampling.*
* A `doStart` that fails after subscribing keeps the subscriber, so every retry fails,
  where `Profiler.h:52` says that failed initialization must remain retryable.
* A legacy start after a vendor session with counters runs Kernel Replay uninvited; a
  rejected NVIDIA start over a running legacy session, or the reverse, changes the
  running one (`active_` reset, PC sampling switched on, memory capture left on).
* A stop refused in another context leaves `pcSamplingStarted` set for good;
  `doStop` finalizes only the current context; a configuration that fails after enabling
  leaves the context enabled; a launch concurrent with another gets no samples.
* Kernels of other contexts, or left over from a session whose stop threw, shift the
  ranges; ranges beyond `maxRanges` are missing without a reason.
* Sampling that a launch has started outlives the session when a rejected start switches
  PC sampling off and another one on again before that launch returns, when CUPTI refuses
  to finalize at the stop, and when the launch goes on into the next session: the samples
  then go to whichever launch stops the sampling.  `SamplesOfTheLaunch` excludes the three.
* `doStop` frees `ConfigureData` while a callback may process its samples; its
  destructor frees `numValidStallReasons` of `DataBufferPCCount` entries.

*Vendor collectors.*
* A Tianshu row never takes the op of its event, so every row becomes a new op;
  CANN drops the host's events (and their ops) when a task_time export exists; its
  launch-order cursor skips events of other devices for good; the tier matching of
  summaries is not injective; a greedy match may give the row "add" the event "add_relu".
* A duration column placed before the start column is lost; Moore Threads rows with
  a duration only get a synthetic place, and each long-format row takes another event.
* A `doStop` that throws while disabling keeps the subscriber, and the next start
  overwrites its handle; a flush that throws after the MetaX counters began leaves the
  range running; a forced MUPTI flush may deliver unfinished records.

*Instrumentation.*
* `setMode` clears no option (`InstrumentationProfiler.cpp:67`): sampling options of an
  earlier or refused mode select the warps the parser decodes for a later mode that names
  none, so rows are skipped or decoded from the wrong place; `PairsAreReal` and
  `KeepsWhatIsLeft` are claimed while the units agree.
* The parser takes the granularity in the form an `InstrumentationMode` prints only: a
  mode string with `granularity=warp` makes it throw at the first launch (`BadOptions`).
* A kernel without record ops after an instrumented one divides by its scratch size 0
  (`ExitDivides`).  A clock that wraps inside a scope throws the import away and leaves
  the ops of that launch for the next (`stale`).
* A pair on two sides of the ring's seam is lost though both records survive; the parent
  of overlapping scopes is whatever was opened last; scope ids are cut to eight bits.
* The warning about dropped events compares words with events; data registered between
  the start of an op and its exit gets op 0; with two launching threads one parses the
  buffer of the other.

*Debugger.*
* The finalizer reads the configuration of the moment it runs, not that of its launch.
* A failed launch is not synchronised: with `export_on_error`, CANN and CoreX without
  asynchronous symbols may export unfinished data.
* The MUSA adapter does not restore the caller's context; TOPS and MACA set the device
  for good; on the host driver a launch with the hidden argument always raises.
* `elementBits` recurses into the pointee (`Passes.cpp:775`): last address, span and
  dumped addresses of loads and stores of pointers are computed with the pointee's width.
* A level-2 dump of a pointer that leads to no base (loaded, selected, carried by a loop)
  stores a reference and no payload, and is exported as zeros with status ok.
* Level 1 shows zeros for branches not taken and the last iteration of a loop; without
  a grid a level-1 report is empty with overflow 0.

## 6. Not modelled

* **Data**: only as far as its users need it (scope maps, metrics of ops, snapshots of
  contexts, ops merged by the overlay).  Aggregation of metric values and the hatchet
  and chrome-trace writers are sequential passes over a finished tree.
* **ROCm collector**: it shares `GPUProfiler` with CUPTI, whose model has the protocol;
  its own part is the order in which ROCTracer delivers HIP and HSA records, which
  nothing in the repository fixes.
* **Device drivers**: `dlopen` dispatch tables.  **Command line, viewer**: a script
  runner and an offline reader of dumps, pure I/O.
* Of the modelled components: the Python context source (frames of the interpreter),
  the naming of artifact files and the metadata `finalize` adds, option strings and the
  parsing of columns and units, values of hardware counters, the module table and
  source correlation of PC samples, the AMD clock and the sampling options compiler and
  parser treat differently, byte order and malformed headers, the pointer analyses of the
  compiler side (inputs of the model), MLIR rewriting (its meaning lies in a compiler
  outside the repository), and the wording of reports.

## 7. Plan

Done: all modules of section 2, and the proofs of section 4.  What is left, in order:

1. An abstract specification of a collector (every kernel launched while a data is
   registered is given to it once) that `GpuCollector` and `ActivityCollector` implement.
2. The aggregation of `TreeData` and the overlap of addresses in the debugger's dumps as
   pure operators; two launching threads in `InstrumentationProfiler`.
3. RocTracer as a variant of `GpuCollector`, once the order of its records is known.
