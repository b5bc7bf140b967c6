--------------------------- MODULE NvidiaCollectors ---------------------------
(* The optional collectors of the CUPTI profiler, over the sessions of the      *)
(* NVIDIA adapter and of the legacy backend that share the one CuptiProfiler:   *)
(* hardware counters (a range profiler that replays kernels), PC sampling       *)
(* (started and stopped around every launch) and memory activities.  Each may   *)
(* be refused by the driver, and the profile of the kernels must survive that.  *)
(* GpuCollector has the ops and correlations this module leaves out.            *)
EXTENDS Naturals, Sequences, FiniteSets, SequencesExt, Bags

CONSTANTS
  Threads, Contexts, Absent,
  Launches,    \* the API calls, each made once at most ...
  Calls,       \* ... bound: and this many by a thread
  ThreadOf,    \* [Launches -> the thread that makes it]
  ContextOf,   \* [Launches -> the context of that thread]
  Nodes,       \* [Launches -> its kernels: several for a graph]
  Copying,     \* the launches, graphs, that also copy memory
  Requests,    \* a sequence: what each start may be, as [backend, metrics, pc]
  MaxRanges,   \* maxRanges_
  MaxPasses,   \* bound: the replays of a kernel
  BufferPCs,   \* DataBufferPCCount
  Refusals,    \* bound: the calls CUPTI refuses
  Refusable,   \* bound: those it may refuse, of the counters' and at the end
  Callers      \* the contexts of the threads that start (or none) and stop

ASSUME NvidiaAssumption ==
  /\ MaxRanges \in Nat \ {0} /\ MaxPasses \in Nat \ {0} /\ BufferPCs \in Nat \ {0}
  /\ Calls \in Nat /\ Refusals \in Nat /\ Callers \subseteq Contexts
  /\ \A l \in Launches : ThreadOf[l] \in Threads /\ ContextOf[l] \in Contexts
                         /\ Nodes[l] \in Nat
  /\ Copying \subseteq Launches
  /\ Requests \in Seq(SUBSET [backend : {"nvidia", "cupti"}, metrics : SUBSET STRING,
                              pc : BOOLEAN])

\* A launch that a thread is in.
Underway == [launch : Launches, at : {"entered", "launched", "processing"}, heard : Nat]

ASSUME AbsentAssumption ==
  /\ Absent \notin Contexts /\ Absent \notin Underway
  /\ Absent \notin [thread : Threads, firstRound : BOOLEAN]

VARIABLES
  phase, request,  \* the session, and where it is
  caller,          \* the context of the thread that deactivates it
  switches,        \* the flags of CuptiProfiler and its Pimpl
  counters,        \* NvidiaHardwareCounters
  sampler,         \* CuptiPCSampling: pcSamplingStarted, contextInitialized
  cupti,           \* external: what CUPTI holds for the process
  nvpw,            \* external: the range profiler's [objects, ranges]
  buffer,          \* external: the samples it hands over: [total, remaining]
  processing,      \* processPCSamplingData, under pcSamplingMutex
  vendorEvents,    \* a bag: their order is not told apart
  reasons,
  call,            \* [Threads -> the launch it is in]
  running,         \* external: {[kernel, observed]}, the kernels on the device
  records,         \* external: the activity records not handed over yet
  aborted,         \* an exception left a callback, or freed data was used
  artifact,        \* the import of the last session
  past             \* history and bounds

vars == <<phase, request, caller, switches, counters, sampler, cupti, nvpw, buffer,
          processing, vendorEvents, reasons, call, running, records, aborted, artifact, past>>

KernelKinds == {"KERNEL", "CONCURRENT_KERNEL"}
MemoryKinds == {"MEMCPY", "MEMSET"}
Fresh == [subscribed |-> FALSE, activities |-> {}, callbacks |-> {},
          enabled |-> {}, sampling |-> {}, sampled |-> <<>>]
Empty == [total |-> <<>>, remaining |-> <<>>]
Session0 == [launched |-> {}, exited |-> FALSE, copied |-> FALSE, due |-> {},
             based |-> {}, blind |-> FALSE, alone |-> TRUE]

\* The kernels of a launch, and its copy.
Kernels(l) == [i \in 1..Nodes[l] |-> <<l, i>>]
Copy(l) == <<l, 0>>

Init ==
  /\ phase = "idle" /\ request = Absent /\ caller = Absent
  /\ switches = [pc |-> FALSE, optional |-> FALSE, unavailable |-> FALSE,
                 capture |-> FALSE, memory |-> FALSE, memoryOn |-> FALSE]
  /\ counters = [configured |-> FALSE, active |-> FALSE, held |-> {},
                 context |-> Absent, kernelEvents |-> <<>>]
  /\ sampler = [started |-> FALSE, initialized |-> {}]
  /\ cupti = Fresh /\ nvpw = [objects |-> {}, ranges |-> <<>>] /\ buffer = Empty /\ processing = Absent
  /\ vendorEvents = EmptyBag /\ reasons = {}
  /\ call = [t \in Threads |-> Absent]
  /\ running = {} /\ records = <<>> /\ aborted = FALSE /\ artifact = Absent
  /\ past = [subscribers |-> 0, starts |-> 0, refusals |-> 0, started |-> {}, overlaps |-> {},
             handed |-> {}, kept |-> {}, stranded |-> FALSE,
             pcRefused |-> FALSE, switchedOff |-> FALSE, late |-> {},
             session |-> Session0]

(* ------------------------------- the plan ----------------------------------- *)

HardwareMetrics == {"occupancy", "throughput", "bandwidth", "instruction_count"}
Supported == {"launch_stats", "kernel_duration", "memory", "instruction"}
             \cup HardwareMetrics

Counts(r) == r.metrics \cap HardwareMetrics # {}

\* Counters and PC sampling exclude each other; the counters win.
Enabled(r) ==
  LET known == r.metrics \cap Supported
  IN IF Counts(r) THEN known \ {"instruction"} ELSE known
Asks(r) == r.backend = "nvidia" /\ Enabled(r) # {}
PlanReasons(r) ==
  IF r.metrics \ Enabled(r) = {} THEN {} ELSE {"plan"}

Samples(r) == ~Counts(r) /\ (r.pc \/ "instruction" \in Enabled(r))

Configured(r) ==
  [switches EXCEPT !.pc = Samples(r), !.optional = Samples(r),
     !.unavailable = FALSE, !.capture = Enabled(r) # {},
     !.memory = "memory" \in Enabled(r)]

ConfiguredCounters(r) ==
  [counters EXCEPT !.configured = Counts(r), !.active = FALSE,
                   !.kernelEvents = <<>>]

\* The legacy backend only ever switches PC sampling on: what the last vendor
\* plan has configured stays.
Configure(r) ==
  IF r.backend = "nvidia"
    THEN /\ switches' = Configured(r)
         /\ vendorEvents' = EmptyBag
    ELSE /\ switches' = [switches EXCEPT !.pc = @ \/ r.pc]
         /\ UNCHANGED vendorEvents

(* --------------------------- hardware counters ------------------------------ *)

\* The calls of NvidiaHardwareCounters::start, in order; a ~ destroys.
Setup == <<"profiler", "chip", "evaluator", "requests", "rawConfig", "configImage",
           "~rawConfig", "builder", "prefix", "~builder", "~evaluator",
           "dataImage", "session", "config", "profiling">>
Call(name) == CHOOSE i \in DOMAIN Setup : Setup[i] = name
Success == Len(Setup) + 1

CuptiObjects == {"profiler", "session", "config", "profiling"}
NvpwObjects == {"evaluator", "rawConfig", "builder"}
Destroy(o) == Call(CASE o = "evaluator" -> "~evaluator"
                     [] o = "rawConfig" -> "~rawConfig"
                     [] o = "builder" -> "~builder")

\* What the calls before the n-th have made: the profiler's own objects have a
\* flag each, those of NVPW live between two calls.
Begun(n) == {o \in CuptiObjects : Call(o) < n}
Alive(n) == {o \in NvpwObjects : Call(o) < n /\ n <= Destroy(o)}

Kept(S) == {{}} \cup {{o} : o \in S}

\* Faulty: no catch around the raw configuration.
CaughtOnce(n) == {o \in NvpwObjects \ {"rawConfig"} : Call(o) < n /\ n < Destroy(o)}

\* Each object is destroyed by the catch of the block that works with it.
Caught(n) == {o \in NvpwObjects : Call(o) < n /\ n < Destroy(o)}

\* cleanup: the flags fall whatever the calls answer; CUPTI keeps the objects
\* it refused to release.
Ended(c) == [c EXCEPT !.active = FALSE, !.held = {}]

\* NvidiaHardwareCounters::start in context c, of which the n-th call fails (or
\* none does) and in whose cleanup CUPTI keeps the objects in kept.
CountersStart(c, n, kept) ==
  LET held == counters.held \cup Begun(n)
      base == [counters EXCEPT !.active = FALSE, !.kernelEvents = <<>>]
  IN IF ~counters.configured \/ c = Absent
       THEN /\ kept = {} /\ n = Success
            /\ counters' = base /\ UNCHANGED nvpw
       ELSE /\ counters' = IF n = Success
                             THEN [base EXCEPT !.held = held, !.context = c,
                                               !.active = TRUE]
                             ELSE Ended([base EXCEPT !.context = c])
            /\ nvpw' = IF n = Success
                         THEN [objects |-> nvpw.objects \cup Begun(n), ranges |-> <<>>]
                         ELSE [nvpw EXCEPT !.objects =
                                 ((@ \cup Begun(n) \cup Alive(n)) \ Caught(n))
                                   \ (held \ kept)]
            /\ kept \subseteq IF n = Success THEN {} ELSE held

\* Why the session will have no counters.
CountersRefused(c, n) == counters.configured /\ (c = Absent \/ n # Success)

\* Faulty: every record is another launch.
RecordedAgain(known, e) == Append(known, e)

\* recordKernel: a replay reports a launch once per pass, a graph launch its
\* nodes under one correlation id.
Recorded(known, e) == IF e \in ToSet(known) THEN known ELSE Append(known, e)

\* ... over the records of a buffer, of which the copies are passed over.
RecordedAll(known, rs) ==
  LET f[i \in 0..Len(rs)] ==
        IF i = 0 THEN known
        ELSE IF rs[i][2] = 0 THEN f[i - 1] ELSE Recorded(f[i - 1], rs[i])
  IN  f[Len(rs)]

Event(kind, scope, kernel) ==
  [kind |-> kind, scope |-> scope, kernel |-> kernel, of |-> kernel]

\* evaluate: the i-th range is that of the i-th kernel that was recorded.
RangeEvents(n) ==
  LET known == counters.kernelEvents
      named(i) == IF i <= Len(known) THEN known[i] ELSE Absent
  IN {[kind |-> "hardware_counter", scope |-> Absent, kernel |-> named(i),
       of |-> nvpw.ranges[i]] : i \in 1..n}

Evaluated == IF Len(nvpw.ranges) < MaxRanges THEN Len(nvpw.ranges) ELSE MaxRanges

(* ------------------------------ the session --------------------------------- *)

\* makeSession: the adapter (or getProfiler) configures the shared collector.
MakeSession(r) ==
  /\ phase = "idle" /\ ~aborted
  /\ phase' = "made" /\ request' = r /\ artifact' = Absent
  /\ Configure(r)
  /\ counters' = IF r.backend = "nvidia" THEN ConfiguredCounters(r) ELSE counters
  /\ reasons' = IF r.backend = "nvidia" THEN {} ELSE reasons
  /\ past' = [past EXCEPT !.starts = @ + 1,
                !.session = [Session0 EXCEPT !.alone = (running = {} /\ records = <<>>)],
                !.stranded = @ \/ (r.backend = "nvidia" /\ counters.active)]
  /\ UNCHANGED <<caller, sampler, cupti, nvpw, buffer, processing, call, running, records,
                 aborted>>

\* A start that is rejected has configured the collector of the running session:
\* a mode that differs is noticed only afterwards.
RejectedStart(r) ==
  /\ phase = "running" /\ ~aborted
  /\ {r.backend, request.backend} = {"nvidia"} =>
       Enabled(r) = {} /\ Enabled(request) = {}
  /\ [r EXCEPT !.metrics = {}] # [request EXCEPT !.metrics = {}]
  /\ Configure(r)
  /\ counters' = IF r.backend = "nvidia" THEN ConfiguredCounters(r) ELSE counters
  /\ reasons' = IF r.backend = "nvidia" THEN {} ELSE reasons
  /\ past' = [past EXCEPT !.starts = @ + 1,
                !.stranded = @ \/ (r.backend = "nvidia" /\ counters.active),
                !.switchedOff = @ \/ (switches.pc /\ ~switches'.pc)]
  /\ UNCHANGED <<phase, request, caller, sampler, cupti, nvpw, buffer, processing, call,
                 running, records, aborted, artifact>>

MemoryOn == switches.capture /\ switches.memory
KernelKind == IF switches.pc THEN "KERNEL" ELSE "CONCURRENT_KERNEL"
Groups == {"graph", "runtime", "driver"}

\* doStart on a thread whose context is c.  failed: the call that throws; the
\* counters only degrade.  skipped: the callback groups CUPTI calls invalid,
\* which a session with counters tolerates.
DoStart(c, failed, skipped, n, kept) ==
  LET throws == failed # "none"
      busy == cupti.subscribed
      reached(step) ==
        LET at == [none |-> 5, subscribe |-> 1, memory |-> 2, kernel |-> 3,
                   callbacks |-> 4]
        IN ~busy /\ at[failed] > step
      activities == cupti.activities
                    \cup (IF reached(2) /\ MemoryOn THEN MemoryKinds ELSE {})
                    \cup (IF reached(3) THEN {KernelKind} ELSE {})
      resource == IF reached(2) /\ switches.pc THEN {"resource"} ELSE {}
      groups == IF reached(4) THEN Groups \ skipped ELSE {}
      refused == (IF throws THEN 1 ELSE 0) + (IF skipped # {} THEN 1 ELSE 0)
                 + (IF CountersRefused(c, n) /\ c # Absent THEN 1 ELSE 0)
                 + Cardinality(kept)
  IN /\ past.refusals + refused <= Refusals
     /\ failed = "memory" => MemoryOn
     /\ busy => failed = "none" /\ skipped = {} /\ n = Success /\ kept = {}
     /\ ~reached(4) => skipped = {}
     /\ skipped # {} => counters.configured
     /\ IF reached(1) THEN CountersStart(c, n, kept)
        ELSE n = Success /\ kept = {} /\ UNCHANGED <<counters, nvpw>>
     /\ cupti' = [cupti EXCEPT !.subscribed = busy \/ reached(1),
                    !.activities = activities,
                    !.callbacks = @ \cup resource \cup groups]
     /\ switches' = IF reached(1) THEN [switches EXCEPT !.memoryOn = MemoryOn]
                    ELSE switches
     /\ reasons' = reasons
          \cup (IF reached(1) /\ CountersRefused(c, n) THEN {"counters"} ELSE {})
          \cup (IF skipped # {} THEN {"callbacks"} ELSE {})
     /\ phase' = IF busy \/ throws THEN "idle" ELSE "running"
     /\ past' = [past EXCEPT !.subscribers = @ + (IF reached(1) THEN 1 ELSE 0),
                   !.refusals = @ + refused, !.kept = @ \cup kept
                   \cup {o \in NvpwObjects : Destroy(o) = n},
                   !.stranded = @ \/ busy \/ throws]
     /\ UNCHANGED <<request, caller, sampler, buffer, processing, vendorEvents, call, running,
                    records, aborted, artifact>>

\* (The graph callbacks stand for those of the runtime, too.)
Start ==
  /\ phase = "made" /\ ~aborted
  /\ \E c \in Callers \cup {Absent}, failed \in {"none", "subscribe", "memory", "kernel", "callbacks"},
        skipped \in Kept({"graph", "driver"}), n \in {Success} \cup {i \in DOMAIN Setup : Setup[i] \in Refusable},
        kept \in Kept(CuptiObjects) :
       DoStart(c, failed, skipped, n, kept)

(* ------------------------------- a launch ----------------------------------- *)

Hears == cupti.subscribed /\ "driver" \in cupti.callbacks
On(c) == {k \in running : ContextOf[k.kernel[1]] = c}
RecordsOf(K) == SetToSeq({k.kernel : k \in {x \in K : x.observed}})

\* Faulty: sampling starts over the kernels that still run.
StartsAtOnce(c) ==
  [left |-> running, sampled |-> RecordsOf(On(c)), records |-> records]

\* ctxSynchronize before the sampling: the kernels of the context finish.
Synchronized(c) ==
  [left |-> running \ On(c), sampled |-> <<>>, records |-> records \o RecordsOf(On(c))]

Swaps == {"both", "disabled", "neither"}
Cost(swap) == IF swap = "both" THEN 0 ELSE 1

\* Faulty: the concurrent kernels are not switched on again.
SwappedHalf(swap) ==
  IF swap = "neither" THEN cupti.activities ELSE cupti.activities \ {"KERNEL"}

\* Back to concurrent kernels; CUPTI may refuse to disable the one kind (then
\* nothing changes) or to enable the other.
Swapped(swap) ==
  CASE swap = "both" -> (cupti.activities \ {"KERNEL"}) \cup {"CONCURRENT_KERNEL"}
    [] swap = "disabled" -> cupti.activities \ {"KERNEL"}
    [] swap = "neither" -> cupti.activities

\* disableOptionalPCSampling in context c.  left: {c} if c was enabled but not
\* set up; nobody disables it then.
FallsBack(c, swap, left) ==
  LET closes == IF c \in sampler.initialized THEN {c} ELSE {}
  IN /\ switches' = [switches EXCEPT !.unavailable = TRUE, !.pc = FALSE]
     /\ sampler' = [sampler EXCEPT !.initialized = @ \ {c}]
     /\ cupti' = [cupti EXCEPT !.enabled = (@ \ closes) \cup left,
                               !.sampling = @ \ closes,
                               !.activities = Swapped(swap)]
     /\ reasons' = reasons \cup {"pcsampling"}

\* An exception of the sampling in a callback: an optional collector is given
\* up, otherwise the exception leaves the callback.
Refused(p, c, swap, left, cost) ==
  /\ p.refusals + cost + Cost(swap) <= Refusals
  /\ IF switches.optional
       THEN FallsBack(c, swap, left) /\ UNCHANGED aborted
       ELSE /\ swap = "both" /\ left = {} /\ aborted' = TRUE
            /\ UNCHANGED <<switches, sampler, cupti, reasons>>
  /\ past' = [p EXCEPT !.refusals = @ + cost + Cost(swap), !.pcRefused = TRUE,
                       !.session.blind = @ \/ swap = "disabled"]

\* Bound: launches begin while a session runs, and go on past its end and into the
\* next session, but for the last one's.
Going == ~aborted /\ (phase # "idle" \/ past.starts < Len(Requests))

Entered(t, l) ==
  /\ call[t] = Absent /\ t = ThreadOf[l] /\ l \notin past.started
  /\ Cardinality({k \in past.started : ThreadOf[k] = t}) < Calls
  /\ phase = "running" /\ ~aborted
  /\ call' = [call EXCEPT ![t] = [launch |-> l, at |-> "entered",
                                  heard |-> IF Hears THEN past.subscribers ELSE 0]]
Begins(p, l) ==
  [p EXCEPT !.started = @ \cup {l},
            !.overlaps = @ \cup {{l, call[u].launch} : u \in {v \in Threads : call[v] # Absent}}]

\* API_ENTER of a launch that has nothing to start.
EnterPlain(t, l) ==
  /\ Entered(t, l)
  /\ Hears /\ switches.pc => sampler.started
  /\ past' = Begins(past, l)
  /\ UNCHANGED <<phase, request, caller, switches, counters, sampler, cupti, nvpw, buffer,
                 processing, vendorEvents, reasons, running, records, aborted,
                 artifact>>

\* API_ENTER of a driver launch: sampling starts in its context, which is set up
\* when it is seen for the first time; only one thread does so at a time.
EnterSampling(t, l) ==
  LET c == ContextOf[l]
      new == c \notin sampler.initialized
  IN /\ Entered(t, l)
     /\ Hears /\ switches.pc /\ ~sampler.started /\ processing = Absent
     /\ ~new => c \in cupti.enabled
     /\ LET synced == Synchronized(c)
        IN /\ sampler' = [started |-> TRUE, initialized |-> sampler.initialized \cup {c}]
           /\ cupti' = [cupti EXCEPT !.enabled = @ \cup {c}, !.sampling = @ \cup {c},
                                     !.sampled = synced.sampled]
           /\ running' = synced.left /\ records' = synced.records
     /\ past' = Begins(past, l)
     /\ UNCHANGED <<phase, request, caller, switches, counters, nvpw, buffer, processing,
                    vendorEvents, reasons, aborted, artifact>>

\* CUPTI refuses it; a context it does not know any more it has to refuse.
EnterRefused(t, l, swap, left) ==
  LET c == ContextOf[l]
      known == c \in sampler.initialized
  IN /\ Entered(t, l)
     /\ Hears /\ switches.pc /\ ~sampler.started /\ processing = Absent
     /\ left \subseteq IF known THEN {} ELSE {c}
     /\ Refused(Begins(past, l), c, swap, left,
                IF known /\ c \notin cupti.enabled THEN 0 ELSE 1)
     /\ UNCHANGED <<phase, request, caller, counters, nvpw, buffer, processing, vendorEvents,
                    running, records, artifact>>

Replays(l) == counters.active /\ ContextOf[l] = counters.context
Repeated(s, n) == [i \in 1..Len(s) * n |-> s[1 + (i - 1) \div n]]
Within(s, n) == SubSeq(s, 1, IF Len(s) < n THEN Len(s) ELSE n)

\* External: the driver takes the launch.  Under the range profiler a kernel runs
\* once per pass before the call returns, each with a record, and gives a range.
Driver(t, passes) ==
  LET l == call[t].launch
      observed == cupti.activities \cap KernelKinds # {}
      copied == l \in Copying /\ MemoryKinds \subseteq cupti.activities
      kernels == Kernels(l)
  IN /\ call[t] # Absent /\ call[t].at = "entered" /\ Going
     /\ passes > 1 => Replays(l)
     /\ call' = [call EXCEPT ![t].at = "launched"]
     /\ records' = records \o (IF copied THEN <<Copy(l)>> ELSE <<>>) \o
          (IF Replays(l) /\ observed THEN Repeated(kernels, passes) ELSE <<>>)
     /\ running' = running \cup IF Replays(l) THEN {}
                       ELSE {[kernel |-> k, observed |-> observed] : k \in ToSet(kernels)}
     /\ nvpw' = IF Replays(l)
                  THEN [nvpw EXCEPT !.ranges = Within(@ \o kernels, MaxRanges)]
                  ELSE nvpw
     /\ cupti' = IF ContextOf[l] \in cupti.sampling
                   THEN [cupti EXCEPT !.sampled = @ \o kernels] ELSE cupti
     /\ LET late == IF call[t].heard = past.subscribers THEN {} ELSE {l}
            own == phase = "running"
        IN past' = [past EXCEPT !.late = @ \cup late,
                      !.session.launched = @ \cup (IF own THEN ToSet(kernels) ELSE {}),
                      !.session.copied = @ \/ (own /\ l \in Copying),
                      !.session.alone = @ /\ Replays(l)]
     /\ UNCHANGED <<phase, request, caller, switches, counters, sampler, buffer, processing,
                    vendorEvents, reasons, aborted, artifact>>

\* CUPTI calls back the exit of the launches whose entry it has called back.
Heard(t) == Hears /\ call[t].heard = past.subscribers
Leaves(t) == call' = [call EXCEPT ![t] = Absent]
\* History: a launch of kernels has had its samples taken.  One that overlaps with
\* another may have none of its own.
Exited(p, t) ==
  LET l == call[t].launch
      own == Nodes[l] # 0 /\ \A pair \in p.overlaps : l \notin pair
  IN [p EXCEPT !.session.exited = @ \/ (Heard(t) /\ phase = "running" /\ own)]
AtExit(t) == call[t] # Absent /\ call[t].at = "launched" /\ Going
Stops(t) == Heard(t) /\ switches.pc /\ sampler.started

ExitPlain(t) ==
  /\ AtExit(t) /\ ~Stops(t)
  /\ Leaves(t) /\ past' = Exited(past, t)
  /\ UNCHANGED <<phase, request, caller, switches, counters, sampler, cupti, nvpw, buffer,
                 processing, vendorEvents, reasons, running, records, aborted,
                 artifact>>

\* Sampling stops in the context of this thread, whoever has started it; CUPTI
\* has filled the buffer, and keeps what did not fit.
ExitSampling(t) ==
  LET l == call[t].launch
      c == ContextOf[l]
      fits == Within(cupti.sampled, BufferPCs)
  IN /\ AtExit(t) /\ Stops(t) /\ c \in cupti.sampling
     /\ sampler' = [sampler EXCEPT !.started = FALSE]
     /\ cupti' = [cupti EXCEPT !.sampling = @ \ {c}, !.sampled = <<>>]
     /\ buffer' = [total |-> fits,
                   remaining |-> SubSeq(cupti.sampled, Len(fits) + 1, Len(cupti.sampled))]
     /\ processing' = [thread |-> t, firstRound |-> TRUE]
     /\ call' = [call EXCEPT ![t].at = "processing"]
     /\ past' = [past EXCEPT !.handed = @ \cup ToSet(cupti.sampled)]
     /\ UNCHANGED <<phase, request, caller, switches, counters, nvpw, vendorEvents, reasons,
                    running, records, aborted, artifact>>

\* Sampling that runs in another context, or does not run at all any more.
ExitRefused(t, swap) ==
  LET c == ContextOf[call[t].launch]
  IN /\ AtExit(t) /\ Stops(t)
     /\ Leaves(t)
     /\ Refused(Exited(past, t), c, swap, {}, IF c \in cupti.sampling THEN 1 ELSE 0)
     /\ UNCHANGED <<phase, request, caller, counters, nvpw, buffer, processing, vendorEvents,
                    running, records, artifact>>

SampleEvents(l) ==
  {Event("pcsampling", l, k) : k \in ToSet(buffer.total)}

Captured(events) ==
  vendorEvents (+) SetToBag(IF switches.capture THEN events ELSE {})

\* The condition of the loop of processPCSamplingData.
MoreToHandle ==
  buffer.total # <<>> \/ buffer.remaining # <<>> \/ processing.firstRound

\* One round: the samples in the buffer go to the launch, then the next are
\* fetched, once in any case.
Round(t) ==
  /\ processing # Absent /\ processing.thread = t /\ Going /\ MoreToHandle
  /\ vendorEvents' = Captured(SampleEvents(call[t].launch))
  /\ IF ContextOf[call[t].launch] \notin sampler.initialized
       THEN /\ aborted' = TRUE     \* doStop has freed the ConfigureData
            /\ UNCHANGED <<buffer, processing>>
       ELSE /\ UNCHANGED aborted
            /\ processing' = [processing EXCEPT !.firstRound = FALSE]
            /\ LET next == Within(buffer.remaining, BufferPCs)
               IN buffer' = [total |-> next,
                             remaining |-> SubSeq(buffer.remaining, Len(next) + 1,
                                                  Len(buffer.remaining))]
  /\ UNCHANGED <<phase, request, caller, switches, counters, sampler, cupti, nvpw, reasons,
                 call, running, records, artifact, past>>

\* The samples cannot be fetched.
RoundRefused(t, swap) ==
  /\ processing # Absent /\ processing.thread = t /\ Going
  /\ buffer.remaining # <<>> \/ processing.firstRound
  /\ vendorEvents' = Captured(SampleEvents(call[t].launch))
  /\ processing' = Absent /\ buffer' = Empty /\ Leaves(t)
  /\ Refused(Exited(past, t), ContextOf[call[t].launch], swap, {}, 1)
  /\ UNCHANGED <<phase, request, caller, counters, nvpw, running, records, artifact>>

RoundsDone(t) ==
  /\ processing # Absent /\ processing.thread = t /\ Going /\ ~MoreToHandle
  /\ processing' = Absent /\ Leaves(t) /\ past' = Exited(past, t)
  /\ UNCHANGED <<phase, request, caller, switches, counters, sampler, cupti, nvpw, buffer,
                 vendorEvents, reasons, running, records, aborted, artifact>>

(* --------------------------- records and the end ---------------------------- *)

\* completeBuffer: recordVendorActivity or recordVendorMemoryActivity for each
\* record, then the base import.
Deliver ==
  LET kind(r) == IF r[2] # 0 THEN "kernel" ELSE "memory"
  IN /\ records' = <<>>
     /\ counters' = IF counters.active
                      THEN [counters EXCEPT !.kernelEvents = RecordedAll(@, records)]
                      ELSE counters
     /\ vendorEvents' = Captured({Event(kind(r), r[1], r) : r \in ToSet(records)})
     /\ past' = [past EXCEPT !.session.based = @ \cup {r \in ToSet(records) : r[2] # 0}]

\* deactivate on a thread whose context is c: doFlush synchronizes it; of the
\* launches elsewhere those in ended are done.  (Records handed over before the
\* flush, and kernels that end before it, commute with every step until here.)
DoFlush(c, ended) ==
  LET K == {k \in running : ContextOf[k.kernel[1]] = c \/ k.kernel[1] \in ended}
  IN /\ ended \subseteq {k.kernel[1] : k \in running \ On(c)}
     /\ phase' = "flushing" /\ caller' = c
     /\ running' = running \ K /\ records' = records \o RecordsOf(K)
     /\ past' = [past EXCEPT !.session.due =
                    {k \in past.session.launched : ContextOf[k[1]] = c}]
     /\ UNCHANGED <<request, switches, counters, sampler, cupti, nvpw, buffer,
                    processing, vendorEvents, reasons, call, aborted, artifact>>

Flush ==
  /\ phase = "running" /\ ~aborted
  /\ \E c \in Callers, ended \in SUBSET {k.kernel[1] : k \in running} : DoFlush(c, ended)

\* ... and takes the records.
Flushed ==
  /\ phase = "flushing" /\ ~aborted
  /\ phase' = "flushed"
  /\ Deliver
  /\ UNCHANGED <<request, caller, switches, sampler, cupti, nvpw, buffer, processing,
                 reasons, call, running, aborted, artifact>>

\* A refusal ends the session with an exception (SessionManager has that), unless
\* PC sampling was given up before.
FlushRefused ==
  /\ phase = "flushing" /\ ~aborted
  /\ switches.optional /\ switches.unavailable /\ past.refusals < Refusals
  /\ phase' = "flushed"
  /\ reasons' = reasons \cup {"flush"}
  /\ past' = [past EXCEPT !.refusals = @ + 1, !.session.blind = TRUE]
  /\ UNCHANGED <<request, caller, switches, counters, sampler, cupti, nvpw, buffer,
                 processing, vendorEvents, call, running, records, aborted, artifact>>

\* cleanup, of which CUPTI keeps the objects in kept.
Released(kept) == nvpw.objects \ (counters.held \ kept)

\* NvidiaHardwareCounters::stop: n ranges are evaluated; fewer than there are if
\* the flush or the evaluation is refused.
CountersStop(n, kept) ==
  IF ~counters.active
    THEN n = 0 /\ kept = {} /\ UNCHANGED <<counters, nvpw>>
    ELSE /\ n \in 0..Evaluated /\ kept \subseteq counters.held
         /\ counters' = Ended(counters)
         /\ nvpw' = [nvpw EXCEPT !.objects = Released(kept)]
CountersLost(n, kept) ==
  counters.active /\ (nvpw.ranges = <<>> \/ n < Evaluated \/ kept # {})

\* The calls that take the collector down, in order, on a thread in context c.
TearDown(c) ==
  (IF switches.pc
     THEN (IF c \in sampler.initialized THEN <<"sampling">> ELSE <<>>)
          \o <<"resource", "KERNEL">>
     ELSE <<"CONCURRENT_KERNEL">>)
  \o (IF switches.memoryOn THEN <<"MEMCPY", "MEMSET">> ELSE <<>>)
  \o <<"graph", "runtime", "driver", "unsubscribe", "finalize">>

\* After the calls in done: a finalized CUPTI has nothing left.
TornDown(c, done) ==
  IF "finalize" \in done THEN Fresh
  ELSE [cupti EXCEPT !.subscribed = @ /\ "unsubscribe" \notin done,
                     !.activities = @ \ done, !.callbacks = @ \ done,
                     !.enabled = @ \ (IF "sampling" \in done THEN {c} ELSE {}),
                     !.sampling = @ \ (IF "sampling" \in done THEN {c} ELSE {})]

Forgotten(K) == {[k EXCEPT !.observed = FALSE] : k \in K}

\* doStop, on the thread that has flushed.  refused: the position of the call
\* CUPTI refuses, or 0.  If PC sampling was given up the others are still made,
\* otherwise the exception ends the session without its artifacts.
DoStop(n, kept, refused) ==
  LET c == caller
      calls == TearDown(c)
      tolerated == switches.optional /\ switches.unavailable
      made == {i \in DOMAIN calls : i # refused /\ (refused = 0 \/ tolerated \/ i < refused)}
      throws == refused # 0 /\ ~tolerated
      done == {calls[i] : i \in made}
      cost == (IF refused = 0 THEN 0 ELSE 1) + (IF n < Evaluated \/ kept # {} THEN 1 ELSE 0)
  IN /\ caller' = Absent
     /\ counters.active => past.refusals + cost <= Refusals
     /\ ~counters.active => past.refusals + (IF refused = 0 THEN 0 ELSE 1) <= Refusals
     /\ CountersStop(n, kept)
     /\ vendorEvents' = vendorEvents (+)
                        SetToBag(IF counters.active THEN RangeEvents(n) ELSE {})
     /\ reasons' = reasons \cup (IF CountersLost(n, kept) THEN {"counters"} ELSE {})
                   \cup (IF refused # 0 /\ tolerated THEN {"cleanup"} ELSE {})
     /\ sampler' = IF switches.pc
                     THEN [sampler EXCEPT !.initialized = @ \ {c}] ELSE sampler
     /\ switches' = [switches EXCEPT !.pc = FALSE,
                       !.memoryOn = @ /\ throws /\ "graph" \notin done
                                      /\ calls[refused] # "graph"]
     /\ cupti' = TornDown(c, done)
     /\ IF "finalize" \in done
          THEN records' = <<>> /\ running' = Forgotten(running)
          ELSE UNCHANGED <<records, running>>
     /\ phase' = IF throws \/ request.backend = "cupti" THEN "idle" ELSE "stopped"
     /\ past' = [past EXCEPT !.kept = @ \cup kept, !.pcRefused = @ \/ refused # 0,
                   !.refusals = @ + (IF counters.active THEN cost
                                     ELSE IF refused = 0 THEN 0 ELSE 1)]
     /\ UNCHANGED <<request, buffer, processing, call, aborted, artifact>>

Stop ==
  /\ phase = "flushed" /\ ~aborted
  /\ \E n \in 0..MaxRanges, kept \in Kept(CuptiObjects),
        refused \in {0} \cup {i \in DOMAIN TearDown(caller) : TearDown(caller)[i] \in Refusable} :
       DoStop(n, kept, refused)

\* The kinds of events the plan asks for.
Asked(r) ==
  (IF {"launch_stats", "kernel_duration"} \cap Enabled(r) # {} THEN {"kernel"} ELSE {})
  \cup (IF "memory" \in Enabled(r) THEN {"memory"} ELSE {})
  \cup (IF "instruction" \in Enabled(r) THEN {"pcsampling"} ELSE {})
  \cup (IF Counts(r) THEN {"hardware_counter"} ELSE {})

\* NvidiaMetricsImporter::import, which also takes the queues and the switches.
Import ==
  LET events == {e \in BagToSet(vendorEvents) : e.kind \in Asked(request)}
  IN /\ phase = "stopped" /\ ~aborted
     /\ phase' = "idle"
     /\ artifact' = [events |-> events,
                     reasons |-> reasons \cup PlanReasons(request)
                       \cup (IF events = {} /\ Enabled(request) # {}
                               THEN {"nothing"} ELSE {})]
     /\ vendorEvents' = EmptyBag /\ reasons' = {}
     /\ switches' = [switches EXCEPT !.capture = FALSE, !.memory = FALSE]
     /\ UNCHANGED <<request, caller, counters, sampler, cupti, nvpw, buffer, processing, call,
                    running, records, aborted, past>>

\* Bound: the starts, the rejected ones included.
NextRequests ==
  IF past.starts < Len(Requests) THEN Requests[past.starts + 1] ELSE {}

Next ==
  \/ \E r \in NextRequests : MakeSession(r) \/ RejectedStart(r)
  \/ Start
  \/ \E l \in Launches :
       LET t == ThreadOf[l] IN
       \/ EnterPlain(t, l) \/ EnterSampling(t, l)
       \/ \E swap \in Swaps, left \in {{}, {ContextOf[l]}} : EnterRefused(t, l, swap, left)
  \/ \E t \in Threads :
       \/ \E passes \in 1..MaxPasses : Driver(t, passes)
       \/ ExitPlain(t) \/ ExitSampling(t) \/ Round(t) \/ RoundsDone(t)
       \/ \E swap \in Swaps : ExitRefused(t, swap) \/ RoundRefused(t, swap)
  \/ Flush \/ Flushed \/ FlushRefused
  \/ Stop
  \/ Import

Spec == Init /\ [][Next]_vars

-----------------------------------------------------------------------------
\* The values of every variable that is no history.
TypeOK ==
  /\ phase \in {"idle", "made", "running", "flushing", "flushed", "stopped"}
  /\ switches \in [{"pc", "optional", "unavailable", "capture", "memory", "memoryOn"}
                   -> BOOLEAN]
  /\ counters.held \subseteq CuptiObjects
  /\ sampler.initialized \subseteq Contexts
  /\ cupti.enabled \subseteq Contexts /\ Cardinality(cupti.sampling) <= 1
  /\ processing = Absent \/ processing.thread \in Threads

\* Counters are given to the kernel they were counted for
\* (NvidiaHardwareCounters::evaluate joins the i-th range with the i-th record):
\* replays that report a kernel once per pass, graphs that report several
\* kernels for one launch and ranges beyond the limit do not shift them, as long
\* as every kernel of the session ran in the context of the range profiler.
RangesNameTheirKernel ==
  artifact # Absent /\ past.session.alone =>
    \A e \in artifact.events :
      e.kind = "hardware_counter" => e.kernel \in {e.of, Absent}

\* PC samples belong to a launch that was under way when their kernel was
\* launched, whichever thread started or stopped the sampling, and every sample
\* CUPTI has handed over is recorded once (start, stop and the loop of
\* processPCSamplingData).  CUPTI has refused no call of the sampling or of a stop,
\* and no rejected start has switched the sampling of a running session off:
\* either leaves it on for a launch of later, as does a launch that goes on from
\* one session into the next.
SamplesOfTheLaunch ==
  LET samples == {e \in BagToSet(vendorEvents) : e.kind = "pcsampling"}
  IN ~past.pcRefused /\ ~past.switchedOff /\ ~aborted =>
       /\ \A e \in samples : LET l == e.kernel[1] IN
            /\ l = e.scope \/ {l, e.scope} \in past.overlaps \/ l \in past.late
            /\ vendorEvents[e] = 1
       /\ processing = Absent /\ phase = "running" /\ Asks(request) =>
            \A k \in past.handed :
              k \in past.session.launched =>
                Cardinality({e \in samples : e.kernel = k}) = 1

\* What the driver refuses is missing from the artifact with a reason, never
\* silently, and does not cost the profile of the kernels: README.md says that
\* "the base activity profile is still finalized and the reason is recorded".
\* (Not claimed for kernels after CUPTI refused to go back to concurrent kernels.)
LossIsReported ==
  LET has(kind) == \E e \in artifact.events : e.kind = kind
      lost(kind) == kind \in Asked(request) /\ ~has(kind)
      s == past.session
  IN /\ artifact # Absent /\ artifact.reasons = {} =>
          /\ s.launched # {} => ~lost("hardware_counter")
          /\ s.exited => ~lost("pcsampling")
          /\ s.copied => ~lost("memory")
     /\ phase = "flushed" /\ ~s.blind => s.due \subseteq s.based

\* Between sessions nothing of the range profiler is left, whichever call of its
\* start, its evaluation or its release failed, but for the objects CUPTI has
\* refused to release.  (A start that throws later, and one that is rejected for
\* its mode while counters run, do leave it behind.)
CountersReleased ==
  phase \in {"idle", "stopped"} /\ ~past.stranded => nvpw.objects \subseteq past.kept
=============================================================================
