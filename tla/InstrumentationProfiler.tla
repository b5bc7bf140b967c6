----------------------- MODULE InstrumentationProfiler -----------------------
(* Kernels with record ops under instrumentation sessions: the hook and the      *)
(* profiler around a launch, the warps that run it block by block, and the       *)
(* import of the trace buffer when the launch returns.  One thread launches: the *)
(* hook keeps the buffer of the last allocation only.                            *)
EXTENDS CircularTrace

CONSTANTS
  Kernels,         \* name -> kernel
  Modes,
  RefusedModes,    \* those of them that a start may ask for while a session has another
  ClockStarts,     \* what the counters may show when a kernel starts
  Garbage,         \* what a read of shared memory that no warp wrote may find
  MaxLaunches,     \* bounds the launches
  MaxTraceSessions \* bounds the sessions, one after the other

\* In a sequence of entries or record ops: the jth ends the scope that the ith starts;
\* every one has its partner.
Matches(s, i, j) ==
  /\ i < j /\ s[i].start /\ ~s[j].start /\ s[j].scope = s[i].scope
  /\ \A x \in i+1 .. j-1 : s[x].scope # s[i].scope
Paired(s) ==
  \A i \in DOMAIN s : \E j \in DOMAIN s : IF s[i].start THEN Matches(s, i, j) ELSE Matches(s, j, i)

Named(k) == [n \in DOMAIN k.records |-> [scope |-> k.records[n].name, start |-> k.records[n].start]]
Taken(k, r) ==
  [n \in DOMAIN r |-> [scope |-> ScopeIds(k).ids[r[n]], start |-> k.records[r[n]].start]]

\* Scopes are paired in the kernel and along every run, and none is given an id that the
\* eight bits of an entry cannot hold; the counter does not wrap twice in a run.
KernelOK(k) ==
  /\ k.warps \in Nat /\ k.masters \in 1 .. k.warps /\ k.grid \in Nat \ {0}
  /\ k.records \in Seq([name : STRING, start : BOOLEAN]) /\ Paired(Named(k))
  /\ Len(ScopeIds(k).names) <= 256
  /\ k.stages \in Seq([Warps(k) -> SUBSET Seq(DOMAIN k.records)])
  /\ \A s \in DOMAIN k.stages : \A w \in Warps(k) : \A r \in k.stages[s][w] :
       Paired(Taken(k, r)) /\ Len(r) < ClockWrap

\* Warps are selected in ascending order, by the strategy that compiler and parser agree
\* on; a warp's segment holds whole entries.  The mode string need not name the options
\* (an InstrumentationMode prints all of them): "sampling" and "granularity" are what it
\* gives for sampling_options and granularity, Nothing if it leaves them out.
ModeOK(m) ==
  /\ m.schedule \in BOOLEAN /\ (m.selective <=> m.ids # <<>>)
  /\ m.ids \in Seq(Nat) /\ \A i, j \in DOMAIN m.ids : i < j => m.ids[i] < m.ids[j]
  /\ m.sampling = m.ids \/ (m.sampling = Nothing /\ m.ids = <<>>)
RingOK(k, m) ==
  LET bytes == BufferBytes(k, m) \div Cardinality(Segments(k, m))
  IN  /\ BufferBytes(k, m) \in Nat
      /\ BufferBytes(k, m) > 0 => bytes > 0 /\ bytes % EntryBytes = 0

ASSUME ProfilerAssumption ==
  /\ ClockStarts \subseteq Nat /\ MaxLaunches \in Nat /\ MaxTraceSessions \in Nat
  /\ RefusedModes \subseteq Modes
  /\ \A n \in DOMAIN Kernels : KernelOK(Kernels[n])
  /\ \A m \in Modes : ModeOK(m)
  /\ \A n \in DOMAIN Kernels, m \in Modes : Kernels[n].records # <<>> => RingOK(Kernels[n], m)

VARIABLES
  session,         \* the current session, 0 before the first
  dataSet,         \* the data registered with the profiler
  mode, launchHook, \* what the session was started with
  modeOptions,     \* the options of all modes so far
  hostBuffer,      \* is it allocated?
  opInProgress, dataScopeIdMap, \* thread-local: data -> op
  buffer,          \* the profile buffer of the hook: the kernel it was allocated for, its blocks
  phase, launch, kernel, \* the launch under way
  run,             \* the block that is running
  rows, ops,       \* of the last launch: what was imported, and the ops the data were given
  truth,           \* of the last launch: every finished execution of a scope
  raised, stale,   \* the last exit of a launch raised; the one before did
  crashed          \* a launch has killed the process

sessionVars == <<session, dataSet, mode, launchHook, modeOptions>>
opVars == <<opInProgress, dataScopeIdMap>>
historyVars == <<rows, ops, truth>>
profilerVars == <<sessionVars, hostBuffer, opVars, buffer, phase, launch, kernel, run,
                  historyVars, raised, stale, crashed>>

ProfilerInit ==
  /\ session = 0 /\ dataSet = {} /\ mode \in Modes /\ launchHook = FALSE
  /\ modeOptions = [sampling |-> <<>>, granularity |-> ""]
  /\ hostBuffer = FALSE
  /\ opInProgress = FALSE /\ dataScopeIdMap = {}
  /\ buffer = Nothing
  /\ phase = "idle" /\ launch = 0 /\ kernel = Nothing /\ run = Nothing
  /\ rows = {} /\ ops = {} /\ truth = {}
  /\ raised = FALSE /\ stale = FALSE /\ crashed = FALSE

(* -------------------------------- sessions ------------------------------------- *)

Idle == phase \in {"idle", "imported"} /\ ~crashed
Forget == phase' = "idle" /\ rows' = {} /\ ops' = {} /\ truth' = {}

\* setMode inserts into the options and clears none: what the mode does not name stays.
Merged(old, m) ==
  [sampling    |-> IF m.sampling = Nothing THEN old.sampling ELSE m.sampling,
   granularity |-> IF m.granularity = Nothing THEN old.granularity ELSE m.granularity]

StartSession ==
  /\ Idle /\ dataSet = {} /\ session < MaxTraceSessions
  /\ session' = session + 1 /\ dataSet' = {session + 1}
  /\ launchHook' \in BOOLEAN
  /\ \E m \in Modes : mode' = m /\ modeOptions' = Merged(modeOptions, m)
  /\ Forget
  /\ UNCHANGED <<hostBuffer, opVars, buffer, launch, kernel, run, raised, stale, crashed>>

\* A start in another mode while there is a session: it is refused, after setMode.
RefusedStart(m) ==
  /\ Idle /\ session > 0 /\ m # mode
  /\ modeOptions' = Merged(modeOptions, m)
  /\ Forget
  /\ UNCHANGED <<session, dataSet, mode, launchHook, hostBuffer, opVars, buffer, launch,
                 kernel, run, raised, stale, crashed>>

\* deactivate or finalize: the hook drops its buffer, doStop frees the host's.
StopSession ==
  /\ Idle /\ dataSet # {}
  /\ dataSet' = {} /\ hostBuffer' = FALSE /\ buffer' = Nothing
  /\ Forget
  /\ UNCHANGED <<session, mode, launchHook, modeOptions, opVars, launch, kernel, run, raised, stale, crashed>>
Resume ==
  /\ Idle /\ dataSet = {} /\ session > 0
  /\ dataSet' = {session}
  /\ Forget
  /\ UNCHANGED <<session, mode, launchHook, modeOptions, hostBuffer, opVars, buffer, launch,
                 kernel, run, raised, stale, crashed>>

(* --------------------------------- the launch ---------------------------------- *)

K == Kernels[kernel]
Recorded(n) == Kernels[n].records # <<>>
Compiles(n) == Recorded(n) => BufferBytes(Kernels[n], mode) > 0

\* A block before its warps run: its shared memory as it is found, and no context
\* initialised without partitions.
Specialised(k) == k.masters < k.warps
Block(k, b, c, g) ==
  [block |-> b, stage |-> 1, left |-> Warps(k), clock |-> c, log |-> {},
   index |-> [w \in Warps(k) |-> 0],
   saved |-> [w \in Warps(k) |-> IF Specialised(k) THEN 0 ELSE Nothing],
   open  |-> [w \in Warps(k) |-> {}],
   data  |-> [i \in 0 .. BufferBytes(k, mode) \div Word - 1 |-> g]]

\* LaunchHook.enter, then InstrumentationHook.enter.
StartsOp == launchHook /\ ~opInProgress
EnterLaunch(n) ==
  /\ Idle /\ dataSet # {} /\ launch < MaxLaunches /\ Compiles(n)
  /\ launch' = launch + 1 /\ kernel' = n
  /\ buffer' = IF Recorded(n) THEN [of |-> n, blocks |-> <<>>] ELSE buffer
  /\ opInProgress' = (opInProgress \/ launchHook)
  /\ dataScopeIdMap' = IF StartsOp
                        THEN {p \in dataScopeIdMap : p[1] \notin dataSet}
                             \cup {<<d, launch + 1>> : d \in dataSet}
                        ELSE dataScopeIdMap
  /\ ops' = IF StartsOp THEN {<<d, launch + 1, n>> : d \in dataSet} ELSE {}
  /\ hostBuffer' = TRUE
  /\ rows' = {} /\ truth' = {}
  /\ IF Recorded(n)
       THEN phase' = "running" /\ \E c \in ClockStarts, g \in Garbage : run' = Block(Kernels[n], 0, c, g)
       ELSE phase' = "returned" /\ run' = Nothing
  /\ raised' = FALSE /\ stale' = raised
  /\ UNCHANGED <<sessionVars, crashed>>

\* One warp goes through a stage: the function's own warps with the index they have,
\* a partition with the one the header keeps for the warp.
Master(w) == w < K.masters
\* Faulty: the partitions start over.
RestoresNone(w) == IF Master(w) THEN run.index[w] ELSE 0
Restored(w) == IF Master(w) THEN run.index[w] ELSE run.saved[w]
HasRecords(w) == K.stages[run.stage][w] # {<<>>}
Partition(w) ==
  /\ phase = "running" /\ run.stage <= Len(K.stages) /\ w \in run.left
  /\ \E r \in K.stages[run.stage][w] :
       LET s == Run(K, mode, w, ScopeIds(K).ids, r,
                    [index |-> Restored(w), buffer |-> run.data, clock |-> run.clock,
                     open |-> run.open[w], log |-> run.log])
           last == run.left = {w}
       IN  run' = [run EXCEPT
                     !.data = s.buffer, !.clock = s.clock, !.open[w] = s.open, !.log = s.log,
                     !.index[w] = IF Master(w) THEN s.index ELSE @,
                     !.saved[w] = IF ~Master(w) /\ HasRecords(w) THEN s.index ELSE @,
                     !.left = IF last THEN Warps(K) ELSE @ \ {w},
                     !.stage = IF last THEN @ + 1 ELSE @]
  /\ UNCHANGED <<sessionVars, hostBuffer, opVars, buffer, phase, launch, kernel,
                 historyVars, raised, stale, crashed>>

\* The end of the kernel: a block's header, the indices of its warps and its buffer
\* go to its place in the profile buffer.
FinalizeBlock ==
  /\ phase = "running" /\ run.stage > Len(K.stages)
  /\ LET left == [block |-> run.block, bytes |-> BufferBytes(K, mode), data |-> run.data,
                  count |-> [w \in Warps(K) |-> IF Master(w) THEN run.index[w] ELSE run.saved[w]]]
     IN  /\ buffer' = [buffer EXCEPT !.blocks = Append(@, left)]
         /\ truth' = truth \cup {[block |-> run.block, did |-> e, total |-> left.count[e.warp]] : e \in run.log}
  /\ IF run.block + 1 < K.grid
       THEN phase' = phase /\ \E g \in Garbage : run' = Block(K, run.block + 1, run.clock, g)
       ELSE phase' = "returned" /\ run' = Nothing
  /\ UNCHANGED <<sessionVars, hostBuffer, opVars, launch, kernel, rows, ops, raised,
                 stale, crashed>>

(* ------------------------ InstrumentationHook.exit ------------------------------ *)

\* LaunchHook.exit comes after it, and not at all if it raises.
OpEnds == opInProgress' = (opInProgress /\ ~launchHook)
Emptied == launchHook /\ opInProgress \* stopOp clears the map as well

ExitUnseen ==
  /\ phase = "returned" /\ buffer = Nothing /\ ~crashed
  /\ phase' = "imported" /\ OpEnds
  /\ dataScopeIdMap' = IF Emptied THEN {} ELSE dataScopeIdMap
  /\ raised' = (stale /\ ~Emptied)
  /\ UNCHANGED <<sessionVars, hostBuffer, buffer, launch, kernel, run, historyVars,
                 stale, crashed>>

\* A kernel without records finds the buffer of an earlier launch, and its own
\* scratch size is 0: the number of blocks is a division by zero.
ExitDivides ==
  /\ phase = "returned" /\ buffer # Nothing /\ ~Recorded(kernel) /\ ~crashed
  /\ crashed' = TRUE
  /\ UNCHANGED <<sessionVars, hostBuffer, opVars, buffer, phase, launch, kernel, run,
                 historyVars, raised, stale>>

\* The warps of the options in effect, none named meaning all.
UnitIds(k, ids) == IF ids = <<>> THEN [i \in 1 .. k.warps |-> i - 1] ELSE ids
Units == UnitIds(K, modeOptions.sampling)

\* getParserConfig throws.
BadOptions ==
  \/ modeOptions.granularity \notin {"", "GRANULARITY.WARP"}
  \/ \E i \in DOMAIN Units : Units[i] >= K.warps

\* The calling context of a scope id, empty for one the kernel does not have.
ContextOf(k, id) ==
  IF id < Len(ScopeIds(k).names) THEN ContextsOf(ScopeIds(k))[id] ELSE <<>>
OpsNow == IF dataScopeIdMap = {} THEN {<<d, launch>> : d \in dataSet} ELSE dataScopeIdMap
OpOf(d) == IF \E p \in OpsNow : p[1] = d THEN (CHOOSE p \in OpsNow : p[1] = d)[2] ELSE 0

\* Faulty: the ops stay for the next launch.
Kept == OpsNow
Unset == {}
ExitInstrumentedOp ==
  /\ phase = "returned" /\ buffer # Nothing /\ Recorded(kernel) /\ hostBuffer
  /\ LET traces == UNION {ParseBlock(buffer.blocks[i], Units) : i \in DOMAIN buffer.blocks}
         throws == BadOptions \/ \E t \in traces : t.raised
     IN  /\ raised' = throws
         /\ rows' = IF throws THEN {}
                    ELSE UNION {{[data |-> d, op |-> OpOf(d), block |-> t.block, uid |-> t.uid,
                                  path |-> ContextOf(K, e[1].scope), duration |-> e[2].cycle - e[1].cycle,
                                  from |-> e[1].time, to |-> e[2].time]
                                  : e \in t.events, d \in dataSet} : t \in traces}
         /\ dataScopeIdMap' = IF throws THEN OpsNow ELSE Unset
         /\ IF throws THEN opInProgress' = opInProgress ELSE OpEnds
  /\ ops' = ops \cup (IF dataScopeIdMap = {} THEN {<<d, launch, kernel>> : d \in dataSet} ELSE {})
  /\ phase' = "imported"
  /\ UNCHANGED <<sessionVars, hostBuffer, buffer, launch, kernel, run, truth, stale, crashed>>

ProfilerNext ==
  \/ StartSession \/ StopSession \/ Resume
  \/ \E m \in RefusedModes : RefusedStart(m)
  \/ \E n \in DOMAIN Kernels : EnterLaunch(n)
  \/ \E w \in UNION {Warps(Kernels[n]) : n \in DOMAIN Kernels} : Partition(w)
  \/ FinalizeBlock \/ ExitUnseen \/ ExitDivides \/ ExitInstrumentedOp
ProfilerSpec == ProfilerInit /\ [][ProfilerNext]_profilerVars

(* -------------------------------- properties ----------------------------------- *)

ProfilerTypeOK ==
  /\ session \in 0 .. MaxTraceSessions /\ dataSet \subseteq 1 .. MaxTraceSessions /\ mode \in Modes
  /\ {launchHook, hostBuffer, opInProgress, raised, stale, crashed} \subseteq BOOLEAN
  /\ dataScopeIdMap \subseteq (1 .. MaxTraceSessions) \X (1 .. MaxLaunches)
  /\ phase \in {"idle", "running", "returned", "imported"} /\ launch \in 0 .. MaxLaunches

\* The warps that the session's own mode selects, and the parser going by them.  It does
\* not when the mode leaves sampling_options out and an earlier or a refused one named
\* them, or when a refused one named others.
OwnUnits(k, m) == UnitIds(k, m.ids)
OptionsFit == Units = OwnUnits(K, mode)
Sampled(w) == \E i \in DOMAIN OwnUnits(K, mode) : OwnUnits(K, mode)[i] = w

\* The scopes that lexically enclose the nth scope of a kernel, outermost first: the
\* end of a name closes it and what was opened inside.
UpToName(s, x) ==
  LET at == {i \in DOMAIN s : s[i] = x}
  IN  IF at = {} THEN s ELSE SubSeq(s, 1, (CHOOSE i \in at : TRUE) - 1)
Walked(s, r) ==
  IF r.start THEN [open |-> Append(s.open, r.name), paths |-> Append(s.paths, Append(s.open, r.name))]
  ELSE [s EXCEPT !.open = UpToName(@, r.name)]
Enclosing(k) ==
  LET walk[n \in 0 .. Len(k.records)] ==
        IF n = 0 THEN [open |-> <<>>, paths |-> <<>>] ELSE Walked(walk[n - 1], k.records[n])
  IN  walk[Len(k.records)].paths
Nested(k) ==
  \A i, j \in DOMAIN k.records : \A u, v \in DOMAIN k.records :
    /\ k.records[i].start /\ k.records[u].start /\ i < j /\ u < v /\ i < u /\ u < j
    /\ ~k.records[j].start /\ k.records[j].name = k.records[i].name
    /\ ~k.records[v].start /\ k.records[v].name = k.records[u].name
    /\ \A x \in i+1 .. j-1 : k.records[x].name # k.records[i].name
    /\ \A x \in u+1 .. v-1 : k.records[x].name # k.records[u].name
    => v < j

\* What the profile says happened did happen: a row is one execution of one scope by
\* one warp of one block, its start with its own end, with its true duration, and the
\* scopes on its path are those around it in the kernel (where scopes nest).  It holds
\* while the options in effect select the warps that the session's mode does.
PairsAreReal ==
  \A r \in rows :
    OptionsFit => \E t \in truth :
      /\ t.block = r.block /\ t.did.warp = r.uid
      /\ t.did.from = r.from /\ t.did.to = r.to /\ r.duration = r.to - r.from
      /\ Nested(K) => r.path = Enclosing(K)[t.did.id + 1]

\* The ring loses the oldest records and no others: every execution whose records
\* were not overwritten (and are not on two sides of the ring's seam) is reported to
\* every data, unless a counter wrapped inside a scope, or the options name a warp
\* that the kernel does not have or a granularity the parser does not take.  This too
\* while the options in effect select the warps that the session's mode does.
Capacity == SegmentWords(K, mode) \div WordsPerEntry
Wrapped(e) == e.from % ClockWrap > e.to % ClockWrap
KeepsWhatIsLeft ==
  phase = "imported" /\ buffer # Nothing /\ OptionsFit =>
    \/ raised /\ (BadOptions \/ \E t \in truth : Wrapped(t.did))
    \/ \A t \in truth : \A d \in dataSet :
         /\ Sampled(t.did.warp)
         /\ t.did.first >= t.total \div WordsPerEntry - Capacity
         /\ t.did.first \div Capacity = t.did.last \div Capacity
         => \E r \in rows : /\ r.data = d /\ r.block = t.block /\ r.uid = t.did.warp
                            /\ r.from = t.did.from /\ r.to = t.did.to

\* Rows of a launch stand under the op of that launch, which carries its kernel, in
\* every data; only the launch after one whose import failed may stand elsewhere.
EachUnderItsOp ==
  ~stale =>
    /\ \A r \in rows : r.op = launch
    /\ phase = "imported" /\ buffer # Nothing => ops = {<<d, launch, kernel>> : d \in dataSet}
=============================================================================
