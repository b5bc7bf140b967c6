----------------------------- MODULE DebugRecords -----------------------------
(* One instrumented launch of the debugger, from the module to the report: the  *)
(* metadata passes make it a kernel with scopes and ids (DebugScopes), the      *)
(* insertion pass plans the records (RecordPlan), every program instance runs   *)
(* the kernel and writes its records and payloads, word by word, into the       *)
(* shared buffer, and the host completes the header, decodes the slots by the   *)
(* plan, cuts the level-2 artifacts out of the payload, drops what control flow *)
(* never reached and, on Enflame, computes the summaries the device left out.   *)
EXTENDS RecordPlan, FiniteSets, Functions

CONSTANTS
  Sources,        \* the modules to explore, sequences of operations
  Modes,          \* [backend, kind, level, addr]: the device, the instrumentation
                  \* ("debugger" with the source's markers, "debugger_auto" or
                  \* "debugger_auto_numeric" without) and the configured levels
  Capacities,     \* the record capacities to configure
  Grid,           \* how many program instances a launch has
  Trips,          \* bound: how often a loop body runs in one instance
  Offsets,        \* a record's payload offset is kept modulo this (2^32)
  Tensors,        \* Tensors[n]: the values a tensor of n lanes may hold
  NaN, Inf,       \* the elements that are not finite
  Torn            \* what is read from words that hold no value of the width read, and
                  \* a pointer computed with the stride of another type

ASSUME LaunchAssumption ==
  /\ Grid \in Nat \ {0} /\ Trips \in Nat \ {0} /\ Offsets \in Nat \ {0}
  /\ Capacities \subseteq Nat /\ Torn \in Int

\* Operations as they come from a source (DebugScopes says what the fields are), and
\* what a launch may be given.
Names ==
  {"begin", "end", "call", "noinline", "return", "yield", "load", "store", "copy",
   "constant", "math", "dot", "reduce", "other"}
Dtypes == {"none", "f32", "f64", "i32", "i1", "ptr"}
Pointers == {"none", "tensor", "opaque", "scalar", "memref", "block"}
OffsetTerms == [first : Int, step : Int]
Operands == [def : Nat, dtype : Dtypes, lanes : Nat]
Operations ==
  [tag : Nat, name : Names, func : STRING, callee : STRING, place : STRING, id : Nat,
   level : Int, addr : Int, dtype : Dtypes, lanes : Nat, pointee : Dtypes,
   trace : {"none", "base", "offsets", "lost"}, ptr : Pointers,
   offsets : Seq(OffsetTerms), mask : {"none", "prefix", "any"}, said : BOOLEAN,
   operands : Seq(Operands)]

\* What has a type has lanes with values, and one scalar pointer accesses one lane.
Sized(op) ==
  /\ op.dtype # "none" => op.lanes \in DOMAIN Tensors
  /\ op.dtype = "ptr" => op.pointee # "none"
  /\ op.ptr = "scalar" => op.lanes = 1
  /\ \A n \in DOMAIN op.operands :
       op.operands[n].dtype # "none" => op.operands[n].lanes \in DOMAIN Tensors
\* No two operations come with the same id.
DistinctIds(src) ==
  \A j, k \in DOMAIN src : src[j].id # 0 /\ src[j].id = src[k].id => j = k
ASSUME SourcesAssumption ==
  /\ \A src \in Sources :
       src \in Seq(Operations) /\ DistinctIds(src) /\ \A k \in DOMAIN src : Sized(src[k])
  /\ Modes \subseteq [backend : STRING, kind : STRING, level : Int, addr : Int]
ASSUME TensorsAssumption ==
  \A n \in DOMAIN Tensors :
    /\ n \in Nat \ {0} /\ Tensors[n] # {}
    /\ Tensors[n] \subseteq [1 .. n -> Int \cup {NaN, Inf}]

VARIABLES
  source, mode,   \* what is compiled, and how
  kernel,         \* the operations of the compiled kernel, with their ids
  compiled,       \* what the insertion pass made of it: the plan of the records of an
                  \* instance, their payload entries, and the bytes of its payload
  capacity,       \* the record slots of the buffer
  gridKnown,      \* whether the launch told the debugger its grid
  phase,          \* "compile", "launch", "run", "done"
  at,             \* [Instances -> [next |-> the next operation, trips |-> of its loop]]
  buffer,         \* the buffer's words that were written, by their number
  ran,            \* [Instances -> [operations -> their last observation, or NotRun]]
  report          \* what the host makes of the buffer
vars ==
  <<source, mode, kernel, compiled, capacity, gridKnown, phase, at, buffer, ran, report>>

Instances == 0 .. Grid - 1
NotRun == [ran |-> FALSE]
NoReport == [status |-> "none"]

NotCompiled == [plan |-> <<>>, entries |-> <<>>, payload |-> 0, takes |-> {}]
\* The module whose markers count: a run that collects everything sets its own.
Marked ==
  IF mode.kind = "debugger" THEN source ELSE DefaultMarkers(source, mode.level, mode.addr)
\* Block pointers can be instrumented on CUDA alone; elsewhere such a module gets
\* its static description and no record.
MetadataOnly == mode.backend # "cuda" /\ HasTensorPointers(source)
Compiled(ops) ==
  LET plan == PlanOf(mode, ops) IN
  IF MetadataOnly \/ plan = <<>> THEN NotCompiled
  ELSE [plan |-> plan, payload |-> PayloadBytes(ops, plan),
        entries |-> [k \in {k \in DOMAIN plan : Dumped(plan[k])} |-> EntryOf(ops, plan, k)],
        takes |-> HiddenArgument(ops, plan)]
Plan == compiled.plan
Entry == compiled.entries
PerInstance == Len(Plan)
FullDump == DOMAIN Entry # {}
Payload == compiled.payload

(* -------------------------------- the device ------------------------------ *)

\* What one execution of an operation shows: its value, its captured operands, the
\* lanes its mask lets through (of a prefix, how many) and the clock around it.
Observations(op) ==
  [ran : {TRUE},
   value : IF op.dtype = "none" \/ op.id = 0 THEN {<<>>} ELSE Tensors[op.lanes],
   operands : {[c \in DOMAIN op.captures |->
                  CHOOSE t \in Tensors[op.captures[c].lanes] : TRUE]},
   active : IF op.mask = "prefix" THEN 0 .. op.lanes ELSE {op.lanes},
   clock : {<<1, 3>>}]
ValueSeen(o, r) == IF r.operand = 0 THEN o.value ELSE o.operands[r.operand]

BaseAddress(i, pointer) == 1000 * (i + 1) + 500 * pointer
\* Lane l's address adds up what every offset is in that lane.
LaneOffset(op, l) ==
  LET upTo[n \in 0 .. Len(op.offsets)] ==
        IF n = 0 THEN 0 ELSE upTo[n - 1] + op.offsets[n].first + op.offsets[n].step * l
  IN upTo[Len(op.offsets)]
LaneAddress(i, op, l) == BaseAddress(i, 0) + Width(op.dtype) * LaneOffset(op, l)
\* What the device takes it to be.
AddressTaken(i, op, l) == BaseAddress(i, 0) + AccessBytes(op) * LaneOffset(op, l)

\* The device's statistics.  The mean is scaled by 12 to stay whole, and the norm
\* is left squared.
SumOver(v, S) == SumFunctionOnSet(v, S)
Finite(v) == {n \in DOMAIN v : v[n] \notin {NaN, Inf}}
CountBundle(v) ==
  <<Cardinality({n \in DOMAIN v : v[n] = NaN}), Cardinality({n \in DOMAIN v : v[n] = Inf}),
    Cardinality({n \in Finite(v) : v[n] = 0}), Len(v)>>
ElementCount(v) == <<Len(v)>>
ValueBundle(v) ==
  LET F == Finite(v) IN
  IF F = {} THEN <<0, 0, 0, 0>>
  ELSE <<(12 * SumOver(v, F)) \div Cardinality(F),
         v[CHOOSE n \in F : \A m \in F : v[n] <= v[m]],
         v[CHOOSE n \in F : \A m \in F : v[n] >= v[m]],
         SumOver([n \in F |-> v[n] * v[n]], F)>>

\* The address summary is computed from the first lane and the count alone.  What
\* is no tensor, or has a pattern too irregular for one, shows where it starts; a
\* tensor of pointers with no base to find shows 0.
AddressSummary(i, op, o, kind) ==
  LET firstAddr == BaseAddress(i, 0) + AccessBytes(op) * FirstOffset(op)
      lastAddr == firstAddr + AccessBytes(op) * (o.active - 1)
  IN CASE kind = "active" -> o.active
       [] kind = "span"   -> o.active * AccessBytes(op)
       [] kind \in {"first", "min"} -> IF o.active = 0 THEN 0 ELSE firstAddr
       [] kind \in {"last", "max"}  -> IF o.active = 0 THEN 0 ELSE lastAddr
StartAddress(i, op, operand) == IF op.ptr = "opaque" THEN 0 ELSE BaseAddress(i, operand)
Event(i, op, o, r) ==
  <<IF r.kind \in {"base", "aligned"} THEN StartAddress(i, op, r.operand)
    ELSE AddressSummary(i, op, o, r.kind),
    r.operand>>

(* -------------------------------- the words ------------------------------- *)

\* Word n of the buffer holds a 32-bit value as a whole (half 0), or one half of a
\* 64-bit value (1 the low one, 2 the high one); both halves of 0 are 0.
ZeroWord == <<0, 0>>
HalfOf(v, h) == IF v = 0 THEN ZeroWord ELSE <<v, h>>
WordsOf(v, bytes) == IF bytes = 4 THEN <<HalfOf(v, 0)>> ELSE <<HalfOf(v, 1), HalfOf(v, 2)>>
ValueOf(words) ==
  CASE \A n \in DOMAIN words : words[n] = ZeroWord -> 0
    [] Len(words) = 1 /\ words[1][2] = 0 -> words[1][1]
    [] Len(words) = 2 /\ words[1][2] = 1 /\ words[2] = <<words[1][1], 2>> -> words[1][1]
    [] OTHER -> Torn
\* The buffer is cleared before the launch.
Loaded(w) == IF w \in DOMAIN buffer THEN buffer[w] ELSE ZeroWord
Stored(old, new) ==
  [w \in DOMAIN new \cup DOMAIN old |-> IF w \in DOMAIN new THEN new[w] ELSE old[w]]
LoadValue(w, bytes) == ValueOf([n \in 1 .. bytes \div 4 |-> Loaded(w + n - 1)])

\* Values laid from a word on, each in as many words as its width takes.
Laid(first, bytes, v) ==
  LET wide == bytes \div 4 IN
  [w \in first .. first + wide * Len(v) - 1 |->
     WordsOf(v[((w - first) \div wide) + 1], bytes)[((w - first) % wide) + 1]]

\* Where the device stores the fields of a record, and how wide they are: at byte
\* offsets that are multiples of the word.
Field(offset, bytes) == [offset |-> offset, bytes |-> bytes]
StoredFields(kind) ==
  CASE kind = "counts" -> <<Field(16, 8), Field(24, 8), Field(32, 8), Field(40, 8)>>
    [] kind = "values" -> <<Field(16, 4), Field(20, 4), Field(24, 4), Field(28, 4)>>
    [] kind = "elements" -> <<Field(24, 8)>>
    [] kind = "timeline" -> <<Field(16, 8), Field(24, 8), Field(32, 8)>>
    [] kind \in {"value", "address"} -> <<Field(16, 4), Field(20, 4)>>
    [] OTHER -> <<Field(16, 8), Field(28, 4)>>
FieldWord(s, f) == (HeaderBytes + s * RecordBytes + f.offset) \div 4
RecordWords(s, kind, data) ==
  LET fields == StoredFields(kind)
      field(n) == Laid(FieldWord(s, fields[n]), fields[n].bytes, <<data[n]>>)
      upTo[n \in 0 .. Len(fields)] == IF n = 0 THEN <<>> ELSE Stored(upTo[n - 1], field(n))
  IN upTo[Len(fields)]

\* What a dump stores: the values, or the address of every lane.  Pointers are computed
\* anew from their base, or not at all if it is lost.
OwnPointers(op, r) == r.kind = "value" /\ r.operand = 0 /\ op.dtype = "ptr"
Lost(op, r) == OwnPointers(op, r) /\ op.trace = "lost"
Skewed(op, r) ==
  OwnPointers(op, r) /\ op.trace = "offsets" /\ AccessBytes(op) # Width(op.pointee)
PayloadValues(i, op, o, r) ==
  IF r.kind = "address" THEN [l \in 1 .. op.lanes |-> AddressTaken(i, op, l - 1)]
  ELSE IF Lost(op, r) THEN <<>>
  ELSE IF Skewed(op, r) THEN [l \in 1 .. op.lanes |-> Torn]
  ELSE ValueSeen(o, r)

\* Enflame leaves the bounds check out of a full dump, and the summary of a value
\* that is dumped to the host.
Masked == ~(mode.backend = "enflame" /\ Payload # 0)
InBounds(slot) == Masked => slot < capacity
\* Faulty: any dump in the kernel leaves every bundle to the host.
LeftToHostAll(r) ==
  mode.backend = "enflame" /\ r.kind \in {"counts", "values"} /\ Payload # 0
LeftToHost(r) ==
  /\ mode.backend = "enflame" /\ r.kind \in {"counts", "values"}
  /\ \E k \in 1..PerInstance :
       Plan[k].kind = "value" /\ Plan[k].of = r.of /\ Plan[k].operand = r.operand

RefAt(i, k) ==
  LET e == Entry[k]
  IN <<PayloadAt(capacity, i, Payload, e.offset) % Offsets, e.length>>

\* The clock is read before the operation and after it.
TimelineData(o) == <<o.clock[1], o.clock[2], o.clock[2] - o.clock[1]>>
RecordData(i, k, o) ==
  LET r == Plan[k] IN
  CASE r.kind = "timeline" -> TimelineData(o)
    [] r.kind = "counts"   -> CountBundle(ValueSeen(o, r))
    [] r.kind = "values"   -> ValueBundle(ValueSeen(o, r))
    [] r.kind = "elements" -> ElementCount(ValueSeen(o, r))
    [] Dumped(r)           -> RefAt(i, k)
    [] OTHER               -> Event(i, kernel[r.of], o, r)

\* The records and payloads operation n of instance i writes when it runs, in a
\* function that has the buffer to write to.
RecordsWritten(i, n) ==
  {k \in 1..PerInstance :
     /\ Plan[k].of = n /\ ~LeftToHost(Plan[k]) /\ kernel[n].func \in compiled.takes
     /\ InBounds(SlotOf(i, PerInstance, k - 1))}
\* Enflame stores eight-byte elements as such, at a multiple of their size.
FirstWord(i, k) ==
  LET p == PayloadAt(capacity, i, Payload, Entry[k].offset) IN
  IF mode.backend = "enflame" /\ Entry[k].bytes = 8
     /\ (Plan[k].kind = "address" \/ Observed(kernel, Plan[k]).dtype \notin {"i32", "i1"})
  THEN 2 * (p \div 8) ELSE p \div 4
StorePayload(i, k, o) ==
  Laid(FirstWord(i, k), Entry[k].bytes, PayloadValues(i, kernel[Plan[k].of], o, Plan[k]))
\* One record after another, each followed by the payload it refers to.
StoreRecords(i, n, o) ==
  LET written == RecordsWritten(i, n)
      one(k) == RecordWords(SlotOf(i, PerInstance, k - 1), Plan[k].kind, RecordData(i, k, o))
      upTo[k \in 0 .. PerInstance] ==
        IF k = 0 THEN buffer
        ELSE IF k \notin written THEN upTo[k - 1]
        ELSE LET b == Stored(upTo[k - 1], one(k)) IN
             IF Dumped(Plan[k]) THEN Stored(b, StorePayload(i, k, o)) ELSE b
  IN buffer' = upTo[PerInstance]

(* --------------------------------- the host ------------------------------- *)

\* What a launch of a full dump is refused for, before any buffer exists.
TooSmall == Grid * PerInstance > capacity
TooLarge == RecordArea(capacity) + Grid * Payload >= Offsets
LaunchRefused == FullDump /\ (~gridKnown \/ TooSmall \/ TooLarge)

\* Where the decoder reads the fields of a record of the plan's kind.
ReadFields(kind) ==
  CASE kind = "counts" -> <<Field(16, 8), Field(24, 8), Field(32, 8), Field(40, 8)>>
    [] kind = "values" -> <<Field(16, 4), Field(20, 4), Field(24, 4), Field(28, 4)>>
    [] kind = "elements" -> <<Field(24, 8)>>
    [] kind = "timeline" -> <<Field(16, 8), Field(24, 8), Field(32, 8)>>
    [] kind \in {"value", "address"} -> <<Field(16, 4), Field(20, 4)>>
    [] OTHER -> <<Field(16, 8), Field(28, 4)>>
ReadData(s, kind) ==
  [n \in DOMAIN ReadFields(kind) |->
     LoadValue(FieldWord(s, ReadFields(kind)[n]), ReadFields(kind)[n].bytes)]
\* A slot's kind and operation come from the plan, its instance from its number.
DecodeSlot(s) ==
  LET r == Plan[RecordOf(s, PerInstance) + 1] IN
  [id |-> r.id, kind |-> r.kind, operand |-> r.operand, of |-> r.of,
   instance |-> InstanceOf(s, PerInstance), index |-> RecordOf(s, PerInstance) + 1,
   data |-> ReadData(s, r.kind)]
Header == HeaderOf(capacity, Grid, gridKnown, PerInstance)
SlotsRead == {s \in 0 .. capacity - 1 : s < Header.written}
Key(d) == <<d.id, d.instance>>

\* Cutting the artifacts out of the payload.
Refs == {d \in {DecodeSlot(s) : s \in SlotsRead} : Dumped([kind |-> d.kind])}
Empty(d) == d.data[2] = 0
Excused(d) == d.data = <<0, 0>> /\ Entry[d.index].conditional
Cut(d) ==
  LET b == Entry[d.index].bytes IN
  [n \in 1 .. d.data[2] \div b |-> LoadValue((d.data[1] + b * (n - 1)) \div 4, b)]
Artifacts == {[id |-> d.id, instance |-> d.instance, index |-> d.index, values |-> Cut(d)] :
                d \in {d \in Refs : ~Empty(d)}}
InactiveRefs == {d \in Refs : Empty(d)}
InactiveKeys == {Key(d) : d \in InactiveRefs}
InactiveSlots == {s \in SlotsRead : Key(DecodeSlot(s)) \in InactiveKeys}
\* Enflame: the bundles of a value that was dumped are computed from its artifact.
ValueIds == {Plan[k].id : k \in {k \in 1..PerInstance : Plan[k].kind = "value"}}
OfHost(d) ==
  /\ mode.backend = "enflame" /\ FullDump
  /\ d.kind \in {"counts", "values"} /\ d.id \in ValueIds
IsValueOf(a, d) == Key(a) = Key(d) /\ Plan[a.index].kind = "value"
DumpFails ==
  \/ Header.overflow # 0
  \/ \E d \in InactiveRefs : ~Excused(d)
  \/ \E a \in Artifacts : Key(a) \in InactiveKeys
  \/ \E d \in Refs : ~Empty(d) /\ d.data[2] # Entry[d.index].length
  \/ \E s \in SlotsRead \ InactiveSlots :
       OfHost(DecodeSlot(s)) /\ ~\E a \in Artifacts : IsValueOf(a, DecodeSlot(s))

Filled(d) ==
  IF ~OfHost(d) THEN d
  ELSE LET a == CHOOSE a \in Artifacts : IsValueOf(a, d)
       IN [d EXCEPT !.data = IF d.kind = "counts" THEN CountBundle(a.values)
                             ELSE ValueBundle(a.values)]

Report ==
  IF PerInstance = 0 THEN [status |-> "static", records |-> {}, artifacts |-> {}]
  ELSE IF ~FullDump
  THEN [status |-> "ok", records |-> {DecodeSlot(s) : s \in SlotsRead}, artifacts |-> {}]
  ELSE IF DumpFails THEN [status |-> "error"]
  ELSE [status |-> "ok",
        records |-> {Filled(DecodeSlot(s)) : s \in SlotsRead \ InactiveSlots},
        artifacts |-> Artifacts]

(* -------------------------------- the launch ------------------------------ *)

Init ==
  /\ source \in Sources /\ mode \in Modes /\ capacity \in Capacities
  /\ gridKnown \in BOOLEAN
  /\ phase = "compile" /\ kernel = <<>> /\ compiled = NotCompiled
  /\ at = [i \in Instances |-> [next |-> 1, trips |-> 0]]
  /\ buffer = <<>> /\ report = NoReport
  /\ ran = [i \in Instances |-> <<>>]

\* Scopes that do not pair, or a dump that cannot be made, refuse the kernel.
Compile ==
  LET ops == KernelOf(Marked, mode.addr) IN
  /\ phase = "compile"
  /\ IF Resolves(Marked, mode.addr) /\ (MetadataOnly \/ Compiles(mode, ops))
     THEN /\ phase' = "launch" /\ report' = report
          /\ kernel' = ops /\ compiled' = Compiled(ops)
          /\ ran' = [i \in Instances |-> [n \in DOMAIN ops |-> NotRun]]
     ELSE phase' = "done" /\ report' = [status |-> "refused"]
          /\ UNCHANGED <<kernel, compiled, ran>>
  /\ UNCHANGED <<source, mode, capacity, gridKnown, at, buffer>>

Launch ==
  /\ phase = "launch"
  /\ phase' = IF LaunchRefused THEN "done" ELSE "run"
  /\ report' = IF LaunchRefused THEN [status |-> "refused"] ELSE report
  /\ UNCHANGED <<source, mode, kernel, compiled, capacity, gridKnown, at, buffer, ran>>

\* Instance i runs its next operation, and a loop's body as often as it likes.
Run(i) ==
  LET n == at[i].next
      op == kernel[n]
  IN /\ phase = "run" /\ n \in DOMAIN kernel
     /\ op.place = "loop" => at[i].trips < Trips
     /\ \E o \in Observations(op) :
          /\ StoreRecords(i, n, o)
          /\ ran' = [ran EXCEPT ![i][n] = o]
     /\ at' = [at EXCEPT ![i] = IF op.place = "loop"
                                THEN [next |-> n, trips |-> at[i].trips + 1]
                                ELSE [next |-> n + 1, trips |-> 0]]
     /\ UNCHANGED <<source, mode, kernel, compiled, capacity, gridKnown, phase, report>>

\* A branch is not taken, or a loop is left.
Skip(i) ==
  LET n == at[i].next IN
  /\ phase = "run" /\ n \in DOMAIN kernel /\ kernel[n].place \in {"branch", "loop"}
  /\ at' = [at EXCEPT ![i] = [next |-> n + 1, trips |-> 0]]
  /\ UNCHANGED <<source, mode, kernel, compiled, capacity, gridKnown, phase, buffer, ran,
                 report>>

Export ==
  /\ phase = "run" /\ \A i \in Instances : at[i].next > Len(kernel)
  /\ phase' = "done"
  /\ report' = Report
  /\ UNCHANGED <<source, mode, kernel, compiled, capacity, gridKnown, at, buffer, ran>>

Next == Compile \/ Launch \/ Export \/ \E i \in Instances : Run(i) \/ Skip(i)
Spec == Init /\ [][Next]_vars

(* -------------------------------- properties ------------------------------ *)

Reported == phase = "done" /\ report.status = "ok"
Observation(d) == ran[d.instance][d.of]

\* The addresses an operation touched, one per lane its mask let through.
Touched(i, op, o) == {LaneAddress(i, op, l) : l \in 0 .. o.active - 1}
Lowest(S) == IF S = {} THEN 0 ELSE CHOOSE a \in S : \A b \in S : a <= b
Highest(S) == IF S = {} THEN 0 ELSE CHOOSE a \in S : \A b \in S : a >= b
Shown(d, o) ==
  LET op == kernel[d.of]
      T == Touched(d.instance, op, o)
      v == ValueSeen(o, d)
  IN CASE d.kind \in {"first", "min"} -> StrideRight(op) => d.data[1] = Lowest(T)
       [] d.kind \in {"last", "max"}  -> StrideRight(op) => d.data[1] = Highest(T)
       [] d.kind = "active"   -> d.data[1] = Cardinality(T)
       [] d.kind = "span"     -> StrideRight(op) =>
            d.data[1] = IF T = {} THEN 0 ELSE Highest(T) - Lowest(T) + Width(op.dtype)
       [] d.kind = "counts"   -> d.data = CountBundle(v)
       [] d.kind = "values"   -> d.data = ValueBundle(v)
       [] d.kind = "elements" -> d.data = <<Len(v)>>
       [] d.kind = "timeline" -> d.data[1] = o.clock[1] /\ d.data[1] + d.data[3] = o.clock[2]
       [] d.kind \in {"base", "aligned"} ->
            op.ptr = "opaque" \/ d.data[1] = BaseAddress(d.instance, d.data[2])
       [] OTHER -> TRUE

\* Every record of the report shows what its operation saw the last time its
\* instance ran it, whatever the other instances wrote and whichever side computed
\* it; of an operation that did not run, whose slot is cleared, a level-2 report has
\* no record if it was to be dumped: what was not reached is not shown as zeros.
\* The addresses are claimed where a lane takes the bytes the device counts for it:
\* pointers to narrower values are counted too narrow.
RecordsTellTheTruth ==
  Reported =>
    \A d \in report.records :
      IF Observation(d).ran THEN Shown(d, Observation(d))
      ELSE \A k \in 1..PerInstance : Dumped(Plan[k]) => Plan[k].id # d.id

\* A buffer that reports no overflow of a launch with a known grid leaves nothing
\* out: every record an operation of the kernel planned and ran is in the report.
NothingIsMissing ==
  Reported /\ gridKnown /\ Header.overflow = 0 =>
    \A i \in Instances, k \in 1..PerInstance :
      ran[i][Plan[k].of].ran =>
        \E d \in report.records : d.instance = i /\ d.index = k

\* What a dump is to hold, and whether the device computes just that.
Meant(i, op, o, r) ==
  IF r.kind = "address" THEN [l \in 1 .. op.lanes |-> LaneAddress(i, op, l - 1)]
  ELSE ValueSeen(o, r)
Computed(op, r) ==
  IF r.kind = "address" THEN StrideRight(op) ELSE ~Lost(op, r) /\ ~Skewed(op, r)

\* A level-2 report has one artifact for each dump that ran, holding the value or
\* the addresses of its last run value by value, and none for one that did not.  Not
\* claimed of pointers whose base the device cannot find, which are exported as zeros,
\* and of addresses that it computes with the stride of another type.
ArtifactsExact ==
  Reported /\ FullDump =>
    /\ \A a \in report.artifacts :
         LET r == Plan[a.index]
             o == ran[a.instance][r.of]
         IN /\ o.ran
            /\ Computed(kernel[r.of], r) => a.values = Meant(a.instance, kernel[r.of], o, r)
    /\ \A i \in Instances, k \in 1..PerInstance :
         Dumped(Plan[k]) /\ ran[i][Plan[k].of].ran =>
           \E a \in report.artifacts : a.instance = i /\ a.index = k

\* A launch that was accepted is exported: no check of the host takes a buffer the
\* device wrote correctly for a failed capture.
AcceptedIsExported == phase = "done" => report.status # "error"
===============================================================================
