----------------------------- MODULE VendorImport -----------------------------
(* The collectors that time ops on the host and, when the session is finalized, *)
(* import what a vendor tool has written (Moore Threads, Tianshu, CANN): the    *)
(* rows are matched with the host's events, attributed to their ops and laid    *)
(* over the tree.  CANN also opens ranges, a stream and the aclprof runtime for *)
(* the tool while its session runs.  The calls of a session come one after the  *)
(* other (the interpreter's lock and the manager's); ops come in between.       *)
EXTENDS Naturals, Sequences, FiniteSets, TLC

CONSTANTS
  Ops,           \* the ops (kernel launches) of a behaviour
  KernelOf,      \* [Ops -> the name of the kernel]
  Alike,         \* the pairs of names of which one contains the other
  Canonical,     \* [names -> the name without the suffix of a CANN core]
  Vendors,
  Options,       \* CANN: {[ranges, runtime, timing]}, what is switched on
  Rows,          \* [Vendors -> the rows an export may have]
  MaxRows,       \* bound: the rows of an export
  Natives,       \* CANN: the event lists a task_time export may have
  Strict, Fuzzy, \* CANN: the widths of the time windows
  Sessions       \* bound: the sessions, one after the other

ASSUME ImportAssumption ==
  /\ Vendors \subseteq {"mthreads", "tianshu", "cann"}
  /\ Strict \in Nat /\ Fuzzy \in Nat /\ Strict <= Fuzzy
  /\ MaxRows \in Nat /\ Sessions \in Nat /\ 0 \notin Ops
  /\ \A p \in Alike : <<p[2], p[1]>> \in Alike
  /\ Canonical \in [DOMAIN Canonical -> DOMAIN Canonical]
  /\ KernelOf \in [Ops -> DOMAIN Canonical]

\* What an export holds: rows, and on CANN the timed events of its own list, which
\* know no op.  A MUPTI row gives both of its times or neither, as the collector's
\* own writer does.
RowRecords ==
  [file : STRING, name : DOMAIN Canonical, device : Nat, corr : Nat, task : Nat,
   start : Nat, end : Nat]
EventRecords(ops) ==
  [op : ops, name : DOMAIN Canonical, device : Nat, corr : Nat, task : Nat,
   start : Nat, end : Nat]

ASSUME ExportAssumption ==
  /\ \A v \in Vendors : Rows[v] \subseteq RowRecords
  /\ "mthreads" \in Vendors =>
       \A row \in Rows["mthreads"] : \/ row.start > 0 /\ row.end > row.start
                                     \/ row.start = 0 /\ row.end = 0
  /\ Natives \subseteq Seq(EventRecords({0}))

VARIABLES
  vendor, options,
  session, phase,  \* the session, and where it is
  now,             \* the host's clock
  op,              \* [Ops -> [state, since]]: the op and the session it began in
  opStart,         \* opStartTimesNs: [Ops -> when it began, or 0]
  runtimeEvents,   \* the host's events, until they are drained
  opRanges,        \* CANN: the ops with a range that the collector has to end
  held, sdk,       \* CANN: what the collector holds, what its libraries have
  events, native,  \* the events of the import, and whether task_time gave them
  due,             \* history: the ops whose events were drained
  artifact,        \* the associations of the import
  used,            \* usedRuntimeEvents
  at, order,       \* CANN: the association to match, and where the matching by
                   \* launch order goes on, by kernel: [event, range]
  tree             \* [Ops and 0 for new ops -> the kernel metrics laid over it]

cannVars == <<opRanges, held, sdk>>
importVars == <<events, native, due, artifact, used, at, order, tree>>
vars == <<vendor, options, session, phase, now, op, opStart, runtimeEvents,
          cannVars, importVars>>

Names == DOMAIN Canonical
Quiet == [o \in Ops |-> 0]
Nothing == [mstx |-> FALSE, stream |-> FALSE, domain |-> FALSE, prof |-> FALSE]
AllReleased == [stream |-> FALSE, domain |-> FALSE, prof |-> "off", ranges |-> {}]
Untouched == [event |-> [n \in Names |-> 1], range |-> [n \in Names |-> 1]]
First(S) == CHOOSE i \in S : \A j \in S : i <= j

Init ==
  /\ vendor \in Vendors
  /\ options \in IF vendor = "cann" THEN Options
                 ELSE {[ranges |-> FALSE, runtime |-> FALSE, timing |-> TRUE]}
  /\ session = 0 /\ phase = "idle" /\ now = 1
  /\ op = [o \in Ops |-> [state |-> "idle", since |-> 0]] /\ opStart = Quiet
  /\ runtimeEvents = <<>> /\ opRanges = {} /\ held = Nothing /\ sdk = AllReleased
  /\ events = <<>> /\ native = FALSE /\ due = {} /\ artifact = <<>> /\ used = {}
  /\ at = 1 /\ order = Untouched /\ tree = [o \in Ops \cup {0} |-> 0]

(* ------------------------------ the session --------------------------------- *)

\* Faulty: the ops that are open stay open for the next session.
KeepsOpen == opStart

NothingOpen == Quiet

\* Faulty: a start that fails leaves what came before it.
ProfHalfWay(outcome) ==
  CASE outcome = "startFails" -> "initialized"
    [] outcome = "running" -> "running"
    [] OTHER -> "off"

\* The aclprof runtime is initialised, configured and started; what fails gives
\* back what came before it.
ProfAfter(outcome) == IF outcome = "running" THEN "running" ELSE "off"

\* doStart() clears everything, and on CANN makes a stream and a domain for the
\* ranges, each of which may be missing, and starts aclprof.
Start ==
  /\ phase = "idle" /\ session < Sessions
  /\ session' = session + 1 /\ phase' = "recording"
  /\ opStart' = NothingOpen /\ runtimeEvents' = <<>> /\ opRanges' = {}
  /\ \E mstx, stream, domain \in BOOLEAN,
        outcome \in {"unavailable", "initFails", "noConfig", "startFails", "running"} :
       /\ mstx => options.ranges
       /\ stream \/ domain => mstx
       /\ outcome # "unavailable" => options.runtime
       /\ held' = [mstx |-> mstx, stream |-> stream, domain |-> domain,
                   prof |-> outcome = "running"]
       /\ sdk' = [sdk EXCEPT !.stream = stream, !.domain = domain,
                             !.prof = ProfAfter(outcome)]
  /\ artifact' = <<>> /\ used' = {} /\ at' = 1 /\ order' = Untouched
  /\ tree' = [o \in Ops \cup {0} |-> 0]
  /\ UNCHANGED <<vendor, options, now, op, events, native, due>>

Pause ==
  /\ phase = "recording" /\ phase' = "paused"
  /\ UNCHANGED <<vendor, options, session, now, op, opStart, runtimeEvents,
                 cannVars, importVars>>

Resume ==
  /\ phase = "paused" /\ phase' = "recording"
  /\ UNCHANGED <<vendor, options, session, now, op, opStart, runtimeEvents,
                 cannVars, importVars>>

\* startOp() and stopOp() reach the collector while the session records.  The clock
\* moves on with every op.
MstxStart(o) ==
  \/ held.mstx /\ opRanges' = opRanges \cup {o}
     /\ sdk' = [sdk EXCEPT !.ranges = @ \cup {o}]
  \/ UNCHANGED <<opRanges, sdk>>

StartOp(o) ==
  /\ op[o].state = "idle"
  /\ op' = [op EXCEPT ![o] = [state |-> "open", since |-> session]]
  /\ now' = now + 1
  /\ IF phase = "recording"
     THEN /\ opStart' = IF options.timing THEN [opStart EXCEPT ![o] = now] ELSE opStart
          /\ MstxStart(o)
     ELSE UNCHANGED <<opStart, opRanges, sdk>>
  /\ UNCHANGED <<vendor, options, session, phase, runtimeEvents, held, importVars>>

HostEvent(o) ==
  [op |-> o, name |-> KernelOf[o], device |-> 0, corr |-> 0, task |-> 0,
   start |-> opStart[o], end |-> now]

StopOp(o) ==
  /\ op[o].state = "open"
  /\ op' = [op EXCEPT ![o].state = "closed"]
  /\ now' = now + 1
  /\ IF phase = "recording"
     THEN /\ runtimeEvents' = IF opStart[o] = 0 THEN runtimeEvents
                              ELSE Append(runtimeEvents, HostEvent(o))
          /\ opStart' = [opStart EXCEPT ![o] = 0]
          /\ opRanges' = opRanges \ {o}
          /\ sdk' = [sdk EXCEPT !.ranges = @ \ (opRanges \cap {o})]
     ELSE UNCHANGED <<runtimeEvents, opStart, opRanges, sdk>>
  /\ UNCHANGED <<vendor, options, session, phase, held, importVars>>

\* doStop(): the open ranges are ended, then domain, stream and aclprof released.
Stopped ==
  [stream |-> sdk.stream /\ ~held.stream, domain |-> sdk.domain /\ ~held.domain,
   prof |-> IF held.prof THEN "off" ELSE sdk.prof, ranges |-> sdk.ranges \ opRanges]

\* The session is finalized: the profiler stops, the importer drains the host's
\* events and, on CANN, prefers those of a task_time export.
Finalize ==
  /\ phase = "paused" /\ phase' = "importing"
  /\ opStart' = NothingOpen /\ opRanges' = {} /\ held' = Nothing /\ sdk' = Stopped
  /\ due' = {runtimeEvents[i].op : i \in DOMAIN runtimeEvents}
  /\ runtimeEvents' = <<>>
  /\ \E listed \in IF vendor = "cann" THEN Natives ELSE {<<>>} :
       /\ native' = (listed # <<>>)
       /\ events' = IF listed # <<>> THEN listed ELSE runtimeEvents
  /\ UNCHANGED <<vendor, options, session, now, op, artifact, used, at, order, tree>>

(* -------------------------------- the rows ---------------------------------- *)

Association(source, row) ==
  [source |-> source, scope |-> 0, state |-> "collected", event |-> 0, merged |-> FALSE,
   name |-> row.name, device |-> row.device, corr |-> row.corr, task |-> row.task,
   start |-> row.start, end |-> row.end]

\* Moore Threads and Tianshu: a row takes the first event of an alike name that no
\* row has taken, and what it does not say itself.  Only Moore Threads takes the
\* op along, and Tianshu keeps rows where there is no event at all.
Free(a) == {i \in DOMAIN events \ used : <<a.name, events[i].name>> \in Alike}

Or(value, other) == IF value = 0 THEN other ELSE value
TakesMthreads(a, i) ==
  [a EXCEPT !.scope = events[i].op, !.event = i,
            !.start = Or(@, events[i].start), !.end = Or(@, events[i].end)]
TakesTianshu(a, i) ==
  [a EXCEPT !.event = i, !.device = Or(@, events[i].device),
            !.task = Or(@, events[i].task), !.corr = Or(@, events[i].corr),
            !.start = Or(@, events[i].start), !.end = Or(@, events[i].end)]

\* Faulty: an event that a row has taken can be taken again.
UsesAgain(a) == used

Uses(a) == used \cup {First(Free(a))}

MthreadsRow(row) ==
  LET a == Association("mupti_csv", row) IN
  /\ vendor = "mthreads"
  /\ IF Free(a) = {}
     THEN artifact' = Append(artifact, [a EXCEPT !.state = "unmatched"]) /\ UNCHANGED used
     ELSE artifact' = Append(artifact, TakesMthreads(a, First(Free(a)))) /\ used' = Uses(a)

TianshuRow(row) ==
  LET a == Association("ixkn_csv", row) IN
  /\ vendor = "tianshu"
  /\ IF Free(a) = {}
     THEN artifact' = Append(artifact,
            IF events = <<>> THEN a ELSE [a EXCEPT !.state = "unmatched"]) /\ UNCHANGED used
     ELSE artifact' = Append(artifact, TakesTianshu(a, First(Free(a)))) /\ used' = Uses(a)

\* CANN reads all rows before it matches any: op_summary rows with their times,
\* supplemental rows (here those of mstx) with what they have.
OpSummaryRow(row) ==
  /\ vendor = "cann" /\ row.file = "op_summary" /\ row.start > 0 /\ row.end > row.start
  /\ artifact' = Append(artifact, Association("aclprof_op_summary", row))
  /\ UNCHANGED used
SupplementalRow(row) ==
  /\ vendor = "cann" /\ row.file = "mstx"
  /\ artifact' = Append(artifact, Association("msprof_mstx", row))
  /\ UNCHANGED used

ReadRow(row) ==
  /\ phase = "importing" /\ Len(artifact) < MaxRows
  /\ MthreadsRow(row) \/ TianshuRow(row) \/ OpSummaryRow(row) \/ SupplementalRow(row)
  /\ UNCHANGED <<vendor, options, session, phase, now, op, opStart, runtimeEvents, cannVars,
                 events, native, due, at, order, tree>>

\* What the import adds by itself, in the order of the events: Moore Threads every
\* event no row has taken, CANN the events of the base when there is no op_summary.
Ascending(S) ==
  CHOOSE f \in [1 .. Cardinality(S) -> S] : \A j, k \in DOMAIN f : j < k => f[j] < f[k]
OfEvents(S, source) ==
  LET chosen == Ascending(S) IN
  [k \in DOMAIN chosen |->
     LET e == events[chosen[k]] IN
     [Association(source, e) EXCEPT !.scope = e.op, !.event = chosen[k]]]
Timed(e) == e.end > e.start

EndRowsMthreads ==
  /\ vendor = "mthreads" /\ phase' = "matched"
  /\ artifact' = artifact \o OfEvents(DOMAIN events \ used, "runtime_base_fallback")
EndRowsTianshu ==
  /\ vendor = "tianshu" /\ phase' = "matched" /\ UNCHANGED artifact
EndRowsCann ==
  /\ vendor = "cann"
  /\ IF \E j \in DOMAIN artifact : artifact[j].source = "aclprof_op_summary"
     THEN phase' = "matching" /\ UNCHANGED artifact
     ELSE /\ phase' = "matched"
          /\ artifact' = artifact \o OfEvents({i \in DOMAIN events : Timed(events[i])},
               IF native THEN "aclprof_task_time" ELSE "runtime_base_fallback")

EndRows ==
  /\ phase = "importing"
  /\ EndRowsMthreads \/ EndRowsTianshu \/ EndRowsCann
  /\ UNCHANGED <<vendor, options, session, now, op, opStart, runtimeEvents, cannVars, events,
                 native, due, used, at, order, tree>>

(* ------------------- CANN: correlateVendorToRuntimeEvents ------------------- *)

SameKernel(a, e) == Canonical[a.name] = Canonical[e.name]
Compatible(a, e) == a.device = 0 \/ e.device = 0 \/ a.device = e.device
Dist(x, y) == IF x > y THEN x - y ELSE y - x
Within(a, e, w) == Dist(a.start, e.start) <= w /\ Dist(a.end, e.end) <= w
Score(a, i) == Dist(a.start, events[i].start) + Dist(a.end, events[i].end)
Nearest(a, S) ==
  CHOOSE i \in S : \A j \in S : \/ Score(a, i) < Score(a, j)
                                \/ Score(a, i) = Score(a, j) /\ i <= j
EventsWith(P(_)) == {i \in DOMAIN events : P(events[i])}

\* A range of the tool is matched by launch order: the next event of the kernel on a
\* compatible device.
InOrder(a) == {i \in order.event[Canonical[a.name]]..Len(events) :
                 SameKernel(a, events[i]) /\ Compatible(a, events[i])}

\* Faulty: the search begins at the first event every time.
NextStays(a) == order.event

NextEvent(a) == [order.event EXCEPT ![Canonical[a.name]] = First(InOrder(a)) + 1]

MatchRange(a) ==
  IF events = <<>> \/ InOrder(a) = {} THEN UNCHANGED <<artifact, order>>
  ELSE LET i == First(InOrder(a)) IN
       /\ order' = [order EXCEPT !.event = NextEvent(a)]
       /\ artifact' = [artifact EXCEPT ![at] =
            [a EXCEPT !.scope = events[i].op, !.name = events[i].name, !.event = i,
                      !.device = Or(@, events[i].device)]]

\* A summary row looks for its event by correlation id, task id, kernel on the same
\* device, kernel, and time alone, in this order.
Tiers(a) ==
  << EventsWith(LAMBDA e : a.corr # 0 /\ e.corr = a.corr),
     EventsWith(LAMBDA e : a.task # 0 /\ e.task = a.task),
     EventsWith(LAMBDA e : SameKernel(a, e) /\ a.device = e.device /\ Within(a, e, Strict)),
     EventsWith(LAMBDA e : SameKernel(a, e) /\ Within(a, e, Strict)),
     EventsWith(LAMBDA e : Within(a, e, Fuzzy)) >>

Matched(a, i) ==
  [a EXCEPT !.scope = events[i].op, !.event = i, !.device = Or(@, events[i].device),
            !.task = Or(@, events[i].task), !.corr = Or(@, events[i].corr)]

\* The last resort is a range of the tool itself, again by launch order.
LaunchRanges(a) ==
  {j \in order.range[Canonical[a.name]]..Len(artifact) :
     LET r == artifact[j] IN
     /\ r.source = "msprof_mstx" /\ Timed(r)
     /\ SameKernel(a, r) /\ Compatible(a, r) /\ Dist(a.start, r.start) <= Strict}

MatchSummary(a) ==
  LET tiers == {k \in DOMAIN Tiers(a) : Tiers(a)[k] # {}} IN
  IF events = <<>> THEN UNCHANGED <<artifact, order>>
  ELSE IF tiers # {}
  THEN /\ artifact' = [artifact EXCEPT ![at] = Matched(a, Nearest(a, Tiers(a)[First(tiers)]))]
       /\ UNCHANGED order
  ELSE IF LaunchRanges(a) = {}
  THEN artifact' = [artifact EXCEPT ![at].state = "unmatched"] /\ UNCHANGED order
  ELSE LET j == First(LaunchRanges(a)) IN
       /\ artifact' = [artifact EXCEPT ![at].scope = artifact[j].scope,
                                       ![at].name = artifact[j].name, ![at].merged = TRUE]
       /\ order' = [order EXCEPT !.range[Canonical[a.name]] = j + 1]

MatchNext ==
  /\ phase = "matching"
  /\ IF at > Len(artifact) THEN phase' = "matched" /\ UNCHANGED <<artifact, order, at>>
     ELSE /\ at' = at + 1 /\ UNCHANGED phase
          /\ IF artifact[at].source = "msprof_mstx" THEN MatchRange(artifact[at])
             ELSE MatchSummary(artifact[at])
  /\ UNCHANGED <<vendor, options, session, now, op, opStart, runtimeEvents, cannVars, events,
                 native, due, used, tree>>

(* ------------------------------- the overlay -------------------------------- *)

\* A row without times goes to the timeline only.  A summary row that found its op
\* adds values to it and no kernel; the others add a kernel, to their op or to one
\* made for them.
MergesIntoOp(a) == a.source = "aclprof_op_summary" /\ (a.scope # 0 \/ a.merged)

AddsKernel(a) == Timed(a) /\ ~MergesIntoOp(a)

Overlay ==
  /\ phase = "matched" /\ phase' = "idle"
  /\ tree' = [o \in Ops \cup {0} |->
       Cardinality({j \in DOMAIN artifact : artifact[j].scope = o /\ AddsKernel(artifact[j])})]
  /\ UNCHANGED <<vendor, options, session, now, op, opStart, runtimeEvents, cannVars, events,
                 native, due, artifact, used, at, order>>

Next ==
  \/ Start \/ Pause \/ Resume \/ Finalize \/ EndRows \/ MatchNext \/ Overlay
  \/ \E o \in Ops : StartOp(o) \/ StopOp(o)
  \/ \E row \in Rows[vendor] : ReadRow(row)

Spec == Init /\ [][Next]_vars

(* ------------------------------- properties --------------------------------- *)

Imported == phase = "idle" /\ session > 0
Matches(source) == {j \in DOMAIN artifact : artifact[j].source = source /\ artifact[j].event # 0}

\* No kernel is counted twice: whatever the export has, an op of the tree gets at
\* most one kernel, and on Moore Threads each op that was timed gets one.
EachKernelOnce ==
  Imported => \A o \in Ops :
    /\ tree[o] <= 1
    /\ vendor = "mthreads" /\ o \in due => tree[o] = 1

\* The CANN ranges of one kernel are matched with its events in launch order, and no
\* two of them with the same one.
LaunchOrderKept ==
  \A j, k \in Matches("msprof_mstx") :
    j < k /\ SameKernel(artifact[j], artifact[k]) => artifact[j].event < artifact[k].event

\* What a start has taken from the CANN libraries is given back: after a stop no
\* range, domain or stream is left and aclprof is off, whichever step had failed.
EverythingReleased ==
  /\ phase \in {"importing", "matching", "matched", "idle"} => sdk = AllReleased
  /\ sdk.prof \in {"off", "running"}

\* An op that began in one session and ends in another is an event of neither.
EventsOfTheSession ==
  phase = "importing" => \A o \in due : op[o].state = "closed" /\ op[o].since = session
===============================================================================
