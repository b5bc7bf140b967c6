--------------------------- MODULE ActivityCollector ---------------------------
(* The vendor collectors that work through an activity library: Enflame         *)
(* (TOPSPTI), MetaX (MCPTI) and Moore Threads (MUPTI).  API callbacks run in    *)
(* the launching threads, activity records arrive later in buffers, and the     *)
(* session is started, paused, resumed and finalized meanwhile.  An adapter has *)
(* one session at a time, so sessions follow one another.                       *)
EXTENDS Naturals, FiniteSets

CONSTANTS
  Calls,                 \* the API calls that launch kernels, of any thread
  Sessions,              \* how many sessions follow one another
  Collectors,            \* which collectors to explore
  Options,               \* each one's configurations: [activity, runtime, counters]
  CallFaults             \* which library calls may fail, one sort in a behaviour

ASSUME CollectorAssumption ==
  /\ Sessions \in Nat \ {0}
  /\ Collectors \subseteq {"enflame", "metax", "mthreads"}
  /\ CallFaults \subseteq {"start", "stop", "counter", "record"}

VARIABLES
  kind, options,   \* the collector and its configuration
  fault,           \* what fails in this behaviour
  session, phase,  \* the number of the current or last session, and where it is
  hasStarted,      \* Profiler::started
  sdk,             \* the library: subscriptions and enabled activity kinds
  held,            \* the collector's view of it
  counter,         \* MetaX hardware counters: none, ready, running
  call,            \* [Calls -> the API call]
  records,         \* activity records the library has not delivered yet
  events,          \* the kernel events the collector has
  launches,        \* [Calls -> what the API-enter callback noted]
  opened,          \* callbackLaunches: calls entered by the MUPTI callback
  failed,          \* callbackError, or dropped records that a flush reports
  rows,            \* what the finished session was given
  ghost            \* history: [due, stopFailed, counterFailed]

setup == <<kind, options, fault>>
libraryVars == <<sdk, held, counter>>
captureVars == <<records, events, launches, opened, failed>>
collectorVars == <<setup, session, phase, hasStarted, libraryVars, call,
          captureVars, rows, ghost>>

Registered == phase \in {"active", "pausing"}
NoCall == [state |-> "idle", window |-> 0, since |-> 0,
           until |-> 0, traced |-> FALSE]
NotHeld == [sub |-> FALSE, kinds |-> {}]
Activity(c) == [call |-> c, from |-> "activity"]
Callback(c) == [call |-> c, from |-> "callback"]

CollectorInit ==
  /\ kind \in Collectors /\ options \in Options[kind] /\ fault \in CallFaults
  /\ session = 0 /\ phase = "none" /\ hasStarted = FALSE
  /\ sdk = [subs |-> 0, kinds |-> {}] /\ held = NotHeld /\ counter = "none"
  /\ call = [c \in Calls |-> NoCall]
  /\ records = {} /\ events = {} /\ opened = {} /\ failed = FALSE /\ rows = {}
  /\ launches = [c \in Calls |-> {}]
  /\ ghost = [due |-> {}, stopFailed |-> FALSE,
              counterFailed |-> FALSE]

(* ------------------------- starting and stopping ---------------------------- *)

EnflameKinds == {"kernel"}
MetaxKinds == {"kernel"} \cup (IF options.runtime THEN {"memcpy", "api"} ELSE {})
KindsOf == IF kind = "metax" THEN MetaxKinds ELSE EnflameKinds

\* Faulty: the kinds enabled before the one that fails stay enabled.
RollbackSubscription(kinds) == [sdk EXCEPT !.kinds = @ \cup kinds]

\* A start that fails with `kinds` enabled disables them and unsubscribes.
Rollback(kinds) == [sdk EXCEPT !.kinds = @ \ kinds]

Subscribed(sub, kinds) ==
  /\ sdk' = [subs |-> sdk.subs + (IF sub THEN 1 ELSE 0),
             kinds |-> sdk.kinds \cup kinds]
  /\ held' = [sub |-> sub, kinds |-> kinds]

\* MUPTI prefers the callbacks and takes activities on request or when there are
\* none; what fails here is reported but is no error of the session.
MuptiStarted ==
  \E sub, activity \in BOOLEAN :
    /\ (sub /\ activity) \/ fault = "start"
    /\ Subscribed(sub, IF activity /\ (options.activity \/ ~sub)
                       THEN {"kernel"} ELSE {})

\* MetaxCounters: prepare() makes the groups, begin() and finish() run them, and
\* whatever fails releases them.
Prepared == IF kind = "metax" /\ options.counters THEN "ready" ELSE "none"

\* Faulty: a range goes on through a pause.
FinishedLater == counter

Begun == IF counter = "ready" THEN "running" ELSE counter
Finished == IF counter = "running" THEN "ready" ELSE counter
CounterBecomes(next) ==
  \/ counter' = next /\ UNCHANGED ghost
  \/ /\ fault = "counter" /\ next # counter
     /\ counter' = "none" /\ ghost' = [ghost EXCEPT !.counterFailed = TRUE]

\* doStart() clears what the session before has left, then goes to the library.
Start ==
  /\ phase = "none" /\ session < Sessions
  /\ IF kind = "mthreads" THEN MuptiStarted ELSE Subscribed(TRUE, KindsOf)
  /\ session' = session + 1 /\ phase' = "starting" /\ hasStarted' = TRUE
  /\ events' = {} /\ opened' = {} /\ failed' = FALSE /\ rows' = {}
  /\ launches' = [c \in Calls |-> {}]
  /\ counter' = Prepared
  /\ ghost' = [ghost EXCEPT !.due = {}, !.counterFailed = FALSE]
  /\ UNCHANGED <<setup, call, records>>

StartFails ==
  /\ fault = "start" /\ kind # "mthreads"
  /\ phase = "none" /\ session < Sessions
  /\ \E upTo \in SUBSET KindsOf : upTo # KindsOf /\ sdk' = Rollback(upTo)
  /\ held' = NotHeld
  /\ events' = {} /\ failed' = FALSE /\ launches' = [c \in Calls |-> {}]
  /\ UNCHANGED <<setup, session, phase, hasStarted, counter, call,
                 records, opened, rows, ghost>>

(* -------------------------------- sessions ---------------------------------- *)

Returned == {c \in Calls : call[c].state = "closed"}

\* doFlush(): the device is waited for and the buffers forced out, so that every
\* record is delivered; MUPTI only forces out, and what has not ended is invalid.
Flushed ==
  IF kind = "mthreads" /\ "kernel" \notin held.kinds THEN UNCHANGED <<records, events>>
  ELSE /\ records' = {}
       /\ \E ended \in SUBSET records :
            /\ kind # "mthreads" => ended = records
            /\ events' = events \cup {Activity(c) : c \in ended}

FlushThrows ==
  /\ phase \in {"starting", "active"} /\ failed
  /\ phase' = "broken"
  /\ UNCHANGED <<setup, session, hasStarted, libraryVars, call, captureVars,
                 rows, ghost>>

\* The flush of an activation begins a range of the counters: no data is registered.
FlushToActivate ==
  /\ phase = "starting" /\ ~failed
  /\ phase' = "flushed"
  /\ Flushed /\ CounterBecomes(Begun)
  /\ UNCHANGED <<setup, session, hasStarted, sdk, held, call, launches,
                 opened, failed, rows>>

Register ==
  /\ phase = "flushed" /\ phase' = "active"
  /\ UNCHANGED <<setup, session, hasStarted, libraryVars, call, captureVars,
                 rows, ghost>>

\* The flush of a deactivation ends the range.
FlushToPause ==
  /\ phase = "active" /\ ~failed
  /\ phase' = "pausing"
  /\ Flushed
  /\ \/ /\ counter' = Finished
        /\ ghost' = [ghost EXCEPT !.due = @ \cup {c \in Returned : call[c].traced}]
     \/ /\ fault = "counter" /\ Finished # counter /\ counter' = "none"
        /\ ghost' = [ghost EXCEPT !.counterFailed = TRUE]
  /\ UNCHANGED <<setup, session, hasStarted, sdk, held, call, launches,
                 opened, failed, rows>>

Unregister ==
  /\ phase = "pausing" /\ phase' = "paused"
  /\ UNCHANGED <<setup, session, hasStarted, libraryVars, call, captureVars,
                 rows, ghost>>

\* Resuming finds the profiler started and keeps what it has.
Resume ==
  /\ phase = "paused" /\ phase' = "starting"
  /\ UNCHANGED <<setup, session, hasStarted, libraryVars, call, captureVars,
                 rows, ghost>>

\* Faulty: a callback and the activity of the same call are both written.
WrittenAll == events

\* MUPTI writes its rows when it stops: a callback gives way to the activity of the
\* same call.
Superseded(e) == e.from = "callback" /\ Activity(e.call) \in events
Written == {e \in events : ~Superseded(e)}

Stop ==
  /\ phase = "paused" /\ phase' = "stopped" /\ hasStarted' = FALSE
  /\ sdk' = [subs |-> sdk.subs - (IF held.sub THEN 1 ELSE 0),
             kinds |-> sdk.kinds \ held.kinds]
  /\ held' = NotHeld /\ counter' = "none"
  /\ rows' = IF kind = "mthreads" THEN Written ELSE {}
  /\ UNCHANGED <<setup, session, call, captureVars, ghost>>

\* doStop() disables, then unsubscribes, and the first that fails ends it: the
\* session has no artifact.  MUPTI forgets both and ignores what the library says.
StopFails ==
  /\ fault = "stop" /\ phase = "paused" /\ hasStarted' = FALSE
  /\ \E disabled \in SUBSET held.kinds : sdk' = [sdk EXCEPT !.kinds = @ \ disabled]
  /\ IF kind = "mthreads"
     THEN phase' = "stopped" /\ held' = NotHeld /\ rows' = Written
     ELSE phase' = "none" /\ UNCHANGED <<held, rows>>
  /\ counter' = "none"
  /\ ghost' = [ghost EXCEPT !.stopFailed = TRUE]
  /\ UNCHANGED <<setup, session, call, captureVars>>

\* Faulty: the session takes whatever the collector has.
MineAll(e) == e \in events

\* collect(): the events whose launch saw this session's data at API entry.
Mine(e) == session \in launches[e.call]

Collect ==
  /\ phase = "stopped" /\ phase' = "none"
  /\ rows' = IF kind = "mthreads" THEN rows ELSE {e \in events : Mine(e)}
  /\ UNCHANGED <<setup, session, hasStarted, libraryVars, call, captureVars,
                 ghost>>

(* ------------------------------ the threads --------------------------------- *)

\* An API call enters: the callback notes the sessions that record at this moment.
\* MUPTI opens an event that the exit completes.
ApiEnter(c) ==
  /\ call[c].state = "idle"
  /\ call' = [call EXCEPT ![c] =
       [state |-> "open", traced |-> FALSE, until |-> 0,
        window |-> IF Registered THEN session ELSE 0,
        since |-> IF sdk.subs > 0 /\ hasStarted THEN session ELSE 0]]
  /\ launches' = IF sdk.subs > 0 /\ kind # "mthreads" /\ Registered
                 THEN [launches EXCEPT ![c] = {session}] ELSE launches
  /\ opened' = IF sdk.subs > 0 /\ kind = "mthreads" THEN opened \cup {c} ELSE opened
  /\ UNCHANGED <<setup, session, phase, hasStarted, libraryVars, records, events, failed,
                 rows, ghost>>

\* The kernel is queued and, with kernel activities on, leaves a record.
Queue(c) ==
  /\ call[c].state = "open" /\ ~call[c].traced /\ "kernel" \in sdk.kinds
  /\ call' = [call EXCEPT ![c].traced = TRUE]
  /\ records' = records \cup {c}
  /\ UNCHANGED <<setup, session, phase, hasStarted, libraryVars, events,
                 launches, opened, failed, rows, ghost>>

\* The MUPTI callback at the exit of a call completes its event.  The driver call
\* nested in a runtime call has the same correlation id and comes first, so that
\* the exit of the outer one finds nothing.
CompletesEvent(c) ==
  IF sdk.subs > 0 /\ c \in opened
  THEN events' = events \cup {Callback(c)} /\ opened' = opened \ {c}
  ELSE UNCHANGED <<events, opened>>

DriverCall(c) ==
  /\ kind = "mthreads" /\ call[c].state = "open" /\ sdk.subs > 0
  /\ events' = events \cup {Callback(c)} /\ opened' = opened \ {c}
  /\ UNCHANGED <<setup, session, phase, hasStarted, libraryVars, call,
                 records, launches, failed, rows, ghost>>

ApiExit(c) ==
  /\ call[c].state = "open"
  /\ call' = [call EXCEPT ![c].state = "closed",
                           ![c].until = IF sdk.subs > 0 THEN session ELSE 0]
  /\ CompletesEvent(c)
  /\ UNCHANGED <<setup, session, phase, hasStarted, libraryVars, records,
                 launches, failed, rows, ghost>>

\* A record with valid times is an event; without them it is an error, but MUPTI
\* ignores it and keeps the callback's event.
Takes(c, timed) ==
  IF timed THEN events' = events \cup {Activity(c)} /\ UNCHANGED failed
  ELSE UNCHANGED events /\ failed' = (kind # "mthreads" \/ failed)

\* A buffer is completed by the library's own thread.
BufferCompletes(c, timed) ==
  /\ c \in records /\ records' = records \ {c}
  /\ timed \/ fault = "record"
  /\ Takes(c, timed)
  /\ UNCHANGED <<setup, session, phase, hasStarted, libraryVars, call,
                 launches, opened, rows, ghost>>

\* The library loses records, and says so.
RecordLost(c) ==
  /\ fault = "record" /\ c \in records /\ kind # "mthreads"
  /\ records' = records \ {c} /\ failed' = TRUE
  /\ UNCHANGED <<setup, session, phase, hasStarted, libraryVars, call,
                 events, launches, opened, rows, ghost>>

CollectorNext ==
  \/ Start \/ StartFails \/ FlushThrows \/ FlushToActivate \/ Register
  \/ FlushToPause \/ Unregister \/ Resume
  \/ Stop \/ StopFails \/ Collect
  \/ \E c \in Calls : \/ ApiEnter(c) \/ Queue(c) \/ DriverCall(c) \/ ApiExit(c) \/ RecordLost(c)
                      \/ \E timed \in BOOLEAN : BufferCompletes(c, timed)

CollectorSpec == CollectorInit /\ [][CollectorNext]_collectorVars

(* ------------------------------- properties --------------------------------- *)

\* A finished Enflame or MetaX session has exactly the kernels launched while it
\* was recording, whenever their records came, across pauses; none that returned
\* before its last flush is missing.
SessionGetsItsKernels ==
  phase = "none" /\ session > 0 /\ kind # "mthreads" /\ ~ghost.stopFailed =>
    /\ \A e \in rows : call[e.call].window = session
    /\ \A c \in ghost.due : call[c].window = session => \E e \in rows : e.call = c

\* Every launch whose call ran under the subscription of the session has one row in
\* the MUPTI output, neither lost when its activity is unusable nor doubled by it.
OneRowPerLaunch ==
  phase = "stopped" /\ kind = "mthreads" =>
    \A c \in Calls :
      /\ Cardinality({e \in rows : e.call = c}) <= 1
      /\ call[c].since = session /\ call[c].until = session /\ ~ghost.stopFailed
           => \E e \in rows : e.call = c

\* A start that fails gives back everything it took, and a stop leaves nothing
\* subscribed or enabled, unless the library refused to release it.
NothingStaysEnabled ==
  ~hasStarted /\ ~ghost.stopFailed => sdk = [subs |-> 0, kinds |-> {}]

\* The MetaX counters run only around the registered data: a range never covers
\* paused work, and one runs whenever the session records, unless a call failed.
RangesFollowTheSession ==
  /\ counter = "running" => phase \in {"flushed", "active", "broken"}
  /\ phase = "active" /\ Prepared = "ready" /\ ~ghost.counterFailed
       => counter = "running"
=============================================================================
