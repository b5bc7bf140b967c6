--------------------------- MODULE SessionManager ---------------------------
(***************************************************************************)
(* The native session layer of the FlagTree Profiler: the SessionManager   *)
(* singleton, the Sessions it owns and the base-class lifecycle of the     *)
(* Profiler singletons they share (Profiler/csrc/lib/Session/Session.cpp,  *)
(* include/Session/Session.h, include/Profiler/Profiler.h and the pybind   *)
(* entry points of csrc/Profiler.cpp).                                     *)
(*                                                                         *)
(* The bindings never release the Python GIL, so one native call runs at a *)
(* time.  A call that spans several critical sections (start, finalize,    *)
(* finalize_all) is several steps here: `starting' and `detached' are the  *)
(* program counter of that call, and every other call waits for Idle.      *)
(*                                                                         *)
(* What can throw is a parameter: Faults names the stages that may fail,   *)
(* and at most MaxFlushFaults flushes do (each can leave interface counts  *)
(* one higher for good, so the bound keeps the state space finite).        *)
(***************************************************************************)
EXTENDS Naturals, FiniteSets

CONSTANTS
  Paths,        \* the output paths users start sessions on
  Profilers,    \* the Profiler singletons
  Instrumenting,\* those of them that are an InstrumentationInterface
  Requests,     \* the (backend, mode, ...) combinations users ask for
  Devices,      \* the device types the instrumentation profiler is built for
  OptionKeys,   \* the keys of the options a mode string can name
  OptionValues, \* and their values
  MaxSessions,  \* bound on nextSessionId: how many sessions a run creates
  Faults,       \* the stages that may throw, a subset of FaultKinds
  MaxFlushFaults,\* bound on the flushes that throw
  Absent        \* "the map has no such key" / a null pointer

(***************************************************************************)
(* A request is what reaches makeSession.  "adapter" is the vendor adapter *)
(* the name resolves to (Absent for the direct backends); "baseOnly" says  *)
(* the nvidia plan enables no vendor metric, so that it may overlap with   *)
(* another such session; "sampling" is what configuring the collector does *)
(* to its PC-sampling flag; "shadow" says the context source is also a     *)
(* ScopeInterface (ShadowContextSource), the python one is not.  "device"  *)
(* and "options" are what InstrumentationProfiler::setMode parses out of   *)
(* the mode string, Absent for a key it leaves out (and for every other    *)
(* profiler).                                                              *)
(***************************************************************************)
FaultKinds == {"construct", "start", "stop", "dump"}
Sampling   == {"keep", "on", "off"}

ASSUME SessionAssumptions ==
  /\ MaxSessions \in Nat
  /\ MaxFlushFaults \in Nat
  /\ Faults \subseteq FaultKinds
  /\ Instrumenting \subseteq Profilers
  /\ \A r \in Requests : /\ r.profiler \in Profilers
                         /\ r.baseOnly \in BOOLEAN
                         /\ r.shadow \in BOOLEAN
                         /\ r.sampling \in Sampling
                         /\ r.options \in [OptionKeys -> OptionValues \cup {Absent}]
  /\ Absent \notin Nat

\* Device and options are read out of the mode string.
ASSUME ModeIsParsed ==
  \A q, r \in Requests :
    q.profiler = r.profiler /\ q.mode = r.mode
      => q.device = r.device /\ q.options = r.options

Ids     == 0 .. MaxSessions - 1
Session == [path : Paths, req : Requests]
ASSUME AbsentIsNoSession == Absent \notin Session

\* The Data, ScopeInterface and ContextSource objects a session owns.
DataObjects     == {"data", "timeline"} \X Ids
ScopeInterfaces == {"context", "data", "timeline"} \X Ids

VARIABLES
  nextSessionId,
  sessionPaths,     \* path -> session id
  sessions,         \* session id -> session
  activeSessions,   \* session id -> "active", "inactive" or no key ("none")
  scopeInterfaceCounts,
  opInterfaceCounts,
  instrumentationInterfaceCounts,
  contextSourceCounts,
  started,          \* Profiler::started
  dataSet,          \* Profiler::dataSet
  modeAndOptions,   \* Profiler::modeAndOptions
  pcSampling,       \* GPUProfiler::pcSamplingEnabled
  runtime,          \* InstrumentationProfiler::runtime, by its device type
  modeOptions,      \* InstrumentationProfiler::modeOptions
  disturbed,        \* history: the profilers a refused start reconfigured
                    \* after the last start that was accepted
  collector,        \* what doStart / doStop left of the device collector
  starting,         \* the session a `start' call has added, not yet activated
  detached,         \* the sessions a `finalize' call holds outside the lock
  finalized, aborted, lost, \* ids whose finalize returned, threw, never ran
  flushFaults       \* how many flushes have thrown

mapVars   == <<nextSessionId, sessionPaths, sessions>>
countVars == <<scopeInterfaceCounts, opInterfaceCounts,
               instrumentationInterfaceCounts, contextSourceCounts>>
modeVars  == <<modeAndOptions, runtime, modeOptions, disturbed>>
configVars == <<modeVars, pcSampling>>
endVars   == <<finalized, aborted, lost>>
vars == <<mapVars, activeSessions, countVars, started, dataSet, configVars,
          collector, starting, detached, endVars, flushFaults>>

Live     == {i \in Ids : sessions[i] # Absent}
Active   == {i \in Ids : activeSessions[i] = "active"}
Detached == {i \in Ids : detached[i] # Absent}
Idle     == starting = Absent /\ Detached = {}

ProfilerOf(i) == sessions[i].req.profiler

\* A vendor session owns a timeline beside its tree (makeSession).
DataOf(i) ==
  {<<k, i>> : k \in IF sessions[i].req.adapter = Absent
                      THEN {"data"} ELSE {"data", "timeline"}}

\* Session::getInterfaces<ScopeInterface>
ScopeInterfacesOf(i) ==
  DataOf(i) \cup {<<k, i>> : k \in IF sessions[i].req.shadow
                                     THEN {"context"} ELSE {}}

Init ==
  /\ nextSessionId = 0
  /\ sessionPaths = [path \in Paths |-> Absent]
  /\ sessions = [i \in Ids |-> Absent]
  /\ activeSessions = [i \in Ids |-> "none"]
  /\ scopeInterfaceCounts = [o \in ScopeInterfaces |-> 0]
  /\ opInterfaceCounts = [p \in Profilers |-> 0]
  /\ instrumentationInterfaceCounts = [p \in Profilers |-> 0]
  /\ contextSourceCounts = [i \in Ids |-> 0]
  /\ started = [p \in Profilers |-> FALSE]
  /\ dataSet = [p \in Profilers |-> {}]
  /\ modeAndOptions = [p \in Profilers |-> Absent]
  /\ pcSampling = [p \in Profilers |-> FALSE]
  /\ runtime = [p \in Profilers |-> Absent]
  /\ modeOptions = [p \in Profilers |-> [k \in OptionKeys |-> Absent]]
  /\ disturbed = {}
  /\ collector = [p \in Profilers |-> "off"]
  /\ starting = Absent
  /\ detached = [i \in Ids |-> Absent]
  /\ finalized = {} /\ aborted = {} /\ lost = {}
  /\ flushFaults = 0

-----------------------------------------------------------------------------
(* Interface registration: the counters are std::map<T*, size_t>.          *)

\* Faulty: a profiler two sessions share is counted once.
SharingOnce(S, p) == IF \E i \in S : ProfilerOf(i) = p THEN 1 ELSE 0

\* How many of the sessions in S hand profiler p to the manager.
Sharing(S, p) == Cardinality({i \in S : ProfilerOf(i) = p})

RegisterInterfaces(S) ==
  /\ scopeInterfaceCounts' =
       [o \in ScopeInterfaces |->
          IF o[2] \in S /\ o \in ScopeInterfacesOf(o[2])
            THEN scopeInterfaceCounts[o] + 1 ELSE scopeInterfaceCounts[o]]
  /\ opInterfaceCounts' =
       [p \in Profilers |-> opInterfaceCounts[p] + Sharing(S, p)]
  /\ instrumentationInterfaceCounts' =
       [p \in Profilers |->
          IF p \in Instrumenting
            THEN instrumentationInterfaceCounts[p] + Sharing(S, p)
            ELSE instrumentationInterfaceCounts[p]]
  /\ contextSourceCounts' =
       [i \in Ids |-> IF i \in S THEN contextSourceCounts[i] + 1
                                 ELSE contextSourceCounts[i]]

\* Faulty: the context sources stay registered.
UnregisterButContext(S) ==
  /\ scopeInterfaceCounts' =
       [o \in ScopeInterfaces |->
          IF o[2] \in S /\ o \in DataOf(o[2])
            THEN scopeInterfaceCounts[o] - 1 ELSE scopeInterfaceCounts[o]]
  /\ UNCHANGED <<opInterfaceCounts, instrumentationInterfaceCounts,
                 contextSourceCounts>>

UnregisterInterfaces(S) ==
  /\ scopeInterfaceCounts' =
       [o \in ScopeInterfaces |->
          IF o[2] \in S /\ o \in ScopeInterfacesOf(o[2])
            THEN scopeInterfaceCounts[o] - 1 ELSE scopeInterfaceCounts[o]]
  /\ opInterfaceCounts' =
       [p \in Profilers |-> opInterfaceCounts[p] - Sharing(S, p)]
  /\ instrumentationInterfaceCounts' =
       [p \in Profilers |->
          IF p \in Instrumenting
            THEN instrumentationInterfaceCounts[p] - Sharing(S, p)
            ELSE instrumentationInterfaceCounts[p]]
  /\ contextSourceCounts' =
       [i \in Ids |-> IF i \in S THEN contextSourceCounts[i] - 1
                                 ELSE contextSourceCounts[i]]

-----------------------------------------------------------------------------
(* activateSessionImpl / deActivateSessionImpl, for a set of sessions: the *)
(* "all" variants walk the map in id order and stop at the first throw.    *)

\* Profiler::start sets `started' only after doStart returned: the sessions
\* of F got a started profiler, those of X an exception from doStart.
StartProfilers(F, X) ==
  /\ started' = [p \in Profilers |->
                   started[p] \/ \E i \in F : ProfilerOf(i) = p]
  /\ collector' =
       [p \in Profilers |->
          IF started[p] THEN collector[p]
          ELSE IF \E i \in F : ProfilerOf(i) = p
                 THEN IF pcSampling[p] THEN "sampling" ELSE "plain"
          ELSE IF \E i \in X : ProfilerOf(i) = p THEN "partial"
          ELSE collector[p]]

\* The data objects the sessions of S have under profiler p.
DataUnder(S, p) == UNION {DataOf(i) : i \in {j \in S : ProfilerOf(j) = p}}

UnregisterData(S) ==
  dataSet' = [p \in Profilers |-> dataSet[p] \ DataUnder(S, p)]

\* flush() throws for the sessions of F (at most one in a call).
Flushing(F) ==
  IF F = {} THEN UNCHANGED flushFaults
  ELSE flushFaults < MaxFlushFaults /\ flushFaults' = flushFaults + 1

\* Sessions S activate; those in noStart fail in start, in noFlush in flush.
ActivateImpl(S, noStart, noFlush) ==
  /\ StartProfilers(S \cup noFlush, noStart)
  /\ Flushing(noFlush)
  /\ dataSet' = [p \in Profilers |-> dataSet[p] \cup DataUnder(S, p)]
  /\ activeSessions' =
       [i \in Ids |-> IF i \in S THEN "active"
                      ELSE IF i \in noStart \cup noFlush THEN "inactive"
                      ELSE activeSessions[i]]
  /\ RegisterInterfaces(S)

\* The stages at which activating i, after those of S, can throw.
StartCanFail(i, S) ==
  /\ "start" \in Faults
  /\ ~started[ProfilerOf(i)]
  /\ \A j \in S : ProfilerOf(j) # ProfilerOf(i)

\* Sessions S deactivate.  Those of noFlush were marked inactive before
\* their flush threw: nothing of them is unregistered.
DeactivateImpl(S, noFlush) ==
  /\ Flushing(noFlush)
  /\ activeSessions' = [i \in Ids |-> IF i \in S \cup noFlush
                                        THEN "inactive" ELSE activeSessions[i]]
  /\ UnregisterData(S)
  /\ UnregisterInterfaces(S)

-----------------------------------------------------------------------------
(* start: addSession, then activateSession, finalizing what fails.         *)

\* A vendor adapter accepts one session at a time, except base-only nvidia.
Overlaps(r) ==
  /\ r.adapter # Absent
  /\ \E i \in Live : /\ sessions[i].req.adapter = r.adapter
                     /\ ~(r.baseOnly /\ sessions[i].req.baseOnly)

\* validateAndSetProfilerMode: what a session already runs in must agree.
ModeConflict(r) ==
  \E i \in Live : /\ ProfilerOf(i) = r.profiler
                  /\ modeAndOptions[r.profiler] # r.mode

\* InstrumentationProfiler::setMode throws before it has changed anything.
UnknownDevice(r) == r.profiler \in Instrumenting /\ r.device \notin Devices

\* Faulty: an option that has a value keeps it.
OldOptionsWin(old, new) ==
  [k \in OptionKeys |-> IF old[k] = Absent THEN new[k] ELSE old[k]]

\* modeOptions is only ever inserted into: a key that a mode leaves out
\* keeps the value an earlier mode gave it.
Merged(old, new) ==
  [k \in OptionKeys |-> IF new[k] = Absent THEN old[k] ELSE new[k]]

\* getProfiler / configureRuntimeProfiler act on the shared singleton
\* before the mode is validated.
Configure(r) ==
  /\ pcSampling' = [pcSampling EXCEPT
                      ![r.profiler] = CASE r.sampling = "on"   -> TRUE
                                        [] r.sampling = "off"  -> FALSE
                                        [] r.sampling = "keep" -> @]
  /\ IF r.profiler \in Instrumenting
       THEN /\ runtime' = [runtime EXCEPT ![r.profiler] = r.device]
            /\ modeOptions' = [modeOptions EXCEPT
                                 ![r.profiler] = Merged(@, r.options)]
       ELSE UNCHANGED <<runtime, modeOptions>>

\* Refused after Configure: the sessions that run keep what it has done.
ModeRefused(r) ==
  /\ disturbed' = disturbed \cup ({r.profiler} \cap Instrumenting)
  /\ UNCHANGED modeAndOptions

SetMode(r) ==
  /\ modeAndOptions' = [modeAndOptions EXCEPT ![r.profiler] = r.mode]
  /\ disturbed' = disturbed \ {r.profiler}

Rejected == UNCHANGED <<sessionPaths, sessions, starting>>

Constructed(id, path, r) ==
  /\ sessionPaths' = [sessionPaths EXCEPT ![path] = id]
  /\ sessions' = [sessions EXCEPT ![id] = [path |-> path, req |-> r]]
  /\ starting' = id

\* Faulty: a path in use starts a second session.
FreePathAny(path) == TRUE

\* hasSession(path) is false
FreePath(path) == sessionPaths[path] = Absent

\* addSession on a path with no session; the id is consumed whatever follows.
AddSession(path, r) ==
  /\ Idle
  /\ FreePath(path)
  /\ nextSessionId < MaxSessions
  /\ nextSessionId' = nextSessionId + 1
  /\ \/ /\ Overlaps(r) \/ UnknownDevice(r)
        /\ Rejected /\ UNCHANGED configVars
     \/ /\ ~Overlaps(r) /\ ~UnknownDevice(r) /\ ModeConflict(r)
        /\ Configure(r) /\ ModeRefused(r) /\ Rejected
     \/ /\ ~Overlaps(r) /\ ~UnknownDevice(r) /\ ~ModeConflict(r)
        /\ Configure(r) /\ SetMode(r)
        /\ \/ Constructed(nextSessionId, path, r)
           \/ "construct" \in Faults /\ Rejected
  /\ UNCHANGED <<activeSessions, countVars, started, dataSet, collector,
                 detached, endVars, flushFaults>>

\* Moves the sessions of S out of the maps into the finalizing call.
Detach(S) ==
  /\ sessionPaths' = [path \in Paths |-> IF sessionPaths[path] \in S
                                           THEN Absent ELSE sessionPaths[path]]
  /\ sessions' = [i \in Ids |-> IF i \in S THEN Absent ELSE sessions[i]]
  /\ detached' = [i \in Ids |-> IF i \in S THEN sessions[i] ELSE detached[i]]

\* activateSession of the session just added.
ActivateStarted ==
  /\ starting # Absent
  /\ starting' = Absent
  /\ ActivateImpl({starting}, {}, {})
  /\ UNCHANGED <<mapVars, configVars, detached, endVars>>

\* It throws: finalizeSession(sessionId, "") releases the session.
ActivateStartedFails ==
  /\ starting # Absent
  /\ starting' = Absent
  /\ \/ /\ StartCanFail(starting, {}) /\ StartProfilers({}, {starting})
        /\ UNCHANGED flushFaults
     \/ StartProfilers({starting}, {}) /\ Flushing({starting})
  /\ activeSessions' = [activeSessions EXCEPT ![starting] = "none"]
  /\ Detach({starting})
  /\ UNCHANGED <<nextSessionId, countVars, dataSet, configVars, endVars>>

-----------------------------------------------------------------------------
(* activate, deactivate and the *_all calls; start on a known path ends in *)
(* the same activateSessionImpl.                                           *)

ActivateSession(i) ==
  /\ Idle
  /\ i \in Live \ Active
  /\ \/ ActivateImpl({i}, {}, {})
     \/ StartCanFail(i, {}) /\ ActivateImpl({}, {i}, {})
     \/ ActivateImpl({}, {}, {i})
  /\ UNCHANGED <<mapVars, configVars, starting, detached, endVars>>

DeactivateSession(i) ==
  /\ Idle
  /\ i \in Active
  /\ \/ DeactivateImpl({i}, {})
     \/ DeactivateImpl({}, {i})
  /\ UNCHANGED <<mapVars, started, collector, configVars, starting, detached,
                 endVars>>

\* activateAllSessions walks activeSessions: only sessions it has a key for.
ActivateAllSessions ==
  /\ Idle
  /\ LET known == {i \in Ids : activeSessions[i] = "inactive"}
         before(f) == {i \in known : i < f}
     IN  /\ known # {}
         /\ \/ ActivateImpl(known, {}, {})
            \/ \E f \in known : \/ /\ StartCanFail(f, before(f))
                                   /\ ActivateImpl(before(f), {f}, {})
                                \/ ActivateImpl(before(f), {}, {f})
  /\ UNCHANGED <<mapVars, configVars, starting, detached, endVars>>

\* The loop of deactivateAllSessions and of finalizeAllSessions, throwing.
DeactivateAllFails ==
  \E f \in Active : DeactivateImpl({i \in Active : i < f}, {f})

DeactivateAllSessions ==
  /\ Idle
  /\ Active # {}
  /\ DeactivateImpl(Active, {}) \/ DeactivateAllFails
  /\ UNCHANGED <<mapVars, started, collector, configVars, starting, detached,
                 endVars>>

-----------------------------------------------------------------------------
(* finalize, finalize_all: deactivate and detach under the lock, then      *)
(* Session::finalize outside of it, one session after the other.           *)

\* Faulty: deactivated but not erased from activeSessions.
ForgetActivityHalf(S) ==
  activeSessions' = [i \in Ids |-> IF i \in S THEN "inactive"
                                              ELSE activeSessions[i]]
ForgetActivity(S) ==
  activeSessions' = [i \in Ids |-> IF i \in S THEN "none"
                                              ELSE activeSessions[i]]

\* Faulty: no early return for a session that is not active.
WasActiveAny(S) == S
\* The sessions of S deActivateSessionImpl does not return early for.
WasActive(S) == S \cap Active

\* deActivateSessionImpl of every session of S, then the erasures.
DeactivateAndDetach(S) ==
  /\ ForgetActivity(S)
  /\ UnregisterData(WasActive(S))
  /\ UnregisterInterfaces(WasActive(S))
  /\ Detach(S)
  /\ Flushing({})

FinalizeSession(i) ==
  /\ Idle
  /\ i \in Live
  /\ \/ DeactivateAndDetach({i})
     \/ /\ i \in Active /\ DeactivateImpl({}, {i})
        /\ UNCHANGED <<sessionPaths, sessions, detached>>
  /\ UNCHANGED <<nextSessionId, started, collector, configVars, starting,
                 endVars>>

FinalizeAllSessions ==
  /\ Idle
  /\ Live # {}
  /\ \/ DeactivateAndDetach(Live)
     \/ /\ DeactivateAllFails
        /\ UNCHANGED <<sessionPaths, sessions, detached>>
  /\ UNCHANGED <<nextSessionId, started, collector, configVars, starting,
                 endVars>>

\* Faulty: stops under the sessions that still collect.
NoDataAny(p) == TRUE
NoData(p) == dataSet[p] = {}

\* Profiler::stop really stops when no data is left; doStop turns PC
\* sampling off and `started' is cleared before it runs.
StopProfiler(p, outcome) ==
  IF started[p] /\ NoData(p)
    THEN /\ started' = [started EXCEPT ![p] = FALSE]
         /\ collector' = [collector EXCEPT ![p] = outcome]
         /\ pcSampling' = [pcSampling EXCEPT ![p] = FALSE]
    ELSE UNCHANGED <<started, collector, pcSampling>>

\* An exception out of Session::finalize destroys the sessions behind it.
Abort(i) ==
  /\ detached' = [j \in Ids |-> Absent]
  /\ aborted' = aborted \cup {i}
  /\ lost' = lost \cup (Detached \ {i})
  /\ UNCHANGED finalized

Finalize(i) ==
  /\ i \in Detached
  /\ \A j \in Detached : i <= j
  /\ LET p == detached[i].req.profiler IN
       \/ /\ StopProfiler(p, "off")
          /\ detached' = [detached EXCEPT ![i] = Absent]
          /\ finalized' = finalized \cup {i}
          /\ UNCHANGED <<aborted, lost>>
       \/ /\ "stop" \in Faults /\ started[p] /\ NoData(p)
          /\ StopProfiler(p, "partial") /\ Abort(i)
       \/ /\ "dump" \in Faults
          /\ StopProfiler(p, "off") /\ Abort(i)
  /\ UNCHANGED <<mapVars, activeSessions, countVars, dataSet, modeVars,
                 starting, flushFaults>>

-----------------------------------------------------------------------------
Next ==
  \/ \E path \in Paths, r \in Requests : AddSession(path, r)
  \/ ActivateStarted
  \/ ActivateStartedFails
  \/ \E i \in Ids : ActivateSession(i)
  \/ \E i \in Ids : DeactivateSession(i)
  \/ ActivateAllSessions
  \/ DeactivateAllSessions
  \/ \E i \in Ids : FinalizeSession(i)
  \/ FinalizeAllSessions
  \/ \E i \in Ids : Finalize(i)

\* A native call that has begun keeps running: nothing it waits for can be
\* held by another call.
InCall == ActivateStarted \/ ActivateStartedFails \/ \E i \in Ids : Finalize(i)

Spec == Init /\ [][Next]_vars /\ WF_vars(InCall)
-----------------------------------------------------------------------------
(* Properties                                                              *)

TypeOK ==
  /\ nextSessionId \in 0 .. MaxSessions
  /\ sessionPaths \in [Paths -> Ids \cup {Absent}]
  /\ sessions \in [Ids -> Session \cup {Absent}]
  /\ activeSessions \in [Ids -> {"none", "inactive", "active"}]
  /\ scopeInterfaceCounts \in [ScopeInterfaces -> Nat]
  /\ opInterfaceCounts \in [Profilers -> Nat]
  /\ instrumentationInterfaceCounts \in [Profilers -> Nat]
  /\ contextSourceCounts \in [Ids -> Nat]
  /\ started \in [Profilers -> BOOLEAN]
  /\ dataSet \in [Profilers -> SUBSET DataObjects]
  /\ modeAndOptions \in [Profilers -> {r.mode : r \in Requests} \cup {Absent}]
  /\ pcSampling \in [Profilers -> BOOLEAN]
  /\ runtime \in [Profilers -> Devices \cup {Absent}]
  /\ modeOptions \in [Profilers -> [OptionKeys -> OptionValues \cup {Absent}]]
  /\ disturbed \subseteq Instrumenting
  /\ collector \in [Profilers -> {"off", "plain", "sampling", "partial"}]
  /\ starting \in Ids \cup {Absent}
  /\ detached \in [Ids -> Session \cup {Absent}]
  /\ finalized \subseteq Ids /\ aborted \subseteq Ids /\ lost \subseteq Ids
  /\ flushFaults \in Nat

\* Only an existing session has an activity flag, only handed-out ids exist, and a
\* session being finalized is in none of the maps.
ActivityIndex ==
  /\ \A i \in Ids : activeSessions[i] # "none" => i \in Live
  /\ \A i \in Ids : i >= nextSessionId => i \notin Live \cup Detached
  /\ starting # Absent => starting \in Live /\ activeSessions[starting] = "none"
  /\ Live \cap Detached = {}
  /\ Detached # {} => starting = Absent

\* A path leads to a session that exists and was started on it, and every session
\* is found under its path.
PathIndex ==
  \A path \in Paths, i \in Ids :
    sessionPaths[path] = i <=> i \in Live /\ sessions[i].path = path

\* The maps agree on which sessions exist (sessionPaths, sessions, activeSessions
\* and what a finalizing call holds), whatever start has refused or given up half
\* way: no stale activity flag, no path that leads to another session or to none.
KeysAgree == ActivityIndex /\ PathIndex

\* No counter can wrap below zero, whatever has thrown before: while a
\* session is active each of its interfaces is counted for it.
CountsCoverActive ==
  /\ \A o \in ScopeInterfaces :
       o[2] \in Active /\ o \in ScopeInterfacesOf(o[2])
         => scopeInterfaceCounts[o] >= 1
  /\ \A i \in Active : contextSourceCounts[i] >= 1
  /\ \A p \in Profilers : opInterfaceCounts[p] >= Sharing(Active, p)
  /\ \A p \in Instrumenting :
       instrumentationInterfaceCounts[p] >= Sharing(Active, p)

\* Profiler p has the mode that was asked for, and the instrumentation profiler runs
\* with the device and the options that mode names.  The second half is not claimed of
\* an instrumentation profiler that a refused start has reconfigured since the last
\* accepted one (setMode comes before the validation), and it says nothing of options
\* the mode does not name: those of an earlier session stay.
InMode(p, asked) ==
  /\ modeAndOptions[p] = asked.mode
  /\ p \in Instrumenting \ disturbed =>
       /\ runtime[p] = asked.device
       /\ \A k \in OptionKeys :
            asked.options[k] # Absent => modeOptions[p][k] = asked.options[k]

\* A profiler shared by several sessions is in the mode each asked for.
ModeAgrees == \A i \in Live : InMode(ProfilerOf(i), sessions[i].req)

\* An active session really records: its profiler is started, the collector behind
\* it is up, and its data objects are the profiler's.
ActiveRecords ==
  \A i \in Active :
    /\ i \in Live
    /\ started[ProfilerOf(i)]
    /\ collector[ProfilerOf(i)] \in {"plain", "sampling"}
    /\ DataOf(i) \subseteq dataSet[ProfilerOf(i)]

\* When no call is under way, a started profiler has a session left that can stop
\* it, unless finalize_all dropped that session unfinalized or a flush threw (the
\* data it left registered keep stop() from stopping).
StartedIsOwned ==
  Idle /\ lost = {} /\ flushFaults = 0 =>
    \A p \in Profilers : started[p] => \E i \in Live : ProfilerOf(i) = p

\* The profiler follows its sessions: what Profiler::start, stop and setMode leave
\* behind is what the sessions that share it need, whatever starts failed half way in
\* between.  (Refused starts leave the base mode and what records alone; what one may
\* do to the runtime and the options of a running instrumentation session, and to the
\* PC-sampling flag, is excluded: see ModeAgrees.)
CollectorFollows == ModeAgrees /\ ActiveRecords /\ StartedIsOwned

\* As long as no flush has thrown, nothing of a session stays registered once a finalize
\* call has taken it out of the maps: no profiler has its data in dataSet, and the
\* counters name none of its scope interfaces or its context source, so that no scope
\* is dispatched to it.  (A collector thread that took its copy of dataSet before may
\* still write to that data: this is about what is registered, not about such copies.)
DetachedUnreachable ==
  flushFaults = 0 => \A i \in Ids \ Live :
    /\ \A p \in Profilers, k \in {"data", "timeline"} : <<k, i>> \notin dataSet[p]
    /\ \A k \in {"context", "data", "timeline"} : scopeInterfaceCounts[<<k, i>>] = 0
    /\ contextSourceCounts[i] = 0

\* The users' view: SessionLifecycle, every step a step of it or none.
Lifecycle == INSTANCE SessionLifecycle WITH
  NoPath <- Absent,
  phase  <- [i \in Ids |->
               IF i \in Live
                 THEN IF i \in Active THEN "recording" ELSE "paused"
               ELSE IF i \in Detached THEN "closing"
               ELSE IF i < nextSessionId THEN "closed"
               ELSE "unborn"],
  pathOf <- [i \in Ids |-> IF i \in Live THEN sessions[i].path ELSE Absent]

ImplementsLifecycle == Lifecycle!Spec
=============================================================================
