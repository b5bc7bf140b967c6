---------------------------- MODULE ProfilerApi ----------------------------
(***************************************************************************)
(* The public calls of the profiler (profile.py: start, activate,          *)
(* deactivate, finalize), over the hook registry and the native sessions,  *)
(* with kernel launches of other threads going through the hooks.          *)
(*                                                                         *)
(* A call is one step: the application makes them from one thread, while   *)
(* any thread may launch kernels (test_hook_multiple_threads), and a       *)
(* launch spans two steps, its enter and its exit hooks.  The native calls *)
(* do what SessionManager says; here only which sessions exist and record. *)
(* Calls under `python -m ...' (is_command_line) are ignored by the code.  *)
(***************************************************************************)
EXTENDS HookManager

CONSTANTS
  Requests,      \* target is supported or not -> what start is called with
  Threads,       \* the threads that launch kernels
  Faults,        \* what may raise, a subset of FaultKinds
  MaxFlushFaults,\* bound on the flushes that throw
  Absent         \* no such key

(***************************************************************************)
(* A request is an output path and the three hooks start derives from      *)
(* backend and hook: the triton launch hook, the debugger-based IR         *)
(* instrumentation and the native instrumentation hook.  The machine's      *)
(* target is fixed, but which one it is Init chooses: the instrumentation  *)
(* hook supports CUDA and HIP only, the others instrument with the debugger.*)
(***************************************************************************)
FaultKinds == {"debugger", "native", "mode"}

ASSUME ApiAssumptions ==
  /\ MaxFlushFaults \in Nat
  /\ Faults \subseteq FaultKinds
  /\ \A b \in BOOLEAN : \A r \in Requests[b] :
       r.triton \in BOOLEAN /\ r.instr \in BOOLEAN /\ r.native \in BOOLEAN
  /\ Absent \notin Nat

Paths == {r.path : r \in Requests[TRUE] \cup Requests[FALSE]}
Flags == [triton : BOOLEAN, instr : BOOLEAN, native : BOOLEAN]
ASSUME AbsentIsNoFlags == Absent \notin Flags /\ Absent \notin Paths

VARIABLES
  nextSessionId,
  sessionPath,   \* native: id -> path, Absent when there is no such session
  recording,     \* native: the sessions that are active
  tracked,       \* _active_sessions: id -> which hooks it was started with
  profilingOn,   \* flags.profiling_on
  debuggerOn,    \* flagtree.debugger is activated for the profiler
  hooks,         \* the HookManager
  nextInstance,  \* InstrumentationHook objects constructed so far
  inLaunch,      \* thread -> the hooks whose enter ran, Absent outside
  flushFaults

nativeVars == <<nextSessionId, sessionPath, recording, flushFaults>>
pythonVars == <<tracked, profilingOn, debuggerOn, hooks, nextInstance>>
vars == <<nativeVars, pythonVars, inLaunch>>

Existing == {i \in Ids : sessionPath[i] # Absent}
Tracked  == {i \in Ids : tracked[i] # Absent}
UsesDebugger(T) == \E i \in T : tracked[i].instr

Init ==
  /\ nextSessionId = 0
  /\ sessionPath = [i \in Ids |-> Absent]
  /\ recording = {}
  /\ tracked = [i \in Ids |-> Absent]
  /\ profilingOn = FALSE
  /\ debuggerOn = FALSE
  /\ hooks \in {NoHooks(b) : b \in BOOLEAN}
  /\ nextInstance = 0
  /\ inLaunch = [t \in Threads |-> Absent]
  /\ flushFaults = 0

FlushThrows == flushFaults < MaxFlushFaults /\ flushFaults' = flushFaults + 1

-----------------------------------------------------------------------------
(* start                                                                   *)

\* The native session start ends with: the one of that path, or a new one.
Target(r) ==
  IF \E i \in Ids : sessionPath[i] = r.path
    THEN CHOOSE i \in Ids : sessionPath[i] = r.path
    ELSE nextSessionId

CanStart(r) ==
  /\ Target(r) < MaxSessions
  /\ r.native => nextInstance < MaxInstances

\* activating the debugger or native start raises, and what this call had
\* activated is taken back.
StartRejected(r) ==
  /\ CanStart(r)
  /\ \/ "debugger" \in Faults /\ r.instr /\ ~UsesDebugger(Tracked)
        /\ UNCHANGED nextSessionId
     \/ "native" \in Faults /\ Target(r) \notin recording
        /\ nextSessionId' = IF Target(r) = nextSessionId THEN nextSessionId + 1
                                                         ELSE nextSessionId
  /\ profilingOn' = (Tracked # {})
  /\ UNCHANGED <<sessionPath, recording, flushFaults, tracked, debuggerOn,
                 hooks, nextInstance, inLaunch>>

\* native start returns the target.
NativeStart(r) ==
  nextSessionId' = IF Target(r) = nextSessionId THEN nextSessionId + 1
                                                ELSE nextSessionId

\* The hook state after the hooks of r were registered, and whether one
\* raised (constructing the instance raises on a bad mode string).
Registered(r, i) ==
  LET s == IF r.triton THEN Register(hooks, Launch, i).st ELSE hooks
  IN  IF ~r.native THEN {Ok(s)}
      ELSE {Register(s, nextInstance, i)}
             \cup IF "mode" \in Faults THEN {Raised(s)} ELSE {}

\* Faulty: a session that is already known keeps what it was started with.
TrackNew(r, i) ==
  tracked' = [tracked EXCEPT ![i] =
    IF i \in Tracked THEN @
    ELSE [triton |-> r.triton, instr |-> r.instr, native |-> r.native]]

Track(r, i) ==
  tracked' = [tracked EXCEPT ![i] =
    IF i \in Tracked
      THEN [tracked[i] EXCEPT !.triton = @ \/ r.triton, !.instr = @ \/ r.instr]
      ELSE [triton |-> r.triton, instr |-> r.instr, native |-> r.native]]

StartReturns(r) ==
  LET i == Target(r) IN
  /\ CanStart(r)
  /\ NativeStart(r)
  /\ \E s \in Registered(r, i) : ~s.raised /\ hooks' = s.st
  /\ nextInstance' = nextInstance + (IF r.native THEN 1 ELSE 0)
  /\ sessionPath' = [sessionPath EXCEPT ![i] = r.path]
  /\ recording' = recording \cup {i}
  /\ Track(r, i)
  /\ profilingOn' = TRUE
  /\ debuggerOn' = (debuggerOn \/ r.instr)
  /\ UNCHANGED <<inLaunch, flushFaults>>

\* Faulty: the native session is left behind.
RollBackKeepsNative(r, i) ==
  /\ sessionPath' = [sessionPath EXCEPT ![i] = r.path]
  /\ recording' = recording \cup {i}
  /\ UNCHANGED flushFaults

\* profiler_native.finalize(session, ""): a flush that throws leaves the
\* session where it is, inactive.
RollBack(r, i) ==
  /\ recording' = recording \ {i}
  /\ \/ sessionPath' = [sessionPath EXCEPT ![i] = Absent] /\ UNCHANGED flushFaults
     \/ sessionPath' = [sessionPath EXCEPT ![i] = r.path] /\ FlushThrows

\* A hook raised: unregister and finalize the session, whatever those raise.
StartRollsBack(r) ==
  LET i == Target(r) IN
  /\ CanStart(r)
  /\ NativeStart(r)
  /\ \E s \in Registered(r, i) :
       s.raised /\ hooks' \in {u.st : u \in Unregister(s.st, i)}
  /\ nextInstance' = nextInstance + 1
  /\ RollBack(r, i)
  /\ debuggerOn' = (debuggerOn /\ ~(r.instr /\ ~UsesDebugger(Tracked)))
  /\ profilingOn' = (Tracked # {})
  /\ UNCHANGED <<tracked, inLaunch>>

Start(r) == StartRejected(r) \/ StartReturns(r) \/ StartRollsBack(r)

-----------------------------------------------------------------------------
(* activate and deactivate: the hooks first, then the native session.      *)

\* native activate / activate_all of the sessions S: an unknown session
\* raises; those whose profiler does not start stay inactive.
NativeActivate(S) ==
  \/ S \subseteq Existing /\ recording' = recording \cup S
  \/ ~(S \subseteq Existing) /\ UNCHANGED recording
  \/ "native" \in Faults /\ ~(S \subseteq recording) /\ UNCHANGED recording

ActivateSessions(hookKeys, S) ==
  /\ \E s \in Activate(hooks, hookKeys) :
       /\ hooks' = s.st
       /\ IF s.raised THEN UNCHANGED recording ELSE NativeActivate(S)
  /\ UNCHANGED <<nextSessionId, sessionPath, flushFaults, tracked, profilingOn,
                 debuggerOn, nextInstance, inLaunch>>

Activate1(i) == i < nextSessionId /\ ActivateSessions({i}, {i})
ActivateAll  == ActivateSessions(hooks.keys, Existing)

DeactivateSessions(hookKeys, S) ==
  /\ \E s \in Deactivate(hooks, hookKeys) : hooks' = s.st
  /\ \/ recording' = recording \ S /\ UNCHANGED flushFaults
     \/ \E f \in S \cap recording :
          recording' = recording \ {i \in S : i <= f} /\ FlushThrows
  /\ UNCHANGED <<nextSessionId, sessionPath, tracked, profilingOn, debuggerOn,
                 nextInstance, inLaunch>>

Deactivate1(i) == i < nextSessionId /\ DeactivateSessions({i}, {i})
DeactivateAll  == DeactivateSessions(hooks.keys, Existing)

-----------------------------------------------------------------------------
(* finalize: the native session, then _drop_session in a finally block.    *)

\* An artifact that cannot be written raises after the session is gone,
\* which _drop_session does not tell from success.
NativeFinalize(S) ==
  \/ /\ sessionPath' = [i \in Ids |-> IF i \in S THEN Absent ELSE sessionPath[i]]
     /\ recording' = recording \ S
     /\ UNCHANGED flushFaults
  \/ \E f \in S \cap recording :
       /\ recording' = recording \ {i \in S : i <= f}
       /\ FlushThrows
       /\ UNCHANGED sessionPath

\* Faulty: looks for other instrumented sessions before it drops this one.
DropBeforePop(i) ==
  /\ tracked' = [tracked EXCEPT ![i] = Absent]
  /\ \E u \in Unregister(hooks, i) : hooks' = u.st
  /\ debuggerOn' = (debuggerOn /\ UsesDebugger(Tracked))
  /\ profilingOn' = (profilingOn /\ Tracked # {i})

\* _drop_session: what unregister raises skips the rest.
DropSession(i) ==
  /\ tracked' = [tracked EXCEPT ![i] = Absent]
  /\ IF i \notin Tracked
       THEN /\ UNCHANGED <<hooks, debuggerOn>>
            /\ profilingOn' = (profilingOn /\ Tracked # {})
       ELSE \E u \in Unregister(hooks, i) :
              /\ hooks' = u.st
              /\ IF u.raised THEN UNCHANGED <<debuggerOn, profilingOn>>
                 ELSE /\ debuggerOn' = (debuggerOn /\ (tracked[i].instr
                                          => UsesDebugger(Tracked \ {i})))
                      /\ profilingOn' = (profilingOn /\ Tracked # {i})

Finalize1(i) ==
  /\ i < nextSessionId
  /\ NativeFinalize({i})
  /\ DropSession(i)
  /\ UNCHANGED <<nextSessionId, nextInstance, inLaunch>>

\* finalize(None): finalize_all, then _drop_all_sessions.
FinalizeAll ==
  /\ NativeFinalize(Existing)
  /\ tracked' = [i \in Ids |-> Absent]
  /\ profilingOn' = FALSE
  /\ hooks' = UnregisterAll(hooks)
  /\ debuggerOn' = (debuggerOn /\ ~UsesDebugger(Tracked))
  /\ UNCHANGED <<nextSessionId, nextInstance, inLaunch>>

-----------------------------------------------------------------------------
(* Kernel launches.                                                        *)

\* What the runtime's hook chain reaches.
Reached == IF hooks.heads THEN hooks.active ELSE {}

LaunchEnter(t) ==
  /\ inLaunch[t] = Absent
  /\ inLaunch' = [inLaunch EXCEPT ![t] = Reached]
  /\ UNCHANGED <<nativeVars, pythonVars>>

\* The exit hooks of those that are active now, in reverse order.
LaunchExit(t) ==
  /\ inLaunch[t] # Absent
  /\ inLaunch' = [inLaunch EXCEPT ![t] = Absent]
  /\ UNCHANGED <<nativeVars, pythonVars>>

Next ==
  \/ \E r \in Requests[hooks.supported] : Start(r)
  \/ \E i \in Ids : Activate1(i) \/ Deactivate1(i) \/ Finalize1(i)
  \/ ActivateAll \/ DeactivateAll \/ FinalizeAll
  \/ \E t \in Threads : LaunchEnter(t) \/ LaunchExit(t)

Spec == Init /\ [][Next]_vars
-----------------------------------------------------------------------------
(* Properties                                                              *)

TypeOK ==
  /\ nextSessionId \in 0 .. MaxSessions
  /\ sessionPath \in [Ids -> Paths \cup {Absent}]
  /\ recording \subseteq Existing
  /\ tracked \in [Ids -> Flags \cup {Absent}]
  /\ profilingOn \in BOOLEAN /\ debuggerOn \in BOOLEAN
  /\ hooks \in HookState
  /\ nextInstance \in 0 .. MaxInstances
  /\ inLaunch \in [Threads -> (SUBSET Hooks) \cup {Absent}]
  /\ flushFaults \in 0 .. MaxFlushFaults

\* The shared launch hook is active exactly as long as some session has it
\* switched on, through every activation, rollback and finalization.
LaunchHookShared ==
  Launch \in hooks.active <=> \E i \in Ids : <<i, Launch>> \in hooks.on

\* The debugger is on exactly while a tracked session uses it: the last one
\* to be dropped, or a start that failed, switches it off.
DebuggerFollows == debuggerOn <=> UsesDebugger(Tracked)

\* A native session that records is known to the Python layer: no failed
\* start leaves one behind.  (A flush that threw may.)
RecordingIsTracked == flushFaults = 0 => recording \subseteq Tracked
=============================================================================
