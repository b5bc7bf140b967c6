-------------------------- MODULE ContextDispatch --------------------------
(***************************************************************************)
(* Scopes, states and metrics: how what a thread annotates in Python       *)
(* (scope.py, state.py, context.py) reaches the context stacks and the     *)
(* trees of the sessions that record (SessionManager::enterScope,          *)
(* exitScope, addMetrics, setState and getContextDepth of Session.cpp,     *)
(* ShadowContextSource of Context/Shadow.cpp, TreeData.cpp).               *)
(*                                                                         *)
(* The sessions themselves do what SessionLifecycle promises, which        *)
(* SessionManager implements; here each open session owns a                *)
(* ShadowContextSource and a TreeData.  A native call holds the GIL and is *)
(* one step; between two calls of one thread the others run.  A session is *)
(* paused between OpenSession and Record, as after a start and deactivate. *)
(* Not here: the Python context source, and exit_scope(name) for the name  *)
(* of another scope (it raises).                                           *)
(*                                                                         *)
(* The context stacks are thread_local maps keyed by the address of the    *)
(* source, and nothing is erased from them.                                *)
(***************************************************************************)
EXTENDS Naturals, Sequences, FiniteSets

CONSTANTS
  Threads,
  Names,       \* scope names
  States,      \* state names
  Forms,       \* how scopes are written, a subset of ScopeForms
  Metered,     \* the forms that pass metrics to the scope they enter
  Paths,       \* output paths
  MaxSessions, \* bound on session ids
  Addresses,   \* where the allocator puts context sources, ordered
  MaxScopes,   \* bound on Scope::scopeIdCounter
  MaxDepth,    \* bound on the blocks a thread is inside
  MaxMidScope, \* bound on the session calls made inside of scopes
  Vendor,      \* the sessions of vendor adapters, whose data keep their scopes
  Absent       \* no such key, None

\* with scope(name), a function decorated with cpu_timed_scope(name), whose
\* calls share one object, enter_scope(name) .. exit_scope().
ScopeForms == {"with", "decorated", "call"}

ASSUME DispatchAssumptions ==
  /\ {MaxSessions, MaxScopes, MaxDepth, MaxMidScope} \subseteq Nat
  /\ Addresses \subseteq Nat
  /\ Forms \subseteq ScopeForms
  /\ Metered \subseteq {"with", "call"}
  /\ Absent \notin Nat \cup Names \cup States \cup Threads \cup Paths

Ids    == 0 .. MaxSessions - 1
Scopes == 0 .. MaxScopes - 1

VARIABLES
  phase, pathOf,  \* the sessions, as SessionLifecycle has them
  source,         \* session -> address of its context source
  main,           \* address -> the thread mainContextStack points into
  initialized,    \* thread -> addresses (threadContextInitialized)
  stack,          \* thread -> address -> names (threadContextStack)
  state,          \* thread -> ContextSource::state
  scopeMap,       \* session -> scope -> path of its node, or Absent
  metrics,        \* session -> the metrics its nodes were given
  nextScope,      \* Scope::scopeIdCounter
  blocks,         \* thread -> the scopes and states it is inside, in Python
  pushed,         \* thread -> thread_local_scopes.scopes
  decoratedId,    \* name -> the id field of the shared scope object
  inherited,      \* history: thread -> address -> names
  freshSource, midScope, raised   \* history

lifecycleVars == <<phase, pathOf>>
contextVars   == <<source, main, initialized, stack, state>>
dataVars      == <<scopeMap, metrics>>
pythonVars    == <<nextScope, blocks, pushed, decoratedId>>
history       == <<inherited, freshSource, midScope, raised>>
vars == <<lifecycleVars, contextVars, dataVars, pythonVars, history>>

Lifecycle == INSTANCE SessionLifecycle WITH NoPath <- Absent

Recording == {i \in Ids : phase[i] = "recording"}
\* The context sources with a count above zero.
Sources == {source[i] : i \in Recording}
\* flags.profiling_on
ProfilingOn == Lifecycle!Open # {}

NoScopes == [s \in Scopes |-> Absent]

Init ==
  /\ Lifecycle!Init
  /\ source = [i \in Ids |-> Absent]
  /\ main = [a \in Addresses |-> Absent]
  /\ initialized = [t \in Threads |-> {}]
  /\ stack = [t \in Threads |-> [a \in Addresses |-> <<>>]]
  /\ state = [t \in Threads |-> Absent]
  /\ scopeMap = [i \in Ids |-> NoScopes]
  /\ metrics = [i \in Ids |-> {}]
  /\ nextScope = 0
  /\ blocks = [t \in Threads |-> <<>>]
  /\ pushed = [t \in Threads |-> <<>>]
  /\ decoratedId = [n \in Names |-> Absent]
  /\ inherited = [t \in Threads |-> [a \in Addresses |-> <<>>]]
  /\ freshSource = {}
  /\ midScope = 0
  /\ raised = FALSE

Last(s)  == s[Len(s)]
Front(s) == SubSeq(s, 1, Len(s) - 1)

\* The names of the scopes among blocks.
ScopeNames(bs) ==
  LET names[k \in 0 .. Len(bs)] ==
        IF k = 0 THEN <<>>
        ELSE IF bs[k].form = "state" THEN names[k - 1]
        ELSE Append(names[k - 1], bs[k].name)
  IN  names[Len(bs)]

-----------------------------------------------------------------------------
(* ShadowContextSource.                                                    *)

\* The stack of thread t after initializeThreadContext.
StackOf(t, a) == IF a \in initialized[t] THEN stack[t][a] ELSE stack[main[a]][a]

\* The scopes the main thread of a is inside of, when thread t first gets to
\* a: history only.  A session that does not record has seen none of them.
Inherit(t, A) ==
  inherited' = [inherited EXCEPT ![t] =
    [a \in Addresses |->
       IF a \notin A \ initialized[t] THEN @[a]
       ELSE IF a \in Sources THEN ScopeNames(blocks[main[a]]) ELSE <<>>]]

\* ContextSource::getContexts, the stack being s.
Contexts(t, s) == IF state[t] = Absent THEN s ELSE Append(s, state[t])

\* The stacks of the active sources after ShadowContextSource::enterScope.
Pushed(t, n) == [a \in Addresses |-> IF a \in Sources THEN Append(StackOf(t, a), n)
                                                      ELSE stack[t][a]]

\* ShadowContextSource::exitScope does not throw.  It compares names.
Balanced(t, a, n) == stack[t][a] # <<>> /\ Last(stack[t][a]) = n

\* The sources SessionManager::exitScope gets to, in address order.
Popped(t, n) == {a \in Sources : \A b \in Sources : b <= a => Balanced(t, b, n)}

-----------------------------------------------------------------------------
(* The native calls.                                                       *)

\* Faulty: the sinks are visited before the context sources.
SnapshotEarly(t, n, i) == Contexts(t, StackOf(t, source[i]))

\* The node TreeData::enterScope puts a scope on: the sources come first.
Snapshot(t, n, i) == Contexts(t, Pushed(t, n)[source[i]])

\* SessionManager::enterScope
NativeEnterScope(t, s, n) ==
  /\ stack' = [stack EXCEPT ![t] = Pushed(t, n)]
  /\ initialized' = [initialized EXCEPT ![t] = @ \cup Sources]
  /\ Inherit(t, Sources)
  /\ scopeMap' = [i \in Ids |-> IF i \in Recording
                    THEN [scopeMap[i] EXCEPT ![s] = Snapshot(t, n, i)]
                    ELSE scopeMap[i]]

\* SessionManager::exitScope
NativeExitScope(t, n) ==
  /\ stack' = [stack EXCEPT ![t] =
       [a \in Addresses |-> IF a \in Popped(t, n) THEN Front(@[a]) ELSE @[a]]]
  /\ raised' = (raised \/ Popped(t, n) # Sources)

\* SessionManager::addMetrics of scope s: a data that does not know the scope
\* ignores them.  "of" is the call they were measured for.
NativeAddMetrics(s, of, shared) ==
  metrics' = [i \in Ids |->
    IF i \in Recording /\ scopeMap[i][s] # Absent
      THEN metrics[i] \cup {[scope |-> s, of |-> of, shared |-> shared]}
      ELSE metrics[i]]

-----------------------------------------------------------------------------
(* Sessions.                                                               *)

Outside == \A t \in Threads : blocks[t] = <<>>
MidScope ==
  /\ midScope' = IF Outside THEN midScope ELSE midScope + 1
  /\ midScope' <= MaxMidScope

sessionOnly == <<initialized, state, pythonVars, inherited, raised>>

InUse == {source[i] : i \in {j \in Ids : phase[j] \in {"paused", "recording", "closing"}}}

\* makeSession, on thread t: the constructor takes the stack it finds.
OpenSession(t, i, path, a) ==
  /\ Lifecycle!OpenSession(i, path)
  /\ a \notin InUse
  /\ source' = [source EXCEPT ![i] = a]
  /\ main' = [main EXCEPT ![a] = t]
  /\ initialized' = [initialized EXCEPT ![t] = @ \cup {a}]
  /\ freshSource' = IF main[a] = Absent THEN freshSource \cup {i} ELSE freshSource
  /\ MidScope
  /\ UNCHANGED <<stack, state, dataVars, pythonVars, inherited, raised>>

Record(S) ==
  /\ Lifecycle!Record(S)
  /\ MidScope
  /\ UNCHANGED <<sessionOnly, source, main, stack, dataVars, freshSource>>

\* Data::clear in Session::deactivate, not under a vendor adapter.
Cleared(S) == [i \in Ids |-> IF i \in S \ Vendor THEN NoScopes ELSE scopeMap[i]]

Pause(S) ==
  /\ Lifecycle!Pause(S)
  /\ MidScope
  /\ scopeMap' = Cleared(S)
  /\ UNCHANGED <<sessionOnly, source, main, stack, metrics, freshSource>>

Close(S) ==
  /\ Lifecycle!Close(S)
  /\ MidScope
  /\ scopeMap' = Cleared(S \cap Recording)
  /\ UNCHANGED <<sessionOnly, source, main, stack, metrics, freshSource>>

\* The session is destroyed: its data with it, the thread-local stacks not.
Release(S) ==
  /\ Lifecycle!Release(S)
  /\ scopeMap' = [i \in Ids |-> IF i \in S THEN NoScopes ELSE scopeMap[i]]
  /\ metrics' = [i \in Ids |-> IF i \in S THEN {} ELSE metrics[i]]
  /\ UNCHANGED <<sessionOnly, source, main, stack, freshSource, midScope>>

-----------------------------------------------------------------------------
(* Scopes in Python.  A block is [form, scope, name, due, shared]: "scope" *)
(* is the id the native side knows it by, None if it was not recording;    *)
(* "due" says that add_metrics follows enter_scope, as a call of its own.  *)

Idle(t) == blocks[t] # <<>> => ~Last(blocks[t]).due
CanEnter(t) == Idle(t) /\ Len(blocks[t]) < MaxDepth

Block(form, s, n, due) ==
  [form |-> form, scope |-> s, name |-> n, due |-> due, shared |-> FALSE]

\* Another call of the decorated function n has overwritten the id.
Share(bs, n) == [k \in DOMAIN bs |-> IF bs[k].form = "decorated" /\ bs[k].name = n
                                       THEN [bs[k] EXCEPT !.shared = TRUE] ELSE bs[k]]
Enclosing(form, n) ==
  IF form = "decorated" THEN [t \in Threads |-> Share(blocks[t], n)] ELSE blocks

\* _enter_scope / enter_scope while profiling is on.
EnterScope(t, form, n) ==
  /\ CanEnter(t) /\ ProfilingOn
  /\ nextScope < MaxScopes
  /\ nextScope' = nextScope + 1
  /\ blocks' = [Enclosing(form, n) EXCEPT
                  ![t] = Append(@, Block(form, nextScope, n, form \in Metered))]
  /\ pushed' = IF form = "call"
                 THEN [pushed EXCEPT ![t] = Append(@, [scope |-> nextScope, name |-> n])]
                 ELSE pushed
  /\ decoratedId' = IF form = "decorated" THEN [decoratedId EXCEPT ![n] = nextScope]
                                           ELSE decoratedId
  /\ NativeEnterScope(t, nextScope, n)
  /\ UNCHANGED <<lifecycleVars, source, main, state, metrics, freshSource, midScope, raised>>

\* ... and while it is off: nothing happens.
EnterUnrecorded(t, form, n) ==
  /\ CanEnter(t) /\ ~ProfilingOn
  /\ blocks' = [blocks EXCEPT ![t] = Append(@, Block(form, Absent, n, FALSE))]
  /\ UNCHANGED <<lifecycleVars, contextVars, dataVars, nextScope, pushed,
                 decoratedId, history>>

\* add_metrics after enter_scope.
AddMetrics(t) ==
  /\ ~Idle(t)
  /\ LET b == Last(blocks[t]) IN
       /\ NativeAddMetrics(b.scope, b.scope, FALSE)
       /\ blocks' = [blocks EXCEPT ![t] = Append(Front(@), [b EXCEPT !.due = FALSE])]
  /\ UNCHANGED <<lifecycleVars, contextVars, scopeMap, nextScope, pushed,
                 decoratedId, history>>

Leave(t) == blocks' = [blocks EXCEPT ![t] = Front(@)]

\* The exit of a scope that did nothing, or while profiling is off.
ExitUnrecorded(t) ==
  /\ blocks[t] # <<>> /\ Idle(t)
  /\ LET b == Last(blocks[t]) IN
       \/ b.form # "state" /\ ~ProfilingOn
       \/ b.form = "with" /\ b.scope = Absent
       \/ b.form = "decorated" /\ decoratedId[b.name] = Absent
  /\ Leave(t)
  /\ UNCHANGED <<lifecycleVars, contextVars, dataVars, nextScope, pushed,
                 decoratedId, history>>

\* scope.__exit__, the decorator's finally: the id is that of the object.
\* A cpu_timed_scope adds the time it measured unless the exit raised.
ExitScope(t) ==
  /\ blocks[t] # <<>> /\ Idle(t) /\ ProfilingOn
  /\ LET b  == Last(blocks[t])
         id == IF b.form = "decorated" THEN decoratedId[b.name] ELSE b.scope
     IN /\ b.form \in {"with", "decorated"} /\ id # Absent
        /\ NativeExitScope(t, b.name)
        /\ IF b.form = "decorated" /\ Popped(t, b.name) = Sources
             THEN NativeAddMetrics(id, b.scope, b.shared)
             ELSE UNCHANGED metrics
  /\ Leave(t)
  /\ UNCHANGED <<lifecycleVars, source, main, initialized, state, scopeMap,
                 nextScope, pushed, decoratedId, inherited,
                 freshSource, midScope>>

\* Faulty: the scopes of a thread as a queue.
OldestPushed(t) == pushed[t][1]

\* What exit_scope pops from thread_local_scopes.
LastPushed(t) == Last(pushed[t])

\* exit_scope(): whatever enter_scope pushed last on this thread, and the
\* metrics of the exit.
ExitCall(t) ==
  /\ blocks[t] # <<>> /\ Idle(t) /\ ProfilingOn
  /\ Last(blocks[t]).form = "call"
  /\ Leave(t)
  /\ IF pushed[t] = <<>>
       THEN raised' = TRUE /\ UNCHANGED <<pushed, stack, metrics>>
       ELSE LET top == LastPushed(t) IN
         /\ pushed' = [pushed EXCEPT ![t] = Front(@)]
         /\ NativeExitScope(t, top.name)
         /\ IF "call" \in Metered /\ Popped(t, top.name) = Sources
              THEN NativeAddMetrics(top.scope, Last(blocks[t]).scope, FALSE)
              ELSE UNCHANGED metrics
  /\ UNCHANGED <<lifecycleVars, source, main, initialized, state, scopeMap,
                 nextScope, decoratedId, inherited, freshSource, midScope>>

-----------------------------------------------------------------------------
(* States, and depth().                                                    *)

\* SessionManager::setState: a thread-local, reached through any session.
SetState(t, v) == state' = IF Recording = {} THEN state ELSE [state EXCEPT ![t] = v]

stateOnly == <<lifecycleVars, source, main, initialized, stack, dataVars,
               nextScope, pushed, decoratedId, history>>

EnterState(t, v) ==
  /\ CanEnter(t)
  /\ IF ProfilingOn THEN SetState(t, v) ELSE UNCHANGED state
  /\ blocks' = [blocks EXCEPT ![t] = Append(@, Block("state", Absent, v, FALSE))]
  /\ UNCHANGED stateOnly

\* What exit_state sets: not the enclosing state, but none.
StateAfter(t) == Absent

ExitState(t) ==
  /\ blocks[t] # <<>> /\ Last(blocks[t]).form = "state"
  /\ IF ProfilingOn THEN SetState(t, StateAfter(t)) ELSE UNCHANGED state
  /\ Leave(t)
  /\ UNCHANGED stateOnly

\* depth(session) initializes the thread's stack as a side effect.
Depth(t, i) ==
  /\ Idle(t)
  /\ i \in Lifecycle!Open /\ source[i] \notin initialized[t]
  /\ initialized' = [initialized EXCEPT ![t] = @ \cup {source[i]}]
  /\ stack' = [stack EXCEPT ![t][source[i]] = StackOf(t, source[i])]
  /\ Inherit(t, {source[i]})
  /\ UNCHANGED <<lifecycleVars, source, main, state, dataVars, pythonVars,
                 freshSource, midScope, raised>>

-----------------------------------------------------------------------------
Session ==
  \/ \E t \in Threads, i \in Ids, path \in Paths, a \in Addresses :
       OpenSession(t, i, path, a)
  \/ \E S \in SUBSET Ids : Record(S) \/ Pause(S) \/ Close(S) \/ Release(S)

Thread(t) ==
  \/ \E form \in Forms, n \in Names :
       EnterScope(t, form, n) \/ EnterUnrecorded(t, form, n)
  \/ AddMetrics(t)
  \/ ExitUnrecorded(t) \/ ExitScope(t) \/ ExitCall(t)
  \/ \E v \in States : EnterState(t, v)
  \/ ExitState(t)
  \/ \E i \in Ids : Depth(t, i)

Next == Session \/ \E t \in Threads : Thread(t)

Spec == Init /\ [][Next]_vars
-----------------------------------------------------------------------------
(* Properties.                                                             *)

Metric == [scope : Scopes, of : Scopes \cup {Absent}, shared : BOOLEAN]

\* The variables keep their types.
TypeOK ==
  /\ source \in [Ids -> Addresses \cup {Absent}]
  /\ main \in [Addresses -> Threads \cup {Absent}]
  /\ initialized \in [Threads -> SUBSET Addresses]
  /\ \A t \in Threads, a \in Addresses : stack[t][a] \in Seq(Names)
  /\ state \in [Threads -> States \cup {Absent}]
  /\ \A i \in Ids, s \in Scopes :
       scopeMap[i][s] = Absent \/ scopeMap[i][s] \in Seq(Names \cup States)
  /\ metrics \in [Ids -> SUBSET Metric]
  /\ nextScope \in 0 .. MaxScopes
  /\ decoratedId \in [Names -> Scopes \cup {Absent}]

\* The call path of a scope is the one its thread is on: what the thread
\* inherited from the main thread when the session first saw it, the scopes
\* it is inside of, and its state - in every session alike, as long as
\* sessions come and go between scopes and no source reuses an address.
PathOf(t, n, i) ==
  LET own == Append(ScopeNames(blocks[t]), n)
      all == IF t = main[source[i]] THEN own ELSE inherited'[t][source[i]] \o own
  IN  IF state[t] = Absent THEN all ELSE Append(all, state[t])
PathGiven ==
  midScope = 0 =>
    \A i \in freshSource, s \in Scopes :
      scopeMap[i][s] = Absent /\ scopeMap'[i][s] # Absent =>
        \E t \in Threads : /\ Len(blocks'[t]) > Len(blocks[t])
                           /\ scopeMap'[i][s] = PathOf(t, Last(blocks'[t]).name, i)
PathsExact == [][PathGiven]_vars

\* Metrics reach the scope they were measured for, unless the scope object is
\* shared by calls that overlap (recursion, threads): those write to the id
\* of the call that entered last.  exit_scope() promises it only while
\* sessions come and go between scopes: it pops what enter_scope pushed, and
\* an enter_scope while profiling is off pushes nothing.
MetricsReachTheirScope ==
  \A i \in Ids : \A m \in metrics[i] : m.of = m.scope \/ m.shared \/ midScope > 0

\* Properly nested scopes can always be left, also those a session was
\* started, paused or finalized inside of.
ScopesExit == ~raised
=============================================================================
