---------------------------- MODULE HookManager ----------------------------
(***************************************************************************)
(* The launch-hook registry of the profiler's Python layer: class          *)
(* HookManager of hooks/hook.py, with the two hooks it manages, the        *)
(* LaunchHook singleton (hooks/launch.py) and the InstrumentationHook      *)
(* instances (hooks/instrumentation.py).                                   *)
(*                                                                         *)
(* The state is one record, and each static method an operator from a      *)
(* state to the set of its results [st, raised]: profile.py calls several  *)
(* of them in one API call, and swallows what some of them raise.          *)
(***************************************************************************)
EXTENDS Naturals, FiniteSets

CONSTANTS
  MaxSessions,   \* bound on the native session ids
  MaxInstances,  \* bound on the InstrumentationHook objects constructed
  Launch,        \* the LaunchHook singleton
  NoHook         \* no instrumentation is installed

ASSUME HookAssumptions ==
  /\ MaxSessions \in Nat /\ MaxInstances \in Nat
  /\ Launch \notin Nat /\ NoHook \notin Nat

Ids       == 0 .. MaxSessions - 1
Instances == 0 .. MaxInstances - 1
Hooks     == {Launch} \cup Instances

(***************************************************************************)
(* keys: the sessions session_hooks has a dict for;  of: the <<session,    *)
(* hook>> keys of those dicts;  on: those of value True.  installed: the   *)
(* instance whose passes, allocator and JITFunction.run wrapper are in     *)
(* place, which is also active_count (0 or 1).  flag: flags.instrumentation_on.*)
(* heads: HookManager's three functions are in the runtime's hook chains.  *)
(* supported: _get_backend_name() knows the target (it never changes).     *)
(***************************************************************************)
HookState ==
  [keys : SUBSET Ids, of : SUBSET (Ids \X Hooks), on : SUBSET (Ids \X Hooks),
   active : SUBSET Hooks, installed : Instances \cup {NoHook},
   flag : BOOLEAN, heads : BOOLEAN, supported : BOOLEAN]

NoHooks(supported) ==
  [keys |-> {}, of |-> {}, on |-> {}, active |-> {}, installed |-> NoHook,
   flag |-> FALSE, heads |-> FALSE, supported |-> supported]

Ok(s)     == [st |-> s, raised |-> FALSE]
Raised(s) == [st |-> s, raised |-> TRUE]

Unused(s, h) == \A i \in s.keys : <<i, h>> \notin s.on

(***************************************************************************)
(* any(hooks[hook] for hooks in session_hooks.values()), for the hooks of  *)
(* H: the dicts are defaultdicts, so the search leaves a False entry in    *)
(* every dict it looks into, all of them when it finds nothing.            *)
(***************************************************************************)
AfterLookup(s, H) ==
  LET missing == (s.keys \X H) \ s.of
      all     == {kh \in missing : Unused(s, kh[2])}
  IN  {[s EXCEPT !.of = @ \cup all \cup seen] : seen \in SUBSET missing}

\* hook.deactivate() and active_hooks.remove, for the hooks of D.  Any
\* instance takes down whatever instrumentation is installed.
Dropped(s, D) ==
  [s EXCEPT !.active    = @ \ D,
            !.installed = IF D \cap Instances # {} THEN NoHook ELSE @,
            !.flag      = @ /\ ~(s.supported /\ s.installed # NoHook
                                   /\ D \cap Instances # {})]

\* Faulty: the hook of a session that is still active is dropped too.
DeactivateShared(s, S) ==
  LET off  == [s EXCEPT !.keys = @ \cup S, !.on = @ \ (S \X Hooks)]
      cand == s.active \cap {h \in Hooks : \E i \in S : <<i, h>> \in s.of}
  IN  {Ok(Dropped(off, cand))}

\* HookManager.deactivate
Deactivate(s, S) ==
  LET off  == [s EXCEPT !.keys = @ \cup S, !.on = @ \ (S \X Hooks)]
      cand == s.active \cap {h \in Hooks : \E i \in S : <<i, h>> \in s.of}
  IN  {Ok(Dropped(t, {h \in cand : Unused(off, h)})) : t \in AfterLookup(off, cand)}

CanInstall(s) == s.installed = NoHook /\ s.supported

\* The <<session, hook>> pairs of D activated in turn.
Activated(s, D) ==
  LET new == {kh[2] : kh \in D} \ s.active
  IN  [s EXCEPT !.on = @ \cup D,
                !.active = @ \cup new,
                !.installed = IF new \cap Instances = {} THEN @
                              ELSE CHOOSE h \in new \cap Instances : TRUE,
                !.flag = @ \/ new \cap Instances # {}]

\* HookManager.activate: an instance that finds another one installed
\* raises, after some of the pairs were activated.
Activate(s, S) ==
  LET t        == [s EXCEPT !.keys = @ \cup S]
      pairs    == {kh \in s.of : kh[1] \in S}
      fresh(D) == ({kh[2] : kh \in D} \cap Instances) \ s.active
      fits(D)  == fresh(D) = {} \/ (Cardinality(fresh(D)) = 1 /\ CanInstall(s))
  IN  IF fits(pairs) THEN {Ok(Activated(t, pairs))}
      ELSE {Raised(Activated(t, D)) :
              D \in {E \in SUBSET pairs :
                       /\ fits(E)
                       /\ \E kh \in pairs \ E : ~fits(E \cup {kh})}}

\* HookManager.register.  On an unsupported target, activate raises after
\* it has counted the instance and set the flag.
Register(s, h, i) ==
  LET t == [s EXCEPT !.keys = @ \cup {i}, !.of = @ \cup {<<i, h>>},
                     !.on = @ \cup {<<i, h>>}]
  IN  IF h \in s.active THEN Ok([t EXCEPT !.heads = TRUE])
      ELSE IF h = Launch
        THEN Ok([t EXCEPT !.active = @ \cup {h}, !.heads = TRUE])
      ELSE IF s.installed # NoHook THEN Raised(t)
      ELSE IF ~s.supported THEN Raised([t EXCEPT !.installed = h, !.flag = TRUE])
      ELSE Ok([t EXCEPT !.active = @ \cup {h}, !.installed = h,
                        !.flag = TRUE, !.heads = TRUE])

\* HookManager.unregister(session): removing a hook that never became active
\* raises, and so does an instance on an unsupported target; it was
\* registered last, so the session's other hooks are done by then.
Unregister(s, i) ==
  IF i \notin s.keys THEN {Ok(s)}
  ELSE LET t    == [s EXCEPT !.keys = @ \ {i}, !.of = @ \ ({i} \X Hooks),
                             !.on = @ \ ({i} \X Hooks)]
           mine == {h \in Hooks : <<i, h>> \in s.on}
           gone == {h \in mine : Unused(t, h)}
       IN  {LET d == Dropped(u, gone) IN
              IF gone \subseteq s.active
                THEN Ok([d EXCEPT !.heads = @ /\ d.active # {}])
                ELSE Raised(d) : u \in AfterLookup(t, mine)}

\* HookManager.unregister()
UnregisterAll(s) ==
  [Dropped(s, s.active) EXCEPT !.keys = {}, !.of = {}, !.on = {}, !.heads = FALSE]
=============================================================================
