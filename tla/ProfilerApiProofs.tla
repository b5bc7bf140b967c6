-------------------------- MODULE ProfilerApiProofs --------------------------
(* Proofs about the profiler API and the instrumentation profiler behind it.   *)
(* ProfilerApi, for any number of sessions, instrumentation objects and        *)
(* threads and any failures: the heart is HooksOK, a hook is active exactly    *)
(* when some session has it switched on.  While a start is rolled back that is *)
(* true of the other sessions only (NearlyOK), and unregistering the one that  *)
(* failed makes it true again.  InstrumentationProfiler, for any kernels and   *)
(* modes: OpsFollow says under which op the rows go, and TraceInv that the ring*)
(* of every warp holds the newest entries of a history in which the log of     *)
(* executions is what the starts and ends pair up to; the parser and the pass  *)
(* that names the scopes are shown to recover it.                              *)
EXTENDS ProfilerApi, InstrumentationProfiler, TLAPS, FiniteSetTheorems, FunctionTheorems,
        NaturalsInduction, WellFoundedInduction

Linked(s) ==
  s \in HookState /\ s.on \subseteq s.of /\ s.of \subseteq s.keys \X Hooks

NearlyOK(s, i) ==
  /\ Linked(s)
  /\ \A h \in s.active : \E j \in s.keys : <<j, h>> \in s.on
  /\ \A j \in s.keys \ {i}, h \in Hooks : <<j, h>> \in s.on => h \in s.active

HooksOK(s) ==
  /\ Linked(s)
  /\ \A h \in Hooks : h \in s.active <=> \E j \in s.keys : <<j, h>> \in s.on

----------------------------------------------------------------------------
(* The operations of the registry.                                             *)

\* What holds of all sessions holds of the others.
LEMMA OKIsNearlyOK == \A s : \A i : HooksOK(s) => NearlyOK(s, i)
  BY DEF HooksOK, NearlyOK, Linked, HookState

\* Looking for a hook only adds entries of value False.
LEMMA LookupKeeps ==
  ASSUME NEW s, Linked(s), NEW H \in SUBSET Hooks, NEW t \in AfterLookup(s, H)
  PROVE  /\ Linked(t) /\ t.keys = s.keys /\ t.on = s.on /\ t.active = s.active
<1> DEFINE missing == (s.keys \X H) \ s.of
           all == {kh \in missing : Unused(s, kh[2])}
<1>1. PICK seen \in SUBSET missing : t = [s EXCEPT !.of = @ \cup all \cup seen]
  BY DEF AfterLookup
<1>2. /\ t.keys = s.keys /\ t.on = s.on /\ t.active = s.active
      /\ t.of = s.of \cup all \cup seen
      /\ t.installed = s.installed /\ t.flag = s.flag /\ t.heads = s.heads
      /\ t.supported = s.supported
  BY <1>1 DEF Linked, HookState
<1>3. t.of \subseteq s.keys \X Hooks
  BY <1>2 DEF Linked
<1>4. t \in HookState
  <2>1. s.keys \X Hooks \subseteq Ids \X Hooks
    BY DEF Linked, HookState
  <2> QED
    BY <1>1, <1>3, <2>1 DEF Linked, HookState
<1> QED
  BY <1>2, <1>3, <1>4 DEF Linked

\* Dropping hooks takes them from the active ones and leaves the dictionaries.
LEMMA DroppingKeeps ==
  ASSUME NEW s, Linked(s), NEW D
  PROVE  LET t == Dropped(s, D) IN
         /\ Linked(t) /\ t.keys = s.keys /\ t.on = s.on /\ t.of = s.of
         /\ t.active = s.active \ D
  BY DEF Dropped, Linked, HookState

\* Activating, whether it raises half-way or not, makes active what it switches on.
LEMMA ActivateOK ==
  ASSUME NEW s, HooksOK(s), NEW S \in SUBSET Ids, NEW r \in Activate(s, S)
  PROVE  HooksOK(r.st)
<1> DEFINE t == [s EXCEPT !.keys = @ \cup S]
           pairs == {kh \in s.of : kh[1] \in S}
<1>1. \E D \in SUBSET pairs : r.st = Activated(t, D)
  <2> DEFINE fresh(D) == ({kh[2] : kh \in D} \cap Instances) \ s.active
             fits(D) == fresh(D) = {} \/ (Cardinality(fresh(D)) = 1 /\ CanInstall(s))
             tried == {E \in SUBSET pairs : fits(E) /\ \E kh \in pairs \ E : ~fits(E \cup {kh})}
  <2>1. r \in IF fits(pairs) THEN {Ok(Activated(t, pairs))}
              ELSE {Raised(Activated(t, D)) : D \in tried}
    BY DEF Activate
  <2>2. tried \subseteq SUBSET pairs
    OBVIOUS
  <2> HIDE DEF fits, tried, t, pairs
  <2>3. CASE fits(pairs)
    BY <2>1, <2>3 DEF Ok
  <2>4. CASE ~fits(pairs)
    BY <2>1, <2>2, <2>4 DEF Raised
  <2> QED
    BY <2>3, <2>4
<1>2. PICK D \in SUBSET pairs : r.st = Activated(t, D)
  BY <1>1
<1> DEFINE new == {kh[2] : kh \in D} \ s.active
<1>3. /\ t \in HookState /\ t.keys = s.keys \cup S /\ t.on = s.on /\ t.of = s.of
      /\ t.active = s.active /\ t.installed = s.installed
  BY DEF HooksOK, Linked, HookState
<1>4. new \subseteq Hooks /\ D \subseteq s.of /\ D \subseteq Ids \X Hooks
  BY DEF HooksOK, Linked, HookState
<1>5. /\ r.st \in HookState /\ r.st.keys = t.keys /\ r.st.on = s.on \cup D
      /\ r.st.of = s.of /\ r.st.active = s.active \cup new
  <2>1. new \cap Instances # {} => (CHOOSE h \in new \cap Instances : TRUE) \in Instances
    OBVIOUS
  <2>2. /\ r.st.keys = t.keys /\ r.st.on = s.on \cup D
        /\ r.st.of = s.of /\ r.st.active = s.active \cup new
    BY <1>2, <1>3 DEF Activated, HookState
  <2>3. r.st \in HookState
    <3> DEFINE inst == IF new \cap Instances = {} THEN s.installed
                       ELSE CHOOSE h \in new \cap Instances : TRUE
           flag == t.flag \/ new \cap Instances # {}
    <3>1. inst \in Instances \cup {NoHook} /\ flag \in BOOLEAN
      BY <2>1 DEF HooksOK, Linked, HookState
    <3>2. r.st = [t EXCEPT !.on = @ \cup D, !.active = @ \cup new, !.installed = inst,
                           !.flag = flag]
      BY <1>2, <1>3 DEF Activated, HookState
    <3>3. t.on \cup D \in SUBSET (Ids \X Hooks) /\ t.active \cup new \in SUBSET Hooks
      BY <1>3, <1>4 DEF HooksOK, Linked, HookState
    <3> HIDE DEF inst, new, t, flag
    <3> QED
      BY <1>3, <3>1, <3>2, <3>3 DEF HookState
  <2> QED
    BY <2>2, <2>3
<1>6. r.st.on \subseteq r.st.of /\ r.st.of \subseteq r.st.keys \X Hooks
  BY <1>3, <1>4, <1>5 DEF HooksOK, Linked
<1>7. ASSUME NEW h \in Hooks
      PROVE  h \in r.st.active <=> \E j \in r.st.keys : <<j, h>> \in r.st.on
  <2>1. CASE h \in s.active
    BY <1>3, <1>5, <2>1 DEF HooksOK
  <2>2. CASE h \in new
    <3>1. PICK kh \in D : h = kh[2]
      BY <2>2
    <3>2. kh = <<kh[1], h>> /\ kh[1] \in r.st.keys
      BY <3>1, <1>3, <1>4, <1>5, <1>6
    <3> QED
      BY <2>2, <3>2, <1>5
  <2>3. CASE h \notin s.active /\ h \notin new
    <3>1. \A j : <<j, h>> \notin D
      BY <2>3
    <3>2. \A j \in r.st.keys : <<j, h>> \notin s.on
      BY <2>3 DEF HooksOK, Linked
    <3> QED
      BY <2>3, <3>1, <3>2, <1>5
  <2> QED
    BY <2>1, <2>2, <2>3
<1> QED
  BY <1>5, <1>6, <1>7 DEF HooksOK, Linked

\* Deactivating drops a hook when, and only when, no session has it on any more.
LEMMA DeactivateOK ==
  ASSUME NEW s, HooksOK(s), NEW S \in SUBSET Ids, NEW r \in Deactivate(s, S)
  PROVE  HooksOK(r.st)
<1> DEFINE off == [s EXCEPT !.keys = @ \cup S, !.on = @ \ (S \X Hooks)]
           cand == s.active \cap {h \in Hooks : \E i \in S : <<i, h>> \in s.of}
<1>1. PICK t \in AfterLookup(off, cand) :
        r.st = Dropped(t, {h \in cand : Unused(off, h)})
  <2>1. r \in {Ok(Dropped(t, {h \in cand : Unused(off, h)})) : t \in AfterLookup(off, cand)}
    BY DEF Deactivate
  <2> HIDE DEF off, cand
  <2> QED
    BY <2>1 DEF Ok
<1>2. /\ off \in HookState /\ off.keys = s.keys \cup S /\ off.on = s.on \ (S \X Hooks)
      /\ off.of = s.of /\ off.active = s.active
  BY DEF HooksOK, Linked, HookState
<1>3. Linked(off)
  BY <1>2 DEF HooksOK, Linked
<1>4. cand \in SUBSET Hooks
  OBVIOUS
<1>5. Linked(t) /\ t.keys = off.keys /\ t.on = off.on /\ t.active = off.active
  BY <1>1, <1>3, <1>4, LookupKeeps
<1>6. /\ Linked(r.st) /\ r.st.keys = off.keys /\ r.st.on = off.on
      /\ r.st.active = s.active \ {h \in cand : Unused(off, h)}
  BY <1>1, <1>2, <1>5, DroppingKeeps
<1>7. ASSUME NEW h \in Hooks
      PROVE  h \in r.st.active <=> \E j \in r.st.keys : <<j, h>> \in r.st.on
  <2>1. ASSUME h \in r.st.active
        PROVE  \E j \in r.st.keys : <<j, h>> \in r.st.on
    <3>1. PICK k \in s.keys : <<k, h>> \in s.on
      BY <1>6, <2>1 DEF HooksOK
    <3>2. CASE k \in S
      <4>1. h \in cand
        BY <1>6, <2>1, <3>1, <3>2 DEF HooksOK, Linked
      <4> QED
        BY <1>6, <2>1, <4>1 DEF Unused
    <3>3. CASE k \notin S
      BY <1>2, <1>6, <3>1, <3>3
    <3> QED
      BY <3>2, <3>3
  <2>2. ASSUME NEW j \in r.st.keys, <<j, h>> \in r.st.on
        PROVE  h \in r.st.active
    <3>1. <<j, h>> \in s.on /\ j \in s.keys
      BY <1>2, <1>6, <2>2 DEF HooksOK, Linked
    <3>2. h \in s.active /\ ~Unused(off, h)
      BY <1>6, <2>2, <3>1 DEF HooksOK, Unused
    <3> QED
      BY <1>6, <3>2
  <2> QED
    BY <2>1, <2>2
<1> QED
  BY <1>6, <1>7 DEF HooksOK

\* Unregistering a session makes the registry whole again, and it raises only for a
\* hook of that session that never became active.
LEMMA UnregisterOK ==
  ASSUME NEW s, NEW i \in Ids, NearlyOK(s, i), NEW u \in Unregister(s, i)
  PROVE  HooksOK(u.st) /\ (HooksOK(s) => ~u.raised)
<1>1. CASE i \notin s.keys
  <2>1. u = Ok(s)
    BY <1>1 DEF Unregister
  <2>2. HooksOK(s)
    BY <1>1 DEF NearlyOK, HooksOK, Linked, HookState
  <2> QED
    BY <2>1, <2>2 DEF Ok
<1>2. CASE i \in s.keys
  <2> DEFINE t == [s EXCEPT !.keys = @ \ {i}, !.of = @ \ ({i} \X Hooks),
                            !.on = @ \ ({i} \X Hooks)]
             mine == {h \in Hooks : <<i, h>> \in s.on}
             gone == {h \in mine : Unused(t, h)}
  <2>1. PICK w \in AfterLookup(t, mine) :
          u = LET d == Dropped(w, gone) IN
              IF gone \subseteq s.active
                THEN Ok([d EXCEPT !.heads = @ /\ d.active # {}])
                ELSE Raised(d)
    BY <1>2 DEF Unregister
  <2>2. /\ t \in HookState /\ t.keys = s.keys \ {i} /\ t.on = s.on \ ({i} \X Hooks)
        /\ t.of = s.of \ ({i} \X Hooks) /\ t.active = s.active
    BY DEF NearlyOK, Linked, HookState
  <2>3. Linked(t)
    BY <2>2 DEF NearlyOK, Linked
  <2>4. mine \in SUBSET Hooks
    OBVIOUS
  <2>5. Linked(w) /\ w.keys = t.keys /\ w.on = t.on /\ w.active = t.active
    <3> HIDE DEF t, mine
    <3> QED
      BY <2>1, <2>3, <2>4, LookupKeeps
  <2> DEFINE d == Dropped(w, gone)
  <2>6. /\ Linked(d) /\ d.keys = t.keys /\ d.on = t.on /\ d.active = s.active \ gone
    BY <2>2, <2>5, DroppingKeeps
  <2>7. /\ Linked(u.st) /\ u.st.keys = t.keys /\ u.st.on = t.on
        /\ u.st.active = s.active \ gone
    <3>1. CASE gone \subseteq s.active
      <4>1. u.st = [d EXCEPT !.heads = @ /\ d.active # {}]
        BY <2>1, <3>1 DEF Ok
      <4>2. (d.heads /\ d.active # {}) \in BOOLEAN
        OBVIOUS
      <4> HIDE DEF d
      <4> QED
        BY <2>6, <4>1, <4>2 DEF Linked, HookState
    <3>2. CASE ~(gone \subseteq s.active)
      BY <2>1, <2>6, <3>2 DEF Raised
    <3> QED
      BY <3>1, <3>2
  <2>8. ASSUME NEW h \in Hooks
        PROVE  h \in u.st.active <=> \E j \in u.st.keys : <<j, h>> \in u.st.on
    <3>1. ASSUME h \in u.st.active
          PROVE  \E j \in u.st.keys : <<j, h>> \in u.st.on
      <4>1. h \in s.active /\ h \notin gone
        BY <2>7, <3>1
      <4>2. PICK k \in s.keys : <<k, h>> \in s.on
        BY <4>1 DEF NearlyOK
      <4>3. CASE h \in mine
        BY <2>7, <4>1, <4>3 DEF Unused
      <4>4. CASE h \notin mine
        BY <2>2, <2>7, <4>2, <4>4
      <4> QED
        BY <4>3, <4>4
    <3>2. ASSUME NEW j \in u.st.keys, <<j, h>> \in u.st.on
          PROVE  h \in u.st.active
      <4>1. j \in s.keys \ {i} /\ <<j, h>> \in s.on
        BY <2>2, <2>7, <3>2
      <4>2. h \in s.active
        BY <4>1 DEF NearlyOK
      <4>3. h \notin gone
        BY <2>7, <3>2 DEF Unused
      <4> QED
        BY <2>7, <4>2, <4>3
    <3> QED
      BY <3>1, <3>2
  <2>9. HooksOK(s) => ~u.raised
    <3> SUFFICES ASSUME HooksOK(s) PROVE ~u.raised
      OBVIOUS
    <3>1. gone \subseteq s.active
      BY <1>2 DEF HooksOK
    <3> QED
      BY <2>1, <3>1 DEF Ok
  <2> QED
    BY <2>7, <2>8, <2>9 DEF HooksOK
<1> QED
  BY <1>1, <1>2

\* Registering a hook for a session makes it active, or raises and leaves the other
\* sessions as they were.
LEMMA RegisterOK ==
  ASSUME NEW s, HooksOK(s), NEW i \in Ids, NEW h \in Hooks
  PROVE  /\ NearlyOK(Register(s, h, i).st, i)
         /\ ~Register(s, h, i).raised => HooksOK(Register(s, h, i).st)
<1> DEFINE r == Register(s, h, i)
           t == [s EXCEPT !.keys = @ \cup {i}, !.of = @ \cup {<<i, h>>},
                          !.on = @ \cup {<<i, h>>}]
<1>1. /\ t \in HookState /\ t.keys = s.keys \cup {i} /\ t.of = s.of \cup {<<i, h>>}
      /\ t.on = s.on \cup {<<i, h>>} /\ t.active = s.active
  <2>1. s \in HookState /\ <<i, h>> \in Ids \X Hooks
    BY DEF HooksOK, Linked
  <2>2. /\ s.keys \cup {i} \in SUBSET Ids /\ s.of \cup {<<i, h>>} \in SUBSET (Ids \X Hooks)
        /\ s.on \cup {<<i, h>>} \in SUBSET (Ids \X Hooks)
    BY <2>1 DEF HookState
  <2> QED
    BY <2>1, <2>2 DEF HookState
<1>2. /\ r.st \in HookState /\ r.st.keys = t.keys /\ r.st.of = t.of /\ r.st.on = t.on
      /\ r.raised => r.st.active = s.active
      /\ ~r.raised => r.st.active = s.active \cup {h}
      /\ r.raised \in BOOLEAN
  <2>0. h # Launch => h \in Instances
    BY DEF Hooks
  <2> HIDE DEF t, r
  <2>1. CASE h \in s.active
    <3>1. r = Ok([t EXCEPT !.heads = TRUE])
      BY <2>1 DEF Register, r, t
    <3> QED
      BY <1>1, <2>1, <3>1 DEF Ok, HookState
  <2>2. CASE h \notin s.active /\ h = Launch
    <3>1. r = Ok([t EXCEPT !.active = @ \cup {h}, !.heads = TRUE])
      BY <2>2 DEF Register, r, t
    <3> QED
      BY <1>1, <2>2, <3>1 DEF Ok, HookState
  <2>3. CASE h \notin s.active /\ h # Launch /\ s.installed # NoHook
    <3>1. r = Raised(t)
      BY <2>3 DEF Register, r, t
    <3> QED
      BY <1>1, <2>3, <3>1 DEF Raised, HookState
  <2>4. CASE h \notin s.active /\ h # Launch /\ s.installed = NoHook /\ ~s.supported
    <3>1. r = Raised([t EXCEPT !.installed = h, !.flag = TRUE])
      BY <2>4 DEF Register, r, t
    <3> QED
      BY <1>1, <2>0, <2>4, <3>1 DEF Raised, HookState
  <2>5. CASE h \notin s.active /\ h # Launch /\ s.installed = NoHook /\ s.supported
    <3>1. r = Ok([t EXCEPT !.active = @ \cup {h}, !.installed = h,
                           !.flag = TRUE, !.heads = TRUE])
      BY <2>5 DEF Register, r, t
    <3> QED
      BY <1>1, <2>0, <2>5, <3>1 DEF Ok, HookState
  <2> QED
    BY <2>1, <2>2, <2>3, <2>4, <2>5
<1> HIDE DEF r, t
<1>3. Linked(r.st)
  BY <1>1, <1>2 DEF HooksOK, Linked
<1>4. \A j, g : <<j, g>> \in r.st.on <=> <<j, g>> \in s.on \/ (j = i /\ g = h)
  BY <1>1, <1>2
<1>5. i \in r.st.keys /\ \A j : j \in r.st.keys <=> j \in s.keys \/ j = i
  BY <1>1, <1>2
<1>6. ~r.raised => HooksOK(r.st)
  <2> SUFFICES ASSUME ~r.raised, NEW g \in Hooks
               PROVE  g \in r.st.active <=> \E j \in r.st.keys : <<j, g>> \in r.st.on
    BY <1>3 DEF HooksOK
  <2>1. g \in r.st.active <=> g \in s.active \/ g = h
    BY <1>2
  <2>2. \A j : <<j, g>> \in s.on => j \in s.keys
    BY DEF HooksOK, Linked
  <2>3. g \in s.active <=> \E j \in s.keys : <<j, g>> \in s.on
    BY DEF HooksOK
  <2> QED
    BY <1>4, <1>5, <2>1, <2>2, <2>3
<1>7. r.raised => NearlyOK(r.st, i)
  <2> SUFFICES ASSUME r.raised PROVE NearlyOK(r.st, i)
    OBVIOUS
  <2>1. s.active \subseteq Hooks /\ r.st.active = s.active
    BY <1>2 DEF HooksOK, Linked, HookState
  <2>2. \A g \in Hooks : g \in s.active <=> \E j \in s.keys : <<j, g>> \in s.on
    BY DEF HooksOK
  <2> QED
    BY <1>3, <1>4, <1>5, <2>1, <2>2 DEF NearlyOK
<1> QED
  BY <1>2, <1>6, <1>7, OKIsNearlyOK DEF r

\* After the last session is gone no hook is active.
LEMMA UnregisterAllOK ==
  ASSUME NEW s, HooksOK(s)
  PROVE  HooksOK(UnregisterAll(s))
<1> DEFINE d == Dropped(s, s.active)
<1>1. Linked(d) /\ d.active = {}
  BY DroppingKeeps DEF HooksOK
<1> HIDE DEF d
<1>2. UnregisterAll(s) = [d EXCEPT !.keys = {}, !.of = {}, !.on = {}, !.heads = FALSE]
  BY DEF UnregisterAll, d
<1> QED
  BY <1>1, <1>2 DEF HooksOK, Linked, HookState

----------------------------------------------------------------------------
(* The calls.                                                                  *)

\* Sessions that exist are tracked, unless a flush threw in a finalize: what keeps
\* activate_all from recording a session Python does not know.
ExistingIsTracked == flushFaults = 0 => Existing \subseteq Tracked

ApiInv == TypeOK /\ HooksOK(hooks) /\ DebuggerFollows /\ ExistingIsTracked

\* Before the first start no hook is active and no session exists.
LEMMA InitInv == Init => ApiInv
<1> SUFFICES ASSUME Init PROVE ApiInv
  OBVIOUS
<1>1. PICK b \in BOOLEAN : hooks = NoHooks(b)
  BY DEF Init
<1>2. HooksOK(hooks)
  BY <1>1 DEF HooksOK, Linked, HookState, NoHooks
<1>3. TypeOK
  <2>1. hooks \in HookState
    BY <1>2 DEF HooksOK, Linked
  <2>2. /\ sessionPath \in [Ids -> Paths \cup {Absent}]
        /\ tracked \in [Ids -> Flags \cup {Absent}]
        /\ inLaunch \in [Threads -> (SUBSET Hooks) \cup {Absent}]
    BY DEF Init
  <2>3. /\ nextSessionId \in 0 .. MaxSessions /\ nextInstance \in 0 .. MaxInstances
        /\ flushFaults \in 0 .. MaxFlushFaults
    BY HookAssumptions, ApiAssumptions DEF Init
  <2> QED
    BY <2>1, <2>2, <2>3 DEF Init, TypeOK
<1> QED
  BY <1>2, <1>3 DEF ApiInv, Init, DebuggerFollows, UsesDebugger, Tracked, Existing, ExistingIsTracked

\* The session that a start is about is one of the ids.
LEMMA TargetIsId ==
  ASSUME TypeOK, NEW r \in Requests[hooks.supported], CanStart(r)
  PROVE  /\ Target(r) \in Ids /\ r.path \in Paths /\ r.path # Absent
         /\ r.triton \in BOOLEAN /\ r.instr \in BOOLEAN /\ r.native \in BOOLEAN
         /\ r.native => nextInstance \in Hooks
<1>1. hooks.supported \in BOOLEAN
  BY DEF TypeOK, HookState
<1>2. r.path \in Paths /\ r.path # Absent
  BY <1>1, AbsentIsNoFlags DEF Paths
<1>3. Target(r) \in Ids
  <2>1. CASE \E i \in Ids : sessionPath[i] = r.path
    BY <2>1 DEF Target
  <2>2. CASE ~\E i \in Ids : sessionPath[i] = r.path
    BY <2>2, HookAssumptions DEF Target, CanStart, TypeOK, Ids
  <2> QED
    BY <2>1, <2>2
<1>4. r.native => nextInstance \in Hooks
  BY HookAssumptions DEF CanStart, TypeOK, Hooks, Instances
<1> QED
  BY <1>1, <1>2, <1>3, <1>4, ApiAssumptions

\* What registering the hooks of a start can leave.
LEMMA RegisteredOK ==
  ASSUME HooksOK(hooks), TypeOK, NEW r \in Requests[hooks.supported], CanStart(r),
         NEW s \in Registered(r, Target(r))
  PROVE  NearlyOK(s.st, Target(r)) /\ (~s.raised => HooksOK(s.st))
<1> DEFINE i == Target(r)
           first == IF r.triton THEN Register(hooks, Launch, i).st ELSE hooks
<1>1. i \in Ids /\ Launch \in Hooks /\ (r.native => nextInstance \in Hooks)
  BY TargetIsId DEF Hooks
<1> HIDE DEF i
<1>2. HooksOK(first)
  <2>1. ~Register(hooks, Launch, i).raised
    BY DEF Register, Ok
  <2> QED
    BY <1>1, <2>1, RegisterOK
<1> HIDE DEF first
<1>3. s \in IF ~r.native THEN {Ok(first)}
            ELSE {Register(first, nextInstance, i)}
                   \cup IF "mode" \in Faults THEN {Raised(first)} ELSE {}
  BY DEF Registered, first, i
<1>4. \/ s = Ok(first) \/ s = Raised(first)
      \/ r.native /\ s = Register(first, nextInstance, i)
  BY <1>3
<1>5. CASE s = Ok(first) \/ s = Raised(first)
  BY <1>2, <1>5, OKIsNearlyOK DEF Ok, Raised, i
<1>6. CASE r.native /\ s = Register(first, nextInstance, i)
  BY <1>1, <1>2, <1>6, RegisterOK DEF i
<1> QED
  BY <1>4, <1>5, <1>6

\* A start that the debugger or the native side refuses changes neither hooks nor sessions.
LEMMA StartRejectedInv ==
  ASSUME ApiInv, NEW r \in Requests[hooks.supported], StartRejected(r)
  PROVE  ApiInv'
<1>1. TypeOK'
  <2>1. nextSessionId' \in 0 .. MaxSessions
    BY HookAssumptions DEF StartRejected, CanStart, ApiInv, TypeOK
  <2> QED
    BY <2>1 DEF StartRejected, ApiInv, TypeOK, Existing, Tracked
<1> QED
  BY <1>1 DEF StartRejected, ApiInv, DebuggerFollows, UsesDebugger, ExistingIsTracked,
              Existing, Tracked

\* A start that returns tracks what it started, also on the path of a running session.
LEMMA StartReturnsInv ==
  ASSUME ApiInv, NEW r \in Requests[hooks.supported], StartReturns(r)
  PROVE  ApiInv'
<1> DEFINE i == Target(r)
<1>0. CanStart(r) /\ TypeOK /\ HooksOK(hooks)
  BY DEF StartReturns, ApiInv
<1>1. /\ i \in Ids /\ r.path \in Paths /\ r.path # Absent
      /\ r.triton \in BOOLEAN /\ r.instr \in BOOLEAN /\ r.native \in BOOLEAN
  BY <1>0, TargetIsId
<1>2. HooksOK(hooks')
  BY <1>0, RegisteredOK DEF StartReturns
<1>3. nextSessionId' \in 0 .. MaxSessions
  BY <1>0, HookAssumptions DEF StartReturns, NativeStart, CanStart, TypeOK
<1>4. nextInstance' \in 0 .. MaxInstances
  BY <1>0, HookAssumptions DEF StartReturns, CanStart, TypeOK
<1>5. /\ sessionPath' = [sessionPath EXCEPT ![i] = r.path]
      /\ recording' = recording \cup {i} /\ profilingOn' = TRUE
      /\ debuggerOn' = (debuggerOn \/ r.instr)
      /\ inLaunch' = inLaunch /\ flushFaults' = flushFaults
      /\ Track(r, i)
  BY DEF StartReturns
<1> HIDE DEF i
<1> DEFINE more == [tracked[i] EXCEPT !.triton = @ \/ r.triton, !.instr = @ \/ r.instr]
           new == [triton |-> r.triton, instr |-> r.instr, native |-> r.native]
           entry == IF i \in Tracked THEN more ELSE new
<1>6. /\ tracked' \in [Ids -> Flags \cup {Absent}]
      /\ Tracked' = Tracked \cup {i}
      /\ \A j \in Ids \ {i} : tracked'[j] = tracked[j]
      /\ tracked'[i].instr <=> (i \in Tracked /\ tracked[i].instr) \/ r.instr
  <2>1. tracked' = [tracked EXCEPT ![i] = entry]
    BY <1>5 DEF Track
  <2>2. i \in Tracked => more \in Flags /\ (more.instr <=> tracked[i].instr \/ r.instr)
    <3> SUFFICES ASSUME i \in Tracked
                 PROVE  more \in Flags /\ (more.instr <=> tracked[i].instr \/ r.instr)
      OBVIOUS
    <3>1. tracked[i] \in Flags
      BY <1>0, <1>1 DEF Tracked, TypeOK
    <3>2. (tracked[i].triton \/ r.triton) \in BOOLEAN /\ (tracked[i].instr \/ r.instr) \in BOOLEAN
      OBVIOUS
    <3> QED
      BY <3>1, <3>2 DEF Flags
  <2>3. new \in Flags /\ new.instr = r.instr
    BY <1>1 DEF Flags
  <2> HIDE DEF more, new
  <2>4. entry \in Flags /\ (entry.instr <=> (i \in Tracked /\ tracked[i].instr) \/ r.instr)
    BY <2>2, <2>3
  <2> HIDE DEF entry
  <2>5. /\ tracked' \in [Ids -> Flags \cup {Absent}] /\ tracked'[i] = entry
        /\ \A j \in Ids \ {i} : tracked'[j] = tracked[j]
    <3>1. tracked \in [Ids -> Flags \cup {Absent}] /\ entry \in Flags
      BY <1>0, <2>4 DEF TypeOK
    <3> QED
      BY <1>1, <2>1, <3>1
  <2>6. Tracked' = Tracked \cup {i}
    BY <1>1, <2>4, <2>5, AbsentIsNoFlags DEF Tracked
  <2> QED
    BY <2>4, <2>5, <2>6
<1>7. Existing' = Existing \cup {i}
  BY <1>0, <1>1, <1>5 DEF Existing, TypeOK
<1>8. TypeOK'
  <2>1. sessionPath' \in [Ids -> Paths \cup {Absent}] /\ recording' \subseteq Existing'
    BY <1>0, <1>1, <1>5, <1>7 DEF TypeOK
  <2>2. debuggerOn' \in BOOLEAN
    BY <1>0, <1>1, <1>5 DEF TypeOK
  <2> QED
    BY <1>0, <1>2, <1>3, <1>4, <1>5, <1>6, <2>1, <2>2 DEF TypeOK, HooksOK, Linked
<1>9. DebuggerFollows'
  BY <1>1, <1>5, <1>6 DEF ApiInv, DebuggerFollows, UsesDebugger, Tracked
<1> QED
  BY <1>2, <1>5, <1>6, <1>7, <1>8, <1>9 DEF ApiInv, ExistingIsTracked

\* A start whose hook raised takes its session and its hooks back.
LEMMA StartRollsBackInv ==
  ASSUME ApiInv, NEW r \in Requests[hooks.supported], StartRollsBack(r)
  PROVE  ApiInv'
<1> DEFINE i == Target(r)
<1>0. CanStart(r) /\ TypeOK /\ HooksOK(hooks)
  BY DEF StartRollsBack, ApiInv
<1>1. i \in Ids /\ r.path \in Paths /\ r.path # Absent /\ r.instr \in BOOLEAN
  BY <1>0, TargetIsId
<1>2. HooksOK(hooks')
  <2>1. PICK s \in Registered(r, i) :
          s.raised /\ hooks' \in {u.st : u \in Unregister(s.st, i)}
    BY DEF StartRollsBack
  <2>2. NearlyOK(s.st, i)
    BY <1>0, RegisteredOK
  <2> HIDE DEF i
  <2>3. PICK u \in Unregister(s.st, i) : hooks' = u.st
    BY <2>1
  <2> QED
    BY <1>1, <2>2, <2>3, UnregisterOK
<1>3. nextSessionId' \in 0 .. MaxSessions
  BY <1>0, HookAssumptions DEF StartRollsBack, NativeStart, CanStart, TypeOK
<1>4. /\ recording' = recording \ {i}
      /\ \/ sessionPath' = [sessionPath EXCEPT ![i] = Absent] /\ flushFaults' = flushFaults
         \/ sessionPath' = [sessionPath EXCEPT ![i] = r.path] /\ FlushThrows
      /\ debuggerOn' = (debuggerOn /\ ~(r.instr /\ ~UsesDebugger(Tracked)))
      /\ profilingOn' = (Tracked # {})
      /\ tracked' = tracked /\ inLaunch' = inLaunch
  BY DEF StartRollsBack, RollBack
<1>5. nextInstance' \in 0 .. MaxInstances
  <2>1. PICK s \in Registered(r, i) : s.raised
    BY DEF StartRollsBack
  <2>2. r.native
    BY <2>1 DEF Registered, Ok
  <2> QED
    BY <1>0, <2>2, HookAssumptions DEF StartRollsBack, CanStart, TypeOK
<1> HIDE DEF i
<1>6. debuggerOn' = debuggerOn
  BY <1>1, <1>4 DEF ApiInv, DebuggerFollows, TypeOK
<1>7. TypeOK'
  <2>1. sessionPath' \in [Ids -> Paths \cup {Absent}]
    BY <1>0, <1>1, <1>4 DEF TypeOK
  <2>2. recording' \subseteq Existing'
    BY <1>0, <1>1, <1>4 DEF TypeOK, Existing
  <2>3. flushFaults' \in 0 .. MaxFlushFaults
    BY <1>0, <1>4, ApiAssumptions DEF TypeOK, FlushThrows
  <2> QED
    BY <1>0, <1>2, <1>3, <1>4, <1>5, <1>6, <2>1, <2>2, <2>3 DEF TypeOK, HooksOK, Linked
<1>8. Tracked' = Tracked
  BY <1>4 DEF Tracked
<1>9. DebuggerFollows'
  BY <1>4, <1>6, <1>8 DEF ApiInv, DebuggerFollows, UsesDebugger
<1>10. ExistingIsTracked'
  <2>1. CASE flushFaults' = flushFaults
    BY <1>0, <1>1, <1>4, <1>8, <2>1 DEF ApiInv, ExistingIsTracked, Existing, TypeOK, FlushThrows
  <2>2. CASE flushFaults' # flushFaults
    BY <1>0, <1>4, <2>2, ApiAssumptions DEF FlushThrows, TypeOK, ExistingIsTracked
  <2> QED
    BY <2>1, <2>2
<1> QED
  BY <1>2, <1>7, <1>9, <1>10 DEF ApiInv

\* activate and activate_all record only sessions that exist.
LEMMA ActivateInv ==
  ASSUME ApiInv, NEW I \in SUBSET Ids, NEW S \in SUBSET Ids, ActivateSessions(I, S)
  PROVE  ApiInv'
<1>1. HooksOK(hooks')
  BY ActivateOK DEF ActivateSessions, ApiInv
<1>2. /\ UNCHANGED <<nextSessionId, sessionPath, flushFaults, tracked, profilingOn,
                     debuggerOn, nextInstance, inLaunch>>
      /\ recording' = recording \/ (S \subseteq Existing /\ recording' = recording \cup S)
  BY DEF ActivateSessions, NativeActivate
<1>3. TypeOK'
  BY <1>1, <1>2 DEF ApiInv, TypeOK, Existing, HooksOK, Linked
<1> QED
  BY <1>1, <1>2, <1>3 DEF ApiInv, DebuggerFollows, UsesDebugger, Tracked,
                          ExistingIsTracked, Existing

\* deactivate and deactivate_all, a flush that throws included.
LEMMA DeactivateInv ==
  ASSUME ApiInv, NEW I \in SUBSET Ids, NEW S \in SUBSET Ids, DeactivateSessions(I, S)
  PROVE  ApiInv'
<1>1. HooksOK(hooks')
  BY DeactivateOK DEF DeactivateSessions, ApiInv
<1>2. /\ UNCHANGED <<nextSessionId, sessionPath, tracked, profilingOn,
                     debuggerOn, nextInstance, inLaunch>>
      /\ recording' \subseteq recording
      /\ flushFaults' = flushFaults \/ FlushThrows
  BY DEF DeactivateSessions
<1>3. flushFaults' \in 0 .. MaxFlushFaults /\ (flushFaults' = 0 => flushFaults = 0)
  BY <1>2, ApiAssumptions DEF ApiInv, TypeOK, FlushThrows
<1>4. TypeOK'
  BY <1>1, <1>2, <1>3 DEF ApiInv, TypeOK, Existing, HooksOK, Linked
<1> QED
  BY <1>1, <1>2, <1>3, <1>4 DEF ApiInv, DebuggerFollows, UsesDebugger, Tracked,
                                ExistingIsTracked, Existing

\* Finalizing native sessions: they are gone, or a flush threw and all still exist.
LEMMA NativeFinalizeKeeps ==
  ASSUME TypeOK, NEW S \in SUBSET Ids, NativeFinalize(S)
  PROVE  /\ sessionPath' \in [Ids -> Paths \cup {Absent}] /\ recording' \subseteq Existing'
         /\ flushFaults' \in 0 .. MaxFlushFaults
         /\ flushFaults' = 0 => flushFaults = 0 /\ Existing' = Existing \ S
<1>1. CASE /\ sessionPath' = [i \in Ids |-> IF i \in S THEN Absent ELSE sessionPath[i]]
           /\ recording' = recording \ S /\ flushFaults' = flushFaults
  BY <1>1 DEF TypeOK, Existing
<1>2. CASE recording' \subseteq recording /\ sessionPath' = sessionPath /\ FlushThrows
  BY <1>2, ApiAssumptions DEF TypeOK, Existing, FlushThrows
<1> QED
  BY <1>1, <1>2 DEF NativeFinalize

\* finalize(session) drops the session from the registry without raising.
LEMMA FinalizeInv ==
  ASSUME ApiInv, NEW i \in Ids, Finalize1(i)
  PROVE  ApiInv'
<1>1. /\ NativeFinalize({i}) /\ DropSession(i)
      /\ UNCHANGED <<nextSessionId, nextInstance, inLaunch>>
      /\ TypeOK /\ HooksOK(hooks)
  BY DEF Finalize1, ApiInv
<1>2. /\ tracked' \in [Ids -> Flags \cup {Absent}] /\ Tracked' = Tracked \ {i}
      /\ \A j \in Tracked' : tracked'[j] = tracked[j]
  BY <1>1 DEF DropSession, Tracked, TypeOK
<1>3. CASE i \notin Tracked
  <2>1. hooks' = hooks /\ debuggerOn' = debuggerOn /\ profilingOn' \in BOOLEAN
    BY <1>1, <1>3 DEF DropSession
  <2>2. TypeOK' /\ ExistingIsTracked'
    BY <1>1, <1>2, <2>1, NativeFinalizeKeeps DEF TypeOK, ApiInv, ExistingIsTracked
  <2> QED
    BY <1>1, <1>2, <1>3, <2>1, <2>2 DEF ApiInv, DebuggerFollows, UsesDebugger
<1>4. CASE i \in Tracked
  <2>1. PICK u \in Unregister(hooks, i) :
          /\ hooks' = u.st
          /\ ~u.raised => /\ debuggerOn' = (debuggerOn /\ (tracked[i].instr
                                              => UsesDebugger(Tracked \ {i})))
                          /\ profilingOn' = (profilingOn /\ Tracked # {i})
    BY <1>1, <1>4 DEF DropSession
  <2>2. HooksOK(hooks') /\ ~u.raised
    BY <1>1, <2>1, OKIsNearlyOK, UnregisterOK
  <2>3. /\ debuggerOn' = (debuggerOn /\ (tracked[i].instr => UsesDebugger(Tracked \ {i})))
        /\ profilingOn' \in BOOLEAN /\ debuggerOn' \in BOOLEAN
    BY <2>1, <2>2
  <2>4. TypeOK' /\ ExistingIsTracked'
    BY <1>1, <1>2, <2>2, <2>3, NativeFinalizeKeeps
       DEF TypeOK, ApiInv, ExistingIsTracked, HooksOK, Linked
  <2>5. DebuggerFollows'
    BY <1>2, <1>4, <2>3 DEF ApiInv, DebuggerFollows, UsesDebugger
  <2> QED
    BY <2>2, <2>4, <2>5 DEF ApiInv
<1> QED
  BY <1>3, <1>4

\* finalize() drops everything, and with it the debugger.
LEMMA FinalizeAllInv ==
  ASSUME ApiInv, FinalizeAll
  PROVE  ApiInv'
<1>1. Existing \in SUBSET Ids /\ TypeOK /\ HooksOK(hooks)
  BY DEF Existing, ApiInv
<1>2. HooksOK(hooks')
  BY <1>1, UnregisterAllOK DEF FinalizeAll
<1>3. Tracked' = {} /\ tracked' \in [Ids -> Flags \cup {Absent}] /\ debuggerOn' = FALSE
  BY DEF FinalizeAll, Tracked, ApiInv, DebuggerFollows
<1>4. NativeFinalize(Existing) /\ profilingOn' = FALSE
      /\ UNCHANGED <<nextSessionId, nextInstance, inLaunch>>
  BY DEF FinalizeAll
<1>5. /\ sessionPath' \in [Ids -> Paths \cup {Absent}] /\ recording' \subseteq Existing'
      /\ flushFaults' \in 0 .. MaxFlushFaults
      /\ flushFaults' = 0 => Existing' = {}
  BY <1>1, <1>4, NativeFinalizeKeeps
<1>6. TypeOK'
  BY <1>1, <1>2, <1>3, <1>4, <1>5 DEF TypeOK, HooksOK, Linked
<1>7. ExistingIsTracked'
  BY <1>5 DEF ExistingIsTracked
<1> QED
  BY <1>6, <1>7, <1>2, <1>3, <1>4 DEF ApiInv, DebuggerFollows, UsesDebugger

\* A launch only looks at the registry.
LEMMA LaunchInv ==
  ASSUME ApiInv, NEW t \in Threads, LaunchEnter(t) \/ LaunchExit(t)
  PROVE  ApiInv'
<1>1. UNCHANGED <<nativeVars, pythonVars>>
  BY DEF LaunchEnter, LaunchExit
<1>2. Reached \in SUBSET Hooks
  BY DEF Reached, ApiInv, TypeOK, HookState
<1>3. inLaunch' \in [Threads -> (SUBSET Hooks) \cup {Absent}]
  BY <1>2 DEF LaunchEnter, LaunchExit, ApiInv, TypeOK
<1> QED
  BY <1>1, <1>3 DEF nativeVars, pythonVars, ApiInv, TypeOK, DebuggerFollows, UsesDebugger,
                    Tracked, ExistingIsTracked, Existing

\* Every step keeps the invariant.
LEMMA NextInv == ApiInv /\ [Next]_vars => ApiInv'
<1> SUFFICES ASSUME ApiInv, [Next]_vars PROVE ApiInv'
  OBVIOUS
<1>1. CASE UNCHANGED vars
  BY <1>1 DEF vars, nativeVars, pythonVars, ApiInv, TypeOK, DebuggerFollows, UsesDebugger,
              Tracked, ExistingIsTracked, Existing
<1>2. ASSUME NEW r \in Requests[hooks.supported], Start(r) PROVE ApiInv'
  BY <1>2, StartRejectedInv, StartReturnsInv, StartRollsBackInv DEF Start
<1>3. ASSUME NEW i \in Ids, Activate1(i) \/ Deactivate1(i) \/ Finalize1(i) PROVE ApiInv'
  BY <1>3, ActivateInv, DeactivateInv, FinalizeInv DEF Activate1, Deactivate1
<1>4. ASSUME ActivateAll \/ DeactivateAll \/ FinalizeAll PROVE ApiInv'
  <2>1. hooks.keys \in SUBSET Ids /\ Existing \in SUBSET Ids
    BY DEF ApiInv, TypeOK, HookState, Existing
  <2> QED
    BY <1>4, <2>1, ActivateInv, DeactivateInv, FinalizeAllInv DEF ActivateAll, DeactivateAll
<1>5. ASSUME NEW t \in Threads, LaunchEnter(t) \/ LaunchExit(t) PROVE ApiInv'
  BY <1>5, LaunchInv
<1> QED
  BY <1>1, <1>2, <1>3, <1>4, <1>5 DEF Next

\* So it always holds.
LEMMA AlwaysApiInv == Spec => []ApiInv
  BY InitInv, NextInv, PTL DEF Spec

----------------------------------------------------------------------------
(* What follows for the user.                                                  *)

\* The launch hook that sessions share is active exactly as long as one of them has it
\* switched on, for any number of sessions, rollbacks and failures.
THEOREM LaunchHookIsShared == Spec => []LaunchHookShared
<1>1. ApiInv => LaunchHookShared
  BY DEF ApiInv, HooksOK, Linked, HookState, LaunchHookShared, Hooks
<1> QED
  BY <1>1, AlwaysApiInv, PTL

\* The debugger is on exactly while a tracked session uses it.
THEOREM DebuggerIsFollowed == Spec => []DebuggerFollows
<1>1. ApiInv => DebuggerFollows
  BY DEF ApiInv
<1> QED
  BY <1>1, AlwaysApiInv, PTL

\* No start, failed or not, leaves a native session recording that Python does not know.
THEOREM RecordingIsKnown == Spec => []RecordingIsTracked
<1>1. ApiInv => RecordingIsTracked
  BY DEF ApiInv, TypeOK, ExistingIsTracked, RecordingIsTracked
<1> QED
  BY <1>1, AlwaysApiInv, PTL

----------------------------------------------------------------------------
(* Rows and the op of an instrumented launch.                                  *)

\* The ops of the launch under way, and what they leave in the thread's map.
OwnScopes == {<<d, launch>> : d \in dataSet}
OwnOps == {<<d, launch, kernel>> : d \in dataSet}

UnderWay == phase \in {"running", "returned"}

\* Between launches the thread's map is empty unless the last exit raised.  During one
\* it holds the launch's own scopes, if the hook had an op to start, or nothing; what
\* an earlier launch left in it counts as stale.
OpsFollow ==
  /\ UnderWay =>
       /\ rows = {} /\ dataSet # {}
       /\ launchHook => opInProgress
       /\ ~stale => \/ dataScopeIdMap = {} /\ ops = {}
                    \/ launchHook /\ dataScopeIdMap = OwnScopes /\ ops = OwnOps
  /\ Idle => (~raised => dataScopeIdMap = {})
  /\ phase = "idle" => rows = {}
  /\ phase \in {"idle", "running", "returned", "imported"}
  /\ crashed => phase = "returned" /\ ~Recorded(kernel)
  /\ EachUnderItsOp

\* A warp or a block of a running kernel leaves the ops alone.
LEMMA RunningKeepsOps ==
  ASSUME OpsFollow, phase = "running", phase' \in {"running", "returned"},
         UNCHANGED <<sessionVars, opVars, launch, kernel, rows, ops, raised, stale, crashed>>
  PROVE  OpsFollow'
  BY DEF OpsFollow, UnderWay, OwnScopes, OwnOps, Idle, EachUnderItsOp, sessionVars, opVars

\* A launch starts with the map as the hook makes it.
LEMMA LaunchKeepsOps ==
  ASSUME OpsFollow, NEW n, EnterLaunch(n)
  PROVE  OpsFollow'
<1>1. /\ phase' \in {"running", "returned"} /\ rows' = {} /\ dataSet' = dataSet /\ dataSet # {}
      /\ launchHook' = launchHook /\ launch' = launch + 1 /\ kernel' = n /\ Idle
      /\ stale' = raised /\ crashed' = crashed /\ ~crashed
  BY DEF EnterLaunch, Idle, sessionVars
<1>2. launchHook' => opInProgress'
  BY <1>1 DEF EnterLaunch
<1>3. ~stale' => \/ dataScopeIdMap' = {} /\ ops' = {}
                 \/ launchHook' /\ dataScopeIdMap' = OwnScopes' /\ ops' = OwnOps'
  <2> SUFFICES ASSUME ~raised
               PROVE  \/ dataScopeIdMap' = {} /\ ops' = {}
                      \/ launchHook' /\ dataScopeIdMap' = OwnScopes' /\ ops' = OwnOps'
    BY <1>1
  <2>1. dataScopeIdMap = {}
    BY <1>1 DEF OpsFollow
  <2>2. CASE StartsOp
    <3>1. dataScopeIdMap' = {<<d, launch + 1>> : d \in dataSet}
      BY <2>1, <2>2 DEF EnterLaunch
    <3>2. ops' = {<<d, launch + 1, n>> : d \in dataSet}
      BY <2>2 DEF EnterLaunch
    <3> QED
      BY <1>1, <2>2, <3>1, <3>2 DEF OwnScopes, OwnOps, StartsOp
  <2>3. CASE ~StartsOp
    BY <2>1, <2>3 DEF EnterLaunch
  <2> QED
    BY <2>2, <2>3
<1>4. EachUnderItsOp'
  BY <1>1 DEF EachUnderItsOp
<1> QED
  BY <1>1, <1>2, <1>3, <1>4 DEF OpsFollow, UnderWay, Idle

\* An exit without a buffer to import ends the op and clears the map with it.
LEMMA UnseenKeepsOps ==
  ASSUME OpsFollow, ExitUnseen
  PROVE  OpsFollow'
<1>1. /\ phase = "returned" /\ phase' = "imported" /\ rows' = rows /\ rows = {}
      /\ buffer = Nothing /\ buffer' = buffer /\ crashed' = crashed /\ ~crashed
      /\ raised' = (stale /\ ~Emptied)
      /\ dataScopeIdMap' = IF Emptied THEN {} ELSE dataScopeIdMap
  BY DEF ExitUnseen, OpsFollow, UnderWay, historyVars
<1>2. ~raised' => dataScopeIdMap' = {}
  BY <1>1 DEF OpsFollow, UnderWay, Emptied
<1>3. EachUnderItsOp'
  BY <1>1 DEF EachUnderItsOp
<1> QED
  BY <1>1, <1>2, <1>3 DEF OpsFollow, UnderWay, Idle

\* What is imported goes under the ops of the map, or under ops of its own.
LEMMA ImportKeepsOps ==
  ASSUME OpsFollow, ExitInstrumentedOp
  PROVE  OpsFollow'
<1>1. /\ phase = "returned" /\ phase' = "imported" /\ dataSet' = dataSet /\ dataSet # {}
      /\ launch' = launch /\ kernel' = kernel /\ stale' = stale /\ ~crashed /\ crashed' = crashed
  BY DEF ExitInstrumentedOp, OpsFollow, UnderWay, sessionVars
<1>2. ~raised' => dataScopeIdMap' = {}
  BY DEF ExitInstrumentedOp, Unset
<1>3. ASSUME ~stale
      PROVE  /\ \A r \in rows' : r.op = launch
             /\ ops' = OwnOps
  <2>1. \/ dataScopeIdMap = {} /\ ops = {}
        \/ dataScopeIdMap = OwnScopes /\ ops = OwnOps
    BY <1>1, <1>3 DEF OpsFollow, UnderWay
  <2>2. OpsNow = OwnScopes
    BY <2>1 DEF OpsNow, OwnScopes
  <2>3. \A d \in dataSet : OpOf(d) = launch
    <3> TAKE d \in dataSet
    <3>1. <<d, launch>> \in OpsNow /\ <<d, launch>>[1] = d
      BY <2>2 DEF OwnScopes
    <3>2. \A p \in OpsNow : p[2] = launch
      BY <2>2 DEF OwnScopes
    <3>3. \E p \in OpsNow : p[1] = d
      BY <3>1
    <3> QED
      BY <3>2, <3>3 DEF OpOf
  <2>4. \A r \in rows' : \E d \in dataSet : r.op = OpOf(d)
    <3> DEFINE traces  == UNION {ParseBlock(buffer.blocks[i], Units) : i \in DOMAIN buffer.blocks}
               throws  == BadOptions \/ \E t \in traces : t.raised
               row(t, e, d) == [data |-> d, op |-> OpOf(d), block |-> t.block, uid |-> t.uid,
                                path |-> ContextOf(K, e[1].scope), duration |-> e[2].cycle - e[1].cycle,
                                from |-> e[1].time, to |-> e[2].time]
    <3>1. rows' = IF throws THEN {}
                  ELSE UNION {{row(t, e, d) : e \in t.events, d \in dataSet} : t \in traces}
      BY SMTT(60) DEF ExitInstrumentedOp
    <3>2. \A t, e, d : row(t, e, d).op = OpOf(d)
      OBVIOUS
    <3> HIDE DEF throws, traces, row
    <3> QED
      BY <3>1, <3>2
  <2>5. ops' = ops \cup (IF dataScopeIdMap = {} THEN OwnOps ELSE {})
    BY DEF ExitInstrumentedOp, OwnOps
  <2>6. OwnScopes # {}
    BY <1>1 DEF OwnScopes
  <2>7. ops' = OwnOps
    BY <2>1, <2>5, <2>6
  <2> QED
    BY <2>3, <2>4, <2>7
<1>4. EachUnderItsOp'
  BY <1>1, <1>3 DEF EachUnderItsOp, OwnOps
<1> QED
  BY <1>1, <1>2, <1>4 DEF OpsFollow, UnderWay, Idle

\* Every step keeps the rows under their ops.
LEMMA OpsFollowStep == OpsFollow /\ [ProfilerNext]_profilerVars => OpsFollow'
<1> SUFFICES ASSUME OpsFollow, [ProfilerNext]_profilerVars PROVE OpsFollow'
  OBVIOUS
<1>1. CASE StartSession \/ StopSession \/ Resume \/ \E m \in RefusedModes : RefusedStart(m)
  <2>1. Idle /\ phase' = "idle" /\ rows' = {} /\ UNCHANGED <<opVars, raised, crashed>>
    BY <1>1 DEF StartSession, StopSession, Resume, RefusedStart, Forget
  <2> QED
    BY <2>1 DEF OpsFollow, UnderWay, Idle, EachUnderItsOp, opVars
<1>2. CASE \E n \in DOMAIN Kernels : EnterLaunch(n)
  BY <1>2, LaunchKeepsOps
<1>3. CASE \E w \in UNION {Warps(Kernels[n]) : n \in DOMAIN Kernels} : Partition(w)
  <2>1. phase = "running" /\ phase' = "running"
    BY <1>3 DEF Partition
  <2> QED
    BY <1>3, <2>1, RunningKeepsOps DEF Partition, historyVars
<1>4. CASE FinalizeBlock
  <2>1. phase = "running" /\ phase' \in {"running", "returned"}
    BY <1>4 DEF FinalizeBlock
  <2> QED
    BY <1>4, <2>1, RunningKeepsOps DEF FinalizeBlock
<1>5. CASE ExitUnseen
  BY <1>5, UnseenKeepsOps
<1>6. CASE ExitDivides
  <2>1. phase = "returned" /\ crashed' /\ ~Recorded(kernel) /\ UNCHANGED <<sessionVars, opVars, phase, launch, kernel, buffer, rows, ops, raised, stale>>
    BY <1>6 DEF ExitDivides, historyVars
  <2> QED
    BY <2>1 DEF OpsFollow, UnderWay, OwnScopes, OwnOps, Idle, EachUnderItsOp, sessionVars, opVars
<1>7. CASE ExitInstrumentedOp
  BY <1>7, ImportKeepsOps
<1>8. CASE UNCHANGED profilerVars
  BY <1>8 DEF OpsFollow, UnderWay, OwnScopes, OwnOps, Idle, EachUnderItsOp, profilerVars,
              sessionVars, opVars, historyVars
<1> QED
  BY <1>1, <1>2, <1>3, <1>4, <1>5, <1>6, <1>7, <1>8 DEF ProfilerNext

\* Whatever sessions, hooks and failed imports came before, the rows of a launch stand
\* under the op of that launch in every data, unless the import before it failed.
THEOREM RowsUnderTheirOp == ProfilerSpec => []EachUnderItsOp
<1>1. ProfilerInit => OpsFollow
  BY DEF ProfilerInit, OpsFollow, UnderWay, Idle, EachUnderItsOp
<1>2. OpsFollow => EachUnderItsOp
  BY DEF OpsFollow
<1> QED
  BY <1>1, <1>2, OpsFollowStep, PTL DEF ProfilerSpec

---------------------------------------------------------------------------------
(* Sequences and sets of numbers.                                              *)

\* A set of numbers that is not empty has a smallest one.
LEMMA SmallestIn ==
  ASSUME NEW S \in SUBSET Nat, S # {}
  PROVE  \E x \in S : \A y \in S : x <= y
<1> DEFINE Less == {p \in Nat \X Nat : p[1] < p[2]}
<1>1. IsWellFoundedOn(Less, Nat)
  BY NatLessThanWellFounded, Zenon DEF OpToRel
<1>2. PICK x \in S : \A y \in S : <<y, x>> \notin Less
  <2> HIDE DEF Less
  <2> QED
    BY <1>1, WFMin
<1>3. ASSUME NEW y \in S
      PROVE  x <= y
  <2>1. <<y, x>> \notin {p \in Nat \X Nat : p[1] < p[2]} /\ x \in Nat /\ y \in Nat
    BY <1>2
  <2>2. ~(y < x)
    BY <2>1
  <2> QED
    BY <2>1, <2>2
<1> QED
  BY <1>3

\* Induction up to n, over a set of numbers.
LEMMA UpTo ==
  ASSUME NEW n \in Nat, NEW P, 0 \in P,
         \A k \in 1 .. n : k - 1 \in P => k \in P
  PROVE  0 .. n \subseteq P
<1> SUFFICES ASSUME (0 .. n) \ P # {} PROVE FALSE
  OBVIOUS
<1> DEFINE Bad == (0 .. n) \ P
<1>1a. Bad \in SUBSET Nat /\ Bad # {}
  OBVIOUS
<1>1. PICK m \in Bad : \A j \in Bad : m <= j
  <2> HIDE DEF Bad
  <2> QED
    BY <1>1a, SmallestIn
<1>2. m \in 1 .. n /\ m - 1 \in 0 .. n /\ m - 1 \notin (0 .. n) \ P
  BY <1>1
<1> QED
  BY <1>1, <1>2

\* A function on 0 .. n is defined by its first value and how the next one follows.
Recurs(g, n, base, Step) ==
  g = [k \in 0 .. n |-> IF k = 0 THEN base ELSE Step[<<g[k - 1], k>>]]
\* There is such a function, and its values are where base and steps are.
LEMMA Recursion ==
  ASSUME NEW n \in Nat, NEW V, NEW base \in V, NEW Step \in [V \X (1 .. n) -> V]
  PROVE  \E g \in [0 .. n -> V] : Recurs(g, n, base, Step)
<1> DEFINE Solves(g, m) ==
      g = [k \in 0 .. m |-> IF k = 0 THEN base ELSE Step[<<g[k - 1], k>>]]
<1> DEFINE P == {m \in 0 .. n : \E g \in [0 .. m -> V] : Solves(g, m)}
<1>1. 0 \in P
  <2> DEFINE g == [k \in 0 .. 0 |-> base]
  <2>1. g \in [0 .. 0 -> V] /\ Solves(g, 0)
    OBVIOUS
  <2>2. \E f \in [0 .. 0 -> V] : Solves(f, 0)
    <3> HIDE DEF g, Solves
    <3> QED
      BY <2>1
  <2> QED
    BY <2>2
<1>2. ASSUME NEW m \in 1 .. n, m - 1 \in P
      PROVE  m \in P
  <2>1. PICK g \in [0 .. m - 1 -> V] : Solves(g, m - 1)
    BY <1>2
  <2> DEFINE h == [k \in 0 .. m |-> IF k = m THEN Step[<<g[m - 1], m>>] ELSE g[k]]
  <2>2. m - 1 \in 0 .. m - 1 /\ g[m - 1] \in V /\ Step[<<g[m - 1], m>>] \in V
    OBVIOUS
  <2>3. h \in [0 .. m -> V]
    BY <2>2
  <2>4. \A k \in 0 .. m : h[k] = IF k = 0 THEN base ELSE Step[<<h[k - 1], k>>]
    <3> TAKE k \in 0 .. m
    <3>1. CASE k = m
      BY SMTT(30), <3>1, <2>2
    <3>2. CASE k # m
      <4>1. k \in 0 .. m - 1 /\ (k # 0 => k - 1 \in 0 .. m - 1)
        BY <3>2
      <4>2. g[k] = IF k = 0 THEN base ELSE Step[<<g[k - 1], k>>]
        BY <4>1, <2>1
      <4>3. h[k] = g[k] /\ (k # 0 => h[k - 1] = g[k - 1])
        BY <4>1, <3>2
      <4> HIDE DEF h
      <4> QED
        BY <4>2, <4>3
    <3> QED
      BY <3>1, <3>2
  <2>5. Solves(h, m)
    <3> HIDE DEF h
    <3> QED
      BY <2>3, <2>4
  <2>6. \E f \in [0 .. m -> V] : Solves(f, m)
    <3> HIDE DEF h, Solves
    <3> QED
      BY <2>3, <2>5
  <2>7. m \in 0 .. n
    OBVIOUS
  <2> HIDE DEF Solves
  <2> QED
    BY <2>6, <2>7
<1>3. n \in P
  <2> HIDE DEF P
  <2>1. \A k \in 1 .. n : k - 1 \in P => k \in P
    BY <1>2
  <2>2. 0 .. n \subseteq P
    BY <1>1, <2>1, UpTo
  <2> QED
    BY <2>2
<1> QED
  BY <1>3 DEF Recurs

-----------------------------------------------------------------------------
(* The parser of a segment, for any entries stored in it.                      *)

\* The first n stored entries leave the scope that entry y starts open: no end of the
\* scope is after y, and an end is after every earlier start.
LeftOpen(s, y, n) ==
  /\ y <= n /\ s[y].start
  /\ \A z \in y+1 .. n : s[z].scope = s[y].scope => s[z].start
  /\ \A x \in 1 .. y-1 : s[x].scope = s[y].scope /\ s[x].start =>
       \E z \in x+1 .. y-1 : s[z].scope = s[y].scope /\ ~s[z].start
\* Entry z ends the scope that entry y has started.
EndOf(s, y, z) == LeftOpen(s, y, z - 1) /\ s[z].scope = s[y].scope /\ ~s[z].start

Pairings(s, n) == {yz \in (1 .. Len(s)) \X (1 .. n) : EndOf(s, yz[1], yz[2])}
RunsBack(s, n) == \E yz \in Pairings(s, n) : s[yz[1]].cycle > s[yz[2]].cycle
OpenAfter(s, n) == {y \in 1 .. Len(s) : LeftOpen(s, y, n)}

\* What the parser has after n entries.
ParsedTo(p, s, n) ==
  /\ p.raised <=> RunsBack(s, n)
  /\ \A a, b \in p.seen : a.scope = b.scope => a = b
  /\ p.active \subseteq p.seen
  /\ ~p.raised =>
       /\ p.active = {s[y] : y \in OpenAfter(s, n)}
       /\ p.events = {<<s[yz[1]], s[yz[2]]>> : yz \in Pairings(s, n)}

StoredEntries == [scope : Nat, start : BOOLEAN, cycle : Nat, time : Nat]
ParserStates ==
  {p \in [seen : SUBSET StoredEntries, active : SUBSET StoredEntries,
          events : SUBSET (StoredEntries \X StoredEntries), raised : BOOLEAN] :
     p.active \subseteq p.seen}

\* At most one entry of a scope is left open.
LEMMA OneLeftOpen ==
  ASSUME NEW s \in Seq(StoredEntries), NEW n \in 0 .. Len(s),
         NEW x \in OpenAfter(s, n), NEW y \in OpenAfter(s, n), s[x].scope = s[y].scope
  PROVE  x = y
<1>1. ASSUME NEW u \in OpenAfter(s, n), NEW v \in OpenAfter(s, n), s[u].scope = s[v].scope, u < v
      PROVE  FALSE
  <2>1. /\ u \in 1 .. Len(s) /\ v \in 1 .. Len(s) /\ u <= n /\ v <= n
        /\ s[u].start /\ u \in 1 .. v-1
        /\ \A z \in u+1 .. n : s[z].scope = s[u].scope => s[z].start
    BY <1>1 DEF OpenAfter, LeftOpen
  <2>2. PICK z \in u+1 .. v-1 : s[z].scope = s[v].scope /\ ~s[z].start
    BY <1>1, <2>1 DEF OpenAfter, LeftOpen
  <2>3. z \in u+1 .. n
    BY <2>1, <2>2
  <2> QED
    BY <1>1, <2>1, <2>2, <2>3
<1>2. x \in Nat /\ y \in Nat
  BY DEF OpenAfter
<1> QED
  BY <1>1, <1>2

\* If a start has no end after it, some entry of its scope is left open.
LEMMA SomeLeftOpen ==
  ASSUME NEW s \in Seq(StoredEntries), NEW n \in 0 .. Len(s), NEW x \in 1 .. n, s[x].start,
         \A z \in x+1 .. n : s[z].scope = s[x].scope => s[z].start
  PROVE  \E y \in OpenAfter(s, n) : s[y].scope = s[x].scope
<1> DEFINE S == {y \in 1 .. n : /\ s[y].start /\ s[y].scope = s[x].scope
                                /\ \A z \in y+1 .. n : s[z].scope = s[x].scope => s[z].start}
<1>1. S \in SUBSET Nat /\ S # {}
  <2>1. x \in S
    OBVIOUS
  <2> QED
    BY <2>1
<1>2. PICK y \in S : \A u \in S : y <= u
  <2> HIDE DEF S
  <2> QED
    BY <1>1, SmallestIn
<1>3. ASSUME NEW u \in 1 .. y-1, s[u].scope = s[y].scope, s[u].start
      PROVE  \E z \in u+1 .. y-1 : s[z].scope = s[y].scope /\ ~s[z].start
  <2>1. u \in 1 .. n /\ u \notin S
    BY <1>2, <1>3
  <2>2. PICK z \in u+1 .. n : s[z].scope = s[x].scope /\ ~s[z].start
    BY <1>2, <1>3, <2>1
  <2>3. ~(z \in y+1 .. n) /\ z # y
    BY <1>2, <2>2
  <2> QED
    BY <1>2, <2>2, <2>3
<1>4. y \in OpenAfter(s, n)
  BY <1>2, <1>3 DEF OpenAfter, LeftOpen
<1> QED
  BY <1>2, <1>4

\* An entry of any kind, in any state of the parser.
LEMMA EntryKeepsType ==
  ASSUME NEW p \in ParserStates, NEW e \in StoredEntries
  PROVE  ParseEntry(p, e) \in ParserStates
<1> DEFINE of == {o \in p.seen : o.scope = e.scope}
           first == CHOOSE o \in of : TRUE
<1>1. /\ p = [seen |-> p.seen, active |-> p.active, events |-> p.events, raised |-> p.raised]
      /\ p.seen \subseteq StoredEntries /\ p.active \subseteq p.seen
      /\ p.events \subseteq StoredEntries \X StoredEntries /\ p.raised \in BOOLEAN
  BY DEF ParserStates
<1>2. CASE p.raised
  BY <1>2 DEF ParseEntry
<1>3. CASE ~p.raised /\ e.start
  <2>1. CASE Pairs(p, e)
    BY <1>3, <2>1 DEF ParseEntry, Pairs
  <2>2. CASE ~Pairs(p, e)
    <3>1. ParseEntry(p, e) = [p EXCEPT !.seen = (@ \ of) \cup {e}, !.active = @ \cup {e}]
      BY <1>3, <2>2 DEF ParseEntry, Pairs
    <3>2. p.active \cup {e} \subseteq (p.seen \ of) \cup {e}
      BY <1>1, <2>2 DEF Pairs
    <3> HIDE DEF of
    <3> QED
      BY <1>1, <3>1, <3>2 DEF ParserStates
  <2> QED
    BY <2>1, <2>2
<1>4. CASE ~p.raised /\ ~e.start
  <2>1. CASE ~Pairs(p, e)
    BY <1>4, <2>1 DEF ParseEntry
  <2>2. CASE Pairs(p, e)
    <3>1. first \in StoredEntries
      BY <1>1, <2>2 DEF Pairs
    <3>2. ParseEntry(p, e) = IF first.cycle > e.cycle THEN [p EXCEPT !.raised = TRUE, !.active = @ \ of]
                             ELSE [p EXCEPT !.active = @ \ of, !.events = @ \cup {<<first, e>>}]
      BY <1>4, <2>2 DEF ParseEntry
    <3> HIDE DEF first, of
    <3>3. <<first, e>> \in StoredEntries \X StoredEntries
      BY <3>1
    <3>4. CASE first.cycle > e.cycle
      <4>1. ParseEntry(p, e) = [seen |-> p.seen, active |-> p.active \ of, events |-> p.events, raised |-> TRUE]
        BY <1>1, <3>2, <3>4
      <4> QED
        BY <1>1, <4>1 DEF ParserStates
    <3>5. CASE ~(first.cycle > e.cycle)
      <4>1. ParseEntry(p, e) = [seen |-> p.seen, active |-> p.active \ of,
                                events |-> p.events \cup {<<first, e>>}, raised |-> p.raised]
        BY <1>1, <3>2, <3>5
      <4> QED
        BY <1>1, <3>3, <4>1 DEF ParserStates
    <3> QED
      BY <3>4, <3>5
  <2> QED
    BY <2>1, <2>2
<1> QED
  BY <1>2, <1>3, <1>4

\* One entry more.
LEMMA NextParsed ==
  ASSUME NEW s \in Seq(StoredEntries), NEW n \in 1 .. Len(s),
         NEW p \in ParserStates, ParsedTo(p, s, n - 1)
  PROVE  ParseEntry(p, s[n]) \in ParserStates /\ ParsedTo(ParseEntry(p, s[n]), s, n)
<1> DEFINE e == s[n]
           q == ParseEntry(p, e)
           of == {o \in p.seen : o.scope = e.scope}
<1>1. /\ n \in Nat /\ n - 1 \in 0 .. Len(s) /\ e \in StoredEntries /\ n \in 1 .. Len(s)
      /\ \A y \in 1 .. Len(s) : s[y] \in StoredEntries
      /\ e.scope \in Nat /\ e.start \in BOOLEAN /\ e.cycle \in Nat
  <2>1. Len(s) \in Nat /\ n \in 1 .. Len(s) /\ \A y \in 1 .. Len(s) : s[y] \in StoredEntries
    OBVIOUS
  <2> QED
    BY SMTT(30), <2>1 DEF StoredEntries
<1>2. /\ p = [seen |-> p.seen, active |-> p.active, events |-> p.events, raised |-> p.raised]
      /\ p.seen \subseteq StoredEntries /\ p.active \subseteq p.seen
      /\ p.events \subseteq StoredEntries \X StoredEntries /\ p.raised \in BOOLEAN
  BY DEF ParserStates
\* What is before entry n is as it was.
<1>3. \A yz \in (1 .. Len(s)) \X (1 .. n) : yz[2] # n =>
        (yz \in Pairings(s, n) <=> yz \in Pairings(s, n - 1))
  BY <1>1 DEF Pairings
<1>4. Pairings(s, n - 1) \subseteq Pairings(s, n)
  BY <1>1 DEF Pairings
<1>5. \A y \in 1 .. Len(s) : y # n =>
        (LeftOpen(s, y, n) <=> LeftOpen(s, y, n - 1) /\ (s[n].scope = s[y].scope => s[n].start))
  <2> TAKE y \in 1 .. Len(s)
  <2> HAVE y # n
  <2>1. (y <= n) <=> (y <= n - 1)
    BY <1>1
  <2>2. y <= n - 1 => (y+1 .. n = (y+1 .. n-1) \cup {n})
    BY <1>1
  <2> QED
    BY <2>1, <2>2 DEF LeftOpen
<1>6. OpenAfter(s, n - 1) \subseteq 1 .. n - 1
  BY <1>1 DEF OpenAfter, LeftOpen
<1>7. CASE p.raised
  <2>1. q = p
    BY <1>7 DEF ParseEntry
  <2>2. RunsBack(s, n)
    BY <1>7, <1>4 DEF ParsedTo, RunsBack
  <2> QED
    BY <1>7, <2>1, <2>2 DEF ParsedTo
<1>8. CASE ~p.raised
  <2>1. /\ ~RunsBack(s, n - 1)
        /\ p.active = {s[y] : y \in OpenAfter(s, n - 1)}
        /\ p.events = {<<s[yz[1]], s[yz[2]]>> : yz \in Pairings(s, n - 1)}
        /\ \A a, b \in p.seen : a.scope = b.scope => a = b
    BY <1>8 DEF ParsedTo
  <2>2. Pairs(p, e) <=> \E y \in OpenAfter(s, n - 1) : s[y].scope = e.scope
    BY <2>1 DEF Pairs
  \* A start only opens its scope; no pair ends at it.
  <2>3. CASE e.start
    <3>1. Pairings(s, n) = Pairings(s, n - 1)
      BY <1>1, <1>3, <1>4, <2>3 DEF Pairings, EndOf
    <3>2. \A y \in 1 .. Len(s) : y # n => (LeftOpen(s, y, n) <=> LeftOpen(s, y, n - 1))
      BY <1>5, <2>3
    <3>3. CASE Pairs(p, e)
      <4>1. q = p
        BY <1>8, <2>3, <3>3 DEF ParseEntry, Pairs
      <4>2. PICK y \in OpenAfter(s, n - 1) : s[y].scope = e.scope
        BY <2>2, <3>3
      <4>3. ~LeftOpen(s, n, n)
        BY <1>1, <1>6, <4>2 DEF OpenAfter, LeftOpen
      <4>4. OpenAfter(s, n) = OpenAfter(s, n - 1)
        BY <1>1, <1>6, <3>2, <4>3 DEF OpenAfter
      <4> QED
        BY <3>1, <4>1, <4>4 DEF ParsedTo, RunsBack
    <3>4. CASE ~Pairs(p, e)
      <4>1. q = [p EXCEPT !.seen = (@ \ of) \cup {e}, !.active = @ \cup {e}]
        BY <1>8, <2>3, <3>4 DEF ParseEntry, Pairs
      <4>2. /\ q.seen = (p.seen \ of) \cup {e} /\ q.active = p.active \cup {e}
            /\ q.events = p.events /\ q.raised = p.raised
            /\ q = [seen |-> q.seen, active |-> q.active, events |-> q.events, raised |-> q.raised]
        BY <1>2, <4>1
      <4>3. \A x \in 1 .. n - 1 : s[x].scope = s[n].scope /\ s[x].start =>
              \E z \in x+1 .. n - 1 : s[z].scope = s[n].scope /\ ~s[z].start
        BY SMTT(30), <1>1, <2>2, <3>4, SomeLeftOpen
      <4>4. LeftOpen(s, n, n)
        BY <1>1, <2>3, <4>3 DEF LeftOpen
      <4>5. OpenAfter(s, n) = OpenAfter(s, n - 1) \cup {n}
        BY <1>1, <1>6, <3>2, <4>4 DEF OpenAfter
      <4>6. q.active \subseteq q.seen
        BY <1>2, <3>4, <4>2 DEF Pairs
      <4>7. q \in ParserStates
        BY <1>1, <1>2, <4>2, <4>6 DEF ParserStates
      <4>8. q.active = {s[y] : y \in OpenAfter(s, n)}
        BY <2>1, <4>2, <4>5
      <4>9. \A a, b \in q.seen : a.scope = b.scope => a = b
        BY <2>1, <4>2
      <4> QED
        BY <2>1, <3>1, <1>8, <4>2, <4>6, <4>7, <4>8, <4>9 DEF ParsedTo, RunsBack
    <3> QED
      BY <3>3, <3>4
  <2>4. CASE ~e.start /\ ~Pairs(p, e)
    <3>1. q = p
      BY <1>8, <2>4 DEF ParseEntry
    <3>2. Pairings(s, n) = Pairings(s, n - 1)
      <4>1. ASSUME NEW y \in 1 .. Len(s), EndOf(s, y, n)
            PROVE  FALSE
        BY <2>2, <2>4, <4>1 DEF EndOf, OpenAfter
      <4> QED
        BY <1>3, <1>4, <4>1 DEF Pairings
    <3>3. ~LeftOpen(s, n, n)
      BY <2>4 DEF LeftOpen
    <3>4. OpenAfter(s, n) = OpenAfter(s, n - 1)
      BY <1>1, <1>5, <1>6, <2>2, <2>4, <3>3 DEF OpenAfter
    <3> QED
      BY <3>1, <3>2, <3>4 DEF ParsedTo, RunsBack
  <2>5. CASE ~e.start /\ Pairs(p, e)
    <3> DEFINE first == CHOOSE o \in of : TRUE
    <3>1. PICK y \in OpenAfter(s, n - 1) : s[y].scope = e.scope
      BY <2>2, <2>5
    <3>2. y \in 1 .. n - 1 /\ y \in 1 .. Len(s) /\ LeftOpen(s, y, n - 1)
      BY <3>1, <1>6 DEF OpenAfter
    <3>3. of = {s[y]}
      BY <1>2, <2>1, <3>1
    <3>4. first = s[y]
      BY <3>3
    <3>5. /\ <<y, n>> \in Pairings(s, n)
          /\ \A yz \in Pairings(s, n) : yz[2] = n => yz[1] = y
      <4>1. <<y, n>> \in Pairings(s, n)
        BY <1>1, <2>5, <3>1, <3>2 DEF Pairings, EndOf
      <4>2. ASSUME NEW yz \in Pairings(s, n), yz[2] = n
            PROVE  yz[1] = y
        <5>1. yz[1] \in OpenAfter(s, n - 1) /\ s[yz[1]].scope = s[y].scope
          BY <1>1, <3>1, <4>2 DEF Pairings, EndOf, OpenAfter
        <5> QED
          BY <1>1, <3>1, <5>1, OneLeftOpen
      <4> QED
        BY <4>1, <4>2
    <3>6. Pairings(s, n) = Pairings(s, n - 1) \cup {<<y, n>>}
      <4>1. \A yz \in Pairings(s, n) : yz = <<yz[1], yz[2]>> /\ yz \in (1 .. Len(s)) \X (1 .. n)
        BY DEF Pairings
      <4> QED
        BY <1>3, <1>4, <3>5, <4>1
    <3>7. RunsBack(s, n) <=> s[y].cycle > e.cycle
      <4>1. ~ \E yz \in Pairings(s, n - 1) : s[yz[1]].cycle > s[yz[2]].cycle
        BY <2>1 DEF RunsBack
      <4>2. CASE s[y].cycle > e.cycle
        <5>1. <<y, n>> \in Pairings(s, n) /\ <<y, n>>[1] = y /\ <<y, n>>[2] = n
          BY <3>5
        <5> QED
          BY <4>2, <5>1 DEF RunsBack
      <4>3. CASE ~(s[y].cycle > e.cycle)
        <5>1. ASSUME NEW yz \in Pairings(s, n), s[yz[1]].cycle > s[yz[2]].cycle
              PROVE  FALSE
          <6>1. yz = <<y, n>>
            BY <3>6, <4>1, <5>1
          <6> QED
            BY <4>3, <5>1, <6>1
        <5> QED
          BY <4>3, <5>1 DEF RunsBack
      <4> QED
        BY <4>2, <4>3
    <3>8. OpenAfter(s, n) = {x \in OpenAfter(s, n - 1) : s[x].scope # e.scope}
      <4>1. ~LeftOpen(s, n, n)
        BY <2>5 DEF LeftOpen
      <4> QED
        BY <1>1, <1>5, <1>6, <2>5, <4>1 DEF OpenAfter
    <3>9. p.active \ of = {s[x] : x \in OpenAfter(s, n)}
      <4>1. p.active \ of = {o \in p.active : o.scope # e.scope}
        BY <1>2
      <4> QED
        BY <2>1, <3>8, <4>1
    <3>10. CASE s[y].cycle > e.cycle
      <4>1. q = [p EXCEPT !.raised = TRUE, !.active = @ \ of]
        BY <1>8, <2>5, <3>4, <3>10 DEF ParseEntry
      <4>2. q = [seen |-> p.seen, active |-> p.active \ of, events |-> p.events, raised |-> TRUE]
        <5> HIDE DEF q, of
        <5> QED
          BY <1>2, <4>1
      <4>3. q \in ParserStates
        <5> HIDE DEF q, of, e
        <5> QED
          BY <1>2, <4>2 DEF ParserStates
      <4> QED
        <5>1. q.raised = TRUE /\ q.seen = p.seen /\ q.active \subseteq p.active
          BY <4>2
        <5>2. RunsBack(s, n)
          BY <3>7, <3>10
        <5>3. q.raised <=> RunsBack(s, n)
          BY <5>1, <5>2, Zenon
        <5>4. q.active \subseteq q.seen /\ \A a, b \in q.seen : a.scope = b.scope => a = b
          BY <1>2, <2>1, <5>1
        <5>5. q.raised
          BY <5>1, Zenon
        <5> HIDE DEF q
        <5>6. ParsedTo(q, s, n)
          BY <5>3, <5>4, <5>5 DEF ParsedTo
        <5> QED
          BY <4>3, <5>6 DEF q
    <3>11. CASE ~(s[y].cycle > e.cycle)
      <4>1. q = [p EXCEPT !.active = @ \ of, !.events = @ \cup {<<s[y], e>>}]
        BY <1>8, <2>5, <3>4, <3>11 DEF ParseEntry
      <4>2. q = [seen |-> p.seen, active |-> p.active \ of, events |-> p.events \cup {<<s[y], e>>},
                 raised |-> FALSE]
        <5> HIDE DEF q, of
        <5> QED
          BY <1>2, <1>8, <4>1
      <4>3. q \in ParserStates
        <5>1. <<s[y], e>> \in StoredEntries \X StoredEntries
          BY <1>1, <3>2
        <5> HIDE DEF q, of, e
        <5> QED
          BY <1>2, <4>2, <5>1 DEF ParserStates
      <4>4. p.events \cup {<<s[y], e>>} = {<<s[yz[1]], s[yz[2]]>> : yz \in Pairings(s, n)}
        <5> DEFINE pair(yz) == <<s[yz[1]], s[yz[2]]>>
        <5>1. pair(<<y, n>>) = <<s[y], e>>
          OBVIOUS
        <5>2. p.events = {pair(yz) : yz \in Pairings(s, n - 1)}
          BY <2>1
        <5> HIDE DEF pair, e
        <5>3. p.events \cup {<<s[y], e>>} = {pair(yz) : yz \in Pairings(s, n)}
          BY <3>6, <5>1, <5>2
        <5> QED
          BY <5>3 DEF pair
      <4>5. /\ q.raised = FALSE /\ q.seen = p.seen /\ q.active = p.active \ of
            /\ q.events = p.events \cup {<<s[y], e>>}
        BY <4>2
      <4>6. ~RunsBack(s, n)
        BY <3>7, <3>11
      <4>7. q.active \subseteq q.seen
        BY <1>2, <4>5
      <4> HIDE DEF q, of, e
      <4> QED
        <5>1. q.raised <=> RunsBack(s, n)
          BY <4>5, <4>6, Zenon
        <5>2. \A a, b \in q.seen : a.scope = b.scope => a = b
          BY <2>1, <4>5
        <5>3. q.active = {s[x] : x \in OpenAfter(s, n)}
          BY <3>9, <4>5
        <5>4. q.events = {<<s[yz[1]], s[yz[2]]>> : yz \in Pairings(s, n)}
          BY <4>4, <4>5, Zenon
        <5>5. ParsedTo(q, s, n)
          BY <4>7, <5>1, <5>2, <5>3, <5>4 DEF ParsedTo
        <5> QED
          BY <4>3, <5>5 DEF q, e
    <3> QED
      BY <3>10, <3>11
  <2> QED
    BY <1>1, <2>3, <2>4, <2>5
<1> QED
  BY <1>7, <1>8

\* The entries that the parser reads, and how many.
Stored(data, at, n) == [y \in 1 .. n |-> data[at + WordsPerEntry * (y - 1)]]
Entries(words, count) == (IF count < words THEN count ELSE words) \div WordsPerEntry

\* What the parser makes of a segment: unless an end comes before its start in time, the
\* events are the starts with their own ends, and nothing else.
THEOREM SegmentParsed ==
  ASSUME NEW data, NEW at \in Nat, NEW words \in Nat, NEW count \in Nat,
         \A y \in 1 .. Entries(words, count) :
           data[at + WordsPerEntry * (y - 1)] \in StoredEntries
  PROVE  LET n == Entries(words, count)
             s == Stored(data, at, n)
             p == ParseSegment(data, at, words, count)
         IN  /\ p.raised <=> RunsBack(s, n)
             /\ ~p.raised => p.events = {<<s[yz[1]], s[yz[2]]>> : yz \in Pairings(s, n)}
<1> DEFINE n == Entries(words, count)
           s == Stored(data, at, n)
           base == [seen |-> {}, active |-> {}, events |-> {}, raised |-> FALSE]
           Step == [pk \in ParserStates \X (1 .. n) |-> ParseEntry(pk[1], s[pk[2]])]
           first(f, k) == IF k = 0 THEN base
                          ELSE ParseEntry(f[k - 1], data[at + WordsPerEntry * (k - 1)])
<1>1. n \in Nat
  BY DEF Entries, WordsPerEntry
<1>2. s \in Seq(StoredEntries) /\ Len(s) = n /\ \A y \in 1 .. n : s[y] = data[at + WordsPerEntry * (y - 1)]
  <2>1. s \in [1 .. n -> StoredEntries]
    BY DEF Stored
  <2>2. \A y \in 1 .. n : s[y] = data[at + WordsPerEntry * (y - 1)]
    BY DEF Stored
  <2> HIDE DEF s, n
  <2>3. s \in Seq(StoredEntries)
    BY <1>1, <2>1
  <2>4. Len(s) = n
    BY <1>1, <2>1, <2>3
  <2> QED
    BY <2>2, <2>3, <2>4
<1>3. base \in ParserStates
  BY DEF ParserStates
<1> HIDE DEF n, s, base
<1>4. ParsedTo(base, s, 0)
  <2>1. Pairings(s, 0) = {} /\ OpenAfter(s, 0) = {}
    BY <1>2 DEF Pairings, OpenAfter, LeftOpen
  <2> QED
    BY <2>1 DEF ParsedTo, RunsBack, base
<1>5. Step \in [ParserStates \X (1 .. n) -> ParserStates]
  <2>1. ASSUME NEW p \in ParserStates, NEW k \in 1 .. n
        PROVE  ParseEntry(p, s[k]) \in ParserStates
    BY <1>2, <2>1, EntryKeepsType
  <2> QED
    BY <2>1
<1>6. PICK g \in [0 .. n -> ParserStates] : Recurs(g, n, base, Step)
  <2> HIDE DEF Step
  <2> QED
    BY <1>1, <1>3, <1>5, Recursion
<1>7. /\ g[0] = base
      /\ \A k \in 1 .. n : g[k] = ParseEntry(g[k - 1], s[k])
  <2>1. \A k \in 0 .. n : g[k] = IF k = 0 THEN base ELSE Step[<<g[k - 1], k>>]
    BY <1>6 DEF Recurs
  <2>2. \A k \in 1 .. n : g[k - 1] \in ParserStates /\ k \in 0 .. n /\ k # 0
    BY <1>1
  <2>3. g[0] = base
    <3>1. 0 \in 0 .. n
      BY <1>1
    <3> HIDE DEF Step
    <3> QED
      BY <2>1, <3>1, Zenon
  <2>4. ASSUME NEW k \in 1 .. n
        PROVE  g[k] = ParseEntry(g[k - 1], s[k])
    <3>1. g[k] = Step[<<g[k - 1], k>>]
      BY <2>1, <2>2
    <3>2. <<g[k - 1], k>> \in ParserStates \X (1 .. n)
      BY <2>2
    <3> QED
      BY <3>1, <3>2
  <2> QED
    BY <2>3, <2>4
<1>8. ParseSegment(data, at, words, count) = g[n]
  <2> DEFINE Solves(f) == f = [k \in 0 .. n |-> first(f, k)]
  <2>1. Solves(g)
    <3>1. \A k \in 0 .. n : g[k] = first(g, k)
      BY <1>1, <1>2, <1>7
    <3>2. g = [k \in 0 .. n |-> g[k]]
      OBVIOUS
    <3> HIDE DEF first
    <3> QED
      BY <3>1, <3>2
  <2> DEFINE f == CHOOSE f : Solves(f)
  <2>2. Solves(f)
    <3> HIDE DEF Solves
    <3> QED
      BY <2>1
  <2>3. ParseSegment(data, at, words, count) = f[n]
    BY DEF ParseSegment, n, base, Entries
  <2>4. f = g
    <3> DEFINE P == {k \in 0 .. n : f[k] = g[k]}
    <3> HIDE DEF f
    <3>1. 0 \in P /\ \A k \in 1 .. n : k - 1 \in P => k \in P
      BY <1>1, <2>1, <2>2
    <3>2. 0 .. n \subseteq P
      <4> HIDE DEF P
      <4> QED
        BY <1>1, <3>1, UpTo
    <3> QED
      BY <2>1, <2>2, <3>2
  <2> HIDE DEF f
  <2> QED
    BY <2>3, <2>4
<1> DEFINE P == {k \in 0 .. n : ParsedTo(g[k], s, k)}
<1>9. 0 \in P /\ \A k \in 1 .. n : k - 1 \in P => k \in P
  <2>1. ASSUME NEW k \in 1 .. n, ParsedTo(g[k - 1], s, k - 1)
        PROVE  ParsedTo(g[k], s, k)
    <3>1. g[k - 1] \in ParserStates /\ k \in 1 .. Len(s)
      BY <1>1, <1>2
    <3> QED
      BY <1>2, <1>7, <2>1, <3>1, NextParsed
  <2> QED
    BY <1>1, <1>4, <1>7, <2>1
<1>10. 0 .. n \subseteq P
  <2> HIDE DEF P
  <2> QED
    BY <1>1, <1>9, UpTo
<1>11. ParsedTo(g[n], s, n)
  BY <1>1, <1>10
<1> QED
  BY <1>8, <1>11 DEF ParsedTo, n, s

-----------------------------------------------------------------------------
(* What a warp has written: a sequence of entries, in which every end has its  *)
(* start, and a start without an end is the last entry of its scope.           *)

Matched(H) == {ij \in (1 .. Len(H)) \X (1 .. Len(H)) : Matches(H, ij[1], ij[2])}
Balanced(H, P) ==
  /\ P \subseteq 1 .. Len(H)
  /\ \A i \in 1 .. Len(H) :
       IF H[i].start
         THEN IF i \in P THEN \A x \in i+1 .. Len(H) : H[x].scope # H[i].scope
              ELSE \E j \in 1 .. Len(H) : Matches(H, i, j)
         ELSE i \notin P /\ \E j \in 1 .. Len(H) : Matches(H, j, i)

\* G is H with one entry more.
Longer(G, H, e) ==
  Len(G) = Len(H) + 1 /\ G[Len(H) + 1] = e /\ \A i \in 1 .. Len(H) : G[i] = H[i]

\* An entry appended to a history.
LEMMA AppendIsLonger ==
  ASSUME NEW S, NEW H \in Seq(S), NEW e \in S
  PROVE  Append(H, e) \in Seq(S) /\ Longer(Append(H, e), H, e)
  BY DEF Longer

\* One entry more does not change which of the others match.
LEMMA AppendMatches ==
  ASSUME NEW S, NEW H \in Seq(S), NEW e \in S, NEW G, Longer(G, H, e), NEW L, L = Len(H)
  PROVE  /\ \A i, j \in 1 .. L : Matches(G, i, j) <=> Matches(H, i, j)
         /\ \A i \in 1 .. L : Matches(G, i, L + 1) <=>
              /\ H[i].start /\ ~e.start /\ e.scope = H[i].scope
              /\ \A x \in i+1 .. L : H[x].scope # H[i].scope
         /\ \A j \in 1 .. L + 1 : ~Matches(G, L + 1, j)
<1>1. L \in Nat /\ Len(G) = L + 1 /\ G[L + 1] = e /\ \A i \in 1 .. L : G[i] = H[i]
  BY DEF Longer
<1>2. ASSUME NEW i \in 1 .. L, NEW j \in 1 .. L
      PROVE  Matches(G, i, j) <=> Matches(H, i, j)
  <2>1. G[i] = H[i] /\ G[j] = H[j] /\ \A x \in i+1 .. j-1 : x \in 1 .. L /\ G[x] = H[x]
    BY <1>1
  <2> QED
    BY <2>1 DEF Matches
<1>3. ASSUME NEW i \in 1 .. L
      PROVE  Matches(G, i, L + 1) <=>
               /\ H[i].start /\ ~e.start /\ e.scope = H[i].scope
               /\ \A x \in i+1 .. L : H[x].scope # H[i].scope
  <2>1. G[i] = H[i] /\ i < L + 1 /\ i+1 .. (L + 1) - 1 = i+1 .. L /\ \A x \in i+1 .. L : G[x] = H[x]
    BY <1>1
  <2> QED
    BY <1>1, <2>1 DEF Matches
<1>4. \A j \in 1 .. L + 1 : ~Matches(G, L + 1, j)
  BY <1>1 DEF Matches
<1> QED
  BY <1>2, <1>3, <1>4

\* The start of a scope that is not open.
LEMMA AppendStart ==
  ASSUME NEW S, NEW H \in Seq(S), NEW e \in S, NEW G, NEW P, Longer(G, H, e), Balanced(H, P),
         e.start, \A p \in P : H[p].scope # e.scope
  PROVE  Balanced(G, P \cup {Len(H) + 1}) /\ Matched(G) = Matched(H)
<1> DEFINE L == Len(H)
           Q == P \cup {L + 1}
<1>1. L \in Nat /\ Len(G) = L + 1 /\ G[L + 1] = e /\ \A i \in 1 .. L : G[i] = H[i]
  BY DEF Longer
<1>2. /\ \A i, j \in 1 .. L : Matches(G, i, j) <=> Matches(H, i, j)
      /\ \A i \in 1 .. L : ~Matches(G, i, L + 1)
      /\ \A j \in 1 .. L + 1 : ~Matches(G, L + 1, j)
  BY AppendMatches
<1> HIDE DEF L
<1>3. P \subseteq 1 .. L /\ L + 1 \notin P
  BY <1>1 DEF Balanced, L
<1>4. ASSUME NEW i \in 1 .. L + 1
      PROVE  IF G[i].start
               THEN IF i \in Q THEN \A x \in i+1 .. L + 1 : G[x].scope # G[i].scope
                    ELSE \E j \in 1 .. L + 1 : Matches(G, i, j)
               ELSE i \notin Q /\ \E j \in 1 .. L + 1 : Matches(G, j, i)
  <2>1. CASE i = L + 1
    BY <1>1, <2>1
  <2>2. CASE i \in 1 .. L
    <3>1. IF H[i].start
            THEN IF i \in P THEN \A x \in i+1 .. L : H[x].scope # H[i].scope
                 ELSE \E j \in 1 .. L : Matches(H, i, j)
            ELSE i \notin P /\ \E j \in 1 .. L : Matches(H, j, i)
      BY <2>2 DEF Balanced, L
    <3>2. G[i] = H[i] /\ (i \in Q <=> i \in P)
      BY <1>1, <2>2
    <3>3. CASE i \in P
      <4>1. H[i].start /\ \A x \in i+1 .. L : H[x].scope # H[i].scope
        BY <3>1, <3>3
      <4>2. \A x \in i+1 .. L + 1 : G[x].scope # G[i].scope
        BY <1>1, <2>2, <3>2, <3>3, <4>1
      <4> QED
        BY <3>2, <3>3, <4>1, <4>2
    <3>4. CASE i \notin P
      BY <1>1, <1>2, <2>2, <3>1, <3>2, <3>4
    <3> QED
      BY <3>3, <3>4
  <2> QED
    BY <1>1, <2>1, <2>2
<1>5. Balanced(G, Q)
  BY <1>1, <1>3, <1>4 DEF Balanced
<1>6. Matched(G) = Matched(H)
  <2>1. \A i, j \in 1 .. L + 1 : Matches(G, i, j) <=> i \in 1 .. L /\ j \in 1 .. L /\ Matches(H, i, j)
    BY <1>1, <1>2
  <2> QED
    BY <1>1, <2>1 DEF Matched, L
<1> QED
  BY <1>5, <1>6 DEF L

\* A scope is open once.
LEMMA OpenOnce ==
  ASSUME NEW S, NEW H \in Seq(S), NEW P, Balanced(H, P)
  PROVE  \A p, q \in P : H[p].scope = H[q].scope => p = q
<1> TAKE p, q \in P
<1> HAVE H[p].scope = H[q].scope
<1>1. P \subseteq 1 .. Len(H)
  BY DEF Balanced
<1>2. \A x \in p+1 .. Len(H) : H[x].scope # H[p].scope
  BY <1>1 DEF Balanced
<1>3. \A x \in q+1 .. Len(H) : H[x].scope # H[q].scope
  BY <1>1 DEF Balanced
<1>4. ~(p \in q+1 .. Len(H)) /\ ~(q \in p+1 .. Len(H))
  BY <1>2, <1>3
<1> QED
  BY <1>1, <1>4

\* The end of an open scope.
LEMMA AppendEnd ==
  ASSUME NEW S, NEW H \in Seq(S), NEW e \in S, NEW G, NEW P, NEW p \in P,
         Longer(G, H, e), Balanced(H, P), ~e.start, H[p].scope = e.scope
  PROVE  /\ Balanced(G, P \ {p})
         /\ \A x : x \in Matched(G) <=> x \in Matched(H) \/ x = <<p, Len(H) + 1>>
<1> DEFINE L == Len(H)
           Q == P \ {p}
<1>1. L \in Nat /\ Len(G) = L + 1 /\ G[L + 1] = e /\ \A i \in 1 .. L : G[i] = H[i]
  BY DEF Longer
<1>2. /\ \A i, j \in 1 .. L : Matches(G, i, j) <=> Matches(H, i, j)
      /\ \A i \in 1 .. L : Matches(G, i, L + 1) <=>
           /\ H[i].start /\ ~e.start /\ e.scope = H[i].scope
           /\ \A x \in i+1 .. L : H[x].scope # H[i].scope
      /\ \A j \in 1 .. L + 1 : ~Matches(G, L + 1, j)
  BY AppendMatches
<1> HIDE DEF L
<1>3. /\ P \subseteq 1 .. L /\ L + 1 \notin P
      /\ \A q \in P : H[q].start /\ \A x \in q+1 .. L : H[x].scope # H[q].scope
  <2>1. P \subseteq 1 .. L
    BY DEF Balanced, L
  <2> QED
    BY <1>1, <2>1 DEF Balanced, L
<1>4. ASSUME NEW i \in 1 .. L, H[i].scope = e.scope, \A x \in i+1 .. L : H[x].scope # H[i].scope
      PROVE  i = p
  <2>1. p \in 1 .. L /\ \A x \in p+1 .. L : H[x].scope # H[p].scope
    BY <1>3
  <2>2. ~(p \in i+1 .. L) /\ ~(i \in p+1 .. L)
    BY <1>4, <2>1
  <2> QED
    BY <1>1, <2>1, <2>2
<1>5. Matches(G, p, L + 1) /\ \A i \in 1 .. L : Matches(G, i, L + 1) => i = p
  BY <1>2, <1>3, <1>4
<1>6. ASSUME NEW i \in 1 .. L + 1
      PROVE  IF G[i].start
               THEN IF i \in Q THEN \A x \in i+1 .. L + 1 : G[x].scope # G[i].scope
                    ELSE \E j \in 1 .. L + 1 : Matches(G, i, j)
               ELSE i \notin Q /\ \E j \in 1 .. L + 1 : Matches(G, j, i)
  <2>1. CASE i = L + 1
    <3>1. ~G[i].start /\ i \notin Q
      BY <1>1, <1>3, <2>1
    <3>2. p \in 1 .. L + 1 /\ Matches(G, p, i)
      BY <1>1, <1>3, <1>5, <2>1
    <3> QED
      BY <3>1, <3>2
  <2>2. CASE i = p
    <3>1. G[i].start /\ i \notin Q
      BY <1>1, <1>3, <2>2
    <3>2. L + 1 \in 1 .. L + 1 /\ Matches(G, i, L + 1)
      BY <1>1, <1>5, <2>2
    <3> QED
      BY <3>1, <3>2
  <2>3. CASE i \in 1 .. L /\ i # p
    <3>1. IF H[i].start
            THEN IF i \in P THEN \A x \in i+1 .. L : H[x].scope # H[i].scope
                 ELSE \E j \in 1 .. L : Matches(H, i, j)
            ELSE i \notin P /\ \E j \in 1 .. L : Matches(H, j, i)
      BY <2>3 DEF Balanced, L
    <3>2. G[i] = H[i] /\ (i \in Q <=> i \in P)
      BY <1>1, <2>3
    <3>3. CASE i \in P
      <4>1. H[i].start /\ \A x \in i+1 .. L : H[x].scope # H[i].scope
        BY <3>1, <3>3
      <4>2. H[i].scope # e.scope
        BY <1>4, <2>3, <4>1
      <4>3. \A x \in i+1 .. L + 1 : G[x].scope # G[i].scope
        BY <1>1, <2>3, <3>2, <4>1, <4>2
      <4> QED
        BY <3>2, <3>3, <4>1, <4>3
    <3>4. CASE i \notin P
      BY <1>1, <1>2, <2>3, <3>1, <3>2, <3>4
    <3> QED
      BY <3>3, <3>4
  <2> QED
    BY <1>1, <2>1, <2>2, <2>3
<1>7. Balanced(G, Q)
  <2>1. Q \subseteq 1 .. L + 1
    BY <1>1, <1>3
  <2> HIDE DEF Q
  <2> QED
    BY <1>1, <1>6, <2>1 DEF Balanced
<1>8. Matched(G) = Matched(H) \cup {<<p, L + 1>>}
  <2>1. \A i, j \in 1 .. L + 1 : Matches(G, i, j) <=>
          (i \in 1 .. L /\ j \in 1 .. L /\ Matches(H, i, j)) \/ (i = p /\ j = L + 1)
    BY <1>1, <1>2, <1>3, <1>5
  <2>2. p \in 1 .. L + 1
    BY <1>1, <1>3
  <2>3. \A ij \in (1 .. L + 1) \X (1 .. L + 1) :
          ij \in Matched(G) <=> ij \in Matched(H) \cup {<<p, L + 1>>}
    <3> TAKE ij \in (1 .. L + 1) \X (1 .. L + 1)
    <3>1. ij = <<ij[1], ij[2]>> /\ ij[1] \in 1 .. L + 1 /\ ij[2] \in 1 .. L + 1
      OBVIOUS
    <3>2. ij \in Matched(G) <=> Matches(G, ij[1], ij[2])
      BY <1>1 DEF Matched
    <3>3. ij \in Matched(H) <=> ij[1] \in 1 .. L /\ ij[2] \in 1 .. L /\ Matches(H, ij[1], ij[2])
      BY <3>1 DEF Matched, L
    <3> QED
      BY <2>1, <3>1, <3>2, <3>3
  <2>4. Matched(G) \subseteq (1 .. L + 1) \X (1 .. L + 1)
    BY <1>1 DEF Matched
  <2>5. Matched(H) \cup {<<p, L + 1>>} \subseteq (1 .. L + 1) \X (1 .. L + 1)
    BY <1>1, <2>2 DEF Matched, L
  <2> QED
    BY <2>3, <2>4, <2>5
<1> QED
  BY <1>7, <1>8 DEF L

-----------------------------------------------------------------------------
(* The ring of a warp: entry n is in the slot its number has modulo the capacity. *)

\* Multiplying by a natural number keeps the order.
LEMMA TimesOrder ==
  ASSUME NEW a \in Nat, NEW b \in Nat, NEW n \in Nat, a <= b
  PROVE  a * n <= b * n
  BY Z3

\* Division with remainder has one answer.
LEMMA DivisionUnique ==
  ASSUME NEW n \in Nat \ {0}, NEW i \in Nat, NEW k \in 0 .. n - 1
  PROVE  (i * n + k) \div n = i /\ (i * n + k) % n = k
<1> DEFINE x == i * n + k
           q == x \div n
           r == x % n
<1>1. x \in Nat
  OBVIOUS
<1>2. q \in Nat /\ r \in 0 .. n - 1 /\ x = q * n + r
  BY <1>1, Z3
<1>3. CASE i < q
  <2>1. i + 1 \in Nat /\ i + 1 <= q /\ (i + 1) * n = i * n + n
    BY <1>2, <1>3, Z3
  <2>2. (i + 1) * n <= q * n
    BY <1>2, <2>1, TimesOrder
  <2> QED
    BY <1>2, <2>1, <2>2
<1>4. CASE q < i
  <2>1. q + 1 \in Nat /\ q + 1 <= i /\ (q + 1) * n = q * n + n
    BY <1>2, <1>4, Z3
  <2>2. (q + 1) * n <= i * n
    BY <1>2, <2>1, TimesOrder
  <2> QED
    BY <1>2, <2>1, <2>2
<1>5. CASE i = q
  BY <1>2, <1>5
<1> QED
  BY <1>2, <1>3, <1>4, <1>5

\* The word an index stands for.
LEMMA SlotOf ==
  ASSUME NEW cap \in Nat \ {0}, NEW n \in Nat
  PROVE  (WordsPerEntry * n) % (WordsPerEntry * cap) = WordsPerEntry * (n % cap)
<1> DEFINE q == n \div cap
           r == n % cap
<1>1. q \in Nat /\ r \in 0 .. cap - 1 /\ n = q * cap + r
  BY Z3
<1> HIDE DEF q, r
<1>2. 2 * n = q * (2 * cap) + 2 * r /\ 2 * r \in 0 .. 2 * cap - 1 /\ 2 * cap \in Nat \ {0}
  <2>1. q * (2 * cap) = 2 * (q * cap)
    BY <1>1, Z3
  <2> QED
    BY <1>1, <2>1
<1>3. (q * (2 * cap) + 2 * r) % (2 * cap) = 2 * r
  BY <1>1, <1>2, DivisionUnique
<1> QED
  BY <1>2, <1>3 DEF WordsPerEntry, r

\* Less than a lap apart, two entries have different slots.
LEMMA OtherSlot ==
  ASSUME NEW cap \in Nat \ {0}, NEW a \in Nat, NEW b \in Nat, a < b, b < a + cap
  PROVE  a % cap # b % cap
<1> DEFINE q == a \div cap
           r == a % cap
           u == b \div cap
<1> SUFFICES ASSUME r = b % cap PROVE FALSE
  OBVIOUS
<1>1. q \in Nat /\ r \in 0 .. cap - 1 /\ a = q * cap + r
  BY Z3
<1>2. u \in Nat /\ b = u * cap + r
  BY Z3
<1> HIDE DEF q, r, u
<1>3. CASE u <= q
  <2>1. u * cap <= q * cap
    BY <1>1, <1>2, <1>3, TimesOrder
  <2> QED
    BY <1>1, <1>2, <2>1
<1>4. CASE q + 1 <= u
  <2>1. (q + 1) * cap <= u * cap
    BY <1>1, <1>2, <1>4, TimesOrder
  <2>2. (q + 1) * cap = q * cap + cap
    BY <1>1, Z3
  <2> QED
    BY <1>1, <1>2, <2>1, <2>2
<1> QED
  BY <1>1, <1>2, <1>3, <1>4

\* The data hold the last entries of a history.
HoldsLast(data, base, cap, H) ==
  \A n \in 1 .. Len(H) : n > Len(H) - cap => data[base + WordsPerEntry * ((n - 1) % cap)] = H[n]

RingSlot(base, cap, n) == base + ((WordsPerEntry * n) % (WordsPerEntry * cap))
RingRange(base, cap) == base .. base + WordsPerEntry * cap - 1
\* Only one place differs.
PutAt(data, next, at, e) ==
  DOMAIN next = DOMAIN data /\ next[at] = e /\ \A x \in DOMAIN data : x # at => next[x] = data[x]

\* Storing one entry more in its slot loses the one a lap before it.
LEMMA HoldsOneMore ==
  ASSUME NEW S, NEW H \in Seq(S), NEW e \in S, NEW G, NEW cap \in Nat \ {0}, NEW base \in Nat,
         NEW data, NEW next,
         Longer(G, H, e), HoldsLast(data, base, cap, H), RingRange(base, cap) \subseteq DOMAIN data,
         PutAt(data, next, RingSlot(base, cap, Len(H)), e)
  PROVE  HoldsLast(next, base, cap, G)
<1> DEFINE L == Len(H)
           words == WordsPerEntry * cap
           at == RingSlot(base, cap, Len(H))
           slot(n) == base + WordsPerEntry * ((n - 1) % cap)
<1>1. L \in Nat /\ Len(G) = L + 1 /\ G[L + 1] = e /\ \A n \in 1 .. L : G[n] = H[n]
  BY DEF Longer
<1>2. (WordsPerEntry * L) % words = WordsPerEntry * (L % cap)
  BY <1>1, SlotOf
<1>3. \A n \in 1 .. L + 1 : (n - 1) % cap \in 0 .. cap - 1
  <2> TAKE n \in 1 .. L + 1
  <2>1. n - 1 \in Nat
    BY <1>1
  <2> HIDE DEF L
  <2> QED
    BY <2>1, Z3
<1>3a. L % cap \in 0 .. cap - 1
  BY <1>1, Z3
<1> HIDE DEF L
<1>4. \A n \in 1 .. L + 1 : slot(n) \in base .. base + words - 1
  <2> TAKE n \in 1 .. L + 1
  <2>1. (n - 1) % cap \in 0 .. cap - 1
    BY <1>1, <1>3
  <2> QED
    BY <2>1 DEF WordsPerEntry
<1>5. at = slot(L + 1)
  <2>1. (L + 1) - 1 = L
    BY <1>1
  <2> QED
    BY <1>2, <2>1 DEF L, RingSlot
<1>6. L + 1 \in 1 .. L + 1
  BY <1>1
<1>7. \A n \in 1 .. L + 1 : slot(n) \in DOMAIN data
  BY <1>4 DEF RingRange
<1>8. next[slot(L + 1)] = e /\ \A x \in DOMAIN data : x # slot(L + 1) => next[x] = data[x]
  BY <1>5 DEF PutAt
<1>9. ASSUME NEW n \in 1 .. L, n > L + 1 - cap
      PROVE  next[slot(n)] = H[n]
  <2>1. data[slot(n)] = H[n]
    <3>1. n \in 1 .. L /\ n > L - cap
      BY <1>1, <1>9
    <3> QED
      BY <3>1 DEF HoldsLast, L
  <2>2. (n - 1) % cap # L % cap
    <3>1. n - 1 \in Nat /\ n - 1 < L /\ L < (n - 1) + cap
      BY <1>1, <1>9
    <3> QED
      BY <1>1, <3>1, OtherSlot
  <2>3. slot(n) # slot(L + 1)
    <3>1. (L + 1) - 1 = L /\ (n - 1) % cap \in 0 .. cap - 1 /\ L % cap \in 0 .. cap - 1
      <4>1. n \in 1 .. L + 1
        BY <1>1
      <4> QED
        BY <1>1, <1>3, <1>3a, <4>1
    <3> QED
      BY <2>2, <3>1 DEF WordsPerEntry
  <2>4. slot(n) \in DOMAIN data
    <3>1. n \in 1 .. L + 1
      BY <1>1
    <3> QED
      BY <1>7, <3>1
  <2> QED
    BY <1>8, <2>1, <2>3, <2>4
<1>10. HoldsLast(next, base, cap, G)
  <2> SUFFICES ASSUME NEW n \in 1 .. L + 1, n > L + 1 - cap
               PROVE  next[slot(n)] = G[n]
    BY <1>1 DEF HoldsLast
  <2>1. CASE n = L + 1
    BY <1>1, <1>8, <2>1
  <2>2. CASE n \in 1 .. L
    BY <1>1, <1>9, <2>2
  <2> QED
    BY <1>1, <2>1, <2>2
<1> QED
  BY <1>10

\* What is outside of a segment may change.
LEMMA HoldsElsewhere ==
  ASSUME NEW S, NEW H \in Seq(S), NEW cap \in Nat \ {0}, NEW base \in Nat,
         NEW data, HoldsLast(data, base, cap, H),
         NEW next, \A x \in base .. base + WordsPerEntry * cap - 1 : next[x] = data[x]
  PROVE  HoldsLast(next, base, cap, H)
<1>1. \A n \in 1 .. Len(H) : (n - 1) % cap \in 0 .. cap - 1
  <2> TAKE n \in 1 .. Len(H)
  <2>1. n - 1 \in Nat
    OBVIOUS
  <2> QED
    BY <2>1, Z3
<1>2. \A n \in 1 .. Len(H) :
        base + WordsPerEntry * ((n - 1) % cap) \in base .. base + WordsPerEntry * cap - 1
  BY SMTT(30), <1>1 DEF WordsPerEntry
<1> QED
  BY <1>2 DEF HoldsLast

-----------------------------------------------------------------------------
(* The segments of a block: one per selected warp, whole entries each, inside the *)
(* buffer and apart from the others; the parser looks where the warps have written. *)

Rank(S, w) == Cardinality({v \in S : v < w})

\* The ranks of a finite set of numbers.
LEMMA RanksAscend ==
  ASSUME NEW S \in SUBSET Nat, IsFiniteSet(S), NEW v \in S
  PROVE  /\ Rank(S, v) \in 0 .. Cardinality(S) - 1
         /\ \A w \in S : v < w => Rank(S, v) < Rank(S, w)
<1> DEFINE below(x) == {y \in S : y < x}
<1>1. \A x \in S : IsFiniteSet(below(x)) /\ Cardinality(below(x)) \in Nat
  <2> TAKE x \in S
  <2>1. below(x) \in SUBSET S
    OBVIOUS
  <2> HIDE DEF below
  <2> QED
    BY <2>1, FS_Subset, FS_CardinalityType
<1>2. Cardinality(S) \in Nat
  BY FS_CardinalityType
<1>3. Cardinality(below(v)) < Cardinality(S)
  <2>1. below(v) \in SUBSET S /\ v \notin below(v)
    OBVIOUS
  <2> HIDE DEF below
  <2>2. Cardinality(below(v)) <= Cardinality(S) /\ (Cardinality(S) = Cardinality(below(v)) => S = below(v))
    BY <2>1, FS_Subset
  <2> QED
    BY <1>1, <1>2, <2>1, <2>2
<1>4. ASSUME NEW w \in S, v < w
      PROVE  Cardinality(below(v)) < Cardinality(below(w))
  <2>1. below(v) \in SUBSET below(w) /\ v \in below(w) /\ v \notin below(v)
    <3>1. \A y \in S : y < v => y < w
      <4> TAKE y \in S
      <4>1. y \in Nat /\ v \in Nat /\ w \in Nat
        OBVIOUS
      <4> QED
        BY <1>4, <4>1
    <3>2. ~(v < v)
      <4>1. v \in Nat
        OBVIOUS
      <4> QED
        BY <4>1
    <3> QED
      BY <1>4, <3>1, <3>2
  <2> HIDE DEF below
  <2>2. /\ Cardinality(below(v)) <= Cardinality(below(w))
        /\ Cardinality(below(w)) = Cardinality(below(v)) => below(w) = below(v)
    BY <1>1, <2>1, FS_Subset
  <2> QED
    BY <1>1, <2>1, <2>2
<1> QED
  BY <1>1, <1>2, <1>3, <1>4 DEF Rank

\* Numbers in ascending order: the one before position i are i - 1.
LEMMA RanksOfSequence ==
  ASSUME NEW u \in Seq(Nat), \A i, j \in 1 .. Len(u) : i < j => u[i] < u[j],
         NEW S, S = {u[i] : i \in 1 .. Len(u)}
  PROVE  /\ S \in SUBSET Nat /\ IsFiniteSet(S) /\ Cardinality(S) = Len(u)
         /\ \A i \in 1 .. Len(u) : Rank(S, u[i]) = i - 1
<1> DEFINE T(n) == {u[j] : j \in 1 .. n}
<1>1. \A i, j \in 1 .. Len(u) : u[i] = u[j] => i = j
  <2> TAKE i, j \in 1 .. Len(u)
  <2>1. i \in Nat /\ j \in Nat /\ u[i] \in Nat /\ u[j] \in Nat
    OBVIOUS
  <2>2. (i < j => u[i] < u[j]) /\ (j < i => u[j] < u[i])
    OBVIOUS
  <2> QED
    BY <2>1, <2>2
<1>2. ASSUME NEW n \in 0 .. Len(u)
      PROVE  IsFiniteSet(T(n)) /\ Cardinality(T(n)) = n
  <2> DEFINE f == [j \in 1 .. n |-> u[j]]
  <2>1. f \in [1 .. n -> T(n)] /\ \A a, b \in 1 .. n : f[a] = f[b] => a = b
    <3>1. 1 .. n \subseteq 1 .. Len(u)
      OBVIOUS
    <3> QED
      BY <1>1, <3>1
  <2>2. \A y \in T(n) : \E j \in 1 .. n : f[j] = y
    OBVIOUS
  <2> HIDE DEF T, f
  <2>3. f \in Bijection(1 .. n, T(n))
    BY <2>1, <2>2, Fun_IsBij
  <2>4. ExistsBijection(1 .. n, T(n))
    BY <2>3, Fun_ExistsBij
  <2>5. IsFiniteSet(1 .. n) /\ Cardinality(1 .. n) = n
    BY FS_Interval
  <2> QED
    BY <2>4, <2>5, FS_Bijection
<1>3. S = T(Len(u)) /\ S \in SUBSET Nat
  OBVIOUS
<1>4. ASSUME NEW i \in 1 .. Len(u)
      PROVE  {v \in S : v < u[i]} = T(i - 1)
  <2>1. \A j \in 1 .. Len(u) : u[j] < u[i] <=> j \in 1 .. i - 1
    <3> TAKE j \in 1 .. Len(u)
    <3>1. u[i] \in Nat /\ u[j] \in Nat /\ (j < i => u[j] < u[i]) /\ (i < j => u[i] < u[j])
      OBVIOUS
    <3> QED
      BY <3>1
  <2> QED
    BY <2>1
<1> HIDE DEF T
<1>5. ASSUME NEW i \in 1 .. Len(u)
      PROVE  Rank(S, u[i]) = i - 1
  <2>1. i - 1 \in 0 .. Len(u)
    OBVIOUS
  <2>2. Rank(S, u[i]) = Cardinality(T(i - 1))
    BY <1>4 DEF Rank
  <2> QED
    BY <1>2, <2>1, <2>2
<1>6. Len(u) \in 0 .. Len(u)
  OBVIOUS
<1>7. IsFiniteSet(S) /\ Cardinality(S) = Len(u)
  BY <1>2, <1>3, <1>6
<1> QED
  BY <1>3, <1>5, <1>7

\* The mode's own units, and one of them that is no warp of the kernel.
BadUnit(k, m) == \E i \in DOMAIN OwnUnits(k, m) : OwnUnits(k, m)[i] >= k.warps
Settings(k, m) ==
  /\ KernelOK(k) /\ ModeOK(m) /\ RingOK(k, m) /\ BufferBytes(k, m) > 0
Slots(k, m) == SegmentWords(k, m) \div WordsPerEntry
BufferWords(k, m) == BufferBytes(k, m) \div Word

\* The ids that the parser goes by are the warps that have segments, in order.
LEMMA UnitsAreSegments ==
  ASSUME NEW k, NEW m, KernelOK(k), ModeOK(m)
  PROVE  /\ Segments(k, m) \in SUBSET Nat /\ IsFiniteSet(Segments(k, m))
         /\ OwnUnits(k, m) \in Seq(Nat) /\ Len(OwnUnits(k, m)) = Cardinality(Segments(k, m))
         /\ Cardinality(Segments(k, m)) \in Nat \ {0}
         /\ Segments(k, m) = {OwnUnits(k, m)[i] : i \in 1 .. Len(OwnUnits(k, m))}
         /\ \A i \in 1 .. Len(OwnUnits(k, m)) : Rank(Segments(k, m), OwnUnits(k, m)[i]) = i - 1
<1> DEFINE u == OwnUnits(k, m)
           S == Segments(k, m)
<1>1. k.warps \in Nat /\ k.warps # 0 /\ m.ids \in Seq(Nat) /\ (m.selective <=> m.ids # <<>>)
      /\ \A i, j \in DOMAIN m.ids : i < j => m.ids[i] < m.ids[j]
  BY DEF KernelOK, ModeOK
<1>2. /\ u \in Seq(Nat) /\ \A i, j \in 1 .. Len(u) : i < j => u[i] < u[j]
      /\ S = {u[i] : i \in 1 .. Len(u)} /\ Len(u) # 0
  <2>1. CASE m.ids # <<>>
    <3>1. u = m.ids /\ S = {m.ids[i] : i \in DOMAIN m.ids} /\ DOMAIN m.ids = 1 .. Len(m.ids)
      BY <1>1, <2>1 DEF OwnUnits, UnitIds, Segments
    <3>2. Len(m.ids) # 0
      BY <1>1, <2>1
    <3> QED
      BY <1>1, <3>1, <3>2
  <2>2. CASE m.ids = <<>>
    <3>1. u = [i \in 1 .. k.warps |-> i - 1] /\ S = 0 .. k.warps - 1
      BY <1>1, <2>2 DEF OwnUnits, UnitIds, Segments, Warps
    <3> HIDE DEF S
    <3>2. \A i \in 1 .. k.warps : u[i] = i - 1 /\ i - 1 \in Nat
      BY <1>1, <3>1
    <3>3. u \in Seq(Nat) /\ Len(u) = k.warps
      <4> HIDE DEF u
      <4>1. u \in [1 .. k.warps -> Nat]
        BY <1>1, <3>1
      <4>2. u \in Seq(Nat)
        BY <1>1, <4>1
      <4> QED
        BY <1>1, <4>1, <4>2
    <3> HIDE DEF u
    <3>4. S = {u[i] : i \in 1 .. k.warps}
      <4>1. \A x \in S : x + 1 \in 1 .. k.warps /\ u[x + 1] = x
        BY <1>1, <3>1, <3>2
      <4>2. \A i \in 1 .. k.warps : u[i] \in S
        BY <1>1, <3>1, <3>2
      <4> QED
        BY <4>1, <4>2
    <3>5. \A i, j \in 1 .. k.warps : i < j => u[i] < u[j]
      BY <1>1, <3>2
    <3> QED
      BY <1>1, <3>3, <3>4, <3>5
  <2> QED
    BY <2>1, <2>2
<1> HIDE DEF u, S
<1>3. /\ S \in SUBSET Nat /\ IsFiniteSet(S) /\ Cardinality(S) = Len(u)
      /\ \A i \in 1 .. Len(u) : Rank(S, u[i]) = i - 1
  BY <1>2, RanksOfSequence
<1>4. Cardinality(S) \in Nat \ {0}
  BY <1>2, <1>3, FS_CardinalityType
<1> QED
  BY <1>2, <1>3, <1>4 DEF u, S

\* Segments are inside the buffer and apart.
LEMMA SegmentsFit ==
  ASSUME NEW k, NEW m, Settings(k, m)
  PROVE  /\ Slots(k, m) \in Nat \ {0} /\ SegmentWords(k, m) = WordsPerEntry * Slots(k, m)
         /\ SegmentWords(k, m) = (BufferBytes(k, m) \div Len(OwnUnits(k, m))) \div Word
         /\ \A w \in Segments(k, m) :
              /\ SegmentBase(k, m, w) = SegmentWords(k, m) * Rank(Segments(k, m), w)
              /\ SegmentBase(k, m, w) \in Nat /\ SegmentBase(k, m, w) # Nothing
              /\ SegmentBase(k, m, w) .. SegmentBase(k, m, w) + SegmentWords(k, m) - 1
                   \subseteq 0 .. BufferWords(k, m) - 1
         /\ \A v, w \in Segments(k, m) : v # w =>
              (SegmentBase(k, m, v) .. SegmentBase(k, m, v) + SegmentWords(k, m) - 1)
              \cap (SegmentBase(k, m, w) .. SegmentBase(k, m, w) + SegmentWords(k, m) - 1) = {}
<1> DEFINE S == Segments(k, m)
           c == Cardinality(S)
           B == BufferBytes(k, m)
           words == SegmentWords(k, m)
           base(w) == SegmentBase(k, m, w)
<1>1. /\ S \in SUBSET Nat /\ IsFiniteSet(S) /\ c \in Nat \ {0} /\ Len(OwnUnits(k, m)) = c
  BY UnitsAreSegments DEF Settings
<1>2. B \in Nat /\ words > 0 /\ words % WordsPerEntry = 0 /\ words = (B \div c) \div Word
  <2> DEFINE bytes == B \div c
  <2>1. B \in Nat /\ bytes > 0 /\ bytes % EntryBytes = 0 /\ words = bytes \div Word
    BY DEF Settings, RingOK, SegmentWords
  <2>2. c \in Nat \ {0} /\ EntryBytes = 8
    BY <1>1 DEF EntryBytes, Word, WordsPerEntry
  <2>3. bytes \in Nat
    <3> HIDE DEF B, c
    <3> QED
      BY <2>1, <2>2, Z3
  <2> HIDE DEF bytes, words, B
  <2>4. words > 0 /\ words % 2 = 0
    <3>1. bytes % 8 = 0 /\ words = bytes \div 4
      BY <2>1, <2>2 DEF Word
    <3> QED
      BY <2>1, <2>3, <3>1
  <2> QED
    BY <2>1, <2>4 DEF bytes, WordsPerEntry
<1> HIDE DEF c, B
<1>3. B \div c \in Nat /\ (B \div c) * c <= B
  BY <1>1, <1>2, Z3
<1>4. words \in Nat \ {0} /\ words * Word <= B \div c
  <2>1. (B \div c) \div 4 \in Nat /\ ((B \div c) \div 4) * 4 <= B \div c
    BY <1>3
  <2> HIDE DEF words
  <2> QED
    BY <1>2, <2>1 DEF Word
<1> HIDE DEF words
<1>5. Slots(k, m) \in Nat \ {0} /\ words = WordsPerEntry * Slots(k, m)
  BY <1>2, <1>4 DEF Slots, WordsPerEntry, words
<1>6. words * c <= BufferWords(k, m) /\ BufferWords(k, m) \in Nat
  <2>1. (words * 4) * c <= (B \div c) * c
    <3>1. words * 4 \in Nat /\ words * 4 <= B \div c
      BY <1>4 DEF Word
    <3> QED
      BY <1>1, <1>3, <3>1, TimesOrder
  <2>2. words * c \in Nat /\ (words * 4) * c = (words * c) * 4 /\ (B \div c) * c \in Nat
    BY <1>1, <1>3, <1>4, Z3
  <2>3. (words * c) * 4 <= B
    BY <1>2, <1>3, <2>1, <2>2
  <2>4. BufferWords(k, m) = B \div 4
    BY DEF BufferWords, Word, B
  <2> QED
    BY <1>2, <2>2, <2>3, <2>4
<1>7. ASSUME NEW w \in S
      PROVE  /\ base(w) = words * Rank(S, w) /\ base(w) \in Nat /\ base(w) # Nothing
             /\ base(w) + words <= BufferWords(k, m)
  <2>1. base(w) = words * Rank(S, w)
    BY DEF SegmentBase, Rank, words
  <2>2. Rank(S, w) \in 0 .. c - 1
    BY <1>1, RanksAscend DEF c
  <2> DEFINE r == Rank(S, w)
  <2> HIDE DEF r
  <2>3. r \in Nat /\ r + 1 \in Nat /\ r + 1 <= c
    BY <1>1, <2>2 DEF r
  <2>4. (r + 1) * words <= c * words
    BY <1>1, <1>4, <2>3, TimesOrder
  <2>5. (r + 1) * words = words * r + words /\ c * words = words * c /\ words * r \in Nat
    BY <1>1, <1>4, <2>3, Z3
  <2>6. base(w) = words * r
    BY <2>1 DEF r
  <2> HIDE DEF base
  <2> QED
    BY <1>1, <1>4, <1>6, <2>1, <2>4, <2>5, <2>6, TraceAssumption
<1>8. ASSUME NEW v \in S, NEW w \in S, v < w
      PROVE  base(v) + words <= base(w)
  <2>1. Rank(S, v) \in Nat /\ Rank(S, w) \in Nat /\ Rank(S, v) + 1 <= Rank(S, w)
    BY <1>1, <1>8, RanksAscend
  <2> DEFINE r == Rank(S, v)
             q == Rank(S, w)
  <2>2. base(v) = words * r /\ base(w) = words * q
    BY <1>7
  <2> HIDE DEF r, q, base
  <2>3. r \in Nat /\ q \in Nat /\ r + 1 \in Nat /\ r + 1 <= q
    BY <2>1 DEF r, q
  <2>4. (r + 1) * words <= q * words
    BY <1>4, <2>3, TimesOrder
  <2>5. (r + 1) * words = words * r + words /\ q * words = words * q /\ words * r \in Nat
    BY <1>4, <2>3, Z3
  <2> QED
    BY <2>2, <2>4, <2>5
<1>9. ASSUME NEW v \in S, NEW w \in S, v # w
      PROVE  (base(v) .. base(v) + words - 1) \cap (base(w) .. base(w) + words - 1) = {}
  <2>1. v < w \/ w < v
    BY <1>1, <1>9
  <2>2. base(v) \in Nat /\ base(w) \in Nat
    BY <1>7
  <2>3. base(v) + words <= base(w) \/ base(w) + words <= base(v)
    BY <1>8, <2>1
  <2> HIDE DEF base
  <2> QED
    BY <1>4, <2>2, <2>3
<1>10. ASSUME NEW w \in S
       PROVE  base(w) .. base(w) + words - 1 \subseteq 0 .. BufferWords(k, m) - 1
  <2>1. base(w) \in Nat /\ base(w) + words <= BufferWords(k, m)
    BY <1>7
  <2> HIDE DEF base
  <2> QED
    BY <1>4, <1>6, <2>1
<1> QED
  BY <1>1, <1>2, <1>5, <1>7, <1>9, <1>10 DEF words, B

-----------------------------------------------------------------------------
(* What the parser finds in a segment: the newest lap, then what is left of the*)
(* one before.                                                                 *)

Newest(L, cap) == L % cap
Place(L, cap, y) ==
  IF y <= Newest(L, cap) THEN L - Newest(L, cap) + y ELSE L - Newest(L, cap) - cap + y
Left(L, cap) == IF L < cap THEN L ELSE cap

\* The newest lap begins at a multiple of the capacity.
LEMMA Laps ==
  ASSUME NEW cap \in Nat \ {0}, NEW L \in Nat
  PROVE  /\ Newest(L, cap) \in 0 .. cap - 1
         /\ \E q \in Nat : L - Newest(L, cap) = q * cap
         /\ L - Newest(L, cap) \in Nat
         /\ L - Newest(L, cap) = 0 => L < cap
         /\ L - Newest(L, cap) # 0 => L - Newest(L, cap) >= cap
<1> DEFINE q == L \div cap
           r == Newest(L, cap)
<1>1. q \in Nat /\ r \in 0 .. cap - 1 /\ L = q * cap + r
  BY Z3 DEF Newest
<1> HIDE DEF q, r
<1>2. q * cap \in Nat /\ L - r = q * cap
  <2>1. q * cap \in Nat
    BY <1>1, Z3
  <2> QED
    BY <1>1, <2>1
<1>3. L - r # 0 => L - r >= cap
  <2> HAVE L - r # 0
  <2>1. q # 0
    BY <1>1, <1>2
  <2>2. 1 * cap <= q * cap
    BY <1>1, <2>1, TimesOrder
  <2> QED
    BY <1>2, <2>2
<1>4. \E x \in Nat : L - r = x * cap
  BY <1>1, <1>2
<1>5. L - r \in Nat /\ (L - r = 0 => L < cap)
  BY <1>1, <1>2
<1> QED
  BY <1>1, <1>3, <1>4, <1>5 DEF r

\* The slot of a stored entry, and the place in the history of a slot.
LEMMA PlaceIsThere ==
  ASSUME NEW cap \in Nat \ {0}, NEW L \in Nat, NEW y \in 1 .. Left(L, cap)
  PROVE  /\ Place(L, cap, y) \in 1 .. L /\ Place(L, cap, y) > L - cap
         /\ (Place(L, cap, y) - 1) % cap = y - 1
<1> DEFINE r == Newest(L, cap)
           a == L - r
           p == Place(L, cap, y)
<1>1. PICK q \in Nat : a = q * cap
  BY Laps
<1>2. r \in 0 .. cap - 1 /\ a \in Nat /\ (a = 0 => L < cap) /\ (a # 0 => a >= cap)
  BY Laps
<1>3. p = IF y <= r THEN a + y ELSE a - cap + y
  BY DEF Place
<1>4. y \in Nat /\ y >= 1 /\ y <= cap /\ y <= L
  BY DEF Left
<1>5. r \in Nat /\ L = a + r
  BY <1>2
<1> HIDE DEF r, a, p
<1>6. CASE y <= r
  <2>1. p - 1 = q * cap + (y - 1) /\ y - 1 \in 0 .. cap - 1
    <3>1. p = a + y /\ a = q * cap
      BY <1>1, <1>3, <1>6
    <3> QED
      BY <1>2, <1>4, <3>1
  <2>2. (p - 1) % cap = y - 1
    BY <2>1, DivisionUnique
  <2>3. p \in 1 .. L /\ p > L - cap
    BY <1>2, <1>3, <1>4, <1>5, <1>6
  <2> QED
    BY <2>2, <2>3 DEF p
<1>7. CASE ~(y <= r)
  <2>1. a # 0 /\ a >= cap
    BY <1>2, <1>4, <1>5, <1>7
  <2>2. q # 0
    BY <1>1, <2>1
  <2>3. (q - 1) * cap = q * cap - cap
    BY <2>2, Z3
  <2>4. p - 1 = (q - 1) * cap + (y - 1) /\ y - 1 \in 0 .. cap - 1 /\ q - 1 \in Nat
    <3>1. p = a - cap + y
      BY <1>3, <1>7
    <3>2. p = ((q - 1) * cap) + y
      BY <1>1, <1>2, <1>4, <2>3, <3>1
    <3>3. (q - 1) * cap \in Nat
      BY <1>1, <1>2, <2>1, <2>3
    <3> QED
      BY <1>4, <2>2, <3>2, <3>3
  <2>5. (p - 1) % cap = y - 1
    <3> DEFINE i == q - 1
    <3>1. p - 1 = i * cap + (y - 1) /\ i \in Nat
      BY <2>4
    <3> HIDE DEF i
    <3> DEFINE j == y - 1
    <3>2. j \in 0 .. cap - 1
      BY <2>4
    <3> HIDE DEF j
    <3>3. (i * cap + j) % cap = j
      BY <3>1, <3>2, DivisionUnique
    <3> QED
      BY <3>1, <3>3 DEF j
  <2>6. p \in 1 .. L /\ p > L - cap
    BY <1>2, <1>3, <1>4, <1>5, <1>7, <2>1
  <2> QED
    BY <2>5, <2>6 DEF p
<1> QED
  BY <1>6, <1>7

\* Within a part of a segment the entries are as they were written.
LEMMA StoredIsPlaced ==
  ASSUME NEW S, NEW H \in Seq(S), NEW cap \in Nat \ {0}, NEW data, NEW base,
         HoldsLast(data, base, cap, H)
  PROVE  \A y \in 1 .. Left(Len(H), cap) :
           data[base + WordsPerEntry * (y - 1)] = H[Place(Len(H), cap, y)]
<1> TAKE y \in 1 .. Left(Len(H), cap)
<1> DEFINE p == Place(Len(H), cap, y)
<1>1. p \in 1 .. Len(H) /\ p > Len(H) - cap /\ (p - 1) % cap = y - 1
  BY PlaceIsThere
<1> HIDE DEF p
<1>2. data[base + WordsPerEntry * ((p - 1) % cap)] = H[p]
  BY <1>1 DEF HoldsLast
<1> QED
  BY <1>1, <1>2 DEF p

\* What the parser pairs was paired; what was paired and is left on one side of the seam
\* the parser pairs.
LEMMA PairingsMatch ==
  ASSUME NEW S, NEW H \in Seq(S), Balanced(H, {}), NEW cap \in Nat \ {0},
         NEW L, L = Len(H), NEW n, n = Left(L, cap),
         NEW G, \A y \in 1 .. n : G[y] = H[Place(L, cap, y)]
  PROVE  /\ \A y, z \in 1 .. n : EndOf(G, y, z) => Matches(H, Place(L, cap, y), Place(L, cap, z))
         /\ \A y, z \in 1 .. n :
              /\ Matches(H, Place(L, cap, y), Place(L, cap, z))
              /\ (y <= Newest(L, cap)) <=> (z <= Newest(L, cap))
              => EndOf(G, y, z)
<1> DEFINE r == Newest(L, cap)
           a == L - r
           pos(y) == Place(L, cap, y)
<1>1. L \in Nat /\ r \in 0 .. cap - 1 /\ a \in Nat /\ L = a + r /\ n \in Nat /\ n <= cap
      /\ (a = 0 => n = r) /\ (a # 0 => a >= cap /\ n = cap)
  <2>1. L \in Nat /\ n = IF L < cap THEN L ELSE cap
    BY DEF Left
  <2>2. r \in 0 .. cap - 1 /\ a \in Nat /\ (a = 0 => L < cap) /\ (a # 0 => a >= cap)
    BY <2>1, Laps
  <2> HIDE DEF r
  <2> QED
    BY <2>1, <2>2
<1>2. \A y \in 1 .. n : pos(y) = (IF y <= r THEN a + y ELSE a - cap + y) /\ pos(y) \in 1 .. L
  BY <1>1, PlaceIsThere DEF Place
<1>3. \A y \in 1 .. n : y > r => a >= cap /\ n = cap
  BY <1>1
<1>4. \A i \in 1 .. L : IF H[i].start THEN \E j \in 1 .. L : Matches(H, i, j)
                        ELSE \E j \in 1 .. L : Matches(H, j, i)
  BY DEF Balanced
<1>5. \A y \in 1 .. n : G[y] = H[pos(y)]
  OBVIOUS
<1> HIDE DEF r, a, pos
\* The match of a start is in the same part of the segment, at the same distance.
<1>6. ASSUME NEW x \in 1 .. n, G[x].start
      PROVE  \E j \in 1 .. L :
               /\ Matches(H, pos(x), j)
               /\ x <= r => j - a \in x+1 .. r /\ j - a \in 1 .. n /\ pos(j - a) = j
               /\ \A z \in x+1 .. n : G[z].scope = G[x].scope /\ x > r =>
                    /\ j - (a - cap) \in x+1 .. z /\ j - (a - cap) \in 1 .. n /\ pos(j - (a - cap)) = j
  <2>1. PICK j \in 1 .. L : Matches(H, pos(x), j)
    BY <1>2, <1>4, <1>5, <1>6
  <2>2. pos(x) < j /\ \A u \in pos(x)+1 .. j-1 : H[u].scope # H[pos(x)].scope
    BY <2>1 DEF Matches
  <2>3. ASSUME x <= r
        PROVE  j - a \in x+1 .. r /\ j - a \in 1 .. n /\ pos(j - a) = j
    <3>1. pos(x) = a + x
      BY <1>2, <2>3
    <3>2. r <= n
      BY <1>1
    <3>3. j - a \in x+1 .. r /\ j - a \in 1 .. n
      BY <1>1, <2>2, <2>3, <3>1, <3>2
    <3> QED
      BY <1>1, <1>2, <3>3
  <2>4. ASSUME NEW z \in x+1 .. n, G[z].scope = G[x].scope, x > r
        PROVE  j - (a - cap) \in x+1 .. z /\ j - (a - cap) \in 1 .. n /\ pos(j - (a - cap)) = j
    <3>1. z \in 1 .. n /\ z > r /\ x \in Nat /\ z \in Nat
      BY <1>1, <2>4
    <3>2. pos(x) = a - cap + x /\ pos(z) = a - cap + z /\ a >= cap
      BY <1>1, <1>2, <1>3, <2>4, <3>1
    <3>3. H[pos(z)].scope = H[pos(x)].scope
      BY <1>5, <2>4, <3>1
    <3>4. ~(pos(z) \in pos(x)+1 .. j-1)
      BY <2>2, <3>3
    <3>5. j <= pos(z) /\ j > pos(x)
      BY <1>1, <2>2, <2>4, <3>1, <3>2, <3>4
    <3>6. j - (a - cap) \in x+1 .. z /\ j - (a - cap) \in 1 .. n /\ ~(j - (a - cap) <= r)
      BY <1>1, <2>4, <3>1, <3>2, <3>5
    <3> QED
      BY <1>1, <1>2, <3>2, <3>6
  <2> QED
    BY <2>1, <2>3, <2>4
<1>7. ASSUME NEW y \in 1 .. n, NEW z \in 1 .. n, EndOf(G, y, z)
      PROVE  Matches(H, pos(y), pos(z))
  <2>1. /\ y <= z - 1 /\ G[y].start /\ G[z].scope = G[y].scope /\ ~G[z].start
        /\ \A u \in y+1 .. z-1 : G[u].scope = G[y].scope => G[u].start
    BY <1>7 DEF EndOf, LeftOpen
  <2>2. PICK j \in 1 .. L :
          /\ Matches(H, pos(y), j)
          /\ y <= r => j - a \in y+1 .. r /\ j - a \in 1 .. n /\ pos(j - a) = j
          /\ \A u \in y+1 .. n : G[u].scope = G[y].scope /\ y > r =>
               /\ j - (a - cap) \in y+1 .. u /\ j - (a - cap) \in 1 .. n /\ pos(j - (a - cap)) = j
    BY <1>6, <2>1
  <2>3. ~H[j].start /\ H[j].scope = G[y].scope /\ pos(y) < j
        /\ \A u \in pos(y)+1 .. j-1 : H[u].scope # G[y].scope
    BY <1>5, <2>2 DEF Matches
  <2>4. CASE y <= r
    <3> DEFINE v == j - a
    <3>1. v \in y+1 .. r /\ v \in 1 .. n /\ pos(v) = j
      BY <2>2, <2>4
    <3> HIDE DEF v
    <3>2. G[v] = H[j]
      BY <1>5, <3>1
    <3>3. ~(v \in y+1 .. z-1)
      BY <2>1, <2>3, <3>2
    <3>4. CASE v > z
      <4>1. z <= r /\ pos(z) = a + z /\ pos(y) = a + y /\ pos(v) = a + v
        <5>1. z <= r /\ v <= r
          BY <1>1, <3>1, <3>4
        <5> QED
          BY <1>2, <2>4, <3>1, <5>1
      <4>2. pos(z) \in pos(y)+1 .. j-1
        BY <1>1, <2>1, <3>1, <3>4, <4>1
      <4> QED
        BY <1>5, <2>1, <2>3, <4>2
    <3>5. CASE ~(v > z)
      <4>1. v = z
        BY <1>1, <3>1, <3>3, <3>5
      <4> QED
        BY <2>2, <3>1, <4>1
    <3> QED
      BY <3>4, <3>5
  <2>5. CASE ~(y <= r)
    <3> DEFINE v == j - (a - cap)
    <3>0. z \in y+1 .. n /\ y > r
      BY <1>1, <2>1, <2>5
    <3>1. v \in y+1 .. z /\ v \in 1 .. n /\ pos(v) = j
      BY <2>1, <2>2, <3>0
    <3> HIDE DEF v
    <3>2. G[v] = H[j]
      BY <1>5, <3>1
    <3>3. ~(v \in y+1 .. z-1)
      BY <2>1, <2>3, <3>2
    <3>4. v = z
      BY <1>1, <3>1, <3>3
    <3> QED
      BY <2>2, <3>1, <3>4
  <2> QED
    BY <2>4, <2>5
<1>8. ASSUME NEW y \in 1 .. n, NEW z \in 1 .. n, Matches(H, pos(y), pos(z)), (y <= r) <=> (z <= r)
      PROVE  EndOf(G, y, z)
  <2>1. /\ pos(y) < pos(z) /\ G[y].start /\ ~G[z].start /\ G[z].scope = G[y].scope
        /\ \A u \in pos(y)+1 .. pos(z)-1 : H[u].scope # G[y].scope
    BY <1>5, <1>8 DEF Matches
  <2>2. y <= z - 1
    BY <1>1, <1>2, <1>8, <2>1
  <2>3. ASSUME NEW u \in y+1 .. z-1
        PROVE  G[u].scope # G[y].scope
    <3>1. u \in 1 .. n /\ ((u <= r) <=> (y <= r))
      BY <1>1, <1>8, <2>3
    <3>2. pos(u) \in pos(y)+1 .. pos(z)-1
      BY <1>1, <1>2, <1>8, <2>2, <2>3, <3>1
    <3> QED
      BY <1>5, <2>1, <3>1, <3>2
  <2>4. ASSUME NEW x \in 1 .. y-1, G[x].scope = G[y].scope, G[x].start
        PROVE  \E v \in x+1 .. y-1 : G[v].scope = G[y].scope /\ ~G[v].start
    <3>0. x \in 1 .. n /\ y \in x+1 .. n
      BY <1>1, <2>4
    <3>1. PICK j \in 1 .. L :
            /\ Matches(H, pos(x), j)
            /\ x <= r => j - a \in x+1 .. r /\ j - a \in 1 .. n /\ pos(j - a) = j
            /\ \A u \in x+1 .. n : G[u].scope = G[x].scope /\ x > r =>
                 /\ j - (a - cap) \in x+1 .. u /\ j - (a - cap) \in 1 .. n /\ pos(j - (a - cap)) = j
      BY <1>6, <2>4, <3>0
    <3>2. ~H[j].start /\ H[j].scope = G[y].scope /\ pos(x) < j
          /\ \A u \in pos(x)+1 .. j-1 : H[u].scope # G[y].scope
      BY <1>5, <2>4, <3>0, <3>1 DEF Matches
    <3>3. CASE x <= r
      <4> DEFINE v == j - a
      <4>1. v \in x+1 .. r /\ v \in 1 .. n /\ pos(v) = j
        BY <3>1, <3>3
      <4> HIDE DEF v
      <4>2. G[v] = H[j]
        BY <1>5, <4>1
      <4>3. v # y
        BY <2>1, <3>2, <4>2
      <4>4. CASE v > y
        <5>1. y <= r /\ pos(x) = a + x /\ pos(y) = a + y /\ pos(v) = a + v
          BY <1>1, <1>2, <3>0, <3>3, <4>1, <4>4
        <5>2. pos(y) \in pos(x)+1 .. j-1
          BY SMTT(30), <1>1, <2>4, <4>1, <4>4, <5>1
        <5> QED
          BY <1>5, <3>2, <5>2
      <4>5. CASE ~(v > y)
        <5>1. v \in x+1 .. y-1
          BY <1>1, <4>1, <4>3, <4>5
        <5> QED
          BY <3>2, <4>2, <5>1
      <4> QED
        BY <4>4, <4>5
    <3>4. CASE ~(x <= r)
      <4> DEFINE v == j - (a - cap)
      <4>0. x > r
        BY <1>1, <3>4
      <4>1. v \in x+1 .. y /\ v \in 1 .. n /\ pos(v) = j
        BY <2>4, <3>0, <3>1, <4>0
      <4> HIDE DEF v
      <4>2. G[v] = H[j]
        BY <1>5, <4>1
      <4>3. v # y
        BY <2>1, <3>2, <4>2
      <4>4. v \in x+1 .. y-1
        BY <1>1, <4>1, <4>3
      <4> QED
        BY <3>2, <4>2, <4>4
    <3> QED
      BY <3>3, <3>4
  <2>5. LeftOpen(G, y, z - 1)
    BY <2>1, <2>2, <2>3, <2>4 DEF LeftOpen
  <2> QED
    BY <2>1, <2>5 DEF EndOf
<1> QED
  BY <1>7, <1>8 DEF r, pos

-----------------------------------------------------------------------------
(* A run of record ops: what it leaves of the state it started from.           *)

Scopes(k) == 0 .. Len(ScopeIds(k).names) - 1
EntriesOf(k) == {e \in StoredEntries : e.cycle = e.time % ClockWrap /\ e.scope \in Scopes(k)}
RunFields(s) ==
  s = [index |-> s.index, buffer |-> s.buffer, clock |-> s.clock, open |-> s.open, log |-> s.log]
LogOf(H, w, ij) ==
  [id |-> H[ij[1]].scope, warp |-> w, from |-> H[ij[1]].time, to |-> H[ij[2]].time,
   first |-> ij[1] - 1, last |-> ij[2] - 1]
OpenOf(H, p) == [id |-> H[p].scope, time |-> H[p].time, nth |-> WordsPerEntry * (p - 1)]
InTime(H) == \A ij \in Matched(H) : H[ij[2]].time - H[ij[1]].time \in 0 .. ClockWrap - 1
Own(k, m, w) ==
  IF w \in Segments(k, m)
    THEN SegmentBase(k, m, w) .. SegmentBase(k, m, w) + SegmentWords(k, m) - 1 ELSE {}

\* The index and the buffer are those of a history.
InBuffer(k, m, w, s, H) ==
  /\ H \in Seq(EntriesOf(k)) /\ s.index = WordsPerEntry * Len(H)
  /\ DOMAIN s.buffer = 0 .. BufferWords(k, m) - 1
  /\ w \in Segments(k, m) => HoldsLast(s.buffer, SegmentBase(k, m, w), Slots(k, m), H)
\* So is the log; the open scopes are at P.
Written(k, m, w, s, H, P) ==
  /\ InBuffer(k, m, w, s, H) /\ Balanced(H, P) /\ InTime(H)
  /\ {l \in s.log : l.warp = w} = {LogOf(H, w, ij) : ij \in Matched(H)}
\* What belongs to other warps is as it was.
Others(k, m, w, s, t) ==
  /\ \A x \in 0 .. BufferWords(k, m) - 1 : x \notin Own(k, m, w) => t.buffer[x] = s.buffer[x]
  /\ {l \in t.log : l.warp # w} = {l \in s.log : l.warp # w}

\* The store of an entry: the ring of the warp has it, no other word of the buffer changes,
\* and nothing else of the run.
LEMMA StoreWrites ==
  ASSUME NEW k, NEW m, NEW w, NEW s, NEW H, NEW e \in EntriesOf(k),
         NEW G \in Seq(EntriesOf(k)), NEW t,
         Settings(k, m), RunFields(s), InBuffer(k, m, w, s, H), Longer(G, H, e),
         t = Store(k, m, w, s, e)
  PROVE  /\ RunFields(t) /\ t.clock = s.clock /\ t.open = s.open /\ t.log = s.log
         /\ InBuffer(k, m, w, t, G)
         /\ t.index = s.index + WordsPerEntry
         /\ Others(k, m, w, s, t)
<1> DEFINE base == SegmentBase(k, m, w)
           words == SegmentWords(k, m)
           next == IF base = Nothing THEN s.buffer
                   ELSE [s.buffer EXCEPT ![base + (s.index % words)] = e]
<1>1. t = [s EXCEPT !.index = @ + WordsPerEntry, !.buffer = next]
  BY DEF Store
<1> HIDE DEF next
<1>2. t = [index |-> s.index + WordsPerEntry, buffer |-> next, clock |-> s.clock,
           open |-> s.open, log |-> s.log]
  BY <1>1 DEF RunFields
<1>3. /\ RunFields(t) /\ t.clock = s.clock /\ t.open = s.open /\ t.log = s.log
      /\ t.index = s.index + WordsPerEntry /\ t.buffer = next
  BY <1>2 DEF RunFields
<1>4. H \in Seq(EntriesOf(k)) /\ s.index = WordsPerEntry * Len(H)
      /\ DOMAIN s.buffer = 0 .. BufferWords(k, m) - 1
  BY DEF InBuffer
<1>5. G \in Seq(EntriesOf(k)) /\ Len(G) = Len(H) + 1 /\ Len(H) \in Nat
  BY <1>4 DEF Longer
<1>6. t.index = WordsPerEntry * Len(G)
  BY <1>3, <1>4, <1>5 DEF WordsPerEntry
<1>7. CASE w \in Segments(k, m)
  <2>1. /\ Slots(k, m) \in Nat \ {0} /\ words = WordsPerEntry * Slots(k, m)
        /\ base \in Nat /\ base # Nothing /\ base .. base + words - 1 \subseteq 0 .. BufferWords(k, m) - 1
    BY <1>7, SegmentsFit
  <2>2. HoldsLast(s.buffer, base, Slots(k, m), H)
    BY <1>7 DEF InBuffer
  <2>3. next = [s.buffer EXCEPT ![base + ((WordsPerEntry * Len(H)) % words)] = e]
    BY <1>4, <2>1 DEF next
  <2>4. Own(k, m, w) = base .. base + words - 1
    BY <1>7 DEF Own
  <2> HIDE DEF base, words
  <2>5. /\ HoldsLast(next, base, Slots(k, m), G) /\ DOMAIN next = DOMAIN s.buffer
        /\ \A x \in DOMAIN s.buffer \ (base .. base + words - 1) : next[x] = s.buffer[x]
    <3> DEFINE at == RingSlot(base, Slots(k, m), Len(H))
    <3>1. base .. base + words - 1 \subseteq DOMAIN s.buffer
      BY <1>4, <2>1
    <3>2. at \in base .. base + words - 1
      <4>1. WordsPerEntry * Len(H) \in Nat /\ words \in Nat \ {0}
        BY <1>5, <2>1 DEF WordsPerEntry
      <4>2. (WordsPerEntry * Len(H)) % words \in 0 .. words - 1
        BY <4>1, Z3
      <4>3. at = base + ((WordsPerEntry * Len(H)) % words)
        BY <2>1 DEF RingSlot
      <4> QED
        BY <2>1, <4>1, <4>2, <4>3
    <3>3. next = [s.buffer EXCEPT ![at] = e]
      BY <2>1, <2>3 DEF RingSlot
    <3> HIDE DEF at
    <3>4. PutAt(s.buffer, next, at, e)
      BY <3>1, <3>2, <3>3 DEF PutAt
    <3>5. RingRange(base, Slots(k, m)) \subseteq DOMAIN s.buffer
      BY <2>1, <3>1 DEF RingRange
    <3>6. H \in Seq(EntriesOf(k)) /\ Slots(k, m) \in Nat \ {0} /\ base \in Nat
      BY <1>4, <2>1
    <3>7. HoldsLast(next, base, Slots(k, m), G)
      BY <2>2, <3>4, <3>5, <3>6, HoldsOneMore DEF at
    <3>8. \A x \in DOMAIN s.buffer \ (base .. base + words - 1) : next[x] = s.buffer[x]
      BY <3>2, <3>4 DEF PutAt
    <3> QED
      BY <3>4, <3>7, <3>8 DEF PutAt
  <2>6. InBuffer(k, m, w, t, G)
    BY <1>3, <1>4, <1>5, <1>6, <2>5 DEF InBuffer, base
  <2>7. Others(k, m, w, s, t)
    BY <1>3, <1>4, <2>4, <2>5 DEF Others
  <2> QED
    BY <1>3, <2>6, <2>7
<1>8. CASE w \notin Segments(k, m)
  <2>1. next = s.buffer
    BY <1>8 DEF next, SegmentBase
  <2>2. InBuffer(k, m, w, t, G)
    BY <1>3, <1>4, <1>5, <1>6, <1>8, <2>1 DEF InBuffer
  <2>3. Others(k, m, w, s, t)
    BY <1>3, <2>1 DEF Others
  <2> QED
    BY <1>3, <2>2, <2>3
<1> QED
  BY <1>7, <1>8

\* One entry more does not change what is known of those before it.
LEMMA SameLogs ==
  ASSUME NEW S, NEW H \in Seq(S), NEW e \in S, NEW G, Longer(G, H, e)
  PROVE  /\ \A p \in 1 .. Len(H) : G[p] = H[p]
         /\ \A ij \in Matched(H) : ij[1] \in 1 .. Len(H) /\ ij[2] \in 1 .. Len(H)
  BY DEF Matched, Longer

\* Writing the start of a scope that is not open.
LEMMA WritesStart ==
  ASSUME NEW k, NEW m, NEW w, NEW s, NEW H, NEW P,
         NEW e \in EntriesOf(k), NEW G \in Seq(EntriesOf(k)), NEW t,
         Written(k, m, w, s, H, P), Longer(G, H, e), e.start, \A p \in P : H[p].scope # e.scope,
         InBuffer(k, m, w, t, G), t.log = s.log
  PROVE  Written(k, m, w, t, G, P \cup {Len(H) + 1})
<1>0. H \in Seq(EntriesOf(k))
  BY DEF Written, InBuffer
<1>1. H \in Seq(EntriesOf(k)) /\ Balanced(H, P) /\ InTime(H)
      /\ {l \in s.log : l.warp = w} = {LogOf(H, w, ij) : ij \in Matched(H)}
  BY DEF Written, InBuffer
<1>2. Balanced(G, P \cup {Len(H) + 1}) /\ Matched(G) = Matched(H)
  <2>1. Balanced(H, P)
    BY <1>1
  <2> QED
    BY <1>0, <2>1, AppendStart
<1>3. \A ij \in Matched(H) : LogOf(G, w, ij) = LogOf(H, w, ij) /\ G[ij[1]] = H[ij[1]] /\ G[ij[2]] = H[ij[2]]
  <2>1. \A p \in 1 .. Len(H) : G[p] = H[p]
    BY <1>0, SameLogs
  <2>2. \A ij \in Matched(H) : ij[1] \in 1 .. Len(H) /\ ij[2] \in 1 .. Len(H)
    BY <1>0, SameLogs
  <2>3. \A ij \in Matched(H) : G[ij[1]] = H[ij[1]] /\ G[ij[2]] = H[ij[2]]
    BY <2>1, <2>2, Zenon
  <2> QED
    BY <2>3 DEF LogOf
<1>4. InTime(G)
  BY <1>1, <1>2, <1>3 DEF InTime
<1>5. {l \in t.log : l.warp = w} = {LogOf(G, w, ij) : ij \in Matched(G)}
  BY <1>1, <1>2, <1>3
<1> QED
  BY <1>2, <1>4, <1>5 DEF Written

\* Writing the end of the scope opened at p.
LEMMA WritesEnd ==
  ASSUME NEW k, NEW m, NEW w, NEW s, NEW H, NEW P, NEW p \in P,
         NEW e \in EntriesOf(k), NEW G \in Seq(EntriesOf(k)), NEW t,
         Written(k, m, w, s, H, P), Longer(G, H, e), ~e.start, H[p].scope = e.scope,
         e.time - H[p].time \in 0 .. ClockWrap - 1,
         InBuffer(k, m, w, t, G), t.log = s.log \cup {LogOf(G, w, <<p, Len(H) + 1>>)}
  PROVE  Written(k, m, w, t, G, P \ {p})
<1> DEFINE new == <<p, Len(H) + 1>>
<1>0. H \in Seq(EntriesOf(k))
  BY DEF Written, InBuffer
<1>1. H \in Seq(EntriesOf(k)) /\ Balanced(H, P) /\ InTime(H)
      /\ {l \in s.log : l.warp = w} = {LogOf(H, w, ij) : ij \in Matched(H)}
  BY DEF Written, InBuffer
<1>2. Balanced(G, P \ {p}) /\ Matched(G) = Matched(H) \cup {new}
  <2>1. Balanced(H, P)
    BY <1>1
  <2>2. Balanced(G, P \ {p})
    BY <1>0, <2>1, AppendEnd
  <2>3. Matched(G) = Matched(H) \cup {<<p, Len(H) + 1>>}
    <3>1. \A x : x \in Matched(G) <=> x \in Matched(H) \/ x = <<p, Len(H) + 1>>
      BY <1>0, <2>1, AppendEnd
    <3> QED
      BY <3>1
  <2> QED
    BY <2>2, <2>3
<1>3. \A ij \in Matched(H) : LogOf(G, w, ij) = LogOf(H, w, ij) /\ G[ij[1]] = H[ij[1]] /\ G[ij[2]] = H[ij[2]]
  <2>1. \A q \in 1 .. Len(H) : G[q] = H[q]
    BY <1>0, SameLogs
  <2>2. \A ij \in Matched(H) : ij[1] \in 1 .. Len(H) /\ ij[2] \in 1 .. Len(H)
    BY <1>0, SameLogs
  <2>3. \A ij \in Matched(H) : G[ij[1]] = H[ij[1]] /\ G[ij[2]] = H[ij[2]]
    BY <2>1, <2>2, Zenon
  <2> QED
    BY <2>3 DEF LogOf
<1>4. G[new[1]] = H[p] /\ G[new[2]] = e
  <2>1. p \in 1 .. Len(H)
    BY <1>1 DEF Balanced
  <2> QED
    BY <1>0, <2>1 DEF Longer
<1>5. LogOf(G, w, new).warp = w
  BY DEF LogOf
<1> HIDE DEF new
<1>6. InTime(G)
  BY <1>1, <1>2, <1>3, <1>4 DEF InTime
<1>7. {l \in t.log : l.warp = w} = {LogOf(G, w, ij) : ij \in Matched(G)}
  <2>1. t.log = s.log \cup {LogOf(G, w, new)}
    BY DEF new
  <2>2. {l \in t.log : l.warp = w} = {l \in s.log : l.warp = w} \cup {LogOf(G, w, new)}
    BY <1>5, <2>1
  <2>3. {LogOf(G, w, ij) : ij \in Matched(G)} = {LogOf(H, w, ij) : ij \in Matched(H)} \cup {LogOf(G, w, new)}
    BY <1>2, <1>3
  <2> QED
    BY <1>1, <2>2, <2>3
<1> QED
  BY <1>2, <1>6, <1>7 DEF Written

---------------------------------------------------------------------------------
(* A run of record ops, op by op: what is open, what is written, what is logged. *)

\* Of a sequence, after n: the starts whose scope has nothing after them.
Pending(T, n) == {x \in 1 .. n : T[x].start /\ \A y \in x+1 .. n : T[y].scope # T[x].scope}
PendingScopes(T, n) == {T[x].scope : x \in Pending(T, n)}

\* Where everything has its partner, a start finds its scope closed and opens it, an end
\* finds it open and closes it, and nothing is open at the end.
LEMMA PendingPaired ==
  ASSUME NEW S, NEW T \in Seq(S), Paired(T)
  PROVE  /\ PendingScopes(T, 0) = {} /\ PendingScopes(T, Len(T)) = {}
         /\ \A n \in 1 .. Len(T) :
              IF T[n].start
                THEN /\ T[n].scope \notin PendingScopes(T, n - 1)
                     /\ PendingScopes(T, n) = PendingScopes(T, n - 1) \cup {T[n].scope}
                ELSE /\ T[n].scope \in PendingScopes(T, n - 1)
                     /\ PendingScopes(T, n) = PendingScopes(T, n - 1) \ {T[n].scope}
<1>1. \A i \in 1 .. Len(T) : \E j \in 1 .. Len(T) :
        IF T[i].start THEN Matches(T, i, j) ELSE Matches(T, j, i)
  BY DEF Paired
<1>2. PendingScopes(T, 0) = {}
  BY DEF PendingScopes, Pending
<1>3. PendingScopes(T, Len(T)) = {}
  <2> SUFFICES ASSUME NEW x \in Pending(T, Len(T)) PROVE FALSE
    BY DEF PendingScopes
  <2>1. x \in 1 .. Len(T) /\ T[x].start /\ \A y \in x+1 .. Len(T) : T[y].scope # T[x].scope
    BY DEF Pending
  <2>2. PICK j \in 1 .. Len(T) : Matches(T, x, j)
    BY <1>1, <2>1
  <2>3. j \in x+1 .. Len(T) /\ T[j].scope = T[x].scope
    BY <2>1, <2>2 DEF Matches
  <2> QED
    BY <2>1, <2>3
<1>4. ASSUME NEW n \in 1 .. Len(T)
      PROVE  \A x \in 1 .. n-1 : x \in Pending(T, n) <=> x \in Pending(T, n - 1) /\ T[n].scope # T[x].scope
  <2> TAKE x \in 1 .. n-1
  <2>1. \A y : y \in x+1 .. n <=> y \in x+1 .. n-1 \/ y = n
    OBVIOUS
  <2> QED
    BY <2>1 DEF Pending
<1>5. ASSUME NEW n \in 1 .. Len(T), T[n].start
      PROVE  /\ T[n].scope \notin PendingScopes(T, n - 1)
             /\ PendingScopes(T, n) = PendingScopes(T, n - 1) \cup {T[n].scope}
  <2>1. ASSUME NEW x \in Pending(T, n - 1), T[x].scope = T[n].scope
        PROVE  FALSE
    <3>1. x \in 1 .. n-1 /\ T[x].start /\ \A y \in x+1 .. n-1 : T[y].scope # T[x].scope
      BY DEF Pending
    <3>2. PICK j \in 1 .. Len(T) : Matches(T, x, j)
      <4>1. x \in 1 .. Len(T)
        BY <3>1
      <4> QED
        BY <1>1, <3>1, <4>1
    <3>3. x < j /\ ~T[j].start /\ T[j].scope = T[x].scope /\ \A y \in x+1 .. j-1 : T[y].scope # T[x].scope
      BY <3>2 DEF Matches
    <3>4. ~(n \in x+1 .. j-1) /\ n # j /\ ~(j \in x+1 .. n-1)
      BY <1>5, <2>1, <3>1, <3>3
    <3> QED
      BY <3>1, <3>3, <3>4
  <2>2. n \in Pending(T, n)
    BY <1>5 DEF Pending
  <2>3. \A x : x \in Pending(T, n) <=> x \in Pending(T, n - 1) \/ x = n
    <3> TAKE x
    <3>1. CASE x = n
      BY <2>2, <3>1
    <3>2. CASE x # n
      <4>1. x \in Pending(T, n) \/ x \in Pending(T, n - 1) => x \in 1 .. n-1
        BY <3>2 DEF Pending
      <4> QED
        BY <1>4, <2>1, <3>2, <4>1
    <3> QED
      BY <3>1, <3>2
  <2> QED
    BY <2>1, <2>3 DEF PendingScopes
<1>6. ASSUME NEW n \in 1 .. Len(T), ~T[n].start
      PROVE  /\ T[n].scope \in PendingScopes(T, n - 1)
             /\ PendingScopes(T, n) = PendingScopes(T, n - 1) \ {T[n].scope}
  <2>1. PICK x \in 1 .. Len(T) : Matches(T, x, n)
    BY <1>1, <1>6
  <2>2. x \in Pending(T, n - 1) /\ T[x].scope = T[n].scope
    BY <2>1 DEF Pending, Matches
  <2>3. \A y : y \in Pending(T, n) <=> y \in Pending(T, n - 1) /\ T[y].scope # T[n].scope
    <3> TAKE y
    <3>1. y \in Pending(T, n) \/ y \in Pending(T, n - 1) => y \in 1 .. n-1
      BY <1>6 DEF Pending
    <3> QED
      BY <1>4, <3>1
  <2> QED
    BY <2>2, <2>3 DEF PendingScopes
<1> QED
  BY <1>2, <1>3, <1>5, <1>6

\* A warp in the middle of a run that began at c: its open scopes are those at P.
ScopesOpen(m, c, s, H, P) ==
  /\ \A o \in s.open : o.time \in c .. s.clock - 1
  /\ \A o, u \in s.open : o.id = u.id => o = u
  /\ IF m.schedule THEN P = {} ELSE s.open = {OpenOf(H, p) : p \in P}
MidRun(k, m, w, c, s, H, P) ==
  /\ RunFields(s) /\ Written(k, m, w, s, H, P) /\ s.clock \in Nat
  /\ ScopesOpen(m, c, s, H, P)
OpenIds(s) == {o.id : o \in s.open}

\* An entry of the kernel keeps its scope, its kind and its time: eight bits hold the scope.
LEMMA EntryFields ==
  ASSUME NEW k, NEW id \in Scopes(k), NEW time \in Nat, KernelOK(k)
  PROVE  /\ Entry(id, TRUE, time) \in EntriesOf(k) /\ Entry(id, FALSE, time) \in EntriesOf(k)
         /\ Entry(id, TRUE, time).scope = id /\ Entry(id, FALSE, time).scope = id
         /\ Entry(id, TRUE, time).start /\ ~Entry(id, FALSE, time).start
         /\ Entry(id, TRUE, time).time = time /\ Entry(id, FALSE, time).time = time
<1>1. id % 256 = id
  <2>1. id \in 0 .. 255
    BY DEF KernelOK, Scopes
  <2> QED
    BY <2>1, Z3
<1>2. time % ClockWrap \in Nat
  BY TraceAssumption, Z3
<1>3. /\ Entry(id, TRUE, time) = [scope |-> id, start |-> TRUE, cycle |-> time % ClockWrap, time |-> time]
      /\ Entry(id, FALSE, time) = [scope |-> id, start |-> FALSE, cycle |-> time % ClockWrap, time |-> time]
  BY <1>1 DEF Entry
<1>4. id \in Nat
  BY DEF Scopes
<1>5. ASSUME NEW start \in BOOLEAN, NEW e, NEW x \in Nat, x = time % ClockWrap,
             e = [scope |-> id, start |-> start, cycle |-> x, time |-> time]
      PROVE  e \in EntriesOf(k)
  <2>1. e \in StoredEntries
    BY <1>4, <1>5 DEF StoredEntries
  <2> QED
    BY <1>5, <2>1 DEF EntriesOf
<1>6. Entry(id, TRUE, time) \in EntriesOf(k)
  BY <1>2, <1>3, <1>5
<1>7. Entry(id, FALSE, time) \in EntriesOf(k)
  BY <1>2, <1>3, <1>5
<1>8. Entry(id, TRUE, time).scope = id /\ Entry(id, TRUE, time).time = time /\ Entry(id, TRUE, time).start = TRUE
  BY <1>1 DEF Entry
<1>9. Entry(id, FALSE, time).scope = id /\ Entry(id, FALSE, time).time = time /\ Entry(id, FALSE, time).start = FALSE
  BY <1>1 DEF Entry
<1> QED
  BY <1>6, <1>7, <1>8, <1>9

\* Only the index and the buffer count.
LEMMA BufferOnly ==
  ASSUME NEW k, NEW m, NEW w, NEW s, NEW t, NEW H, t.index = s.index, t.buffer = s.buffer,
         InBuffer(k, m, w, s, H)
  PROVE  InBuffer(k, m, w, t, H)
  BY DEF InBuffer

\* What two record ops leave of the other warps, one op after the other.
LEMMA OthersTransitive ==
  ASSUME NEW k, NEW m, NEW w, NEW s, NEW t, NEW u, Others(k, m, w, s, t), Others(k, m, w, t, u)
  PROVE  Others(k, m, w, s, u)
  BY DEF Others

\* What leaves the buffer and the log alone leaves the other warps alone.
LEMMA OthersSame ==
  ASSUME NEW k, NEW m, NEW w, NEW s, NEW t, t.buffer = s.buffer, t.log = s.log
  PROVE  Others(k, m, w, s, t)
  BY DEF Others

\* A start.
LEMMA MidStart ==
  ASSUME NEW k, NEW m, NEW w, NEW c \in Nat, NEW s, NEW H, NEW P, NEW id \in Scopes(k), NEW t,
         Settings(k, m), MidRun(k, m, w, c, s, H, P), s.clock >= c, id \notin OpenIds(s),
         t = RecordStart(k, m, w, s, id)
  PROVE  /\ \E G, Q : MidRun(k, m, w, c, t, G, Q)
         /\ t.clock = s.clock + 1 /\ OpenIds(t) = OpenIds(s) \cup {id}
         /\ Others(k, m, w, s, t)
<1> DEFINE new == [id |-> id, time |-> s.clock, nth |-> s.index]
           begun == [s EXCEPT !.clock = @ + 1, !.open = {o \in @ : o.id # id} \cup {new}]
           e == Entry(id, TRUE, s.clock)
           G == Append(H, e)
<1>1. /\ RunFields(s) /\ Written(k, m, w, s, H, P) /\ s.clock \in Nat /\ ScopesOpen(m, c, s, H, P)
  BY DEF MidRun
<1>2. {o \in s.open : o.id # id} = s.open
  BY DEF OpenIds
<1>3. begun = [index |-> s.index, buffer |-> s.buffer, clock |-> s.clock + 1,
               open |-> s.open \cup {new}, log |-> s.log]
  <2> DEFINE left == {o \in s.open : o.id # id}
  <2>1. begun = [s EXCEPT !.clock = @ + 1, !.open = left \cup {new}]
    OBVIOUS
  <2>2. left = s.open
    BY <1>2
  <2> HIDE DEF left, new, begun
  <2> QED
    BY <1>1, <2>1, <2>2 DEF RunFields
<1> HIDE DEF begun
<1>4. /\ RunFields(begun) /\ begun.index = s.index /\ begun.buffer = s.buffer /\ begun.log = s.log
      /\ begun.clock = s.clock + 1 /\ begun.open = s.open \cup {new}
  BY <1>3 DEF RunFields
<1>5. t = IF m.schedule THEN begun ELSE Store(k, m, w, begun, e)
  BY DEF RecordStart, begun
<1>6. InBuffer(k, m, w, begun, H) /\ Balanced(H, P)
  BY <1>1, <1>4, BufferOnly DEF Written
<1>7. /\ e \in EntriesOf(k) /\ e.scope = id /\ e.start /\ e.time = s.clock
  <2>1. KernelOK(k)
    BY DEF Settings
  <2>2. s.clock \in Nat
    BY <1>1
  <2>3. Entry(id, TRUE, s.clock) \in EntriesOf(k)
    BY <2>1, <2>2, EntryFields
  <2>4. Entry(id, TRUE, s.clock).scope = id
    BY ZenonT(60), <2>1, <2>2, EntryFields
  <2>5. Entry(id, TRUE, s.clock).start
    BY <2>1, <2>2, EntryFields
  <2>6. Entry(id, TRUE, s.clock).time = s.clock
    BY DEF Entry
  <2> QED
    BY <2>3, <2>4, <2>5, <2>6
<1> HIDE DEF e
<1>8. H \in Seq(EntriesOf(k)) /\ s.index = WordsPerEntry * Len(H)
  BY <1>1 DEF Written, InBuffer
<1>9. G \in Seq(EntriesOf(k)) /\ Longer(G, H, e)
  BY <1>7, <1>8, AppendIsLonger
<1> HIDE DEF G
<1>10. /\ RunFields(t) /\ t.clock = s.clock + 1 /\ t.open = s.open \cup {new} /\ t.log = s.log
       /\ Others(k, m, w, s, t)
  <2>1. CASE m.schedule
    BY <1>4, <1>5, <2>1, OthersSame
  <2>2. CASE ~m.schedule
    <3>1. t = Store(k, m, w, begun, e)
      BY <1>5, <2>2
    <3>2. /\ RunFields(t) /\ t.clock = begun.clock /\ t.open = begun.open /\ t.log = begun.log
          /\ Others(k, m, w, begun, t)
      BY <1>4, <1>6, <1>7, <1>9, <3>1, StoreWrites
    <3>3. Others(k, m, w, s, begun)
      BY <1>4, OthersSame
    <3> QED
      BY <1>4, <3>2, <3>3, OthersTransitive
  <2> QED
    BY <2>1, <2>2
<1>11. \A o \in t.open : o.time \in c .. t.clock - 1
  BY <1>1, <1>10 DEF ScopesOpen
<1>12. \A o, u \in t.open : o.id = u.id => o = u
  <2>1. \A o \in s.open : o.id # id
    BY DEF OpenIds
  <2>2. \A o, u \in s.open : o.id = u.id => o = u
    BY <1>1 DEF ScopesOpen
  <2> HIDE DEF new
  <2>3. new.id = id
    BY DEF new
  <2> QED
    BY <1>10, <2>1, <2>2, <2>3
<1>13. OpenIds(t) = OpenIds(s) \cup {id}
  <2>1. new.id = id
    OBVIOUS
  <2> HIDE DEF new
  <2> QED
    BY <1>10, <2>1 DEF OpenIds
<1>14. \E F, Q : MidRun(k, m, w, c, t, F, Q)
  <2>1. CASE m.schedule
    <3>1. P = {}
      BY <1>1, <2>1 DEF ScopesOpen
    <3>2. t = begun
      BY <1>5, <2>1
    <3>3. Written(k, m, w, t, H, P)
      BY <1>1, <1>4, <1>6, <3>2 DEF Written
    <3>4. ScopesOpen(m, c, t, H, P)
      BY <1>11, <1>12, <2>1, <3>1 DEF ScopesOpen
    <3>5. MidRun(k, m, w, c, t, H, P)
      BY <1>1, <1>10, <3>3, <3>4 DEF MidRun
    <3> QED
      BY <3>5
  <2>2. CASE ~m.schedule
    <3> DEFINE Q == P \cup {Len(H) + 1}
    <3>1. t = Store(k, m, w, begun, e)
      BY <1>5, <2>2
    <3>2. InBuffer(k, m, w, t, G)
      BY <1>4, <1>6, <1>7, <1>9, <3>1, StoreWrites
    <3>3. s.open = {OpenOf(H, p) : p \in P}
      BY <1>1, <2>2 DEF ScopesOpen
    <3>4. \A p \in P : H[p].scope # e.scope
      <4> TAKE p \in P
      <4>1. OpenOf(H, p) \in s.open
        BY <3>3
      <4>2. OpenOf(H, p).id # id
        BY <4>1 DEF OpenIds
      <4> QED
        BY <1>7, <4>2 DEF OpenOf
    <3>5. Written(k, m, w, t, G, Q)
      BY <1>1, <1>7, <1>9, <1>10, <3>2, <3>4, WritesStart
    <3>6. t.open = {OpenOf(G, p) : p \in Q}
      <4>1. P \subseteq 1 .. Len(H)
        BY <1>6 DEF Balanced
      <4>2. \A p \in P : G[p] = H[p]
        BY <1>9, <4>1 DEF Longer
      <4>3. \A p \in P : OpenOf(G, p) = OpenOf(H, p)
        BY <4>2 DEF OpenOf
      <4>4. OpenOf(G, Len(H) + 1) = new
        <5>1. G[Len(H) + 1] = e /\ (Len(H) + 1) - 1 = Len(H)
          BY <1>8, <1>9 DEF Longer
        <5> QED
          BY <1>7, <1>8, <5>1 DEF OpenOf
      <4> HIDE DEF new
      <4> QED
        BY <1>10, <3>3, <4>3, <4>4
    <3>7. ScopesOpen(m, c, t, G, Q)
      <4> HIDE DEF Q
      <4> QED
        BY <1>11, <1>12, <2>2, <3>6 DEF ScopesOpen
    <3>8. MidRun(k, m, w, c, t, G, Q)
      BY <1>1, <1>10, <3>5, <3>7 DEF MidRun
    <3> QED
      BY <3>8
  <2> QED
    BY <2>1, <2>2
<1> QED
  BY <1>10, <1>13, <1>14

\* Storing the end of a scope, and writing the execution down: what the step leaves is
\* the state after the store, with its open scopes and its log.
EndParts(k, m, w, s, id, o, before, done) ==
  /\ before = IF m.schedule THEN Store(k, m, w, s, Entry(id, TRUE, o.time)) ELSE s
  /\ done = Store(k, m, w, [before EXCEPT !.clock = @ + 1], Entry(id, FALSE, s.clock))
EndLeaves(m, w, s, id, o, before, done, t) ==
  /\ RunFields(t) /\ t.index = done.index /\ t.buffer = done.buffer /\ t.clock = done.clock
  /\ t.open = s.open \ {o}
  /\ t.log = s.log \cup
       {[id |-> id, warp |-> w, from |-> o.time, to |-> s.clock,
         first |-> (IF m.schedule THEN s.index ELSE o.nth) \div WordsPerEntry,
         last |-> before.index \div WordsPerEntry]}

\* With one start of its scope open, the end takes that one.
LEMMA EndOfOne ==
  ASSUME NEW k, NEW m, NEW w, NEW s, NEW id, NEW o \in s.open, NEW t, NEW before, NEW done,
         o.id = id, \A u \in s.open : u.id = id => u = o, t = RecordEnd(k, m, w, s, id),
         EndParts(k, m, w, s, id, o, before, done),
         RunFields(before), before.clock = s.clock, before.open = s.open, before.log = s.log,
         RunFields(done), done.open = s.open, done.log = s.log
  PROVE  EndLeaves(m, w, s, id, o, before, done, t)
<1> DEFINE of == {u \in s.open : u.id = id}
           entry == [id |-> id, warp |-> w, from |-> o.time, to |-> s.clock,
                     first |-> (IF m.schedule THEN s.index ELSE o.nth) \div WordsPerEntry,
                     last |-> before.index \div WordsPerEntry]
<1>1. of = {o} /\ of # {}
  OBVIOUS
<1>2. (CHOOSE u \in {o} : TRUE) = o
  OBVIOUS
<1>3. t = [done EXCEPT !.open = @ \ {o}, !.log = @ \cup {entry}]
  <2>1. of = {o} /\ (m.schedule /\ of # {} <=> m.schedule) /\ ~(of = {})
    BY <1>1
  <2> HIDE DEF entry
  <2>2. t = [done EXCEPT !.open = @ \ of, !.log = @ \cup {entry}]
    <3> USE <1>1, <1>2, <2>1 DEF entry
    <3> QED
      BY DEF RecordEnd, EndParts
  <2> QED
    BY <2>1, <2>2
<1> HIDE DEF entry, of
<1>4. t = [index |-> done.index, buffer |-> done.buffer, clock |-> done.clock,
           open |-> s.open \ {o}, log |-> s.log \cup {entry}]
  <2>1. done = [index |-> done.index, buffer |-> done.buffer, clock |-> done.clock,
                open |-> done.open, log |-> done.log]
    BY DEF RunFields
  <2> DEFINE op == done.open \ {o}
             log == done.log \cup {entry}
  <2>2. t = [done EXCEPT !.open = op, !.log = log]
    BY <1>3
  <2> HIDE DEF op, log
  <2>3. t = [index |-> done.index, buffer |-> done.buffer, clock |-> done.clock, open |-> op, log |-> log]
    BY <2>1, <2>2
  <2> QED
    BY <2>3 DEF op, log
<1> QED
  BY <1>4 DEF RunFields, entry, EndLeaves

\* The clock ticks.
LEMMA Ticks ==
  ASSUME NEW s, RunFields(s), s.clock \in Nat, NEW t, t = [s EXCEPT !.clock = @ + 1]
  PROVE  /\ RunFields(t) /\ t.index = s.index /\ t.buffer = s.buffer /\ t.clock = s.clock + 1
         /\ t.open = s.open /\ t.log = s.log
<1>1. s = [index |-> s.index, buffer |-> s.buffer, clock |-> s.clock, open |-> s.open, log |-> s.log]
  BY DEF RunFields
<1>2. t = [index |-> s.index, buffer |-> s.buffer, clock |-> s.clock + 1, open |-> s.open, log |-> s.log]
  BY <1>1
<1> QED
  BY <1>2 DEF RunFields

\* An end.
LEMMA MidEnd ==
  ASSUME NEW k, NEW m, NEW w, NEW c \in Nat, NEW s, NEW H, NEW P, NEW id \in Scopes(k), NEW t,
         Settings(k, m), MidRun(k, m, w, c, s, H, P), s.clock >= c, s.clock - c < ClockWrap,
         id \in OpenIds(s), t = RecordEnd(k, m, w, s, id)
  PROVE  /\ \E G, Q : MidRun(k, m, w, c, t, G, Q)
         /\ t.clock = s.clock + 1 /\ OpenIds(t) = OpenIds(s) \ {id}
         /\ Others(k, m, w, s, t)
<1>1. /\ RunFields(s) /\ Written(k, m, w, s, H, P) /\ s.clock \in Nat /\ ScopesOpen(m, c, s, H, P)
  BY DEF MidRun
<1>2. PICK o \in s.open : o.id = id
  BY DEF OpenIds
<1>3. /\ o.time \in c .. s.clock - 1
      /\ \A u \in s.open : u.id = id => u = o
  BY <1>1, <1>2 DEF ScopesOpen
<1>4. o.time \in Nat /\ s.clock - o.time \in 0 .. ClockWrap - 1
  BY <1>1, <1>3, TraceAssumption
<1> DEFINE e1 == Entry(id, TRUE, o.time)
           e2 == Entry(id, FALSE, s.clock)
           before == IF m.schedule THEN Store(k, m, w, s, e1) ELSE s
           ticked == [before EXCEPT !.clock = @ + 1]
           done == Store(k, m, w, ticked, e2)
           F == IF m.schedule THEN Append(H, e1) ELSE H
           G == Append(F, e2)
<1>5. /\ e1 \in EntriesOf(k) /\ e1.scope = id /\ e1.start /\ e1.time = o.time
      /\ e2 \in EntriesOf(k) /\ e2.scope = id /\ ~e2.start /\ e2.time = s.clock
  <2>0. KernelOK(k)
    BY DEF Settings
  <2>1. e1 \in EntriesOf(k) /\ e1.scope = id /\ e1.start /\ e1.time = o.time
    <3>1. o.time \in Nat
      BY <1>4
    <3> DEFINE time == o.time
    <3>a. time \in Nat
      BY <3>1
    <3> HIDE DEF time
    <3>2. /\ Entry(id, TRUE, time) \in EntriesOf(k) /\ Entry(id, TRUE, time).scope = id
          /\ Entry(id, TRUE, time).start /\ Entry(id, TRUE, time).time = time
      BY ZenonT(60), <2>0, <3>a, EntryFields
    <3> QED
      BY <3>2 DEF time, e1
  <2>2. e2 \in EntriesOf(k) /\ e2.scope = id /\ ~e2.start /\ e2.time = s.clock
    BY ZenonT(60), <1>1, <2>0, EntryFields
  <2> QED
    BY <2>1, <2>2
<1> HIDE DEF e1, e2
<1>6. H \in Seq(EntriesOf(k)) /\ s.index = WordsPerEntry * Len(H) /\ InBuffer(k, m, w, s, H)
      /\ Balanced(H, P) /\ P \subseteq 1 .. Len(H)
  BY <1>1 DEF Written, InBuffer, Balanced
\* Where the start is.
<1>7. \E p, R : p \in 1 .. Len(F) /\
        /\ RunFields(before) /\ before.clock = s.clock /\ before.open = s.open /\ before.log = s.log
        /\ Others(k, m, w, s, before)
        /\ F \in Seq(EntriesOf(k)) /\ Written(k, m, w, before, F, R)
        /\ p \in R /\ F[p].scope = id /\ F[p].time = o.time
        /\ (IF m.schedule THEN s.index ELSE o.nth) = WordsPerEntry * (p - 1)
        /\ IF m.schedule THEN R = {p} ELSE F = H /\ R = P /\ o = OpenOf(H, p)
  <2>1. CASE m.schedule
    <3>1. F = Append(H, e1) /\ before = Store(k, m, w, s, e1) /\ P = {}
      BY <1>1, <2>1 DEF ScopesOpen
    <3>2. F \in Seq(EntriesOf(k)) /\ Longer(F, H, e1)
      BY <1>5, <1>6, <3>1, AppendIsLonger
    <3> HIDE DEF F, before
    <3>3. /\ RunFields(before) /\ before.clock = s.clock /\ before.open = s.open /\ before.log = s.log
          /\ InBuffer(k, m, w, before, F) /\ Others(k, m, w, s, before)
      <4>1. e1 \in EntriesOf(k) /\ RunFields(s) /\ InBuffer(k, m, w, s, H)
        BY <1>1, <1>5, <1>6
      <4>2. before = Store(k, m, w, s, e1)
        BY <3>1
      <4> QED
        BY <3>2, <4>1, <4>2, StoreWrites
    <3>4. Written(k, m, w, before, F, {} \cup {Len(H) + 1})
      <4>1. \A p \in {} : H[p].scope # e1.scope
        OBVIOUS
      <4>2. Written(k, m, w, s, H, {})
        BY <1>1, <3>1
      <4> QED
        BY <1>5, <3>2, <3>3, <4>1, <4>2, WritesStart
    <3>5. Written(k, m, w, before, F, {Len(H) + 1})
      BY <3>4
    <3>6. Len(H) + 1 \in 1 .. Len(F) /\ F[Len(H) + 1] = e1 /\ (Len(H) + 1) - 1 = Len(H)
      BY <1>6, <3>2 DEF Longer
    <3> QED
      BY <1>5, <1>6, <2>1, <3>2, <3>3, <3>5, <3>6
  <2>2. CASE ~m.schedule
    <3>1. F = H /\ before = s
      BY <2>2
    <3>2. s.open = {OpenOf(H, p) : p \in P}
      BY <1>1, <2>2 DEF ScopesOpen
    <3>3. PICK p \in P : o = OpenOf(H, p)
      BY <3>2
    <3>4. H[p].scope = id /\ H[p].time = o.time /\ o.nth = WordsPerEntry * (p - 1)
      BY <1>2, <3>3 DEF OpenOf
    <3>5. Others(k, m, w, s, s)
      BY OthersSame
    <3> QED
      BY <1>1, <1>6, <2>2, <3>1, <3>3, <3>4, <3>5
  <2> QED
    BY <2>1, <2>2
<1> HIDE DEF F, before
<1>8. PICK p, R : p \in 1 .. Len(F) /\
        /\ RunFields(before) /\ before.clock = s.clock /\ before.open = s.open /\ before.log = s.log
        /\ Others(k, m, w, s, before)
        /\ F \in Seq(EntriesOf(k)) /\ Written(k, m, w, before, F, R)
        /\ p \in R /\ F[p].scope = id /\ F[p].time = o.time
        /\ (IF m.schedule THEN s.index ELSE o.nth) = WordsPerEntry * (p - 1)
        /\ IF m.schedule THEN R = {p} ELSE F = H /\ R = P /\ o = OpenOf(H, p)
  BY <1>7
<1>9. G \in Seq(EntriesOf(k)) /\ Longer(G, F, e2)
  BY <1>5, <1>8, AppendIsLonger
<1> HIDE DEF G
<1>10. /\ RunFields(ticked) /\ ticked.index = before.index /\ ticked.buffer = before.buffer
       /\ ticked.clock = s.clock + 1 /\ ticked.open = s.open /\ ticked.log = s.log
  BY <1>1, <1>8, Ticks
<1>11. InBuffer(k, m, w, before, F) /\ before.index = WordsPerEntry * Len(F)
  BY <1>8 DEF Written, InBuffer
<1>12. done = Store(k, m, w, [before EXCEPT !.clock = @ + 1], e2)
  OBVIOUS
<1> HIDE DEF ticked
<1>13. InBuffer(k, m, w, ticked, F)
  BY <1>10, <1>11, BufferOnly
<1>14. done = Store(k, m, w, ticked, e2)
  OBVIOUS
<1> HIDE DEF done
<1>15. /\ RunFields(done) /\ done.clock = s.clock + 1 /\ done.open = s.open /\ done.log = s.log
       /\ InBuffer(k, m, w, done, G) /\ Others(k, m, w, ticked, done)
  BY <1>5, <1>9, <1>10, <1>13, <1>14, StoreWrites
<1>16. /\ RunFields(t) /\ t.index = done.index /\ t.buffer = done.buffer /\ t.clock = s.clock + 1
       /\ t.open = s.open \ {o}
       /\ t.log = s.log \cup
            {[id |-> id, warp |-> w, from |-> o.time, to |-> s.clock,
              first |-> (IF m.schedule THEN s.index ELSE o.nth) \div WordsPerEntry,
              last |-> before.index \div WordsPerEntry]}
  <2>1. before = IF m.schedule THEN Store(k, m, w, s, Entry(id, TRUE, o.time)) ELSE s
    BY DEF before, e1
  <2>2. done = Store(k, m, w, [before EXCEPT !.clock = @ + 1], Entry(id, FALSE, s.clock))
    BY <1>12 DEF e2
  <2>3. EndParts(k, m, w, s, id, o, before, done)
    BY <2>1, <2>2 DEF EndParts
  <2>4. RunFields(before) /\ before.clock = s.clock /\ before.open = s.open /\ before.log = s.log
    BY <1>8
  <2>5. RunFields(done) /\ done.clock = s.clock + 1 /\ done.open = s.open /\ done.log = s.log
    BY <1>15
  <2>6. \A u \in s.open : u.id = id => u = o
    BY <1>3
  <2>7. EndLeaves(m, w, s, id, o, before, done, t)
    BY <1>2, <2>3, <2>4, <2>5, <2>6, EndOfOne
  <2> QED
    BY <2>5, <2>7 DEF EndLeaves
<1>17. t.log = s.log \cup {LogOf(G, w, <<p, Len(F) + 1>>)}
  <2>1. Len(F) \in Nat /\ p \in 1 .. Len(F) /\ G[p] = F[p] /\ G[Len(F) + 1] = e2
    BY <1>8, <1>9 DEF Longer
  <2>2. (WordsPerEntry * (p - 1)) \div WordsPerEntry = p - 1 /\ (WordsPerEntry * Len(F)) \div WordsPerEntry = Len(F)
    BY SMTT(30), <2>1 DEF WordsPerEntry
  <2>3. LogOf(G, w, <<p, Len(F) + 1>>) =
          [id |-> id, warp |-> w, from |-> o.time, to |-> s.clock, first |-> p - 1, last |-> Len(F)]
    <3>1. (Len(F) + 1) - 1 = Len(F)
      BY <2>1
    <3> QED
      BY <1>5, <1>8, <2>1, <3>1 DEF LogOf
  <2>4. /\ (IF m.schedule THEN s.index ELSE o.nth) \div WordsPerEntry = p - 1
        /\ before.index \div WordsPerEntry = Len(F)
    BY <1>8, <1>11, <2>2
  <2> QED
    BY <1>16, <2>3, <2>4
<1>18. Written(k, m, w, t, G, R \ {p})
  <2>1. InBuffer(k, m, w, t, G)
    BY <1>15, <1>16, BufferOnly
  <2>2. e2.time - F[p].time \in 0 .. ClockWrap - 1
    BY <1>4, <1>5, <1>8
  <2>3. t.log = before.log \cup {LogOf(G, w, <<p, Len(F) + 1>>)}
    BY <1>8, <1>17
  <2>4. F[p].scope = e2.scope
    BY <1>5, <1>8
  <2> QED
    BY <1>5, <1>8, <1>9, <2>1, <2>2, <2>3, <2>4, WritesEnd
<1>19. ScopesOpen(m, c, t, G, R \ {p})
  <2>1. \A u \in t.open : u.time \in c .. t.clock - 1
    <3>1. \A u \in s.open : u.time \in c .. s.clock - 1
      BY <1>1 DEF ScopesOpen
    <3> QED
      BY <1>1, <1>16, <3>1
  <2>2. \A u, v \in t.open : u.id = v.id => u = v
    BY <1>1, <1>16 DEF ScopesOpen
  <2>3. m.schedule => R \ {p} = {}
    BY <1>8
  <2>4. ~m.schedule => t.open = {OpenOf(G, q) : q \in R \ {p}}
    <3> HAVE ~m.schedule
    <3>1. F = H /\ R = P /\ o = OpenOf(H, p) /\ s.open = {OpenOf(H, q) : q \in P} /\ p \in P
      BY <1>1, <1>8 DEF ScopesOpen
    <3>2. \A q \in P : OpenOf(G, q) = OpenOf(H, q)
      <4>1. \A q \in P : G[q] = H[q]
        BY <1>6, <1>9, <3>1 DEF Longer
      <4> QED
        BY <4>1 DEF OpenOf
    <3>3. \A q \in P : OpenOf(H, q) = o => q = p
      <4> TAKE q \in P
      <4> HAVE OpenOf(H, q) = o
      <4>1. H[q].scope = H[p].scope
        BY <3>1 DEF OpenOf
      <4> QED
        BY <1>6, <3>1, <4>1, OpenOnce
    <3> QED
      BY <1>16, <3>1, <3>2, <3>3
  <2> QED
    BY <2>1, <2>2, <2>3, <2>4 DEF ScopesOpen
<1>20. MidRun(k, m, w, c, t, G, R \ {p})
  BY <1>1, <1>16, <1>18, <1>19 DEF MidRun
<1>21. OpenIds(t) = OpenIds(s) \ {id}
  BY <1>2, <1>3, <1>16 DEF OpenIds
<1>22. Others(k, m, w, s, t)
  <2>1. \A x \in 0 .. BufferWords(k, m) - 1 : x \notin Own(k, m, w) => t.buffer[x] = s.buffer[x]
    BY <1>8, <1>10, <1>15, <1>16 DEF Others
  <2>2. {l \in t.log : l.warp # w} = {l \in s.log : l.warp # w}
    <3> DEFINE new == LogOf(G, w, <<p, Len(F) + 1>>)
    <3>1. new.warp = w
      BY DEF LogOf
    <3> HIDE DEF new
    <3>2. t.log = s.log \cup {new}
      BY <1>17 DEF new
    <3> QED
      BY <3>1, <3>2
  <2> QED
    BY <2>1, <2>2 DEF Others
<1> QED
  BY <1>16, <1>20, <1>21, <1>22

\* The same, whatever the history is.
Midway(k, m, w, c, s) == \E H, P : MidRun(k, m, w, c, s, H, P)

\* A start, whatever was written before.
LEMMA MidwayStart ==
  ASSUME NEW k, NEW m, NEW w, NEW c \in Nat, NEW s, NEW id \in Scopes(k), NEW t,
         Settings(k, m), Midway(k, m, w, c, s), s.clock >= c, id \notin OpenIds(s),
         t = RecordStart(k, m, w, s, id)
  PROVE  /\ Midway(k, m, w, c, t) /\ t.clock = s.clock + 1 /\ OpenIds(t) = OpenIds(s) \cup {id}
         /\ Others(k, m, w, s, t)
<1>1. PICK H, P : MidRun(k, m, w, c, s, H, P)
  BY DEF Midway
<1>2. /\ \E G, Q : MidRun(k, m, w, c, t, G, Q)
      /\ t.clock = s.clock + 1 /\ OpenIds(t) = OpenIds(s) \cup {id}
      /\ Others(k, m, w, s, t)
  BY <1>1, MidStart
<1> QED
  BY <1>2 DEF Midway

\* An end, whatever was written before.
LEMMA MidwayEnd ==
  ASSUME NEW k, NEW m, NEW w, NEW c \in Nat, NEW s, NEW id \in Scopes(k), NEW t,
         Settings(k, m), Midway(k, m, w, c, s), s.clock >= c, s.clock - c < ClockWrap,
         id \in OpenIds(s), t = RecordEnd(k, m, w, s, id)
  PROVE  /\ Midway(k, m, w, c, t) /\ t.clock = s.clock + 1 /\ OpenIds(t) = OpenIds(s) \ {id}
         /\ Others(k, m, w, s, t)
<1>1. PICK H, P : MidRun(k, m, w, c, s, H, P)
  BY DEF Midway
<1>2. /\ \E G, Q : MidRun(k, m, w, c, t, G, Q)
      /\ t.clock = s.clock + 1 /\ OpenIds(t) = OpenIds(s) \ {id}
      /\ Others(k, m, w, s, t)
  BY <1>1, MidEnd
<1> QED
  BY <1>2 DEF Midway

\* The run of a list of record ops is a sequence of states, one after each op.
LEMMA RunByOps ==
  ASSUME NEW k, NEW m, NEW w, NEW ids, NEW taken, NEW s, Len(taken) \in Nat
  PROVE  \E f : /\ f[0] = s
                /\ \A i \in 1 .. Len(taken) :
                     IF k.records[taken[i]].start THEN f[i] = RecordStart(k, m, w, f[i - 1], ids[taken[i]])
                     ELSE f[i] = RecordEnd(k, m, w, f[i - 1], ids[taken[i]])
                /\ Run(k, m, w, ids, taken, s) = f[Len(taken)]
<1> DEFINE L == Len(taken)
           next(v, i) == IF k.records[taken[i]].start THEN RecordStart(k, m, w, v, ids[taken[i]])
                         ELSE RecordEnd(k, m, w, v, ids[taken[i]])
           Solves(f, n) == f = [i \in 0 .. n |-> IF i = 0 THEN s ELSE next(f[i - 1], i)]
           P == {n \in 0 .. L : \E f : Solves(f, n)}
<1>1. 0 \in P
  <2> DEFINE g == [i \in 0 .. 0 |-> s]
  <2>1. Solves(g, 0)
    <3> HIDE DEF next
    <3> QED
      OBVIOUS
  <2>2. \E f : Solves(f, 0)
    <3> HIDE DEF g, Solves
    <3> QED
      BY <2>1
  <2> HIDE DEF Solves
  <2> QED
    BY <2>2
<1>2. ASSUME NEW n \in 1 .. L, n - 1 \in P
      PROVE  n \in P
  <2> HIDE DEF next
  <2>1. PICK g : Solves(g, n - 1)
    BY <1>2
  <2> DEFINE h == [i \in 0 .. n |-> IF i = n THEN next(g[n - 1], n) ELSE g[i]]
  <2>2. \A i \in 0 .. n : h[i] = IF i = 0 THEN s ELSE next(h[i - 1], i)
    <3> TAKE i \in 0 .. n
    <3>1. CASE i = n
      <4>1. n # 0 /\ n - 1 \in 0 .. n /\ n - 1 # n
        OBVIOUS
      <4>2. h[n - 1] = g[n - 1] /\ h[n] = next(g[n - 1], n)
        BY <4>1
      <4> HIDE DEF h
      <4> QED
        BY <3>1, <4>1, <4>2
    <3>2. CASE i # n
      <4>1. i \in 0 .. n - 1 /\ (i # 0 => i - 1 \in 0 .. n /\ i - 1 # n)
        BY <3>2
      <4>2. g[i] = IF i = 0 THEN s ELSE next(g[i - 1], i)
        BY <4>1, <2>1
      <4>3. h[i] = g[i] /\ (i # 0 => h[i - 1] = g[i - 1])
        BY <4>1, <3>2
      <4> HIDE DEF h
      <4> QED
        BY <4>2, <4>3
    <3> QED
      BY <3>1, <3>2
  <2>3. Solves(h, n)
    <3>1. h = [i \in 0 .. n |-> h[i]]
      OBVIOUS
    <3> HIDE DEF h
    <3> QED
      BY <2>2, <3>1
  <2>4. \E f : Solves(f, n)
    <3> HIDE DEF h, Solves
    <3> QED
      BY <2>3
  <2> HIDE DEF Solves
  <2> QED
    BY <2>4
<1>3. \E f : Solves(f, L)
  <2>1. 0 .. L \subseteq P
    <3> HIDE DEF P
    <3> QED
      BY <1>1, <1>2, UpTo
  <2> HIDE DEF Solves
  <2> QED
    BY <2>1
<1> DEFINE f == CHOOSE f : Solves(f, L)
<1>4. Solves(f, L)
  <2> HIDE DEF Solves
  <2> QED
    BY <1>3
<1>5. Run(k, m, w, ids, taken, s) = f[L]
  BY DEF Run
<1> HIDE DEF f
<1>6. \A i \in 0 .. L : f[i] = IF i = 0 THEN s ELSE next(f[i - 1], i)
  <2> HIDE DEF next
  <2> QED
    BY <1>4
<1>7. f[0] = s /\ \A i \in 1 .. L : f[i] = next(f[i - 1], i)
  <2> HIDE DEF next
  <2> QED
    BY <1>6
<1> QED
  BY <1>5, <1>7

\* One op of a run, at time c + n: its scope is closed if it starts it, open if it ends it.
OneOp(k, m, w, starts, id, u, v, after) ==
  IF starts THEN v = RecordStart(k, m, w, u, id) /\ id \notin OpenIds(u) /\ after = OpenIds(u) \cup {id}
  ELSE v = RecordEnd(k, m, w, u, id) /\ id \in OpenIds(u) /\ after = OpenIds(u) \ {id}
MidwayTo(k, m, w, c, n, s, u, open) ==
  Midway(k, m, w, c, u) /\ u.clock = c + n /\ OpenIds(u) = open /\ Others(k, m, w, s, u)

\* A record op in the middle of a run: the clock ticks, the open scopes follow the op.
LEMMA MidwayOp ==
  ASSUME NEW k, NEW m, NEW w, NEW c \in Nat, NEW n \in Nat, NEW s, NEW u, NEW v, NEW id \in Scopes(k),
         NEW starts, NEW open, NEW after, Settings(k, m), n < ClockWrap,
         MidwayTo(k, m, w, c, n, s, u, open), OneOp(k, m, w, starts, id, u, v, after)
  PROVE  MidwayTo(k, m, w, c, n + 1, s, v, after)
<1>1. Midway(k, m, w, c, u) /\ u.clock = c + n /\ OpenIds(u) = open /\ Others(k, m, w, s, u)
  BY DEF MidwayTo
<1>2. u.clock >= c /\ u.clock - c < ClockWrap /\ u.clock + 1 = c + (n + 1)
  BY <1>1
<1>3. Midway(k, m, w, c, v) /\ v.clock = u.clock + 1 /\ OpenIds(v) = after /\ Others(k, m, w, u, v)
  <2>1. CASE starts
    <3>1. v = RecordStart(k, m, w, u, id) /\ id \notin OpenIds(u) /\ after = OpenIds(u) \cup {id}
      BY <2>1 DEF OneOp
    <3>2. /\ Midway(k, m, w, c, v) /\ v.clock = u.clock + 1 /\ OpenIds(v) = OpenIds(u) \cup {id}
          /\ Others(k, m, w, u, v)
      <4>1. u.clock >= c /\ Midway(k, m, w, c, u)
        BY <1>1, <1>2
      <4>2. v = RecordStart(k, m, w, u, id) /\ id \notin OpenIds(u)
        BY <3>1
      <4> QED
        BY <4>1, <4>2, MidwayStart
    <3> QED
      BY <3>1, <3>2
  <2>2. CASE ~starts
    <3>1. v = RecordEnd(k, m, w, u, id) /\ id \in OpenIds(u) /\ after = OpenIds(u) \ {id}
      BY <2>2 DEF OneOp
    <3>2. /\ Midway(k, m, w, c, v) /\ v.clock = u.clock + 1 /\ OpenIds(v) = OpenIds(u) \ {id}
          /\ Others(k, m, w, u, v)
      BY <1>1, <1>2, <3>1, MidwayEnd
    <3> QED
      BY <3>1, <3>2
  <2> QED
    BY <2>1, <2>2
<1>4. Others(k, m, w, s, v)
  BY <1>1, <1>3, OthersTransitive
<1> QED
  BY <1>2, <1>3, <1>4 DEF MidwayTo

\* What a warp leaves when it has gone through a stage: a history of its own, every scope
\* of it ended, and nothing of the other warps touched.
LEMMA RunWrites ==
  ASSUME NEW k, NEW m, NEW w, NEW s, NEW H, Settings(k, m),
         \A n \in DOMAIN k.records : ScopeIds(k).ids[n] \in Scopes(k),
         RunFields(s), Written(k, m, w, s, H, {}), s.open = {}, s.clock \in Nat,
         NEW r \in Seq(DOMAIN k.records), Paired(Taken(k, r)), Len(r) < ClockWrap,
         NEW t, t = Run(k, m, w, ScopeIds(k).ids, r, s)
  PROVE  /\ \E G : Written(k, m, w, t, G, {})
         /\ RunFields(t) /\ t.open = {} /\ t.clock \in Nat /\ Others(k, m, w, s, t)
<1> DEFINE T == Taken(k, r)
           ids == ScopeIds(k).ids
           L == Len(r)
<1>0. PICK c \in Nat : c = s.clock
  OBVIOUS
<1>1. L \in Nat /\ DOMAIN r = 1 .. L
  OBVIOUS
<1>2. \A i \in 1 .. L : /\ r[i] \in DOMAIN k.records /\ ids[r[i]] \in Scopes(k)
                        /\ T[i].scope = ids[r[i]] /\ T[i].start = k.records[r[i]].start
  BY <1>1 DEF Taken
<1>3. T \in Seq({T[i] : i \in 1 .. L}) /\ Len(T) = L
  <2>1. T = [n \in 1 .. L |-> T[n]]
    BY <1>1 DEF Taken
  <2> HIDE DEF T, ids
  <2> QED
    BY <1>1, <2>1
<1> HIDE DEF ids
<1>4. PICK f : /\ f[0] = s
               /\ \A i \in 1 .. L :
                    IF k.records[r[i]].start THEN f[i] = RecordStart(k, m, w, f[i - 1], ids[r[i]])
                    ELSE f[i] = RecordEnd(k, m, w, f[i - 1], ids[r[i]])
               /\ t = f[L]
  BY <1>1, RunByOps DEF ids
<1>5. Paired(T)
  OBVIOUS
<1> HIDE DEF T, L
<1> DEFINE Holds(n) == MidwayTo(k, m, w, c, n, s, f[n], PendingScopes(T, n))
           P == {n \in 0 .. L : Holds(n)}
<1>6. /\ PendingScopes(T, 0) = {} /\ PendingScopes(T, L) = {}
      /\ \A n \in 1 .. L :
           IF T[n].start
             THEN /\ T[n].scope \notin PendingScopes(T, n - 1)
                  /\ PendingScopes(T, n) = PendingScopes(T, n - 1) \cup {T[n].scope}
             ELSE /\ T[n].scope \in PendingScopes(T, n - 1)
                  /\ PendingScopes(T, n) = PendingScopes(T, n - 1) \ {T[n].scope}
  <2>1. T \in Seq({T[i] : i \in 1 .. L})
    BY <1>3
  <2> DEFINE S == {T[i] : i \in 1 .. L}
  <2> HIDE DEF S
  <2>2. T \in Seq(S)
    BY <2>1 DEF S
  <2>3. /\ PendingScopes(T, 0) = {} /\ PendingScopes(T, Len(T)) = {}
        /\ \A n \in 1 .. Len(T) :
             IF T[n].start
               THEN /\ T[n].scope \notin PendingScopes(T, n - 1)
                    /\ PendingScopes(T, n) = PendingScopes(T, n - 1) \cup {T[n].scope}
               ELSE /\ T[n].scope \in PendingScopes(T, n - 1)
                    /\ PendingScopes(T, n) = PendingScopes(T, n - 1) \ {T[n].scope}
    BY <1>5, <2>2, PendingPaired
  <2> QED
    BY <1>3, <2>3
<1>7. Holds(0)
  <2>1. ScopesOpen(m, c, s, H, {})
    BY <1>0 DEF ScopesOpen
  <2>2. MidRun(k, m, w, c, s, H, {})
    BY <2>1 DEF MidRun
  <2>3. OpenIds(s) = {}
    BY DEF OpenIds
  <2>4. Others(k, m, w, s, s)
    BY OthersSame
  <2> QED
    BY <1>0, <1>4, <1>6, <2>2, <2>3, <2>4 DEF Midway, MidwayTo
<1>8. ASSUME NEW n \in 1 .. L, Holds(n - 1)
      PROVE  Holds(n)
  <2> DEFINE id == ids[r[n]]
  <2>1. /\ id \in Scopes(k) /\ T[n].scope = id /\ T[n].start = k.records[r[n]].start
        /\ n - 1 \in Nat /\ n - 1 < ClockWrap /\ (n - 1) + 1 = n
    BY <1>1, <1>2, TraceAssumption DEF L
  <2>2. IF T[n].start THEN f[n] = RecordStart(k, m, w, f[n - 1], id)
        ELSE f[n] = RecordEnd(k, m, w, f[n - 1], id)
    BY <1>4, <2>1
  <2> HIDE DEF id
  <2>3. OpenIds(f[n - 1]) = PendingScopes(T, n - 1)
    BY <1>8 DEF MidwayTo
  <2>4. OneOp(k, m, w, T[n].start, id, f[n - 1], f[n], PendingScopes(T, n))
    BY <1>6, <2>1, <2>2, <2>3 DEF OneOp
  <2>5. MidwayTo(k, m, w, c, (n - 1) + 1, s, f[n], PendingScopes(T, n))
    <3> HIDE DEF T, L, P
    <3> QED
      BY <1>8, <2>1, <2>4, MidwayOp
  <2> QED
    BY <2>1, <2>5
<1>9. Holds(L)
  <2>1. 0 \in P /\ \A n \in 1 .. L : n - 1 \in P => n \in P
    <3> HIDE DEF Holds
    <3> QED
      BY <1>1, <1>7, <1>8
  <2>2. 0 .. L \subseteq P
    <3> HIDE DEF P
    <3> QED
      BY <1>1, <2>1, UpTo
  <2> HIDE DEF Holds
  <2> QED
    BY <1>1, <2>2
<1>10. PICK G, Q : MidRun(k, m, w, c, t, G, Q)
  BY <1>4, <1>9 DEF Midway, MidwayTo
<1>11. OpenIds(t) = {} /\ Others(k, m, w, s, t)
  BY <1>4, <1>6, <1>9 DEF MidwayTo
<1>12. t.open = {}
  BY <1>11 DEF OpenIds
<1>13. RunFields(t) /\ Written(k, m, w, t, G, Q) /\ t.clock \in Nat /\ ScopesOpen(m, c, t, G, Q)
  BY <1>10 DEF MidRun
<1>14. Q = {}
  BY <1>12, <1>13 DEF ScopesOpen
<1> QED
  BY <1>11, <1>12, <1>13, <1>14

-----------------------------------------------------------------------------
(* The scope ids of a kernel and the calling contexts of its scopes.           *)

\* The front of a sequence.
LEMMA FrontOf ==
  ASSUME NEW S, NEW s \in Seq(S), NEW n \in 0 .. Len(s)
  PROVE  /\ SubSeq(s, 1, n) \in Seq(S) /\ Len(SubSeq(s, 1, n)) = n
         /\ \A i \in 1 .. n : SubSeq(s, 1, n)[i] = s[i]
         /\ \A i \in 0 .. n : SubSeq(SubSeq(s, 1, n), 1, i) = SubSeq(s, 1, i)
<1>1. SubSeq(s, 1, n) = [i \in 1 .. n |-> s[i]]
  OBVIOUS
<1>2. SubSeq(s, 1, n) \in Seq(S) /\ Len(SubSeq(s, 1, n)) = n
  OBVIOUS
<1>3. \A i \in 1 .. n : SubSeq(s, 1, n)[i] = s[i]
  BY <1>1
<1>4. ASSUME NEW i \in 0 .. n
      PROVE  SubSeq(SubSeq(s, 1, n), 1, i) = SubSeq(s, 1, i)
  <2> DEFINE t == SubSeq(s, 1, n)
  <2>1. SubSeq(s, 1, i) = [j \in 1 .. i |-> s[j]]
    OBVIOUS
  <2>2. t \in Seq(S) /\ Len(t) = n /\ \A j \in 1 .. n : t[j] = s[j]
    BY <1>2, <1>3
  <2> HIDE DEF t
  <2>3. SubSeq(t, 1, i) = [j \in 1 .. i |-> t[j]]
    BY <2>2
  <2>4. \A j \in 1 .. i : t[j] = s[j]
    BY <2>2
  <2> QED
    BY <2>1, <2>3, <2>4 DEF t
<1> QED
  BY <1>2, <1>3, <1>4

\* The fronts of a sequence that grows.
LEMMA FrontOfAppend ==
  ASSUME NEW S, NEW s \in Seq(S), NEW x \in S
  PROVE  /\ \A i \in 0 .. Len(s) : SubSeq(Append(s, x), 1, i) = SubSeq(s, 1, i)
         /\ SubSeq(Append(s, x), 1, Len(s) + 1) = Append(s, x)
         /\ SubSeq(s, 1, Len(s)) = s
<1> DEFINE t == Append(s, x)
<1>1. t \in Seq(S) /\ Len(t) = Len(s) + 1 /\ \A i \in 1 .. Len(s) : t[i] = s[i]
  OBVIOUS
<1> HIDE DEF t
<1>2. ASSUME NEW i \in 0 .. Len(s)
      PROVE  SubSeq(t, 1, i) = SubSeq(s, 1, i)
  <2>1. SubSeq(s, 1, i) = [j \in 1 .. i |-> s[j]] /\ SubSeq(t, 1, i) = [j \in 1 .. i |-> t[j]]
    BY <1>1
  <2>2. \A j \in 1 .. i : t[j] = s[j]
    BY <1>1
  <2> QED
    BY <2>1, <2>2
<1>3. ASSUME NEW u \in Seq(S)
      PROVE  SubSeq(u, 1, Len(u)) = u
  <2>1. SubSeq(u, 1, Len(u)) = [j \in 1 .. Len(u) |-> u[j]] /\ u = [j \in 1 .. Len(u) |-> u[j]]
    OBVIOUS
  <2> QED
    BY <2>1
<1>4. SubSeq(t, 1, Len(s) + 1) = t
  BY <1>1, <1>3
<1> QED
  BY <1>2, <1>3, <1>4 DEF t

\* What the pass keeps while it walks, and what is lexically open then.
WalkStates ==
  [nameToId : SUBSET (STRING \X Nat), stack : Seq(Nat), ids : Seq(Nat), names : Seq(STRING),
   parents : SUBSET (Nat \X Nat)]
OpenStates == [open : Seq(STRING), paths : Seq(Seq(STRING))]
RecordOps == [name : STRING, start : BOOLEAN]

\* The walk of the pass over the record ops keeps its state in range.
LEMMA WalkKeepsType ==
  ASSUME NEW s \in WalkStates, NEW r \in RecordOps
  PROVE  AllocateScope(s, r) \in WalkStates
<1> DEFINE known == {p \in s.nameToId : p[1] = r.name}
           id == Len(s.names)
           its == (CHOOSE p \in known : TRUE)[2]
<1>1. /\ s = [nameToId |-> s.nameToId, stack |-> s.stack, ids |-> s.ids, names |-> s.names,
              parents |-> s.parents]
      /\ s.nameToId \subseteq STRING \X Nat /\ s.stack \in Seq(Nat) /\ s.ids \in Seq(Nat)
      /\ s.names \in Seq(STRING) /\ s.parents \subseteq Nat \X Nat /\ r.name \in STRING
      /\ r.start \in BOOLEAN
  BY DEF WalkStates, RecordOps
<1>2. id \in Nat
  BY <1>1
<1>3. CASE r.start /\ known = {}
  <2> DEFINE up == IF s.stack = <<>> THEN s.parents
                   ELSE s.parents \cup {<<id, s.stack[Len(s.stack)]>>}
  <2>1. AllocateScope(s, r) =
          [nameToId |-> s.nameToId \cup {<<r.name, id>>}, stack |-> Append(s.stack, id),
           ids |-> Append(s.ids, id), names |-> Append(s.names, r.name), parents |-> up]
    BY <1>3 DEF AllocateScope
  <2>2. up \subseteq Nat \X Nat
    <3>1. s.stack # <<>> => s.stack[Len(s.stack)] \in Nat
      BY <1>1
    <3> HIDE DEF id
    <3> QED
      BY <1>1, <1>2, <3>1
  <2>3. s.nameToId \cup {<<r.name, id>>} \subseteq STRING \X Nat
    BY <1>1, <1>2
  <2>4. Append(s.stack, id) \in Seq(Nat) /\ Append(s.ids, id) \in Seq(Nat) /\ Append(s.names, r.name) \in Seq(STRING)
    BY <1>1, <1>2
  <2> HIDE DEF up, id
  <2> QED
    BY <2>1, <2>2, <2>3, <2>4 DEF WalkStates
<1>4. CASE ~r.start /\ known # {}
  <2>1. its \in Nat
    BY <1>1, <1>4
  <2> HIDE DEF its
  <2>2. AllocateScope(s, r) = [s EXCEPT !.nameToId = @ \ known, !.stack = Popped(@), !.ids = Append(@, its)]
    BY <1>4 DEF AllocateScope, its
  <2>3. s.nameToId \ known \subseteq STRING \X Nat /\ Append(s.ids, its) \in Seq(Nat)
    BY <1>1, <2>1
  <2>4. Popped(s.stack) \in Seq(Nat)
    <3>1. CASE Len(s.stack) = 0
      BY <1>1, <3>1 DEF Popped
    <3>2. CASE Len(s.stack) # 0
      <4>1. Len(s.stack) - 1 \in 0 .. Len(s.stack)
        BY <1>1, <3>2
      <4> QED
        BY <1>1, <4>1, FrontOf DEF Popped
    <3> QED
      BY <3>1, <3>2
  <2> HIDE DEF known
  <2>5. AllocateScope(s, r) =
          [nameToId |-> s.nameToId \ known, stack |-> Popped(s.stack), ids |-> Append(s.ids, its),
           names |-> s.names, parents |-> s.parents]
    BY <1>1, <2>2
  <2> QED
    BY <1>1, <2>3, <2>4, <2>5 DEF WalkStates
<1>5. CASE ~(r.start /\ known = {}) /\ ~(~r.start /\ known # {})
  <2>1. AllocateScope(s, r) = [s EXCEPT !.ids = Append(@, 0)]
    BY <1>5 DEF AllocateScope
  <2>2. AllocateScope(s, r) =
          [nameToId |-> s.nameToId, stack |-> s.stack, ids |-> Append(s.ids, 0),
           names |-> s.names, parents |-> s.parents]
    BY <1>1, <2>1
  <2>3. Append(s.ids, 0) \in Seq(Nat)
    BY <1>1
  <2> QED
    BY <1>1, <2>2, <2>3 DEF WalkStates
<1> QED
  BY <1>3, <1>4, <1>5

\* So does the reference that keeps the names open around an op.
LEMMA OpenKeepsType ==
  ASSUME NEW s \in OpenStates, NEW r \in RecordOps
  PROVE  Walked(s, r) \in OpenStates
<1>1. /\ s = [open |-> s.open, paths |-> s.paths] /\ s.open \in Seq(STRING)
      /\ s.paths \in Seq(Seq(STRING)) /\ r.name \in STRING
  BY DEF OpenStates, RecordOps
<1>2. CASE r.start
  <2> DEFINE in == Append(s.open, r.name)
  <2>1. Walked(s, r) = [open |-> in, paths |-> Append(s.paths, in)]
    BY <1>2 DEF Walked
  <2>2. in \in Seq(STRING)
    BY <1>1
  <2> HIDE DEF in
  <2>3. Append(s.paths, in) \in Seq(Seq(STRING))
    BY <1>1, <2>2
  <2> QED
    BY <2>1, <2>2, <2>3 DEF OpenStates
<1>3. CASE ~r.start
  <2> DEFINE left == UpToName(s.open, r.name)
             at == {i \in DOMAIN s.open : s.open[i] = r.name}
  <2>1. left \in Seq(STRING)
    <3>1. CASE at = {}
      BY <1>1, <3>1 DEF UpToName
    <3>2. CASE at # {}
      <4> DEFINE i == CHOOSE i \in at : TRUE
      <4>1. i \in 1 .. Len(s.open) /\ i - 1 \in 0 .. Len(s.open)
        BY <1>1, <3>2
      <4>2. left = SubSeq(s.open, 1, i - 1)
        BY <3>2 DEF UpToName
      <4> HIDE DEF i, left
      <4> QED
        BY <1>1, <4>1, <4>2, FrontOf
    <3> QED
      BY <3>1, <3>2
  <2> HIDE DEF left
  <2>2. Walked(s, r) = [s EXCEPT !.open = left]
    BY <1>3 DEF Walked, left
  <2>3. Walked(s, r) = [open |-> left, paths |-> s.paths]
    BY <1>1, <2>2
  <2> QED
    BY <1>1, <2>1, <2>3 DEF OpenStates
<1> QED
  BY <1>2, <1>3

\* Record op by record op: the pass, and the scopes that are open.
LEMMA ScopesWalk ==
  ASSUME NEW k, k.records \in Seq(RecordOps)
  PROVE  \E g \in [0 .. Len(k.records) -> WalkStates] :
           /\ g[0] = NoScopes
           /\ \A n \in 1 .. Len(k.records) : g[n] = AllocateScope(g[n - 1], k.records[n])
           /\ ScopeIds(k) = g[Len(k.records)]
<1> DEFINE N == Len(k.records)
           base == NoScopes
           Step == [vn \in WalkStates \X (1 .. N) |-> AllocateScope(vn[1], k.records[vn[2]])]
           Solves(f) == f = [n \in 0 .. N |-> IF n = 0 THEN base ELSE AllocateScope(f[n - 1], k.records[n])]
<1>1. N \in Nat /\ \A n \in 1 .. N : k.records[n] \in RecordOps
  OBVIOUS
<1>2. base \in WalkStates
  BY DEF WalkStates, NoScopes
<1>3. Step \in [WalkStates \X (1 .. N) -> WalkStates]
  <2>1. \A v \in WalkStates, n \in 1 .. N : AllocateScope(v, k.records[n]) \in WalkStates
    BY <1>1, WalkKeepsType
  <2> HIDE DEF N
  <2> QED
    BY <2>1
<1> HIDE DEF base
<1>4. PICK g \in [0 .. N -> WalkStates] : Recurs(g, N, base, Step)
  <2> HIDE DEF Step, N
  <2> QED
    BY <1>1, <1>2, <1>3, Recursion
<1> HIDE DEF N
<1>5. \A n \in 0 .. N : g[n] = IF n = 0 THEN base ELSE AllocateScope(g[n - 1], k.records[n])
  <2>1. \A n \in 0 .. N : g[n] = IF n = 0 THEN base ELSE Step[<<g[n - 1], n>>]
    <3> HIDE DEF Step
    <3> QED
      BY <1>4 DEF Recurs
  <2>2. \A n \in 1 .. N : <<g[n - 1], n>> \in WalkStates \X (1 .. N)
    BY <1>1
  <2>3. \A n \in 1 .. N : Step[<<g[n - 1], n>>] = AllocateScope(g[n - 1], k.records[n])
    BY <2>2
  <2> HIDE DEF Step
  <2>4. \A n \in 0 .. N : n # 0 => n \in 1 .. N
    BY <1>1
  <2> QED
    BY <2>1, <2>3, <2>4
<1>6. Solves(g)
  BY <1>5
<1> DEFINE f == CHOOSE f : Solves(f)
<1>7. Solves(f)
  <2> HIDE DEF Solves
  <2> QED
    BY <1>6
<1>8. ScopeIds(k) = f[N]
  BY DEF ScopeIds, N, base
<1> HIDE DEF f
<1>9. \A n \in 0 .. N : f[n] = g[n]
  <2> DEFINE P == {n \in 0 .. N : f[n] = g[n]}
  <2>1. 0 \in P /\ \A n \in 1 .. N : n - 1 \in P => n \in P
    BY <1>1, <1>6, <1>7
  <2>2. 0 .. N \subseteq P
    <3> HIDE DEF P
    <3> QED
      BY <1>1, <2>1, UpTo
  <2> QED
    BY <2>2
<1>10. 0 \in 0 .. N /\ N \in 0 .. N /\ \A n \in 1 .. N : n \in 0 .. N /\ n # 0
  BY <1>1
<1>11. g[0] = base /\ \A n \in 1 .. N : g[n] = AllocateScope(g[n - 1], k.records[n])
  BY <1>5, <1>10
<1> QED
  BY <1>8, <1>9, <1>10, <1>11 DEF N, base

\* The same for what is open.
LEMMA OpenWalk ==
  ASSUME NEW k, k.records \in Seq(RecordOps)
  PROVE  \E g \in [0 .. Len(k.records) -> OpenStates] :
           /\ g[0] = [open |-> <<>>, paths |-> <<>>]
           /\ \A n \in 1 .. Len(k.records) : g[n] = Walked(g[n - 1], k.records[n])
           /\ Enclosing(k) = g[Len(k.records)].paths
<1> DEFINE N == Len(k.records)
           base == [open |-> <<>>, paths |-> <<>>]
           Step == [vn \in OpenStates \X (1 .. N) |-> Walked(vn[1], k.records[vn[2]])]
           Solves(f) == f = [n \in 0 .. N |-> IF n = 0 THEN base ELSE Walked(f[n - 1], k.records[n])]
<1>1. N \in Nat /\ \A n \in 1 .. N : k.records[n] \in RecordOps
  OBVIOUS
<1>2. base \in OpenStates
  BY DEF OpenStates
<1>3. Step \in [OpenStates \X (1 .. N) -> OpenStates]
  <2>1. \A v \in OpenStates, n \in 1 .. N : Walked(v, k.records[n]) \in OpenStates
    BY <1>1, OpenKeepsType
  <2> HIDE DEF N
  <2> QED
    BY <2>1
<1> HIDE DEF base
<1>4. PICK g \in [0 .. N -> OpenStates] : Recurs(g, N, base, Step)
  <2> HIDE DEF Step, N
  <2> QED
    BY <1>1, <1>2, <1>3, Recursion
<1> HIDE DEF N
<1>5. \A n \in 0 .. N : g[n] = IF n = 0 THEN base ELSE Walked(g[n - 1], k.records[n])
  <2>1. \A n \in 0 .. N : g[n] = IF n = 0 THEN base ELSE Step[<<g[n - 1], n>>]
    <3> HIDE DEF Step
    <3> QED
      BY <1>4 DEF Recurs
  <2>2. \A n \in 1 .. N : <<g[n - 1], n>> \in OpenStates \X (1 .. N)
    BY <1>1
  <2>3. \A n \in 1 .. N : Step[<<g[n - 1], n>>] = Walked(g[n - 1], k.records[n])
    BY <2>2
  <2> HIDE DEF Step
  <2>4. \A n \in 0 .. N : n # 0 => n \in 1 .. N
    BY <1>1
  <2> QED
    BY <2>1, <2>3, <2>4
<1>6. Solves(g)
  BY <1>5
<1> DEFINE f == CHOOSE f : Solves(f)
<1>7. Solves(f)
  <2> HIDE DEF Solves
  <2> QED
    BY <1>6
<1>8. Enclosing(k) = f[N].paths
  BY DEF Enclosing, N, base
<1> HIDE DEF f
<1>9. \A n \in 0 .. N : f[n] = g[n]
  <2> DEFINE P == {n \in 0 .. N : f[n] = g[n]}
  <2>1. 0 \in P /\ \A n \in 1 .. N : n - 1 \in P => n \in P
    BY <1>1, <1>6, <1>7
  <2>2. 0 .. N \subseteq P
    <3> HIDE DEF P
    <3> QED
      BY <1>1, <2>1, UpTo
  <2> QED
    BY <2>2
<1>10. 0 \in 0 .. N /\ N \in 0 .. N /\ \A n \in 1 .. N : n \in 0 .. N /\ n # 0
  BY <1>1
<1>11. g[0] = base /\ \A n \in 1 .. N : g[n] = Walked(g[n - 1], k.records[n])
  BY <1>5, <1>10
<1> QED
  BY <1>8, <1>9, <1>10, <1>11 DEF N, base

\* After n record ops of a kernel where names are paired: every op has got the id of a
\* scope, and the names without an end have one each.
IdsGiven(T, n, s) ==
  /\ Len(s.ids) = n /\ \A i \in 1 .. n : s.ids[i] \in 0 .. Len(s.names) - 1
  /\ \A p \in s.nameToId : p[2] \in 0 .. Len(s.names) - 1
  /\ {p[1] : p \in s.nameToId} = PendingScopes(T, n)
  /\ \A p, q \in s.nameToId : p[1] = q[1] => p = q

\* What one op does then.
Started(s, t, name) ==
  /\ t.nameToId = s.nameToId \cup {<<name, Len(s.names)>>}
  /\ t.stack = Append(s.stack, Len(s.names)) /\ t.ids = Append(s.ids, Len(s.names))
  /\ t.names = Append(s.names, name)
  /\ t.parents = IF s.stack = <<>> THEN s.parents
                 ELSE s.parents \cup {<<Len(s.names), s.stack[Len(s.stack)]>>}
Ended(s, t, p) ==
  /\ t.nameToId = s.nameToId \ {p} /\ t.stack = Popped(s.stack) /\ t.ids = Append(s.ids, p[2])
  /\ t.names = s.names /\ t.parents = s.parents

\* A record op of a paired kernel: a start takes the next id, an end the id its name has.
LEMMA OpGivesId ==
  ASSUME NEW T, NEW n \in Nat \ {0}, NEW s \in WalkStates, NEW r \in RecordOps,
         NEW t, t = AllocateScope(s, r), IdsGiven(T, n - 1, s),
         IF r.start
           THEN /\ r.name \notin PendingScopes(T, n - 1)
                /\ PendingScopes(T, n) = PendingScopes(T, n - 1) \cup {r.name}
           ELSE /\ r.name \in PendingScopes(T, n - 1)
                /\ PendingScopes(T, n) = PendingScopes(T, n - 1) \ {r.name}
  PROVE  /\ IdsGiven(T, n, t)
         /\ IF r.start THEN Started(s, t, r.name)
            ELSE \E p \in s.nameToId : p[1] = r.name /\ Ended(s, t, p)
<1> DEFINE known == {p \in s.nameToId : p[1] = r.name}
           id == Len(s.names)
<1>1. /\ s = [nameToId |-> s.nameToId, stack |-> s.stack, ids |-> s.ids, names |-> s.names,
              parents |-> s.parents]
      /\ s.nameToId \subseteq STRING \X Nat /\ s.stack \in Seq(Nat) /\ s.ids \in Seq(Nat)
      /\ s.names \in Seq(STRING) /\ r.name \in STRING /\ r.start \in BOOLEAN
  BY DEF WalkStates, RecordOps
<1>2. /\ Len(s.ids) = n - 1 /\ \A i \in 1 .. n-1 : s.ids[i] \in 0 .. id - 1
      /\ \A p \in s.nameToId : p[2] \in 0 .. id - 1
      /\ {p[1] : p \in s.nameToId} = PendingScopes(T, n - 1)
      /\ \A p, q \in s.nameToId : p[1] = q[1] => p = q
  BY DEF IdsGiven
<1>3. id \in Nat
  BY <1>1
<1>4. CASE r.start
  <2>1. known = {}
    BY <1>2, <1>4
  <2>2. Started(s, t, r.name)
    <3> DEFINE up == IF s.stack = <<>> THEN s.parents
                     ELSE s.parents \cup {<<id, s.stack[Len(s.stack)]>>}
    <3>1. t = [nameToId |-> s.nameToId \cup {<<r.name, id>>}, stack |-> Append(s.stack, id),
               ids |-> Append(s.ids, id), names |-> Append(s.names, r.name), parents |-> up]
      BY <1>4, <2>1 DEF AllocateScope
    <3> HIDE DEF up
    <3>2. t.parents = up
      BY <3>1
    <3> QED
      BY <3>1, <3>2 DEF Started, up
  <2>3. /\ t.nameToId = s.nameToId \cup {<<r.name, id>>} /\ t.ids = Append(s.ids, id)
        /\ t.names = Append(s.names, r.name)
    BY <2>2 DEF Started
  <2>4. Len(t.names) = id + 1 /\ id \in 0 .. Len(t.names) - 1
        /\ \A x : x \in 0 .. id - 1 => x \in 0 .. Len(t.names) - 1
    BY <1>1, <2>3
  <2> DEFINE new == <<r.name, id>>
  <2>5. new[1] = r.name /\ new[2] = id
    OBVIOUS
  <2> HIDE DEF new, id
  <2>6. Len(t.ids) = n /\ \A i \in 1 .. n : t.ids[i] \in 0 .. Len(t.names) - 1
    <3>1. Len(t.ids) = n /\ t.ids[n] = id /\ \A i \in 1 .. n-1 : t.ids[i] = s.ids[i]
      BY <1>1, <1>2, <1>3, <2>3
    <3>2. \A i \in 1 .. n : i = n \/ i \in 1 .. n-1
      OBVIOUS
    <3>3. \A i \in 1 .. n-1 : s.ids[i] \in 0 .. id - 1
      BY <1>2
    <3>4. id \in 0 .. Len(t.names) - 1 /\ \A x : x \in 0 .. id - 1 => x \in 0 .. Len(t.names) - 1
      BY <2>4
    <3> DEFINE Fits(x) == x \in 0 .. Len(t.names) - 1
    <3>5. Fits(id) /\ \A i \in 1 .. n-1 : Fits(t.ids[i])
      BY <3>1, <3>3, <3>4
    <3> HIDE DEF Fits
    <3>6. \A i \in 1 .. n : Fits(t.ids[i])
      BY <3>1, <3>2, <3>5
    <3> QED
      BY <3>1, <3>6 DEF Fits
  <2>7. t.nameToId = s.nameToId \cup {new}
    BY <2>3 DEF new
  <2>8. \A p \in t.nameToId : p[2] \in 0 .. Len(t.names) - 1
    BY <1>2, <2>4, <2>5, <2>7
  <2>9. {p[1] : p \in t.nameToId} = PendingScopes(T, n)
    BY <1>2, <1>4, <2>5, <2>7
  <2>10. \A p, q \in t.nameToId : p[1] = q[1] => p = q
    <3>1. \A p \in s.nameToId : p[1] # new[1]
      BY <2>1, <2>5
    <3> QED
      BY <1>2, <2>7, <3>1
  <2> QED
    BY <1>4, <2>2, <2>6, <2>8, <2>9, <2>10 DEF IdsGiven
<1>5. CASE ~r.start
  <2>1. PICK p \in s.nameToId : p[1] = r.name
    BY <1>2, <1>5
  <2>2. known = {p}
    BY <1>2, <2>1
  <2>3. (CHOOSE q \in {p} : TRUE) = p
    OBVIOUS
  <2>4. t = [s EXCEPT !.nameToId = @ \ {p}, !.stack = Popped(@), !.ids = Append(@, p[2])]
    <3>1. known # {}
      BY <2>2
    <3>2. t = [s EXCEPT !.nameToId = @ \ known, !.stack = Popped(@),
                        !.ids = Append(@, (CHOOSE q \in known : TRUE)[2])]
      BY <1>5, <3>1 DEF AllocateScope
    <3> HIDE DEF known
    <3> QED
      BY <2>2, <2>3, <3>2
  <2>5. Ended(s, t, p)
    <3>1. t = [nameToId |-> s.nameToId \ {p}, stack |-> Popped(s.stack), ids |-> Append(s.ids, p[2]),
               names |-> s.names, parents |-> s.parents]
      BY <1>1, <2>4
    <3> QED
      BY <3>1 DEF Ended
  <2>6. t.nameToId = s.nameToId \ {p} /\ t.ids = Append(s.ids, p[2]) /\ t.names = s.names
    BY <2>5 DEF Ended
  <2>7. p[2] \in 0 .. id - 1 /\ p[2] \in Nat
    BY <1>2
  <2> HIDE DEF id
  <2>8. Len(t.ids) = n /\ \A i \in 1 .. n : t.ids[i] \in 0 .. id - 1
    <3>1. Len(t.ids) = n /\ t.ids[n] = p[2] /\ \A i \in 1 .. n-1 : t.ids[i] = s.ids[i]
      BY <1>1, <1>2, <2>6, <2>7
    <3> QED
      BY <1>2, <2>7, <3>1
  <2>9. {q[1] : q \in t.nameToId} = PendingScopes(T, n)
    <3>1. \A q \in s.nameToId : q = p <=> q[1] = r.name
      BY <1>2, <2>1
    <3> QED
      BY <1>2, <1>5, <2>6, <3>1
  <2>10. \A q \in t.nameToId : q[2] \in 0 .. id - 1
    BY <1>2, <2>6
  <2>11. \A q, u \in t.nameToId : q[1] = u[1] => q = u
    BY <1>2, <2>6
  <2>12. IdsGiven(T, n, t)
    BY <2>6, <2>8, <2>9, <2>10, <2>11 DEF IdsGiven, id
  <2> QED
    BY <1>5, <2>1, <2>5, <2>12
<1> QED
  BY <1>4, <1>5

---------------------------------------------------------------------------------
(* The stack of the pass and the names open around a record op.                *)

\* Where scopes nest, the stack of the pass is what is lexically open: the same names, in
\* the order they were started.
StackIsOpen(T, n, s, e) ==
  /\ Len(s.stack) = Len(e.open)
  /\ \A i \in 1 .. Len(e.open) : <<e.open[i], s.stack[i]>> \in s.nameToId
  /\ \A p \in s.nameToId : \E i \in 1 .. Len(e.open) : e.open[i] = p[1]
  /\ \A i, j \in 1 .. Len(e.open) : i < j =>
       \A x, y \in Pending(T, n) : T[x].scope = e.open[i] /\ T[y].scope = e.open[j] => x < y
\* A scope has one parent, an earlier scope.
ParentsEarlier(s) ==
  /\ \A p \in s.parents : p[1] \in 0 .. Len(s.names) - 1 /\ p[2] \in 0 .. p[1] - 1
  /\ \A p, q \in s.parents : p[1] = q[1] => p = q
\* The path of a scope is that of its parent and its name.
PathOf(s, paths, id) ==
  /\ (\A p \in s.parents : p[1] # id) => paths[id + 1] = <<s.names[id + 1]>>
  /\ \A p \in s.parents : p[1] = id => paths[id + 1] = Append(paths[p[2] + 1], s.names[id + 1])
PathsFollow(s, e) ==
  /\ Len(s.names) = Len(e.paths)
  /\ \A id \in 0 .. Len(s.names) - 1 : PathOf(s, e.paths, id)
  /\ \A i \in 1 .. Len(e.open) : e.paths[s.stack[i] + 1] = SubSeq(e.open, 1, i)

\* What is pending after one op more.
LEMMA PendingNext ==
  ASSUME NEW T, NEW n \in Nat \ {0}
  PROVE  /\ \A y \in Pending(T, n) : y = n \/ y \in Pending(T, n - 1)
         /\ \A y \in Pending(T, n) : T[y].scope = T[n].scope => y = n
         /\ \A y \in Pending(T, n) : y \in 1 .. n
<1>1. ASSUME NEW y \in Pending(T, n)
      PROVE  y \in 1 .. n /\ (y # n => y \in Pending(T, n - 1)) /\ (T[y].scope = T[n].scope => y = n)
  <2>1. y \in 1 .. n /\ T[y].start /\ \A z \in y+1 .. n : T[z].scope # T[y].scope
    BY DEF Pending
  <2>2. ASSUME y # n
        PROVE  y \in Pending(T, n - 1) /\ T[n].scope # T[y].scope
    <3>1. n \in y+1 .. n /\ y \in 1 .. n-1 /\ \A z \in y+1 .. n-1 : z \in y+1 .. n
      BY <2>1, <2>2
    <3> QED
      BY <2>1, <3>1 DEF Pending
  <2> QED
    BY <2>1, <2>2
<1> QED
  BY <1>1

\* A start goes on top of both, the ids of the pass and the names open around it.
LEMMA StackAtStart ==
  ASSUME NEW T, NEW n \in Nat \ {0}, NEW s \in WalkStates, NEW t \in WalkStates,
         NEW e \in OpenStates, NEW f \in OpenStates, NEW x \in STRING,
         IdsGiven(T, n - 1, s), StackIsOpen(T, n - 1, s, e), Started(s, t, x),
         f.open = Append(e.open, x), T[n].scope = x, x \notin PendingScopes(T, n - 1)
  PROVE  StackIsOpen(T, n, t, f)
<1>1. /\ s.stack \in Seq(Nat) /\ e.open \in Seq(STRING) /\ Len(s.names) \in Nat
  BY DEF WalkStates, OpenStates
<1>2. /\ Len(s.stack) = Len(e.open)
      /\ \A i \in 1 .. Len(e.open) : <<e.open[i], s.stack[i]>> \in s.nameToId
      /\ \A p \in s.nameToId : \E i \in 1 .. Len(e.open) : e.open[i] = p[1]
      /\ \A i, j \in 1 .. Len(e.open) : i < j =>
           \A u, v \in Pending(T, n - 1) : T[u].scope = e.open[i] /\ T[v].scope = e.open[j] => u < v
  BY DEF StackIsOpen
<1>3. t.nameToId = s.nameToId \cup {<<x, Len(s.names)>>} /\ t.stack = Append(s.stack, Len(s.names))
  BY DEF Started
<1> DEFINE L == Len(e.open)
<1>4. /\ Len(f.open) = L + 1 /\ Len(t.stack) = L + 1 /\ L \in Nat
      /\ f.open[L + 1] = x /\ t.stack[L + 1] = Len(s.names)
      /\ \A i \in 1 .. L : f.open[i] = e.open[i] /\ t.stack[i] = s.stack[i]
  BY <1>1, <1>2, <1>3
<1> HIDE DEF L
<1>5. \A i \in 1 .. L + 1 : i = L + 1 \/ i \in 1 .. L
  BY <1>4
<1>6. \A i \in 1 .. L + 1 : <<f.open[i], t.stack[i]>> \in t.nameToId
  BY <1>2, <1>3, <1>4, <1>5 DEF L
<1>7. \A p \in t.nameToId : \E i \in 1 .. L + 1 : f.open[i] = p[1]
  <2> TAKE p \in t.nameToId
  <2>1. CASE p \in s.nameToId
    <3>1. PICK i \in 1 .. L : e.open[i] = p[1]
      BY <1>2, <2>1 DEF L
    <3>2. i \in 1 .. L + 1
      BY <1>4
    <3> QED
      BY <1>4, <3>1, <3>2
  <2>2. CASE p = <<x, Len(s.names)>>
    <3>1. p[1] = x /\ L + 1 \in 1 .. L + 1
      BY <1>4, <2>2
    <3> QED
      BY <1>4, <3>1
  <2> QED
    BY <1>3, <2>1, <2>2
<1>8. \A i \in 1 .. L : e.open[i] \in PendingScopes(T, n - 1)
  <2> TAKE i \in 1 .. L
  <2>1. <<e.open[i], s.stack[i]>> \in s.nameToId
    BY <1>2 DEF L
  <2>2. <<e.open[i], s.stack[i]>>[1] = e.open[i]
    OBVIOUS
  <2> QED
    BY <2>1, <2>2 DEF IdsGiven
<1>9. ASSUME NEW i \in 1 .. L + 1, NEW j \in 1 .. L + 1, i < j,
             NEW u \in Pending(T, n), NEW v \in Pending(T, n),
             T[u].scope = f.open[i], T[v].scope = f.open[j]
      PROVE  u < v
  <2>1. i \in 1 .. L /\ f.open[i] = e.open[i] /\ e.open[i] # x
    <3>1. i \in 1 .. L
      BY <1>4, <1>9
    <3>2. e.open[i] \in PendingScopes(T, n - 1)
      BY <1>8, <3>1
    <3> QED
      BY <1>4, <3>1, <3>2
  <2>2. u # n
    BY <1>9, <2>1
  <2>3. u \in Pending(T, n - 1) /\ u \in 1 .. n
    BY <2>2, PendingNext
  <2>4. v \in 1 .. n /\ (v # n => v \in Pending(T, n - 1)) /\ (T[v].scope = x => v = n)
    BY PendingNext
  <2>5. CASE v = n
    BY <2>2, <2>3, <2>5
  <2>6. CASE v # n
    <3>1. j \in 1 .. L
      BY <1>4, <1>5, <1>9, <2>4, <2>6
    <3>2. T[u].scope = e.open[i] /\ T[v].scope = e.open[j]
      BY <1>4, <1>9, <2>1, <3>1
    <3> QED
      BY <1>2, <1>9, <2>1, <2>3, <2>4, <2>6, <3>1, <3>2 DEF L
  <2> QED
    BY <2>5, <2>6
<1>10. \A i, j \in 1 .. L + 1 : i < j =>
         \A u, v \in Pending(T, n) : T[u].scope = f.open[i] /\ T[v].scope = f.open[j] => u < v
  BY <1>9
<1> QED
  BY <1>4, <1>6, <1>7, <1>10 DEF StackIsOpen

\* Pairs that overlap are inside one another.
LEMMA NestedMatches ==
  ASSUME NEW k, NEW i \in DOMAIN k.records, NEW j \in DOMAIN k.records,
         NEW u \in DOMAIN k.records, NEW v \in DOMAIN k.records,
         k.records \in Seq(RecordOps), Nested(k), Matches(Named(k), i, j), Matches(Named(k), u, v), i < u, u < j
  PROVE  v < j
<1>1. \A n \in DOMAIN k.records : Named(k)[n].scope = k.records[n].name /\ Named(k)[n].start = k.records[n].start
  BY DEF Named
<1>2. ASSUME NEW a \in DOMAIN k.records, NEW b \in DOMAIN k.records, Matches(Named(k), a, b)
      PROVE  /\ a < b /\ k.records[a].start /\ ~k.records[b].start
             /\ k.records[b].name = k.records[a].name
             /\ \A x \in a+1 .. b-1 : k.records[x].name # k.records[a].name
  <2>1. \A x \in a+1 .. b-1 : x \in DOMAIN k.records
    OBVIOUS
  <2> QED
    BY <1>1, <1>2, <2>1 DEF Matches
<1>3. /\ i < j /\ k.records[i].start /\ ~k.records[j].start /\ k.records[j].name = k.records[i].name
      /\ \A x \in i+1 .. j-1 : k.records[x].name # k.records[i].name
  BY <1>2
<1>4. /\ u < v /\ k.records[u].start /\ ~k.records[v].start /\ k.records[v].name = k.records[u].name
      /\ \A x \in u+1 .. v-1 : k.records[x].name # k.records[u].name
  BY <1>2
<1> QED
  BY <1>3, <1>4 DEF Nested

\* The end of a scope is that of the last one started.
LEMMA EndIsOnTop ==
  ASSUME NEW k, NEW n \in DOMAIN k.records, NEW s \in WalkStates, NEW e \in OpenStates,
         NEW i \in 1 .. Len(e.open),
         k.records \in Seq(RecordOps), Paired(Named(k)), Nested(k),
         IdsGiven(Named(k), n - 1, s), StackIsOpen(Named(k), n - 1, s, e),
         ~k.records[n].start, e.open[i] = k.records[n].name
  PROVE  i = Len(e.open)
<1> DEFINE T == Named(k)
           L == Len(e.open)
<1>1. \A x \in DOMAIN k.records : T[x].scope = k.records[x].name /\ T[x].start = k.records[x].start
  BY DEF Named
<1>2. DOMAIN T = DOMAIN k.records /\ DOMAIN k.records = 1 .. Len(k.records) /\ n \in Nat /\ Len(k.records) \in Nat
  BY DEF Named
<1>3. e.open \in Seq(STRING) /\ L \in Nat
  BY DEF OpenStates
<1>4. ASSUME NEW a \in 1 .. L
      PROVE  \E u \in Pending(T, n - 1) : T[u].scope = e.open[a]
  <2>1. <<e.open[a], s.stack[a]>> \in s.nameToId
    BY DEF StackIsOpen
  <2>2. <<e.open[a], s.stack[a]>>[1] = e.open[a]
    OBVIOUS
  <2>3. e.open[a] \in PendingScopes(T, n - 1)
    BY <2>1, <2>2 DEF IdsGiven
  <2> QED
    BY <2>3 DEF PendingScopes
<1>5. \A a, b \in 1 .. L : a < b =>
        \A x, y \in Pending(T, n - 1) : T[x].scope = e.open[a] /\ T[y].scope = e.open[b] => x < y
  BY DEF StackIsOpen
<1>6. \A u \in Pending(T, n - 1) : /\ u \in 1 .. n - 1 /\ T[u].start /\ u \in DOMAIN k.records
                                   /\ \A y \in u+1 .. n-1 : T[y].scope # T[u].scope
  BY <1>2 DEF Pending
<1>7. ASSUME i < L
      PROVE  FALSE
  <2>1. PICK u \in Pending(T, n - 1) : T[u].scope = e.open[i]
    BY <1>4
  <2>2. L \in 1 .. L
    BY <1>3
  <2>3. PICK v \in Pending(T, n - 1) : T[v].scope = e.open[L]
    BY <1>4, <2>2
  <2>4. u < v
    BY <1>5, <1>7, <2>1, <2>2, <2>3
  <2>5. T[n].scope = T[u].scope /\ ~T[n].start
    BY <1>1, <2>1
  <2>6. T[n].scope # T[v].scope
    <3>1. T[u].scope # T[v].scope
      <4> SUFFICES ASSUME T[u].scope = T[v].scope PROVE FALSE
        OBVIOUS
      <4>1. v \in u+1 .. n-1
        BY <1>6, <2>4
      <4> QED
        BY <1>6, <4>1
    <3> QED
      BY <2>5, <3>1
  <2>7. Matches(T, u, n)
    BY <1>6, <2>5 DEF Matches
  <2>8. PICK z \in DOMAIN k.records : Matches(T, v, z)
    BY <1>2, <1>6 DEF Paired
  <2>9. z > n
    <3>1. v < z /\ T[z].scope = T[v].scope
      BY <2>8 DEF Matches
    <3>2. ~(z \in v+1 .. n-1) /\ z # n
      BY <1>6, <2>6, <3>1
    <3> QED
      BY <1>2, <1>6, <3>1, <3>2
  <2>10. z < n
    <3>1. u \in DOMAIN k.records /\ v \in DOMAIN k.records /\ v < n
      BY <1>2, <1>6
    <3> HIDE DEF T
    <3>2. Matches(Named(k), u, n) /\ Matches(Named(k), v, z)
      BY <2>7, <2>8 DEF T
    <3> QED
      BY <2>4, <2>8, <3>1, <3>2, NestedMatches
  <2> QED
    BY <1>2, <2>9, <2>10
<1> QED
  BY <1>3, <1>7

\* So an end takes off the stack what it closes.
LEMMA StackAtEnd ==
  ASSUME NEW k, NEW n \in DOMAIN k.records, NEW s \in WalkStates, NEW t, NEW p \in s.nameToId,
         NEW e \in OpenStates, NEW f,
         k.records \in Seq(RecordOps), Paired(Named(k)), Nested(k),
         IdsGiven(Named(k), n - 1, s), StackIsOpen(Named(k), n - 1, s, e),
         ~k.records[n].start, p[1] = k.records[n].name, Ended(s, t, p),
         f.open = UpToName(e.open, k.records[n].name)
  PROVE  /\ Len(e.open) # 0 /\ f.open = SubSeq(e.open, 1, Len(e.open) - 1)
         /\ t.stack = SubSeq(s.stack, 1, Len(e.open) - 1)
         /\ StackIsOpen(Named(k), n, t, f)
<1> DEFINE T == Named(k)
           L == Len(e.open)
           x == k.records[n].name
<1>1. e.open \in Seq(STRING) /\ L \in Nat /\ s.stack \in Seq(Nat) /\ s.nameToId \subseteq STRING \X Nat
      /\ n \in Nat \ {0}
  BY SMTT(30) DEF OpenStates, WalkStates
<1>2. /\ Len(s.stack) = L
      /\ \A i \in 1 .. L : <<e.open[i], s.stack[i]>> \in s.nameToId
      /\ \A q \in s.nameToId : \E i \in 1 .. L : e.open[i] = q[1]
      /\ \A i, j \in 1 .. L : i < j =>
           \A u, v \in Pending(T, n - 1) : T[u].scope = e.open[i] /\ T[v].scope = e.open[j] => u < v
  BY DEF StackIsOpen
<1>3. \A i \in 1 .. L : e.open[i] = x => i = L
  BY EndIsOnTop
<1>4. L # 0 /\ L \in 1 .. L /\ e.open[L] = x
  BY <1>1, <1>2, <1>3
<1>5. t.nameToId = s.nameToId \ {p} /\ t.stack = SubSeq(s.stack, 1, L - 1)
  BY <1>2 DEF Ended, Popped
<1>6. f.open = SubSeq(e.open, 1, L - 1)
  <2>1. {i \in DOMAIN e.open : e.open[i] = x} = {L}
    <3>1. DOMAIN e.open = 1 .. L
      BY <1>1
    <3> HIDE DEF L, x
    <3> QED
      BY <1>3, <1>4, <3>1
  <2>2. (CHOOSE i \in {L} : TRUE) = L
    OBVIOUS
  <2> QED
    BY <2>1, <2>2 DEF UpToName
<1>7. L - 1 \in 0 .. L /\ L - 1 \in Nat
  BY <1>1, <1>4
<1>8. /\ Len(f.open) = L - 1 /\ Len(t.stack) = L - 1
      /\ \A i \in 1 .. L - 1 : f.open[i] = e.open[i] /\ t.stack[i] = s.stack[i]
  <2>1. Len(f.open) = L - 1 /\ \A i \in 1 .. L - 1 : f.open[i] = e.open[i]
    BY <1>1, <1>6, <1>7, FrontOf
  <2>2. Len(t.stack) = L - 1 /\ \A i \in 1 .. L - 1 : t.stack[i] = s.stack[i]
    BY <1>1, <1>2, <1>5, <1>7, FrontOf
  <2> QED
    BY <2>1, <2>2
<1>9. \A q, u \in s.nameToId : q[1] = u[1] => q = u
  BY DEF IdsGiven
<1> HIDE DEF L
<1>10. \A i \in 1 .. L - 1 : i \in 1 .. L /\ i # L
  BY <1>1, <1>7 DEF L
<1>11. \A i \in 1 .. L - 1 : <<f.open[i], t.stack[i]>> \in t.nameToId
  <2> TAKE i \in 1 .. L - 1
  <2>1. <<e.open[i], s.stack[i]>> \in s.nameToId /\ e.open[i] # x
    BY <1>2, <1>3, <1>10
  <2>2. <<e.open[i], s.stack[i]>> # p
    BY <2>1
  <2> QED
    BY <1>5, <1>8, <2>1, <2>2
<1>12. \A q \in t.nameToId : \E i \in 1 .. L - 1 : f.open[i] = q[1]
  <2> TAKE q \in t.nameToId
  <2>1. q \in s.nameToId /\ q # p
    BY <1>5
  <2>2. PICK i \in 1 .. L : e.open[i] = q[1]
    BY <1>2, <2>1
  <2>3. q[1] # x
    BY <1>9, <2>1
  <2>4. i \in 1 .. L - 1
    BY <1>4, <1>7, <2>2, <2>3
  <2> QED
    BY <1>8, <2>2, <2>4
<1>13. ASSUME NEW i \in 1 .. L - 1, NEW j \in 1 .. L - 1, i < j,
              NEW u \in Pending(T, n), NEW v \in Pending(T, n),
              T[u].scope = f.open[i], T[v].scope = f.open[j]
       PROVE  u < v
  <2>1. u # n /\ v # n
    BY DEF Pending, Named
  <2>2. u \in Pending(T, n - 1) /\ v \in Pending(T, n - 1)
    BY <1>1, <2>1, PendingNext
  <2>3. i \in 1 .. L /\ j \in 1 .. L /\ f.open[i] = e.open[i] /\ f.open[j] = e.open[j]
    BY <1>8, <1>10
  <2> QED
    BY <1>2, <1>13, <2>2, <2>3
<1>14. \A i, j \in 1 .. L - 1 : i < j =>
         \A u, v \in Pending(T, n) : T[u].scope = f.open[i] /\ T[v].scope = f.open[j] => u < v
  BY <1>13
<1>15. StackIsOpen(T, n, t, f)
  BY <1>8, <1>11, <1>12, <1>14 DEF StackIsOpen
<1> QED
  BY <1>4, <1>5, <1>6, <1>15 DEF L

---------------------------------------------------------------------------------
(* The paths that the parents of the scopes spell out.                         *)

\* The stack of the pass holds ids of scopes.
LEMMA StackOfScopes ==
  ASSUME NEW T, NEW n, NEW s, NEW e, IdsGiven(T, n, s), StackIsOpen(T, n, s, e)
  PROVE  \A i \in 1 .. Len(e.open) : s.stack[i] \in 0 .. Len(s.names) - 1
<1> TAKE i \in 1 .. Len(e.open)
<1> DEFINE p == <<e.open[i], s.stack[i]>>
<1>1. p \in s.nameToId
  BY DEF StackIsOpen
<1>2. p[2] = s.stack[i]
  OBVIOUS
<1> HIDE DEF p
<1>3. \A q \in s.nameToId : q[2] \in 0 .. Len(s.names) - 1
  BY DEF IdsGiven
<1>4. p[2] \in 0 .. Len(s.names) - 1
  BY <1>1, <1>3
<1> QED
  BY <1>2, <1>4

\* A scope is started: its path is what is open, and its name.
LEMMA PathsAtStart ==
  ASSUME NEW T, NEW n, NEW s \in WalkStates, NEW t \in WalkStates,
         NEW e \in OpenStates, NEW f \in OpenStates, NEW x \in STRING,
         IdsGiven(T, n, s), StackIsOpen(T, n, s, e), ParentsEarlier(s), PathsFollow(s, e),
         Started(s, t, x), f.open = Append(e.open, x), f.paths = Append(e.paths, Append(e.open, x))
  PROVE  ParentsEarlier(t) /\ PathsFollow(t, f)
<1> DEFINE c == Len(s.names)
           L == Len(e.open)
           in == Append(e.open, x)
           top == s.stack[L]
           new == <<c, top>>
<1>1. /\ s.stack \in Seq(Nat) /\ s.names \in Seq(STRING) /\ s.parents \subseteq Nat \X Nat
      /\ e.open \in Seq(STRING) /\ e.paths \in Seq(Seq(STRING)) /\ c \in Nat /\ L \in Nat
      /\ in \in Seq(STRING)
  BY DEF WalkStates, OpenStates
<1>2. Len(s.stack) = L /\ \A i \in 1 .. L : s.stack[i] \in 0 .. c - 1
  BY StackOfScopes DEF StackIsOpen
<1>3. /\ \A p \in s.parents : p[1] \in 0 .. c - 1 /\ p[2] \in 0 .. p[1] - 1
      /\ \A p, q \in s.parents : p[1] = q[1] => p = q
  BY DEF ParentsEarlier
<1>4. /\ c = Len(e.paths) /\ \A id \in 0 .. c - 1 : PathOf(s, e.paths, id)
      /\ \A i \in 1 .. L : e.paths[s.stack[i] + 1] = SubSeq(e.open, 1, i)
  BY DEF PathsFollow
<1>5. /\ t.stack = Append(s.stack, c) /\ t.names = Append(s.names, x)
      /\ t.parents = IF L = 0 THEN s.parents ELSE s.parents \cup {new}
  <2>1. s.stack = <<>> <=> L = 0
    BY <1>1, <1>2
  <2>2. Len(s.stack) = L
    BY <1>2
  <2> QED
    BY <2>1, <2>2 DEF Started
<1>6. /\ Len(t.names) = c + 1 /\ t.names[c + 1] = x /\ \A i \in 1 .. c : t.names[i] = s.names[i]
      /\ Len(t.stack) = L + 1 /\ t.stack[L + 1] = c /\ \A i \in 1 .. L : t.stack[i] = s.stack[i]
      /\ Len(f.open) = L + 1
  <2>1. Len(t.names) = c + 1 /\ t.names[c + 1] = x /\ \A i \in 1 .. c : t.names[i] = s.names[i]
    <3>1. s.names \in Seq(STRING) /\ t.names = Append(s.names, x)
      BY <1>1, <1>5
    <3> QED
      BY <3>1
  <2>2. Len(t.stack) = L + 1 /\ t.stack[L + 1] = c /\ \A i \in 1 .. L : t.stack[i] = s.stack[i]
    <3>1. s.stack \in Seq(Nat) /\ t.stack = Append(s.stack, c) /\ Len(s.stack) = L /\ c \in Nat
      BY <1>1, <1>2, <1>5
    <3> HIDE DEF c, L
    <3> QED
      BY <3>1
  <2>3. Len(f.open) = L + 1
    BY <1>1
  <2> QED
    BY <2>1, <2>2, <2>3
<1> HIDE DEF c, L, in
<1>7. /\ f.paths = Append(e.paths, in) /\ f.open = in
      /\ Len(f.paths) = c + 1 /\ f.paths[c + 1] = in /\ \A i \in 1 .. c : f.paths[i] = e.paths[i]
  <2>1. f.paths = Append(e.paths, in) /\ f.open = in
    BY DEF in
  <2> QED
    BY <1>1, <1>4, <2>1
<1>8. L # 0 => top \in 0 .. c - 1 /\ top \in Nat
  BY <1>1, <1>2
<1>9. new[1] = c /\ new[2] = top
  OBVIOUS
<1> HIDE DEF new, top
<1>10. ParentsEarlier(t)
  <2>1. \A p \in t.parents : p[1] \in 0 .. c /\ p[2] \in 0 .. p[1] - 1
    <3> TAKE p \in t.parents
    <3>1. CASE p \in s.parents
      BY <1>1, <1>3, <3>1
    <3>2. CASE p \notin s.parents
      <4>1. L # 0 /\ p = new
        BY <1>5, <3>2
      <4>2. p[1] = c /\ p[2] = top
        BY <1>9, <4>1
      <4> QED
        BY <1>1, <1>8, <4>1, <4>2
    <3> QED
      BY <3>1, <3>2
  <2>2. \A p, q \in t.parents : p[1] = q[1] => p = q
    <3>1. \A p \in s.parents : p[1] # c
      BY <1>1, <1>3
    <3> QED
      BY <1>3, <1>5, <1>9, <3>1
  <2>3. Len(t.names) - 1 = c
    BY <1>1, <1>6
  <2> QED
    BY <2>1, <2>2, <2>3 DEF ParentsEarlier
<1>11. ASSUME NEW id \in 0 .. c - 1
       PROVE  PathOf(t, f.paths, id)
  <2>1. PathOf(s, e.paths, id)
    BY <1>4
  <2>2. id + 1 \in 1 .. c /\ id # c
    BY <1>1
  <2>3. t.names[id + 1] = s.names[id + 1] /\ f.paths[id + 1] = e.paths[id + 1]
    BY <1>6, <1>7, <2>2
  <2>4. \A p : p \in t.parents /\ p[1] = id <=> p \in s.parents /\ p[1] = id
    BY <1>5, <1>9, <2>2
  <2>5. ASSUME NEW p \in s.parents
        PROVE  f.paths[p[2] + 1] = e.paths[p[2] + 1]
    <3>1. p[1] \in 0 .. c - 1 /\ p[2] \in 0 .. p[1] - 1
      BY <1>3
    <3>2. p[2] + 1 \in 1 .. c
      BY <1>1, <3>1
    <3> QED
      BY <1>7, <3>2
  <2> QED
    BY <2>1, <2>3, <2>4, <2>5 DEF PathOf
<1>12. PathOf(t, f.paths, c)
  <2>1. \A p \in s.parents : p[1] # c
    BY <1>1, <1>3
  <2>2. CASE L = 0
    <3>1. e.open = <<>>
      BY <1>1, <2>2 DEF L
    <3>2. in = <<x>>
      BY <3>1 DEF in
    <3>3. t.parents = s.parents
      BY <1>5, <2>2
    <3> QED
      BY <1>6, <1>7, <2>1, <3>2, <3>3 DEF PathOf
  <2>3. CASE L # 0
    <3>1. \A p \in t.parents : p[1] = c <=> p = new
      BY <1>5, <1>9, <2>1, <2>3
    <3>2. new \in t.parents
      BY <1>5, <2>3
    <3>3. f.paths[top + 1] = e.open
      <4>1. top + 1 \in 1 .. c /\ L \in 1 .. L
        BY <1>1, <1>8, <2>3
      <4>2. e.paths[top + 1] = SubSeq(e.open, 1, L)
        BY <1>4, <4>1 DEF top
      <4>3. SubSeq(e.open, 1, L) = e.open
        BY <1>1, FrontOfAppend DEF L
      <4> QED
        BY <1>7, <4>1, <4>2, <4>3
    <3> QED
      BY <1>6, <1>7, <1>9, <3>1, <3>2, <3>3 DEF PathOf, in
  <2> QED
    BY <2>2, <2>3
<1>13. ASSUME NEW i \in 1 .. L + 1
       PROVE  f.paths[t.stack[i] + 1] = SubSeq(f.open, 1, i)
  <2>1. CASE i = L + 1
    <3>1. SubSeq(in, 1, L + 1) = in
      BY <1>1, FrontOfAppend DEF in, L
    <3> QED
      BY <1>6, <1>7, <2>1, <3>1
  <2>2. CASE i \in 1 .. L
    <3>1. t.stack[i] = s.stack[i] /\ s.stack[i] + 1 \in 1 .. c
      <4>1. t.stack[i] = s.stack[i]
        BY <1>6, <2>2
      <4>2. s.stack[i] \in 0 .. c - 1
        BY <1>2, <2>2
      <4> QED
        BY SMTT(30), <1>1, <4>1, <4>2
    <3>2. f.paths[s.stack[i] + 1] = SubSeq(e.open, 1, i)
      BY <1>4, <1>7, <2>2, <3>1
    <3>3. SubSeq(in, 1, i) = SubSeq(e.open, 1, i)
      <4>1. i \in 0 .. Len(e.open)
        BY <1>1, <2>2 DEF L
      <4> QED
        BY <1>1, <4>1, FrontOfAppend DEF in
    <3> QED
      BY <1>7, <3>1, <3>2, <3>3
  <2>3. i = L + 1 \/ i \in 1 .. L
    BY <1>1
  <2> QED
    BY <2>1, <2>2, <2>3
<1>14. PathsFollow(t, f)
  <2>1. \A id \in 0 .. c : PathOf(t, f.paths, id)
    <3>1. \A id \in 0 .. c : id = c \/ id \in 0 .. c - 1
      BY <1>1
    <3> QED
      BY <1>11, <1>12, <3>1
  <2>2. Len(t.names) - 1 = c
    BY <1>1, <1>6
  <2> QED
    BY <1>6, <1>7, <1>13, <2>1, <2>2 DEF PathsFollow
<1> QED
  BY <1>10, <1>14

\* A scope is ended: no path changes.
LEMMA PathsAtEnd ==
  ASSUME NEW s \in WalkStates, NEW t, NEW p, NEW e \in OpenStates, NEW f,
         ParentsEarlier(s), PathsFollow(s, e), Ended(s, t, p), Len(s.stack) = Len(e.open),
         Len(e.open) # 0, f.open = SubSeq(e.open, 1, Len(e.open) - 1), f.paths = e.paths,
         t.stack = SubSeq(s.stack, 1, Len(e.open) - 1)
  PROVE  ParentsEarlier(t) /\ PathsFollow(t, f)
<1> DEFINE L == Len(e.open)
<1>1. e.open \in Seq(STRING) /\ s.stack \in Seq(Nat) /\ L \in Nat /\ L - 1 \in 0 .. L
  BY DEF WalkStates, OpenStates
<1>2. t.names = s.names /\ t.parents = s.parents
  BY DEF Ended
<1>3. ParentsEarlier(t)
  BY <1>2 DEF ParentsEarlier
<1>4. \A id : PathOf(s, e.paths, id) => PathOf(t, f.paths, id)
  BY <1>2 DEF PathOf
<1>5. /\ Len(f.open) = L - 1
      /\ \A i \in 0 .. L - 1 : SubSeq(f.open, 1, i) = SubSeq(e.open, 1, i)
  BY <1>1, FrontOf
<1>6. \A i \in 1 .. L - 1 : t.stack[i] = s.stack[i]
  BY <1>1, FrontOf
<1> HIDE DEF L
<1>7. \A i \in 1 .. L - 1 : f.paths[t.stack[i] + 1] = SubSeq(f.open, 1, i)
  <2>1. \A i \in 1 .. L : e.paths[s.stack[i] + 1] = SubSeq(e.open, 1, i)
    BY DEF PathsFollow, L
  <2>2. \A i \in 1 .. L - 1 : i \in 1 .. L /\ i \in 0 .. L - 1
    BY <1>1
  <2> QED
    BY <1>5, <1>6, <2>1, <2>2
<1>8. Len(t.names) = Len(f.paths) /\ \A id \in 0 .. Len(t.names) - 1 : PathOf(t, f.paths, id)
  BY <1>2, <1>4 DEF PathsFollow
<1> QED
  BY <1>3, <1>5, <1>7, <1>8 DEF PathsFollow

---------------------------------------------------------------------------------
(* The pass and the lexical nesting of the record ops, side by side.           *)

\* The record ops of a kernel by name, as the pairing sees them.
LEMMA NamedIsTyped ==
  ASSUME NEW k, k.records \in Seq(RecordOps)
  PROVE  /\ Named(k) \in Seq([scope : STRING, start : BOOLEAN]) /\ Len(Named(k)) = Len(k.records)
         /\ \A n \in 1 .. Len(k.records) : Named(k)[n].scope = k.records[n].name /\ Named(k)[n].start = k.records[n].start
<1> DEFINE N == Len(k.records)
<1>1. N \in Nat /\ DOMAIN k.records = 1 .. N
  OBVIOUS
<1>2. \A n \in 1 .. N : k.records[n].name \in STRING /\ k.records[n].start \in BOOLEAN
  <2>1. \A n \in 1 .. N : k.records[n] \in RecordOps
    BY <1>1
  <2> QED
    BY <2>1 DEF RecordOps
<1>3. Named(k) = [n \in 1 .. N |-> [scope |-> k.records[n].name, start |-> k.records[n].start]]
  BY <1>1 DEF Named
<1> HIDE DEF N
<1>4. Named(k) \in Seq([scope : STRING, start : BOOLEAN])
  BY <1>1, <1>2, <1>3
<1>5. Len(Named(k)) = N
  BY <1>1, <1>3
<1>6. \A n \in 1 .. N : Named(k)[n].scope = k.records[n].name /\ Named(k)[n].start = k.records[n].start
  BY <1>3
<1> QED
  BY <1>4, <1>5, <1>6 DEF N

\* One record op more of the kernel.
LEMMA NextScope ==
  ASSUME NEW k, NEW n \in 1 .. Len(k.records), NEW s \in WalkStates, NEW t,
         k.records \in Seq(RecordOps), Paired(Named(k)), IdsGiven(Named(k), n - 1, s),
         t = AllocateScope(s, k.records[n])
  PROVE  /\ IdsGiven(Named(k), n, t) /\ t \in WalkStates
         /\ IF k.records[n].start THEN Started(s, t, k.records[n].name) /\ k.records[n].name \notin PendingScopes(Named(k), n - 1)
            ELSE \E p \in s.nameToId : p[1] = k.records[n].name /\ Ended(s, t, p)
<1> DEFINE T == Named(k)
           r == k.records[n]
<1>1. r \in RecordOps /\ n \in Nat \ {0}
  OBVIOUS
<1>2. /\ T \in Seq([scope : STRING, start : BOOLEAN]) /\ n \in 1 .. Len(T)
      /\ T[n].scope = r.name /\ T[n].start = r.start
  BY NamedIsTyped
<1>3. IF r.start THEN /\ r.name \notin PendingScopes(T, n - 1)
                      /\ PendingScopes(T, n) = PendingScopes(T, n - 1) \cup {r.name}
      ELSE /\ r.name \in PendingScopes(T, n - 1)
           /\ PendingScopes(T, n) = PendingScopes(T, n - 1) \ {r.name}
  <2>1. Paired(T)
    OBVIOUS
  <2> HIDE DEF T, r
  <2> QED
    BY <1>2, <2>1, PendingPaired
<1>4. t \in WalkStates
  BY <1>1, WalkKeepsType
<1>5. t = AllocateScope(s, r) /\ IdsGiven(T, n - 1, s)
  OBVIOUS
<1> HIDE DEF T, r
<1>6. /\ IdsGiven(T, n, t)
      /\ IF r.start THEN Started(s, t, r.name)
         ELSE \E p \in s.nameToId : p[1] = r.name /\ Ended(s, t, p)
  BY <1>1, <1>3, <1>5, OpGivesId
<1> QED
  BY <1>3, <1>4, <1>6 DEF T, r

\* Before the first record op no id is given.
LEMMA NoScopesYet ==
  ASSUME NEW T, PendingScopes(T, 0) = {}
  PROVE  IdsGiven(T, 0, NoScopes)
BY DEF IdsGiven, NoScopes

\* Every record op has the id of a scope of the kernel.
LEMMA IdsFit ==
  ASSUME NEW k, k.records \in Seq(RecordOps), Paired(Named(k))
  PROVE  /\ ScopeIds(k) \in WalkStates /\ Len(ScopeIds(k).ids) = Len(k.records)
         /\ \A n \in DOMAIN k.records : ScopeIds(k).ids[n] \in 0 .. Len(ScopeIds(k).names) - 1
<1> DEFINE N == Len(k.records)
<1>1. PICK g \in [0 .. N -> WalkStates] :
        /\ g[0] = NoScopes
        /\ \A n \in 1 .. N : g[n] = AllocateScope(g[n - 1], k.records[n])
        /\ ScopeIds(k) = g[N]
  BY ScopesWalk
<1>2. N \in Nat /\ DOMAIN k.records = 1 .. N
  OBVIOUS
<1> DEFINE P == {n \in 0 .. N : IdsGiven(Named(k), n, g[n])}
<1>3. 0 \in P
  <2>1. PendingScopes(Named(k), 0) = {}
    BY NamedIsTyped, PendingPaired
  <2> QED
    BY <1>1, <1>2, <2>1, NoScopesYet
<1>4. \A n \in 1 .. N : n - 1 \in P => n \in P
  <2> TAKE n \in 1 .. N
  <2> HAVE n - 1 \in P
  <2>1. IdsGiven(Named(k), n - 1, g[n - 1]) /\ g[n - 1] \in WalkStates /\ n \in 0 .. N
    BY <1>1, <1>2
  <2>2. g[n] = AllocateScope(g[n - 1], k.records[n])
    BY <1>1
  <2>3. IdsGiven(Named(k), n, g[n])
    BY <2>1, <2>2, NextScope
  <2> QED
    BY <2>1, <2>3
<1> HIDE DEF N
<1>5. N \in P
  <2> HIDE DEF P
  <2>1. 0 .. N \subseteq P
    BY <1>2, <1>3, <1>4, UpTo
  <2> QED
    BY <1>2, <2>1
<1>6. IdsGiven(Named(k), N, ScopeIds(k)) /\ ScopeIds(k) \in WalkStates
  BY <1>1, <1>2, <1>5
<1> QED
  BY <1>2, <1>6 DEF IdsGiven, N

\* A path tree has one solution.
LEMMA ContextsUnique ==
  ASSUME NEW s \in WalkStates, NEW paths, ParentsEarlier(s), \A id \in 0 .. Len(s.names) - 1 : PathOf(s, paths, id)
  PROVE  \A id \in 0 .. Len(s.names) - 1 : ContextsOf(s)[id] = paths[id + 1]
<1> DEFINE I == 0 .. Len(s.names) - 1
           Up(i) == {p \in s.parents : p[1] = i}
           Solves(f) == f = [i \in I |-> IF Up(i) = {} THEN <<s.names[i + 1]>>
                                         ELSE Append(f[(CHOOSE p \in Up(i) : TRUE)[2]], s.names[i + 1])]
           g == [i \in I |-> paths[i + 1]]
           f == CHOOSE f : Solves(f)
<1>1. ASSUME NEW i \in I, Up(i) # {}
      PROVE  /\ (CHOOSE p \in Up(i) : TRUE) \in Up(i)
             /\ (CHOOSE p \in Up(i) : TRUE)[2] \in I /\ (CHOOSE p \in Up(i) : TRUE)[2] \in 0 .. i - 1
  <2> DEFINE q == CHOOSE p \in Up(i) : TRUE
  <2>1. q \in Up(i)
    BY <1>1
  <2> HIDE DEF q
  <2>2. q \in s.parents /\ q[1] = i
    BY <2>1
  <2>3. q[2] \in 0 .. i - 1
    BY <2>2 DEF ParentsEarlier
  <2>4. Len(s.names) \in Nat
    BY DEF WalkStates
  <2>5. q[2] \in I
    BY <2>3, <2>4
  <2> QED
    BY <2>1, <2>3, <2>5 DEF q
<1>2. ASSUME NEW i \in I
      PROVE  paths[i + 1] = IF Up(i) = {} THEN <<s.names[i + 1]>>
                            ELSE Append(paths[(CHOOSE p \in Up(i) : TRUE)[2] + 1], s.names[i + 1])
  <2>1. PathOf(s, paths, i)
    OBVIOUS
  <2>2. CASE Up(i) = {}
    BY <2>1, <2>2 DEF PathOf
  <2>3. CASE Up(i) # {}
    <3> DEFINE q == CHOOSE p \in Up(i) : TRUE
    <3>1. q \in s.parents /\ q[1] = i
      BY <1>1, <2>3
    <3> HIDE DEF q
    <3>2. paths[i + 1] = Append(paths[q[2] + 1], s.names[i + 1])
      BY <2>1, <3>1 DEF PathOf
    <3> QED
      BY <2>3, <3>2 DEF q
  <2> QED
    BY <2>2, <2>3
<1>3. Solves(g)
  <2>1. ASSUME NEW i \in I
        PROVE  g[i] = IF Up(i) = {} THEN <<s.names[i + 1]>>
                      ELSE Append(g[(CHOOSE p \in Up(i) : TRUE)[2]], s.names[i + 1])
    <3> DEFINE q == CHOOSE p \in Up(i) : TRUE
               x == s.names[i + 1]
    <3>1. g[i] = paths[i + 1]
      OBVIOUS
    <3>2. CASE Up(i) = {}
      BY <1>2, <3>1, <3>2
    <3>3. CASE Up(i) # {}
      <4>1. q[2] \in I
        BY <1>1, <3>3
      <4>2. paths[i + 1] = Append(paths[q[2] + 1], x)
        BY <1>2, <3>3
      <4> HIDE DEF q, x, I
      <4>3. g[q[2]] = paths[q[2] + 1]
        BY <4>1
      <4> HIDE DEF g
      <4>4. g[i] = Append(g[q[2]], x)
        BY <3>1, <4>2, <4>3
      <4> QED
        BY <3>3, <4>4 DEF q, x
    <3> QED
      BY <3>2, <3>3
  <2>2. g = [i \in I |-> g[i]]
    OBVIOUS
  <2> HIDE DEF g, I, Up
  <2> QED
    BY <2>1, <2>2
<1>4. Solves(f)
  <2> HIDE DEF Solves, g
  <2> QED
    BY <1>3
<1>5. ContextsOf(s) = f
  BY DEF ContextsOf
<1> HIDE DEF f
<1> DEFINE Bad == {i \in I : f[i] # g[i]}
<1>6. Bad = {}
  <2> SUFFICES ASSUME Bad # {} PROVE FALSE
    OBVIOUS
  <2>1. Bad \subseteq Nat
    OBVIOUS
  <2>2. PICK i \in Bad : \A j \in Bad : i <= j
    BY <2>1, SmallestIn
  <2>3. i \in I /\ f[i] # g[i]
    OBVIOUS
  <2> DEFINE q == CHOOSE p \in Up(i) : TRUE
             x == s.names[i + 1]
  <2>4. /\ f[i] = IF Up(i) = {} THEN <<x>> ELSE Append(f[q[2]], x)
        /\ g[i] = IF Up(i) = {} THEN <<x>> ELSE Append(g[q[2]], x)
    <3> HIDE DEF g, I, Up
    <3> QED
      BY <1>3, <1>4, <2>3
  <2>5. Up(i) # {}
    <3> HIDE DEF g, I, Up
    <3> QED
      BY <2>3, <2>4
  <2>6. q[2] \in I /\ q[2] \in 0 .. i - 1
    BY <1>1, <2>3, <2>5
  <2> HIDE DEF q, x, g, Up
  <2>7. f[q[2]] # g[q[2]]
    BY <2>3, <2>4, <2>5
  <2>8. q[2] \in Bad
    BY <2>6, <2>7
  <2> HIDE DEF Bad
  <2> QED
    BY <2>1, <2>2, <2>6, <2>8
<1>7. \A i \in I : f[i] = paths[i + 1]
  BY <1>6
<1> QED
  BY <1>5, <1>7

\* Contexts: where scopes nest, the path the host gives a scope is what encloses it.
LEMMA PathsBegin ==
  ASSUME NEW T, NEW e, e.open = <<>>, e.paths = <<>>
  PROVE  StackIsOpen(T, 0, NoScopes, e) /\ ParentsEarlier(NoScopes) /\ PathsFollow(NoScopes, e)
<1>1. Len(e.open) = 0 /\ Len(e.paths) = 0
  OBVIOUS
<1>2. NoScopes.names = <<>> /\ NoScopes.stack = <<>> /\ NoScopes.nameToId = {} /\ NoScopes.parents = {}
  BY DEF NoScopes
<1>3. Len(NoScopes.names) = 0 /\ Len(NoScopes.stack) = 0
  BY <1>2
<1>4. \A i : i \notin 1 .. 0 /\ i \notin 0 .. 0 - 1
  OBVIOUS
<1>5. StackIsOpen(T, 0, NoScopes, e)
  BY <1>1, <1>2, <1>3, <1>4 DEF StackIsOpen
<1>6. ParentsEarlier(NoScopes)
  BY <1>2 DEF ParentsEarlier
<1>7. PathsFollow(NoScopes, e)
  BY <1>1, <1>3, <1>4 DEF PathsFollow
<1> QED
  BY <1>5, <1>6, <1>7
Following(T, n, s, e) ==
  IdsGiven(T, n, s) /\ StackIsOpen(T, n, s, e) /\ ParentsEarlier(s) /\ PathsFollow(s, e)

\* One record op keeps the ids, the stack, the parents and the paths in step with what is
\* lexically open.
LEMMA PathsStep ==
  ASSUME NEW k, NEW n \in 1 .. Len(k.records), NEW s \in WalkStates, NEW t, NEW e \in OpenStates, NEW f,
         k.records \in Seq(RecordOps), Paired(Named(k)), Nested(k),
         Following(Named(k), n - 1, s, e),
         t = AllocateScope(s, k.records[n]), f = Walked(e, k.records[n])
  PROVE  Following(Named(k), n, t, f)
<1> DEFINE T == Named(k)
           x == k.records[n].name
<1>1. n \in DOMAIN k.records /\ n \in Nat \ {0} /\ k.records[n] \in RecordOps
  OBVIOUS
<1>2. x \in STRING /\ k.records[n].start \in BOOLEAN /\ T[n].scope = x
  <2>1. T[n].scope = x
    BY NamedIsTyped
  <2> QED
    BY <1>1, <2>1 DEF RecordOps
<1>3. IdsGiven(T, n - 1, s) /\ StackIsOpen(T, n - 1, s, e) /\ ParentsEarlier(s) /\ PathsFollow(s, e)
  BY DEF Following
<1>4. /\ IdsGiven(T, n, t) /\ t \in WalkStates
      /\ IF k.records[n].start THEN Started(s, t, x) /\ x \notin PendingScopes(T, n - 1)
         ELSE \E p \in s.nameToId : p[1] = x /\ Ended(s, t, p)
  BY <1>3, NextScope
<1>5. f \in OpenStates
  BY <1>1, OpenKeepsType
<1>6. CASE k.records[n].start
  <2>1. Started(s, t, x) /\ x \notin PendingScopes(T, n - 1)
    BY <1>4, <1>6
  <2>2. f.open = Append(e.open, x) /\ f.paths = Append(e.paths, Append(e.open, x))
    BY <1>6 DEF Walked
  <2> HIDE DEF T, x
  <2>3. StackIsOpen(T, n, t, f)
    BY <1>1, <1>2, <1>3, <1>4, <1>5, <2>1, <2>2, StackAtStart
  <2>4. ParentsEarlier(t) /\ PathsFollow(t, f)
    BY SMTT(30), <1>2, <1>3, <1>4, <1>5, <2>1, <2>2, PathsAtStart
  <2> QED
    BY <1>4, <2>3, <2>4 DEF Following, T
<1>7. CASE ~k.records[n].start
  <2>1. PICK p \in s.nameToId : p[1] = x /\ Ended(s, t, p)
    BY <1>4, <1>7
  <2>2. f.open = UpToName(e.open, x) /\ f.paths = e.paths
    <3>1. f = [e EXCEPT !.open = UpToName(@, x)]
      BY <1>7 DEF Walked
    <3>2. e = [open |-> e.open, paths |-> e.paths]
      BY DEF OpenStates
    <3> HIDE DEF x
    <3> QED
      BY <3>1, <3>2
  <2>3. /\ Len(e.open) # 0 /\ f.open = SubSeq(e.open, 1, Len(e.open) - 1)
        /\ t.stack = SubSeq(s.stack, 1, Len(e.open) - 1)
        /\ StackIsOpen(T, n, t, f)
    BY <1>1, <1>3, <1>7, <2>1, <2>2, StackAtEnd
  <2>4. Len(s.stack) = Len(e.open)
    BY <1>3 DEF StackIsOpen
  <2>5. ParentsEarlier(t) /\ PathsFollow(t, f)
    BY <1>3, <2>1, <2>2, <2>3, <2>4, PathsAtEnd
  <2> QED
    BY <1>4, <2>3, <2>5 DEF Following
<1> QED
  BY <1>6, <1>7

\* Where scopes nest, the calling context that getScopeIdParents makes of a scope is the
\* names of the record ops open around its start, outermost first.
THEOREM PathsAreEnclosing ==
  ASSUME NEW k, k.records \in Seq(RecordOps), Paired(Named(k)), Nested(k)
  PROVE  \A id \in 0 .. Len(ScopeIds(k).names) - 1 : ContextsOf(ScopeIds(k))[id] = Enclosing(k)[id + 1]
<1> DEFINE N == Len(k.records)
<1>1. PICK g \in [0 .. N -> WalkStates] :
        /\ g[0] = NoScopes
        /\ \A n \in 1 .. N : g[n] = AllocateScope(g[n - 1], k.records[n])
        /\ ScopeIds(k) = g[N]
  BY ScopesWalk
<1>2. PICK h \in [0 .. N -> OpenStates] :
        /\ h[0] = [open |-> <<>>, paths |-> <<>>]
        /\ \A n \in 1 .. N : h[n] = Walked(h[n - 1], k.records[n])
        /\ Enclosing(k) = h[N].paths
  BY OpenWalk
<1>3. N \in Nat
  OBVIOUS
<1> DEFINE P == {n \in 0 .. N : Following(Named(k), n, g[n], h[n])}
<1>4. 0 \in P
  <2>1. PendingScopes(Named(k), 0) = {}
    BY NamedIsTyped, PendingPaired
  <2>2. IdsGiven(Named(k), 0, NoScopes)
    BY <2>1, NoScopesYet
  <2>3. h[0].open = <<>> /\ h[0].paths = <<>>
    BY <1>2
  <2>4. Following(Named(k), 0, NoScopes, h[0])
    BY <2>2, <2>3, PathsBegin DEF Following
  <2> QED
    BY <1>1, <1>3, <2>4
<1>5. \A n \in 1 .. N : n - 1 \in P => n \in P
  <2> TAKE n \in 1 .. N
  <2> HAVE n - 1 \in P
  <2>1. /\ Following(Named(k), n - 1, g[n - 1], h[n - 1]) /\ g[n - 1] \in WalkStates
        /\ h[n - 1] \in OpenStates /\ n \in 0 .. N
    BY <1>1, <1>2
  <2>2. g[n] = AllocateScope(g[n - 1], k.records[n]) /\ h[n] = Walked(h[n - 1], k.records[n])
    BY <1>1, <1>2
  <2>3. Following(Named(k), n, g[n], h[n])
    BY <2>1, <2>2, PathsStep
  <2> QED
    BY <2>1, <2>3
<1> HIDE DEF N
<1>6. N \in P
  <2> HIDE DEF P
  <2>1. 0 .. N \subseteq P
    BY <1>3, <1>4, <1>5, UpTo
  <2> QED
    BY <1>3, <2>1
<1>7. ParentsEarlier(g[N]) /\ PathsFollow(g[N], h[N]) /\ g[N] \in WalkStates
  BY <1>1, <1>3, <1>6 DEF Following
<1>8. \A id \in 0 .. Len(g[N].names) - 1 : PathOf(g[N], h[N].paths, id)
  BY <1>7 DEF PathsFollow
<1>9. \A id \in 0 .. Len(g[N].names) - 1 : ContextsOf(g[N])[id] = h[N].paths[id + 1]
  BY <1>7, <1>8, ContextsUnique
<1> QED
  BY <1>1, <1>2, <1>9

---------------------------------------------------------------------------------
(* The entries left in a segment, and their numbers in the history.            *)

\* The slot of an entry that is left, and the side of the seam it is on.
LEMMA PlaceOf ==
  ASSUME NEW cap \in Nat \ {0}, NEW L \in Nat
  PROVE  \E q \in Nat : \A i \in 1 .. L : i > L - cap =>
           LET y == ((i - 1) % cap) + 1
           IN  /\ y \in 1 .. Left(L, cap) /\ Place(L, cap, y) = i
               /\ y <= Newest(L, cap) <=> (i - 1) \div cap = q
<1> DEFINE r == Newest(L, cap)
           a == L - r
<1>1. PICK q \in Nat : a = q * cap
  BY Laps
<1>2. r \in 0 .. cap - 1 /\ a \in Nat /\ (a = 0 => L < cap) /\ (a # 0 => a >= cap)
  BY Laps
<1>3. r \in Nat /\ L = a + r
  BY <1>2
<1> HIDE DEF r, a
<1>4. ASSUME NEW i \in 1 .. L, i > L - cap, NEW y, y = ((i - 1) % cap) + 1
      PROVE  y \in 1 .. Left(L, cap) /\ Place(L, cap, y) = i /\ (y <= r <=> (i - 1) \div cap = q)
  <2>1. CASE i > a
    <3> DEFINE k == (i - 1) - q * cap
    <3>1. k \in 0 .. r - 1 /\ k \in 0 .. cap - 1 /\ i - 1 = q * cap + k /\ k = i - 1 - a
      BY <1>1, <1>2, <1>3, <2>1
    <3> HIDE DEF k
    <3>2. (i - 1) \div cap = q /\ (i - 1) % cap = k
      <4>1. (q * cap + k) \div cap = q /\ (q * cap + k) % cap = k
        BY <3>1, DivisionUnique
      <4>2. i - 1 = q * cap + k
        BY <3>1
      <4> DEFINE x == i - 1
      <4>3. x = q * cap + k
        BY <4>2
      <4> HIDE DEF x
      <4>4. x \div cap = q /\ x % cap = k
        BY <4>1, <4>3
      <4> QED
        BY <4>4 DEF x
    <3>3. y = k + 1
      BY <1>4, <3>2
    <3>4. Place(L, cap, y) = a + y
      BY <1>2, <3>1, <3>3 DEF Place, a, r
    <3>5. y \in 1 .. Left(L, cap)
      BY <1>2, <1>3, <3>1, <3>3 DEF Left
    <3> QED
      BY <1>2, <3>1, <3>2, <3>3, <3>4, <3>5
  <2>2. CASE i <= a
    <3> DEFINE p == q - 1
               k == (i - 1) - (a - cap)
    <3>1. a # 0 /\ a >= cap
      BY <1>2, <2>2
    <3>2. q # 0
      BY <1>1, <3>1
    <3>3. p \in Nat /\ p # q
      BY <3>2
    <3>4. p * cap = a - cap
      BY <1>1, <3>2, Z3
    <3>5. k \in r .. cap - 1 /\ k \in 0 .. cap - 1 /\ i - 1 = (a - cap) + k
      BY <1>2, <1>3, <1>4, <2>2, <3>1
    <3> HIDE DEF k, p
    <3>6. (i - 1) \div cap = p /\ (i - 1) % cap = k
      <4>1. (p * cap + k) \div cap = p /\ (p * cap + k) % cap = k
        BY <3>3, <3>5, DivisionUnique
      <4> QED
        BY <3>4, <3>5, <4>1
    <3>7. y = k + 1
      BY <1>4, <3>6
    <3>8. ~(y <= r)
      BY <1>2, <3>5, <3>7
    <3>9. Place(L, cap, y) = a - cap + y
      BY <3>8 DEF Place, a, r
    <3>10. y \in 1 .. Left(L, cap)
      BY <1>2, <1>3, <3>1, <3>5, <3>7 DEF Left
    <3>11. a - cap + y = i
      BY <1>2, <3>5, <3>7
    <3> QED
      BY <3>3, <3>6, <3>8, <3>9, <3>10, <3>11
  <2> QED
    BY <1>2, <2>1, <2>2
<1>5. \A i \in 1 .. L : i > L - cap =>
        LET y == ((i - 1) % cap) + 1
        IN  y \in 1 .. Left(L, cap) /\ Place(L, cap, y) = i /\ (y <= r <=> (i - 1) \div cap = q)
  BY <1>4
<1> QED
  BY <1>5 DEF r

\* Two counter values less than a lap apart, in order.
LEMMA CyclesApart ==
  ASSUME NEW W \in Nat \ {0}, NEW a \in Nat, NEW b \in Nat, b - a \in 0 .. W - 1, a % W <= b % W
  PROVE  (b % W) - (a % W) = b - a
<1> DEFINE p == a \div W
           q == b \div W
           x == a % W
           y == b % W
<1>1. p \in Nat /\ x \in 0 .. W - 1 /\ a = p * W + x
  BY Z3
<1>2. q \in Nat /\ y \in 0 .. W - 1 /\ b = q * W + y
  BY Z3
<1>3. x <= y
  OBVIOUS
<1> HIDE DEF p, q, x, y
<1>4. p * W \in Nat /\ q * W \in Nat
  BY <1>1, <1>2, Z3
<1>5. CASE p = q
  <2>1. b - a = y - x
    BY <1>1, <1>2, <1>4, <1>5
  <2> QED
    BY <2>1 DEF x, y
<1>6. CASE p < q
  <2>1. (p + 1) * W <= q * W
    BY <1>1, <1>2, <1>6, TimesOrder
  <2>2. (p + 1) * W = p * W + W
    BY <1>1, Z3
  <2> QED
    BY <1>1, <1>2, <1>3, <1>4, <2>1, <2>2
<1>7. CASE q < p
  <2>1. (q + 1) * W <= p * W
    BY <1>1, <1>2, <1>7, TimesOrder
  <2>2. (q + 1) * W = q * W + W
    BY <1>2, Z3
  <2> QED
    BY <1>1, <1>2, <1>3, <1>4, <2>1, <2>2
<1> QED
  BY <1>1, <1>2, <1>5, <1>6, <1>7

\* What the log of a warp and the events of its segment tell of one another.
Held(count, data, log) == [index |-> count, buffer |-> data, log |-> log]
EventOf(l, e) ==
  /\ e[1].scope = l.id /\ e[1].time = l.from /\ e[2].time = l.to
  /\ e[2].cycle - e[1].cycle = l.to - l.from
Remains(k, m, l, count) ==
  /\ l.first >= count \div WordsPerEntry - Slots(k, m)
  /\ l.first \div Slots(k, m) = l.last \div Slots(k, m)

Tells(k, m, w, count, log, s) ==
  /\ s.raised => \E l \in log : l.warp = w /\ Wrapped(l)
  /\ ~s.raised => \A e \in s.events : \E l \in log : l.warp = w /\ EventOf(l, e) /\ l.id \in Scopes(k)
  /\ ~s.raised => \A l \in log : l.warp = w /\ Remains(k, m, l, count) => \E e \in s.events : EventOf(l, e)
SegmentOf(k, m, i, data, count, s) ==
  s = ParseSegment(data, (i - 1) * SegmentWords(k, m), SegmentWords(k, m), count)

\* What the parser finds in the segment of a warp: every event is an execution of the warp,
\* and every execution whose two entries the ring still holds is an event.
LEMMA SegmentTells ==
  ASSUME NEW k, NEW m, NEW i \in 1 .. Len(OwnUnits(k, m)), NEW w,
         NEW count, NEW data, NEW log, NEW G, NEW s,
         Settings(k, m), w = OwnUnits(k, m)[i], Written(k, m, w, Held(count, data, log), G, {}),
         SegmentOf(k, m, i, data, count, s)
  PROVE  Tells(k, m, w, count, log, s)
<1> DEFINE L == Len(G)
           cap == Slots(k, m)
           words == SegmentWords(k, m)
           at == (i - 1) * words
           n == Entries(words, count)
           st == Stored(data, at, n)
<1>1. /\ G \in Seq(EntriesOf(k)) /\ count = WordsPerEntry * L /\ Balanced(G, {}) /\ InTime(G)
      /\ w \in Segments(k, m) => HoldsLast(data, SegmentBase(k, m, w), cap, G)
      /\ {l \in log : l.warp = w} = {LogOf(G, w, ij) : ij \in Matched(G)}
  BY DEF Written, InBuffer, Held
<1>2. cap \in Nat \ {0} /\ words = 2 * cap
  BY SegmentsFit DEF WordsPerEntry
<1>3. w \in Segments(k, m) /\ Rank(Segments(k, m), w) = i - 1
  BY UnitsAreSegments DEF Settings
<1>4. HoldsLast(data, at, cap, G) /\ at \in Nat
  <2>1. SegmentBase(k, m, w) = words * (i - 1) /\ SegmentBase(k, m, w) \in Nat
    BY <1>3, SegmentsFit
  <2>2. words * (i - 1) = (i - 1) * words
    <3>1. words \in Nat /\ i - 1 \in Nat
      BY <1>2
    <3> QED
      BY <3>1, Z3
  <2> QED
    BY <1>1, <1>3, <2>1, <2>2
<1>5. L \in Nat /\ count \in Nat /\ words \in Nat
  BY <1>1, <1>2 DEF WordsPerEntry
<1>6. n = Left(L, cap) /\ n \in Nat
  <2>1. count = 2 * L /\ words = 2 * cap
    BY <1>1, <1>2 DEF WordsPerEntry
  <2> HIDE DEF L, cap, words
  <2> QED
    BY <1>2, <1>5, <2>1 DEF Entries, Left, WordsPerEntry
<1>7. \A y \in 1 .. n : st[y] = G[Place(L, cap, y)] /\ Place(L, cap, y) \in 1 .. L
  <2>1. \A y \in 1 .. n : data[at + WordsPerEntry * (y - 1)] = G[Place(L, cap, y)]
    <3>1. HoldsLast(data, at, cap, G) /\ G \in Seq(EntriesOf(k)) /\ cap \in Nat \ {0} /\ n = Left(Len(G), cap) /\ L = Len(G)
      BY <1>1, <1>2, <1>4, <1>6
    <3> HIDE DEF at, cap, n, L
    <3> QED
      BY <3>1, StoredIsPlaced
  <2>2. \A y \in 1 .. n : Place(L, cap, y) \in 1 .. L
    BY <1>2, <1>5, <1>6, PlaceIsThere
  <2> HIDE DEF n, L, cap, at
  <2> QED
    BY <2>1, <2>2 DEF Stored
<1>8. \A x \in 1 .. L : G[x] \in EntriesOf(k) /\ G[x] \in StoredEntries
  BY <1>1 DEF EntriesOf
<1>9. \A y \in 1 .. n : data[at + WordsPerEntry * (y - 1)] \in StoredEntries
  <2>1. \A y \in 1 .. n : data[at + WordsPerEntry * (y - 1)] = st[y]
    BY DEF Stored
  <2> HIDE DEF st, n, L, cap, at
  <2> QED
    BY <1>7, <1>8, <2>1
<1>10. /\ s.raised <=> RunsBack(st, n)
       /\ ~s.raised => s.events = {<<st[yz[1]], st[yz[2]]>> : yz \in Pairings(st, n)}
  <2>1. s = ParseSegment(data, at, words, count)
    BY DEF SegmentOf
  <2> QED
    BY <1>4, <1>5, <1>9, <2>1, SegmentParsed
<1>11. Len(st) = n
  <2>1. st = [y \in 1 .. n |-> st[y]]
    BY DEF Stored
  <2> HIDE DEF st, n
  <2> QED
    BY <1>6, <2>1
<1>12. /\ \A y, z \in 1 .. n : EndOf(st, y, z) => Matches(G, Place(L, cap, y), Place(L, cap, z))
       /\ \A y, z \in 1 .. n :
            /\ Matches(G, Place(L, cap, y), Place(L, cap, z))
            /\ (y <= Newest(L, cap)) <=> (z <= Newest(L, cap))
            => EndOf(st, y, z)
  <2> HIDE DEF st, n, L, cap
  <2>1. L = Len(G)
    BY DEF L
  <2>2. \A y \in 1 .. n : st[y] = G[Place(L, cap, y)]
    BY <1>7
  <2> QED
    BY ZenonT(60), <1>1, <1>2, <1>6, <2>1, <2>2, PairingsMatch
<1> HIDE DEF st, n, L, cap, at, words
\* A pairing is an execution.
<1>13. ASSUME NEW y \in 1 .. n, NEW z \in 1 .. n, EndOf(st, y, z)
       PROVE  \E l \in log :
                /\ l.warp = w /\ l.id \in Scopes(k)
                /\ st[y].scope = l.id /\ st[y].time = l.from /\ st[z].time = l.to
                /\ st[y].cycle = l.from % ClockWrap /\ st[z].cycle = l.to % ClockWrap
                /\ l.from \in Nat /\ l.to \in Nat /\ l.to - l.from \in 0 .. ClockWrap - 1
  <2> DEFINE a == Place(L, cap, y)
             b == Place(L, cap, z)
             ij == <<a, b>>
             l == LogOf(G, w, ij)
  <2>1. a \in 1 .. L /\ b \in 1 .. L /\ st[y] = G[a] /\ st[z] = G[b] /\ Matches(G, a, b)
    BY <1>7, <1>12, <1>13
  <2> HIDE DEF a, b
  <2>2. ij[1] = a /\ ij[2] = b
    OBVIOUS
  <2>3. ij \in Matched(G)
    BY <2>1, <2>2 DEF Matched, L
  <2> HIDE DEF ij
  <2>4. l \in log /\ l.warp = w
    <3>1. l \in {x \in log : x.warp = w}
      BY <1>1, <2>3
    <3> QED
      BY <3>1
  <2>5. l.id = G[a].scope /\ l.from = G[a].time /\ l.to = G[b].time
    BY <2>2 DEF LogOf
  <2>6. G[b].time - G[a].time \in 0 .. ClockWrap - 1
    BY <1>1, <2>2, <2>3 DEF InTime
  <2>7. /\ G[a].cycle = G[a].time % ClockWrap /\ G[b].cycle = G[b].time % ClockWrap
        /\ G[a].time \in Nat /\ G[b].time \in Nat /\ G[a].scope \in Scopes(k)
    BY <1>8, <2>1 DEF EntriesOf, StoredEntries
  <2> HIDE DEF l
  <2> QED
    BY <2>1, <2>4, <2>5, <2>6, <2>7
<1>14. s.raised => \E l \in log : l.warp = w /\ Wrapped(l)
  <2> HAVE s.raised
  <2>1. PICK yz \in Pairings(st, n) : st[yz[1]].cycle > st[yz[2]].cycle
    BY <1>10 DEF RunsBack
  <2>2. yz[1] \in 1 .. n /\ yz[2] \in 1 .. n /\ EndOf(st, yz[1], yz[2])
    BY <1>11 DEF Pairings
  <2> QED
    BY <1>13, <2>1, <2>2 DEF Wrapped
<1>15. ASSUME ~s.raised, NEW e \in s.events
       PROVE  \E l \in log : l.warp = w /\ EventOf(l, e) /\ l.id \in Scopes(k)
  <2>1. PICK yz \in Pairings(st, n) : e = <<st[yz[1]], st[yz[2]]>>
    BY <1>10, <1>15
  <2>2. yz[1] \in 1 .. n /\ yz[2] \in 1 .. n /\ EndOf(st, yz[1], yz[2])
    BY <1>11 DEF Pairings
  <2>3. e[1] = st[yz[1]] /\ e[2] = st[yz[2]]
    BY <2>1
  <2>4. PICK l \in log :
          /\ l.warp = w /\ l.id \in Scopes(k)
          /\ e[1].scope = l.id /\ e[1].time = l.from /\ e[2].time = l.to
          /\ e[1].cycle = l.from % ClockWrap /\ e[2].cycle = l.to % ClockWrap
          /\ l.from \in Nat /\ l.to \in Nat /\ l.to - l.from \in 0 .. ClockWrap - 1
    BY <1>13, <2>2, <2>3
  <2>5. e[1].cycle <= e[2].cycle
    <3>1. ~(st[yz[1]].cycle > st[yz[2]].cycle)
      BY <1>10, <1>15 DEF RunsBack
    <3>2. l.from % ClockWrap \in Nat /\ l.to % ClockWrap \in Nat
      BY <2>4, TraceAssumption
    <3> QED
      BY <2>3, <2>4, <3>1, <3>2
  <2>6. e[2].cycle - e[1].cycle = l.to - l.from
    <3>1. ClockWrap \in Nat \ {0}
      BY TraceAssumption
    <3>2. l.from % ClockWrap <= l.to % ClockWrap
      BY <2>4, <2>5
    <3>3. (l.to % ClockWrap) - (l.from % ClockWrap) = l.to - l.from
      BY <2>4, <3>1, <3>2, CyclesApart
    <3> QED
      BY <2>4, <3>3
  <2> QED
    BY <2>4, <2>6 DEF EventOf
<1>16. ASSUME ~s.raised, NEW l \in log, l.warp = w, Remains(k, m, l, count)
       PROVE  \E e \in s.events : EventOf(l, e)
  <2>1. PICK ij \in Matched(G) : l = LogOf(G, w, ij)
    BY <1>1, <1>16
  <2> DEFINE a == ij[1]
             b == ij[2]
             y == ((a - 1) % cap) + 1
             z == ((b - 1) % cap) + 1
  <2>2. a \in 1 .. L /\ b \in 1 .. L /\ Matches(G, a, b) /\ a < b
    BY DEF Matched, Matches, L
  <2>3. l.id = G[a].scope /\ l.from = G[a].time /\ l.to = G[b].time /\ l.first = a - 1 /\ l.last = b - 1
    BY <2>1 DEF LogOf
  <2>4. a > L - cap /\ b > L - cap /\ (a - 1) \div cap = (b - 1) \div cap
    <3>1. count \div WordsPerEntry = L
      BY <1>1, <1>5 DEF WordsPerEntry
    <3>2. a - 1 >= L - cap /\ (a - 1) \div cap = (b - 1) \div cap
      BY <1>16, <2>3, <3>1 DEF Remains, cap
    <3> QED
      BY SMTT(30), <1>2, <1>5, <2>2, <3>2
  <2> HIDE DEF a, b
  <2>5. /\ y \in 1 .. n /\ Place(L, cap, y) = a /\ z \in 1 .. n /\ Place(L, cap, z) = b
        /\ (y <= Newest(L, cap)) <=> (z <= Newest(L, cap))
    <3>1. PICK q \in Nat : \A x \in 1 .. L : x > L - cap =>
            /\ ((x - 1) % cap) + 1 \in 1 .. Left(L, cap) /\ Place(L, cap, ((x - 1) % cap) + 1) = x
            /\ ((x - 1) % cap) + 1 <= Newest(L, cap) <=> (x - 1) \div cap = q
      BY <1>2, <1>5, PlaceOf
    <3> QED
      BY <1>6, <2>2, <2>4, <3>1
  <2> HIDE DEF y, z
  <2> DEFINE e == <<st[y], st[z]>>
             yz == <<y, z>>
  <2>6. EndOf(st, y, z)
    BY <1>12, <2>2, <2>5
  <2>7. yz[1] = y /\ yz[2] = z /\ e[1] = st[y] /\ e[2] = st[z]
    OBVIOUS
  <2>8. yz \in Pairings(st, n)
    BY <1>11, <2>5, <2>6 DEF Pairings
  <2>9. e \in s.events
    BY <1>10, <1>16, <2>7, <2>8
  <2> HIDE DEF e, yz
  <2>10. st[y] = G[a] /\ st[z] = G[b]
    BY <1>7, <2>5
  <2>11. \E x \in log : EventOf(x, e)
    BY <1>15, <1>16, <2>9
  <2>12. e[2].cycle - e[1].cycle = e[2].time - e[1].time
    BY <2>11 DEF EventOf
  <2>13. EventOf(l, e)
    BY <2>3, <2>7, <2>10, <2>12 DEF EventOf
  <2> QED
    BY <2>9, <2>13
<1> QED
  BY <1>14, <1>15, <1>16 DEF Tells

-----------------------------------------------------------------------------
(* One block: the execution log, and what the parser makes of what is left.    *)

BlockOK(k, m, count, data, log) ==
  \A w \in Warps(k) : \E G : Written(k, m, w, Held(count[w], data, log), G, {})
LogIn(executions, n) == {t.did : t \in {u \in executions : u.block = n}}

\* Every trace of a block is that of one of its units.
BlockTold(k, m, b, log) ==
  /\ \A t \in ParseBlock(b, OwnUnits(k, m)) :
       /\ t.block = b.block
       /\ t.raised => \E l \in log : Wrapped(l)
       /\ ~t.raised => \A e \in t.events : \E l \in log :
                         l.warp = t.uid /\ EventOf(l, e) /\ l.id \in Scopes(k)
  /\ \A i \in 1 .. Len(OwnUnits(k, m)) :
       \E t \in ParseBlock(b, OwnUnits(k, m)) :
         /\ t.block = b.block /\ t.uid = OwnUnits(k, m)[i]
         /\ ~t.raised => \A l \in log : l.warp = t.uid /\ Remains(k, m, l, b.count[t.uid]) =>
                           \E e \in t.events : EventOf(l, e)

\* The parser reads where the segments of the writers start.
LEMMA SegmentsStart ==
  ASSUME NEW k, NEW m, Settings(k, m)
  PROVE  LET bytes == BufferBytes(k, m) \div Len(OwnUnits(k, m))
         IN  /\ SegmentWords(k, m) = bytes \div Word
             /\ \A i \in 1 .. Len(OwnUnits(k, m)) :
                  EntryAt((i - 1) * bytes) = (i - 1) * SegmentWords(k, m)
<1> DEFINE u == OwnUnits(k, m)
           bytes == BufferBytes(k, m) \div Len(u)
           words == SegmentWords(k, m)
<1>1. words = bytes \div Word
  BY SegmentsFit
<1>2. bytes % EntryBytes = 0 /\ bytes > 0 /\ BufferBytes(k, m) \in Nat
  BY UnitsAreSegments DEF Settings, RingOK
<1>3. Len(u) \in Nat \ {0}
  BY UnitsAreSegments DEF Settings
<1> HIDE DEF u, words
<1>4. bytes \in Nat
  BY <1>2, <1>3, Z3
<1> HIDE DEF bytes
<1>5. PICK n \in Nat : bytes = 8 * n /\ words = 2 * n
  <2>1. bytes % 8 = 0 /\ words = bytes \div 4
    BY <1>1, <1>2 DEF EntryBytes, Word, WordsPerEntry
  <2>2. bytes = 8 * (bytes \div 8) /\ words = 2 * (bytes \div 8) /\ bytes \div 8 \in Nat
    BY <1>4, <2>1
  <2> QED
    BY <2>2
<1>6. ASSUME NEW i \in 1 .. Len(u)
      PROVE  EntryAt((i - 1) * bytes) = (i - 1) * words
  <2>1. i - 1 \in Nat
    BY <1>3
  <2> DEFINE j == i - 1
             q == j * n
  <2>2. j \in Nat
    BY <2>1
  <2> HIDE DEF j
  <2>3. q \in Nat /\ j * bytes = 8 * q /\ j * words = 2 * q
    BY <1>5, <2>2, Z3
  <2> HIDE DEF q
  <2>4. EntryAt(8 * q) = 2 * q
    <3>1. (8 * q) % 8 = 0 /\ (8 * q) \div 4 = 2 * q
      BY <2>3
    <3> QED
      BY <3>1 DEF EntryAt, EntryBytes, Word, WordsPerEntry
  <2> QED
    BY <2>3, <2>4 DEF j
<1> QED
  BY <1>1, <1>6 DEF u, bytes, words

\* So for the block: a trace of every selected warp, with the executions of that warp.
LEMMA BlockTells ==
  ASSUME NEW k, NEW m, NEW b, NEW log, Settings(k, m), ~BadUnit(k, m),
         b.bytes = BufferBytes(k, m), BlockOK(k, m, b.count, b.data, log)
  PROVE  BlockTold(k, m, b, log)
<1> DEFINE u == OwnUnits(k, m)
           words == SegmentWords(k, m)
           Parsed(i) == ParseSegment(b.data, (i - 1) * words, words, b.count[u[i]])
           Trace(i) == [raised |-> Parsed(i).raised, block |-> b.block, uid |-> u[i], events |-> Parsed(i).events]
<1>1. u \in Seq(Nat) /\ DOMAIN u = 1 .. Len(u)
  BY UnitsAreSegments DEF Settings
<1>2. \A t : t \in ParseBlock(b, u) <=> \E i \in 1 .. Len(u) : t = Trace(i)
  <2> DEFINE bytes == b.bytes \div Len(u)
             Read(i) == ParseSegment(b.data, EntryAt((i - 1) * bytes), bytes \div Word, b.count[u[i]])
             Piece(i) == [raised |-> Read(i).raised, block |-> b.block, uid |-> u[i], events |-> Read(i).events]
  <2>1. words = bytes \div Word /\ \A i \in 1 .. Len(u) : EntryAt((i - 1) * bytes) = (i - 1) * words
    BY SegmentsStart
  <2> HIDE DEF u, words, bytes
  <2>2. ParseBlock(b, u) = {Piece(i) : i \in DOMAIN u}
    BY DEF ParseBlock, bytes
  <2>3. \A i \in 1 .. Len(u) : Piece(i) = Trace(i)
    BY <2>1
  <2> HIDE DEF Piece, Trace
  <2> QED
    BY <1>1, <2>2, <2>3
<1>3. ASSUME NEW i \in 1 .. Len(u)
      PROVE  /\ Parsed(i).raised => \E l \in log : l.warp = u[i] /\ Wrapped(l)
             /\ ~Parsed(i).raised => \A e \in Parsed(i).events : \E l \in log :
                                       l.warp = u[i] /\ EventOf(l, e) /\ l.id \in Scopes(k)
             /\ ~Parsed(i).raised => \A l \in log : l.warp = u[i] /\ Remains(k, m, l, b.count[u[i]]) =>
                                       \E e \in Parsed(i).events : EventOf(l, e)
  <2> DEFINE w == u[i]
  <2>1. w \in Warps(k)
    <3>1. w \in Nat /\ ~(w >= k.warps) /\ k.warps \in Nat
      <4>1. k.warps \in Nat
        BY DEF Settings, KernelOK
      <4>2. ~(OwnUnits(k, m)[i] >= k.warps)
        BY <1>1 DEF BadUnit
      <4> QED
        BY <1>1, <4>1, <4>2
    <3> HIDE DEF w
    <3> QED
      BY <3>1 DEF Warps
  <2>2. PICK G : Written(k, m, w, Held(b.count[w], b.data, log), G, {})
    BY <2>1 DEF BlockOK
  <2>3. w = OwnUnits(k, m)[i] /\ i \in 1 .. Len(OwnUnits(k, m))
    OBVIOUS
  <2> DEFINE s == ParseSegment(b.data, (i - 1) * SegmentWords(k, m), SegmentWords(k, m), b.count[w])
  <2>4. s = Parsed(i)
    OBVIOUS
  <2>6. SegmentOf(k, m, i, b.data, b.count[w], s)
    BY DEF SegmentOf
  <2> HIDE DEF w, s, Parsed
  <2>5. Tells(k, m, w, b.count[w], log, s)
    BY <2>2, <2>3, <2>6, SegmentTells
  <2> QED
    BY <2>4, <2>5 DEF w, Tells
<1>4. \A i : /\ Trace(i).raised = Parsed(i).raised /\ Trace(i).block = b.block
              /\ Trace(i).uid = u[i] /\ Trace(i).events = Parsed(i).events
  OBVIOUS
<1> HIDE DEF Trace, Parsed, u
<1>5. ASSUME NEW t \in ParseBlock(b, u)
      PROVE  /\ t.block = b.block
             /\ t.raised => \E l \in log : Wrapped(l)
             /\ ~t.raised => \A e \in t.events : \E l \in log :
                               l.warp = t.uid /\ EventOf(l, e) /\ l.id \in Scopes(k)
  <2>1. PICK i \in 1 .. Len(u) : t = Trace(i)
    BY <1>2
  <2>2. t.raised = Parsed(i).raised /\ t.block = b.block /\ t.uid = u[i] /\ t.events = Parsed(i).events
    BY <1>4, <2>1
  <2> QED
    BY <1>3, <2>2
<1>6. ASSUME NEW i \in 1 .. Len(u)
      PROVE  \E t \in ParseBlock(b, u) :
               /\ t.block = b.block /\ t.uid = u[i]
               /\ ~t.raised => \A l \in log : l.warp = t.uid /\ Remains(k, m, l, b.count[t.uid]) =>
                                 \E e \in t.events : EventOf(l, e)
  <2> DEFINE t == Trace(i)
  <2>1. t \in ParseBlock(b, u)
    BY <1>2
  <2>2. t.raised = Parsed(i).raised /\ t.block = b.block /\ t.uid = u[i] /\ t.events = Parsed(i).events
    BY <1>4
  <2> HIDE DEF t
  <2>3. ~t.raised => \A l \in log : l.warp = t.uid /\ Remains(k, m, l, b.count[t.uid]) =>
                      \E e \in t.events : EventOf(l, e)
    BY <1>3, <2>2
  <2> QED
    BY <2>1, <2>2, <2>3
<1> QED
  BY <1>5, <1>6 DEF u, BlockTold

\* A warp that writes leaves what the others have written.
LEMMA OthersKeep ==
  ASSUME NEW k, NEW m, NEW w, NEW v, v # w, NEW s, NEW t, NEW c, NEW G, Settings(k, m),
         Written(k, m, v, Held(c, s.buffer, s.log), G, {}), Others(k, m, w, s, t),
         DOMAIN t.buffer = 0 .. BufferWords(k, m) - 1
  PROVE  Written(k, m, v, Held(c, t.buffer, t.log), G, {})
<1> DEFINE a == Held(c, s.buffer, s.log)
           b == Held(c, t.buffer, t.log)
<1>1. a.index = c /\ a.buffer = s.buffer /\ a.log = s.log /\ b.index = c /\ b.buffer = t.buffer /\ b.log = t.log
  BY DEF Held
<1>2. Written(k, m, v, a, G, {})
  OBVIOUS
<1> HIDE DEF a, b
<1>3. /\ G \in Seq(EntriesOf(k)) /\ c = WordsPerEntry * Len(G) /\ Balanced(G, {}) /\ InTime(G)
      /\ v \in Segments(k, m) => HoldsLast(s.buffer, SegmentBase(k, m, v), Slots(k, m), G)
      /\ {l \in s.log : l.warp = v} = {LogOf(G, v, ij) : ij \in Matched(G)}
  BY <1>1, <1>2 DEF Written, InBuffer
<1>4. {l \in t.log : l.warp = v} = {l \in s.log : l.warp = v}
  <2>1. {l \in t.log : l.warp # w} = {l \in s.log : l.warp # w}
    BY DEF Others
  <2>2. \A l : l \in t.log /\ l.warp = v <=> l \in s.log /\ l.warp = v
    <3>1. \A l : l \in t.log /\ l.warp # w <=> l \in s.log /\ l.warp # w
      BY <2>1
    <3> QED
      BY <3>1
  <2> QED
    BY <2>2
<1>5. v \in Segments(k, m) => HoldsLast(t.buffer, SegmentBase(k, m, v), Slots(k, m), G)
  <2> HAVE v \in Segments(k, m)
  <2> DEFINE base == SegmentBase(k, m, v)
             cap == Slots(k, m)
  <2>1. /\ cap \in Nat \ {0} /\ SegmentWords(k, m) = WordsPerEntry * cap /\ base \in Nat
        /\ base .. base + SegmentWords(k, m) - 1 \subseteq 0 .. BufferWords(k, m) - 1
    BY SegmentsFit
  <2>2. \A x \in base .. base + SegmentWords(k, m) - 1 : x \notin Own(k, m, w)
    <3>1. CASE w \in Segments(k, m)
      <4>1. (base .. base + SegmentWords(k, m) - 1)
            \cap (SegmentBase(k, m, w) .. SegmentBase(k, m, w) + SegmentWords(k, m) - 1) = {}
        BY <3>1, SegmentsFit
      <4>2. Own(k, m, w) = SegmentBase(k, m, w) .. SegmentBase(k, m, w) + SegmentWords(k, m) - 1
        BY <3>1 DEF Own
      <4> HIDE DEF base
      <4> QED
        BY <4>1, <4>2
    <3>2. CASE w \notin Segments(k, m)
      BY <3>2 DEF Own
    <3> QED
      BY <3>1, <3>2
  <2> HIDE DEF base, cap
  <2>3. \A x \in base .. base + WordsPerEntry * cap - 1 : t.buffer[x] = s.buffer[x]
    <3>1. \A x \in 0 .. BufferWords(k, m) - 1 : x \notin Own(k, m, w) => t.buffer[x] = s.buffer[x]
      BY DEF Others
    <3> QED
      BY <2>1, <2>2, <3>1
  <2>4. HoldsLast(s.buffer, base, cap, G)
    BY <1>3 DEF base, cap
  <2>5. HoldsLast(t.buffer, base, cap, G)
    BY <1>3, <2>1, <2>3, <2>4, HoldsElsewhere
  <2> QED
    BY <2>5 DEF base, cap
<1>6. Written(k, m, v, b, G, {})
  BY <1>1, <1>3, <1>4, <1>5 DEF Written, InBuffer
<1> QED
  BY <1>6 DEF b

\* Only the index, the buffer and the log count.
LEMMA WrittenByParts ==
  ASSUME NEW k, NEW m, NEW w, NEW s, NEW t, NEW G, Written(k, m, w, s, G, {}),
         t.index = s.index, t.buffer = s.buffer, t.log = s.log
  PROVE  Written(k, m, w, t, G, {})
BY DEF Written, InBuffer

---------------------------------------------------------------------------------
(* The invariant of the launches: phase by phase, what the rings and the log hold. *)

Counts(k, r) == [w \in Warps(k) |-> IF w < k.masters THEN r.index[w] ELSE r.saved[w]]
\* The block that runs, and the n before it.
RunOK(k, m, n, r) ==
  /\ r = [block |-> r.block, stage |-> r.stage, left |-> r.left, clock |-> r.clock, log |-> r.log,
          index |-> r.index, saved |-> r.saved, open |-> r.open, data |-> r.data]
  /\ r.block = n /\ r.stage \in Nat \ {0} /\ r.left \subseteq Warps(k) /\ r.clock \in Nat
  /\ r.index \in [Warps(k) -> Nat] /\ r.saved \in [Warps(k) -> Nat \cup {Nothing}]
  /\ r.open \in [Warps(k) -> {{}}]
  /\ BlockOK(k, m, Counts(k, r), r.data, r.log)
FinishedOK(k, m, blocks, executions) ==
  /\ \E S : blocks \in Seq(S)
  /\ \A i \in 1 .. Len(blocks) :
       /\ blocks[i].block = i - 1 /\ blocks[i].bytes = BufferBytes(k, m)
       /\ BlockOK(k, m, blocks[i].count, blocks[i].data, LogIn(executions, i - 1))
  /\ \A t \in executions :
       t.block \in 0 .. Len(blocks) - 1 /\ t.total = blocks[t.block + 1].count[t.did.warp]
TraceInv ==
  /\ mode \in Modes
  /\ phase # "imported" => rows = {}
  /\ UnderWay => kernel \in DOMAIN Kernels /\ Compiles(kernel)
  /\ phase = "running" => Recorded(kernel) /\ RunOK(K, mode, Len(buffer.blocks), run)
  /\ UnderWay /\ Recorded(kernel) =>
       buffer = [of |-> kernel, blocks |-> buffer.blocks] /\ FinishedOK(K, mode, buffer.blocks, truth)
  /\ PairsAreReal /\ KeepsWhatIsLeft

\* An instrumented kernel and a mode are as the compiler makes them.
LEMMA SettingsHold ==
  ASSUME NEW n \in DOMAIN Kernels, NEW m \in Modes, Kernels[n].records # <<>>, BufferBytes(Kernels[n], m) > 0
  PROVE  Settings(Kernels[n], m)
BY ProfilerAssumption DEF Settings

\* Such a kernel has its ops paired, and an id for each of them.
LEMMA KernelFits ==
  ASSUME NEW k, NEW m, Settings(k, m)
  PROVE  /\ k.records \in Seq(RecordOps) /\ Paired(Named(k)) /\ k.warps \in Nat /\ k.masters \in 1 .. k.warps
         /\ \A n \in DOMAIN k.records : ScopeIds(k).ids[n] \in Scopes(k)
<1>1. k.records \in Seq(RecordOps) /\ Paired(Named(k)) /\ k.warps \in Nat /\ k.masters \in 1 .. k.warps
  BY DEF Settings, KernelOK, RecordOps
<1> QED
  BY <1>1, IdsFit DEF Scopes

\* Nothing is written yet.
LEMMA NothingWritten ==
  ASSUME NEW k, NEW m, NEW w, NEW data, DOMAIN data = 0 .. BufferWords(k, m) - 1
  PROVE  Written(k, m, w, Held(0, data, {}), <<>>, {})
<1> DEFINE G == <<>>
           s == Held(0, data, {})
<1>1. G \in Seq(EntriesOf(k)) /\ Len(G) = 0
  OBVIOUS
<1>2. s.index = 0 /\ s.buffer = data /\ s.log = {}
  BY DEF Held
<1> HIDE DEF G, s
<1>3. \A i : i \notin 1 .. 0
  OBVIOUS
<1>4. Matched(G) = {}
  BY <1>1, <1>3 DEF Matched
<1>5. Balanced(G, {}) /\ InTime(G)
  BY <1>1, <1>3, <1>4 DEF Balanced, InTime
<1>6. HoldsLast(data, SegmentBase(k, m, w), Slots(k, m), G)
  BY <1>1, <1>3 DEF HoldsLast
<1>7. InBuffer(k, m, w, s, G)
  BY <1>1, <1>2, <1>6 DEF InBuffer, WordsPerEntry
<1>8. {l \in s.log : l.warp = w} = {LogOf(G, w, ij) : ij \in Matched(G)}
  BY <1>2, <1>4
<1>9. Written(k, m, w, s, G, {})
  BY <1>5, <1>7, <1>8 DEF Written
<1> QED
  BY <1>9 DEF G, s

\* A block starts with nothing written by any of its warps.
LEMMA BlockStarts ==
  ASSUME NEW k, NEW b, NEW c \in Nat, NEW g, Settings(k, mode)
  PROVE  RunOK(k, mode, b, Block(k, b, c, g))
<1> DEFINE zero == [w \in Warps(k) |-> 0]
           kept == [w \in Warps(k) |-> IF Specialised(k) THEN 0 ELSE Nothing]
           none == [w \in Warps(k) |-> {}]
           data == [i \in 0 .. BufferBytes(k, mode) \div Word - 1 |-> g]
           r == Block(k, b, c, g)
<1>1. r = [block |-> b, stage |-> 1, left |-> Warps(k), clock |-> c, log |-> {},
           index |-> zero, saved |-> kept, open |-> none, data |-> data]
  BY DEF Block
<1>2. zero \in [Warps(k) -> Nat] /\ kept \in [Warps(k) -> Nat \cup {Nothing}] /\ none \in [Warps(k) -> {{}}]
  OBVIOUS
<1>3. \A w \in Warps(k) : zero[w] = 0 /\ (w >= k.masters => kept[w] = 0)
  <2> TAKE w \in Warps(k)
  <2>1. w >= k.masters => Specialised(k)
    <3>1. w \in 0 .. k.warps - 1 /\ k.warps \in Nat /\ k.masters \in 1 .. k.warps
      BY KernelFits DEF Warps
    <3> QED
      BY <3>1 DEF Specialised
  <2> QED
    BY <2>1
<1>4. DOMAIN data = 0 .. BufferWords(k, mode) - 1
  BY DEF BufferWords
<1> HIDE DEF zero, kept, none, data, r
<1>5. /\ r.block = b /\ r.stage = 1 /\ r.left = Warps(k) /\ r.clock = c /\ r.log = {}
      /\ r.index = zero /\ r.saved = kept /\ r.open = none /\ r.data = data
  BY <1>1
<1>6. \A w \in Warps(k) : Counts(k, r)[w] = 0
  <2> TAKE w \in Warps(k)
  <2>1. Counts(k, r)[w] = IF w < k.masters THEN zero[w] ELSE kept[w]
    BY <1>5 DEF Counts
  <2>2. w \in Nat /\ k.masters \in Nat
    BY KernelFits DEF Warps
  <2> QED
    BY <1>3, <2>1, <2>2
<1>7. BlockOK(k, mode, Counts(k, r), r.data, r.log)
  <2>1. \A w \in Warps(k) : Written(k, mode, w, Held(0, data, {}), <<>>, {})
    BY <1>4, NothingWritten
  <2> QED
    BY <1>5, <1>6, <2>1 DEF BlockOK
<1> QED
  BY <1>1, <1>2, <1>5, <1>7 DEF RunOK, r

\* A warp goes through a stage.
LEMMA RunNothing ==
  ASSUME NEW k, NEW m, NEW w, NEW ids, NEW s
  PROVE  Run(k, m, w, ids, <<>>, s) = s
<1>1. Len(<<>>) = 0 /\ 0 \in Nat
  OBVIOUS
<1> QED
  BY <1>1, RunByOps

\* A warp that runs its partition leaves the ring of every warp as its own history made it.
LEMMA PartitionKeepsRun ==
  ASSUME TraceInv, NEW w, Partition(w)
  PROVE  /\ phase = "running" /\ phase' = phase /\ buffer' = buffer /\ mode' = mode /\ kernel' = kernel
         /\ rows' = rows /\ truth' = truth
         /\ RunOK(K, mode, Len(buffer.blocks), run')
<1>1. /\ phase = "running" /\ phase' = phase /\ buffer' = buffer /\ mode' = mode /\ kernel' = kernel
      /\ rows' = rows /\ truth' = truth
  BY DEF Partition, sessionVars, historyVars
<1> DEFINE k == K
           m == mode
           n == Len(buffer.blocks)
<1>2. RunOK(k, m, n, run) /\ kernel \in DOMAIN Kernels /\ mode \in Modes /\ Recorded(kernel) /\ Compiles(kernel)
  BY <1>1 DEF TraceInv, UnderWay
<1>3. Settings(k, m)
  BY <1>2, SettingsHold DEF Compiles, Recorded, K
<1>4. PICK r \in k.stages[run.stage][w] :
        LET s == Run(k, mode, w, ScopeIds(k).ids, r,
                     [index |-> Restored(w), buffer |-> run.data, clock |-> run.clock,
                      open |-> run.open[w], log |-> run.log])
            last == run.left = {w}
        IN  run' = [run EXCEPT
                      !.data = s.buffer, !.clock = s.clock, !.open[w] = s.open, !.log = s.log,
                      !.index[w] = IF Master(w) THEN s.index ELSE @,
                      !.saved[w] = IF ~Master(w) /\ HasRecords(w) THEN s.index ELSE @,
                      !.left = IF last THEN Warps(k) ELSE @ \ {w},
                      !.stage = IF last THEN @ + 1 ELSE @]
  BY DEF Partition
<1> DEFINE s0 == [index |-> Restored(w), buffer |-> run.data, clock |-> run.clock,
                  open |-> run.open[w], log |-> run.log]
           s == Run(k, mode, w, ScopeIds(k).ids, r, s0)
           ix == IF Master(w) THEN s.index ELSE run.index[w]
           sv == IF ~Master(w) /\ HasRecords(w) THEN s.index ELSE run.saved[w]
           lf == IF run.left = {w} THEN Warps(k) ELSE run.left \ {w}
           sg == IF run.left = {w} THEN run.stage + 1 ELSE run.stage
           index == [run.index EXCEPT ![w] = ix]
           saved == [run.saved EXCEPT ![w] = sv]
           opens == [run.open EXCEPT ![w] = s.open]
<1>5. run' = [run EXCEPT !.data = s.buffer, !.clock = s.clock, !.open = opens, !.log = s.log,
                         !.index = index, !.saved = saved, !.left = lf, !.stage = sg]
  BY <1>4
<1>6. /\ run = [block |-> run.block, stage |-> run.stage, left |-> run.left, clock |-> run.clock, log |-> run.log,
                index |-> run.index, saved |-> run.saved, open |-> run.open, data |-> run.data]
      /\ run.block = n /\ run.stage \in Nat \ {0} /\ run.left \subseteq Warps(k) /\ run.clock \in Nat
      /\ run.index \in [Warps(k) -> Nat] /\ run.saved \in [Warps(k) -> Nat \cup {Nothing}]
      /\ run.open \in [Warps(k) -> {{}}]
      /\ BlockOK(k, m, Counts(k, run), run.data, run.log)
  BY <1>2 DEF RunOK
<1>7. w \in Warps(k)
  BY <1>6 DEF Partition
<1>8. Counts(k, run)[w] = Restored(w) /\ (Master(w) <=> w < k.masters)
  BY <1>7 DEF Counts, Restored, Master
<1>9. /\ run.stage \in DOMAIN k.stages /\ r \in Seq(DOMAIN k.records) /\ Paired(Taken(k, r)) /\ Len(r) < ClockWrap
  <2>1. k.stages \in Seq([Warps(k) -> SUBSET Seq(DOMAIN k.records)])
    BY <1>3 DEF Settings, KernelOK
  <2>2. \A x \in DOMAIN k.stages : \A v \in Warps(k) : \A p \in k.stages[x][v] :
          Paired(Taken(k, p)) /\ Len(p) < ClockWrap
    BY <1>3 DEF Settings, KernelOK
  <2>3. run.stage \in DOMAIN k.stages
    <3>1. run.stage <= Len(k.stages)
      BY DEF Partition
    <3> HIDE DEF k
    <3> QED
      BY <1>6, <2>1, <3>1
  <2> HIDE DEF k
  <2>4. k.stages[run.stage] \in [Warps(k) -> SUBSET Seq(DOMAIN k.records)]
    BY <2>1, <2>3
  <2> QED
    BY <1>4, <1>7, <2>2, <2>3, <2>4
<1>10. /\ s0.index = Restored(w) /\ s0.buffer = run.data /\ s0.clock = run.clock /\ s0.open = run.open[w]
       /\ s0.log = run.log /\ RunFields(s0)
  BY DEF RunFields
<1>11. ~Master(w) /\ ~HasRecords(w) => s.index = Restored(w)
  <2> SUFFICES ASSUME ~HasRecords(w) PROVE s.index = Restored(w)
    OBVIOUS
  <2>1. r = <<>>
    BY <1>4 DEF HasRecords
  <2> HIDE DEF s0
  <2>2. s = s0
    BY <2>1, RunNothing
  <2> QED
    BY <1>10, <2>2
<1> HIDE DEF s0
<1>12. PICK H : Written(k, m, w, s0, H, {})
  <2>1. PICK H : Written(k, m, w, Held(Restored(w), run.data, run.log), H, {})
    BY <1>6, <1>7, <1>8 DEF BlockOK
  <2>2. Written(k, m, w, s0, H, {})
    BY <1>10, <2>1, WrittenByParts DEF Held
  <2> QED
    BY <2>2
<1>13. s0.open = {} /\ s0.clock \in Nat
  BY <1>6, <1>7, <1>10
<1>14. /\ \E G : Written(k, m, w, s, G, {})
       /\ RunFields(s) /\ s.open = {} /\ s.clock \in Nat /\ Others(k, m, w, s0, s)
  <2>1. \A x \in DOMAIN k.records : ScopeIds(k).ids[x] \in Scopes(k)
    BY <1>3, KernelFits
  <2>2. s = Run(k, m, w, ScopeIds(k).ids, r, s0)
    OBVIOUS
  <2> HIDE DEF s, k, m
  <2> QED
    BY <1>3, <1>9, <1>10, <1>12, <1>13, <2>1, <2>2, RunWrites
<1> HIDE DEF s
<1>15. s.index \in Nat /\ DOMAIN s.buffer = 0 .. BufferWords(k, m) - 1
  BY <1>14 DEF Written, InBuffer, WordsPerEntry
<1>16. ix \in Nat /\ sv \in Nat \cup {Nothing} /\ lf \subseteq Warps(k) /\ sg \in Nat \ {0}
  BY <1>6, <1>7, <1>15
<1>17. IF w < k.masters THEN ix = s.index ELSE sv = s.index
  BY <1>8, <1>11 DEF Restored
<1> HIDE DEF ix, sv, lf, sg
<1>18. /\ index \in [Warps(k) -> Nat] /\ index[w] = ix /\ \A v \in Warps(k) : v # w => index[v] = run.index[v]
       /\ saved \in [Warps(k) -> Nat \cup {Nothing}] /\ saved[w] = sv /\ \A v \in Warps(k) : v # w => saved[v] = run.saved[v]
       /\ opens \in [Warps(k) -> {{}}]
  <2> HIDE DEF k
  <2> QED
    BY <1>6, <1>7, <1>14, <1>16
<1> HIDE DEF index, saved, opens
<1>19. run' = [block |-> run.block, stage |-> sg, left |-> lf, clock |-> s.clock, log |-> s.log,
               index |-> index, saved |-> saved, open |-> opens, data |-> s.buffer]
  BY <1>5, <1>6
<1> DEFINE q == run'
<1>20. /\ q = [block |-> q.block, stage |-> q.stage, left |-> q.left, clock |-> q.clock, log |-> q.log,
               index |-> q.index, saved |-> q.saved, open |-> q.open, data |-> q.data]
       /\ q.block = run.block /\ q.stage = sg /\ q.left = lf /\ q.clock = s.clock /\ q.log = s.log
       /\ q.index = index /\ q.saved = saved /\ q.open = opens /\ q.data = s.buffer
  BY <1>19
<1> HIDE DEF q
<1>21. BlockOK(k, m, Counts(k, q), q.data, q.log)
  <2> SUFFICES ASSUME NEW v \in Warps(k)
               PROVE  \E G : Written(k, m, v, Held(Counts(k, q)[v], s.buffer, s.log), G, {})
    BY <1>20 DEF BlockOK
  <2>1. CASE v = w
    <3>1. Counts(k, q)[v] = s.index
      BY <1>7, <1>17, <1>18, <1>20, <2>1 DEF Counts
    <3>2. PICK G : Written(k, m, w, s, G, {})
      BY <1>14
    <3>3. Written(k, m, w, Held(s.index, s.buffer, s.log), G, {})
      BY <3>2, WrittenByParts DEF Held
    <3> QED
      BY <2>1, <3>1, <3>3
  <2>2. CASE v # w
    <3>1. Counts(k, q)[v] = Counts(k, run)[v]
      BY <1>18, <1>20, <2>2 DEF Counts
    <3> DEFINE c == Counts(k, run)[v]
    <3> HIDE DEF c
    <3>2. PICK G : Written(k, m, v, Held(c, run.data, run.log), G, {})
      BY <1>6 DEF BlockOK, c
    <3>3. Written(k, m, v, Held(c, s0.buffer, s0.log), G, {})
      BY <1>10, <3>2
    <3>4. Written(k, m, v, Held(c, s.buffer, s.log), G, {})
      <4> HIDE DEF k, m
      <4> QED
        BY <1>3, <1>14, <1>15, <2>2, <3>3, OthersKeep
    <3> QED
      BY <3>1, <3>4 DEF c
  <2> QED
    BY <2>1, <2>2
<1>22. RunOK(k, m, n, q)
  BY <1>6, <1>14, <1>16, <1>18, <1>20, <1>21 DEF RunOK
<1> QED
  BY <1>1, <1>22 DEF q

---------------------------------------------------------------------------------
(* The steps of a launch.                                                      *)

\* A warp of a running block.
LEMMA PartitionKeeps ==
  ASSUME TraceInv, NEW w, Partition(w)
  PROVE  TraceInv'
<1>1. /\ phase = "running" /\ phase' = phase /\ buffer' = buffer /\ mode' = mode /\ kernel' = kernel
      /\ rows' = rows /\ truth' = truth
      /\ RunOK(K, mode, Len(buffer.blocks), run')
  BY PartitionKeepsRun
<1>2. rows' = {} /\ phase' # "imported" /\ UnderWay
  BY <1>1 DEF TraceInv, UnderWay
<1>3. PairsAreReal' /\ KeepsWhatIsLeft'
  BY <1>2 DEF PairsAreReal, KeepsWhatIsLeft
<1>4. K' = K /\ Recorded(kernel)' = Recorded(kernel) /\ Compiles(kernel)' = Compiles(kernel)
  BY <1>1 DEF K, Recorded, Compiles
<1>5. RunOK(K, mode, Len(buffer.blocks), run)'
  BY <1>1, <1>4
<1> QED
  BY <1>1, <1>2, <1>3, <1>4, <1>5 DEF TraceInv, UnderWay

\* The entry of a launch.
LEMMA LaunchKeeps ==
  ASSUME TraceInv, NEW n \in DOMAIN Kernels, EnterLaunch(n)
  PROVE  TraceInv'
<1>1. /\ phase' \in {"running", "returned"} /\ rows' = {} /\ truth' = {} /\ kernel' = n /\ mode' = mode
      /\ Compiles(n) /\ (Recorded(n) => buffer' = [of |-> n, blocks |-> <<>>])
      /\ phase' = "running" => Recorded(n) /\ \E c \in ClockStarts, g \in Garbage : run' = Block(Kernels[n], 0, c, g)
  BY DEF EnterLaunch, sessionVars
<1>2. PairsAreReal' /\ KeepsWhatIsLeft'
  BY <1>1 DEF PairsAreReal, KeepsWhatIsLeft
<1>3. K' = Kernels[n] /\ Recorded(kernel)' = Recorded(n) /\ Compiles(kernel)' = Compiles(n) /\ mode \in Modes
  BY <1>1 DEF K, Recorded, Compiles, TraceInv
<1>4. ASSUME Recorded(n)
      PROVE  /\ buffer' = [of |-> n, blocks |-> buffer'.blocks] /\ Len(buffer'.blocks) = 0
             /\ FinishedOK(Kernels[n], mode, buffer'.blocks, {})
  <2>1. buffer' = [of |-> n, blocks |-> <<>>]
    BY <1>1, <1>4
  <2>2. buffer'.blocks = <<>> /\ Len(<<>>) = 0
    BY <2>1
  <2>3. \E S : <<>> \in Seq(S)
    <3>1. <<>> \in Seq(Nat)
      OBVIOUS
    <3> QED
      BY <3>1
  <2>4. FinishedOK(Kernels[n], mode, <<>>, {})
    BY <2>2, <2>3 DEF FinishedOK
  <2> QED
    BY <2>1, <2>2, <2>4
<1>5. ASSUME phase' = "running"
      PROVE  RunOK(Kernels[n], mode, 0, run')
  <2>1. PICK c \in ClockStarts, g \in Garbage : run' = Block(Kernels[n], 0, c, g)
    BY <1>1, <1>5
  <2>2. c \in Nat
    BY ProfilerAssumption
  <2>3. Settings(Kernels[n], mode)
    BY <1>1, <1>3, <1>5, SettingsHold DEF Compiles, Recorded
  <2> QED
    BY <2>1, <2>2, <2>3, BlockStarts
<1> QED
  BY <1>1, <1>2, <1>3, <1>4, <1>5 DEF TraceInv, UnderWay

\* A block is finished: its log becomes part of the truth, with its counts.
Logged(next, executions, n, left, log) ==
  next = executions \cup {[block |-> n, did |-> e, total |-> left.count[e.warp]] : e \in log}

\* A finished block joins the buffer, and its executions the truth.
LEMMA FinishedOneMore ==
  ASSUME NEW k, NEW m, NEW blocks, NEW executions, NEW left, NEW log, NEW next,
         FinishedOK(k, m, blocks, executions),
         left.block = Len(blocks), left.bytes = BufferBytes(k, m), BlockOK(k, m, left.count, left.data, log),
         Logged(next, executions, Len(blocks), left, log)
  PROVE  /\ FinishedOK(k, m, Append(blocks, left), next)
         /\ Len(Append(blocks, left)) = Len(blocks) + 1
<1> DEFINE L == Len(blocks)
           more == Append(blocks, left)
           New(e) == [block |-> L, did |-> e, total |-> left.count[e.warp]]
<1>1. PICK S : blocks \in Seq(S)
  BY DEF FinishedOK
<1>2. /\ more \in Seq(S \cup {left}) /\ Len(more) = L + 1 /\ L \in Nat /\ more[L + 1] = left
      /\ \A i \in 1 .. L : more[i] = blocks[i]
  <2>1. blocks \in Seq(S \cup {left}) /\ left \in S \cup {left}
    BY <1>1
  <2> HIDE DEF more
  <2>2. more = Append(blocks, left)
    BY DEF more
  <2> QED
    BY <2>1, <2>2
<1>3. /\ \A i \in 1 .. L :
           /\ blocks[i].block = i - 1 /\ blocks[i].bytes = BufferBytes(k, m)
           /\ BlockOK(k, m, blocks[i].count, blocks[i].data, LogIn(executions, i - 1))
      /\ \A t \in executions : t.block \in 0 .. L - 1 /\ t.total = blocks[t.block + 1].count[t.did.warp]
  BY DEF FinishedOK
<1>4. \A t : t \in next <=> t \in executions \/ \E e \in log : t = New(e)
  BY DEF Logged
<1>5. \A e : New(e).block = L /\ New(e).did = e /\ New(e).total = left.count[e.warp]
  OBVIOUS
<1> HIDE DEF more, New, L
<1>6. LogIn(next, L) = log
  <2>1. \A e : e \in LogIn(next, L) <=> \E t \in next : t.block = L /\ t.did = e
    BY DEF LogIn
  <2>2. \A t \in executions : t.block # L
    BY <1>2, <1>3
  <2>3. \A e \in log : New(e) \in next
    BY <1>4
  <2>4. \A e : e \in LogIn(next, L) <=> e \in log
    BY <1>4, <1>5, <2>1, <2>2, <2>3
  <2> QED
    BY <2>4
<1>7. \A i \in 1 .. L : LogIn(next, i - 1) = LogIn(executions, i - 1)
  <2> TAKE i \in 1 .. L
  <2>1. \A t : t \in next /\ t.block = i - 1 <=> t \in executions /\ t.block = i - 1
    <3>1. i - 1 # L
      BY <1>2
    <3> QED
      BY <1>4, <1>5, <3>1
  <2>2. {u \in next : u.block = i - 1} = {u \in executions : u.block = i - 1}
    BY <2>1
  <2> QED
    BY <2>2 DEF LogIn
<1>8. ASSUME NEW i \in 1 .. L + 1
      PROVE  /\ more[i].block = i - 1 /\ more[i].bytes = BufferBytes(k, m)
             /\ BlockOK(k, m, more[i].count, more[i].data, LogIn(next, i - 1))
  <2>1. CASE i = L + 1
    <3>1. more[i] = left /\ i - 1 = L
      BY <1>2, <2>1
    <3> QED
      BY <1>6, <3>1 DEF L
  <2>2. CASE i \in 1 .. L
    BY <1>2, <1>3, <1>7, <2>2
  <2>3. i = L + 1 \/ i \in 1 .. L
    BY <1>2
  <2> QED
    BY <2>1, <2>2, <2>3
<1>9. ASSUME NEW t \in next
      PROVE  t.block \in 0 .. L /\ t.total = more[t.block + 1].count[t.did.warp]
  <2>1. CASE t \in executions
    <3>1. t.block \in 0 .. L - 1 /\ t.total = blocks[t.block + 1].count[t.did.warp]
      BY <1>3, <2>1
    <3>2. t.block + 1 \in 1 .. L /\ t.block \in 0 .. L
      BY <1>2, <3>1
    <3> QED
      BY <1>2, <3>1, <3>2
  <2>2. CASE \E e \in log : t = New(e)
    <3>1. PICK e \in log : t = New(e)
      BY <2>2
    <3>2. t.block = L /\ t.did = e /\ t.total = left.count[e.warp]
      BY <1>5, <3>1
    <3> QED
      BY <1>2, <3>2
  <2> QED
    BY <1>4, <2>1, <2>2
<1>10. FinishedOK(k, m, more, next)
  <2>1. Len(more) = L + 1 /\ Len(more) - 1 = L
    BY <1>2
  <2> QED
    BY <1>2, <1>8, <1>9, <2>1 DEF FinishedOK
<1> QED
  BY <1>2, <1>10 DEF more, L

\* The end of a block.
LEMMA FinalizeKeeps ==
  ASSUME TraceInv, FinalizeBlock
  PROVE  TraceInv'
<1> DEFINE k == K
           m == mode
           L == Len(buffer.blocks)
           counts == [w \in Warps(k) |-> IF Master(w) THEN run.index[w] ELSE run.saved[w]]
           left == [block |-> run.block, bytes |-> BufferBytes(k, m), data |-> run.data, count |-> counts]
<1>1. /\ phase = "running" /\ mode' = mode /\ kernel' = kernel /\ rows' = rows
      /\ buffer' = [buffer EXCEPT !.blocks = Append(@, left)]
      /\ truth' = truth \cup {[block |-> run.block, did |-> e, total |-> left.count[e.warp]] : e \in run.log}
      /\ \/ phase' = phase /\ \E g \in Garbage : run' = Block(k, run.block + 1, run.clock, g)
         \/ phase' = "returned"
  BY DEF FinalizeBlock, sessionVars
<1>2. /\ kernel \in DOMAIN Kernels /\ Compiles(kernel) /\ mode \in Modes /\ Recorded(kernel)
      /\ RunOK(k, m, L, run) /\ buffer = [of |-> kernel, blocks |-> buffer.blocks]
      /\ FinishedOK(k, m, buffer.blocks, truth) /\ rows = {}
  BY <1>1 DEF TraceInv, UnderWay
<1>3. Settings(k, m)
  BY <1>2, SettingsHold DEF Compiles, Recorded, K
<1>4. rows' = {} /\ phase' # "imported" /\ phase' \in {"running", "returned"}
  BY <1>1, <1>2
<1>5. PairsAreReal' /\ KeepsWhatIsLeft'
  BY <1>4 DEF PairsAreReal, KeepsWhatIsLeft
<1>6. K' = K /\ Recorded(kernel)' = Recorded(kernel) /\ Compiles(kernel)' = Compiles(kernel)
  BY <1>1 DEF K, Recorded, Compiles
<1>7. counts = Counts(k, run)
  BY DEF Counts, Master
<1> HIDE DEF counts
<1>8. left.block = run.block /\ left.bytes = BufferBytes(k, m) /\ left.data = run.data /\ left.count = counts
  OBVIOUS
<1> HIDE DEF left
<1>9. run.block = L /\ run.clock \in Nat /\ BlockOK(k, m, left.count, left.data, run.log)
  BY <1>2, <1>7, <1>8 DEF RunOK
<1> DEFINE more == Append(buffer.blocks, left)
<1>10. buffer' = [of |-> kernel, blocks |-> more] /\ buffer'.blocks = more
  <2> HIDE DEF more
  <2>1. buffer' = [buffer EXCEPT !.blocks = more]
    BY <1>1 DEF more
  <2> QED
    BY <1>2, <2>1
<1>11. FinishedOK(k, m, more, truth') /\ Len(more) = L + 1
  <2>1. Logged(truth', truth, Len(buffer.blocks), left, run.log)
    BY <1>1, <1>9 DEF Logged
  <2>2. left.block = Len(buffer.blocks) /\ left.bytes = BufferBytes(k, m)
    BY <1>8, <1>9
  <2> HIDE DEF k, m
  <2> QED
    BY <1>2, <1>9, <2>1, <2>2, FinishedOneMore
<1> HIDE DEF more
<1>12. phase' = "running" => RunOK(k, m, L + 1, run')
  <2> HAVE phase' = "running"
  <2>1. PICK g \in Garbage : run' = Block(k, L + 1, run.clock, g)
    BY <1>1, <1>9
  <2> HIDE DEF k, L
  <2> QED
    BY <1>3, <1>9, <2>1, BlockStarts
<1>13. RunOK(K', mode', Len(buffer'.blocks), run') \/ phase' # "running"
  BY <1>1, <1>6, <1>10, <1>11, <1>12
<1>14. FinishedOK(K', mode', buffer'.blocks, truth')
  BY <1>1, <1>6, <1>10, <1>11
<1> QED
  BY <1>1, <1>2, <1>4, <1>5, <1>6, <1>10, <1>13, <1>14 DEF TraceInv, UnderWay

---------------------------------------------------------------------------------
(* The import, and what follows for the rows.                                  *)

\* The exit that imports: the rows of a session that was not resumed are executions, and
\* every execution that the rings still hold has its row.
LEMMA ImportKeeps ==
  ASSUME TraceInv, ExitInstrumentedOp
  PROVE  TraceInv'
<1> DEFINE k == K
           u == Units
           blocks == buffer.blocks
           traces  == UNION {ParseBlock(buffer.blocks[i], Units) : i \in DOMAIN buffer.blocks}
           throws  == BadOptions \/ \E t \in traces : t.raised
           row(t, e, d) == [data |-> d, op |-> OpOf(d), block |-> t.block, uid |-> t.uid,
                            path |-> ContextOf(K, e[1].scope), duration |-> e[2].cycle - e[1].cycle,
                            from |-> e[1].time, to |-> e[2].time]
<1>1. /\ phase = "returned" /\ phase' = "imported" /\ dataSet' = dataSet /\ kernel' = kernel /\ mode' = mode
      /\ buffer' = buffer /\ truth' = truth /\ Recorded(kernel)
  BY DEF ExitInstrumentedOp, sessionVars
<1>2. raised' = throws
  BY SMTT(60) DEF ExitInstrumentedOp
<1>3. rows' = IF throws THEN {} ELSE UNION {{row(t, e, d) : e \in t.events, d \in dataSet} : t \in traces}
  BY SMTT(60) DEF ExitInstrumentedOp
<1>4. /\ kernel \in DOMAIN Kernels /\ Compiles(kernel) /\ mode \in Modes
      /\ FinishedOK(K, mode, buffer.blocks, truth)
  BY <1>1 DEF TraceInv, UnderWay
<1>5. Settings(K, mode)
  BY <1>1, <1>4, SettingsHold DEF Compiles, Recorded, K
<1>6. K' = K
  BY <1>1 DEF K
<1>7. /\ Len(blocks) \in Nat /\ DOMAIN blocks = 1 .. Len(blocks)
      /\ \A i \in 1 .. Len(blocks) :
           /\ blocks[i].block = i - 1 /\ blocks[i].bytes = BufferBytes(k, mode)
           /\ BlockOK(k, mode, blocks[i].count, blocks[i].data, LogIn(truth, i - 1))
      /\ \A t \in truth : t.block \in 0 .. Len(blocks) - 1 /\ t.total = blocks[t.block + 1].count[t.did.warp]
  <2>1. PICK S : buffer.blocks \in Seq(S)
    BY <1>4 DEF FinishedOK
  <2> QED
    BY <1>4, <2>1 DEF FinishedOK
<1>8. \A t : t \in traces <=> \E i \in 1 .. Len(blocks) : t \in ParseBlock(blocks[i], u)
  BY <1>7
<1>9. \A t, e, d : /\ row(t, e, d).data = d /\ row(t, e, d).block = t.block /\ row(t, e, d).uid = t.uid
                   /\ row(t, e, d).path = ContextOf(K, e[1].scope) /\ row(t, e, d).duration = e[2].cycle - e[1].cycle
                   /\ row(t, e, d).from = e[1].time /\ row(t, e, d).to = e[2].time
  OBVIOUS
<1> HIDE DEF traces, row
<1>10. ~throws => \A r : r \in rows' <=> \E t \in traces : \E e \in t.events : \E d \in dataSet : r = row(t, e, d)
  BY <1>3
<1>10a. OptionsFit => u = OwnUnits(k, mode) /\ (~BadOptions => ~BadUnit(k, mode))
  BY DEF OptionsFit, BadOptions, BadUnit
<1>11. ASSUME OptionsFit, ~BadOptions, NEW i \in 1 .. Len(blocks)
       PROVE  /\ \A t \in ParseBlock(blocks[i], u) :
                   /\ t.block = i - 1
                   /\ t.raised => \E l \in LogIn(truth, i - 1) : Wrapped(l)
                   /\ ~t.raised => \A e \in t.events : \E l \in LogIn(truth, i - 1) :
                                     l.warp = t.uid /\ EventOf(l, e) /\ l.id \in Scopes(k)
              /\ \A x \in 1 .. Len(u) :
                   \E t \in ParseBlock(blocks[i], u) :
                     /\ t.block = i - 1 /\ t.uid = u[x]
                     /\ ~t.raised => \A l \in LogIn(truth, i - 1) :
                                       l.warp = t.uid /\ Remains(k, mode, l, blocks[i].count[t.uid]) =>
                                       \E e \in t.events : EventOf(l, e)
  <2> DEFINE b == blocks[i]
             log == LogIn(truth, i - 1)
  <2>1. b.block = i - 1 /\ b.bytes = BufferBytes(k, mode) /\ BlockOK(k, mode, b.count, b.data, log) /\ Settings(k, mode)
    BY <1>5, <1>7
  <2> HIDE DEF b, log, k
  <2>2. BlockTold(k, mode, b, log)
    BY <1>10a, <1>11, <2>1, BlockTells
  <2>3. u = OwnUnits(k, mode)
    BY <1>10a, <1>11
  <2> HIDE DEF u
  <2> QED
    BY <2>1, <2>2, <2>3 DEF b, log, BlockTold
<1>12. \A n, l : l \in LogIn(truth, n) <=> \E t \in truth : t.block = n /\ t.did = l
  BY DEF LogIn
<1> HIDE DEF blocks, u, k
<1>13. ASSUME OptionsFit, throws
       PROVE  BadOptions \/ \E t \in truth : Wrapped(t.did)
  <2> SUFFICES ASSUME ~BadOptions PROVE \E t \in truth : Wrapped(t.did)
    OBVIOUS
  <2>1. PICK t \in traces : t.raised
    BY <1>13
  <2>2. PICK i \in 1 .. Len(blocks) : t \in ParseBlock(blocks[i], u)
    BY <1>8
  <2>3. PICK l \in LogIn(truth, i - 1) : Wrapped(l)
    BY <1>11, <1>13, <2>1, <2>2
  <2> QED
    BY <1>12, <2>3
<1>14. ASSUME OptionsFit, NEW r \in rows'
       PROVE  \E t \in truth :
                /\ t.block = r.block /\ t.did.warp = r.uid
                /\ t.did.from = r.from /\ t.did.to = r.to /\ r.duration = r.to - r.from
                /\ Nested(k) => r.path = Enclosing(k)[t.did.id + 1]
  <2>1. ~throws
    BY <1>3
  <2>2. PICK t \in traces : \E e \in t.events : \E d \in dataSet : r = row(t, e, d)
    BY <1>10, <2>1
  <2>3. PICK e \in t.events, d \in dataSet : r = row(t, e, d)
    BY <2>2
  <2>4. ~t.raised /\ ~BadOptions
    BY <2>1
  <2>5. PICK i \in 1 .. Len(blocks) : t \in ParseBlock(blocks[i], u)
    BY <1>8
  <2>6. t.block = i - 1 /\ \E l \in LogIn(truth, i - 1) : l.warp = t.uid /\ EventOf(l, e) /\ l.id \in Scopes(k)
    BY <1>11, <1>14, <2>4, <2>5
  <2>7. PICK l \in LogIn(truth, i - 1) : l.warp = t.uid /\ EventOf(l, e) /\ l.id \in Scopes(k)
    BY <2>6
  <2>8. PICK x \in truth : x.block = i - 1 /\ x.did = l
    BY <1>12, <2>7
  <2>9. Nested(k) => r.path = Enclosing(k)[l.id + 1]
    <3> HAVE Nested(k)
    <3>1. k.records \in Seq(RecordOps) /\ Paired(Named(k))
      BY <1>5, KernelFits DEF k
    <3>2. \A id \in 0 .. Len(ScopeIds(k).names) - 1 : ContextsOf(ScopeIds(k))[id] = Enclosing(k)[id + 1]
      BY <3>1, PathsAreEnclosing
    <3>3. r.path = ContextOf(k, l.id)
      BY <1>9, <2>3, <2>7 DEF EventOf, k
    <3>4. l.id \in 0 .. Len(ScopeIds(k).names) - 1
      BY <2>7 DEF Scopes
    <3>5. ContextOf(k, l.id) = ContextsOf(ScopeIds(k))[l.id]
      BY <3>4 DEF ContextOf
    <3> QED
      BY <3>2, <3>3, <3>4, <3>5
  <2>10. /\ r.block = t.block /\ r.uid = t.uid /\ r.from = e[1].time /\ r.to = e[2].time
         /\ r.duration = e[2].cycle - e[1].cycle
    BY <1>9, <2>3
  <2> QED
    BY <2>6, <2>7, <2>8, <2>9, <2>10 DEF EventOf
<1>15. ASSUME OptionsFit, ~throws, NEW x \in truth, NEW d \in dataSet, Sampled(x.did.warp),
              x.did.first >= x.total \div WordsPerEntry - Capacity,
              x.did.first \div Capacity = x.did.last \div Capacity
       PROVE  \E r \in rows' : /\ r.data = d /\ r.block = x.block /\ r.uid = x.did.warp
                               /\ r.from = x.did.from /\ r.to = x.did.to
  <2> DEFINE i == x.block + 1
             l == x.did
  <2>1. i \in 1 .. Len(blocks) /\ i - 1 = x.block /\ x.total = blocks[i].count[l.warp]
    BY <1>7 DEF blocks
  <2>2. PICK n \in 1 .. Len(u) : u[n] = l.warp
    <3>1. u \in Seq(Nat)
      BY <1>5, <1>10a, <1>15, UnitsAreSegments DEF Settings, k
    <3>2. PICK n \in DOMAIN u : u[n] = l.warp
      BY <1>10a, <1>15 DEF Sampled, k
    <3> QED
      BY <3>1, <3>2
  <2>3. Remains(k, mode, l, blocks[i].count[l.warp])
    BY <1>15, <2>1 DEF Remains, Capacity, Slots, k
  <2>4. l \in LogIn(truth, i - 1)
    BY <1>12, <2>1
  <2> HIDE DEF i, l
  <2>5. ~BadOptions
    BY <1>15
  <2>6. PICK t \in ParseBlock(blocks[i], u) :
          /\ t.block = i - 1 /\ t.uid = u[n]
          /\ ~t.raised => \A y \in LogIn(truth, i - 1) :
                            y.warp = t.uid /\ Remains(k, mode, y, blocks[i].count[t.uid]) =>
                            \E e \in t.events : EventOf(y, e)
    BY <1>11, <1>15, <2>1, <2>5
  <2>7. t \in traces
    BY <1>8, <2>1
  <2>8. ~t.raised
    BY <1>15, <2>7
  <2>9. PICK e \in t.events : EventOf(l, e)
    BY <2>2, <2>3, <2>4, <2>6, <2>8
  <2>10. row(t, e, d) \in rows'
    BY <1>10, <1>15, <2>7, <2>9
  <2>11. /\ row(t, e, d).data = d /\ row(t, e, d).block = x.block /\ row(t, e, d).uid = l.warp
         /\ row(t, e, d).from = l.from /\ row(t, e, d).to = l.to
    BY <1>9, <2>1, <2>2, <2>6, <2>9 DEF EventOf
  <2> QED
    BY <2>10, <2>11 DEF l
<1>15a. OptionsFit' = OptionsFit /\ BadOptions' = BadOptions
  <2>1. modeOptions' = modeOptions /\ mode' = mode
    BY DEF ExitInstrumentedOp, sessionVars
  <2> QED
    BY <1>6, <2>1 DEF OptionsFit, BadOptions, Units
<1>16. PairsAreReal'
  BY <1>1, <1>6, <1>14, <1>15a DEF PairsAreReal, k
<1>17. KeepsWhatIsLeft'
  <2>1. Capacity' = Capacity /\ \A w : Sampled(w)' = Sampled(w)
    BY <1>1, <1>6 DEF Capacity, Sampled
  <2> HIDE DEF throws
  <2> QED
    BY <1>1, <1>2, <1>6, <1>13, <1>15, <1>15a, <2>1 DEF KeepsWhatIsLeft, k
<1> QED
  BY <1>1, <1>4, <1>16, <1>17 DEF TraceInv, UnderWay

\* Every step keeps the invariant.
LEMMA TraceStep == TraceInv /\ [ProfilerNext]_profilerVars => TraceInv'
<1> SUFFICES ASSUME TraceInv, [ProfilerNext]_profilerVars PROVE TraceInv'
  OBVIOUS
<1>1. CASE StartSession \/ StopSession \/ Resume \/ \E m \in RefusedModes : RefusedStart(m)
  <2>1. phase' = "idle" /\ rows' = {} /\ mode' \in Modes
    BY <1>1 DEF StartSession, StopSession, Resume, RefusedStart, Forget, TraceInv
  <2> QED
    BY <2>1 DEF TraceInv, UnderWay, PairsAreReal, KeepsWhatIsLeft
<1>2. CASE \E n \in DOMAIN Kernels : EnterLaunch(n)
  BY <1>2, LaunchKeeps
<1>3. CASE \E w \in UNION {Warps(Kernels[n]) : n \in DOMAIN Kernels} : Partition(w)
  <2>1. PICK w : Partition(w)
    BY <1>3
  <2> QED
    BY <2>1, PartitionKeeps
<1>4. CASE FinalizeBlock
  BY <1>4, FinalizeKeeps
<1>5. CASE ExitUnseen
  <2>1. phase = "returned" /\ phase' = "imported" /\ rows' = rows /\ buffer' = Nothing /\ mode' = mode
    BY <1>5 DEF ExitUnseen, historyVars, sessionVars
  <2>2. rows' = {}
    BY <2>1 DEF TraceInv
  <2> QED
    BY <2>1, <2>2 DEF TraceInv, UnderWay, PairsAreReal, KeepsWhatIsLeft
<1>6. CASE ExitDivides
  <2>1. /\ phase = "returned" /\ phase' = phase /\ rows' = rows /\ truth' = truth /\ buffer' = buffer
        /\ mode' = mode /\ kernel' = kernel /\ run' = run
    BY <1>6 DEF ExitDivides, historyVars, sessionVars
  <2>2. PairsAreReal' /\ KeepsWhatIsLeft'
    BY <2>1 DEF TraceInv, PairsAreReal, KeepsWhatIsLeft
  <2>3. K' = K /\ Recorded(kernel)' = Recorded(kernel) /\ Compiles(kernel)' = Compiles(kernel)
    BY <2>1 DEF K, Recorded, Compiles
  <2> QED
    BY <2>1, <2>2, <2>3 DEF TraceInv, UnderWay
<1>7. CASE ExitInstrumentedOp
  BY <1>7, ImportKeeps
<1>8. CASE UNCHANGED profilerVars
  <2>1. /\ phase' = phase /\ rows' = rows /\ truth' = truth /\ buffer' = buffer /\ raised' = raised
        /\ mode' = mode /\ kernel' = kernel /\ run' = run /\ dataSet' = dataSet
        /\ modeOptions' = modeOptions
    BY <1>8 DEF profilerVars, historyVars, sessionVars
  <2>2. K' = K /\ Recorded(kernel)' = Recorded(kernel) /\ Compiles(kernel)' = Compiles(kernel)
    BY <2>1 DEF K, Recorded, Compiles
  <2>5. OptionsFit' = OptionsFit /\ BadOptions' = BadOptions
    BY <2>1, <2>2 DEF OptionsFit, BadOptions, Units
  <2>3. PairsAreReal'
    BY <2>1, <2>2, <2>5 DEF TraceInv, PairsAreReal
  <2>4. KeepsWhatIsLeft'
    <3>1. Capacity' = Capacity /\ \A w : Sampled(w)' = Sampled(w)
      BY <2>1, <2>2 DEF Capacity, Sampled
    <3> QED
      BY <2>1, <2>2, <2>5, <3>1 DEF TraceInv, KeepsWhatIsLeft
  <2> QED
    BY <2>1, <2>2, <2>3, <2>4 DEF TraceInv, UnderWay
<1> QED
  BY <1>1, <1>2, <1>3, <1>4, <1>5, <1>6, <1>7, <1>8 DEF ProfilerNext

\* So it always holds.
LEMMA AlwaysTraceInv == ProfilerSpec => []TraceInv
<1>1. ProfilerInit => TraceInv
  BY DEF ProfilerInit, TraceInv, UnderWay, PairsAreReal, KeepsWhatIsLeft
<1> QED
  BY <1>1, TraceStep, PTL DEF ProfilerSpec

\* Every imported row is an execution by that warp in that block, from its start to its
\* own end, under the calling context of its scope where scopes nest: a start or an end
\* that was overwritten, or one of another execution, never makes a row.  This for every
\* session, as long as the options that sessions and refused starts have left in effect
\* select the warps that its own mode does.
THEOREM RowsAreReal == ProfilerSpec => []PairsAreReal
<1>1. TraceInv => PairsAreReal
  BY DEF TraceInv
<1> QED
  BY <1>1, AlwaysTraceInv, PTL

\* Every execution of a sampled warp whose start and end its ring still holds, on one side
\* of the seam, has its row in every data that was recording, unless a wrapped counter, a
\* warp that the kernel does not have or a granularity that the parser does not take makes
\* the import raise; as long as the options in effect select the warps of the mode.
THEOREM RingKeeps == ProfilerSpec => []KeepsWhatIsLeft
<1>1. TraceInv => KeepsWhatIsLeft
  BY DEF TraceInv
<1> QED
  BY <1>1, AlwaysTraceInv, PTL
=============================================================================
