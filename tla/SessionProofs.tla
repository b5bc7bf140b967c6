---------------------------- MODULE SessionProofs ----------------------------
(***************************************************************************)
(* Proofs about sessions, in two parts that share no state.  The first is  *)
(* about SessionManager, for any paths, profilers, requests, number of     *)
(* sessions and any failures.                                              *)
(*                                                                         *)
(* The types alone are not inductive: unregisterInterface decrements       *)
(* unsigned counters, and what keeps them from wrapping is that a session  *)
(* that is active is counted (CountsCoverActive), which in turn rests on   *)
(* the maps agreeing on which sessions exist (ActivityIndex).              *)
(*                                                                         *)
(* The second is about ActivityCollector, for any number of calls,         *)
(* sessions and configurations, on each collector and whatever fails: a    *)
(* session gets the kernels of its own launches, once each, and gives back *)
(* what it has enabled.                                                    *)
(***************************************************************************)
EXTENDS SessionManager, ActivityCollector, TLAPS, FiniteSetTheorems

-----------------------------------------------------------------------------
(* Counting the sessions that share a profiler.                            *)

\* Sharing, with the sessions map as a parameter.
Share(f, S, p) == Cardinality({i \in S : f[i].req.profiler = p})

\* There are finitely many session ids.
LEMMA IdsFinite == IsFiniteSet(Ids)
  BY FS_Interval, SessionAssumptions DEF Ids

\* A number of sessions is a natural number, and fewer sessions share less.
LEMMA ShareBound ==
  ASSUME NEW f, NEW p, NEW S \in SUBSET Ids, NEW T \in SUBSET S
  PROVE  /\ Share(f, S, p) \in Nat
         /\ Share(f, T, p) \in Nat
         /\ Share(f, T, p) <= Share(f, S, p)
<1> DEFINE A == {i \in S : f[i].req.profiler = p}
           B == {i \in T : f[i].req.profiler = p}
<1>1. IsFiniteSet(A)
  <2>1. A \in SUBSET Ids
    OBVIOUS
  <2> QED
    BY <2>1, IdsFinite, FS_Subset
<1>2. B \in SUBSET A
  OBVIOUS
<1>3. IsFiniteSet(B) /\ Cardinality(B) <= Cardinality(A)
  BY <1>1, <1>2, FS_Subset
<1>4. Cardinality(A) \in Nat /\ Cardinality(B) \in Nat
  BY <1>1, <1>3, FS_CardinalityType
<1> QED
  BY <1>3, <1>4 DEF Share

\* Disjoint sets of sessions add up.
LEMMA ShareUnion ==
  ASSUME NEW f, NEW p, NEW S \in SUBSET Ids, NEW T \in SUBSET Ids,
         S \cap T = {}
  PROVE  Share(f, S \cup T, p) = Share(f, S, p) + Share(f, T, p)
<1> DEFINE A == {i \in S : f[i].req.profiler = p}
           B == {i \in T : f[i].req.profiler = p}
           C == {i \in S \cup T : f[i].req.profiler = p}
<1>1. IsFiniteSet(A) /\ IsFiniteSet(B)
  <2>1. A \in SUBSET Ids /\ B \in SUBSET Ids
    OBVIOUS
  <2> QED
    BY <2>1, IdsFinite, FS_Subset
<1>2. C = A \cup B /\ A \cap B = {}
  OBVIOUS
<1>3. Cardinality(A \cup B)
        = Cardinality(A) + Cardinality(B) - Cardinality(A \cap B)
  BY <1>1, FS_Union
<1>4. Cardinality(A \cap B) = 0
  BY <1>2, FS_EmptySet
<1>5. Cardinality(A) \in Nat /\ Cardinality(B) \in Nat
  BY <1>1, FS_CardinalityType
<1> HIDE DEF A, B, C
<1>6. Cardinality(C) = Cardinality(A) + Cardinality(B)
  BY <1>2, <1>3, <1>4, <1>5
<1> QED
  BY <1>6 DEF Share, A, B, C

\* Only the sessions counted matter.
LEMMA ShareAgree ==
  ASSUME NEW f, NEW g, NEW S, NEW p, \A i \in S : f[i] = g[i]
  PROVE  Share(f, S, p) = Share(g, S, p)
<1>1. {i \in S : f[i].req.profiler = p} = {i \in S : g[i].req.profiler = p}
  OBVIOUS
<1> QED
  BY <1>1 DEF Share

-----------------------------------------------------------------------------
(* The interface counters: what registering and unregistering do to them.  *)

CountsTyped ==
  /\ scopeInterfaceCounts \in [ScopeInterfaces -> Nat]
  /\ opInterfaceCounts \in [Profilers -> Nat]
  /\ instrumentationInterfaceCounts \in [Profilers -> Nat]
  /\ contextSourceCounts \in [Ids -> Nat]

CountsOK == CountsTyped /\ CountsCoverActive

\* Registering the sessions that become active keeps every counter at or
\* above the number of active sessions behind it.
LEMMA RegisterCovers ==
  ASSUME NEW S \in SUBSET Ids, S \cap Active = {}, RegisterInterfaces(S),
         CountsOK, Active' = Active \cup S, UNCHANGED sessions
  PROVE  CountsOK'
<1> DEFINE sh(p) == Share(sessions, S, p)
<1>0. /\ \A p : sh(p) \in Nat /\ sh(p) = Sharing(S, p)
      /\ \A p : Sharing(Active, p)' = Sharing(Active, p) + sh(p)
      /\ \A p : Sharing(Active, p) \in Nat
  <2>1. \A p : Sharing(Active, p)' = Share(sessions, Active \cup S, p)
    BY DEF Sharing, Share, ProfilerOf
  <2>2. Active \in SUBSET Ids
    BY DEF Active
  <2>3. \A p : Share(sessions, Active \cup S, p) = Share(sessions, Active, p) + sh(p)
    BY <2>2, ShareUnion
  <2>4. \A p : sh(p) \in Nat /\ Share(sessions, Active, p) \in Nat
    BY <2>2, ShareBound
  <2> QED
    BY <2>1, <2>3, <2>4 DEF Sharing, Share, ProfilerOf
<1>1. CountsTyped'
  BY <1>0 DEF CountsOK, CountsTyped, RegisterInterfaces
<1>2. (\A o \in ScopeInterfaces : o[2] \in Active /\ o \in ScopeInterfacesOf(o[2])
         => scopeInterfaceCounts[o] >= 1)'
  BY DEF CountsOK, CountsTyped, CountsCoverActive, RegisterInterfaces,
         ScopeInterfacesOf, DataOf
<1>3. (\A i \in Active : contextSourceCounts[i] >= 1)'
  BY DEF CountsOK, CountsTyped, CountsCoverActive, RegisterInterfaces, Active
<1>4. ASSUME NEW p \in Profilers
      PROVE  opInterfaceCounts'[p] >= Sharing(Active, p)'
  <2>1. opInterfaceCounts'[p] = opInterfaceCounts[p] + sh(p)
    BY <1>0 DEF RegisterInterfaces
  <2>2. opInterfaceCounts[p] \in Nat /\ opInterfaceCounts[p] >= Sharing(Active, p)
    BY DEF CountsOK, CountsTyped, CountsCoverActive
  <2>3. /\ sh(p) \in Nat /\ Sharing(Active, p) \in Nat
        /\ Sharing(Active, p)' = Sharing(Active, p) + sh(p)
    BY <1>0
  <2> HIDE DEF sh
  <2> QED
    BY <2>1, <2>2, <2>3
<1>5. ASSUME NEW p \in Instrumenting
      PROVE  instrumentationInterfaceCounts'[p] >= Sharing(Active, p)'
  <2>1. p \in Profilers
    BY SessionAssumptions
  <2>2. instrumentationInterfaceCounts'[p]
          = instrumentationInterfaceCounts[p] + sh(p)
    BY <1>0, <2>1 DEF RegisterInterfaces
  <2>3. /\ instrumentationInterfaceCounts[p] \in Nat
        /\ instrumentationInterfaceCounts[p] >= Sharing(Active, p)
    BY <2>1 DEF CountsOK, CountsTyped, CountsCoverActive
  <2>4. /\ sh(p) \in Nat /\ Sharing(Active, p) \in Nat
        /\ Sharing(Active, p)' = Sharing(Active, p) + sh(p)
    BY <1>0
  <2> HIDE DEF sh
  <2> QED
    BY <2>2, <2>3, <2>4
<1> QED
  BY <1>1, <1>2, <1>3, <1>4, <1>5 DEF CountsOK, CountsCoverActive

\* Unregistering sessions that are active never takes a counter below the
\* number of the sessions that stay active, nor below zero.
LEMMA UnregisterCovers ==
  ASSUME NEW S \in SUBSET Active, UnregisterInterfaces(S), CountsOK,
         Active' \subseteq Active \ S,
         \A i \in Active' : sessions'[i] = sessions[i]
  PROVE  CountsOK'
<1> DEFINE sh(p) == Share(sessions, S, p)
<1>0. \A p : /\ Sharing(S, p) \in Nat
             /\ Sharing(Active, p) \in Nat
             /\ Sharing(Active, p)' \in Nat
             /\ Sharing(Active, p)' + Sharing(S, p) <= Sharing(Active, p)
  <2> SUFFICES ASSUME NEW p
               PROVE  /\ Share(sessions, S, p) \in Nat
                      /\ Share(sessions, Active, p) \in Nat
                      /\ Share(sessions', Active', p) \in Nat
                      /\ Share(sessions', Active', p) + Share(sessions, S, p)
                           <= Share(sessions, Active, p)
    BY DEF Sharing, Share, ProfilerOf
  <2>1. Active \in SUBSET Ids /\ S \in SUBSET Ids
        /\ Active' \in SUBSET (Active \ S) /\ Active \ S \in SUBSET Ids
    BY DEF Active
  <2>2. Share(sessions', Active', p) = Share(sessions, Active', p)
    BY ShareAgree
  <2>3. /\ Share(sessions, Active \ S, p) \in Nat
        /\ Share(sessions, Active', p) \in Nat
        /\ Share(sessions, Active', p) <= Share(sessions, Active \ S, p)
    BY <2>1, ShareBound
  <2>4. Share(sessions, S, p) \in Nat /\ Share(sessions, Active, p) \in Nat
    BY <2>1, ShareBound
  <2>5. Share(sessions, (Active \ S) \cup S, p)
          = Share(sessions, Active \ S, p) + Share(sessions, S, p)
    BY <2>1, ShareUnion
  <2>6. (Active \ S) \cup S = Active
    OBVIOUS
  <2>7. Share(sessions, Active, p)
          = Share(sessions, Active \ S, p) + Share(sessions, S, p)
    BY <2>5, <2>6
  <2> QED
    BY <2>2, <2>3, <2>4, <2>7
<1>1. /\ scopeInterfaceCounts' \in [ScopeInterfaces -> Nat]
      /\ \A o \in ScopeInterfaces :
           o[2] \in Active' /\ o \in ScopeInterfacesOf(o[2])'
             => scopeInterfaceCounts'[o] >= 1
  <2>1. \A o \in ScopeInterfaces :
          o[2] \in Active' => /\ o[2] \in Active /\ o[2] \notin S
                              /\ ScopeInterfacesOf(o[2])' = ScopeInterfacesOf(o[2])
    BY DEF ScopeInterfacesOf, DataOf
  <2> QED
    BY <2>1 DEF CountsOK, CountsTyped, CountsCoverActive, UnregisterInterfaces
<1>2. contextSourceCounts' \in [Ids -> Nat]
      /\ \A i \in Active' : contextSourceCounts'[i] >= 1
  BY DEF CountsOK, CountsTyped, CountsCoverActive, UnregisterInterfaces, Active
<1>3. ASSUME NEW p \in Profilers
      PROVE  /\ opInterfaceCounts[p] - Sharing(S, p) \in Nat
             /\ opInterfaceCounts[p] - Sharing(S, p) >= Sharing(Active, p)'
  BY <1>0 DEF CountsOK, CountsTyped, CountsCoverActive
<1>4. ASSUME NEW p \in Instrumenting
      PROVE  /\ p \in Profilers
             /\ instrumentationInterfaceCounts[p] - Sharing(S, p) \in Nat
             /\ instrumentationInterfaceCounts[p] - Sharing(S, p)
                  >= Sharing(Active, p)'
  BY <1>0, SessionAssumptions DEF CountsOK, CountsTyped, CountsCoverActive
<1>5. /\ opInterfaceCounts' \in [Profilers -> Nat]
      /\ \A p \in Profilers : opInterfaceCounts'[p] >= Sharing(Active, p)'
  BY <1>3 DEF UnregisterInterfaces
<1>6. /\ instrumentationInterfaceCounts' \in [Profilers -> Nat]
      /\ \A p \in Instrumenting :
           instrumentationInterfaceCounts'[p] >= Sharing(Active, p)'
  BY <1>4 DEF UnregisterInterfaces, CountsOK, CountsTyped
<1> QED
  BY <1>1, <1>2, <1>5, <1>6 DEF CountsOK, CountsTyped, CountsCoverActive

\* What is no longer active needs no counting.
LEMMA FewerCovers ==
  ASSUME UNCHANGED countVars, CountsOK, Active' \subseteq Active,
         \A i \in Active' : sessions'[i] = sessions[i]
  PROVE  CountsOK'
<1>1. ASSUME NEW p
      PROVE  /\ Sharing(Active, p)' \in Nat
             /\ Sharing(Active, p) \in Nat
             /\ Sharing(Active, p)' <= Sharing(Active, p)
  <2>1. Active \in SUBSET Ids /\ Active' \in SUBSET Active
    BY DEF Active
  <2>2. Share(sessions', Active', p) = Share(sessions, Active', p)
    BY ShareAgree
  <2>3. /\ Share(sessions, Active', p) \in Nat /\ Share(sessions, Active, p) \in Nat
        /\ Share(sessions, Active', p) <= Share(sessions, Active, p)
    BY <2>1, ShareBound
  <2> QED
    BY <2>2, <2>3 DEF Sharing, Share, ProfilerOf
<1>2. \A o \in ScopeInterfaces :
        o[2] \in Active' => /\ o[2] \in Active
                            /\ ScopeInterfacesOf(o[2])' = ScopeInterfacesOf(o[2])
  BY DEF ScopeInterfacesOf, DataOf
<1>3. ASSUME NEW p \in Profilers
      PROVE  opInterfaceCounts'[p] >= Sharing(Active, p)'
  BY <1>1 DEF CountsOK, CountsTyped, CountsCoverActive, countVars
<1>4. ASSUME NEW p \in Instrumenting
      PROVE  instrumentationInterfaceCounts'[p] >= Sharing(Active, p)'
  BY <1>1, SessionAssumptions DEF CountsOK, CountsTyped, CountsCoverActive, countVars
<1> QED
  BY <1>2, <1>3, <1>4 DEF CountsOK, CountsTyped, CountsCoverActive, countVars

-----------------------------------------------------------------------------
(* The inductive invariant of the types.                                   *)

\* TypeOK without the counters.
MapsTyped ==
  /\ nextSessionId \in 0 .. MaxSessions
  /\ sessionPaths \in [Paths -> Ids \cup {Absent}]
  /\ sessions \in [Ids -> Session \cup {Absent}]
  /\ activeSessions \in [Ids -> {"none", "inactive", "active"}]
  /\ started \in [Profilers -> BOOLEAN]
  /\ dataSet \in [Profilers -> SUBSET DataObjects]
  /\ modeAndOptions \in [Profilers -> {r.mode : r \in Requests} \cup {Absent}]
  /\ pcSampling \in [Profilers -> BOOLEAN]
  /\ runtime \in [Profilers -> Devices \cup {Absent}]
  /\ modeOptions \in [Profilers -> [OptionKeys -> OptionValues \cup {Absent}]]
  /\ disturbed \subseteq Instrumenting
  /\ collector \in [Profilers -> {"off", "plain", "sampling", "partial"}]
  /\ starting \in Ids \cup {Absent}
  /\ detached \in [Ids -> Session \cup {Absent}]
  /\ finalized \subseteq Ids /\ aborted \subseteq Ids /\ lost \subseteq Ids
  /\ flushFaults \in Nat

IInv == MapsTyped /\ ActivityIndex /\ CountsOK

-----------------------------------------------------------------------------
(* The kinds of steps: calls differ in the sessions they are about, not in *)
(* what they do to one of them.                                            *)

\* Sessions S activate, those of X fail in start and those of F in flush.
Activates(S, X, F) ==
  /\ S \cap Active = {} /\ (X \cup F) \cap (S \cup Active) = {}
  /\ ActivateImpl(S, X, F)
  /\ starting' = Absent
  /\ UNCHANGED <<mapVars, configVars, detached, endVars>>

\* Sessions S deactivate, those of F fail in flush.
Deactivates(S, F) ==
  /\ DeactivateImpl(S, F)
  /\ UNCHANGED <<mapVars, started, collector, configVars, starting, detached,
                 endVars>>

\* Sessions S leave the maps for a finalizing call.
Closes(S) ==
  /\ Idle /\ S # {} /\ DeactivateAndDetach(S)
  /\ UNCHANGED <<nextSessionId, started, collector, configVars, starting,
                 endVars>>

\* Every step of the session manager is of one of these kinds.
LEMMA StepKinds ==
  ASSUME IInv, [Next]_vars
  PROVE  \/ \E path \in Paths, r \in Requests : AddSession(path, r)
         \/ \E S, X, F \in SUBSET Live : Activates(S, X, F)
         \/ ActivateStartedFails
         \/ \E S, F \in SUBSET Active : Deactivates(S, F)
         \/ \E S \in SUBSET Live : Closes(S)
         \/ \E i \in Ids : Finalize(i)
         \/ UNCHANGED vars
<1> DEFINE Goal == \/ \E path \in Paths, r \in Requests : AddSession(path, r)
                   \/ \E S, X, F \in SUBSET Live : Activates(S, X, F)
                   \/ ActivateStartedFails
                   \/ \E S, F \in SUBSET Active : Deactivates(S, F)
                   \/ \E S \in SUBSET Live : Closes(S)
                   \/ \E i \in Ids : Finalize(i)
                   \/ UNCHANGED vars
<1> SUFFICES Goal
  OBVIOUS
<1>a. ASSUME NEW S \in SUBSET Live, NEW X \in SUBSET Live, NEW F \in SUBSET Live,
             Activates(S, X, F)
      PROVE  Goal
  BY <1>a
<1>d. ASSUME NEW S \in SUBSET Active, NEW F \in SUBSET Active, Deactivates(S, F)
      PROVE  Goal
  BY <1>d
<1>c. ASSUME NEW S \in SUBSET Live, Closes(S)
      PROVE  Goal
  BY <1>c
<1>1. ASSUME NEW path \in Paths, NEW r \in Requests, AddSession(path, r)
      PROVE  Goal
  BY <1>1
<1>2. ASSUME NEW i \in Ids, Finalize(i)
      PROVE  Goal
  BY <1>2
<1> HIDE DEF Goal
<1>3. CASE ActivateStarted
  <2>1. starting \in Live /\ starting \notin Active
    BY <1>3 DEF ActivateStarted, IInv, ActivityIndex, Active
  <2>2. {starting} \in SUBSET Live /\ {} \in SUBSET Live
    BY <2>1
  <2>3. Activates({starting}, {}, {})
    BY <1>3, <2>1 DEF ActivateStarted, Activates
  <2> QED
    BY <2>2, <2>3, <1>a
<1>5. ASSUME NEW i \in Ids, ActivateSession(i)
      PROVE  Goal
  <2>1. i \in Live /\ i \notin Active /\ starting' = Absent
    BY <1>5 DEF ActivateSession, Idle
  <2>2. {i} \in SUBSET Live /\ {} \in SUBSET Live
    BY <2>1
  <2>3. \/ Activates({i}, {}, {}) \/ Activates({}, {i}, {})
        \/ Activates({}, {}, {i})
    BY <1>5, <2>1 DEF ActivateSession, Activates
  <2> QED
    BY <2>2, <2>3, <1>a
<1>6. ASSUME NEW i \in Ids, DeactivateSession(i)
      PROVE  Goal
  <2>1. {i} \in SUBSET Active /\ {} \in SUBSET Active
    BY <1>6 DEF DeactivateSession
  <2>2. Deactivates({i}, {}) \/ Deactivates({}, {i})
    BY <1>6 DEF DeactivateSession, Deactivates
  <2> QED
    BY <2>1, <2>2, <1>d
<1>7. CASE ActivateAllSessions
  <2> DEFINE known == {i \in Ids : activeSessions[i] = "inactive"}
             before(f) == {i \in known : i < f}
  <2>1. known \in SUBSET Live /\ known \cap Active = {} /\ starting' = Absent
    BY <1>7 DEF ActivateAllSessions, Idle, IInv, ActivityIndex, Active
  <2>2. \A f \in known : /\ before(f) \in SUBSET Live /\ {f} \in SUBSET Live
                         /\ f \notin before(f) /\ before(f) \cap Active = {}
    BY <2>1 DEF Ids
  <2>3. UNCHANGED <<mapVars, configVars, detached, endVars>>
    BY <1>7 DEF ActivateAllSessions
  <2>4. CASE ActivateImpl(known, {}, {})
    <3> HIDE DEF known
    <3>1. Activates(known, {}, {}) /\ {} \in SUBSET Live
      BY <2>1, <2>3, <2>4 DEF Activates
    <3> QED
      BY <2>1, <3>1, <1>a
  <2>5. ASSUME NEW f \in known,
               \/ ActivateImpl(before(f), {f}, {})
               \/ ActivateImpl(before(f), {}, {f})
        PROVE  Goal
    <3>1. /\ before(f) \in SUBSET Live /\ {f} \in SUBSET Live /\ {} \in SUBSET Live
          /\ before(f) \cap Active = {} /\ {f} \cap (before(f) \cup Active) = {}
      BY <2>1, <2>2
    <3> HIDE DEF before, known
    <3>2. Activates(before(f), {f}, {}) \/ Activates(before(f), {}, {f})
      BY <2>1, <2>3, <2>5, <3>1 DEF Activates
    <3> QED
      BY <3>1, <3>2, <1>a
  <2> QED
    BY <1>7, <2>4, <2>5 DEF ActivateAllSessions
<1>8. ASSUME DeactivateAllFails,
             UNCHANGED <<mapVars, started, collector, configVars, starting,
                         detached, endVars>>
      PROVE  Goal
  <2>1. PICK f \in Active : DeactivateImpl({i \in Active : i < f}, {f})
    BY <1>8 DEF DeactivateAllFails
  <2>2. {i \in Active : i < f} \in SUBSET Active /\ {f} \in SUBSET Active
    OBVIOUS
  <2>3. Deactivates({i \in Active : i < f}, {f})
    BY <1>8, <2>1 DEF Deactivates
  <2> QED
    BY <2>2, <2>3, <1>d
<1>9. CASE DeactivateAllSessions
  <2>1. Active \in SUBSET Active /\ {} \in SUBSET Active
    OBVIOUS
  <2>2. CASE DeactivateImpl(Active, {})
    <3>1. Deactivates(Active, {})
      BY <1>9, <2>2 DEF DeactivateAllSessions, Deactivates
    <3> QED
      BY <2>1, <3>1, <1>d
  <2>3. CASE DeactivateAllFails
    BY <1>8, <1>9, <2>3 DEF DeactivateAllSessions
  <2> QED
    BY <1>9, <2>2, <2>3 DEF DeactivateAllSessions
<1>10. ASSUME NEW i \in Ids, FinalizeSession(i)
       PROVE  Goal
  <2>1. CASE DeactivateAndDetach({i})
    <3>1. Closes({i}) /\ {i} \in SUBSET Live
      BY <1>10, <2>1 DEF FinalizeSession, Closes
    <3> QED
      BY <3>1, <1>c
  <2>2. CASE /\ i \in Active /\ DeactivateImpl({}, {i})
             /\ UNCHANGED <<sessionPaths, sessions, detached>>
    <3>1. {i} \in SUBSET Active /\ {} \in SUBSET Active
      BY <2>2
    <3>2. Deactivates({}, {i})
      BY <1>10, <2>2 DEF FinalizeSession, Deactivates, mapVars
    <3> QED
      BY <3>1, <3>2, <1>d
  <2> QED
    BY <1>10, <2>1, <2>2 DEF FinalizeSession
<1>11. CASE FinalizeAllSessions
  <2>1. CASE DeactivateAndDetach(Live)
    <3>1. Closes(Live) /\ Live \in SUBSET Live
      BY <1>11, <2>1 DEF FinalizeAllSessions, Closes
    <3> QED
      BY <3>1, <1>c
  <2>2. CASE /\ DeactivateAllFails
             /\ UNCHANGED <<sessionPaths, sessions, detached>>
    BY <1>8, <1>11, <2>2 DEF FinalizeAllSessions, mapVars
  <2> QED
    BY <1>11, <2>1, <2>2 DEF FinalizeAllSessions
<1> QED
  BY <1>1, <1>2, <1>3, <1>5, <1>6, <1>7, <1>9, <1>10, <1>11 DEF Next, Goal

-----------------------------------------------------------------------------
(* Every kind of step keeps the invariant.                                 *)

\* Initially no session exists and nothing is counted.
LEMMA InitIInv == Init => IInv
<1> SUFFICES ASSUME Init PROVE IInv
  OBVIOUS
<1>1. MapsTyped
  BY SessionAssumptions DEF Init, MapsTyped, Ids
<1>2. ActivityIndex
  BY DEF Init, ActivityIndex, Live, Detached
<1>3. CountsTyped
  BY DEF Init, CountsTyped
<1>4. Active = {}
  BY DEF Init, Active
<1>5. \A p : Sharing(Active, p) = 0
  <2>1. \A p : {i \in Active : ProfilerOf(i) = p} = {}
    BY <1>4
  <2> QED
    BY <2>1, FS_EmptySet DEF Sharing
<1>6. CountsCoverActive
  BY <1>4, <1>5, SessionAssumptions DEF Init, CountsCoverActive
<1> QED
  BY <1>1, <1>2, <1>3, <1>6 DEF IInv, CountsOK

\* Starting profilers keeps their state well typed.
LEMMA StartProfilersTyped ==
  ASSUME MapsTyped, NEW F, NEW X, StartProfilers(F, X)
  PROVE  /\ started' \in [Profilers -> BOOLEAN]
         /\ collector' \in [Profilers -> {"off", "plain", "sampling", "partial"}]
  BY DEF MapsTyped, StartProfilers

\* Flushing keeps the number of failed flushes a number.
LEMMA FlushingTyped ==
  ASSUME MapsTyped, NEW F, Flushing(F)
  PROVE  flushFaults' \in Nat
  BY DEF MapsTyped, Flushing

\* The data objects under a profiler are data objects.
LEMMA DataUnderTyped ==
  ASSUME NEW S \in SUBSET Ids, NEW p
  PROVE  DataUnder(S, p) \subseteq DataObjects
  BY DEF DataUnder, DataOf, DataObjects

\* Configuring a profiler keeps its configuration well typed.
LEMMA ConfigureTyped ==
  ASSUME MapsTyped, NEW r \in Requests, ~UnknownDevice(r), Configure(r)
  PROVE  /\ pcSampling' \in [Profilers -> BOOLEAN]
         /\ runtime' \in [Profilers -> Devices \cup {Absent}]
         /\ modeOptions' \in [Profilers -> [OptionKeys -> OptionValues \cup {Absent}]]
<1>1. pcSampling' \in [Profilers -> BOOLEAN]
  BY SessionAssumptions DEF MapsTyped, Configure, Sampling
<1>2. runtime' \in [Profilers -> Devices \cup {Absent}]
  BY DEF MapsTyped, Configure, UnknownDevice
<1>3. ASSUME NEW old \in [OptionKeys -> OptionValues \cup {Absent}]
      PROVE  Merged(old, r.options) \in [OptionKeys -> OptionValues \cup {Absent}]
  BY SessionAssumptions DEF Merged
<1>4. modeOptions' \in [Profilers -> [OptionKeys -> OptionValues \cup {Absent}]]
  <2> DEFINE All == [OptionKeys -> OptionValues \cup {Absent}]
  <2>1. modeOptions \in [Profilers -> All] /\ r.profiler \in Profilers
    BY SessionAssumptions DEF MapsTyped
  <2>2. Merged(modeOptions[r.profiler], r.options) \in All
    BY <1>3, <2>1
  <2>3. \/ modeOptions' = modeOptions
        \/ modeOptions' = [modeOptions EXCEPT
                             ![r.profiler] = Merged(modeOptions[r.profiler], r.options)]
    BY DEF Configure
  <2> HIDE DEF All
  <2>4. modeOptions' \in [Profilers -> All]
    BY <2>1, <2>2, <2>3
  <2> QED
    BY <2>4 DEF All
<1> QED
  BY <1>1, <1>2, <1>4

\* So does addSession, whatever it refuses.
LEMMA ConfigTyped ==
  ASSUME MapsTyped, NEW path \in Paths, NEW r \in Requests, AddSession(path, r)
  PROVE  /\ pcSampling' \in [Profilers -> BOOLEAN]
         /\ modeAndOptions' \in [Profilers -> {q.mode : q \in Requests} \cup {Absent}]
         /\ runtime' \in [Profilers -> Devices \cup {Absent}]
         /\ modeOptions' \in [Profilers -> [OptionKeys -> OptionValues \cup {Absent}]]
         /\ disturbed' \subseteq Instrumenting
<1>1. CASE UNCHANGED configVars
  BY <1>1 DEF MapsTyped, configVars, modeVars
<1>2. CASE ~UnknownDevice(r) /\ Configure(r) /\ ModeRefused(r)
  BY <1>2, ConfigureTyped DEF MapsTyped, ModeRefused
<1>3. CASE ~UnknownDevice(r) /\ Configure(r) /\ SetMode(r)
  BY <1>3, ConfigureTyped DEF MapsTyped, SetMode
<1> QED
  BY <1>1, <1>2, <1>3 DEF AddSession

\* What makeSession and the failures of addSession do to the invariant.
LEMMA AddSessionIInv ==
  ASSUME IInv, NEW path \in Paths, NEW r \in Requests, AddSession(path, r)
  PROVE  IInv'
<1> DEFINE id == nextSessionId
           new == [path |-> path, req |-> r]
<1>0. /\ id \in Ids /\ id \notin Live /\ id \notin Active /\ id \notin Detached
      /\ nextSessionId' = id + 1 /\ id \in Nat /\ MaxSessions \in Nat
      /\ starting = Absent /\ Detached = {}
      /\ id + 1 \in 0 .. MaxSessions
      /\ new \in Session /\ new # Absent
  BY SessionAssumptions, AbsentIsNoSession
     DEF IInv, MapsTyped, ActivityIndex, AddSession, Ids, Idle, Active, Session, Live
<1>c. /\ pcSampling' \in [Profilers -> BOOLEAN]
      /\ modeAndOptions' \in [Profilers -> {q.mode : q \in Requests} \cup {Absent}]
      /\ runtime' \in [Profilers -> Devices \cup {Absent}]
      /\ modeOptions' \in [Profilers -> [OptionKeys -> OptionValues \cup {Absent}]]
      /\ disturbed' \subseteq Instrumenting
  BY ConfigTyped DEF IInv
<1>1. CASE Rejected
  <2>1. MapsTyped'
    BY <1>0, <1>1, <1>c
       DEF IInv, MapsTyped, AddSession, Rejected, endVars
  <2>2. ActivityIndex'
    BY <1>0, <1>1 DEF IInv, ActivityIndex, AddSession, Rejected, Live, Detached, Ids
  <2>3. CountsOK'
    BY <1>0, <1>1, FewerCovers DEF IInv, AddSession, Rejected, Active
  <2> QED
    BY <2>1, <2>2, <2>3 DEF IInv
<1>2. CASE Configure(r) /\ SetMode(r) /\ Constructed(id, path, r)
  <2>1. MapsTyped'
    BY <1>0, <1>2, <1>c DEF IInv, MapsTyped, AddSession, endVars, Constructed
  <2>2. ActivityIndex'
    <3>1. Live' = Live \cup {id} /\ Detached' = {}
      BY <1>0, <1>2 DEF IInv, MapsTyped, AddSession, Constructed, Live, Detached
    <3>2. activeSessions' = activeSessions /\ activeSessions[id] = "none"
      BY <1>0 DEF IInv, ActivityIndex, AddSession
    <3>3. starting' = id
      BY <1>2 DEF Constructed
    <3>4. \A i \in Ids : i >= id + 1 => i >= id /\ i # id
      BY <1>0 DEF Ids
    <3> QED
      BY <1>0, <3>1, <3>2, <3>3, <3>4 DEF IInv, ActivityIndex
  <2>3. Active' = Active /\ \A i \in Active : sessions'[i] = sessions[i]
    BY <1>0, <1>2 DEF IInv, MapsTyped, AddSession, Constructed, Active
  <2>4. CountsOK'
    BY <1>0, <2>3, FewerCovers DEF IInv, AddSession
  <2> QED
    BY <2>1, <2>2, <2>4 DEF IInv
<1> QED
  BY <1>1, <1>2 DEF AddSession

\* Activating the sessions of S, with the failures of X and F, keeps it.
LEMMA ActivateImplIInv ==
  ASSUME IInv, NEW S \in SUBSET Live, NEW X \in SUBSET Live, NEW F \in SUBSET Live,
         Activates(S, X, F)
  PROVE  IInv'
<1> USE DEF Activates
<1>0. S \in SUBSET Ids /\ X \in SUBSET Ids /\ F \in SUBSET Ids
  BY DEF Live
<1>1. MapsTyped'
  BY <1>0, StartProfilersTyped, FlushingTyped, DataUnderTyped
     DEF IInv, MapsTyped, ActivateImpl, mapVars, configVars, modeVars, endVars
<1>2. ActivityIndex'
  BY <1>0 DEF IInv, MapsTyped, ActivityIndex, ActivateImpl, mapVars, Live, Detached
<1>3. Active' = Active \cup S
  BY <1>0 DEF IInv, MapsTyped, ActivateImpl, Active
<1>4. CountsOK'
  BY <1>0, <1>3, RegisterCovers DEF IInv, ActivateImpl, mapVars
<1> QED
  BY <1>1, <1>2, <1>4 DEF IInv

\* Deactivating the sessions of S, with the failed flush of F, keeps it.
LEMMA DeactivateImplIInv ==
  ASSUME IInv, NEW S \in SUBSET Active, NEW F \in SUBSET Active, Deactivates(S, F)
  PROVE  IInv'
<1> USE DEF Deactivates
<1>0. S \in SUBSET Ids /\ F \in SUBSET Ids
  BY DEF Active
<1>1. MapsTyped'
  BY <1>0, FlushingTyped
     DEF IInv, MapsTyped, DeactivateImpl, UnregisterData, mapVars, configVars, modeVars, endVars
<1>2. ActivityIndex'
  <2>1. \A i \in Ids : activeSessions'[i] # "none" => activeSessions[i] # "none"
    BY <1>0 DEF IInv, MapsTyped, DeactivateImpl, Active
  <2>2. \A i \in Ids : activeSessions[i] = "none" => activeSessions'[i] = "none"
    BY <1>0 DEF IInv, MapsTyped, DeactivateImpl, Active
  <2> QED
    BY <2>1, <2>2 DEF IInv, ActivityIndex, mapVars, Live, Detached
<1>3. Active' \subseteq Active \ S
  BY <1>0 DEF IInv, MapsTyped, DeactivateImpl, Active
<1>4. CountsOK'
  BY <1>3, UnregisterCovers DEF IInv, DeactivateImpl, mapVars
<1> QED
  BY <1>1, <1>2, <1>4 DEF IInv

\* Taking sessions out of the maps into a finalizing call keeps it.
LEMMA DetachIInv ==
  ASSUME IInv, NEW S \in SUBSET Live, Closes(S)
  PROVE  IInv'
<1> USE DEF Closes
<1>0. S \in SUBSET Ids /\ WasActive(S) \in SUBSET Active /\ starting = Absent
  BY DEF Live, WasActive, Idle
<1>1. MapsTyped'
  BY <1>0, FlushingTyped
     DEF IInv, MapsTyped, DeactivateAndDetach, ForgetActivity, UnregisterData,
         Detach, configVars, modeVars, endVars
<1>2. /\ Live' = Live \ S /\ Detached' = S
      /\ \A i \in Ids : activeSessions'[i] # "none"
                          => activeSessions[i] # "none" /\ i \notin S
  BY <1>0, AbsentIsNoSession
     DEF IInv, MapsTyped, DeactivateAndDetach, ForgetActivity, Detach, Live,
         Detached, Idle
<1>3. ActivityIndex'
  BY <1>0, <1>2 DEF IInv, ActivityIndex, Idle
<1>4. Active' = Active \ S /\ Active' \subseteq Active \ WasActive(S)
  BY <1>0 DEF IInv, MapsTyped, DeactivateAndDetach, ForgetActivity, Active,
              WasActive
<1>5. \A i \in Active' : sessions'[i] = sessions[i]
  BY <1>4 DEF DeactivateAndDetach, Detach, Active
<1>6. CountsOK'
  BY <1>0, <1>4, <1>5, UnregisterCovers DEF IInv, DeactivateAndDetach
<1> QED
  BY <1>1, <1>3, <1>6 DEF IInv

\* A start that fails after construction keeps it.
LEMMA ActivateStartedFailsIInv ==
  ASSUME IInv, ActivateStartedFails
  PROVE  IInv'
<1>0. /\ starting \in Live /\ starting \in Ids /\ starting \notin Active
      /\ Detached = {}
  BY DEF IInv, ActivityIndex, MapsTyped, ActivateStartedFails, Active
<1>1. MapsTyped'
  <2>1. /\ started' \in [Profilers -> BOOLEAN]
        /\ collector' \in [Profilers -> {"off", "plain", "sampling", "partial"}]
    BY StartProfilersTyped DEF IInv, ActivateStartedFails
  <2>2. flushFaults' \in Nat
    BY FlushingTyped DEF IInv, MapsTyped, ActivateStartedFails
  <2> QED
    BY <1>0, <2>1, <2>2
       DEF IInv, MapsTyped, ActivateStartedFails, Detach, configVars, modeVars, endVars
<1>2. /\ Live' = Live \ {starting} /\ Detached' = {starting} /\ starting' = Absent
      /\ nextSessionId' = nextSessionId
      /\ activeSessions' = [activeSessions EXCEPT ![starting] = "none"]
  BY <1>0, AbsentIsNoSession
     DEF IInv, MapsTyped, ActivateStartedFails, Detach, Live, Detached
<1>3. ActivityIndex'
  BY <1>0, <1>2 DEF IInv, ActivityIndex, MapsTyped
<1>4. Active' = Active /\ \A i \in Active : sessions'[i] = sessions[i]
  BY <1>0, <1>2 DEF IInv, MapsTyped, ActivateStartedFails, Detach, Active
<1>5. CountsOK'
  BY <1>4, FewerCovers DEF IInv, ActivateStartedFails
<1> QED
  BY <1>1, <1>3, <1>5 DEF IInv

\* Finalizing a detached session keeps it, whether it returns or throws.
LEMMA FinalizeIInv ==
  ASSUME IInv, NEW i \in Ids, Finalize(i)
  PROVE  IInv'
<1> DEFINE p == detached[i].req.profiler
<1>0. Detached # {} /\ starting = Absent /\ Detached \subseteq Ids
  <2>1. i \in Detached
    BY DEF Finalize
  <2>2. Detached # {} => starting = Absent
    BY DEF IInv, ActivityIndex
  <2> QED
    BY <2>1, <2>2 DEF Detached
<1>1. ASSUME NEW outcome \in {"off", "partial"}, StopProfiler(p, outcome)
      PROVE  /\ started' \in [Profilers -> BOOLEAN]
             /\ pcSampling' \in [Profilers -> BOOLEAN]
             /\ collector' \in [Profilers -> {"off", "plain", "sampling", "partial"}]
  <2> HIDE DEF p
  <2>1. CASE started[p] /\ NoData(p)
    <3>1. /\ started' = [started EXCEPT ![p] = FALSE]
          /\ collector' = [collector EXCEPT ![p] = outcome]
          /\ pcSampling' = [pcSampling EXCEPT ![p] = FALSE]
      BY <1>1, <2>1 DEF StopProfiler
    <3> QED
      BY <3>1 DEF IInv, MapsTyped
  <2>2. CASE ~(started[p] /\ NoData(p))
    <3>1. UNCHANGED <<started, collector, pcSampling>>
      BY <1>1, <2>2 DEF StopProfiler
    <3> QED
      BY <3>1 DEF IInv, MapsTyped
  <2> QED
    BY <2>1, <2>2
<1>2. /\ started' \in [Profilers -> BOOLEAN]
      /\ pcSampling' \in [Profilers -> BOOLEAN]
      /\ collector' \in [Profilers -> {"off", "plain", "sampling", "partial"}]
  BY <1>1 DEF Finalize
<1>3. /\ detached' \in [Ids -> Session \cup {Absent}]
      /\ finalized' \subseteq Ids /\ aborted' \subseteq Ids /\ lost' \subseteq Ids
      /\ Detached' \subseteq Detached
  BY <1>0 DEF IInv, MapsTyped, Finalize, Abort, Detached
<1>4. MapsTyped'
  BY <1>2, <1>3 DEF IInv, MapsTyped, Finalize, mapVars, modeVars
<1>5. ActivityIndex'
  <2>1. UNCHANGED <<mapVars, activeSessions, starting>>
    BY DEF Finalize
  <2>2. Live' = Live /\ nextSessionId' = nextSessionId
    BY <2>1 DEF mapVars, Live
  <2> QED
    BY <1>0, <1>3, <2>1, <2>2 DEF IInv, ActivityIndex
<1>6. CountsOK'
  BY FewerCovers DEF IInv, Finalize, mapVars, Active
<1> QED
  BY <1>4, <1>5, <1>6 DEF IInv

\* Nothing changes when no variable does.
LEMMA StutterIInv == ASSUME IInv, UNCHANGED vars PROVE IInv'
<1>1. MapsTyped'
  BY DEF IInv, MapsTyped, vars, mapVars, configVars, modeVars, endVars
<1>2. ActivityIndex'
  BY DEF IInv, ActivityIndex, vars, mapVars, Live, Detached
<1>3. CountsOK'
  BY FewerCovers DEF IInv, vars, mapVars, Active
<1> QED
  BY <1>1, <1>2, <1>3 DEF IInv

\* Every step of the session manager keeps the invariant.
LEMMA NextIInv == IInv /\ [Next]_vars => IInv'
  BY StepKinds, AddSessionIInv, ActivateImplIInv, ActivateStartedFailsIInv,
     DeactivateImplIInv, DetachIInv, FinalizeIInv, StutterIInv

\* The strengthening of the types holds in every reachable state.
THEOREM AlwaysIInv == Spec => []IInv
<1>1. Init => IInv
  BY InitIInv
<1>2. IInv /\ [Next]_vars => IInv'
  BY NextIInv
<1> QED
  BY <1>1, <1>2, PTL DEF Spec

\* Types: in particular no interface counter of the manager, all unsigned,
\* ever wraps below zero (unregisterInterface decrements unconditionally).
THEOREM TypeCorrect == Spec => []TypeOK
<1>1. IInv => TypeOK
  BY DEF IInv, MapsTyped, CountsOK, CountsTyped, TypeOK
<1> QED
  BY <1>1, AlwaysIInv, PTL

\* Every interface of an active session stays counted, whatever has thrown.
THEOREM ActiveIsCounted == Spec => []CountsCoverActive
<1>1. IInv => CountsCoverActive
  BY DEF IInv, CountsOK
<1> QED
  BY <1>1, AlwaysIInv, PTL

-----------------------------------------------------------------------------
(***************************************************************************)
(* Flow: invariants inductive relative to those before: the maps and the   *)
(* modes agree (IndexOK), an active session records (Recording), and, as   *)
(* long as no flush threw, what is counted and registered is exactly what  *)
(* is active (Exact) and a started profiler has an owner (Owned).          *)
(***************************************************************************)

\* An active session is one of the sessions of the maps.
LEMMA ActiveLive == IInv => Active \subseteq Live /\ Live \subseteq Ids
  BY DEF IInv, ActivityIndex, Active, Live

\* The sessions that are active after a step, and what the step leaves of the map of
\* sessions for them.
LEMMA ActiveAfter ==
  ASSUME IInv
  PROVE  /\ \A path \in Paths, r \in Requests : AddSession(path, r) =>
              Active' = Active /\ \A i \in Active : sessions'[i] = sessions[i]
         /\ \A S, X, F \in SUBSET Live : Activates(S, X, F) =>
              Active' = Active \cup S /\ sessions' = sessions
         /\ ActivateStartedFails =>
              Active' = Active /\ \A i \in Active : sessions'[i] = sessions[i]
         /\ \A S, F \in SUBSET Active : Deactivates(S, F) =>
              Active' = Active \ (S \cup F) /\ sessions' = sessions
         /\ \A S \in SUBSET Live : Closes(S) =>
              Active' = Active \ S /\ \A i \in Active' : sessions'[i] = sessions[i]
         /\ \A i \in Ids : Finalize(i) => Active' = Active /\ sessions' = sessions
<1>1. ASSUME NEW path \in Paths, NEW r \in Requests, AddSession(path, r)
      PROVE  Active' = Active /\ \A i \in Active : sessions'[i] = sessions[i]
  <2>1. activeSessions' = activeSessions /\ nextSessionId \notin Active
    <3>1. nextSessionId \in Nat
      BY SessionAssumptions DEF IInv, MapsTyped
    <3> QED
      BY <1>1, <3>1, ActiveLive DEF AddSession, IInv, ActivityIndex, Live, Ids
  <2>2. \A i \in Active : sessions'[i] = sessions[i]
    BY <1>1, <2>1 DEF AddSession, Constructed, Rejected, IInv, MapsTyped, Active
  <2> QED
    BY <2>1, <2>2 DEF Active
<1>2. ASSUME NEW S \in SUBSET Live, NEW X \in SUBSET Live, NEW F \in SUBSET Live,
             Activates(S, X, F)
      PROVE  Active' = Active \cup S /\ sessions' = sessions
  <2>1. S \in SUBSET Ids
    BY DEF Live
  <2> QED
    BY <1>2, <2>1 DEF Activates, ActivateImpl, IInv, MapsTyped, Active, mapVars
<1>3. ASSUME ActivateStartedFails
      PROVE  Active' = Active /\ \A i \in Active : sessions'[i] = sessions[i]
  <2>1. starting \in Ids /\ activeSessions[starting] = "none"
    BY <1>3, ActiveLive DEF IInv, ActivityIndex, ActivateStartedFails, MapsTyped
  <2> QED
    BY <1>3, <2>1 DEF ActivateStartedFails, Detach, IInv, MapsTyped, Active
<1>4. ASSUME NEW S \in SUBSET Active, NEW F \in SUBSET Active, Deactivates(S, F)
      PROVE  Active' = Active \ (S \cup F) /\ sessions' = sessions
  <2>1. S \in SUBSET Ids /\ F \in SUBSET Ids
    BY DEF Active
  <2> QED
    BY <1>4, <2>1 DEF Deactivates, DeactivateImpl, IInv, MapsTyped, Active, mapVars
<1>5. ASSUME NEW S \in SUBSET Live, Closes(S)
      PROVE  Active' = Active \ S /\ \A i \in Active' : sessions'[i] = sessions[i]
  <2>1. Active' = Active \ S
    BY <1>5 DEF Closes, DeactivateAndDetach, ForgetActivity, Active
  <2> QED
    BY <1>5, <2>1 DEF Closes, DeactivateAndDetach, Detach, Active
<1>6. ASSUME NEW i \in Ids, Finalize(i)
      PROVE  Active' = Active /\ sessions' = sessions
  BY <1>6 DEF Finalize, mapVars, Active
<1> QED
  BY <1>1, <1>2, <1>3, <1>4, <1>5, <1>6

-----------------------------------------------------------------------------
(* Paths and modes: both change only in addSession and when sessions are   *)
(* taken out of the maps.                                                  *)

IndexOK == PathIndex /\ ModeAgrees

\* A start that is accepted leaves its profiler in the mode it asked for.
LEMMA AcceptedMode ==
  ASSUME MapsTyped, NEW r \in Requests, Configure(r), SetMode(r)
  PROVE  InMode(r.profiler, r)'
<1>1. r.profiler \in Profilers
  BY SessionAssumptions
<1>2. modeAndOptions'[r.profiler] = r.mode
  BY <1>1 DEF SetMode, MapsTyped
<1>3. CASE r.profiler \in Instrumenting
  <2>1. runtime'[r.profiler] = r.device
    BY <1>1, <1>3 DEF Configure, MapsTyped
  <2>2. modeOptions'[r.profiler] = Merged(modeOptions[r.profiler], r.options)
    BY <1>1, <1>3 DEF Configure, MapsTyped
  <2> QED
    BY <1>2, <2>1, <2>2 DEF InMode, Merged
<1> QED
  BY <1>2, <1>3 DEF InMode

\* addSession leaves the profiler of every session in the mode that session asked
\* for, whatever it refuses: the mode of a profiler in use is set only to what it was.
LEMMA AddSessionModes ==
  ASSUME MapsTyped, NEW path \in Paths, NEW r \in Requests, AddSession(path, r),
         NEW i \in Live, ProfilerOf(i) \in Profilers, sessions[i].req \in Requests,
         InMode(ProfilerOf(i), sessions[i].req)
  PROVE  /\ modeAndOptions'[ProfilerOf(i)] = sessions[i].req.mode
         /\ ProfilerOf(i) \in Instrumenting \ disturbed' =>
              /\ runtime'[ProfilerOf(i)] = sessions[i].req.device
              /\ \A k \in OptionKeys :
                   sessions[i].req.options[k] # Absent
                     => modeOptions'[ProfilerOf(i)][k] = sessions[i].req.options[k]
<1> DEFINE p == ProfilerOf(i)
           asked == sessions[i].req
<1>0. p = asked.profiler
  BY DEF ProfilerOf
<1>1. CASE UNCHANGED configVars
  BY <1>1 DEF InMode, configVars, modeVars
<1>2. CASE Configure(r) /\ ModeRefused(r)
  <2>1. CASE p = r.profiler
    BY <1>2, <2>1 DEF ModeRefused, InMode
  <2>2. CASE p # r.profiler
    <3>1. runtime'[p] = runtime[p] /\ modeOptions'[p] = modeOptions[p]
      BY <1>2, <2>2 DEF Configure, MapsTyped
    <3>2. p \notin disturbed' => p \notin disturbed
      BY <1>2 DEF ModeRefused
    <3> QED
      BY <1>2, <3>1, <3>2 DEF ModeRefused, InMode
  <2> QED
    BY <2>1, <2>2
<1>3. CASE ~ModeConflict(r) /\ Configure(r) /\ SetMode(r)
  <2>1. CASE p = r.profiler
    <3>1. modeAndOptions[p] = r.mode /\ modeAndOptions[p] = asked.mode
      BY <1>3, <2>1 DEF ModeConflict, InMode
    <3>2. asked.device = r.device /\ asked.options = r.options
      BY <1>0, <2>1, <3>1, ModeIsParsed
    <3>3. InMode(r.profiler, r)'
      BY <1>3, AcceptedMode
    <3> QED
      BY <2>1, <3>1, <3>2, <3>3 DEF InMode
  <2>2. CASE p # r.profiler
    <3>1. /\ runtime'[p] = runtime[p] /\ modeOptions'[p] = modeOptions[p]
          /\ modeAndOptions'[p] = modeAndOptions[p]
      BY <1>3, <2>2 DEF Configure, SetMode, MapsTyped
    <3>2. p \notin disturbed' => p \notin disturbed
      BY <1>3, <2>2 DEF SetMode
    <3> QED
      BY <3>1, <3>2 DEF InMode
  <2> QED
    BY <2>1, <2>2
<1> QED
  BY <1>1, <1>2, <1>3 DEF AddSession

\* What addSession does to paths and modes, whatever it refuses.
LEMMA AddSessionIndex ==
  ASSUME IInv, IndexOK, NEW path \in Paths, NEW r \in Requests, AddSession(path, r)
  PROVE  IndexOK'
<1> DEFINE id == nextSessionId
           new == [path |-> path, req |-> r]
<1>0. /\ id \in Ids /\ id \notin Live
      /\ sessionPaths[path] = Absent /\ new # Absent
  BY SessionAssumptions, AbsentIsNoSession
     DEF IInv, MapsTyped, ActivityIndex, AddSession, Ids, FreePath, Session
<1>1. ASSUME NEW i \in Live
      PROVE  /\ modeAndOptions'[ProfilerOf(i)] = sessions[i].req.mode
             /\ ProfilerOf(i) \in Instrumenting \ disturbed' =>
                  /\ runtime'[ProfilerOf(i)] = sessions[i].req.device
                  /\ \A k \in OptionKeys :
                       sessions[i].req.options[k] # Absent
                         => modeOptions'[ProfilerOf(i)][k] = sessions[i].req.options[k]
  <2>1. sessions[i] \in Session
    BY DEF Live, IInv, MapsTyped
  <2>2. ProfilerOf(i) \in Profilers /\ sessions[i].req \in Requests
    BY <2>1, SessionAssumptions DEF ProfilerOf, Session
  <2>3. InMode(ProfilerOf(i), sessions[i].req)
    BY DEF IndexOK, ModeAgrees
  <2> QED
    BY <2>2, <2>3, AddSessionModes DEF IInv
<1>2. CASE Rejected
  <2>1. Live' = Live /\ sessions' = sessions /\ sessionPaths' = sessionPaths
    BY <1>2 DEF Rejected, Live
  <2>2. PathIndex'
    BY <2>1 DEF IndexOK, PathIndex
  <2>3. ModeAgrees'
    BY <1>1, <2>1 DEF ModeAgrees, InMode, ProfilerOf
  <2> QED
    BY <2>2, <2>3 DEF IndexOK
<1>3. CASE Configure(r) /\ SetMode(r) /\ Constructed(id, path, r)
  <2>1. /\ Live' = Live \cup {id} /\ sessions'[id] = new
        /\ \A i \in Ids \ {id} : sessions'[i] = sessions[i]
    BY <1>0, <1>3 DEF Constructed, Live, IInv, MapsTyped
  <2>2. /\ sessionPaths'[path] = id
        /\ \A q \in Paths \ {path} : sessionPaths'[q] = sessionPaths[q]
    BY <1>3 DEF Constructed, IInv, MapsTyped
  <2>3. \A i \in Ids : i # Absent
    BY SessionAssumptions DEF Ids
  <2>4. PathIndex'
    <3> SUFFICES ASSUME NEW q \in Paths, NEW i \in Ids
                 PROVE  sessionPaths'[q] = i <=> i \in Live' /\ sessions'[i].path = q
      BY DEF PathIndex
    <3>1. sessionPaths[q] = i <=> i \in Live /\ sessions[i].path = q
      BY DEF IndexOK, PathIndex
    <3>2. ~(i \in Live /\ sessions[i].path = path)
      BY <1>0, <2>3 DEF IndexOK, PathIndex
    <3>3. CASE i = id
      <4>1. sessionPaths[q] # id
        BY <1>0, <3>1, <3>3
      <4> QED
        BY <1>0, <2>1, <2>2, <3>3, <4>1
    <3>4. CASE i # id
      BY <1>0, <2>1, <2>2, <3>1, <3>2, <3>4
    <3> QED
      BY <3>3, <3>4
  <2>5. ModeAgrees'
    <3> SUFFICES ASSUME NEW i \in Live'
                 PROVE  InMode(ProfilerOf(i), sessions[i].req)'
      BY DEF ModeAgrees
    <3>1. CASE i = id
      <4>1. InMode(r.profiler, r)'
        BY <1>3, AcceptedMode DEF IInv
      <4>2. sessions'[i].req = r /\ sessions'[i].req.profiler = r.profiler
        BY <2>1, <3>1
      <4> QED
        BY <4>1, <4>2 DEF InMode, ProfilerOf
    <3>2. CASE i # id
      <4>1. i \in Live /\ sessions'[i] = sessions[i]
        BY <2>1, <3>2 DEF Live
      <4> QED
        BY <1>1, <4>1 DEF InMode, ProfilerOf
    <3> QED
      BY <3>1, <3>2
  <2> QED
    BY <2>4, <2>5 DEF IndexOK
<1> QED
  BY <1>2, <1>3 DEF AddSession

\* Sessions that leave the maps take their paths with them.
LEMMA DetachIndex ==
  ASSUME IInv, IndexOK, NEW S \in SUBSET Live, Detach(S), UNCHANGED modeVars
  PROVE  IndexOK'
<1>1. /\ Live' = Live \ S
      /\ \A i \in Ids : i \notin S => sessions'[i] = sessions[i]
  BY DEF Detach, Live
<1>2. \A i \in Ids : i # Absent
  BY SessionAssumptions DEF Ids
<1>3. PathIndex'
  <2> SUFFICES ASSUME NEW q \in Paths, NEW i \in Ids
               PROVE  sessionPaths'[q] = i <=> i \in Live' /\ sessions'[i].path = q
    BY DEF PathIndex
  <2>1. sessionPaths[q] = i <=> i \in Live /\ sessions[i].path = q
    BY DEF IndexOK, PathIndex
  <2>2. sessionPaths'[q] = IF sessionPaths[q] \in S THEN Absent ELSE sessionPaths[q]
    BY DEF Detach
  <2> QED
    BY <1>1, <1>2, <2>1, <2>2
<1>4. ModeAgrees'
  BY <1>1 DEF IndexOK, ModeAgrees, InMode, ProfilerOf, Live, modeVars
<1> QED
  BY <1>3, <1>4 DEF IndexOK

\* Every step keeps paths and modes in order.
LEMMA NextIndex == IInv /\ IndexOK /\ [Next]_vars => IndexOK'
<1> SUFFICES ASSUME IInv, IndexOK, [Next]_vars PROVE IndexOK'
  OBVIOUS
<1>1. ASSUME UNCHANGED <<sessionPaths, sessions, modeVars>> PROVE IndexOK'
  BY <1>1 DEF IndexOK, PathIndex, ModeAgrees, InMode, Live, ProfilerOf, modeVars
<1>2. ASSUME NEW S \in SUBSET Live, NEW X \in SUBSET Live, NEW F \in SUBSET Live,
             Activates(S, X, F)
      PROVE  IndexOK'
  BY <1>1, <1>2 DEF Activates, mapVars, configVars, modeVars
<1>3. CASE ActivateStartedFails
  <2>1. {starting} \in SUBSET Live
    BY <1>3 DEF ActivateStartedFails, IInv, ActivityIndex
  <2> QED
    BY <1>3, <2>1, DetachIndex DEF ActivateStartedFails, configVars, modeVars
<1>4. ASSUME NEW S \in SUBSET Active, NEW F \in SUBSET Active, Deactivates(S, F)
      PROVE  IndexOK'
  BY <1>1, <1>4 DEF Deactivates, mapVars, configVars, modeVars
<1>5. ASSUME NEW S \in SUBSET Live, Closes(S)
      PROVE  IndexOK'
  BY <1>5, DetachIndex DEF Closes, DeactivateAndDetach, configVars, modeVars
<1>6. ASSUME NEW i \in Ids, Finalize(i)
      PROVE  IndexOK'
  BY <1>1, <1>6 DEF Finalize, mapVars
<1>7. CASE UNCHANGED vars
  BY <1>1, <1>7 DEF vars, mapVars, configVars, modeVars
<1> QED
  BY StepKinds, AddSessionIndex, <1>2, <1>3, <1>4, <1>5, <1>6, <1>7

-----------------------------------------------------------------------------
(* Recording: an active session has a running collector and its data is    *)
(* registered with it.                                                     *)

\* What ActiveRecords needs of profilers no session uses: "started" means that the
\* collector is up.
Recording ==
  /\ ActiveRecords
  /\ \A p \in Profilers : started[p] => collector[p] \in {"plain", "sampling"}

\* A session of the maps runs on one of the profilers.
LEMMA ProfilerTyped ==
  ASSUME IInv, NEW i \in Live
  PROVE  ProfilerOf(i) \in Profilers
<1>1. sessions[i] \in Session
  BY DEF Live, IInv, MapsTyped
<1> QED
  BY <1>1, SessionAssumptions DEF ProfilerOf, Session

\* The objects of a session are named after it.
LEMMA DataOfOwn == ASSUME NEW i, NEW o \in DataOf(i) PROVE o[2] = i
  BY DEF DataOf

\* Only sessions of S have data under a profiler that belongs to one of S.
LEMMA DataUnderOwn == ASSUME NEW S, NEW p, NEW o \in DataUnder(S, p) PROVE o[2] \in S
  BY DataOfOwn DEF DataUnder

\* A session that stays as it is keeps recording when nothing it uses is taken away.
LEMMA StillRecords ==
  ASSUME IInv, Recording, NEW i \in Active, sessions'[i] = sessions[i],
         started[ProfilerOf(i)] => started'[ProfilerOf(i)],
         \A p \in Profilers : started'[p] => collector'[p] \in {"plain", "sampling"},
         \A o \in dataSet[ProfilerOf(i)] : o[2] = i => o \in dataSet'[ProfilerOf(i)]
  PROVE  /\ started'[ProfilerOf(i)']
         /\ collector'[ProfilerOf(i)'] \in {"plain", "sampling"}
         /\ DataOf(i)' \subseteq dataSet'[ProfilerOf(i)']
<1>1. ProfilerOf(i)' = ProfilerOf(i) /\ DataOf(i)' = DataOf(i)
  BY DEF ProfilerOf, DataOf
<1>2. i \in Live /\ ProfilerOf(i) \in Profilers
  BY ActiveLive, ProfilerTyped
<1>3. started[ProfilerOf(i)] /\ DataOf(i) \subseteq dataSet[ProfilerOf(i)]
  BY DEF Recording, ActiveRecords
<1> QED
  BY <1>1, <1>2, <1>3, DataOfOwn

\* Starting leaves every started profiler with a running collector and stops none.
LEMMA StartProfilersRuns ==
  ASSUME Recording, NEW F, NEW X, StartProfilers(F, X)
  PROVE  \A p \in Profilers :
           /\ started[p] => started'[p]
           /\ started'[p] => collector'[p] \in {"plain", "sampling"}
           /\ (\E i \in F : ProfilerOf(i) = p) => started'[p]
           /\ started'[p] => started[p] \/ \E i \in F : ProfilerOf(i) = p
  BY DEF Recording, StartProfilers

\* Sessions that stay active still record after a step that stops no profiler and
\* unregisters only the data of others.
LEMMA OthersRecord ==
  ASSUME IInv, Recording, IInv', Active' \subseteq Active,
         \A i \in Active' : sessions'[i] = sessions[i],
         \A p \in Profilers : /\ started[p] => started'[p]
                              /\ started'[p] => collector'[p] \in {"plain", "sampling"},
         \A p \in Profilers, i \in Active' :
           \A o \in dataSet[p] : o[2] = i => o \in dataSet'[p]
  PROVE  Recording'
<1>1. ASSUME NEW i \in Active'
      PROVE  /\ i \in Live'
             /\ started'[ProfilerOf(i)']
             /\ collector'[ProfilerOf(i)'] \in {"plain", "sampling"}
             /\ DataOf(i)' \subseteq dataSet'[ProfilerOf(i)']
  <2>1. i \in Active /\ i \in Live /\ ProfilerOf(i) \in Profilers
    BY ActiveLive, ProfilerTyped
  <2>2. i \in Live'
    BY <1>1, ActiveLive DEF IInv, ActivityIndex, Active, Live
  <2> QED
    BY <2>1, <2>2, StillRecords
<1> QED
  BY <1>1 DEF Recording, ActiveRecords

\* Sessions that activate record, and those that were active go on.
LEMMA ActivatesRecording ==
  ASSUME IInv, IInv', Recording, NEW S \in SUBSET Live, NEW X \in SUBSET Live,
         NEW F \in SUBSET Live, Activates(S, X, F)
  PROVE  Recording'
<1>0. Active' = Active \cup S /\ sessions' = sessions /\ Live' = Live
  BY ActiveAfter DEF Live
<1>1. StartProfilers(S \cup F, X)
  BY DEF Activates, ActivateImpl
<1>2. \A p \in Profilers : /\ started[p] => started'[p]
                           /\ started'[p] => collector'[p] \in {"plain", "sampling"}
                           /\ (\E i \in S : ProfilerOf(i) = p) => started'[p]
  BY <1>1, StartProfilersRuns
<1>3. \A p \in Profilers : dataSet'[p] = dataSet[p] \cup DataUnder(S, p)
  BY DEF Activates, ActivateImpl
<1>4. ASSUME NEW i \in Active
      PROVE  /\ started'[ProfilerOf(i)']
             /\ collector'[ProfilerOf(i)'] \in {"plain", "sampling"}
             /\ DataOf(i)' \subseteq dataSet'[ProfilerOf(i)']
  <2>1. ProfilerOf(i) \in Profilers
    BY ActiveLive, ProfilerTyped
  <2> QED
    BY <1>0, <1>2, <1>3, <2>1, StillRecords
<1>5. ASSUME NEW i \in S
      PROVE  /\ started'[ProfilerOf(i)']
             /\ collector'[ProfilerOf(i)'] \in {"plain", "sampling"}
             /\ DataOf(i)' \subseteq dataSet'[ProfilerOf(i)']
  <2>1. ProfilerOf(i) \in Profilers
    BY ProfilerTyped
  <2>2. ProfilerOf(i)' = ProfilerOf(i) /\ DataOf(i)' = DataOf(i)
    BY <1>0 DEF ProfilerOf, DataOf
  <2>3. DataOf(i) \subseteq DataUnder(S, ProfilerOf(i))
    BY DEF DataUnder
  <2> QED
    BY <1>2, <1>3, <2>1, <2>2, <2>3
<1>6. Active' \subseteq Live'
  BY <1>0, ActiveLive
<1> QED
  BY <1>0, <1>2, <1>4, <1>5, <1>6 DEF Recording, ActiveRecords

\* A profiler is stopped only when no data is registered with it, so never under an
\* active session.
LEMMA FinalizeRecording ==
  ASSUME IInv, IInv', Recording, NEW i \in Ids, Finalize(i)
  PROVE  Recording'
<1> DEFINE p == detached[i].req.profiler
<1>0. /\ Active' = Active /\ sessions' = sessions /\ Live' = Live /\ dataSet' = dataSet
  BY ActiveAfter DEF Live, Finalize
<1>1. PICK outcome \in {"off", "partial"} : StopProfiler(p, outcome)
  BY DEF Finalize
<1>2. \A q \in Profilers : started'[q] => started[q] /\ collector'[q] = collector[q]
  <2> HIDE DEF p
  <2>1. CASE started[p] /\ NoData(p)
    <3>1. /\ started' = [started EXCEPT ![p] = FALSE]
          /\ collector' = [collector EXCEPT ![p] = outcome]
      BY <1>1, <2>1 DEF StopProfiler
    <3> QED
      BY <3>1 DEF IInv, MapsTyped
  <2>2. CASE ~(started[p] /\ NoData(p))
    BY <1>1, <2>2 DEF StopProfiler
  <2> QED
    BY <2>1, <2>2
<1>3. \A q \in Profilers : started[q] /\ ~started'[q] => dataSet[q] = {}
  <2> HIDE DEF p
  <2>1. CASE started[p] /\ NoData(p)
    <3>1. started' = [started EXCEPT ![p] = FALSE] /\ dataSet[p] = {}
      BY <1>1, <2>1 DEF StopProfiler, NoData
    <3> QED
      BY <3>1 DEF IInv, MapsTyped
  <2>2. CASE ~(started[p] /\ NoData(p))
    BY <1>1, <2>2 DEF StopProfiler
  <2> QED
    BY <2>1, <2>2
<1>4. ASSUME NEW j \in Active
      PROVE  started'[ProfilerOf(j)]
  <2>1. ProfilerOf(j) \in Profilers
    BY ActiveLive, ProfilerTyped
  <2>2. <<"data", j>> \in DataOf(j)
    BY DEF DataOf
  <2>3. started[ProfilerOf(j)] /\ <<"data", j>> \in dataSet[ProfilerOf(j)]
    BY <2>2 DEF Recording, ActiveRecords
  <2> QED
    BY <1>3, <2>1, <2>3
<1>5. \A q \in Profilers : started'[q] => collector'[q] \in {"plain", "sampling"}
  BY <1>2 DEF Recording
<1>6. ASSUME NEW j \in Active
      PROVE  /\ started'[ProfilerOf(j)']
             /\ collector'[ProfilerOf(j)'] \in {"plain", "sampling"}
             /\ DataOf(j)' \subseteq dataSet'[ProfilerOf(j)']
  BY <1>0, <1>4, <1>5, StillRecords
<1> QED
  BY <1>0, <1>5, <1>6, ActiveLive DEF Recording, ActiveRecords

\* Every step keeps the active sessions recording.
LEMMA NextRecording == IInv /\ Recording /\ [Next]_vars => Recording'
<1> SUFFICES ASSUME IInv, Recording, [Next]_vars, IInv' PROVE Recording'
  BY NextIInv
<1>1. ASSUME NEW path \in Paths, NEW r \in Requests, AddSession(path, r)
      PROVE  Recording'
  <2>1. UNCHANGED <<started, collector, dataSet>>
    BY <1>1 DEF AddSession
  <2>2. Active' = Active /\ \A i \in Active : sessions'[i] = sessions[i]
    BY <1>1, ActiveAfter
  <2> QED
    BY <2>1, <2>2, OthersRecord DEF Recording
<1>2. ASSUME NEW S \in SUBSET Live, NEW X \in SUBSET Live, NEW F \in SUBSET Live,
             Activates(S, X, F)
      PROVE  Recording'
  BY <1>2, ActivatesRecording
<1>3. CASE ActivateStartedFails
  <2>1. Active' = Active /\ \A i \in Active : sessions'[i] = sessions[i]
    BY <1>3, ActiveAfter
  <2>2. PICK F, X : StartProfilers(F, X)
    BY <1>3 DEF ActivateStartedFails
  <2>3. \A p \in Profilers : /\ started[p] => started'[p]
                             /\ started'[p] => collector'[p] \in {"plain", "sampling"}
    BY <2>2, StartProfilersRuns
  <2>4. dataSet' = dataSet
    BY <1>3 DEF ActivateStartedFails
  <2> QED
    BY <2>1, <2>3, <2>4, OthersRecord
<1>4. ASSUME NEW S \in SUBSET Active, NEW F \in SUBSET Active, Deactivates(S, F)
      PROVE  Recording'
  <2>1. Active' = Active \ (S \cup F) /\ sessions' = sessions
    BY <1>4, ActiveAfter
  <2>2. \A p \in Profilers : dataSet'[p] = dataSet[p] \ DataUnder(S, p)
    BY <1>4 DEF Deactivates, DeactivateImpl, UnregisterData
  <2>3. \A p \in Profilers, i \in Active' :
          \A o \in dataSet[p] : o[2] = i => o \in dataSet'[p]
    BY <2>1, <2>2, DataUnderOwn
  <2>4. UNCHANGED <<started, collector>>
    BY <1>4 DEF Deactivates
  <2> QED
    BY <2>1, <2>3, <2>4, OthersRecord DEF Recording
<1>5. ASSUME NEW S \in SUBSET Live, Closes(S)
      PROVE  Recording'
  <2>1. Active' = Active \ S /\ \A i \in Active' : sessions'[i] = sessions[i]
    BY <1>5, ActiveAfter
  <2>2. \A p \in Profilers : dataSet'[p] = dataSet[p] \ DataUnder(WasActive(S), p)
    BY <1>5 DEF Closes, DeactivateAndDetach, UnregisterData
  <2>3. \A p \in Profilers, i \in Active' :
          \A o \in dataSet[p] : o[2] = i => o \in dataSet'[p]
    BY <2>1, <2>2, DataUnderOwn DEF WasActive
  <2>4. UNCHANGED <<started, collector>>
    BY <1>5 DEF Closes
  <2> QED
    BY <2>1, <2>3, <2>4, OthersRecord DEF Recording
<1>6. ASSUME NEW i \in Ids, Finalize(i)
      PROVE  Recording'
  BY <1>6, FinalizeRecording
<1>7. CASE UNCHANGED vars
  BY <1>7 DEF vars, mapVars, Recording, ActiveRecords, Active, Live, ProfilerOf, DataOf
<1> QED
  BY StepKinds, <1>1, <1>2, <1>3, <1>4, <1>5, <1>6, <1>7

-----------------------------------------------------------------------------
(* Reachability: as long as no flush threw, exactly the active sessions    *)
(* are counted and registered.                                             *)

Counted(o) == o[2] \in Active /\ o \in ScopeInterfacesOf(o[2])

Exact ==
  flushFaults = 0 =>
    /\ \A o \in ScopeInterfaces : scopeInterfaceCounts[o] = IF Counted(o) THEN 1 ELSE 0
    /\ \A i \in Ids : contextSourceCounts[i] = IF i \in Active THEN 1 ELSE 0
    /\ \A p \in Profilers : dataSet[p] \subseteq DataUnder(Active, p)

\* A flush that throws is remembered.
LEMMA FlushingCounts ==
  ASSUME IInv, NEW F, Flushing(F), flushFaults' = 0
  PROVE  F = {} /\ flushFaults = 0
  BY DEF Flushing, IInv, MapsTyped

\* The data of the sessions active after a step, when the step leaves them as they are.
LEMMA DataUnderSame ==
  ASSUME NEW p, \A i \in Active' : sessions'[i] = sessions[i],
         NEW S, Active' = S
  PROVE  DataUnder(Active, p)' = DataUnder(S, p)
  BY DEF DataUnder, DataOf, ProfilerOf

\* What is exact stays exact when the counters, the registered data and the active
\* sessions stay as they are.
LEMMA SameExact ==
  ASSUME IInv, Exact, UNCHANGED <<countVars, dataSet>>, flushFaults' = 0 => flushFaults = 0,
         Active' = Active, \A i \in Active : sessions'[i] = sessions[i]
  PROVE  Exact'
<1>1. \A o \in ScopeInterfaces : Counted(o)' <=> Counted(o)
  BY DEF Counted, ScopeInterfacesOf, DataOf
<1>2. \A p : DataUnder(Active, p)' = DataUnder(Active, p)
  BY DataUnderSame
<1> QED
  BY <1>1, <1>2 DEF Exact, countVars

\* Registering exactly the sessions that become active.
LEMMA ActivatesExact ==
  ASSUME IInv, Exact, NEW S \in SUBSET Live, NEW X \in SUBSET Live,
         NEW F \in SUBSET Live, Activates(S, X, F)
  PROVE  Exact'
<1> SUFFICES ASSUME flushFaults' = 0
             PROVE  (/\ \A o \in ScopeInterfaces :
                          scopeInterfaceCounts[o] = IF Counted(o) THEN 1 ELSE 0
                     /\ \A i \in Ids : contextSourceCounts[i]
                                         = IF i \in Active THEN 1 ELSE 0
                     /\ \A p \in Profilers : dataSet[p] \subseteq DataUnder(Active, p))'
  BY DEF Exact
<1>0. flushFaults = 0
  BY FlushingCounts DEF Activates, ActivateImpl
<1>1. Active' = Active \cup S /\ sessions' = sessions /\ S \cap Active = {}
  BY ActiveAfter DEF Activates
<1>2. RegisterInterfaces(S)
  BY DEF Activates, ActivateImpl
<1>3. \A o : ScopeInterfacesOf(o[2])' = ScopeInterfacesOf(o[2])
  BY <1>1 DEF ScopeInterfacesOf, DataOf
<1>4. (\A o \in ScopeInterfaces : scopeInterfaceCounts[o] = IF Counted(o) THEN 1 ELSE 0)'
  BY <1>0, <1>1, <1>2, <1>3 DEF Exact, RegisterInterfaces, Counted
<1>5. (\A i \in Ids : contextSourceCounts[i] = IF i \in Active THEN 1 ELSE 0)'
  BY <1>0, <1>1, <1>2 DEF Exact, RegisterInterfaces
<1>6. (\A p \in Profilers : dataSet[p] \subseteq DataUnder(Active, p))'
  <2> SUFFICES ASSUME NEW p \in Profilers
               PROVE  dataSet'[p] \subseteq DataUnder(Active, p)'
    OBVIOUS
  <2>1. dataSet'[p] = dataSet[p] \cup DataUnder(S, p)
    BY DEF Activates, ActivateImpl
  <2>2. dataSet[p] \subseteq DataUnder(Active, p)
    BY <1>0 DEF Exact
  <2>3. DataUnder(Active, p)' = DataUnder(Active \cup S, p)
    BY <1>1, DataUnderSame
  <2>4. DataUnder(Active \cup S, p) = DataUnder(Active, p) \cup DataUnder(S, p)
    BY DEF DataUnder
  <2> QED
    BY <2>1, <2>2, <2>3, <2>4
<1> QED
  BY <1>4, <1>5, <1>6

\* Unregistering exactly the sessions that were active.
LEMMA LeavesExact ==
  ASSUME IInv, Exact, NEW S \in SUBSET Active, UnregisterInterfaces(S),
         UnregisterData(S), flushFaults' = 0 => flushFaults = 0,
         Active' = Active \ S, \A i \in Active' : sessions'[i] = sessions[i]
  PROVE  Exact'
<1> SUFFICES ASSUME flushFaults' = 0
             PROVE  (/\ \A o \in ScopeInterfaces :
                          scopeInterfaceCounts[o] = IF Counted(o) THEN 1 ELSE 0
                     /\ \A i \in Ids : contextSourceCounts[i]
                                         = IF i \in Active THEN 1 ELSE 0
                     /\ \A p \in Profilers : dataSet[p] \subseteq DataUnder(Active, p))'
  BY DEF Exact
<1>1. \A o : o[2] \in Active' => ScopeInterfacesOf(o[2])' = ScopeInterfacesOf(o[2])
  BY DEF ScopeInterfacesOf, DataOf
<1>2. (\A o \in ScopeInterfaces : scopeInterfaceCounts[o] = IF Counted(o) THEN 1 ELSE 0)'
  <2> SUFFICES ASSUME NEW o \in ScopeInterfaces
               PROVE  scopeInterfaceCounts'[o] = IF Counted(o)' THEN 1 ELSE 0
    OBVIOUS
  <2>1. scopeInterfaceCounts[o] = IF Counted(o) THEN 1 ELSE 0
    BY DEF Exact
  <2>2. scopeInterfaceCounts'[o] = IF o[2] \in S /\ o \in ScopeInterfacesOf(o[2])
                                     THEN scopeInterfaceCounts[o] - 1
                                     ELSE scopeInterfaceCounts[o]
    BY DEF UnregisterInterfaces
  <2>3. Counted(o)' <=> o[2] \in Active /\ o[2] \notin S /\ o \in ScopeInterfacesOf(o[2])
    BY <1>1 DEF Counted
  <2> QED
    BY <2>1, <2>2, <2>3 DEF Counted
<1>3. (\A i \in Ids : contextSourceCounts[i] = IF i \in Active THEN 1 ELSE 0)'
  BY DEF Exact, UnregisterInterfaces
<1>4. (\A p \in Profilers : dataSet[p] \subseteq DataUnder(Active, p))'
  <2> SUFFICES ASSUME NEW p \in Profilers
               PROVE  dataSet'[p] \subseteq DataUnder(Active, p)'
    OBVIOUS
  <2>1. dataSet'[p] = dataSet[p] \ DataUnder(S, p)
    BY DEF UnregisterData
  <2>2. dataSet[p] \subseteq DataUnder(Active, p)
    BY DEF Exact
  <2>3. DataUnder(Active, p) \ DataUnder(S, p) \subseteq DataUnder(Active \ S, p)
    BY DEF DataUnder
  <2>4. DataUnder(Active, p)' = DataUnder(Active \ S, p)
    BY DataUnderSame
  <2> QED
    BY <2>1, <2>2, <2>3, <2>4
<1> QED
  BY <1>2, <1>3, <1>4

\* Every step keeps the registrations exact.
LEMMA NextExact == IInv /\ Exact /\ [Next]_vars => Exact'
<1> SUFFICES ASSUME IInv, Exact, [Next]_vars PROVE Exact'
  OBVIOUS
<1>1. ASSUME NEW path \in Paths, NEW r \in Requests, AddSession(path, r)
      PROVE  Exact'
  BY <1>1, ActiveAfter, SameExact DEF AddSession
<1>2. ASSUME NEW S \in SUBSET Live, NEW X \in SUBSET Live, NEW F \in SUBSET Live,
             Activates(S, X, F)
      PROVE  Exact'
  BY <1>2, ActivatesExact
<1>3. CASE ActivateStartedFails
  <2>1. Active' = Active /\ \A i \in Active : sessions'[i] = sessions[i]
    BY <1>3, ActiveAfter
  <2>2. flushFaults' = 0 => flushFaults = 0
    BY <1>3, FlushingCounts DEF ActivateStartedFails
  <2> QED
    BY <1>3, <2>1, <2>2, SameExact DEF ActivateStartedFails
<1>4. ASSUME NEW S \in SUBSET Active, NEW F \in SUBSET Active, Deactivates(S, F)
      PROVE  Exact'
  <2>1. Active' = Active \ (S \cup F) /\ sessions' = sessions
    BY <1>4, ActiveAfter
  <2>2. Flushing(F) /\ UnregisterInterfaces(S) /\ UnregisterData(S)
    BY <1>4 DEF Deactivates, DeactivateImpl
  <2>3. CASE flushFaults' # 0
    BY <2>3 DEF Exact
  <2>4. CASE flushFaults' = 0
    <3>1. F = {} /\ flushFaults = 0
      BY <2>2, <2>4, FlushingCounts
    <3> QED
      BY <2>1, <2>2, <3>1, LeavesExact
  <2> QED
    BY <2>3, <2>4
<1>5. ASSUME NEW S \in SUBSET Live, Closes(S)
      PROVE  Exact'
  <2>1. Active' = Active \ S /\ \A i \in Active' : sessions'[i] = sessions[i]
    BY <1>5, ActiveAfter
  <2>2. /\ UnregisterInterfaces(WasActive(S)) /\ UnregisterData(WasActive(S))
        /\ flushFaults' = flushFaults
    BY <1>5 DEF Closes, DeactivateAndDetach, Flushing
  <2>3. WasActive(S) \in SUBSET Active /\ Active \ S = Active \ WasActive(S)
    BY DEF WasActive
  <2> QED
    BY <2>1, <2>2, <2>3, LeavesExact
<1>6. ASSUME NEW i \in Ids, Finalize(i)
      PROVE  Exact'
  BY <1>6, ActiveAfter, SameExact DEF Finalize
<1>7. CASE UNCHANGED vars
  BY <1>7, SameExact DEF vars, mapVars, Active
<1> QED
  BY StepKinds, <1>1, <1>2, <1>3, <1>4, <1>5, <1>6, <1>7

-----------------------------------------------------------------------------
(* Ownership: somebody is left to stop a started profiler.                 *)

\* The profilers of the sessions in the maps and of those being finalized.
Owners(p) == \/ \E i \in Live : ProfilerOf(i) = p
             \/ \E i \in Detached : detached[i].req.profiler = p

Owned == flushFaults = 0 /\ lost = {} => \A p \in Profilers : started[p] => Owners(p)

\* Sessions that leave the maps for a finalizing call still own their profilers.
LEMMA DetachOwners ==
  ASSUME IInv, Detached = {}, NEW S \in SUBSET Live, Detach(S), NEW p, Owners(p)
  PROVE  Owners(p)'
<1>0. PICK i \in Live : ProfilerOf(i) = p
  BY DEF Owners
<1>1. CASE i \in S
  <2>1. detached'[i] = sessions[i] /\ sessions[i] # Absent /\ i \in Ids
    BY <1>1 DEF Detach, Live
  <2> QED
    BY <1>0, <2>1 DEF Owners, Detached, ProfilerOf
<1>2. CASE i \notin S
  <2>1. sessions'[i] = sessions[i] /\ i \in Live'
    BY <1>2 DEF Detach, Live
  <2> QED
    BY <1>0, <2>1 DEF Owners, ProfilerOf
<1> QED
  BY <1>1, <1>2

\* The last session of a profiler stops it: with exact registrations its data set is
\* empty, or an active session in the maps owns the profiler.
LEMMA FinalizeOwned ==
  ASSUME IInv, Exact, Owned, NEW i \in Ids, Finalize(i)
  PROVE  Owned'
<1> DEFINE p == detached[i].req.profiler
<1> SUFFICES ASSUME flushFaults' = 0, lost' = {}, NEW q \in Profilers, started'[q]
             PROVE  Owners(q)'
  BY DEF Owned
<1>0. flushFaults = 0 /\ sessions' = sessions /\ i \in Detached
  BY ActiveAfter DEF Finalize
<1>1. lost = {} /\ \A j \in Detached : j # i => detached'[j] = detached[j]
  <2>1. CASE detached' = [detached EXCEPT ![i] = Absent] /\ UNCHANGED <<aborted, lost>>
    BY <2>1 DEF IInv, MapsTyped, Detached
  <2>2. CASE Abort(i)
    BY <2>2 DEF Abort
  <2> QED
    BY <2>1, <2>2 DEF Finalize
<1>2. PICK outcome : StopProfiler(p, outcome)
  BY DEF Finalize
<1>3. started[q] /\ (q = p => dataSet[q] # {})
  <2> HIDE DEF p
  <2>1. CASE started[p] /\ NoData(p)
    <3>1. started' = [started EXCEPT ![p] = FALSE]
      BY <1>2, <2>1 DEF StopProfiler
    <3>2. q # p /\ started'[q] = started[q]
      BY <3>1 DEF IInv, MapsTyped
    <3> QED
      BY <3>2
  <2>2. CASE ~(started[p] /\ NoData(p))
    BY <1>2, <2>2 DEF StopProfiler, NoData
  <2> QED
    BY <2>1, <2>2
<1>4. CASE \E j \in Live : ProfilerOf(j) = q
  BY <1>0, <1>4 DEF Owners, Live, ProfilerOf
<1>5. CASE \E j \in Detached : detached[j].req.profiler = q
  <2>1. PICK j \in Detached : detached[j].req.profiler = q
    BY <1>5
  <2>2. CASE j # i
    <3>1. detached'[j] = detached[j] /\ j \in Detached'
      BY <1>1, <2>2 DEF Detached
    <3> QED
      BY <2>1, <3>1 DEF Owners
  <2>3. CASE j = i
    <3>1. DataUnder(Active, q) # {}
      BY <1>0, <1>3, <2>1, <2>3 DEF Exact
    <3>2. \E k \in Active : ProfilerOf(k) = q
      BY <3>1 DEF DataUnder
    <3>3. \E k \in Live : ProfilerOf(k) = q
      BY <3>2, ActiveLive
    <3> QED
      BY <1>0, <3>3 DEF Owners, Live, ProfilerOf
  <2> QED
    BY <2>2, <2>3
<1> QED
  BY <1>0, <1>1, <1>3, <1>4, <1>5 DEF Owned, Owners

\* Every step leaves a started profiler with an owner.
LEMMA NextOwned == IInv /\ Exact /\ Owned /\ [Next]_vars => Owned'
<1> SUFFICES ASSUME IInv, Exact, Owned, [Next]_vars PROVE Owned'
  OBVIOUS
<1>0. ASSUME UNCHANGED <<sessions, detached, lost, started>>,
             flushFaults' = 0 => flushFaults = 0
      PROVE  Owned'
  BY <1>0 DEF Owned, Owners, Live, Detached, ProfilerOf
<1>1. ASSUME NEW path \in Paths, NEW r \in Requests, AddSession(path, r)
      PROVE  Owned'
  <2>1. UNCHANGED <<detached, lost, started, flushFaults>>
    BY <1>1 DEF AddSession, endVars
  <2>2. \A i \in Live : i \in Live' /\ sessions'[i] = sessions[i]
    <3>1. nextSessionId \notin Live
      BY SessionAssumptions DEF IInv, MapsTyped, ActivityIndex, Live, Ids
    <3> QED
      BY <1>1, <3>1 DEF AddSession, Constructed, Rejected, Live, IInv, MapsTyped
  <2> QED
    BY <2>1, <2>2 DEF Owned, Owners, Detached, ProfilerOf
<1>2. ASSUME NEW S \in SUBSET Live, NEW X \in SUBSET Live, NEW F \in SUBSET Live,
             Activates(S, X, F)
      PROVE  Owned'
  <2>1. sessions' = sessions /\ detached' = detached /\ lost' = lost
    BY <1>2 DEF Activates, mapVars, endVars
  <2>2. flushFaults' = 0 => flushFaults = 0
    BY <1>2, FlushingCounts DEF Activates, ActivateImpl
  <2>3. \A p \in Profilers :
          started'[p] => started[p] \/ \E i \in S \cup F : ProfilerOf(i) = p
    BY <1>2 DEF Activates, ActivateImpl, StartProfilers
  <2> QED
    BY <2>1, <2>2, <2>3 DEF Owned, Owners, Live, Detached, ProfilerOf
<1>3. CASE ActivateStartedFails
  <2>1. starting \in Live /\ {starting} \in SUBSET Live /\ Detached = {}
    BY <1>3 DEF ActivateStartedFails, IInv, ActivityIndex
  <2>2. Detach({starting}) /\ lost' = lost
    BY <1>3 DEF ActivateStartedFails, endVars
  <2>3. flushFaults' = 0 => flushFaults = 0
    BY <1>3, FlushingCounts DEF ActivateStartedFails
  <2>4. \A p \in Profilers : started'[p] => started[p] \/ ProfilerOf(starting) = p
    BY <1>3 DEF ActivateStartedFails, StartProfilers
  <2>5. \A p \in Profilers : Owners(p) => Owners(p)'
    BY <2>1, <2>2, DetachOwners
  <2>6. Owners(ProfilerOf(starting))
    BY <2>1 DEF Owners
  <2> QED
    BY <2>2, <2>3, <2>4, <2>5, <2>6 DEF Owned
<1>4. ASSUME NEW S \in SUBSET Active, NEW F \in SUBSET Active, Deactivates(S, F)
      PROVE  Owned'
  <2>1. flushFaults' = 0 => flushFaults = 0
    BY <1>4, FlushingCounts DEF Deactivates, DeactivateImpl
  <2> QED
    BY <1>0, <1>4, <2>1 DEF Deactivates, mapVars, endVars
<1>5. ASSUME NEW S \in SUBSET Live, Closes(S)
      PROVE  Owned'
  <2>1. /\ Detach(S) /\ Detached = {} /\ lost' = lost /\ started' = started
        /\ flushFaults' = flushFaults
    BY <1>5 DEF Closes, DeactivateAndDetach, Idle, Flushing, endVars
  <2>2. \A p \in Profilers : Owners(p) => Owners(p)'
    BY <2>1, DetachOwners
  <2> QED
    BY <2>1, <2>2 DEF Owned
<1>6. ASSUME NEW i \in Ids, Finalize(i)
      PROVE  Owned'
  BY <1>6, FinalizeOwned
<1>7. CASE UNCHANGED vars
  BY <1>0, <1>7 DEF vars, mapVars, endVars
<1> QED
  BY StepKinds, <1>1, <1>2, <1>3, <1>4, <1>5, <1>6, <1>7

-----------------------------------------------------------------------------
(* The theorems.                                                           *)

Flow == IInv /\ IndexOK /\ Recording /\ Exact /\ Owned

\* All of it holds in every reachable state.
LEMMA AlwaysFlow == Spec => []Flow
<1>1. Init => Flow
  <2> SUFFICES ASSUME Init PROVE Flow
    OBVIOUS
  <2>1. IInv
    BY InitIInv
  <2>2. Active = {} /\ Live = {}
    BY DEF Init, Active, Live
  <2>3. IndexOK
    BY <2>2, SessionAssumptions DEF Init, IndexOK, PathIndex, ModeAgrees, Ids
  <2>4. Recording /\ Owned
    BY <2>2 DEF Init, Recording, ActiveRecords, Owned
  <2>5. Exact
    BY <2>2 DEF Init, Exact, Counted
  <2> QED
    BY <2>1, <2>3, <2>4, <2>5 DEF Flow
<1>2. Flow /\ [Next]_vars => Flow'
  BY NextIInv, NextIndex, NextRecording, NextExact, NextOwned DEF Flow
<1> QED
  BY <1>1, <1>2, PTL DEF Spec

\* The maps of the manager (sessionPaths, sessions, activeSessions) and what a
\* finalizing call holds agree on which sessions exist, whatever start has refused or
\* given up half way.
THEOREM MapsAgree == Spec => []KeysAgree
<1>1. Flow => KeysAgree
  BY DEF Flow, IInv, IndexOK, KeysAgree
<1> QED
  BY <1>1, AlwaysFlow, PTL

\* The profiler follows its sessions: a session in the maps finds its profiler in the
\* mode it asked for (and the instrumentation profiler, unless a refused start has
\* reconfigured it since, with the device and options of that mode), an active one
\* really records (Profiler::start and registerData are never undone under it), and a
\* started profiler has a session left to stop it.
THEOREM ProfilerFollows == Spec => []CollectorFollows
<1>1. Flow => CollectorFollows
  <2> SUFFICES ASSUME Flow PROVE CollectorFollows
    OBVIOUS
  <2>1. StartedIsOwned
    BY DEF Flow, Owned, Owners, StartedIsOwned, Idle
  <2> QED
    BY <2>1 DEF Flow, IndexOK, Recording, CollectorFollows
<1> QED
  BY <1>1, AlwaysFlow, PTL

\* Nothing of a session that finalizeSession took out of the maps stays registered:
\* neither its data in Profiler::dataSet nor its interfaces in the counters, as long as
\* no flush has thrown.  (About registration, not about the copies of dataSet that a
\* collector thread took before.)
THEOREM NothingReachesDetached == Spec => []DetachedUnreachable
<1>1. Flow => DetachedUnreachable
  <2> SUFFICES ASSUME Flow, flushFaults = 0, NEW i \in Ids \ Live
               PROVE  /\ \A p \in Profilers, k \in {"data", "timeline"} :
                           <<k, i>> \notin dataSet[p]
                      /\ \A k \in {"context", "data", "timeline"} :
                           scopeInterfaceCounts[<<k, i>>] = 0
                      /\ contextSourceCounts[i] = 0
    BY DEF DetachedUnreachable
  <2>1. i \notin Active
    BY ActiveLive DEF Flow
  <2>2. \A p \in Profilers, k \in {"data", "timeline"} : <<k, i>> \notin dataSet[p]
    <3> SUFFICES ASSUME NEW p \in Profilers, NEW k, <<k, i>> \in dataSet[p] PROVE FALSE
      OBVIOUS
    <3>1. <<k, i>> \in DataUnder(Active, p)
      BY DEF Flow, Exact
    <3> QED
      BY <2>1, <3>1, DataUnderOwn
  <2>3. \A k \in {"context", "data", "timeline"} : scopeInterfaceCounts[<<k, i>>] = 0
    BY <2>1 DEF Flow, Exact, Counted, ScopeInterfaces
  <2> QED
    BY <2>1, <2>2, <2>3 DEF Flow, Exact
<1> QED
  BY <1>1, AlwaysFlow, PTL

-----------------------------------------------------------------------------
(***************************************************************************)
(* SessionManager implements the safety part of SessionLifecycle: its      *)
(* initial states are initial states of the users' view, and every step of *)
(* it is a step of the users' view or none.  (That closing sessions are    *)
(* released in the end is left to the model checker.)                      *)
(***************************************************************************)

\* The phase and the path a user sees of a session: the refinement mapping.
PhaseOf(i) ==
  IF i \in Live
    THEN IF i \in Active THEN "recording" ELSE "paused"
  ELSE IF i \in Detached THEN "closing"
  ELSE IF i < nextSessionId THEN "closed"
  ELSE "unborn"

PathOf(i) == IF i \in Live THEN sessions[i].path ELSE Absent

\* The ids of S are seen to move to phase ph, and nothing else is.
Moves(S, ph) == \A i \in Ids : PhaseOf(i)' = IF i \in S THEN ph ELSE PhaseOf(i)

\* Every path stays as it is.
PathsKept == \A i \in Ids : PathOf(i)' = PathOf(i)

\* The steps of the users' view, in terms of the mapping.
LEMMA Viewed ==
  /\ \A S, ph : Moves(S, ph) => Lifecycle!Move(S, ph)
  /\ \A i \in Ids : Lifecycle!NextId(i)
       <=> PhaseOf(i) = "unborn" /\ \A j \in Ids : j < i => PhaseOf(j) # "unborn"
  /\ Lifecycle!Open = {i \in Ids : PhaseOf(i) \in {"paused", "recording"}}
  BY DEF Lifecycle!Move, Lifecycle!NextId, Lifecycle!Open, Lifecycle!Ids, Ids, PhaseOf,
         Moves

\* Recording, pausing and releasing leave the paths alone.
LEMMA PathsStay ==
  ASSUME PathsKept, NEW S \in SUBSET Ids, NEW ph, Moves(S, ph), S # {},
         \/ ph = "recording" /\ \A i \in S : PhaseOf(i) = "paused"
         \/ ph = "paused" /\ \A i \in S : PhaseOf(i) = "recording"
         \/ ph = "closed" /\ \A i \in S : PhaseOf(i) = "closing"
  PROVE  Lifecycle!Next
<1>1. Lifecycle!Move(S, ph)
  BY Viewed
<1>2. UNCHANGED [i \in Ids |-> PathOf(i)]
  BY DEF PathsKept
<1>3. Lifecycle!Record(S) \/ Lifecycle!Pause(S) \/ Lifecycle!Release(S)
  BY <1>1, <1>2
     DEF Lifecycle!Record, Lifecycle!Pause, Lifecycle!Release, PhaseOf, PathOf
<1> QED
  BY <1>3 DEF Lifecycle!Next, Lifecycle!Ids, Ids

\* Nothing the users see changes.
LEMMA NothingSeen ==
  ASSUME PathsKept, Moves({}, "closed")
  PROVE  UNCHANGED Lifecycle!vars
<1>1. \A i \in Ids : PhaseOf(i)' = PhaseOf(i) /\ PathOf(i)' = PathOf(i)
  BY DEF PathsKept, Moves
<1> QED
  BY <1>1 DEF Lifecycle!vars, PhaseOf, PathOf

\* A start opens a session under a path no open session has, or is refused.
LEMMA AddSessionSeen ==
  ASSUME IInv, IndexOK, NEW path \in Paths, NEW r \in Requests, AddSession(path, r)
  PROVE  Lifecycle!Next
<1> DEFINE new == [path |-> path, req |-> r]
<1>i. nextSessionId \in Ids
  BY SessionAssumptions DEF IInv, MapsTyped, AddSession, Ids
<1>n. PICK id \in Ids : id = nextSessionId
  BY <1>i
<1>0. /\ id \in Ids /\ id \notin Live /\ id \in Nat /\ nextSessionId' = id + 1
      /\ Detached = {} /\ sessionPaths[path] = Absent /\ new # Absent
      /\ UNCHANGED <<activeSessions, detached>> /\ id \notin Active
  BY <1>n, SessionAssumptions, AbsentIsNoSession, ActiveLive
     DEF IInv, MapsTyped, ActivityIndex, AddSession, Ids, FreePath, Session, Idle
<1>1. PhaseOf(id) = "unborn" /\ \A j \in Ids : j < id => PhaseOf(j) # "unborn"
  BY <1>0, <1>n DEF PhaseOf
<1>2. Lifecycle!NextId(id)
  BY <1>0, <1>1, Viewed
<1>3. Detached' = {} /\ Active' = Active
  BY <1>0 DEF Detached, Active
<1>4. \A i \in Ids : i # id => (i < id + 1 <=> i < id)
  BY <1>0 DEF Ids
<1>5. CASE Rejected
  <2>1. Live' = Live /\ PathsKept
    BY <1>5 DEF Rejected, Live, PathsKept, PathOf
  <2>2. Moves({id}, "closed")
    BY <1>0, <1>3, <1>4, <1>n, <2>1 DEF Moves, PhaseOf
  <2>3. UNCHANGED [i \in Ids |-> PathOf(i)]
    BY <2>1 DEF PathsKept
  <2>4. Lifecycle!Refuse(id)
    BY <1>2, <2>2, <2>3, Viewed DEF Lifecycle!Refuse, PathOf
  <2> QED
    BY <1>0, <2>4 DEF Lifecycle!Next, Lifecycle!Ids, Ids
<1>6. CASE Constructed(id, path, r)
  <2>1. /\ Live' = Live \cup {id} /\ sessions'[id] = new
        /\ \A i \in Ids \ {id} : sessions'[i] = sessions[i]
    BY <1>0, <1>6 DEF Constructed, Live, IInv, MapsTyped
  <2>2. Moves({id}, "paused")
    BY <1>0, <1>3, <1>4, <1>n, <2>1 DEF Moves, PhaseOf
  <2>3. \A i \in Ids : PathOf(i)' = IF i = id THEN path ELSE PathOf(i)
    <3>1. sessions'[id].path = path
      BY <2>1
    <3>2. \A i \in Ids : i # id => (i \in Live' <=> i \in Live)
      BY <2>1
    <3> HIDE DEF new
    <3> QED
      BY <2>1, <3>1, <3>2 DEF PathOf
  <2>4. \A j \in Ids : PhaseOf(j) \in {"paused", "recording"} => PathOf(j) # path
    <3>1. \A j \in Live : sessions[j].path # path
      BY <1>0, SessionAssumptions DEF IndexOK, PathIndex, Live, Ids
    <3> QED
      BY <3>1 DEF PhaseOf, PathOf
  <2>5. [i \in Ids |-> PathOf(i)]' = [[i \in Ids |-> PathOf(i)] EXCEPT ![id] = path]
    BY <1>0, <2>3
  <2>6. \A j \in Lifecycle!Open : [i \in Ids |-> PathOf(i)][j] # path
    BY <2>4, Viewed
  <2>7. Lifecycle!OpenSession(id, path)
    BY <1>2, <2>2, <2>5, <2>6, Viewed DEF Lifecycle!OpenSession, PathOf
  <2> QED
    BY <1>0, <2>7 DEF Lifecycle!Next, Lifecycle!Ids, Ids
<1> QED
  BY <1>n, <1>5, <1>6 DEF AddSession

\* Sessions that leave the maps are seen to close, and give back their paths.
LEMMA DetachSeen ==
  ASSUME IInv, IInv', NEW S \in SUBSET Live, S # {}, Detach(S), Detached = {},
         nextSessionId' = nextSessionId,
         \A i \in Ids \ S : i \in Active' <=> i \in Active
  PROVE  Lifecycle!Next
<1>0. S \in SUBSET Ids
  BY DEF Live
<1>1. /\ Live' = Live \ S /\ Detached' = S
      /\ \A i \in Ids \ S : sessions'[i] = sessions[i]
  BY <1>0, AbsentIsNoSession DEF Detach, Live, Detached, IInv, MapsTyped
<1>2. Moves(S, "closing")
  BY <1>0, <1>1 DEF Moves, PhaseOf
<1>3. [i \in Ids |-> PathOf(i)]'
        = [i \in Ids |-> IF i \in S THEN Absent ELSE [j \in Ids |-> PathOf(j)][i]]
  BY <1>1 DEF PathOf
<1>4. S \subseteq Lifecycle!Open
  BY <1>0, Viewed DEF PhaseOf
<1>5. Lifecycle!Close(S)
  BY <1>2, <1>3, <1>4, Viewed DEF Lifecycle!Close, Lifecycle!Ids, Ids, PathOf
<1> QED
  BY <1>0, <1>5 DEF Lifecycle!Next, Lifecycle!Ids, Ids

\* Every step of the session manager is a step of the users' view, or not seen.
LEMMA StepSeen ==
  ASSUME IInv, IndexOK, [Next]_vars
  PROVE  [Lifecycle!Next]_(Lifecycle!vars)
<1>0. IInv' /\ Active \subseteq Live /\ Live \subseteq Ids
  BY NextIInv, ActiveLive
<1>1. ASSUME NEW path \in Paths, NEW r \in Requests, AddSession(path, r)
      PROVE  Lifecycle!Next
  BY <1>1, AddSessionSeen
<1>2. ASSUME NEW S \in SUBSET Live, NEW X \in SUBSET Live, NEW F \in SUBSET Live,
             Activates(S, X, F)
      PROVE  [Lifecycle!Next]_(Lifecycle!vars)
  <2>1. /\ Active' = Active \cup S /\ sessions' = sessions /\ Live' = Live
        /\ detached' = detached /\ nextSessionId' = nextSessionId /\ S \cap Active = {}
    BY <1>2, ActiveAfter DEF Activates, mapVars, Live
  <2>2. PathsKept /\ Moves(S, "recording") /\ \A i \in S : PhaseOf(i) = "paused"
    BY <2>1 DEF PathsKept, PathOf, Moves, PhaseOf, Detached
  <2>3. CASE S = {}
    BY <2>2, <2>3, NothingSeen DEF Moves
  <2>4. CASE S # {}
    BY <1>0, <2>2, <2>4, PathsStay
  <2> QED
    BY <2>3, <2>4
<1>3. ASSUME ActivateStartedFails
      PROVE  Lifecycle!Next
  <2>1. /\ {starting} \in SUBSET Live /\ Detached = {} /\ Detach({starting})
        /\ nextSessionId' = nextSessionId
    BY <1>3 DEF ActivateStartedFails, IInv, ActivityIndex
  <2>2. Active' = Active
    BY <1>3, ActiveAfter
  <2> QED
    BY <1>0, <2>1, <2>2, DetachSeen
<1>4. ASSUME NEW S \in SUBSET Active, NEW F \in SUBSET Active, Deactivates(S, F)
      PROVE  [Lifecycle!Next]_(Lifecycle!vars)
  <2>1. /\ Active' = Active \ (S \cup F) /\ sessions' = sessions /\ Live' = Live
        /\ detached' = detached /\ nextSessionId' = nextSessionId
    BY <1>4, ActiveAfter DEF Deactivates, mapVars, Live
  <2>2. /\ PathsKept /\ Moves(S \cup F, "paused")
        /\ \A i \in S \cup F : PhaseOf(i) = "recording"
    BY <1>0, <2>1 DEF PathsKept, PathOf, Moves, PhaseOf, Detached
  <2>3. CASE S \cup F = {}
    BY <2>2, <2>3, NothingSeen DEF Moves
  <2>4. CASE S \cup F # {}
    <3>1. S \cup F \in SUBSET Ids
      BY <1>0
    <3> QED
      BY <2>2, <2>4, <3>1, PathsStay
  <2> QED
    BY <2>3, <2>4
<1>5. ASSUME NEW S \in SUBSET Live, Closes(S)
      PROVE  Lifecycle!Next
  <2>1. S # {} /\ Detach(S) /\ Detached = {} /\ nextSessionId' = nextSessionId
    BY <1>5 DEF Closes, DeactivateAndDetach, Idle
  <2>2. Active' = Active \ S
    BY <1>5, ActiveAfter
  <2> QED
    BY <1>0, <2>1, <2>2, DetachSeen
<1>6. ASSUME NEW i \in Ids, Finalize(i)
      PROVE  Lifecycle!Next
  <2> DEFINE gone == Detached \ Detached'
  <2>1. /\ Active' = Active /\ sessions' = sessions /\ Live' = Live
        /\ nextSessionId' = nextSessionId /\ Live \cap Detached = {}
    BY <1>6, ActiveAfter DEF Finalize, mapVars, Live, IInv, ActivityIndex
  <2>2. Detached' \subseteq Detached /\ i \in gone /\ gone \subseteq Ids
    BY <1>6 DEF Finalize, Abort, Detached, IInv, MapsTyped
  <2>3. \A j \in Ids : j \in Detached => j < nextSessionId
    <3>1. nextSessionId \in Nat /\ Ids \subseteq Nat
      BY SessionAssumptions DEF IInv, MapsTyped, Ids
    <3> QED
      BY <3>1 DEF IInv, ActivityIndex
  <2>4. PathsKept /\ Moves(gone, "closed") /\ \A j \in gone : PhaseOf(j) = "closing"
    BY <2>1, <2>2, <2>3 DEF PathsKept, PathOf, Moves, PhaseOf
  <2> HIDE DEF gone
  <2> QED
    BY <2>2, <2>4, PathsStay
<1>7. CASE UNCHANGED vars
  <2>1. Live' = Live /\ Active' = Active /\ Detached' = Detached /\ sessions' = sessions
        /\ nextSessionId' = nextSessionId
    BY <1>7 DEF vars, mapVars, Live, Active, Detached
  <2>2. PathsKept /\ Moves({}, "closed")
    BY <2>1 DEF PathsKept, PathOf, Moves, PhaseOf
  <2> QED
    BY <2>2, NothingSeen
<1> QED
  BY StepKinds, <1>1, <1>2, <1>3, <1>4, <1>5, <1>6, <1>7

\* The users' view: a session is opened under a path no open session has, records and
\* pauses, is closed once and never opened again, whatever fails in the code below.
THEOREM SafelyImplementsLifecycle ==
  Spec => Lifecycle!Init /\ [][Lifecycle!Next]_(Lifecycle!vars)
<1>1. Init => Lifecycle!Init
  <2> SUFFICES ASSUME Init PROVE Lifecycle!Init
    OBVIOUS
  <2>1. Live = {} /\ Detached = {} /\ nextSessionId = 0
    BY DEF Init, Live, Detached
  <2>2. \A i \in Ids : PhaseOf(i) = "unborn" /\ PathOf(i) = Absent
    BY <2>1, SessionAssumptions DEF PhaseOf, PathOf, Ids
  <2> QED
    BY <2>2 DEF Lifecycle!Init, Lifecycle!Ids, Ids, PhaseOf, PathOf
<1>2. Flow /\ [Next]_vars => [Lifecycle!Next]_(Lifecycle!vars)
  BY StepSeen DEF Flow
<1> QED
  BY <1>1, <1>2, AlwaysFlow, PTL DEF Spec

-----------------------------------------------------------------------------
(* The activity collectors.                                                *)

Phases == {"none", "starting", "flushed", "active", "pausing", "paused", "stopped",
           "broken"}
Kinds == {"kernel", "memcpy", "api"}
Events == [call : Calls, from : {"activity", "callback"}]
CallRecords == [state : {"idle", "open", "closed"}, window : Nat, since : Nat,
                until : Nat, traced : BOOLEAN]

Typed ==
  /\ session \in Nat /\ phase \in Phases /\ hasStarted \in BOOLEAN
  /\ sdk \in [subs : Nat, kinds : SUBSET Kinds]
  /\ held \in [sub : BOOLEAN, kinds : SUBSET Kinds]
  /\ counter \in {"none", "ready", "running"}
  /\ call \in [Calls -> CallRecords]
  /\ records \in SUBSET Calls /\ opened \in SUBSET Calls
  /\ events \in SUBSET Events /\ rows \in SUBSET Events
  /\ launches \in [Calls -> SUBSET Nat]
  /\ failed \in BOOLEAN
  /\ ghost \in [due : SUBSET Calls, stopFailed : BOOLEAN, counterFailed : BOOLEAN]

\* A collector has started while a session is being recorded; until a stop has
\* failed, the library has what the collector believes it has.
Attached ==
  /\ hasStarted <=> phase \notin {"none", "stopped"}
  /\ phase # "none" => session > 0
  /\ held.sub => sdk.subs > 0
  /\ kind # "mthreads" /\ hasStarted => held.sub
  /\ ~ghost.stopFailed =>
       /\ sdk = [subs |-> IF held.sub THEN 1 ELSE 0, kinds |-> held.kinds]
       /\ ~hasStarted => held = NotHeld

\* Prepared groups are idle until an activation's flush and from the next flush on.
CounterFollows ==
  /\ counter = "running" => phase \in {"flushed", "active", "broken"}
  /\ Prepared = "ready" /\ ~ghost.counterFailed =>
       /\ phase \in {"starting", "pausing", "paused"} => counter = "ready"
       /\ phase \in {"flushed", "active"} => counter = "running"

\* A call carries the numbers of sessions that have begun, and what is known of it
\* begins with its entry.
CallsKnown ==
  \A c \in Calls :
    /\ call[c].window <= session /\ call[c].since <= session /\ call[c].until <= session
    /\ launches[c] \subseteq {call[c].window}
    /\ call[c].state = "open" => call[c].until = 0
    /\ call[c].state = "idle" =>
         /\ call[c] = NoCall /\ launches[c] = {}
         /\ c \notin records \cup ghost.due /\ \A e \in events \cup rows : e.call # c

\* Of an activity session that is not over: a call of its time is noted as its own,
\* a traced kernel is an event or still a record, and one that is due is an event.
KernelsKept ==
  kind # "mthreads" /\ phase # "none" =>
    \A c \in Calls : call[c].window = session =>
      /\ session \in launches[c]
      /\ call[c].traced /\ ~failed => c \in records \/ Activity(c) \in events
      /\ c \in ghost.due => Activity(c) \in events

\* Of a MUPTI session: a call that entered under its subscription has an open event
\* or a completed one, and once it returned under it, a completed one.
CallbacksKept ==
  kind = "mthreads" =>
    \A c \in Calls : session > 0 /\ call[c].since = session =>
      /\ call[c].state = "open" => c \in opened \/ Callback(c) \in events
      /\ call[c].state = "closed" /\ call[c].until = session => Callback(c) \in events

\* What a MUPTI session has written holds one row for a call.
RowsOnce ==
  kind = "mthreads" /\ phase = "stopped" =>
    /\ \A e, f \in rows : e.call = f.call => e = f
    /\ \A c \in Calls :
         call[c].since = session /\ call[c].until = session /\ ~ghost.stopFailed
           => \E e \in rows : e.call = c

ActivityInv ==
  /\ Typed /\ Attached /\ CounterFollows /\ CallsKnown /\ KernelsKept /\ CallbacksKept
  /\ RowsOnce /\ SessionGetsItsKernels

----------------------------------------------------------------------------
(* What the steps do to the records.                                        *)

\* The events of a call are events.
LEMMA EventTypes ==
  ASSUME NEW c \in Calls
  PROVE  Activity(c) \in Events /\ Callback(c) \in Events
  BY DEF Activity, Callback, Events

\* A subscription adds to what the library has and is all that the collector holds.
LEMMA SubscribedTyped ==
  ASSUME Typed, NEW sub \in BOOLEAN, NEW kinds \in SUBSET Kinds, Subscribed(sub, kinds)
  PROVE  /\ sdk' \in [subs : Nat, kinds : SUBSET Kinds]
         /\ held' \in [sub : BOOLEAN, kinds : SUBSET Kinds]
         /\ held'.sub = sub /\ held'.kinds = kinds
         /\ sdk'.subs = sdk.subs + (IF sub THEN 1 ELSE 0)
         /\ sdk'.kinds = sdk.kinds \cup kinds
  BY DEF Typed, Subscribed

\* Every start is a subscription, of the activity collectors always.
LEMMA StartSubscribes ==
  ASSUME Start
  PROVE  \E sub \in BOOLEAN, kinds \in SUBSET Kinds :
           Subscribed(sub, kinds) /\ (kind # "mthreads" => sub)
<1>1. CASE kind = "mthreads"
  BY <1>1 DEF Start, MuptiStarted, Kinds
<1>2. CASE kind # "mthreads"
  <2>1. KindsOf \in SUBSET Kinds
    BY DEF KindsOf, MetaxKinds, EnflameKinds, Kinds
  <2> QED
    BY <1>2, <2>1 DEF Start
<1> QED
  BY <1>1, <1>2

\* Queueing a kernel changes of its call that it is traced, and nothing of the others.
LEMMA QueuedCall ==
  ASSUME Typed, NEW c \in Calls, Queue(c)
  PROVE  /\ call' \in [Calls -> CallRecords] /\ call[c].state = "open"
         /\ \A d \in Calls : d # c => call'[d] = call[d]
         /\ call'[c].state = "open" /\ call'[c].window = call[c].window
         /\ call'[c].since = call[c].since /\ call'[c].until = call[c].until
         /\ call'[c].traced
<1>1. call[c] \in CallRecords
  BY DEF Typed
<1>2. /\ call' \in [Calls -> CallRecords]
      /\ call'[c] = [call[c] EXCEPT !.traced = TRUE]
      /\ \A d \in Calls : d # c => call'[d] = call[d]
  BY <1>1 DEF Queue, Typed, CallRecords
<1> QED
  BY <1>1, <1>2 DEF CallRecords, Queue

\* The exit of a call notes the session of its subscription, and changes no other call.
LEMMA ExitedCall ==
  ASSUME Typed, NEW c \in Calls, ApiExit(c)
  PROVE  /\ call' \in [Calls -> CallRecords] /\ call[c].state = "open"
         /\ \A d \in Calls : d # c => call'[d] = call[d]
         /\ call'[c].state = "closed" /\ call'[c].window = call[c].window
         /\ call'[c].since = call[c].since
         /\ call'[c].until = (IF sdk.subs > 0 THEN session ELSE 0)
         /\ call'[c].traced = call[c].traced
<1> DEFINE until == IF sdk.subs > 0 THEN session ELSE 0
<1>1. call[c] \in CallRecords /\ until \in Nat
  BY DEF Typed
<1>2. call' = [call EXCEPT ![c] = [call[c] EXCEPT !.state = "closed", !.until = until]]
  BY DEF ApiExit, Typed
<1> HIDE DEF until
<1>3. [call[c] EXCEPT !.state = "closed", !.until = until] \in CallRecords
  BY <1>1 DEF CallRecords
<1>4. /\ call' \in [Calls -> CallRecords]
      /\ call'[c] = [call[c] EXCEPT !.state = "closed", !.until = until]
      /\ \A d \in Calls : d # c => call'[d] = call[d]
  BY <1>1, <1>2, <1>3 DEF Typed
<1> QED
  BY <1>1, <1>4 DEF CallRecords, ApiExit, until

\* What a MUPTI session writes when it stops: no call twice, and every call that
\* entered and returned under its subscription.
LEMMA WrittenOnce ==
  ASSUME Typed, Attached, CallsKnown, CallbacksKept, kind = "mthreads", phase = "paused"
  PROVE  /\ \A e, f \in Written : e.call = f.call => e = f
         /\ \A c \in Calls : call[c].since = session /\ call[c].until = session
              => \E e \in Written : e.call = c
<1>1. \A e, f \in Written : e.call = f.call => e = f
  <2> SUFFICES ASSUME NEW e \in Written, NEW f \in Written, e.call = f.call
               PROVE  e = f
    OBVIOUS
  <2>1. /\ e \in Events /\ f \in Events /\ e \in events /\ f \in events
        /\ ~Superseded(e) /\ ~Superseded(f)
    BY DEF Written, Typed
  <2>2. /\ e = [call |-> e.call, from |-> e.from]
        /\ f = [call |-> f.call, from |-> f.from]
        /\ e.from \in {"activity", "callback"} /\ f.from \in {"activity", "callback"}
    BY <2>1 DEF Events
  <2> QED
    BY <2>1, <2>2 DEF Superseded, Activity
<1>2. ASSUME NEW c \in Calls, call[c].since = session, call[c].until = session
      PROVE  \E e \in Written : e.call = c
  <2>1. session > 0 /\ session \in Nat /\ call[c] \in CallRecords
    BY DEF Attached, Typed
  <2>2. call[c].state = "closed"
    BY <1>2, <2>1 DEF CallsKnown, NoCall, CallRecords
  <2>3. Callback(c) \in events /\ Callback(c).call = c /\ Activity(c).call = c
    BY <1>2, <2>1, <2>2 DEF CallbacksKept, Callback, Activity
  <2>4. CASE Activity(c) \in events
    BY <2>3, <2>4 DEF Written, Superseded, Activity
  <2>5. CASE Activity(c) \notin events
    BY <2>3, <2>5 DEF Written, Superseded
  <2> QED
    BY <2>4, <2>5
<1> QED
  BY <1>1, <1>2

----------------------------------------------------------------------------
(* What every step keeps.                                                   *)

\* Every step keeps the types.
LEMMA TypedStep ==
  ASSUME Typed, Attached,
         [CollectorNext]_collectorVars
  PROVE  Typed'
<1> USE DEF Typed, Phases, Kinds, Events, CallRecords, Attached, NoCall, NotHeld
<1>1. CASE Start
  <2>1. /\ sdk' \in [subs : Nat, kinds : SUBSET Kinds]
        /\ held' \in [sub : BOOLEAN, kinds : SUBSET Kinds]
    BY <1>1, StartSubscribes, SubscribedTyped
  <2>2. ghost' \in [due : SUBSET Calls, stopFailed : BOOLEAN, counterFailed : BOOLEAN]
    BY <1>1 DEF Start
  <2>3. /\ session' \in Nat /\ phase' \in Phases /\ hasStarted' \in BOOLEAN
        /\ counter' \in {"none", "ready", "running"}
        /\ call' \in [Calls -> CallRecords]
        /\ records' \in SUBSET Calls /\ opened' \in SUBSET Calls
    BY <1>1 DEF Start, Prepared
  <2>4. /\ events' \in SUBSET Events
        /\ rows' \in SUBSET Events
        /\ launches' \in [Calls -> SUBSET Nat]
        /\ failed' \in BOOLEAN
    BY <1>1 DEF Start
  <2> QED
    BY <2>1, <2>2, <2>3, <2>4
<1>2. CASE StartFails
  <2>1. sdk' \in [subs : Nat, kinds : SUBSET Kinds]
    BY <1>2 DEF StartFails, Rollback
  <2>2. /\ session' \in Nat /\ phase' \in Phases /\ hasStarted' \in BOOLEAN
        /\ held' \in [sub : BOOLEAN, kinds : SUBSET Kinds]
        /\ counter' \in {"none", "ready", "running"}
        /\ call' \in [Calls -> CallRecords]
        /\ records' \in SUBSET Calls /\ opened' \in SUBSET Calls
        /\ events' \in SUBSET Events
        /\ rows' \in SUBSET Events
        /\ launches' \in [Calls -> SUBSET Nat]
        /\ failed' \in BOOLEAN
        /\ ghost' \in [due : SUBSET Calls, stopFailed : BOOLEAN, counterFailed : BOOLEAN]
    BY <1>2 DEF StartFails, setup
  <2> QED
    BY <2>1, <2>2
<1>3. CASE FlushThrows
  BY <1>3 DEF FlushThrows, setup, libraryVars, captureVars
<1>4. CASE FlushToActivate
  <2>1. /\ counter' \in {"none", "ready", "running"}
        /\ ghost' \in [due : SUBSET Calls, stopFailed : BOOLEAN, counterFailed : BOOLEAN]
    BY <1>4 DEF FlushToActivate, CounterBecomes, Begun
  <2>2. events' \in SUBSET Events /\ records' \in SUBSET Calls
    BY <1>4, EventTypes DEF FlushToActivate, Flushed
  <2>3. /\ session' \in Nat /\ phase' \in Phases /\ hasStarted' \in BOOLEAN
        /\ sdk' \in [subs : Nat, kinds : SUBSET Kinds]
        /\ held' \in [sub : BOOLEAN, kinds : SUBSET Kinds]
        /\ call' \in [Calls -> CallRecords]
        /\ rows' \in SUBSET Events
        /\ launches' \in [Calls -> SUBSET Nat]
        /\ failed' \in BOOLEAN
        /\ opened' \in SUBSET Calls
    BY <1>4 DEF FlushToActivate
  <2> QED
    BY <2>1, <2>2, <2>3
<1>5. CASE Register
  BY <1>5 DEF Register, setup, libraryVars, captureVars
<1>6. CASE FlushToPause
  <2>1. \E D \in SUBSET Calls : \/ ghost' = [ghost EXCEPT !.due = D]
                            \/ ghost' = [ghost EXCEPT !.counterFailed = TRUE]
    BY <1>6 DEF FlushToPause, Returned
  <2>2. ghost' \in [due : SUBSET Calls, stopFailed : BOOLEAN, counterFailed : BOOLEAN]
    BY <2>1
  <2>3. events' \in SUBSET Events /\ records' \in SUBSET Calls
    BY <1>6, EventTypes DEF FlushToPause, Flushed
  <2>4. /\ session' \in Nat /\ phase' \in Phases /\ hasStarted' \in BOOLEAN
        /\ sdk' \in [subs : Nat, kinds : SUBSET Kinds]
        /\ held' \in [sub : BOOLEAN, kinds : SUBSET Kinds]
        /\ counter' \in {"none", "ready", "running"}
        /\ call' \in [Calls -> CallRecords]
        /\ rows' \in SUBSET Events
        /\ launches' \in [Calls -> SUBSET Nat]
        /\ failed' \in BOOLEAN
        /\ opened' \in SUBSET Calls
    BY <1>6 DEF FlushToPause, Finished, setup, libraryVars
  <2> QED
    BY <2>1, <2>2, <2>3, <2>4
<1>7. CASE Unregister
  BY <1>7 DEF Unregister, setup, libraryVars, captureVars
<1>8. CASE Resume
  BY <1>8 DEF Resume, setup, libraryVars, captureVars
<1>9. CASE Stop
  <2>1. sdk' \in [subs : Nat, kinds : SUBSET Kinds]
    BY <1>9 DEF Stop
  <2>2. /\ session' \in Nat /\ phase' \in Phases /\ hasStarted' \in BOOLEAN
        /\ held' \in [sub : BOOLEAN, kinds : SUBSET Kinds]
        /\ counter' \in {"none", "ready", "running"}
        /\ call' \in [Calls -> CallRecords]
        /\ records' \in SUBSET Calls /\ opened' \in SUBSET Calls
        /\ events' \in SUBSET Events
        /\ rows' \in SUBSET Events
        /\ launches' \in [Calls -> SUBSET Nat]
        /\ failed' \in BOOLEAN
        /\ ghost' \in [due : SUBSET Calls, stopFailed : BOOLEAN, counterFailed : BOOLEAN]
    BY <1>9 DEF Stop, Written, setup, captureVars
  <2> QED
    BY <2>1, <2>2
<1>10. CASE StopFails
  <2>1. sdk' \in [subs : Nat, kinds : SUBSET Kinds]
    BY <1>10 DEF StopFails
  <2>2. ghost' \in [due : SUBSET Calls, stopFailed : BOOLEAN, counterFailed : BOOLEAN]
    BY <1>10 DEF StopFails
  <2>3. session' \in Nat /\ hasStarted' \in BOOLEAN
    BY <1>10 DEF StopFails
  <2>4. phase' \in Phases /\ counter' \in {"none", "ready", "running"}
    <3>1. phase' \in {"stopped", "none"} /\ counter' = "none"
      BY <1>10 DEF StopFails
    <3> QED
      BY <3>1
  <2>5. /\ held' \in [sub : BOOLEAN, kinds : SUBSET Kinds]
    <3>1. held' = [sub |-> FALSE, kinds |-> {}] \/ held' = held
      BY <1>10 DEF StopFails
    <3>2. [sub |-> FALSE, kinds |-> {}] \in [sub : BOOLEAN, kinds : SUBSET Kinds]
      OBVIOUS
    <3>3. held \in [sub : BOOLEAN, kinds : SUBSET Kinds]
      OBVIOUS
    <3> QED
      BY <3>1, <3>2, <3>3
  <2>6. rows' \in SUBSET Events
    BY <1>10 DEF StopFails, Written
  <2>7. /\ call' \in [Calls -> CallRecords]
        /\ records' \in SUBSET Calls /\ opened' \in SUBSET Calls
        /\ events' \in SUBSET Events
        /\ launches' \in [Calls -> SUBSET Nat]
        /\ failed' \in BOOLEAN
    BY <1>10 DEF StopFails, captureVars
  <2> QED
    BY <2>1, <2>2, <2>3, <2>4, <2>5, <2>6, <2>7
<1>11. CASE Collect
  BY <1>11 DEF Collect, Mine, setup, libraryVars, captureVars
<1>12. CASE \E c \in Calls : ApiEnter(c)
  BY <1>12 DEF ApiEnter, Registered, setup, libraryVars, captureVars
<1>13. CASE \E c \in Calls : Queue(c)
  <2>1. call' \in [Calls -> CallRecords]
    BY <1>13, QueuedCall
  <2>2. /\ session' \in Nat /\ phase' \in Phases /\ hasStarted' \in BOOLEAN
        /\ sdk' \in [subs : Nat, kinds : SUBSET Kinds]
        /\ held' \in [sub : BOOLEAN, kinds : SUBSET Kinds]
        /\ counter' \in {"none", "ready", "running"}
        /\ records' \in SUBSET Calls /\ opened' \in SUBSET Calls
        /\ events' \in SUBSET Events
        /\ rows' \in SUBSET Events
        /\ launches' \in [Calls -> SUBSET Nat]
        /\ failed' \in BOOLEAN
        /\ ghost' \in [due : SUBSET Calls, stopFailed : BOOLEAN, counterFailed : BOOLEAN]
    BY <1>13 DEF Queue, setup, libraryVars
  <2> QED
    BY <2>1, <2>2
<1>14. CASE \E c \in Calls : DriverCall(c)
  BY <1>14 DEF DriverCall, Callback, setup, libraryVars, captureVars
<1>15. CASE \E c \in Calls : ApiExit(c)
  <2>1. call' \in [Calls -> CallRecords]
    BY <1>15, ExitedCall
  <2>2. /\ session' \in Nat /\ phase' \in Phases /\ hasStarted' \in BOOLEAN
        /\ sdk' \in [subs : Nat, kinds : SUBSET Kinds]
        /\ held' \in [sub : BOOLEAN, kinds : SUBSET Kinds]
        /\ counter' \in {"none", "ready", "running"}
        /\ records' \in SUBSET Calls /\ opened' \in SUBSET Calls
        /\ events' \in SUBSET Events
        /\ rows' \in SUBSET Events
        /\ launches' \in [Calls -> SUBSET Nat]
        /\ failed' \in BOOLEAN
        /\ ghost' \in [due : SUBSET Calls, stopFailed : BOOLEAN, counterFailed : BOOLEAN]
    BY <1>15, EventTypes DEF ApiExit, CompletesEvent, setup, libraryVars
  <2> QED
    BY <2>1, <2>2
<1>16. CASE \E c \in Calls : RecordLost(c)
  BY <1>16 DEF RecordLost, setup, libraryVars, captureVars
<1>17. CASE \E c \in Calls, timed \in BOOLEAN : BufferCompletes(c, timed)
  <2>1. events' \in SUBSET Events
    BY <1>17, EventTypes DEF BufferCompletes, Takes
  <2>2. failed' \in BOOLEAN
    BY <1>17 DEF BufferCompletes, Takes
  <2>3. /\ session' \in Nat /\ phase' \in Phases /\ hasStarted' \in BOOLEAN
        /\ sdk' \in [subs : Nat, kinds : SUBSET Kinds]
        /\ held' \in [sub : BOOLEAN, kinds : SUBSET Kinds]
        /\ counter' \in {"none", "ready", "running"}
        /\ call' \in [Calls -> CallRecords]
        /\ records' \in SUBSET Calls /\ opened' \in SUBSET Calls
        /\ rows' \in SUBSET Events
        /\ launches' \in [Calls -> SUBSET Nat]
        /\ ghost' \in [due : SUBSET Calls, stopFailed : BOOLEAN, counterFailed : BOOLEAN]
    BY <1>17 DEF BufferCompletes, setup, libraryVars
  <2> QED
    BY <2>1, <2>2, <2>3
<1>18. CASE UNCHANGED collectorVars
  BY <1>18 DEF collectorVars, setup, libraryVars, captureVars
<1> QED
  BY <1>1, <1>2, <1>3, <1>4, <1>5, <1>6, <1>7, <1>8, <1>9, <1>10, <1>11, <1>12, <1>13,
     <1>14, <1>15, <1>16, <1>17, <1>18 DEF CollectorNext

\* Every step keeps the account of subscriptions and kinds.
LEMMA AttachedStep ==
  ASSUME Typed, Attached,
         [CollectorNext]_collectorVars
  PROVE  Attached'
<1> USE DEF Typed, Phases, Kinds, Events, CallRecords, Attached, NotHeld
<1>1. CASE Start
  <2>1. PICK sub \in BOOLEAN, kinds \in SUBSET Kinds :
          Subscribed(sub, kinds) /\ (kind # "mthreads" => sub)
    BY <1>1, StartSubscribes
  <2>2. /\ sdk' \in [subs : Nat, kinds : SUBSET Kinds]
        /\ held' \in [sub : BOOLEAN, kinds : SUBSET Kinds]
        /\ held'.sub = sub /\ held'.kinds = kinds
        /\ sdk'.subs = sdk.subs + (IF sub THEN 1 ELSE 0)
        /\ sdk'.kinds = sdk.kinds \cup kinds
    BY <2>1, SubscribedTyped
  <2>3. /\ phase' = "starting" /\ hasStarted' = TRUE /\ session' = session + 1
        /\ ghost'.stopFailed = ghost.stopFailed /\ ~hasStarted /\ kind' = kind
    BY <1>1 DEF Start, setup
  <2>4. ASSUME ~ghost.stopFailed
        PROVE  sdk' = [subs |-> IF held'.sub THEN 1 ELSE 0, kinds |-> held'.kinds]
    <3>1. sdk = [subs |-> 0, kinds |-> {}]
      BY <2>3, <2>4
    <3>2. sdk'.subs = (IF sub THEN 1 ELSE 0) /\ sdk'.kinds = kinds
      BY <2>2, <3>1
    <3>3. sdk' = [subs |-> sdk'.subs, kinds |-> sdk'.kinds]
      BY <2>2
    <3> QED
      BY <2>2, <3>2, <3>3
  <2> QED
    BY <2>1, <2>2, <2>3, <2>4
<1>2. CASE StartFails
  <2>1. /\ held' = NotHeld /\ sdk'.subs = sdk.subs /\ sdk'.kinds \subseteq sdk.kinds
        /\ sdk' \in [subs : Nat, kinds : SUBSET Kinds]
        /\ phase' = phase /\ hasStarted' = hasStarted /\ session' = session /\ ghost' = ghost
        /\ phase = "none" /\ kind' = kind
    BY <1>2 DEF StartFails, Rollback, setup
  <2>2. ~ghost.stopFailed => sdk' = [subs |-> 0, kinds |-> {}]
    BY <2>1
  <2> QED
    BY <2>1, <2>2
<1>3. CASE FlushThrows
  BY <1>3 DEF FlushThrows, setup, libraryVars, captureVars
<1>4. CASE FlushToActivate
  BY <1>4 DEF FlushToActivate, Flushed, CounterBecomes, Begun, Activity, setup,
     libraryVars, captureVars
<1>5. CASE Register
  BY <1>5 DEF Register, setup, libraryVars, captureVars
<1>6. CASE FlushToPause
  BY <1>6 DEF FlushToPause, Flushed, Finished, Activity, Returned, setup, libraryVars,
     captureVars
<1>7. CASE Unregister
  BY <1>7 DEF Unregister, setup, libraryVars, captureVars
<1>8. CASE Resume
  BY <1>8 DEF Resume, setup, libraryVars, captureVars
<1>9. CASE Stop
  <2>1. /\ held' = NotHeld /\ phase' = "stopped" /\ hasStarted' = FALSE /\ session' = session
        /\ sdk'.subs = sdk.subs - (IF held.sub THEN 1 ELSE 0)
        /\ sdk'.kinds = sdk.kinds \ held.kinds /\ phase = "paused"
        /\ sdk' = [subs |-> sdk'.subs, kinds |-> sdk'.kinds]
        /\ ghost' = ghost /\ kind' = kind
    BY <1>9 DEF Stop, setup
  <2>2. ~ghost.stopFailed => sdk' = [subs |-> 0, kinds |-> {}]
    BY <2>1
  <2> QED
    BY <2>1, <2>2
<1>10. CASE StopFails
  BY <1>10 DEF StopFails, Written, Superseded, NotHeld, Activity, setup, libraryVars,
     captureVars
<1>11. CASE Collect
  BY <1>11 DEF Collect, Mine, setup, libraryVars, captureVars
<1>12. CASE \E c \in Calls : ApiEnter(c)
  BY <1>12 DEF ApiEnter, Registered, setup, libraryVars, captureVars
<1>13. CASE \E c \in Calls : Queue(c)
  BY <1>13 DEF Queue, setup, libraryVars, captureVars
<1>14. CASE \E c \in Calls : DriverCall(c)
  BY <1>14 DEF DriverCall, Callback, setup, libraryVars, captureVars
<1>15. CASE \E c \in Calls : ApiExit(c)
  BY <1>15 DEF ApiExit, CompletesEvent, Callback, setup, libraryVars, captureVars
<1>16. CASE \E c \in Calls : RecordLost(c)
  BY <1>16 DEF RecordLost, setup, libraryVars, captureVars
<1>17. CASE \E c \in Calls, timed \in BOOLEAN : BufferCompletes(c, timed)
  BY <1>17 DEF BufferCompletes, Takes, Activity, setup, libraryVars, captureVars
<1>18. CASE UNCHANGED collectorVars
  BY <1>18 DEF collectorVars, setup, libraryVars, captureVars
<1> QED
  BY <1>1, <1>2, <1>3, <1>4, <1>5, <1>6, <1>7, <1>8, <1>9, <1>10, <1>11, <1>12, <1>13,
     <1>14, <1>15, <1>16, <1>17, <1>18 DEF CollectorNext

\* Every step keeps the counters in step with the session.
LEMMA CounterStep ==
  ASSUME Typed, Attached, CounterFollows,
         [CollectorNext]_collectorVars
  PROVE  CounterFollows'
<1> USE DEF Typed, Phases, Attached, CounterFollows, Prepared
<1>1. CASE Start
  BY <1>1 DEF Start, MuptiStarted, Subscribed, Prepared, KindsOf, MetaxKinds,
     EnflameKinds, setup, libraryVars, captureVars
<1>2. CASE StartFails
  BY <1>2 DEF StartFails, Rollback, KindsOf, MetaxKinds, EnflameKinds, NotHeld, setup,
     libraryVars, captureVars
<1>3. CASE FlushThrows
  BY <1>3 DEF FlushThrows, setup, libraryVars, captureVars
<1>4. CASE FlushToActivate
  BY <1>4 DEF FlushToActivate, Flushed, CounterBecomes, Begun, Activity, setup,
     libraryVars, captureVars
<1>5. CASE Register
  BY <1>5 DEF Register, setup, libraryVars, captureVars
<1>6. CASE FlushToPause
  BY <1>6 DEF FlushToPause, Flushed, Finished, Activity, Returned, setup, libraryVars,
     captureVars
<1>7. CASE Unregister
  BY <1>7 DEF Unregister, setup, libraryVars, captureVars
<1>8. CASE Resume
  BY <1>8 DEF Resume, setup, libraryVars, captureVars
<1>9. CASE Stop
  BY <1>9 DEF Stop, Written, Superseded, NotHeld, Activity, setup, libraryVars,
     captureVars
<1>10. CASE StopFails
  BY <1>10 DEF StopFails, Written, Superseded, NotHeld, Activity, setup, libraryVars,
     captureVars
<1>11. CASE Collect
  BY <1>11 DEF Collect, Mine, setup, libraryVars, captureVars
<1>12. CASE \E c \in Calls : ApiEnter(c)
  BY <1>12 DEF ApiEnter, Registered, setup, libraryVars, captureVars
<1>13. CASE \E c \in Calls : Queue(c)
  BY <1>13 DEF Queue, setup, libraryVars, captureVars
<1>14. CASE \E c \in Calls : DriverCall(c)
  BY <1>14 DEF DriverCall, Callback, setup, libraryVars, captureVars
<1>15. CASE \E c \in Calls : ApiExit(c)
  BY <1>15 DEF ApiExit, CompletesEvent, Callback, setup, libraryVars, captureVars
<1>16. CASE \E c \in Calls : RecordLost(c)
  BY <1>16 DEF RecordLost, setup, libraryVars, captureVars
<1>17. CASE \E c \in Calls, timed \in BOOLEAN : BufferCompletes(c, timed)
  BY <1>17 DEF BufferCompletes, Takes, Activity, setup, libraryVars, captureVars
<1>18. CASE UNCHANGED collectorVars
  BY <1>18 DEF collectorVars, setup, libraryVars, captureVars
<1> QED
  BY <1>1, <1>2, <1>3, <1>4, <1>5, <1>6, <1>7, <1>8, <1>9, <1>10, <1>11, <1>12, <1>13,
     <1>14, <1>15, <1>16, <1>17, <1>18 DEF CollectorNext

\* Every step knows nothing of a call that has not entered.
LEMMA CallsStep ==
  ASSUME Typed, Attached, CallsKnown,
         [CollectorNext]_collectorVars
  PROVE  CallsKnown'
<1> USE DEF Typed, Phases, Kinds, Events, CallRecords, Attached, CallsKnown, NoCall
<1>1. CASE Start
  BY <1>1 DEF Start, MuptiStarted, Subscribed, Prepared, KindsOf, MetaxKinds,
     EnflameKinds, setup, libraryVars, captureVars
<1>2. CASE StartFails
  BY <1>2 DEF StartFails, Rollback, KindsOf, MetaxKinds, EnflameKinds, NotHeld, setup,
     libraryVars, captureVars
<1>3. CASE FlushThrows
  BY <1>3 DEF FlushThrows, setup, libraryVars, captureVars
<1>4. CASE FlushToActivate
  BY <1>4 DEF FlushToActivate, Flushed, CounterBecomes, Begun, Activity, setup,
     libraryVars, captureVars
<1>5. CASE Register
  BY <1>5 DEF Register, setup, libraryVars, captureVars
<1>6. CASE FlushToPause
  BY <1>6 DEF FlushToPause, Flushed, Finished, Activity, Returned, setup, libraryVars,
     captureVars
<1>7. CASE Unregister
  BY <1>7 DEF Unregister, setup, libraryVars, captureVars
<1>8. CASE Resume
  BY <1>8 DEF Resume, setup, libraryVars, captureVars
<1>9. CASE Stop
  BY <1>9 DEF Stop, Written, Superseded, NotHeld, Activity, setup, libraryVars,
     captureVars
<1>10. CASE StopFails
  <2>1. /\ session' = session
        /\ call' = call
        /\ launches' = launches
        /\ records' = records
        /\ events' = events
        /\ ghost'.due = ghost.due
    BY <1>10 DEF StopFails, captureVars
  <2>2. rows' \subseteq rows \cup events
    BY <1>10 DEF StopFails, Written
  <2> QED
    BY <2>1, <2>2
<1>11. CASE Collect
  BY <1>11 DEF Collect, Mine, setup, libraryVars, captureVars
<1>12. CASE \E c \in Calls : ApiEnter(c)
  BY <1>12 DEF ApiEnter, Registered, setup, libraryVars, captureVars
<1>13. CASE \E c \in Calls : Queue(c)
  <2>1. PICK c \in Calls : Queue(c)
    BY <1>13
  <2>2. /\ session' = session /\ launches' = launches /\ rows' = rows /\ ghost' = ghost
        /\ events' = events /\ records' = records \cup {c}
    BY <2>1 DEF Queue
  <2> SUFFICES ASSUME NEW d \in Calls
               PROVE  /\ call'[d].window <= session' /\ call'[d].since <= session'
                      /\ call'[d].until <= session'
                      /\ launches'[d] \subseteq {call'[d].window}
                      /\ call'[d].state = "open" => call'[d].until = 0
                      /\ call'[d].state = "idle" =>
                           /\ call'[d] = NoCall /\ launches'[d] = {}
                           /\ d \notin records' \cup ghost'.due
                           /\ \A e \in events' \cup rows' : e.call # d
    OBVIOUS
  <2>3. CASE d = c
    BY <2>1, <2>2, <2>3, QueuedCall
  <2>4. CASE d # c
    <3>1. call'[d] = call[d]
      BY <2>1, <2>4, QueuedCall
    <3> QED
      BY <2>2, <2>4, <3>1
  <2> QED
    BY <2>3, <2>4
<1>14. CASE \E c \in Calls : DriverCall(c)
  BY <1>14 DEF DriverCall, Callback, setup, libraryVars, captureVars
<1>15. CASE \E c \in Calls : ApiExit(c)
  <2>1. PICK c \in Calls : ApiExit(c)
    BY <1>15
  <2>2. events' \subseteq events \cup {Callback(c)} /\ Callback(c).call = c
    BY <2>1 DEF ApiExit, CompletesEvent, Callback
  <2>3. /\ session' = session /\ launches' = launches /\ rows' = rows /\ ghost' = ghost
        /\ records' = records
    BY <2>1 DEF ApiExit
  <2> SUFFICES ASSUME NEW d \in Calls
               PROVE  /\ call'[d].window <= session' /\ call'[d].since <= session'
                      /\ call'[d].until <= session'
                      /\ launches'[d] \subseteq {call'[d].window}
                      /\ call'[d].state = "open" => call'[d].until = 0
                      /\ call'[d].state = "idle" =>
                           /\ call'[d] = NoCall /\ launches'[d] = {}
                           /\ d \notin records' \cup ghost'.due
                           /\ \A e \in events' \cup rows' : e.call # d
    OBVIOUS
  <2>4. CASE d = c
    BY <2>1, <2>2, <2>3, <2>4, ExitedCall
  <2>5. CASE d # c
    <3>1. call'[d] = call[d]
      BY <2>1, <2>5, ExitedCall
    <3> QED
      BY <2>2, <2>3, <2>5, <3>1
  <2> QED
    BY <2>4, <2>5
<1>16. CASE \E c \in Calls : RecordLost(c)
  BY <1>16 DEF RecordLost, setup, libraryVars, captureVars
<1>17. CASE \E c \in Calls, timed \in BOOLEAN : BufferCompletes(c, timed)
  <2>1. PICK c \in Calls, timed \in BOOLEAN : BufferCompletes(c, timed)
    BY <1>17
  <2>2. events' \subseteq events \cup {Activity(c)} /\ Activity(c).call = c
    BY <2>1 DEF BufferCompletes, Takes, Activity
  <2>3. c \in records
    BY <2>1 DEF BufferCompletes
  <2>4. /\ session' = session /\ launches' = launches /\ rows' = rows /\ ghost' = ghost
        /\ call' = call /\ records' = records \ {c}
    BY <2>1 DEF BufferCompletes
  <2> SUFFICES ASSUME NEW d \in Calls
               PROVE  /\ call'[d].window <= session' /\ call'[d].since <= session'
                      /\ call'[d].until <= session'
                      /\ launches'[d] \subseteq {call'[d].window}
                      /\ call'[d].state = "open" => call'[d].until = 0
                      /\ call'[d].state = "idle" =>
                           /\ call'[d] = NoCall /\ launches'[d] = {}
                           /\ d \notin records' \cup ghost'.due
                           /\ \A e \in events' \cup rows' : e.call # d
    OBVIOUS
  <2>5. CASE d = c
    BY <2>2, <2>3, <2>4, <2>5
  <2>6. CASE d # c
    BY <2>2, <2>4, <2>6
  <2> QED
    BY <2>5, <2>6
<1>18. CASE UNCHANGED collectorVars
  BY <1>18 DEF collectorVars, setup, libraryVars, captureVars
<1> QED
  BY <1>1, <1>2, <1>3, <1>4, <1>5, <1>6, <1>7, <1>8, <1>9, <1>10, <1>11, <1>12, <1>13,
     <1>14, <1>15, <1>16, <1>17, <1>18 DEF CollectorNext

\* No step loses a kernel of an activity session.
LEMMA KernelsStep ==
  ASSUME Typed, Attached, CallsKnown, KernelsKept,
         [CollectorNext]_collectorVars
  PROVE  KernelsKept'
<1> USE DEF Typed, Phases, Kinds, Events, CallRecords, Attached, CallsKnown,
   KernelsKept, NoCall
<1>1. CASE Start
  BY <1>1 DEF Start, MuptiStarted, Subscribed, Prepared, KindsOf, MetaxKinds,
     EnflameKinds, setup, libraryVars, captureVars
<1>2. CASE StartFails
  BY <1>2 DEF StartFails, Rollback, KindsOf, MetaxKinds, EnflameKinds, NotHeld, setup,
     libraryVars, captureVars
<1>3. CASE FlushThrows
  BY <1>3 DEF FlushThrows, setup, libraryVars, captureVars
<1>4. CASE FlushToActivate
  BY <1>4 DEF FlushToActivate, Flushed, CounterBecomes, Begun, Activity, setup,
     libraryVars, captureVars
<1>5. CASE Register
  BY <1>5 DEF Register, setup, libraryVars, captureVars
<1>6. CASE FlushToPause
  BY <1>6 DEF FlushToPause, Flushed, Finished, Activity, Returned, setup, libraryVars,
     captureVars
<1>7. CASE Unregister
  BY <1>7 DEF Unregister, setup, libraryVars, captureVars
<1>8. CASE Resume
  BY <1>8 DEF Resume, setup, libraryVars, captureVars
<1>9. CASE Stop
  BY <1>9 DEF Stop, Written, Superseded, NotHeld, Activity, setup, libraryVars,
     captureVars
<1>10. CASE StopFails
  BY <1>10 DEF StopFails, Written, Superseded, NotHeld, Activity, setup, libraryVars,
     captureVars
<1>11. CASE Collect
  BY <1>11 DEF Collect, Mine, setup, libraryVars, captureVars
<1>12. CASE \E c \in Calls : ApiEnter(c)
  BY <1>12 DEF ApiEnter, Registered, setup, libraryVars, captureVars
<1>13. CASE \E c \in Calls : Queue(c)
  BY <1>13 DEF Queue, setup, libraryVars, captureVars
<1>14. CASE \E c \in Calls : DriverCall(c)
  BY <1>14 DEF DriverCall, Callback, setup, libraryVars, captureVars
<1>15. CASE \E c \in Calls : ApiExit(c)
  BY <1>15 DEF ApiExit, CompletesEvent, Callback, setup, libraryVars, captureVars
<1>16. CASE \E c \in Calls : RecordLost(c)
  BY <1>16 DEF RecordLost, setup, libraryVars, captureVars
<1>17. CASE \E c \in Calls, timed \in BOOLEAN : BufferCompletes(c, timed)
  BY <1>17 DEF BufferCompletes, Takes, Activity, setup, libraryVars, captureVars
<1>18. CASE UNCHANGED collectorVars
  BY <1>18 DEF collectorVars, setup, libraryVars, captureVars
<1> QED
  BY <1>1, <1>2, <1>3, <1>4, <1>5, <1>6, <1>7, <1>8, <1>9, <1>10, <1>11, <1>12, <1>13,
     <1>14, <1>15, <1>16, <1>17, <1>18 DEF CollectorNext

\* No step loses a call of a MUPTI session.
LEMMA CallbacksStep ==
  ASSUME Typed, Attached, CallsKnown, CallbacksKept,
         [CollectorNext]_collectorVars
  PROVE  CallbacksKept'
<1> USE DEF Typed, Phases, Kinds, Events, CallRecords, Attached, CallsKnown,
   CallbacksKept, NoCall
<1>1. CASE Start
  BY <1>1 DEF Start, MuptiStarted, Subscribed, Prepared, KindsOf, MetaxKinds,
     EnflameKinds, setup, libraryVars, captureVars
<1>2. CASE StartFails
  BY <1>2 DEF StartFails, Rollback, KindsOf, MetaxKinds, EnflameKinds, NotHeld, setup,
     libraryVars, captureVars
<1>3. CASE FlushThrows
  BY <1>3 DEF FlushThrows, setup, libraryVars, captureVars
<1>4. CASE FlushToActivate
  BY <1>4 DEF FlushToActivate, Flushed, CounterBecomes, Begun, Activity, setup,
     libraryVars, captureVars
<1>5. CASE Register
  BY <1>5 DEF Register, setup, libraryVars, captureVars
<1>6. CASE FlushToPause
  BY <1>6 DEF FlushToPause, Flushed, Finished, Activity, Returned, setup, libraryVars,
     captureVars
<1>7. CASE Unregister
  BY <1>7 DEF Unregister, setup, libraryVars, captureVars
<1>8. CASE Resume
  BY <1>8 DEF Resume, setup, libraryVars, captureVars
<1>9. CASE Stop
  BY <1>9 DEF Stop, Written, Superseded, NotHeld, Activity, setup, libraryVars,
     captureVars
<1>10. CASE StopFails
  BY <1>10 DEF StopFails, Written, Superseded, NotHeld, Activity, setup, libraryVars,
     captureVars
<1>11. CASE Collect
  BY <1>11 DEF Collect, Mine, setup, libraryVars, captureVars
<1>12. CASE \E c \in Calls : ApiEnter(c)
  BY <1>12 DEF ApiEnter, Registered, setup, libraryVars, captureVars
<1>13. CASE \E c \in Calls : Queue(c)
  BY <1>13 DEF Queue, setup, libraryVars, captureVars
<1>14. CASE \E c \in Calls : DriverCall(c)
  BY <1>14 DEF DriverCall, Callback, setup, libraryVars, captureVars
<1>15. CASE \E c \in Calls : ApiExit(c)
  BY <1>15 DEF ApiExit, CompletesEvent, Callback, setup, libraryVars, captureVars
<1>16. CASE \E c \in Calls : RecordLost(c)
  BY <1>16 DEF RecordLost, setup, libraryVars, captureVars
<1>17. CASE \E c \in Calls, timed \in BOOLEAN : BufferCompletes(c, timed)
  BY <1>17 DEF BufferCompletes, Takes, Activity, setup, libraryVars, captureVars
<1>18. CASE UNCHANGED collectorVars
  BY <1>18 DEF collectorVars, setup, libraryVars, captureVars
<1> QED
  BY <1>1, <1>2, <1>3, <1>4, <1>5, <1>6, <1>7, <1>8, <1>9, <1>10, <1>11, <1>12, <1>13,
     <1>14, <1>15, <1>16, <1>17, <1>18 DEF CollectorNext

\* What a MUPTI session writes has each call once, and every call that is due.
LEMMA RowsStep ==
  ASSUME Typed, Attached, CallsKnown, CallbacksKept, RowsOnce,
         [CollectorNext]_collectorVars
  PROVE  RowsOnce'
<1> USE DEF Typed, Phases, Kinds, Events, CallRecords, Attached, CallsKnown,
   CallbacksKept, RowsOnce, NoCall
<1>1. CASE Start
  BY <1>1 DEF Start, MuptiStarted, Subscribed, Prepared, KindsOf, MetaxKinds,
     EnflameKinds, setup, libraryVars, captureVars
<1>2. CASE StartFails
  BY <1>2 DEF StartFails, Rollback, KindsOf, MetaxKinds, EnflameKinds, NotHeld, setup,
     libraryVars, captureVars
<1>3. CASE FlushThrows
  BY <1>3 DEF FlushThrows, setup, libraryVars, captureVars
<1>4. CASE FlushToActivate
  BY <1>4 DEF FlushToActivate, Flushed, CounterBecomes, Begun, Activity, setup,
     libraryVars, captureVars
<1>5. CASE Register
  BY <1>5 DEF Register, setup, libraryVars, captureVars
<1>6. CASE FlushToPause
  BY <1>6 DEF FlushToPause, Flushed, Finished, Activity, Returned, setup, libraryVars,
     captureVars
<1>7. CASE Unregister
  BY <1>7 DEF Unregister, setup, libraryVars, captureVars
<1>8. CASE Resume
  BY <1>8 DEF Resume, setup, libraryVars, captureVars
<1>9. CASE Stop
  <2>1. /\ kind' = kind /\ phase = "paused" /\ events' = events /\ session' = session
        /\ call' = call /\ (kind = "mthreads" => rows' = Written)
    BY <1>9 DEF Stop, setup, captureVars
  <2>2. kind = "mthreads" =>
          /\ \A e, f \in rows' : e.call = f.call => e = f
          /\ \A c \in Calls : call[c].since = session /\ call[c].until = session
                => \E e \in rows' : e.call = c
    BY <2>1, WrittenOnce
  <2> QED
    BY <2>1, <2>2
<1>10. CASE StopFails
  <2>1. /\ kind' = kind /\ phase = "paused" /\ events' = events /\ session' = session
        /\ call' = call /\ (kind = "mthreads" => rows' = Written)
    BY <1>10 DEF StopFails, setup, captureVars
  <2>2. kind = "mthreads" =>
          /\ \A e, f \in rows' : e.call = f.call => e = f
          /\ \A c \in Calls : call[c].since = session /\ call[c].until = session
                => \E e \in rows' : e.call = c
    BY <2>1, WrittenOnce
  <2> QED
    BY <2>1, <2>2
<1>11. CASE Collect
  BY <1>11 DEF Collect, Mine, setup, libraryVars, captureVars
<1>12. CASE \E c \in Calls : ApiEnter(c)
  BY <1>12 DEF ApiEnter, Registered, setup, libraryVars, captureVars
<1>13. CASE \E c \in Calls : Queue(c)
  BY <1>13 DEF Queue, setup, libraryVars, captureVars
<1>14. CASE \E c \in Calls : DriverCall(c)
  BY <1>14 DEF DriverCall, Callback, setup, libraryVars, captureVars
<1>15. CASE \E c \in Calls : ApiExit(c)
  BY <1>15 DEF ApiExit, CompletesEvent, Callback, setup, libraryVars, captureVars
<1>16. CASE \E c \in Calls : RecordLost(c)
  BY <1>16 DEF RecordLost, setup, libraryVars, captureVars
<1>17. CASE \E c \in Calls, timed \in BOOLEAN : BufferCompletes(c, timed)
  BY <1>17 DEF BufferCompletes, Takes, Activity, setup, libraryVars, captureVars
<1>18. CASE UNCHANGED collectorVars
  BY <1>18 DEF collectorVars, setup, libraryVars, captureVars
<1> QED
  BY <1>1, <1>2, <1>3, <1>4, <1>5, <1>6, <1>7, <1>8, <1>9, <1>10, <1>11, <1>12, <1>13,
     <1>14, <1>15, <1>16, <1>17, <1>18 DEF CollectorNext

\* A session that is over keeps what it was given.
LEMMA SessionStep ==
  ASSUME Typed, Attached, CallsKnown, KernelsKept, SessionGetsItsKernels,
         [CollectorNext]_collectorVars
  PROVE  SessionGetsItsKernels'
<1> USE DEF Typed, Phases, Kinds, Events, CallRecords, Attached, CallsKnown,
   KernelsKept, SessionGetsItsKernels, NoCall
<1>1. CASE Start
  BY <1>1 DEF Start, MuptiStarted, Subscribed, Prepared, KindsOf, MetaxKinds,
     EnflameKinds, setup, libraryVars, captureVars
<1>2. CASE StartFails
  BY <1>2 DEF StartFails, Rollback, KindsOf, MetaxKinds, EnflameKinds, NotHeld, setup,
     libraryVars, captureVars
<1>3. CASE FlushThrows
  BY <1>3 DEF FlushThrows, setup, libraryVars, captureVars
<1>4. CASE FlushToActivate
  BY <1>4 DEF FlushToActivate, Flushed, CounterBecomes, Begun, Activity, setup,
     libraryVars, captureVars
<1>5. CASE Register
  BY <1>5 DEF Register, setup, libraryVars, captureVars
<1>6. CASE FlushToPause
  BY <1>6 DEF FlushToPause, Flushed, Finished, Activity, Returned, setup, libraryVars,
     captureVars
<1>7. CASE Unregister
  BY <1>7 DEF Unregister, setup, libraryVars, captureVars
<1>8. CASE Resume
  BY <1>8 DEF Resume, setup, libraryVars, captureVars
<1>9. CASE Stop
  BY <1>9 DEF Stop, Written, Superseded, NotHeld, Activity, setup, libraryVars,
     captureVars
<1>10. CASE StopFails
  BY <1>10 DEF StopFails, Written, Superseded, NotHeld, Activity, setup, libraryVars,
     captureVars
<1>11. CASE Collect
  <2>1. /\ phase = "stopped" /\ kind' = kind
        /\ (kind # "mthreads" => rows' = {e \in events : Mine(e)})
        /\ call' = call /\ session' = session /\ ghost' = ghost
        /\ phase' = "none"
    BY <1>11 DEF Collect, setup
  <2> SUFFICES ASSUME kind # "mthreads"
               PROVE  SessionGetsItsKernels'
    BY <2>1
  <2>2. rows' = {e \in events : session \in launches[e.call]}
    BY <2>1 DEF Mine
  <2>3. ASSUME NEW e \in rows'
        PROVE  call[e.call].window = session
    <3>1. e.call \in Calls /\ session \in launches[e.call]
      BY <2>2
    <3> QED
      BY <3>1
  <2>4. ASSUME NEW c \in ghost.due, call[c].window = session
        PROVE  \E e \in rows' : e.call = c
    <3>1. c \in Calls
      OBVIOUS
    <3>2. Activity(c) \in events /\ session \in launches[c] /\ Activity(c).call = c
      BY <2>1, <2>4, <3>1 DEF Activity
    <3> QED
      BY <2>2, <3>2
  <2> QED
    BY <2>1, <2>3, <2>4
<1>12. CASE \E c \in Calls : ApiEnter(c)
  BY <1>12 DEF ApiEnter, Registered, setup, libraryVars, captureVars
<1>13. CASE \E c \in Calls : Queue(c)
  BY <1>13 DEF Queue, setup, libraryVars, captureVars
<1>14. CASE \E c \in Calls : DriverCall(c)
  BY <1>14 DEF DriverCall, Callback, setup, libraryVars, captureVars
<1>15. CASE \E c \in Calls : ApiExit(c)
  BY <1>15 DEF ApiExit, CompletesEvent, Callback, setup, libraryVars, captureVars
<1>16. CASE \E c \in Calls : RecordLost(c)
  BY <1>16 DEF RecordLost, setup, libraryVars, captureVars
<1>17. CASE \E c \in Calls, timed \in BOOLEAN : BufferCompletes(c, timed)
  BY <1>17 DEF BufferCompletes, Takes, Activity, setup, libraryVars, captureVars
<1>18. CASE UNCHANGED collectorVars
  BY <1>18 DEF collectorVars, setup, libraryVars, captureVars
<1> QED
  BY <1>1, <1>2, <1>3, <1>4, <1>5, <1>6, <1>7, <1>8, <1>9, <1>10, <1>11, <1>12, <1>13,
     <1>14, <1>15, <1>16, <1>17, <1>18 DEF CollectorNext

----------------------------------------------------------------------------
(* The theorems.                                                            *)

\* The collectors' invariant holds at first and after every step.
LEMMA ActivityInvariant == CollectorSpec => []ActivityInv
<1>1. CollectorInit => ActivityInv
  <2> SUFFICES ASSUME CollectorInit PROVE ActivityInv
    OBVIOUS
  <2>1. Typed
    BY DEF CollectorInit, Typed, NoCall, NotHeld, Phases, Kinds, Events, CallRecords
  <2>2. Attached /\ CounterFollows
    BY DEF CollectorInit, Attached, CounterFollows, NotHeld
  <2>3. CallsKnown /\ KernelsKept /\ CallbacksKept
    BY DEF CollectorInit, CallsKnown, KernelsKept, CallbacksKept, NoCall
  <2>4. RowsOnce /\ SessionGetsItsKernels
    BY DEF CollectorInit, RowsOnce, SessionGetsItsKernels
  <2> QED
    BY <2>1, <2>2, <2>3, <2>4 DEF ActivityInv
<1>2. ActivityInv /\ [CollectorNext]_collectorVars => ActivityInv'
  BY TypedStep, AttachedStep, CounterStep, CallsStep, KernelsStep, CallbacksStep,
     RowsStep, SessionStep DEF ActivityInv
<1> QED
  BY <1>1, <1>2, PTL DEF CollectorSpec

\* A finished Enflame or MetaX session has exactly the kernels launched while it was
\* recording, across pauses and whenever their records came: the session ids noted at
\* API entry (EnflameProfiler.cpp, MetaxProfiler.cpp) and the rows collect() selects
\* by them.
THEOREM SessionsGetTheirKernels == CollectorSpec => []SessionGetsItsKernels
<1>1. ActivityInv => SessionGetsItsKernels
  BY DEF ActivityInv
<1> QED
  BY <1>1, ActivityInvariant, PTL

\* Every launch that ran under a MUPTI session's subscription has exactly one row,
\* from its activity or from its callback: what the callbacks open and complete, and
\* how doStop() of MthreadsProfiler.cpp merges the two.
THEOREM OneRowForEachLaunch == CollectorSpec => []OneRowPerLaunch
<1>1. ActivityInv => OneRowPerLaunch
  <2> SUFFICES ASSUME ActivityInv, phase = "stopped", kind = "mthreads", NEW c \in Calls
               PROVE  /\ Cardinality({e \in rows : e.call = c}) <= 1
                      /\ call[c].since = session /\ call[c].until = session
                           /\ ~ghost.stopFailed => \E e \in rows : e.call = c
    BY DEF OneRowPerLaunch
  <2> DEFINE mine == {e \in rows : e.call = c}
  <2>1. \A e, f \in mine : e = f
    BY DEF ActivityInv, RowsOnce
  <2>2. mine = {} \/ \E e \in mine : mine = {e}
    BY <2>1
  <2>3. Cardinality(mine) <= 1
    <3>1. Cardinality({}) = 0 /\ \A e : Cardinality({e}) = 1
      BY FS_EmptySet, FS_Singleton
    <3> HIDE DEF mine
    <3> QED
      BY <2>2, <3>1
  <2> QED
    BY <2>3 DEF ActivityInv, RowsOnce
<1> QED
  BY <1>1, ActivityInvariant, PTL

\* A collector that is not started has left no subscription and no enabled activity
\* kind behind, unless the library refused to release them: the roll-back of doStart()
\* and doStop() of the three activity profilers.
THEOREM NothingLeftEnabled == CollectorSpec => []NothingStaysEnabled
<1>1. ActivityInv => NothingStaysEnabled
  BY DEF ActivityInv, Attached, NothingStaysEnabled, NotHeld
<1> QED
  BY <1>1, ActivityInvariant, PTL

\* The MetaX counters run between the flush that ends an activation and the one that
\* begins a deactivation, and only there (MetaxProfiler.cpp: doFlush, MetaxCounters).
THEOREM RangesFollow == CollectorSpec => []RangesFollowTheSession
<1>1. ActivityInv => RangesFollowTheSession
  BY DEF ActivityInv, CounterFollows, RangesFollowTheSession
<1> QED
  BY <1>1, ActivityInvariant, PTL
================================================================================
