-------------------------- MODULE SessionLifecycle --------------------------
(***************************************************************************)
(* What the session layer promises to the users of the profiler, without   *)
(* profilers, interface counters or failures: a session is opened under an *)
(* output path no open session has, may record and pause any number of     *)
(* times, is closed once, and is never opened again.                       *)
(***************************************************************************)
EXTENDS Naturals

CONSTANTS Paths, MaxSessions, NoPath

Ids == 0 .. MaxSessions - 1

VARIABLES
  phase,   \* id -> "unborn", "paused", "recording", "closing" or "closed"
  pathOf   \* id -> the path an open session owns, or NoPath

vars == <<phase, pathOf>>

Phases == {"unborn", "paused", "recording", "closing", "closed"}
Open   == {i \in Ids : phase[i] \in {"paused", "recording"}}

Init ==
  /\ phase  = [i \in Ids |-> "unborn"]
  /\ pathOf = [i \in Ids |-> NoPath]

\* The ids of S move to phase ph.
Move(S, ph) == phase' = [i \in Ids |-> IF i \in S THEN ph ELSE phase[i]]

\* Ids are given out in order, and one is used up even by a refused request.
NextId(i) == phase[i] = "unborn" /\ \A j \in Ids : j < i => phase[j] # "unborn"

OpenSession(i, path) ==
  /\ NextId(i)
  /\ \A j \in Open : pathOf[j] # path
  /\ Move({i}, "paused")
  /\ pathOf' = [pathOf EXCEPT ![i] = path]

Refuse(i) ==
  /\ NextId(i)
  /\ Move({i}, "closed")
  /\ UNCHANGED pathOf

Record(S) ==
  /\ S # {} /\ \A i \in S : phase[i] = "paused"
  /\ Move(S, "recording")
  /\ UNCHANGED pathOf

Pause(S) ==
  /\ S # {} /\ \A i \in S : phase[i] = "recording"
  /\ Move(S, "paused")
  /\ UNCHANGED pathOf

\* Closing gives the paths back at once; the artifacts follow.
Close(S) ==
  /\ S # {} /\ S \subseteq Open
  /\ Move(S, "closing")
  /\ pathOf' = [i \in Ids |-> IF i \in S THEN NoPath ELSE pathOf[i]]

Release(S) ==
  /\ S # {} /\ \A i \in S : phase[i] = "closing"
  /\ Move(S, "closed")
  /\ UNCHANGED pathOf

Next ==
  \/ \E i \in Ids, path \in Paths : OpenSession(i, path)
  \/ \E i \in Ids : Refuse(i)
  \/ \E S \in SUBSET Ids : Record(S) \/ Pause(S) \/ Close(S) \/ Release(S)

\* What is being closed is eventually closed.
Spec == Init /\ [][Next]_vars
             /\ \A i \in Ids : WF_vars(\E S \in SUBSET Ids : i \in S /\ Release(S))
=============================================================================
