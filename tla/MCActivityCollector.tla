-------------------------- MODULE MCActivityCollector --------------------------
(* Two calls, two sessions, each collector with its configurations. *)
EXTENDS ActivityCollector, TLC
O(activity, runtime, counters) ==
  [activity |-> activity, runtime |-> runtime, counters |-> counters]
OptionsDef ==
  [enflame  |-> {O(FALSE, FALSE, FALSE)},
   metax    |-> {O(FALSE, TRUE, TRUE)},
   mthreads |-> {O(FALSE, FALSE, FALSE), O(TRUE, FALSE, FALSE)}]
Symmetric == Permutations(Calls)
===============================================================================
