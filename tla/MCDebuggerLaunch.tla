--------------------------- MODULE MCDebuggerLaunch ---------------------------
(* Two threads, two launches, two devices and two streams, on every driver.     *)
EXTENDS DebuggerLaunch, TLC

CONSTANTS t1, t2
CallersDef == {(t1 :> NoContext) @@ (t2 :> 1)}
K(debug, hidden, full, fits, stream, device) ==
  [debug |-> debug, hidden |-> hidden, full |-> full, fits |-> fits,
   stream |-> stream, device |-> device]
SettingsDef ==
  {[dir |-> TRUE, onError |-> FALSE, handler |-> "none"],
   [dir |-> TRUE, onError |-> TRUE, handler |-> "raises"]}
KernelsDef ==
  {K(FALSE, FALSE, FALSE, TRUE, 0, 0), K(TRUE, TRUE, TRUE, FALSE, 0, 0),
   K(TRUE, TRUE, TRUE, TRUE, 1, 0), K(TRUE, TRUE, FALSE, TRUE, 0, 1)}
===============================================================================
