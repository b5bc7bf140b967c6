---------------------- MODULE MCInstrumentationProfiler ----------------------
(* Four kernels: a loop with a nested scope and a branch around it, a warp-         *)
(* specialised kernel with two stages, overlapping scopes on a grid of two, and a  *)
(* kernel without record ops.                                                      *)
EXTENDS InstrumentationProfiler, TLC

In(n) == [name |-> n, start |-> TRUE]
Out(n) == [name |-> n, start |-> FALSE]
Loop == [warps |-> 2, masters |-> 2, grid |-> 1, shared |-> 0,
         records |-> <<In("outer"), In("inner"), Out("inner"), Out("outer")>>,
         stages |-> <<[w \in 0 .. 1 |-> {<<1, 4>>, <<1, 2, 3, 4, 1, 4>>,
                                        <<1, 2, 3, 4, 1, 2, 3, 4, 1, 4>>}]>>]
Partitions == [warps |-> 3, masters |-> 1, grid |-> 1, shared |-> 1024,
               records |-> <<In("load"), Out("load"), In("mma"), Out("mma"), In("store"), Out("store")>>,
               stages |-> <<(0 :> {<<>>}) @@ (1 :> {<<1, 2>>, <<1, 2, 1, 2>>}) @@ (2 :> {<<3, 4>>}),
                            (0 :> {<<5, 6>>}) @@ (1 :> {<<1, 2>>}) @@ (2 :> {<<>>, <<3, 4>>})>>]
Overlap == [warps |-> 2, masters |-> 2, grid |-> 2, shared |-> 4096,
            records |-> <<In("a"), In("b"), Out("a"), Out("b")>>,
            stages |-> <<[w \in 0 .. 1 |-> {<<1, 2, 3, 4>>}]>>]
Plain == [warps |-> 2, masters |-> 2, grid |-> 1, shared |-> 0, records |-> <<>>, stages |-> <<>>]

MCKernels == [loop |-> Loop, partitions |-> Partitions, overlap |-> Overlap, plain |-> Plain]

\* A mode string that spells out what it is given, and an InstrumentationMode, which
\* prints every option.
ByString(ids, size, schedule) ==
  [selective |-> ids # <<>>, ids |-> ids, size |-> size, schedule |-> schedule,
   sampling |-> IF ids = <<>> THEN Nothing ELSE ids, granularity |-> Nothing]
ByObject(ids, size, schedule) ==
  [ByString(ids, size, schedule) EXCEPT !.sampling = ids, !.granularity = "GRANULARITY.WARP"]
MCModes == {ByString(<<>>, 32, FALSE), ByObject(<<>>, 0, TRUE), ByString(<<1>>, 32, FALSE),
            ByString(<<0, 1>>, 64, FALSE), ByObject(<<2>>, 16, FALSE), ByObject(<<>>, 64, TRUE),
            [ByString(<<>>, 64, FALSE) EXCEPT !.granularity = "warp"]}
MCRefused == {ByString(<<1>>, 32, FALSE)}
MCClockStarts == {0, 995}
MCGarbage == {[scope |-> 0, start |-> TRUE, cycle |-> 7, time |-> 0]}
===============================================================================
