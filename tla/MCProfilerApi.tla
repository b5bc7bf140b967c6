--------------------------- MODULE MCProfilerApi ---------------------------
(***************************************************************************)
(* Small instances of ProfilerApi: the hook combinations start can derive. *)
(***************************************************************************)
EXTENDS ProfilerApi

CONSTANTS pa, pb

\* backend="nvidia", hook=None
Plain(path) == [path |-> path, triton |-> FALSE, instr |-> FALSE, native |-> FALSE]
\* backend="nvidia", hook="triton"
Triton(path) == [Plain(path) EXCEPT !.triton = TRUE]
\* backend="cann", hook="instrumentation"
Debugged(path) == [Triton(path) EXCEPT !.instr = TRUE]
\* backend="nvidia", hook="instrumentation"
Native(path) == [Plain(path) EXCEPT !.native = TRUE]
\* backend="instrumentation", hook="triton"
Both(path) == [Triton(path) EXCEPT !.native = TRUE]

\* On CUDA; on the other targets, where backend="mthreads" accepts
\* hook="instrumentation" and the hook itself then raises.
CudaHooks  == {Plain(pa), Triton(pa), Native(pb), Both(pb)}
OtherHooks == {Plain(pa), Debugged(pa), Debugged(pb), Native(pb)}
AllHooks   == [b \in BOOLEAN |-> IF b THEN CudaHooks ELSE OtherHooks]
=============================================================================
