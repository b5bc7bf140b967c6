--------------------------- MODULE MCGpuCollector ---------------------------
(* GpuCollector for TLC.  Threads and data objects are interchangeable     *)
(* except for the vendor session's data, which keeps its scopes.           *)
EXTENDS GpuCollector, TLC

CONSTANTS t1, t2, base, vendor

MCThreads == {t1, t2}
MCOneThread == {t1}
MCData == {base, vendor}
MCOneData == {base}
MCKeepsScopes == {vendor}
MCNoData == {}
ThreadSymmetry == Permutations({t1, t2})
=============================================================================
