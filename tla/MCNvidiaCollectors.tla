--------------------------- MODULE MCNvidiaCollectors ---------------------------
EXTENDS NvidiaCollectors

Nvidia(metrics, pc) == [backend |-> "nvidia", metrics |-> metrics, pc |-> pc]
Cupti(pc) == [backend |-> "cupti", metrics |-> {}, pc |-> pc]

Counting == Nvidia({"occupancy", "instruction"}, FALSE)
Sampling == Nvidia({"instruction", "memory"}, TRUE)
MCRequests == <<{Counting, Sampling, Cupti(TRUE)}, {Counting, Sampling, Cupti(TRUE), Cupti(FALSE)}>>
MCLaunches == {"plain", "graph", "other"}
MCThreadOf == [l \in MCLaunches |-> IF l = "plain" THEN "t1" ELSE "t2"]
MCContextOf == [l \in MCLaunches |-> IF l = "other" THEN "c2" ELSE "c1"]
MCNodes == [plain |-> 1, graph |-> 2, other |-> 1]
MCCopying == {"graph"}
MCRefusable == {"profiler", "configImage", "builder", "~builder", "dataImage", "profiling",
                "sampling", "KERNEL", "CONCURRENT_KERNEL", "graph", "finalize"}
MCContexts == {"c1", "c2"}
MCCallers == {"c1"}
=============================================================================
