-------------------------- MODULE MCSessionManager --------------------------
(***************************************************************************)
(* Small instances of SessionManager.  Two profiler singletons: Cupti,     *)
(* behind the direct "cupti" backend and behind the nvidia vendor adapter, *)
(* and Instr, the instrumentation profiler.                                *)
(***************************************************************************)
EXTENDS SessionManager

CONSTANTS Cupti, Instr, Nvidia, Plain, Vendor, Sampled, Other,
          Cuda, Hip, Units, Grain, Few, Many, Warp

MCDevices      == {Cuda}
MCOptionKeys   == {Units, Grain}
MCOptionValues == {Few, Many, Warp}
NoOptions      == [k \in MCOptionKeys |-> Absent]

\* backend="cupti", context "shadow"
CuptiRequest == [profiler |-> Cupti, adapter |-> Absent, baseOnly |-> FALSE,
                 mode |-> Plain, sampling |-> "keep", shadow |-> TRUE,
                 device |-> Absent, options |-> NoOptions]
\* backend="cupti_pcsampling"
PCSamplingRequest == [CuptiRequest EXCEPT !.sampling = "on"]
\* backend="nvidia" with no vendor metric, python context
NvidiaBase == [profiler |-> Cupti, adapter |-> Nvidia, baseOnly |-> TRUE,
               mode |-> Vendor, sampling |-> "off", shadow |-> FALSE,
               device |-> Absent, options |-> NoOptions]
\* backend="nvidia" with vendor metrics
NvidiaMetrics == [NvidiaBase EXCEPT !.baseOnly = FALSE, !.shadow = TRUE]
\* backend="instrumentation", mode "cuda:...:sampling_options=..."
SampledRequest == [profiler |-> Instr, adapter |-> Absent, baseOnly |-> FALSE,
                   mode |-> Sampled, sampling |-> "keep", shadow |-> TRUE,
                   device |-> Cuda,
                   options |-> [NoOptions EXCEPT ![Units] = Few]]
\* the same backend in a mode that samples others and names one option more
GrainRequest == [SampledRequest EXCEPT !.mode = Plain,
                   !.options = [NoOptions EXCEPT ![Units] = Many, ![Grain] = Warp]]
\* and on a device the build does not know
HipRequest == [SampledRequest EXCEPT !.mode = Other, !.device = Hip]

MCProfilers  == {Cupti, Instr}
MCInstrumenting == {Instr}
AllRequests  == {CuptiRequest, PCSamplingRequest, NvidiaBase, NvidiaMetrics,
                 SampledRequest, GrainRequest, HipRequest}
=============================================================================
