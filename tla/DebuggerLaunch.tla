---------------------------- MODULE DebuggerLaunch ----------------------------
(* The debugger's launch protocol: activate() and deactivate(), the launch      *)
(* context that every instrumented kernel runs in (prepare, launch,             *)
(* synchronise, finalise) and the native handle with its device buffer.  The    *)
(* launches of several threads interleave with reconfiguration; launches of one *)
(* thread nest.                                                                 *)
EXTENDS TransferEngine

CONSTANTS
  Kernels,    \* the kernels, as their compiled metadata describes them
  Settings    \* what activate() is called with: [dir, onError, handler]

ASSUME KernelAssumption ==
  \A k \in Kernels : /\ {k.debug, k.hidden, k.full, k.fits} \subseteq BOOLEAN
                     /\ (k.full => k.hidden) /\ (k.hidden => k.debug)
                     /\ k.stream \in Streams /\ k.device \in Devices

VARIABLES
  config,     \* _active_config
  outputDir,  \* _output_dir is set
  hook,       \* a launch prepare hook is registered
  stack,      \* [Threads -> the launches open on the thread, innermost first]
  launch,     \* [Launches -> where the launch is and what it carries]
  exported    \* _exported_runs: the launches whose run was appended

pyVars == <<config, outputDir, hook>>
vars == <<engineVars, pyVars, stack, launch, exported>>

Idle == [pc |-> "idle", thread |-> NoContext, kernel |-> NoContext,
         handle |-> FALSE, ran |-> FALSE, raised |-> FALSE, data |-> "none",
         outcome |-> "none"]
Inactive == [enabled |-> FALSE, onError |-> FALSE, handler |-> "none"]

Init ==
  /\ EngineInit
  /\ config = Inactive /\ outputDir = FALSE /\ hook = FALSE
  /\ stack = [t \in Threads |-> <<>>]
  /\ launch = [l \in Launches |-> Idle]
  /\ exported = {}

(* --------------------------- the application -------------------------------- *)

\* activate(output_dir, export_on_error, export_handler): a handler may raise.
Activate(to) ==
  /\ outputDir' = to.dir
  /\ config' = [enabled |-> TRUE, onError |-> to.onError, handler |-> to.handler]
  /\ hook' = TRUE
  /\ UNCHANGED <<engineVars, stack, launch, exported>>

Deactivate ==
  /\ config' = Inactive
  /\ hook' = FALSE
  /\ UNCHANGED <<engineVars, outputDir, stack, launch, exported>>

\* configure(output_dir=...) and reset_config(): the active configuration stays.
Configure(dir) ==
  /\ outputDir' = dir
  /\ UNCHANGED <<engineVars, config, hook, stack, launch, exported>>

(* ------------------------------ one launch ---------------------------------- *)

Inner(l) == Head(stack[launch[l].thread]) = l
Kernel(l) == launch[l].kernel

\* prepare_kernel_launch() and the handle's constructor refuse the launch: the
\* hook is gone, a full dump has no directory or more records than capacity.
Refused(k) ==
  k.hidden /\ (~hook \/ (k.full /\ (~outputDir \/ ~k.fits)))

\* launch_context() is entered and the launch prepared; the process aborts when the
\* adapter is not ready, and its behaviour ends.  A kernel without the hidden
\* argument gets a finalizer too, when it or the debugger is enabled.
Enter(l, t, k) ==
  /\ launch[l].pc = "idle"
  /\ k.hidden /\ ~Refused(k) => AdapterReady(t)
  /\ IF Refused(k)
     THEN /\ launch' = [launch EXCEPT ![l] =
               [Idle EXCEPT !.pc = "done", !.thread = t, !.kernel = k,
                            !.outcome = "refused"]]
          /\ UNCHANGED <<engineVars, stack>>
     ELSE /\ launch' = [launch EXCEPT ![l] =
               [Idle EXCEPT !.pc = "body", !.thread = t, !.kernel = k,
                            !.handle = k.debug \/ config.enabled]]
          /\ stack' = [stack EXCEPT ![t] = <<l>> \o @]
          /\ IF k.hidden THEN PrepareBuffer(t, l, k.device)
             ELSE UNCHANGED engineVars
  /\ UNCHANGED <<pyVars, exported>>

\* The launch itself: the kernel is enqueued on its stream, and the launcher (or
\* an exit hook of it) may raise before or after that.
Body(l, enqueued, raises) ==
  /\ launch[l].pc = "body" /\ Inner(l)
  /\ ~enqueued => raises
  /\ launch' = [launch EXCEPT ![l].pc = IF raises THEN "finalize" ELSE "sync",
                              ![l].ran = enqueued, ![l].raised = raises]
  /\ IF enqueued /\ Kernel(l).hidden
     THEN SetGpu(Queued(Gpu, Kernel(l).stream, [kind |-> "kernel", launch |-> l]))
     ELSE UNCHANGED <<memory, pending>>
  /\ UNCHANGED <<driver, library, current, caller, primary, adapter, pyVars, stack,
                 exported>>

\* After a launch of the hidden argument the whole device is synchronised, except
\* on MACA and CUDA; there is no adapter for the backends on the host driver.
Synchronize(l) ==
  /\ launch[l].pc = "sync" /\ Inner(l)
  /\ launch' = [launch EXCEPT ![l].pc = "finalize",
                  ![l].raised = Kernel(l).hidden /\ driver = "host"]
  /\ IF Kernel(l).hidden /\ driver \in {"cann", "corex", "tops", "musa"}
     THEN SetGpu(DrainedAll(Gpu)) ELSE UNCHANGED <<memory, pending>>
  /\ UNCHANGED <<driver, library, current, caller, primary, adapter, pyVars, stack,
                 exported>>

Leave(l, outcome) ==
  /\ launch' = [launch EXCEPT ![l].pc = "done", ![l].outcome = outcome]
  /\ stack' = [stack EXCEPT ![launch[l].thread] = Tail(@)]

\* The finalizer begins: export_on_error of the configuration of that moment
\* decides whether a failed launch is exported or only released.
Finalize(l) ==
  LET dropped == launch[l].raised /\ ~config.onError IN
  /\ launch[l].pc = "finalize" /\ Inner(l)
  /\ IF ~launch[l].handle \/ dropped
     THEN /\ Leave(l, IF launch[l].raised THEN "raised" ELSE "returned")
          /\ IF launch[l].handle /\ Kernel(l).hidden
             THEN ReleaseBuffer(launch[l].thread, l, Gpu)
             ELSE UNCHANGED engineVars
     ELSE /\ UNCHANGED stack
          /\ IF ~Kernel(l).hidden
             THEN /\ launch' = [launch EXCEPT ![l].pc = "deliver"]
                  /\ UNCHANGED engineVars
             ELSE LET g == Exported(Gpu, Kernel(l).stream, l) IN
                  /\ launch' = [launch EXCEPT ![l].pc = "deliver",
                                              ![l].data = g.memory[l].host]
                  /\ ReleaseBuffer(launch[l].thread, l, g)
  /\ UNCHANGED <<pyVars, exported>>

\* The reports are written and the run appended, then the handler is called: a
\* full dump fails without a directory, and a handler that raises comes too late.
\* (Faulty variant: without a directory the run is skipped.)
DeliverQuietly(l) ==
  /\ launch[l].pc = "deliver" /\ Inner(l)
  /\ exported' = IF outputDir THEN exported \cup {l} ELSE exported
  /\ Leave(l, IF launch[l].raised THEN "raised" ELSE "returned")
  /\ UNCHANGED <<engineVars, pyVars>>
Deliver(l) ==
  /\ launch[l].pc = "deliver" /\ Inner(l)
  /\ IF Kernel(l).full /\ ~outputDir
     THEN Leave(l, "raised") /\ UNCHANGED exported
     ELSE /\ exported' = exported \cup {l}
          /\ Leave(l, IF launch[l].raised \/ config.handler = "raises"
                      THEN "raised" ELSE "returned")
  /\ UNCHANGED <<engineVars, pyVars>>

Step(l) ==
  \/ \E t \in Threads, k \in Kernels : Enter(l, t, k)
  \/ \E enqueued, raises \in BOOLEAN : Body(l, enqueued, raises)
  \/ Synchronize(l) \/ Finalize(l) \/ Deliver(l)

Application ==
  \/ \E to \in Settings : Activate(to)
  \/ Deactivate
  \/ \E dir \in BOOLEAN : Configure(dir)

Next ==
  \/ Application
  \/ \E l \in Launches : Step(l)
  \/ \E s \in Streams : StreamStep(s) /\ UNCHANGED <<pyVars, stack, launch, exported>>

Spec == Init /\ [][Next]_vars

(* ------------------------------- properties --------------------------------- *)

TypeOK ==
  /\ EngineTypeOK
  /\ config \in [enabled : BOOLEAN, onError : BOOLEAN, handler : {"none", "raises"}]
  /\ outputDir \in BOOLEAN /\ hook \in BOOLEAN
  /\ exported \subseteq Launches

\* A run copied back from the device holds what its own kernel wrote after the
\* header was in place: copies, kernel and header are ordered on every driver that
\* has a device.  A failed launch is not synchronised, so there the drivers whose
\* copies do not wait for the launch's stream are left out; a launch that raised
\* before its kernel was enqueued exports the bare header.
ExportsComplete ==
  \A l \in Launches :
    /\ launch[l].data # "none" /\ driver # "host"
    /\ launch[l].raised => driver # "cann" /\ library # "synchronous"
    => launch[l].data = IF launch[l].ran THEN "written" ELSE "header"

\* No run is lost in silence: a launch that was given a finalizer and returned to
\* its caller without an exception has appended its run.
NoSilentLoss ==
  \A l \in Launches : launch[l].outcome = "returned" /\ launch[l].handle =>
    l \in exported

\* Whatever path a launch takes out of its context, its buffers are freed and its
\* adapter is gone.
NothingLeaks ==
  \A l \in Launches : launch[l].pc \in {"deliver", "done"} =>
    memory[l] = NoBuffer /\ adapter[l] = NoAdapter

\* An engine does not leave its context behind: once a thread's launches are over,
\* on the drivers that retain and restore primary contexts the thread's current
\* context is the application's again, and with no launch open nothing is retained.
ContextsRestored ==
  /\ driver \in {"corex", "cuda"} => \A t \in Threads :
       (\A l \in Launches : adapter[l].captured => launch[l].thread # t)
         => current[t] = caller[t]
  /\ (\A t \in Threads : stack[t] = <<>>) => \A d \in Devices : primary[d] = 0
===============================================================================
