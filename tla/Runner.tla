-------------------------------- MODULE Runner --------------------------------
(***************************************************************************)
(* The life of the firmware: main, runner_init and run_model, step by step *)
(* with every exit they have, the objects they create and destroy, and the *)
(* NPU that executes the delegated part of an inference and answers with   *)
(* an interrupt.  Linux may stop and start the core at any moment.         *)
(*                                                                         *)
(* The runtime library, the NPU driver and the NPU are outside the         *)
(* repository; they answer in every way the code provides for.             *)
(***************************************************************************)
EXTENDS Naturals

CONSTANTS
  NumInferences,   \* num_inferences, ET_NUM_INFERENCES or 1
  TempPool,        \* temp_allocation_pool_size
  TempNeeds,       \* what an inference may allocate from it
  Jobs,            \* NPU jobs of one inference
  Bundled          \* {TRUE, FALSE}: whether ctx.bundle_io may be set

ASSUME CountAssumption ==
  /\ NumInferences \in Nat /\ Jobs \in Nat \ {0}
  /\ TempPool \in Nat /\ TempNeeds \subseteq Nat
  /\ Bundled \subseteq BOOLEAN

VARIABLES
  pc,              \* where main is
  bundle_io,       \* ctx.bundle_io
  driver,          \* ethosu_drv: "none", "ready" or "failed"
  nvic,            \* ML_IRQn is enabled
  npu,             \* "idle", "busy", or "raised": its interrupt line is up
  npuBoot,         \* the boot the NPU works for: "this" or "earlier"
  semaphore,       \* completions given by the interrupt handler, not yet taken
  fault,           \* a fault handler spins
  live,            \* objects local to runner_init that exist
  meta_ok, method, \* Results: method_meta's, and ctx.method's
  temp,            \* bytes allocated from ctx.temp_allocator
  n, status,       \* run_model's n and status
  jobs,            \* NPU jobs left in the inference under way
  npu_ok,          \* the last job ended without error
  ran,             \* inferences that ended with Error::Ok
  model_ok         \* run_model's result

vars == <<pc, bundle_io, driver, nvic, npu, npuBoot, semaphore, fault, live,
          meta_ok, method, temp, n, status, jobs, npu_ok, ran, model_ok>>
board == <<driver, nvic, npu, npuBoot, semaphore, fault>>
ctx   == <<bundle_io, live, meta_ok, method, temp>>
run   == <<n, status, jobs, npu_ok, ran, model_ok>>

\* et_pal_abort and the loop after a failed Program::load, both __WFE forever;
\* and the return from main.
Halted == {"abort", "hang", "returned"}

Locals == {"loader", "program", "planned_spans", "planned_memory",
           "memory_manager"}

Start ==
  /\ pc = "boot" /\ driver = "none" /\ nvic = FALSE
  /\ semaphore = 0 /\ fault = FALSE /\ live = {}
  /\ meta_ok = FALSE /\ method = "none" /\ temp = 0
  /\ n = 0 /\ status = "Ok" /\ jobs = 0 /\ npu_ok = TRUE /\ ran = 0
  /\ model_ok = FALSE

Init == Start /\ bundle_io \in Bundled /\ npu = "idle" /\ npuBoot = "this"

At(l) == pc = l /\ ~fault

\* ET_CHECK, ET_CHECK_MSG and Result::CheckOk: the check passes or it aborts.
Check(ok, next) == pc' = IF ok THEN next ELSE "abort"

-----------------------------------------------------------------------------
(* main up to runner_init *)

\* Mutant: ethosu_init leaves the NPU as it is.
EthosuInit_NoReset ==
  /\ At("boot")
  /\ driver' \in {"ready", "failed"}
  /\ pc' = "nvic"
  /\ UNCHANGED <<nvic, npu, npuBoot, semaphore, fault, ctx, run>>

\* copyResourceTable, then ethosu_init.  A failure is logged and main goes on.
\* A successful ethosu_init has reset the NPU, whatever it was doing.
EthosuInit ==
  /\ At("boot")
  /\ \/ driver' = "ready" /\ npu' = "idle" /\ npuBoot' = "this"
     \/ driver' = "failed" /\ UNCHANGED <<npu, npuBoot>>
  /\ pc' = "nvic"
  /\ UNCHANGED <<nvic, semaphore, fault, ctx, run>>

\* Mutant: the interrupt stays disabled.
EnableNpuIrq_Forgotten ==
  /\ At("nvic")
  /\ pc' = "bundle"
  /\ UNCHANGED <<board, ctx, run>>

EnableNpuIrq ==
  /\ At("nvic")
  /\ nvic' = TRUE
  /\ pc' = "bundle"
  /\ UNCHANGED <<driver, npu, npuBoot, semaphore, fault, ctx, run>>

-----------------------------------------------------------------------------
(* runner_init *)

\* get_program_data of a bundled program, checked.
GetProgramData ==
  /\ At("bundle")
  /\ \E ok \in BOOLEAN : Check(bundle_io => ok, "program")
  /\ UNCHANGED <<board, ctx, run>>

\* BufferDataLoader and Program::load; without a program, wait forever.
LoadProgram ==
  /\ At("program")
  /\ live' = live \cup {"loader", "program"}
  /\ pc' \in {"name", "hang"}
  /\ UNCHANGED <<board, bundle_io, meta_ok, method, temp, run>>

\* get_method_name(0), checked, and method_meta, whose failure is only logged.
FindMethod ==
  /\ At("name")
  /\ \E ok \in BOOLEAN : Check(ok, "pools")
  /\ meta_ok' \in BOOLEAN
  /\ UNCHANGED <<board, bundle_io, live, method, temp, run>>

\* Set up the pools and place the planned buffers (see PlannedBuffers).  The
\* first use of method_meta aborts if it is an error.
SetUpMemory ==
  /\ At("pools")
  /\ \E fits \in BOOLEAN : Check(meta_ok /\ fits, "load")
  /\ IF pc' = "abort" THEN UNCHANGED <<live, temp>>
     ELSE live' = Locals /\ temp' = 0
  /\ UNCHANGED <<board, bundle_io, meta_ok, method, run>>

\* program->load_method: a failure is only logged.
LoadMethod ==
  /\ At("load")
  /\ method' \in {"loaded", "error"}
  /\ pc' = "inputs"
  /\ UNCHANGED <<board, bundle_io, live, meta_ok, temp, run>>

\* Mutant: the Result of load_method is never looked at.
PrepareInputs_Unchecked ==
  /\ At("inputs")
  /\ \E ok \in BOOLEAN : Check(ok, "run")
  /\ live' = IF pc' = "abort" THEN live ELSE {}
  /\ UNCHANGED <<board, bundle_io, meta_ok, method, temp, run>>

\* load_bundled_input or prepare_input_tensors, both checked, on the value of
\* ctx.method, which aborts if the method did not load; then the return from
\* runner_init destroys its locals, unlike ctx.method.
PrepareInputs ==
  /\ At("inputs")
  /\ \E ok \in BOOLEAN : Check(method = "loaded" /\ ok, "run")
  /\ live' = IF pc' = "abort" THEN live ELSE {}
  /\ UNCHANGED <<board, bundle_io, meta_ok, method, temp, run>>

-----------------------------------------------------------------------------
(* run_model *)

\* After the trace reset.  status is not initialised: it holds anything.
StartRun ==
  /\ At("run")
  /\ n' = 0
  /\ status' \in {"Ok", "Error"}
  /\ pc' = "loop"
  /\ UNCHANGED <<board, ctx, jobs, npu_ok, ran, model_ok>>

\* Mutant: one inference too many.
Execute_OneMore ==
  /\ At("loop") /\ n <= NumInferences
  /\ \E need \in TempNeeds :
       IF temp + need <= TempPool
       THEN temp' = temp + need /\ jobs' = Jobs /\ pc' = "invoke"
            /\ UNCHANGED status
       ELSE status' = "Error" /\ pc' = "executed" /\ UNCHANGED <<temp, jobs>>
  /\ UNCHANGED <<board, bundle_io, live, meta_ok, method, n, npu_ok, ran, model_ok>>

\* The loop condition, and the call of execute(): kernels and the delegate take
\* scratch memory, which may fail.
Execute ==
  /\ At("loop") /\ n < NumInferences
  /\ \E need \in TempNeeds :
       IF temp + need <= TempPool
       THEN temp' = temp + need /\ jobs' = Jobs /\ pc' = "invoke"
            /\ UNCHANGED status
       ELSE status' = "Error" /\ pc' = "executed" /\ UNCHANGED <<temp, jobs>>
  /\ UNCHANGED <<board, bundle_io, live, meta_ok, method, n, npu_ok, ran, model_ok>>

\* The delegate starts a job on the NPU.  Without a driver there is none to
\* reserve: the delegate reports an error or waits forever.
Invoke ==
  /\ At("invoke") /\ jobs > 0
  /\ IF driver = "ready"
     THEN npu' = "busy" /\ pc' = "wait" /\ UNCHANGED status
     ELSE UNCHANGED npu /\ \/ pc' = "wait" /\ UNCHANGED status
                           \/ pc' = "executed" /\ status' = "Error"
  /\ UNCHANGED <<driver, nvic, npuBoot, semaphore, fault, ctx, n, jobs, npu_ok,
                 ran, model_ok>>

\* The driver takes the semaphore and looks at the result of the job.
Wait ==
  /\ At("wait") /\ semaphore > 0
  /\ semaphore' = semaphore - 1
  /\ jobs' = jobs - 1
  /\ IF npu_ok THEN pc' = "invoke" /\ UNCHANGED status
               ELSE pc' = "executed" /\ status' = "Error"
  /\ UNCHANGED <<driver, nvic, npu, npuBoot, fault, ctx, n, npu_ok, ran, model_ok>>

\* The rest of the method runs on the CPU; any kernel may fail.
Kernels ==
  /\ At("invoke") /\ jobs = 0
  /\ status' \in {"Ok", "Error"}
  /\ pc' = "executed"
  /\ UNCHANGED <<board, ctx, n, jobs, npu_ok, ran, model_ok>>

\* Mutant: the scratch memory is not given back.
EndInference_NoReset ==
  /\ At("executed")
  /\ IF status = "Ok"
     THEN n' = n + 1 /\ ran' = ran + 1 /\ pc' = "loop"
     ELSE pc' = "check" /\ UNCHANGED <<n, ran>>
  /\ UNCHANGED <<board, ctx, status, jobs, npu_ok, model_ok>>

\* An error leaves the loop; success resets temp_allocator and goes round.
EndInference ==
  /\ At("executed")
  /\ IF status = "Ok"
     THEN temp' = 0 /\ n' = n + 1 /\ ran' = ran + 1 /\ pc' = "loop"
     ELSE pc' = "check" /\ UNCHANGED <<temp, n, ran>>
  /\ UNCHANGED <<board, bundle_io, live, meta_ok, method, status, jobs, npu_ok, model_ok>>

\* Mutant: the loop may end early.
EndLoop_Early ==
  /\ At("loop")
  /\ pc' = "check"
  /\ UNCHANGED <<board, ctx, run>>

EndLoop ==
  /\ At("loop") /\ n >= NumInferences
  /\ pc' = "check"
  /\ UNCHANGED <<board, ctx, run>>

\* ET_CHECK_MSG(status == Error::Ok), then print_outputs checks get_outputs.
CheckStatus ==
  /\ At("check")
  /\ \E ok \in BOOLEAN : Check(status = "Ok" /\ ok, "verify")
  /\ UNCHANGED <<board, ctx, run>>

\* verify_result: only a bundled program has references to compare with.
verify_result ==
  /\ At("verify")
  /\ model_ok' \in IF bundle_io THEN BOOLEAN ELSE {TRUE}
  /\ pc' = "report"
  /\ UNCHANGED <<board, ctx, n, status, jobs, npu_ok, ran>>

\* log_mem_status, write_etdump, the last check and the return from main.
Finish ==
  /\ At("report")
  /\ Check(model_ok, "returned")
  /\ UNCHANGED <<board, ctx, run>>

-----------------------------------------------------------------------------
(* The NPU, its interrupt, and Linux *)

NpuDone == npu = "busy" /\ npu' = "raised"
           /\ npu_ok' \in BOOLEAN
           /\ UNCHANGED <<pc, driver, nvic, npuBoot, semaphore, fault, ctx, n,
                          status, jobs, ran, model_ok>>

\* Reserved194_IRQHandler.  On a driver that ethosu_init did not set up,
\* ethosu_irq_handler follows null pointers: it faults or does nothing of use.
NpuIrq ==
  /\ npu = "raised" /\ nvic /\ ~fault
  /\ npu' = "idle"
  /\ IF driver = "ready" THEN semaphore' = semaphore + 1 /\ UNCHANGED fault
     ELSE fault' \in BOOLEAN /\ UNCHANGED semaphore
  /\ UNCHANGED <<pc, driver, nvic, npuBoot, ctx, run>>

\* echo stop, echo start: the core starts again, the NPU goes on.
Restart ==
  /\ pc # "boot"
  /\ pc' = "boot" /\ driver' = "none" /\ nvic' = FALSE
  /\ semaphore' = 0 /\ fault' = FALSE /\ live' = {}
  /\ meta_ok' = FALSE /\ method' = "none" /\ temp' = 0
  /\ n' = 0 /\ status' = "Ok" /\ jobs' = 0 /\ npu_ok' = TRUE /\ ran' = 0
  /\ model_ok' = FALSE
  /\ npuBoot' = IF npu = "idle" THEN npuBoot ELSE "earlier"
  /\ UNCHANGED npu
  /\ bundle_io' \in Bundled

Main == \/ EthosuInit \/ EnableNpuIrq \/ GetProgramData \/ LoadProgram
        \/ FindMethod \/ SetUpMemory \/ LoadMethod \/ PrepareInputs
        \/ StartRun \/ Execute \/ Invoke \/ Wait \/ Kernels \/ EndInference
        \/ EndLoop \/ CheckStatus \/ verify_result \/ Finish

Next == Main \/ NpuDone \/ NpuIrq \/ Restart

\* The core executes main, the NPU ends the jobs it was given and an enabled
\* interrupt is taken; nothing obliges Linux to restart the core.
Fairness == WF_vars(Main) /\ WF_vars(NpuDone) /\ WF_vars(NpuIrq)

Spec == Init /\ [][Next]_vars /\ Fairness

-----------------------------------------------------------------------------
(* Properties *)

InitLabels == {"boot", "nvic", "bundle", "program", "name", "pools", "load",
               "inputs"}
RunLabels  == {"run", "loop", "invoke", "wait", "executed", "check", "verify",
               "report"}

TypeOK ==
  /\ pc \in InitLabels \cup RunLabels \cup Halted
  /\ bundle_io \in Bundled /\ driver \in {"none", "ready", "failed"}
  /\ nvic \in BOOLEAN /\ npu \in {"idle", "busy", "raised"}
  /\ npuBoot \in {"this", "earlier"} /\ semaphore \in 0..1 /\ fault \in BOOLEAN
  /\ live \subseteq Locals /\ meta_ok \in BOOLEAN
  /\ method \in {"none", "loaded", "error"} /\ temp \in 0..TempPool
  /\ n \in 0..NumInferences /\ ran \in 0..NumInferences
  /\ status \in {"Ok", "Error"} /\ jobs \in 0..Jobs
  /\ npu_ok \in BOOLEAN /\ model_ok \in BOOLEAN

\* Two calls of load_method or method_meta may fail and only log: main still
\* never uses a method that is not there, and gets past it to the inferences
\* and the outputs with a loaded method only.
OnlyLoadedMethodRuns == pc \in RunLabels \cup {"returned"} => method = "loaded" /\ meta_ok

\* Each inference starts with all of the scratch pool: NumInferences of them
\* fit whenever one does.
ScratchIsFresh == pc = "loop" => temp = 0

\* A completion main waits for is that of the job it started, not of one an
\* earlier boot left running on the NPU.
CompletionIsOurs ==
  /\ semaphore > 0 => npuBoot = "this" /\ pc = "wait"
  /\ pc = "wait" /\ driver = "ready" => npu # "idle" \/ semaphore = 1

\* An inference that starts with a working driver comes to an end.
InferenceEnds ==
  (pc = "invoke" /\ driver = "ready") ~> (pc \in Halted \cup {"boot"})

\* "Must outlive the Method": what load_method was given exists as long as
\* ctx.method is used.
MethodOutlived ==
  pc \in {"inputs"} \cup RunLabels /\ method = "loaded" =>
    {"program", "planned_memory", "memory_manager"} \subseteq live
=============================================================================
