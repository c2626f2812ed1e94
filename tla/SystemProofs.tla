------------------------------ MODULE SystemProofs ------------------------------
(***************************************************************************)
(* Proofs about System, and so about Runner: for any number of inferences  *)
(* and jobs, any pools and any interleaving with the NPU and Linux, what   *)
(* runs was loaded, a completion is that of this boot's job, the verdicts  *)
(* in the trace are true, and the firmware is a session.                   *)
(***************************************************************************)
EXTENDS System, Integers, TLAPS

-----------------------------------------------------------------------------
(* The inductive invariant of the lifecycle *)

\* The NPU, once ethosu_init has reset it, works or has completed for main
\* exactly while main waits; the interrupt handler counts for nobody else.
NpuWaitedFor ==
  /\ driver = "ready" => npuBoot = "this"
  /\ driver = "ready" /\ (npu # "idle" \/ semaphore # 0) => pc = "wait"
  /\ driver = "ready" /\ pc = "wait" => (npu # "idle" <=> semaphore = 0)
  /\ semaphore # 0 => driver = "ready"

\* The results of method_meta and load_method by the time they are used.
Loaded ==
  /\ pc \in {"load", "inputs"} \cup RunLabels \cup {"returned"} => meta_ok
  /\ pc \in InitLabels \ {"inputs"} => method = "none"
  /\ pc \in RunLabels \cup {"returned"} => method = "loaded"

\* No scratch memory is in use before the first inference and between two.
ScratchFree == pc \in InitLabels \cup {"run", "loop"} => temp = 0

\* How many inferences have succeeded at each point of run_model.
Counted ==
  /\ pc \in InitLabels \cup {"run"} => ran = 0
  /\ pc \in {"loop", "invoke", "wait", "executed"} => ran = n
  /\ pc \in {"invoke", "wait", "executed"} => n < NumInferences
  /\ pc = "wait" => jobs > 0
  /\ pc = "check" /\ status = "Ok" => ran = NumInferences
  /\ pc \in {"verify", "report", "returned"} => ran = NumInferences /\ status = "Ok"
  /\ pc = "returned" => model_ok

\* A job that ended, and so an inference that succeeded, had a driver.
OnDriver ==
  /\ ran > 0 => driver = "ready"
  /\ pc = "invoke" /\ jobs < Jobs => driver = "ready"
  /\ pc = "executed" /\ status = "Ok" => driver = "ready"

RInv == TypeOK /\ NpuWaitedFor /\ Loaded /\ ScratchFree /\ Counted /\ OnDriver

\* The verdicts are true, and "finished" only follows the loop.
TraceTrue ==
  /\ pc # "boot" /\ "finished" \in shown =>
       ran = NumInferences /\ pc \in {"verify", "report", "returned", "abort"}
  /\ ReportIsTrue

planned == IF ddr THEN 0 ELSE planned_buffer_memsize

\* The use of the pool, accounted for at each point of runner_init.
Accounted ==
  /\ used \in Nat /\ planned \in Nat /\ method_loaded_memsize \in Nat
  /\ input_memsize \in Nat
  /\ used <= PoolSize
  /\ pc = "load" => used = planned
  /\ pc = "inputs" => used = planned + method_loaded_memsize
  /\ pc \in RunLabels =>
       executor_membase = planned + method_loaded_memsize + input_memsize

\* The profile is dumped once, at the end.
Dumped ==
  /\ pc \in InitLabels \cup RunLabels => dump = NoDump
  /\ debug_buffer = "set" => build = "outputs"
  /\ dump.high <= dump.size
  /\ "outputs" \in dump.printed => debug_buffer = "set"

SInv == RInv /\ TraceTrue /\ Accounted /\ Dumped

-----------------------------------------------------------------------------
(* Runner keeps it *)

\* The initial states of Runner.
LEMMA InitRInv == Init => RInv
<1> SUFFICES ASSUME Init PROVE RInv
  OBVIOUS
<1> USE CountAssumption DEF Init, Start
<1>1. TypeOK
  <2>1. semaphore \in 0..1 /\ temp \in 0..TempPool /\ n \in 0..NumInferences
        /\ ran \in 0..NumInferences /\ jobs \in 0..Jobs
    OBVIOUS
  <2>2. nvic \in BOOLEAN /\ fault \in BOOLEAN /\ meta_ok \in BOOLEAN
        /\ npu_ok \in BOOLEAN /\ model_ok \in BOOLEAN /\ bundle_io \in Bundled
    BY Zenon
  <2>3. pc \in InitLabels /\ live \subseteq Locals /\ status \in {"Ok", "Error"}
        /\ driver \in {"none", "ready", "failed"} /\ npu \in {"idle", "busy", "raised"}
        /\ npuBoot \in {"this", "earlier"} /\ method \in {"none", "loaded", "error"}
    BY DEF InitLabels
  <2> QED
    BY <2>1, <2>2, <2>3 DEF TypeOK
<1>2. NpuWaitedFor
  BY DEF NpuWaitedFor
<1>3. Loaded
  BY DEF Loaded, InitLabels, RunLabels
<1>4. ScratchFree /\ Counted
  BY DEF ScratchFree, Counted, InitLabels
<1>5. OnDriver
  BY DEF OnDriver
<1> QED
  BY <1>1, <1>2, <1>3, <1>4, <1>5 DEF RInv

\* Types.
LEMMA NextTypes == RInv /\ [Next]_vars => TypeOK'
<1> SUFFICES ASSUME RInv, [Next]_vars PROVE TypeOK'
  OBVIOUS
<1> USE CountAssumption DEF RInv, TypeOK, At, board, ctx, run, Check, InitLabels, RunLabels, Halted
<1>1. CASE EthosuInit \/ GetProgramData
  BY <1>1 DEF EthosuInit, GetProgramData
<1>13. CASE EnableNpuIrq
  BY <1>13 DEF EnableNpuIrq
<1>14. CASE LoadProgram
  <2>1. live' \subseteq Locals
    BY <1>14 DEF LoadProgram, Locals
  <2> QED
    BY <1>14, <2>1 DEF LoadProgram
<1>2. CASE FindMethod \/ SetUpMemory \/ LoadMethod \/ PrepareInputs
  BY <1>2 DEF FindMethod, SetUpMemory, LoadMethod, PrepareInputs
<1>3. CASE StartRun
  BY <1>3 DEF StartRun
<1>4. CASE Execute
  BY <1>4 DEF Execute
<1>5. CASE Invoke
  BY <1>5 DEF Invoke
<1>6. CASE Wait
  <2>1. semaphore' \in 0..1 /\ jobs' \in 0..Jobs
    BY <1>6 DEF Wait, Counted
  <2> QED
    BY <1>6, <2>1 DEF Wait
<1>7. CASE Kernels \/ EndLoop \/ CheckStatus \/ Finish
  BY <1>7 DEF Kernels, EndLoop, CheckStatus, Finish
<1>15. CASE verify_result
  <2>1. model_ok' \in BOOLEAN
    BY <1>15 DEF verify_result
  <2> QED
    BY <1>15, <2>1 DEF verify_result
<1>8. CASE EndInference
  BY <1>8 DEF EndInference, Counted
<1>9. CASE NpuDone
  BY <1>9 DEF NpuDone
<1>10. CASE NpuIrq
  BY <1>10 DEF NpuIrq, NpuWaitedFor
<1>11. CASE Restart
  <2>1. semaphore' \in 0..1 /\ temp' \in 0..TempPool /\ n' \in 0..NumInferences
        /\ ran' \in 0..NumInferences /\ jobs' \in 0..Jobs
    BY <1>11 DEF Restart
  <2>2. nvic' \in BOOLEAN /\ fault' \in BOOLEAN /\ meta_ok' \in BOOLEAN
        /\ npu_ok' \in BOOLEAN /\ model_ok' \in BOOLEAN /\ bundle_io' \in Bundled
    BY <1>11, Zenon DEF Restart
  <2>3. pc' \in InitLabels /\ live' \subseteq Locals /\ status' \in {"Ok", "Error"}
        /\ driver' \in {"none", "ready", "failed"} /\ npu' \in {"idle", "busy", "raised"}
        /\ npuBoot' \in {"this", "earlier"} /\ method' \in {"none", "loaded", "error"}
    BY <1>11 DEF Restart
  <2> QED
    BY <2>1, <2>2, <2>3
<1>12. CASE UNCHANGED vars
  BY <1>12 DEF vars
<1> QED
  BY <1>1, <1>2, <1>3, <1>4, <1>5, <1>6, <1>7, <1>8, <1>9, <1>10, <1>11, <1>12,
     <1>13, <1>14, <1>15
  DEF Next, Main

\* Who waits for the NPU.
LEMMA NextNpu == RInv /\ [Next]_vars => NpuWaitedFor'
<1> SUFFICES ASSUME RInv, [Next]_vars PROVE NpuWaitedFor'
  OBVIOUS
<1> USE CountAssumption DEF RInv, TypeOK, At, board, ctx, run, Check, InitLabels, RunLabels, Halted,
        NpuWaitedFor
<1>1. CASE EthosuInit
  BY <1>1 DEF EthosuInit
<1>2. CASE EnableNpuIrq \/ GetProgramData \/ LoadProgram
  BY <1>2 DEF EnableNpuIrq, GetProgramData, LoadProgram
<1>3. CASE FindMethod \/ SetUpMemory \/ LoadMethod \/ PrepareInputs
  BY <1>3 DEF FindMethod, SetUpMemory, LoadMethod, PrepareInputs
<1>4. CASE StartRun \/ Execute
  BY <1>4 DEF StartRun, Execute
<1>5. CASE Invoke
  BY <1>5 DEF Invoke
<1>6. CASE Wait
  BY <1>6 DEF Wait
<1>7. CASE Kernels \/ EndInference \/ EndLoop
  BY <1>7 DEF Kernels, EndInference, EndLoop
<1>8. CASE CheckStatus \/ verify_result \/ Finish
  BY <1>8 DEF CheckStatus, verify_result, Finish
<1>9. CASE NpuDone
  BY <1>9 DEF NpuDone
<1>10. CASE NpuIrq
  BY <1>10 DEF NpuIrq
<1>11. CASE Restart
  BY <1>11 DEF Restart
<1>12. CASE UNCHANGED vars
  BY <1>12 DEF vars
<1> QED
  BY <1>1, <1>2, <1>3, <1>4, <1>5, <1>6, <1>7, <1>8, <1>9, <1>10, <1>11, <1>12 DEF Next, Main

\* What was loaded, and that scratch memory is given back.
LEMMA NextLoaded == RInv /\ [Next]_vars => Loaded' /\ ScratchFree'
<1> SUFFICES ASSUME RInv, [Next]_vars PROVE Loaded' /\ ScratchFree'
  OBVIOUS
<1> USE CountAssumption DEF RInv, TypeOK, At, board, ctx, run, Check, InitLabels, RunLabels, Halted,
        Loaded, ScratchFree
<1>1. CASE EthosuInit \/ EnableNpuIrq
  BY <1>1 DEF EthosuInit, EnableNpuIrq
<1>2. CASE GetProgramData \/ LoadProgram
  BY <1>2 DEF GetProgramData, LoadProgram
<1>3. CASE FindMethod
  BY <1>3 DEF FindMethod
<1>4. CASE SetUpMemory
  BY <1>4 DEF SetUpMemory
<1>5. CASE LoadMethod
  BY <1>5 DEF LoadMethod
<1>6. CASE PrepareInputs
  BY <1>6 DEF PrepareInputs
<1>7. CASE StartRun
  BY <1>7 DEF StartRun
<1>8. CASE Execute
  BY <1>8 DEF Execute
<1>9. CASE Invoke
  BY <1>9 DEF Invoke
<1>10. CASE Wait
  BY <1>10 DEF Wait
<1>11. CASE Kernels
  BY <1>11 DEF Kernels
<1>12. CASE EndInference
  BY <1>12 DEF EndInference
<1>13. CASE EndLoop \/ CheckStatus
  BY <1>13 DEF EndLoop, CheckStatus
<1>14. CASE verify_result \/ Finish
  BY <1>14 DEF verify_result, Finish
<1>15. CASE NpuDone
  BY <1>15 DEF NpuDone
<1>16. CASE NpuIrq
  BY <1>16 DEF NpuIrq
<1>17. CASE Restart
  BY <1>17 DEF Restart
<1>18. CASE UNCHANGED vars
  BY <1>18 DEF vars
<1> QED
  BY <1>1, <1>2, <1>3, <1>4, <1>5, <1>6, <1>7, <1>8, <1>9, <1>10, <1>11, <1>12,
     <1>13, <1>14, <1>15, <1>16, <1>17, <1>18
  DEF Next, Main

\* The count of inferences.
LEMMA NextCounted == RInv /\ [Next]_vars => Counted'
<1> SUFFICES ASSUME RInv, [Next]_vars PROVE Counted'
  OBVIOUS
<1> USE CountAssumption DEF RInv, TypeOK, At, board, ctx, run, Check, InitLabels, RunLabels, Halted, Counted
<1>1. CASE EthosuInit \/ EnableNpuIrq
  BY <1>1 DEF EthosuInit, EnableNpuIrq
<1>2. CASE GetProgramData \/ LoadProgram
  BY <1>2 DEF GetProgramData, LoadProgram
<1>3. CASE FindMethod \/ SetUpMemory
  BY <1>3 DEF FindMethod, SetUpMemory
<1>4. CASE LoadMethod \/ PrepareInputs
  BY <1>4 DEF LoadMethod, PrepareInputs
<1>5. CASE StartRun
  BY <1>5 DEF StartRun
<1>6. CASE Execute
  BY <1>6 DEF Execute
<1>7. CASE Invoke
  BY <1>7 DEF Invoke
<1>8. CASE Wait
  BY <1>8 DEF Wait
<1>9. CASE Kernels
  BY <1>9 DEF Kernels
<1>10. CASE EndInference
  BY <1>10 DEF EndInference
<1>11. CASE EndLoop
  BY <1>11 DEF EndLoop
<1>12. CASE CheckStatus
  BY <1>12 DEF CheckStatus
<1>13. CASE verify_result
  BY <1>13 DEF verify_result
<1>14. CASE Finish
  BY <1>14 DEF Finish
<1>15. CASE NpuDone
  BY <1>15 DEF NpuDone
<1>16. CASE NpuIrq
  BY <1>16 DEF NpuIrq
<1>17. CASE Restart
  BY <1>17 DEF Restart
<1>18. CASE UNCHANGED vars
  BY <1>18 DEF vars
<1> QED
  BY <1>1, <1>2, <1>3, <1>4, <1>5, <1>6, <1>7, <1>8, <1>9, <1>10, <1>11, <1>12,
     <1>13, <1>14, <1>15, <1>16, <1>17, <1>18
  DEF Next, Main

\* Who had a driver.
LEMMA NextOnDriver == RInv /\ [Next]_vars => OnDriver'
<1> SUFFICES ASSUME RInv, [Next]_vars PROVE OnDriver'
  OBVIOUS
<1> USE CountAssumption DEF RInv, TypeOK, At, board, ctx, run, Check, OnDriver
<1>1. CASE EthosuInit
  <2>1. ran = 0
    BY <1>1 DEF EthosuInit, Counted, InitLabels
  <2> QED
    BY <1>1, <2>1 DEF EthosuInit
<1>2. CASE EnableNpuIrq \/ GetProgramData \/ LoadProgram \/ FindMethod
  BY <1>2 DEF EnableNpuIrq, GetProgramData, LoadProgram, FindMethod
<1>3. CASE SetUpMemory \/ LoadMethod \/ PrepareInputs \/ StartRun
  BY <1>3 DEF SetUpMemory, LoadMethod, PrepareInputs, StartRun
<1>4. CASE Execute
  BY <1>4 DEF Execute
<1>5. CASE Invoke
  BY <1>5 DEF Invoke
<1>6. CASE Wait
  BY <1>6 DEF Wait, NpuWaitedFor
<1>7. CASE Kernels
  BY <1>7 DEF Kernels
<1>8. CASE EndInference
  BY <1>8 DEF EndInference
<1>9. CASE EndLoop \/ CheckStatus \/ verify_result \/ Finish
  BY <1>9 DEF EndLoop, CheckStatus, verify_result, Finish
<1>10. CASE NpuDone \/ NpuIrq
  BY <1>10 DEF NpuDone, NpuIrq
<1>11. CASE Restart
  BY <1>11 DEF Restart
<1>12. CASE UNCHANGED vars
  BY <1>12 DEF vars
<1> QED
  BY <1>1, <1>2, <1>3, <1>4, <1>5, <1>6, <1>7, <1>8, <1>9, <1>10, <1>11, <1>12 DEF Next, Main

\* The invariant of the lifecycle is inductive.
LEMMA NextRInv == RInv /\ [Next]_vars => RInv'
  BY NextTypes, NextNpu, NextLoaded, NextCounted, NextOnDriver DEF RInv

-----------------------------------------------------------------------------
(* System keeps it: each of its steps is one of Runner's *)

\* What System adds to a step takes nothing from it.
LEMMA StepOfRunner == [SNext]_svars => [Next]_vars
<1>1. CASE SMain
  BY <1>1 DEF SMain, SSetUpMemory, SLoadMethod, SPrepareInputs, SKernels, SFinish, SOther, Next, Main
<1>2. CASE SNpuDone \/ SNpuIrq \/ SRestart
  BY <1>2 DEF SNpuDone, SNpuIrq, SRestart, Next
<1>3. CASE UNCHANGED svars
  BY <1>3 DEF svars, vars
<1> QED
  BY <1>1, <1>2, <1>3 DEF SNext

\* The invariant of the lifecycle holds of the firmware with its trace and pools.
THEOREM SSpecRInv == SSpec => []RInv
<1>1. SInit => RInv
  BY InitRInv DEF SInit
<1>2. RInv /\ [SNext]_svars => RInv'
  BY NextRInv, StepOfRunner
<1> QED
  BY <1>1, <1>2, PTL DEF SSpec

\* Types: never two completions at once, and no scratch memory past its pool.
THEOREM Types == SSpec => []TypeOK
<1>1. RInv => TypeOK
  BY DEF RInv
<1> QED
  BY <1>1, SSpecRInv, PTL

\* However load_method and method_meta answer, only a loaded method is run.
THEOREM LoadedRuns == SSpec => []OnlyLoadedMethodRuns
<1>1. RInv => OnlyLoadedMethodRuns
  BY DEF RInv, Loaded, OnlyLoadedMethodRuns
<1> QED
  BY <1>1, SSpecRInv, PTL

\* However much the inferences before it took, each one finds the scratch pool
\* empty.
THEOREM FreshScratch == SSpec => []ScratchIsFresh
<1>1. RInv => ScratchIsFresh
  BY DEF RInv, ScratchFree, ScratchIsFresh
<1> QED
  BY <1>1, SSpecRInv, PTL

\* Whatever an earlier boot left on the NPU, a completion that main takes is
\* that of the job it waits for.
THEOREM OwnCompletion == SSpec => []CompletionIsOurs
<1>1. RInv => CompletionIsOurs
  BY DEF RInv, TypeOK, NpuWaitedFor, CompletionIsOurs
<1> QED
  BY <1>1, SSpecRInv, PTL

-----------------------------------------------------------------------------
(* The trace *)

\* What a step of main logs is true of where it arrives.
LEMMA LogTrue == TraceTrue /\ RInv /\ RInv' /\ Main /\ Log => TraceTrue'
<1> SUFFICES ASSUME TraceTrue, RInv, RInv', Main, Log PROVE TraceTrue'
  OBVIOUS
<1> USE DEF TraceTrue, ReportIsTrue, Log, Lines, InitLines, LoadLines, RunLines, Kept,
        At, Check, board, ctx, run,
        InitLabels, RunLabels, Halted
<1>1. CASE EthosuInit
  BY <1>1 DEF EthosuInit
<1>2. CASE EnableNpuIrq \/ GetProgramData \/ LoadProgram \/ FindMethod \/ SetUpMemory
  BY <1>2 DEF EnableNpuIrq, GetProgramData, LoadProgram, FindMethod, SetUpMemory
<1>3. CASE LoadMethod
  BY <1>3 DEF LoadMethod, RInv, Loaded
<1>4. CASE PrepareInputs
  BY <1>4 DEF PrepareInputs, RInv, Loaded
<1>5. CASE StartRun \/ Execute \/ Invoke \/ Wait \/ Kernels \/ EndInference \/ EndLoop
  BY <1>5 DEF StartRun, Execute, Invoke, Wait, Kernels, EndInference, EndLoop
<1>6. CASE CheckStatus
  <2>1. shown = {}
    BY <1>6 DEF CheckStatus
  <2>2. CASE pc' = "verify"
    <3>1. shown' \subseteq {"finished"} /\ ran' = NumInferences
      BY <1>6, <2>1, <2>2 DEF CheckStatus, RInv, Counted
    <3> QED
      BY <2>2, <3>1 DEF RInv, OnDriver
  <2>3. CASE pc' = "abort"
    <3>1. shown' \subseteq {"finished", "abort"}
      BY <1>6, <2>1, <2>3 DEF CheckStatus
    <3>2. "finished" \in shown' => ran' = NumInferences
      BY <1>6, <2>1, <2>3 DEF CheckStatus, RInv, Counted
    <3> QED
      BY <2>3, <3>1, <3>2 DEF RInv, OnDriver
  <2> QED
    BY <1>6, <2>2, <2>3 DEF CheckStatus
<1>7. CASE verify_result
  BY <1>7 DEF verify_result, RInv, Counted
<1>8. CASE Finish
  <2>1. shown \subseteq {"finished"}
    BY <1>8 DEF Finish
  <2>2. CASE pc' = "returned"
    <3>1. shown' \subseteq {"finished", "complete"}
      BY <1>8, <2>1, <2>2 DEF Finish
    <3>2. ran' = NumInferences /\ status' = "Ok" /\ model_ok'
      BY <2>2 DEF RInv, Counted
    <3> QED
      BY <2>2, <3>1, <3>2 DEF RInv, OnDriver
  <2>3. CASE pc' = "abort"
    <3>1. shown' \subseteq {"finished", "abort"}
      BY <1>8, <2>1, <2>3 DEF Finish
    <3>2. ran' = NumInferences
      BY <1>8 DEF Finish, RInv, Counted
    <3> QED
      BY <2>3, <3>1, <3>2 DEF RInv, OnDriver
  <2> QED
    BY <1>8, <2>2, <2>3 DEF Finish
<1> QED
  BY <1>1, <1>2, <1>3, <1>4, <1>5, <1>6, <1>7, <1>8 DEF Main

\* The NPU, its interrupt and a restart leave the verdict as true as it was.
LEMMA NextTrace == TraceTrue /\ RInv /\ RInv' /\ [SNext]_svars => TraceTrue'
<1> SUFFICES ASSUME TraceTrue, RInv, RInv', [SNext]_svars PROVE TraceTrue'
  OBVIOUS
<1>1. CASE SMain
  <2>1. Main /\ Log
    BY <1>1 DEF SMain, SSetUpMemory, SLoadMethod, SPrepareInputs, SKernels, SFinish, SOther, Main
  <2> QED
    BY <2>1, LogTrue
<1>2. CASE SNpuDone \/ SNpuIrq
  BY <1>2 DEF SNpuDone, SNpuIrq, NpuDone, NpuIrq, TraceTrue, ReportIsTrue, ctx, run
<1>3. CASE SRestart
  BY <1>3 DEF SRestart, Restart, TraceTrue, ReportIsTrue, RunLabels
<1>4. CASE UNCHANGED svars
  BY <1>4 DEF svars, vars, TraceTrue, ReportIsTrue
<1> QED
  BY <1>1, <1>2, <1>3, <1>4 DEF SNext

\* Whatever lines a full trace drops, the verdicts that Linux reads are true of
\* this boot: "Program complete" only after every inference, on a driver that was
\* set up, each failure only if it happened.
THEOREM TrueReport == SSpec => []ReportIsTrue
<1>1. SInit => TraceTrue
  BY DEF SInit, Init, Start, TraceTrue, ReportIsTrue
<1>2. TraceTrue => ReportIsTrue
  BY DEF TraceTrue
<1> QED
  BY <1>1, <1>2, SSpecRInv, NextTrace, PTL DEF SSpec

-----------------------------------------------------------------------------
(* The method pool *)

\* A step of main that leaves the pool alone leaves its account as it was.
LEMMA OtherAccounted == Accounted /\ SOther => Accounted'
<1> SUFFICES ASSUME Accounted, SOther PROVE Accounted'
  OBVIOUS
<1>1. UNCHANGED pool
  BY DEF SOther
<1>2. pc' \notin {"load", "inputs"} /\ (pc' \in RunLabels => pc \in RunLabels)
  BY DEF SOther, EthosuInit, EnableNpuIrq, GetProgramData, LoadProgram, FindMethod, StartRun, Execute, Invoke,
         Wait, EndInference, EndLoop, CheckStatus, verify_result, At, Check, RunLabels
<1> QED
  BY <1>1, <1>2 DEF Accounted, planned, pool

\* Every byte taken is in one of the figures.
LEMMA NextAccounted == Accounted /\ [SNext]_svars => Accounted'
<1> SUFFICES ASSUME Accounted, [SNext]_svars PROVE Accounted'
  OBVIOUS
<1> USE PoolsAssumption DEF Accounted, planned, fits, At, Check, RunLabels, pool
<1>1. CASE SSetUpMemory
  <2>1. pc' \in {"load", "abort"}
    BY <1>1 DEF SSetUpMemory, SetUpMemory
  <2>2. CASE pc' = "abort"
    BY <1>1, <2>2 DEF SSetUpMemory
  <2>3. CASE pc' = "load"
    <3>1. PICK bytes \in Amounts :
            \/ ddr' = TRUE /\ planned_buffer_memsize' = bytes /\ used' = 0
            \/ fits(bytes) /\ ddr' = FALSE /\ planned_buffer_memsize' = bytes /\ used' = bytes
      BY <1>1, <2>3 DEF SSetUpMemory, PlacePlanned
    <3>2. UNCHANGED <<method_loaded_memsize, input_memsize>>
      BY <1>1, <2>3 DEF SSetUpMemory, PlacePlanned
    <3>3. bytes \in Nat
      BY <3>1
    <3>4. CASE ddr' = TRUE /\ used' = 0
      BY <2>3, <3>2, <3>4
    <3>5. CASE fits(bytes) /\ ddr' = FALSE /\ planned_buffer_memsize' = bytes /\ used' = bytes
      BY <2>3, <3>2, <3>3, <3>5
    <3> QED
      BY <3>1, <3>4, <3>5
  <2> QED
    BY <2>1, <2>2, <2>3
<1>2. CASE SLoadMethod
  <2>1. PICK bytes \in Amounts : fits(DebugBytes + bytes) /\ used' = used + DebugBytes + bytes
                                 /\ method_loaded_memsize' = used' - used
    BY <1>2 DEF SLoadMethod, LoadFromPool
  <2>2. pc = "load" /\ pc' = "inputs" /\ UNCHANGED <<ddr, planned_buffer_memsize, input_memsize>>
    BY <1>2 DEF SLoadMethod, LoadMethod, LoadFromPool
  <2>3. bytes \in Nat /\ DebugBytes \in Nat
    BY <2>1 DEF DebugBytes
  <2>4. planned' = planned
    BY <2>2
  <2> HIDE DEF planned
  <2>5. used \in Nat /\ used = planned
    BY <2>2
  <2>6. used' \in Nat /\ used' <= PoolSize /\ method_loaded_memsize' \in Nat
        /\ used' = planned + method_loaded_memsize'
    BY <2>1, <2>3, <2>5
  <2> QED
    BY <2>2, <2>4, <2>6
<1>3. CASE SPrepareInputs
  <2>1. pc = "inputs" /\ pc' \in {"run", "abort"}
    BY <1>3 DEF SPrepareInputs, PrepareInputs
  <2>2. CASE pc' = "abort"
    BY <1>3, <2>2 DEF SPrepareInputs
  <2>3. CASE pc' = "run"
    <3>1. PICK bytes \in Amounts : fits(bytes) /\ used' = used + bytes
                                   /\ input_memsize' = bytes /\ executor_membase' = used'
      BY <1>3, <2>3 DEF SPrepareInputs, InputsFromPool
    <3>2. UNCHANGED <<ddr, planned_buffer_memsize, method_loaded_memsize>>
      BY <1>3, <2>3 DEF SPrepareInputs, InputsFromPool
    <3>3. bytes \in Nat
      BY <3>1
    <3> QED
      BY <2>1, <2>3, <3>1, <3>2, <3>3
  <2> QED
    BY <2>1, <2>2, <2>3
<1>4. CASE SKernels
  <2>1. PICK bytes \in Amounts : fits(bytes) /\ used' = used + bytes
    BY <1>4 DEF SKernels, ExecuteFromPool
  <2>2. UNCHANGED <<ddr, planned_buffer_memsize, method_loaded_memsize, input_memsize, executor_membase>>
    BY <1>4 DEF SKernels, ExecuteFromPool
  <2>3. pc = "invoke" /\ pc' = "executed"
    BY <1>4 DEF SKernels, Kernels
  <2>4. bytes \in Nat
    BY <2>1
  <2> QED
    BY <2>1, <2>2, <2>3, <2>4
<1>5. CASE SFinish
  <2>1. pc' \in {"returned", "abort"}
    BY <1>5 DEF SFinish, Finish
  <2>2. UNCHANGED <<ddr, planned_buffer_memsize, method_loaded_memsize, input_memsize>>
    BY <1>5 DEF SFinish
  <2>3. used' \in Nat /\ used' <= PoolSize
    <3>1. PICK events \in EventLens, outputs \in IF debug_buffer = "set" THEN 0..DebugSize ELSE {0} :
            used' = used \/ (fits(base64buffer_len(events, outputs) + 1)
                             /\ used' = used + (base64buffer_len(events, outputs) + 1))
      BY <1>5 DEF SFinish, write_etdump
    <3>2. events \in Nat /\ outputs \in Nat
      BY <3>1
    <3>3. base64buffer_len(events, outputs) + 1 \in Nat
      BY <3>2 DEF base64buffer_len, base64_encoded_size, max
    <3> QED
      BY <3>1, <3>3
  <2>4. planned' = planned
    BY <2>2
  <2>5. pc' \notin {"load", "inputs"} \cup RunLabels
    BY <2>1
  <2> QED
    BY <2>2, <2>3, <2>4, <2>5
<1>6. CASE SOther
  BY <1>6, OtherAccounted
<1>7. CASE SNpuDone \/ SNpuIrq
  BY <1>7 DEF SNpuDone, SNpuIrq, NpuDone, NpuIrq
<1>8. CASE SRestart
  BY <1>8 DEF SRestart, Restart
<1>9. CASE UNCHANGED svars
  BY <1>9 DEF svars, vars
<1> QED
  BY <1>1, <1>2, <1>3, <1>4, <1>5, <1>6, <1>7, <1>8, <1>9 DEF SNext, SMain

\* The account of the method pool that runner_init keeps is right at every point.
THEOREM SSpecAccounted == SSpec => []Accounted
<1>1. SInit => Accounted
  BY PoolsAssumption DEF SInit, Init, Start, PoolStart, Accounted, planned, RunLabels
<1> QED
  BY <1>1, NextAccounted, PTL DEF SSpec

\* What log_mem_status prints adds up to what was taken from the method pool,
\* whatever load_method, the inputs and the inferences take.
THEOREM FiguresTrue == SSpec => []FiguresAddUp
<1>1. Accounted => FiguresAddUp
  <2> SUFFICES ASSUME Accounted, pc = "report"
               PROVE planned + method_loaded_memsize + input_memsize + (used - executor_membase) = used
    BY DEF FiguresAddUp, planned
  <2>1. executor_membase = planned + method_loaded_memsize + input_memsize
    BY DEF Accounted, RunLabels
  <2> QED
    BY <2>1 DEF Accounted
<1> QED
  BY <1>1, SSpecAccounted, PTL

-----------------------------------------------------------------------------
(* write_etdump *)

\* An encoding has a length, and that of nothing is 0.
LEMMA EncodedSize == ASSUME NEW len \in Nat
                     PROVE  base64_encoded_size(len) \in Nat /\ base64_encoded_size(0) = 0
  BY DEF base64_encoded_size

\* Both encodings fit in the one buffer.
LEMMA BothFit == ASSUME NEW events \in Nat, NEW outputs \in Nat
                 PROVE  max(base64_encoded_size(events), base64_encoded_size(outputs))
                          <= base64buffer_len(events, outputs)
<1>1. base64_encoded_size(events) \in Nat /\ base64_encoded_size(outputs) \in Nat
  BY EncodedSize
<1>2. base64_encoded_size(0) = 0
  BY EncodedSize
<1> QED
  BY <1>1, <1>2 DEF max, base64buffer_len

\* Only write_etdump fills its buffer, and only load_method's stretch decides
\* whether outputs are captured.
LEMMA NextDumped == Dumped /\ [SNext]_svars => Dumped'
<1> SUFFICES ASSUME Dumped, [SNext]_svars PROVE Dumped'
  OBVIOUS
<1> USE PoolsAssumption DEF Dumped, At, Check, InitLabels, RunLabels, pool
<1>1. CASE SSetUpMemory
  <2>1. pc \in InitLabels /\ UNCHANGED <<build, dump, debug_buffer>>
    BY <1>1 DEF SSetUpMemory, SetUpMemory, PlacePlanned
  <2> QED
    BY <2>1
<1>2. CASE SLoadMethod
  <2>1. pc \in InitLabels /\ UNCHANGED <<build, dump>> /\ (debug_buffer' = "set" => build = "outputs")
    BY <1>2 DEF SLoadMethod, LoadMethod, LoadFromPool, DebugBuffer
  <2>2. "outputs" \notin dump.printed
    BY <2>1 DEF NoDump
  <2> QED
    BY <2>1, <2>2
<1>3. CASE SPrepareInputs \/ SKernels
  <2>1. pc \in InitLabels \cup RunLabels /\ UNCHANGED <<build, dump, debug_buffer>>
    BY <1>3 DEF SPrepareInputs, PrepareInputs, InputsFromPool, SKernels, Kernels, ExecuteFromPool
  <2> QED
    BY <2>1
<1>4. CASE SFinish
  <2>1. pc' \in {"returned", "abort"} /\ UNCHANGED <<build, debug_buffer>>
    BY <1>4 DEF SFinish, Finish
  <2>2. PICK events \in EventLens, outputs \in IF debug_buffer = "set" THEN 0..DebugSize ELSE {0} :
          \/ UNCHANGED dump
          \/ dump' = [size |-> base64buffer_len(events, outputs) + 1,
                      high |-> 1 + max(base64_encoded_size(events), base64_encoded_size(outputs)),
                      printed |-> {"events"} \cup IF outputs > 0 THEN {"outputs"} ELSE {}]
    BY <1>4 DEF SFinish, write_etdump
  <2>3. CASE UNCHANGED dump
    BY <2>1, <2>3
  <2>4. CASE dump' = [size |-> base64buffer_len(events, outputs) + 1,
                      high |-> 1 + max(base64_encoded_size(events), base64_encoded_size(outputs)),
                      printed |-> {"events"} \cup IF outputs > 0 THEN {"outputs"} ELSE {}]
    <3>1. events \in Nat /\ outputs \in Nat
      BY <2>2
    <3>2. base64_encoded_size(events) \in Nat /\ base64_encoded_size(outputs) \in Nat
          /\ base64_encoded_size(0) = 0
      BY <3>1, EncodedSize
    <3>3. dump'.high <= dump'.size
      <4>1. base64buffer_len(events, outputs) \in Nat
            /\ max(base64_encoded_size(events), base64_encoded_size(outputs)) \in Nat
        BY <3>2 DEF base64buffer_len, max
      <4> QED
        BY <2>4, <3>1, <4>1, BothFit
    <3>4. "outputs" \in dump'.printed => debug_buffer = "set"
      BY <2>2, <2>4
    <3> QED
      BY <2>1, <3>3, <3>4
  <2> QED
    BY <2>2, <2>3, <2>4
<1>5. CASE SOther
  <2>1. UNCHANGED <<build, dump, debug_buffer>> /\ pc \in InitLabels \cup RunLabels
    BY <1>5 DEF SOther, EthosuInit, EnableNpuIrq, GetProgramData, LoadProgram, FindMethod,
                StartRun, Execute, Invoke, Wait, EndInference, EndLoop, CheckStatus, verify_result
  <2> QED
    BY <2>1
<1>6. CASE SNpuDone \/ SNpuIrq
  BY <1>6 DEF SNpuDone, SNpuIrq, NpuDone, NpuIrq
<1>7. CASE SRestart
  BY <1>7 DEF SRestart, Restart, NoDump
<1>8. CASE UNCHANGED svars
  BY <1>8 DEF svars, vars
<1> QED
  BY <1>1, <1>2, <1>3, <1>4, <1>5, <1>6, <1>7, <1>8 DEF SNext, SMain

\* For any sizes of the events, the outputs and the pool, the two encodings stay
\* in the buffer that write_etdump allocates.
THEOREM EncodingsFit == SSpec => []DumpFits
<1>1. SInit => Dumped
  BY DEF SInit, Init, Start, PoolStart, NoDump, Dumped
<1>2. Dumped /\ Accounted => DumpFits
  BY DEF Dumped, Accounted, DumpFits
<1> QED
  BY <1>1, <1>2, NextDumped, SSpecAccounted, PTL DEF SSpec

-----------------------------------------------------------------------------
(* The session *)

\* Every step of the firmware is a step of the session, or none it can see.
LEMMA StepOfSession == RInv /\ RInv' /\ [Next]_vars => [TheSession!Next]_(TheSession!vars)
<1> SUFFICES ASSUME RInv, RInv', [Next]_vars PROVE [TheSession!Next]_(TheSession!vars)
  OBVIOUS
<1> USE DEF At, Check, board, ctx, run, phase, InitLabels, RunLabels, TheSession!Next, TheSession!vars
<1>1. CASE EthosuInit \/ EnableNpuIrq \/ LoadMethod
  BY <1>1 DEF EthosuInit, EnableNpuIrq, LoadMethod
<1>2. CASE GetProgramData \/ LoadProgram \/ FindMethod \/ SetUpMemory
  BY <1>2 DEF GetProgramData, LoadProgram, FindMethod, SetUpMemory, TheSession!Fail
<1>3. CASE PrepareInputs
  BY <1>3 DEF PrepareInputs, TheSession!Fail, TheSession!Begin
<1>4. CASE StartRun \/ Execute \/ Invoke \/ Wait \/ Kernels
  BY <1>4 DEF StartRun, Execute, Invoke, Wait, Kernels
<1>5. CASE EndInference
  <2>1. ran < NumInferences
    BY <1>5 DEF EndInference, RInv, Counted
  <2> QED
    BY <1>5, <2>1 DEF EndInference, TheSession!Infer
<1>6. CASE EndLoop \/ verify_result
  BY <1>6 DEF EndLoop, verify_result
<1>7. CASE CheckStatus
  BY <1>7 DEF CheckStatus, TheSession!Fail
<1>8. CASE Finish
  <2>1. ran = NumInferences
    BY <1>8 DEF Finish, RInv, Counted
  <2> QED
    BY <1>8, <2>1 DEF Finish, TheSession!Complete, TheSession!Fail
<1>9. CASE NpuDone \/ NpuIrq
  BY <1>9 DEF NpuDone, NpuIrq
<1>10. CASE Restart
  BY <1>10 DEF Restart, TheSession!Restart
<1>11. CASE UNCHANGED vars
  BY <1>11 DEF vars
<1> QED
  BY <1>1, <1>2, <1>3, <1>4, <1>5, <1>6, <1>7, <1>8, <1>9, <1>10, <1>11 DEF Next, Main

\* The firmware is a session: it begins once, runs its inferences one by one,
\* completes after all of them or fails for good, until Linux restarts it.
THEOREM SessionImplemented == SSpec => IsSession
<1>1. SInit => TheSession!Init
  <2> SUFFICES ASSUME SInit PROVE TheSession!Init
    OBVIOUS
  <2>1. pc = "boot" /\ ran = 0
    BY DEF SInit, Init, Start
  <2>2. phase = "starting"
    BY <2>1 DEF phase, InitLabels, RunLabels
  <2> QED
    BY <2>1, <2>2 DEF TheSession!Init
<1>2. RInv /\ RInv' /\ [SNext]_svars => [TheSession!Next]_(TheSession!vars)
  BY StepOfRunner, StepOfSession
<1> QED
  BY <1>1, <1>2, SSpecRInv, PTL DEF SSpec, IsSession, TheSession!Spec
================================================================================
