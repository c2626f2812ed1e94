-------------------------------- MODULE System --------------------------------
(***************************************************************************)
(* The firmware as whoever runs it sees it: the life of Runner together    *)
(* with the lines of the trace that tell how it went, the figures that     *)
(* log_mem_status prints, and the profile that write_etdump dumps, with    *)
(* the method pool that all of them draw on.                               *)
(***************************************************************************)
EXTENDS Runner, FiniteSets

CONSTANTS
  PoolSize,     \* method_allocation_pool_size
  Amounts,      \* what one stretch of the code takes from that pool
  EtDump,       \* builds: "off", "events", or "outputs" with a debug buffer
  DebugSize,    \* ET_DEBUG_BUFFER_SIZE
  EventLens     \* sizes of the ETDump data, 0 for none

ASSUME PoolsAssumption ==
  /\ PoolSize \in Nat /\ DebugSize \in Nat \ {0}
  /\ Amounts \subseteq Nat /\ 0 \in Amounts /\ EventLens \subseteq Nat
  /\ EtDump \subseteq {"off", "events", "outputs"}

VARIABLES
  shown,        \* what the trace tells, of the lines that say how it went
  build,        \* the ETDump build that runs
  used,         \* ctx.method_allocator->used_size()
  ddr,          \* use_ddr_planned
  planned_buffer_memsize, method_loaded_memsize, input_memsize,
  executor_membase,
  debug_buffer, \* ctx.debug_buffer: "null", or "set" when the sink took it
  dump          \* the base64 buffer of write_etdump and what was put in it

pool  == <<used, ddr, planned_buffer_memsize, method_loaded_memsize,
           input_memsize, executor_membase, debug_buffer>>
svars == <<vars, shown, build, pool, dump>>

NoDump == [size |-> 0, high |-> 0, printed |-> {}]

PoolStart ==
  /\ used = 0 /\ ddr = FALSE /\ planned_buffer_memsize = 0
  /\ method_loaded_memsize = 0 /\ input_memsize = 0 /\ executor_membase = 0
  /\ debug_buffer = "null" /\ dump = NoDump

SInit == Init /\ PoolStart /\ shown = {} /\ build \in EtDump

-----------------------------------------------------------------------------
(* The trace *)

\* "ethosu_init done" follows a failure too, and so does "Method ... loaded.".
InitLines ==
  IF pc # "boot" THEN {}
  ELSE {"initDone"} \cup IF driver' = "failed" THEN {"initFailed"} ELSE {}
LoadLines ==
  IF pc # "load" THEN {}
  ELSE {"methodLoaded"} \cup IF method' = "error" THEN {"loadFailed"} ELSE {}

\* "inferences finished" comes before the check of the outputs.
RunLines == IF pc = "check" /\ status = "Ok" THEN {"finished"} ELSE {}

\* The lines a step of main logs that say how things went.
Lines ==
  InitLines \cup LoadLines \cup RunLines
  \cup (IF pc' = "hang" THEN {"noProgram"} ELSE {})
  \cup (IF pc' = "abort" THEN {"abort"} ELSE {})
  \cup (IF pc = "report" /\ pc' = "returned" THEN {"complete"} ELSE {})

\* Mutant: main does not reset the trace before the inferences and
\* copyResourceTable does not clear it.
Kept_All == shown

\* copyResourceTable clears the trace, main resets it before the inferences.
Kept == IF pc \in {"boot", "run"} THEN {} ELSE shown

\* Each line is accepted or, when the buffer is full, dropped (see TraceLog).
Log == \E s \in SUBSET Lines : shown' = Kept \cup s

-----------------------------------------------------------------------------
(* The method pool *)

fits(bytes) == used + bytes <= PoolSize

\* PlannedBuffers: the planned buffers are in the pool, or they are in DDR.
PlacePlanned ==
  /\ \E bytes \in Amounts :
       \/ ddr' = TRUE /\ planned_buffer_memsize' = bytes /\ used' = 0
       \/ fits(bytes) /\ ddr' = FALSE /\ planned_buffer_memsize' = bytes /\ used' = bytes
  /\ UNCHANGED <<method_loaded_memsize, input_memsize, executor_membase,
                 debug_buffer>>

\* The debug buffer is allocated, and dropped again if set_debug_buffer refuses
\* it; the pool does not get it back.
DebugBuffer(b) ==
  IF build = "outputs" /\ fits(DebugSize)
  THEN b \in {"null", "set"}
  ELSE b = "null"
DebugBytes == IF build = "outputs" /\ fits(DebugSize) THEN DebugSize ELSE 0

\* Mutant: the base is taken before the planned buffers.
LoadFromPool_WholePool ==
  /\ \E bytes \in Amounts :
       fits(DebugBytes + bytes) /\ used' = used + DebugBytes + bytes
       /\ method_loaded_memsize' = used'
  /\ \E b \in {"null", "set"} : DebugBuffer(b) /\ debug_buffer' = b
  /\ UNCHANGED <<ddr, planned_buffer_memsize, input_memsize, executor_membase>>

\* ETDump's set-up and load_method, both counted as loaded.
LoadFromPool ==
  /\ \E bytes \in Amounts :
       fits(DebugBytes + bytes) /\ used' = used + DebugBytes + bytes
       /\ method_loaded_memsize' = used' - used
  /\ \E b \in {"null", "set"} : DebugBuffer(b) /\ debug_buffer' = b
  /\ UNCHANGED <<ddr, planned_buffer_memsize, input_memsize, executor_membase>>

InputsFromPool ==
  /\ \E bytes \in Amounts :
       fits(bytes) /\ used' = used + bytes /\ input_memsize' = bytes /\ executor_membase' = used'
  /\ UNCHANGED <<ddr, planned_buffer_memsize, method_loaded_memsize, debug_buffer>>

\* What execution takes from the pool stays there.
ExecuteFromPool ==
  /\ \E bytes \in Amounts : fits(bytes) /\ used' = used + bytes
  /\ UNCHANGED <<ddr, planned_buffer_memsize, method_loaded_memsize,
                 input_memsize, executor_membase, debug_buffer>>

-----------------------------------------------------------------------------
(* write_etdump *)

\* base64_encoded_size with padding.
base64_encoded_size(len) == 4 * ((len + 2) \div 3)

max(x, y) == IF x > y THEN x ELSE y

\* Mutant: the buffer is sized for the events alone.
base64buffer_len_Events(events, outputs) == base64_encoded_size(events)

\* One buffer for both encodings.
base64buffer_len(events, outputs) ==
  IF outputs = 0 THEN base64_encoded_size(events)
  ELSE max(base64_encoded_size(events), base64_encoded_size(outputs))

\* get_etdump_data, the outputs captured in the debug buffer, the allocation of
\* the base64 buffer with a byte for the terminator, and the two encodings.
write_etdump ==
  \E events \in EventLens,
     outputs \in IF debug_buffer = "set" THEN 0..DebugSize ELSE {0} :
    LET size == base64buffer_len(events, outputs) + 1
    IN  IF build = "off" \/ events = 0 \/ ~fits(size)
        THEN UNCHANGED <<used, dump>>
        ELSE /\ used' = used + size
             /\ dump' = [size |-> size,
                         high |-> 1 + max(base64_encoded_size(events),
                                          base64_encoded_size(outputs)),
                         printed |-> {"events"} \cup IF outputs > 0 THEN {"outputs"} ELSE {}]

-----------------------------------------------------------------------------
(* Every step of Runner, with what it does to the pool and the trace. *)

SSetUpMemory ==
  /\ SetUpMemory /\ Log
  /\ IF pc' = "abort" THEN UNCHANGED pool ELSE PlacePlanned
  /\ UNCHANGED <<build, dump>>
SLoadMethod    == LoadMethod /\ Log /\ LoadFromPool /\ UNCHANGED <<build, dump>>
SPrepareInputs ==
  /\ PrepareInputs /\ Log
  /\ IF pc' = "abort" THEN UNCHANGED pool ELSE InputsFromPool
  /\ UNCHANGED <<build, dump>>
SKernels       == Kernels /\ Log /\ ExecuteFromPool /\ UNCHANGED <<build, dump>>

\* log_mem_status and write_etdump come before the last check.
SFinish ==
  /\ Finish /\ Log /\ write_etdump
  /\ UNCHANGED <<build, ddr, planned_buffer_memsize, method_loaded_memsize,
                 input_memsize, executor_membase, debug_buffer>>

SOther ==
  /\ \/ EthosuInit \/ EnableNpuIrq \/ GetProgramData \/ LoadProgram
     \/ FindMethod \/ StartRun \/ Execute \/ Invoke \/ Wait \/ EndInference
     \/ EndLoop \/ CheckStatus \/ verify_result
  /\ Log
  /\ UNCHANGED <<build, pool, dump>>

SMain == SSetUpMemory \/ SLoadMethod \/ SPrepareInputs \/ SKernels \/ SFinish
         \/ SOther

SNpuDone == NpuDone /\ UNCHANGED <<shown, build, pool, dump>>
SNpuIrq  == NpuIrq /\ UNCHANGED <<shown, build, pool, dump>>

\* The trace keeps its bytes until copyResourceTable.
SRestart ==
  /\ Restart /\ UNCHANGED shown /\ build' \in EtDump
  /\ used' = 0 /\ ddr' = FALSE /\ planned_buffer_memsize' = 0
  /\ method_loaded_memsize' = 0 /\ input_memsize' = 0 /\ executor_membase' = 0
  /\ debug_buffer' = "null" /\ dump' = NoDump

SNext == SMain \/ SNpuDone \/ SNpuIrq \/ SRestart

SFairness == WF_svars(SMain) /\ WF_svars(SNpuDone) /\ WF_svars(SNpuIrq)

SSpec == SInit /\ [][SNext]_svars /\ SFairness

-----------------------------------------------------------------------------
(* Properties *)

\* The verdicts that Linux reads once the trace of this boot has begun are true
\* of this boot: "Program complete" and "inferences finished" are only there when
\* every inference ran, on a driver that was set up, the aborts and failures
\* named happened, and the reset before the inferences leaves nothing of the
\* start-up.  "ethosu_init done" and "Method ... loaded." are no verdicts: they
\* say that the call returned, whatever it returned.
ReportIsTrue ==
  pc # "boot" =>
    /\ "complete" \in shown =>
         pc = "returned" /\ ran = NumInferences /\ status = "Ok" /\ model_ok
    /\ "finished" \in shown =>
         /\ ran = NumInferences /\ pc \in RunLabels \cup Halted
         /\ ran > 0 => driver = "ready"
    /\ "abort" \in shown => pc = "abort"
    /\ "noProgram" \in shown => pc = "hang"
    /\ "loadFailed" \in shown => method = "error"
    /\ "initFailed" \in shown => driver = "failed"
    /\ "initDone" \in shown => driver # "none"
    /\ "methodLoaded" \in shown => method # "none"
    /\ pc \in RunLabels \ {"run"} => shown \subseteq {"finished"}

\* What "Method '%s' loaded." says: there is a method.  The line is logged after
\* a failure of load_method that was only logged itself.
LoadedIsTrue == pc # "boot" /\ "methodLoaded" \in shown => method = "loaded"

\* The figures of log_mem_status add up to the use of the method pool when the
\* planned buffers are in it; in DDR their size is printed as the pool's though
\* it is not.
FiguresAddUp ==
  pc = "report" =>
    (IF ddr THEN 0 ELSE planned_buffer_memsize) + method_loaded_memsize
      + input_memsize + (used - executor_membase) = used

\* The two encodings and their terminators stay in the one buffer allocated for
\* them, and the outputs are only printed if the sink had taken the debug buffer.
DumpFits ==
  /\ dump.high <= dump.size /\ used <= PoolSize
  /\ "outputs" \in dump.printed => debug_buffer = "set" /\ build = "outputs"

\* The firmware, with its interrupts, failures and restarts, is a session.
phase == CASE pc \in InitLabels -> "starting"
           [] pc \in RunLabels -> "running"
           [] pc = "returned" -> "complete"
           [] OTHER -> "failed"
TheSession == INSTANCE Session WITH done <- ran
IsSession == TheSession!Spec

\* An inference that starts with a working driver comes to an end, whatever is
\* logged and taken from the pools.
SInferenceEnds == InferenceEnds
=============================================================================
