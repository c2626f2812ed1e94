# Verification of the ExecuTorch runner for the i.MX93 Cortex-M33

The repository is a bare-metal firmware: Linux on the A55 cores loads it with
remoteproc, it reads a model from DDR, runs it with the ExecuTorch runtime on the
Ethos-U65 NPU and reports through a 3 KB trace buffer Linux can read at any moment.
This directory holds its TLA+ models, their TLC configurations and their TLAPS
proofs.

## The system

| Component | State | Operations | Hard part |
|---|---|---|---|
| Trace buffer (`arm_executor_runner.cpp` 106-274, 472-542, 1488-1489; `rsc_table.c`; `patches/ethosu_log.h`) | `trace_idx`, `rsc_trace_buf` | `trace_write` from main, from the runtime's log hook, from the driver's log macros; three fault handlers; `copyResourceTable`; the reset in `main` | one buffer, four contexts that preempt each other, a reader at any time, restarts that keep the bytes |
| `ArmMemoryAllocator` on `MemoryAllocator` | `cur_`, `used_` | `allocate`, `allocateList`, `reset`, `used_size`, `free_size` | 32-bit wrap-around, two counters for one thing |
| Planned buffers (`runner_init` 834-893) | the spans, the choice of the pool | sum, decide, place | truncation, wrap-around, padding, the pool that is chosen |
| Lifecycle (`main`, `runner_init`, `run_model`) | `RunnerContext`, the locals of `runner_init`, driver, NPU | load program, method, inputs; execute; verify | failures that are only logged, lifetimes, completion interrupts, restarts |
| Inputs (`prepare_input_tensors`) | the `EValue` array, `err` | count check, `get_inputs`, the loop | an error variable shared by the iterations |
| Semihosting (`main` 1392-1473, `read_binary_file`) | `argv`, `input_buffers`, `model_pte`, the pool of files | usage check, one action for each option, file reads | options repeated, missing, last, or looking like values; files absent, too large, read short |
| ETDump output (`runner_init` 906-963, `write_etdump`) and memory status (`log_mem_status`) | `debug_buffer`, the base64 buffer, five sizes | allocate, encode twice, print | one buffer for two encodings, figures taken at different times |
| Tensor layout (`dim_order_util.h`, `tensor_util.h`, `tensor_factory.h`, `tensor_ptr.h`, `tensor_accessor.h`) | sizes, dimension order, strides, data of a tensor | conversions, views, checks, five ways to index | unit and empty dimensions, equal strides, an unstable sort |
| Scalar types (`scalar_type_util.h`) | the common type of an operation so far | promote, cast, switch | a 13 by 13 table and lists of cases kept by hand |
| Event tracer hooks (`event_tracer*.h`) | levels, current ids, open scopes | scopes, events, delegate and value logs | nesting, levels that change under open scopes |
| Data maps and ownership (`merged_data_map.h`, `freeable_buffer.h`, `result.h`, `Box`) | what holds which data | merge, look up, move, unwrap, box, free, destroy | long sequences of moves, maps that know no layouts |
| Ticks, patch script, the rest of the vendored headers | see PROJECT.json | | not modelled, see below |

Main calls the runtime, which calls the delegate, which starts jobs on the NPU and waits for a
semaphore given by `Reserved194_IRQHandler`. All of them log through `trace_write`. With
`ET_EVENT_TRACER_ENABLED` the runtime also reports to an ETDumpGen through the tracer hooks,
and `write_etdump` prints what it collected. Inputs and outputs are tensors whose layout the
kernels take from sizes, order and strides, and whose types they promote and switch on. The
pools are three `ArmMemoryAllocator`s: method (24 KB of DTCM in this build), temp (2 MB of
DDR) and, for semihosting, files. A failed `ET_CHECK` ends in `et_pal_abort`, which logs a
line and waits forever.

What makes each part correct: the trace is a text of whole messages whatever interrupts it; an
allocation is granted exactly when it fits; planned buffers are disjoint and reserved; what
runs was loaded, what reports completion was run, and a completion is that of this boot's job;
success of the input preparation means inputs that are set. A verdict in the trace is true of
the run it is read in; the memory figures add up to the pool; an encoding fits the buffer it
is written to. A tensor's elements have offsets of their own and conversions keep them at
their coordinates; promotion is a join and every result of it has a case; an event belongs to
its instruction; data is freed once.

## Modules

| Module | Models | Correspondence |
|---|---|---|
| `TraceLog` | the promise: a text to which whole messages are added or not, and reports that lose only what does not fit | `Add`, `Report`, `Clear` |
| `TraceBuffer` | the trace buffer | each access to the volatile `trace_idx` and each byte stored is a step, in source order: `trace_write` (the check), `WriteAddr`, `WriteByte`, `WriteLoad`, `WriteStore`, `WriteNulAddr`, `WriteNul`; `Fault*` for the handlers; `copyResourceTable`, `EnableIRQ`, `ResetIdx`, `ResetNul` for main; `Restart` for Linux |
| `Arena` | the promise of a bump allocator in unbounded arithmetic | `Alloc`, `Refuse`, `FreeAll` |
| `ArmAllocator` | the allocator over `0..M-1` with wrap-around | `allocate`, `allocateList`, `reset` |
| `PlannedBuffers` | the placement, using `ArmAllocator` as `ctx.method_allocator` | `SumSize` and `Decide` (lines 843-861), `PlaceInDdr`, `PlaceInDtcm`, `Built` |
| `Runner` | the life of the firmware, with the NPU and Linux | one action for each stretch between two exits; `Main` is the core, `NpuDone`, `NpuIrq` and `Restart` are around it |
| `Session` | the promise of a run: start-up, inferences one by one, completion or failure | `Begin`, `Infer`, `Complete`, `Fail`, `Restart` |
| `System` | `Runner` composed with the lines of the trace that say how a run went, the method pool and `write_etdump` | every action of `Runner` with `Log` (`InitLines`, `LoadLines`, `RunLines` and the other `Lines`), and with what it takes from the pool; `LoadFromPool` includes ETDump's set-up |
| `PrepareInputs` | `prepare_input_tensors`, using `ArmAllocator` | one action for each way through an iteration |
| `Semihosting` | the argument loop of `main` and `read_binary_file`, followed by `PrepareInputs` with the files it read, on a second `ArmAllocator` | `CheckUsage`, `ReadInput`, `ReadModel`, `OtherArg`, `ExitOnFile`, `LoadModel` |
| `TensorLayout` | a tensor that is made by the factory and then converted and viewed | `DimOrderToStride`, `StrideToDimOrder` (with `quick_sort` and `partition` as written, the recursion bounded by the length of the range), `channels_last_like`, `View`; the checks and the indexing as operators |
| `ScalarTypes` | operands promoted one after the other | `NextOperand`; the classes, the table, `canCast` and the switches as operators |
| `EventTracing` | the hooks and the state of `EventTracer` | one action for each constructor, destructor and hook |
| `Ownership` | two data maps merged, and the objects that hold what they answer | `GetData`, `Move`, `Unwrap`, `NewBox`, `BoxReset`, `FreeNow`, `Destroy` |
| `Sums` | sums and products of a sequence | recursive functions of a position, used by the layouts and by the figures of both allocators |
| `MC*` | instances for TLC | |
| `TraceBufferProofs`, `ArmAllocatorProofs`, `PlannedBuffersProofs`, `SystemProofs`, `SemihostingProofs`, `TensorLayoutProofs` | TLAPS proofs | of the module they extend |
| `RuntimeHeadersProofs` | TLAPS proofs | of `ScalarTypes`, `EventTracing` and `Ownership`, one section each |
| `SumsProofs` | lemmas about `Sums` and about recursive functions of a position | cited by the proofs about figures, files and layouts |

Operators named `X_Something` with the comment "Mutant" are plausible bugs of `X`;
PROJECT.json says which property finds each of them. They are used by nothing else.

### Abstractions

- A byte of the trace is `<<message, position>>`; the text of messages is left out,
  their lengths, before and after the cut to `buf[256]`, are kept. A report is a
  head, stack words and a newline: the newlines between the lines of registers are
  in the head. Bytes of a `memcpy` go in ascending order and the compiler keeps the
  order of the source, although the buffer, unlike the index, is not volatile.
- Linux reads the buffer in one instant between two steps.
- Contexts preempt as the priorities of the core make them: main, NPU interrupt,
  configurable faults, HardFault. The interrupt handler of the driver logs only at
  debug severity, so `IrqMsgs = {}` is the firmware as built; `trace_irq` is the
  firmware with verbose logging.
- `trace_idx` is cleared by the startup code, the trace buffer in DTCM is not.
- Pointers that overflow wrap around, as the compiled comparison `end < start`
  expects of them.
- The driver, the NPU, the kernels and the runtime's loader are outside the
  repository's source. `ethosu_init`, when it succeeds, has reset the NPU; every
  call may fail. An interrupt on a driver that was not set up faults or does nothing.
- `System` keeps of the trace the lines that give a verdict and the two that read like one,
  "ethosu_init done" and "Method ... loaded.", which the code logs after a failure too. Any of
  them may be dropped: that a line is kept whole or dropped whole is what `TraceBuffer` shows.
  Of allocations it keeps sizes: alignment is in `ArmAllocator`.
- What takes how much of the method pool is a choice from `Amounts`; where it is taken
  and which figure counts it is the code's.
- File names are strings of the command line, contents are sizes.
- In the header modules an `ET_CHECK` that fails is a step that does not exist (the process
  aborts); coordinates and sizes are integers without overflow; an array of strides starts as
  zeros, as the factory's vector does; `start_profiling` and `end_profiling`, virtual
  functions, are taken from the header's contract, and an event bears the ids stored at that
  time.
- A moved-from `Result` or `Box` still has a value, a buffer that holds nothing.
- A failing `operator new` returns a null pointer that `std::vector` does not check;
  the vectors of `runner_init` are taken to be allocated.

## Runs

| Run | Question | Bounds |
|---|---|---|
| `trace_quiet` | Is the trace a log of whole messages, with faults and restarts at every instruction? | 8 bytes of trace in a region of 11, messages of 2 bytes and of 5 cut to 3, reports of 2 bytes and of 1 byte with two stack words of 2 bytes, margin 3: a full buffer, a cut message, a skipped word and a nested fault all occur |
| `trace_irq` | What is left of it when the interrupt handler logs? | 6 bytes in a region of 9, the least the assumption on the region allows |
| `planned_buffers` | Are the spans reserved, disjoint and reported? | 8-bit `size_t`, alignment 4, pools of 24 and 38 bytes, every list of up to three of seven sizes, two of them truncated or wrapping. A sum that wraps to a value in the DDR range, 4 GB of planned buffers on the real device, is left out |
| `system` | Are the verdicts Linux reads true, do the figures add up, do the dumps fit, is the firmware a session, and does an inference end? | two inferences of two jobs each, scratch needs of nothing, the whole pool, and more than it; a method pool of 14 units, a debug buffer of 4, allocations of 0 or 1, ETDump data of 0, 2 or 5: everything fits, only the debug buffer does not, or only the base64 buffer does not; all three builds |
| `semihosting` | Are the inputs what the command line names, and what has success done to each? | nine command lines (too short, without a model, with two, options as values, options last) on four disks (empty files, absent files, files larger than the pool); and `prepare_input_tensors` alone with up to three inputs of three kinds, up to four files, three states of the pool |
| `runtime_headers` | Is every request for memory answered as without wrap-around, and do layouts, promotions, scopes and moves keep what they promise? | 6-bit sizes, pool of 20 bytes, sizes 0 to 63, alignments valid and not, lists whose size overflows, three blocks between resets; eleven shapes of rank 0 to 5 with unit and empty dimensions, every stride vector of values 1 to 6 up to rank 3 that the factory accepts, every dimension order its check lets pass, repeated dimensions included, three operations; all 30 types, up to three operands; two instructions, two entries, three scopes deep; two keys, six maps, three places, two loads |

`runtime_headers` puts five modules that share no variable side by side: in a behaviour
one of them moves and the others stand still, so the states are the sum and not the
product of theirs. Its symmetry exchanges places and instructions, which no definition
distinguishes, and it checks no liveness.

`CHECK_DEADLOCK FALSE` is in the runs of `PlannedBuffers`, `PrepareInputs` and
`Semihosting`, which are functions that return or programs that exit, and of
`runtime_headers`, where operations are bounded. The other models always have a step
left: Linux may restart the core.

Six runs end in a violation, each the disagreement of the code with a line of the
repository:

- `arm_allocator_used`: `used_` is not kept in sync with the pool. The base class
  aligns the address, the subclass rounds when the *size* is not aligned. After 4 bytes at
  alignment 4, 8 bytes at alignment 8 skip 4 bytes that `used_` does not count: it is 12
  with 16 bytes of the pool in use, and `free_size()` counts 4 that are gone. At an aligned
  address a size that is not a multiple is counted with padding that is not taken, so `used_` may
  be too large as well; it is still bracketed by the bytes asked for and those plus an
  alignment a block (`UsedBrackets`), so the figures logged are estimates.
- `planned_buffers_ddr`: the padding between buffers is not in the sum that is
  compared with the DDR pool. What follows the pool is the rest of `ethosu_region`, so
  the buffers are still reserved memory (`SpansReserved`).
- `system_loaded`: "Method '%s' loaded." (977) is logged after a failure of `load_method` that
  was only logged. "ethosu_init done" (1383) follows a failed `ethosu_init` in the same way.
  `ReportIsTrue` takes neither for a verdict.
- `runner_lifetimes`: `ctx.method` outlives the program, the hierarchical allocator
  and the memory manager it was loaded with.
- `prepare_inputs_mismatch`: a file of the wrong size is an error only if no tensor
  follows (semihosting builds).
- `prepare_inputs_evalues`: the array for `EValue`s is sized for pointers to them.

Also met, and not shown by a run: `check_dim_order` accepts (1,1,1), although its comment asks
for each dimension exactly once, and leaves dimensions 0 and 2 without a stride, so that
elements share offsets (`LayoutBijective` and `ElementsKept` speak of tensors in which each
dimension has one, `AllStrided`; the others are among the states); a change of the profiling
level under an open operator scope leaves an entry unpaired or ends one nobody set
(`EntriesPaired` excepts it); with `half_to_float` the promotion of complex half with half and
float depends on the order (`PromotionIsJoin` excepts it); `log_mem_status` prints planned
buffers in DDR as the method allocator's (`FiguresAddUp` counts them out); tensors of types
other than int, float and char are not filled with ones (`OnesWhenNoFiles` says what is
filled); the log line of 854 names `0xC0200000` while the pool is at `0xA8200000`; MemManage
faults are enabled without a handler.

### Fairness

The lifecycle has the one liveness property, checked in `System`, whose fairness is
`Runner`'s with the bookkeeping around it. `WF(Main)`: the core is never held back, only
by a fault handler that never returns, and `Main` is then disabled. `WF(NpuDone)`: the
NPU ends a job it was given, with an error or without; the driver's own timeout is
infinite by default, so without this nothing would end. `WF(NpuIrq)`: an interrupt
that stays raised and enabled is taken. `Restart` has no fairness. `SInferenceEnds`
promises nothing when `ethosu_init` failed: there the firmware may wait forever.

## Proofs

All for every value of the constants that satisfies the named assumptions.

- `TraceBufferProofs`: `TypeOK`, `StoresInRegion` and `EndsAtIndex`, all three with
  interrupts that log. The assumption `RegionAssumption`, the region extends the buffer by at
  least a formatted message less one, is true of the addresses in `rsc_table.h`
  (0xC00 + 255 < 0xE00). A stale length check is off by one nested message only if
  that message itself passed a check, which is why the index stays below
  `Size` while a write has not begun and within the region afterwards: `IInv` adds
  to the types which contexts may be where (`Roles`), what their registers hold
  (`Registers`) and how far the index may be (`Index`). That the string ends at the index
  needs two more parts: the order of the start-up (`BootOrder`) and, context by context,
  who is about to write the NUL when it is not there (`Terminated`). main may write its NUL
  below an index the handler has moved since, but the handler completes before main goes on
  and has then terminated the string itself.
- `TraceBufferProofs`, the log: with `IrqMsgs = {}`, `TextUnbroken`, `TextOnlyGrows`,
  `NoStaleAtBoot`, `WordsWhole` and `Spec => IsTraceLog`. `Quiet` relates each register to the
  index at each point of a write and of a report, and says that no byte below the index of the
  last complete message is touched by a write or a report under way. `LogInv` says what the
  bytes are: a message that passed its check still fits when it is stored (`Roomy`), main has
  stored the first bytes of its message above the index (`MainBytes`) and until the reset
  nothing else is there (`Fresh`), and a handler has stored the leading bytes of its report
  and, after skipped stack words, perhaps the last one (`HandlerBytes`). `WordsWhole` follows
  at the step that ends a report because a word is begun only with the margin free, and
  `MarginAssumption` (9 bytes of a word against 12) holds of the code. For the refinement the
  text is the buffer up to the index (`Text`): the last store of a write is `Add`, that of a
  report is `Report`, the resets and `Restart` are `Clear`, and every other step leaves the
  text alone although it may have stored bytes above it.
- `ArmAllocatorProofs`: `TypeOK`, `BlocksInPool` and `BlocksDisjoint` are inductive
  together, and `Spec => IsArena`: the three tests of `allocate` grant exactly what
  fits (`GrantsWhatFits`), although `start + size` may wrap. `PoolAssumption`, no pool
  ends within an alignment of the end of memory, holds of every address used.
  `UsedBrackets`, a sum over the blocks, is inductive only with a count of the allocations
  that rounded (`Bracketed`): each takes a byte of the pool at least, so there are at most
  `PoolSize`, or `MaxBlocks`, of them, and rounding `used_` up cannot wrap around as long
  as that many alignments fit behind the pool. This is the theorem's hypothesis
  (`RoundingFits`). The largest pool has 60 MB, and 2^32 leaves room for 60 million and more
  alignments of 16 beyond it.
- `PlannedBuffersProofs`: `SpansReserved` and `SpansDisjoint`, for any
  sizes and any number of them, under `SumsFit`: a sum that leads to the DDR pool did
  not wrap around on the way. It excludes what the bounds of the run exclude,
  4 GB of planned buffers. The sum is a fold, so the invariant does not speak of it:
  `Totals` keeps instead, while the buffers are placed one by one, the part of the sum that
  is behind and what is to come, and bounds the offset in DDR by that part and the padding
  so far. `DdrAssumption`, what follows the DDR pool in its region takes the padding of
  every buffer, holds with a margin of 94 MB.
  `ReportedCovers` adds `Covers`, which counts the buffers laid out a second time as a sum over
  the spans. A sum that wrapped leads to the method pool, and there it is still
  covered, because the allocator refuses the buffer at which it would not be; for this `used_`
  must not wrap either (`UsedFits`), which the sizes of the pools give.
- `SystemProofs`: the eight properties of the lifecycle, for any number of inferences and
  jobs, any pools and builds. Each step of `System` is one of `Runner` (`StepOfRunner`),
  so `RInv` is shown inductive over `Runner` alone: the types do not follow without
  knowing that the interrupt handler gives its semaphore only while main waits
  (`NpuWaitedFor`), that `ran` is `n` inside the loop (`Counted`), what
  `method_meta` and `load_method` answered at each point (`Loaded`), that
  nothing is left in the scratch pool between inferences (`ScratchFree`) and that a job that
  ended, and with it an inference that succeeded, had a driver (`OnDriver`). `TraceTrue`
  adds that "inferences finished" is only there after the loop, `Accounted` where each
  byte of the method pool went at each point of `runner_init`, `Dumped` that outputs are
  captured only into a debug buffer the sink took. `Spec => IsSession` then needs only
  `Counted`: completion follows all the inferences.

- `SemihostingProofs`: `OnesWhenNoFiles`, `FilesMatch` and `LastMismatchReported`, for any
  method, command line, disk and pool, in both builds. `FillInv` says that the inputs before
  `i` have had their turn and the others are as loaded (`TurnsDone`), that `err` is that of
  the last tensor (`ErrOfLast`), that only the end of the loop succeeds (`AllTurns`) and that
  there is a file for every input once their number was checked (`FilesGiven`). `FilesAsNamed`
  compares the loop with `IsOption`, a recursive reading of the whole command line, for any
  command line and disk: the invariant says that the loop stands at a position `IsOption`
  takes for an option, which buffers belong to the options before it, which block of the file
  pool each is in, and that the model is that of the last `-m` so far (`ModelRead`).
  `CommandsAssumption` and `FilePoolAssumption` give the types of command lines, disks and
  pool; a block per file needs that the pool does not end within an alignment of the end of
  memory.
- `TensorLayoutProofs`, checks and indices: `ChecksAgree`, for any shapes and strides,
  although the macros compare only the dimensions both tensors have. A tensor of one element
  has only sizes of 1 (`NumelOne`, from a product being 1 only if its factors are), so leaving
  out the comparison of ranks there accepts no other tensors than the functions do. The
  invariant is that a tensor has an order and a stride for each dimension (`Ranked`).
  `IndexingIsInverse`, for any rank and any sizes but 0: the accessors add up the same offset from
  the inside as the loop does from the outside; the index computed from sizes, memoised or
  not, is Horner's scheme over the coordinates (`IndexIsHorner`), hence below `numel`
  (`HornerBelow`) and undone by the divisions of `indexToCoordinate`
  (`InverseOfHorner`); with contiguous strides it is the offset.
- `TensorLayoutProofs`, layouts: `LayoutBijective`, `IndexingAgrees` and `ElementsKept`, for
  any shapes, ranks, strides and orders the factory accepts. Every tensor is `Laid`, or some
  dimension of it has no stride (`Wanting`), until an operation lays it out anew: an order the
  check accepts is a permutation, or repeats a dimension and misses another. `Laid` is what
  every operation leaves of a tensor: some order of the dimensions gives its strides
  (`Packed`), its dimension order is a permutation, and that order gives the same strides,
  except where a dimension has one element or some dimension has none (`Aligned`). The order
  of `Packed` need not be the tensor's: strides do not say where a dimension of one element
  comes, and the operations find an order again by sorting strides. `Realigned` shows that any
  order in which strides descend, ties however broken, gives back the strides of the
  dimensions that matter, because in both the stride is the product of the sizes whose strides
  are smaller (`BehindIsSmaller`). That `quick_sort` leaves such an order is `QuickSorts`, by
  induction on the length of the range, over `PartitionParts`: each call permutes its range
  and touches nothing else, the pivot ends between what is not smaller and what is not
  greater. Ranks under a strict order are a permutation too (`RanksPermute`), which is the
  factory's stable sort; the one in `check_strides` is any order a sort may leave
  (`CheckedPacked`). From `Packed`, the offset is Horner's scheme in that order, so the
  coordinates number the elements from 0 to one less than their number (`PackedBijective`);
  `channels_last_like` moves each element to the offset its coordinate has in the new order
  (`MoveKeeps`).
- `RuntimeHeadersProofs`, types: `PromotionIsJoin` and `SwitchesHandle` for any number of
  operands, where TLC has three. The table is read once: each entry is the least upper bound
  of its row and column in an order of kinds, extents and digits (`TableBounds`), and bounds
  of pairs are bounds of sets. The types with a table entry of their own are numbered, so the
  rest is arithmetic; complex half with `half_to_float` is excepted, as in the run.
- `RuntimeHeadersProofs`, tracing: `EventsAttributed` and `EntriesPaired`, for any nesting of
  scopes and any number of entries. `AttributionInv` says that every prefix of the stack with
  an instruction scope has an innermost one, and that the current ids are those of the
  innermost of all, or unset because a scope inside it has closed. The second needs that an
  entry still open is held by one scope or by the caller, never by both or by two
  (`EntriesHeld`, `HeldOnce`, `EndedOrHeld`).
- `RuntimeHeadersProofs`, ownership: `FreedOnce`, for any number of places, loads and keys,
  from `OwnIInv`: a load has one holder or none, and none only when it was freed or has no
  free function. `MergedFinds` for any two maps that name each of their keys once
  (`KeysAssumption`), by counting the positions of a key.

Sums, products and recursive functions, the quick sort among them, are provable here because
they are functions of a position and not operators: `SumsProofs` shows, with the least element
that `WellFoundedInduction` gives every set of numbers, that a set of positions closed under
successor is all of them (`UpTo`, `DownFrom`), that such a function exists
(`RecursionExists`), and from these what the sums, products, divisions and the reading of a
command line compute, and that a permutation changes no sum or product.

Only model-checked: liveness (`SInferenceEnds`), which no prover here can show under
fairness. `TextUnbroken` and what follows from it are false of interrupts that log, and no
theorem claims them there.

## Not modelled

- The time base. `et_pal_current_ticks` returns a 32-bit counter that wraps and that
  `StartMeasurements` sets to zero; the firmware passes it on and never reads it back.
- `apply_patches.sh`. It edits an SDK that is not in the repository, on the developer's
  machine; interrupted or run twice it may save an edited file as the original.
- The SEMIHOSTING variant of `write_etdump`, which writes files on the host instead of
  printing, and the wording and formatting of everything printed.
- The other vendored headers. Of some 31 000 lines of code in the repository most are
  third-party declarations, the runtime of which is in static libraries: math helpers,
  `Half.h`, `llvmMathExtras.h` and their copies in two more directories, type mappings
  and macros. What of them holds control of its own (layouts, promotion, tracer hooks,
  data maps, moves) is modelled; the rest are pure functions of one expression, or
  interfaces, and a model of them would restate them. Test factories beyond strides and
  layouts (`tensor_factory.h`) build fixtures.
- `hello_world`, the board files and the build files hold no state of the firmware.

Met on the way, and in no property:

- `100 * used_size`, the percentage of `log_mem_status`, wraps past 42 MB, which the file
  pool of 60 MB can reach; it is a figure of a log line.
- The line that logs the arguments of a semihosting run (1404) passes `argv[i]` and
  `argv[++i]` to one call, in no defined order; it is a log line.
- `ET_FORALL_REALHBBF16_TYPES_WITH2` forwards its second argument twice.
- `validate_dim_order` accepts repeated dimensions; `strides_from_dim_order` and
  `ET_CHECK_CONTIGUOUS` index the last of no entries when the tensor has rank 0.
- A `FreeableBuffer` with null data never calls its free function; no loader here makes
  one.
- `HierarchicalAllocator::get_offset_address` adds offset and size in 32 bits before it compares
  them with the buffer; only the loader in the static library calls it.
- `BufferDataLoader` adds offset and size in 32 bits before it compares them.
- Destroying an `EValue` that holds a list reads what the list points to.
- `read_binary_file` leaves its file open when its pool is full; `main` exits then.

## Plan

Done, in this order: the trace buffer and its log; the allocator and its arena; planned
buffers; the lifecycle; input preparation; the semihosting start-up; the system with
its trace, pool and session; the tensor layout, scalar types, tracer hooks and data
ownership of the runtime's headers; the proofs of the trace buffer and its log, of the
allocator, of planned buffers, of the inputs and the command line, of the system, of tracer
hooks, data ownership and promotion, of the checks, indices, sorts and layouts of tensors.

Left: the patch script as a protocol of back up, edit and test, with interruptions, once
the text it edits can be described.
