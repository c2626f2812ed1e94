------------------------------ MODULE Semihosting ------------------------------
(***************************************************************************)
(* The SEMIHOSTING build of main on a simulator: the model and the inputs  *)
(* are files named on the command line, read into a pool of their own, and *)
(* then handed to runner_init, which prepares the inputs from them.        *)
(***************************************************************************)
EXTENDS PrepareInputs, FiniteSets

CONSTANTS
  ArgvLists,            \* command lines, sequences of strings
  Disks,                \* the files there are: their sizes by name
  FileBase, FileSize    \* input_file_allocation_pool

ASSUME CommandsAssumption ==
  /\ ArgvLists \subseteq Seq(STRING)
  /\ \A d \in Disks : \A name \in DOMAIN d : d[name] \in 0..M-1
\* No pool lies so high that rounding an address of it up would wrap around.
ASSUME FilePoolAssumption ==
  /\ M \in Nat \ {0} /\ PtrSize \in Nat \ {0}
  /\ FileBase \in Nat \ {0} /\ FileSize \in Nat /\ FileBase + FileSize + PtrSize <= M

VARIABLES
  argv, disk,
  arg,                  \* main's i
  buffers,              \* the addresses in input_buffers
  model_pte,
  fcur_, fused_, fblocks, fret   \* ctx.input_file_allocator

pool  == <<fcur_, fused_, fblocks, fret>>
files == <<argv, disk, arg, buffers, model_pte, pool>>
fvars == <<vars, files>>

input_file_allocator == INSTANCE ArmAllocator
  WITH Base <- FileBase, PoolSize <- FileSize, Sizes <- {}, Aligns <- {PtrSize},
       Counts <- {}, MaxBlocks <- 0, call <- << >>,
       cur_ <- fcur_, used_ <- fused_, blocks <- fblocks, ret <- fret

argc == Len(argv)
\* argv is counted from 0 and ends with a null pointer.
Arg(j) == IF j < argc THEN argv[j + 1] ELSE "NULL"

SInit ==
  /\ argv \in ArgvLists /\ disk \in Disks
  /\ arg = 0 /\ buffers = << >> /\ model_pte = 0
  /\ input_file_allocator!Init
  /\ semihosting = TRUE /\ pc = "usage" /\ input_buffers = << >>
  /\ inputs = << >> /\ data = << >>
  /\ input_evalues = 0 /\ writtenEnd = 0 /\ i = 0 /\ err = "Ok"
  /\ cur_ = PoolBase /\ used_ = 0 /\ blocks = << >> /\ ret = 0

prepare == <<inputs, semihosting, input_evalues, writtenEnd, i, err, data, alloc>>

\* "Not right number of parameters!"
CheckUsage ==
  /\ pc = "usage"
  /\ pc' = IF argc < 7 THEN "exit" ELSE "args"
  /\ UNCHANGED <<prepare, input_buffers, files>>

Opens(name) == name \in DOMAIN disk

\* read_binary_file: a buffer of the file's size, and what fread gave of it,
\* which may be less.
read_binary_file(name, read_size) ==
  /\ Opens(name)
  /\ input_file_allocator!allocate(disk[name], PtrSize)
  /\ read_size <= disk[name]

\* The file does not open or does not fit: main exits.
ExitOnFile ==
  /\ pc = "args" /\ arg < argc /\ Arg(arg) \in {"-i", "-m"}
  /\ \/ ~Opens(Arg(arg + 1)) /\ UNCHANGED pool
     \/ read_binary_file(Arg(arg + 1), 0) /\ fret' = input_file_allocator!nullptr
  /\ pc' = "exit"
  /\ UNCHANGED <<prepare, input_buffers, argv, disk, arg, buffers, model_pte>>

\* Mutant: the last file comes first.
ReadInput_Prepend ==
  /\ pc = "args" /\ arg < argc /\ Arg(arg) = "-i"
  /\ \E read_size \in 0..M-1 :
       /\ read_binary_file(Arg(arg + 1), read_size)
       /\ input_buffers' = <<read_size>> \o input_buffers
  /\ fret' # input_file_allocator!nullptr
  /\ buffers' = <<fret'>> \o buffers
  /\ arg' = arg + 2
  /\ UNCHANGED <<prepare, pc, argv, disk, model_pte>>

ReadInput ==
  /\ pc = "args" /\ arg < argc /\ Arg(arg) = "-i"
  /\ \E read_size \in 0..M-1 :
       /\ read_binary_file(Arg(arg + 1), read_size)
       /\ input_buffers' = Append(input_buffers, read_size)
  /\ fret' # input_file_allocator!nullptr
  /\ buffers' = Append(buffers, fret')
  /\ arg' = arg + 2
  /\ UNCHANGED <<prepare, pc, argv, disk, model_pte>>

\* Mutant: the first model stays.
ReadModel_First ==
  /\ pc = "args" /\ arg < argc /\ Arg(arg) = "-m"
  /\ read_binary_file(Arg(arg + 1), 0)
  /\ fret' # input_file_allocator!nullptr
  /\ model_pte' = IF model_pte = 0 THEN fret' ELSE model_pte
  /\ arg' = arg + 2
  /\ UNCHANGED <<prepare, input_buffers, pc, argv, disk, buffers>>

ReadModel ==
  /\ pc = "args" /\ arg < argc /\ Arg(arg) = "-m"
  /\ read_binary_file(Arg(arg + 1), 0)
  /\ fret' # input_file_allocator!nullptr
  /\ model_pte' = fret'
  /\ arg' = arg + 2
  /\ UNCHANGED <<prepare, input_buffers, pc, argv, disk, buffers>>

\* -o takes a value; anything else is skipped.
OtherArg ==
  /\ pc = "args" /\ arg < argc /\ Arg(arg) \notin {"-i", "-m"}
  /\ arg' = arg + (IF Arg(arg) = "-o" THEN 2 ELSE 1)
  /\ UNCHANGED <<prepare, input_buffers, pc, argv, disk, buffers, model_pte,
                 pool>>

\* main reads model_pte[4], then runner_init loads the program and a method,
\* whose inputs are any.  Without a model the read is of address 4 and no
\* program loads.
LoadModel ==
  /\ pc = "args" /\ arg >= argc
  /\ IF model_pte = 0
     THEN pc' \in {"crash", "hang"} /\ UNCHANGED <<inputs, data, alloc>>
     ELSE /\ pc' = "array"
          /\ inputs' \in Methods
          /\ data' = [j \in 1..Len(inputs') |-> "loaded"]
          /\ cur_' \in Tops /\ used_' = cur_' - PoolBase
          /\ UNCHANGED <<blocks, ret>>
  /\ UNCHANGED <<semihosting, input_buffers, input_evalues, writtenEnd, i, err, files>>

Arguments == CheckUsage \/ ExitOnFile \/ ReadInput \/ ReadModel \/ OtherArg \/ LoadModel

FInit == SInit \/ (Init /\ argv = << >> /\ disk = [f \in {} |-> 0] /\ arg = 0
                   /\ buffers = << >> /\ model_pte = 0
                   /\ input_file_allocator!Init)

FNext == Arguments \/ (Next /\ UNCHANGED files)

FSpec == FInit /\ [][FNext]_fvars

-----------------------------------------------------------------------------
(* Properties *)

\* The options of a command line: the positions that are not the value of one.
IsOption ==
  LET opt[j \in 0..argc] ==
        j = 0 \/ ~(opt[j - 1] /\ Arg(j - 1) \in {"-i", "-m", "-o"})
  IN  opt
Named(flag) == {j \in 0..argc-1 : IsOption[j] /\ Arg(j) = flag}

\* When runner_init begins, the k-th input is what was read of the file the
\* k-th -i names, in a buffer as large as that file; the model is that of the
\* last -m; every file named has a block, and no two share a byte.
FilesAsNamed ==
  pc = "array" /\ argv # << >> =>
    /\ Len(buffers) = Cardinality(Named("-i"))
    /\ Len(fblocks) = Len(buffers) + Cardinality(Named("-m"))
    /\ \A k \in 1..Len(buffers) :
         \E j \in Named("-i"), b \in 1..Len(fblocks) :
           /\ Cardinality({l \in Named("-i") : l < j}) = k - 1
           /\ fblocks[b].start = buffers[k] /\ fblocks[b].size = disk[Arg(j + 1)]
           /\ input_buffers[k] <= fblocks[b].size
    /\ \E j \in Named("-m"), b \in 1..Len(fblocks) :
         /\ \A l \in Named("-m") : l <= j
         /\ fblocks[b].start = model_pte /\ fblocks[b].size = disk[Arg(j + 1)]
    /\ input_file_allocator!BlocksDisjoint
=============================================================================
