-------------------------- MODULE SemihostingProofs --------------------------
(***************************************************************************)
(* What the data of the inputs are when prepare_input_tensors returns, for *)
(* any method, any files and any command line: FSpec is its steps with and *)
(* without the argument loop of main before them.                          *)
(***************************************************************************)
EXTENDS Semihosting, SumsProofs, FiniteSetTheorems

Input == [tag : STRING, dtype : STRING, nbytes : Nat]

InputTypes ==
  /\ inputs \in Seq(Input)
  /\ semihosting \in BOOLEAN
  /\ pc \in {"usage", "args", "array", "get", "loop", "done", "exit", "crash", "hang"}
  /\ i \in 0 .. Len(inputs)
  /\ data \in [1 .. Len(inputs) -> {"loaded", "ones", "file"}]

\* Nothing is done to the inputs before the loop; only a SEMIHOSTING build reads
\* arguments.
NotYet ==
  /\ pc \in {"usage", "args", "array", "get"} => i = 0 /\ err = "Ok"
  /\ pc \in {"usage", "args"} => semihosting

\* Files come with a SEMIHOSTING build only; there, no input lacks its file once
\* the number of files was checked.
FilesGiven ==
  /\ ~semihosting => input_buffers = << >>
  /\ semihosting /\ (pc \in {"get", "loop"} \/ Succeeded) =>
       input_buffers # << >> /\ Len(input_buffers) = Len(inputs)

\* What the turn of input j makes of its data.
Turn(j) ==
  IF inputs[j].tag # "Tensor" THEN "loaded"
  ELSE IF input_buffers = << >>
  THEN IF inputs[j].dtype \in Filled THEN "ones" ELSE "loaded"
  ELSE IF input_buffers[j] = inputs[j].nbytes THEN "file" ELSE "loaded"

\* The inputs before i have had their turn, the others are as they were loaded.
TurnsDone ==
  \A j \in 1 .. Len(inputs) : data[j] = IF j <= i THEN Turn(j) ELSE "loaded"

\* err is that of the last tensor that had its turn.
ErrOfLast ==
  err = "Ok" /\ input_buffers # << >> =>
    \A j \in 1 .. i :
      inputs[j].tag = "Tensor" /\ (\A l \in j+1 .. i : inputs[l].tag # "Tensor") =>
        data[j] = "file"

\* Only Return ends the loop without an error.
AllTurns == Succeeded => i = Len(inputs)

FillInv ==
  /\ InputTypes /\ NotYet /\ FilesGiven
  /\ TurnsDone /\ ErrOfLast /\ AllTurns

-----------------------------------------------------------------------------

LEMMA FillInit == FInit => FillInv
<1> SUFFICES ASSUME FInit PROVE FillInv
  OBVIOUS
<1>1. /\ inputs \in Seq(Input) /\ i = 0 /\ err = "Ok" /\ pc \in {"usage", "array"}
      /\ semihosting \in BOOLEAN /\ data = [j \in 1 .. Len(inputs) |-> "loaded"]
      /\ ~semihosting => input_buffers = << >>
  <2>1. CASE SInit
    <3>1. << >> \in Seq(Input) /\ Len(<< >>) = 0 /\ << >> = [j \in 1 .. 0 |-> "loaded"]
      OBVIOUS
    <3> QED
      BY <2>1, <3>1 DEF SInit
  <2>2. CASE Init
    BY <2>2, MethodsAssumption DEF Init, Input
  <2> QED
    BY <2>1, <2>2 DEF FInit
<1>2. Len(inputs) \in Nat
  BY <1>1
<1>3. InputTypes
  BY <1>1, <1>2 DEF InputTypes
<1>4. NotYet /\ FilesGiven /\ AllTurns
  <2>1. pc \in {"usage", "args"} => semihosting
    BY <1>1 DEF FInit, SInit, Init
  <2> QED
    BY <1>1, <2>1 DEF NotYet, FilesGiven, AllTurns, Succeeded
<1>5. TurnsDone /\ ErrOfLast
  BY <1>1, <1>2 DEF TurnsDone, ErrOfLast
<1> QED
  BY <1>3, <1>4, <1>5 DEF FillInv

\* A step that leaves the inputs, their data and the files alone, and does not
\* succeed: where it may go.
LEMMA FillKept ==
  ASSUME FillInv, UNCHANGED <<inputs, semihosting, i, data, input_buffers>>,
         pc' \in {"usage", "args", "array", "get", "loop", "done", "exit", "crash", "hang"},
         pc' \in {"usage", "args", "array", "get"} => i = 0 /\ err' = "Ok",
         pc' \in {"usage", "args"} => semihosting,
         err' # err => err' # "Ok",
         pc' = "done" => err' # "Ok",
         semihosting /\ pc' \in {"get", "loop"} =>
           input_buffers # << >> /\ Len(input_buffers) = Len(inputs)
  PROVE  FillInv'
<1>1. InputTypes' /\ NotYet' /\ FilesGiven' /\ AllTurns'
  BY DEF FillInv, InputTypes, NotYet, FilesGiven, AllTurns, Succeeded
<1>2. TurnsDone'
  BY DEF FillInv, TurnsDone, Turn
<1>3. ErrOfLast'
  BY DEF FillInv, ErrOfLast
<1> QED
  BY <1>1, <1>2, <1>3 DEF FillInv

\* The argument loop of main ends in runner_init, or main exits.
LEMMA FillArguments ==
  ASSUME FillInv, Arguments
  PROVE  FillInv'
<1>1. CASE CheckUsage
  BY <1>1, FillKept DEF CheckUsage, prepare, FillInv, NotYet
<1>2. CASE ExitOnFile
  BY <1>2, FillKept DEF ExitOnFile, prepare
<1>3. CASE ReadModel
  BY <1>3, FillKept DEF ReadModel, prepare, FillInv, NotYet
<1>4. CASE OtherArg
  BY <1>4, FillKept DEF OtherArg, prepare, FillInv, NotYet
<1>5. CASE ReadInput
  <2>1. /\ UNCHANGED <<inputs, semihosting, i, data, err, pc>>
        /\ pc = "args" /\ i = 0 /\ err = "Ok"
    BY <1>5 DEF ReadInput, prepare, FillInv, NotYet
  <2>2. semihosting
    BY <2>1 DEF FillInv, NotYet
  <2> QED
    BY <2>1, <2>2
    DEF FillInv, InputTypes, NotYet, FilesGiven, TurnsDone, ErrOfLast, AllTurns, Succeeded
<1>6. CASE LoadModel
  <2>0. i = 0 /\ err = "Ok" /\ UNCHANGED <<semihosting, input_buffers, i, err>>
    BY <1>6 DEF LoadModel, FillInv, NotYet
  <2>1. CASE model_pte = 0
    BY <1>6, <2>0, <2>1, FillKept DEF LoadModel
  <2>2. CASE model_pte # 0
    <3>1. /\ inputs' \in Seq(Input) /\ pc' = "array"
          /\ data' = [j \in 1 .. Len(inputs') |-> "loaded"]
      BY <1>6, <2>2, MethodsAssumption DEF LoadModel, Input
    <3>2. Len(inputs') \in Nat
      BY <3>1
    <3>3. InputTypes'
      BY <2>0, <3>1, <3>2 DEF InputTypes, FillInv
    <3> QED
      BY <2>0, <3>1, <3>2, <3>3
      DEF FillInv, NotYet, FilesGiven, TurnsDone, ErrOfLast, AllTurns, Succeeded
  <2> QED
    BY <2>1, <2>2
<1> QED
  BY <1>1, <1>2, <1>3, <1>4, <1>5, <1>6 DEF Arguments

\* The turn of an input: its data become what Turn says, err is Ok unless its file
\* was refused, or the input is no tensor and err stays.
LEMMA FillTurn ==
  ASSUME FillInv, Looping, NextInput,
         data' = [data EXCEPT ![i + 1] = Turn(i + 1)],
         \/ inputs[i + 1].tag # "Tensor" /\ err' = err
         \/ inputs[i + 1].tag = "Tensor" /\ Turn(i + 1) = "file"
         \/ inputs[i + 1].tag = "Tensor" /\ input_buffers = << >>
         \/ inputs[i + 1].tag = "Tensor" /\ err' # "Ok"
  PROVE  FillInv'
<1> USE DEF num_inputs
<1>1. /\ Len(inputs) \in Nat /\ i \in Nat /\ i < Len(inputs) /\ i' = i + 1
      /\ UNCHANGED <<inputs, semihosting, input_buffers, pc>> /\ pc = "loop"
  BY DEF FillInv, InputTypes, Looping, NextInput, args
<1>2. Turn(i + 1) \in {"loaded", "ones", "file"}
  BY DEF Turn
<1>3. InputTypes'
  BY <1>1, <1>2 DEF FillInv, InputTypes
<1>4. NotYet' /\ FilesGiven' /\ AllTurns'
  BY <1>1 DEF FillInv, NotYet, FilesGiven, AllTurns, Succeeded
<1>5. TurnsDone'
  <2> SUFFICES ASSUME NEW j \in 1 .. Len(inputs)
               PROVE  data'[j] = IF j <= i + 1 THEN Turn(j) ELSE "loaded"
    BY <1>1 DEF TurnsDone, Turn
  <2>1. data[j] = IF j <= i THEN Turn(j) ELSE "loaded"
    BY DEF FillInv, TurnsDone
  <2>2. data'[j] = IF j = i + 1 THEN Turn(j) ELSE data[j]
    BY <1>1 DEF FillInv, InputTypes
  <2> QED
    BY <1>1, <2>1, <2>2
<1>6. ErrOfLast'
  <2> SUFFICES ASSUME err' = "Ok", input_buffers # << >>, NEW j \in 1 .. i + 1,
                      inputs[j].tag = "Tensor",
                      \A l \in j+1 .. i+1 : inputs[l].tag # "Tensor"
               PROVE  data'[j] = "file"
    BY <1>1 DEF ErrOfLast
  <2>1. CASE j = i + 1
    BY <1>1, <2>1 DEF FillInv, InputTypes
  <2>2. CASE j # i + 1
    <3>1. j \in 1 .. i /\ i + 1 \in j+1 .. i+1
      BY <1>1, <2>2
    <3>2. err = "Ok" /\ \A l \in j+1 .. i : inputs[l].tag # "Tensor"
      BY <1>1, <3>1
    <3>3. data[j] = "file"
      BY <3>1, <3>2 DEF FillInv, ErrOfLast
    <3> QED
      BY <1>1, <3>1, <3>3 DEF FillInv, InputTypes
  <2> QED
    BY <2>1, <2>2
<1> QED
  BY <1>3, <1>4, <1>5, <1>6 DEF FillInv

LEMMA FillNext ==
  ASSUME FillInv, Next
  PROVE  FillInv'
<1> USE DEF num_inputs
<1>0. /\ data \in [1 .. Len(inputs) -> {"loaded", "ones", "file"}]
      /\ Len(inputs) \in Nat /\ i \in 0 .. Len(inputs)
      /\ \A j \in 1 .. Len(inputs) : j > i => data[j] = "loaded"
  BY DEF FillInv, InputTypes, TurnsDone
<1>1. CASE AllocateArray
  BY <1>1, FillKept DEF AllocateArray, Fail, args, FillInv, NotYet
<1>2. CASE GetInputs
  BY <1>2, FillKept DEF GetInputs, Fail, args, FillInv, NotYet, FilesGiven
<1>3. CASE MetaFails
  BY <1>3, FillKept DEF MetaFails, Looping, Fail, args
<1>4. CASE SkipNonTensor
  <2>1. data' = [data EXCEPT ![i + 1] = Turn(i + 1)]
    BY <1>0, <1>4 DEF SkipNonTensor, Looping, Turn, input
  <2> QED
    BY <1>4, <2>1, FillTurn DEF SkipNonTensor, input
<1>5. CASE CopyFile
  BY <1>5, FillTurn DEF CopyFile, Turn, input
<1>6. CASE Mismatch
  <2>1. data' = [data EXCEPT ![i + 1] = Turn(i + 1)]
    BY <1>0, <1>6 DEF Mismatch, Looping, Turn, input
  <2> QED
    BY <1>6, <2>1, FillTurn DEF Mismatch, input
<1>7. CASE FillOnes
  <2>1. data' = [data EXCEPT ![i + 1] = Turn(i + 1)]
    <3>1. i + 1 \in 1 .. Len(inputs) /\ data[i + 1] = "loaded"
      BY <1>0, <1>7 DEF FillOnes, Looping
    <3>2. CASE inputs[i + 1].dtype \in Filled
      BY <1>7, <3>2 DEF FillOnes, Turn, input
    <3>3. CASE inputs[i + 1].dtype \notin Filled
      BY <1>0, <1>7, <3>1, <3>3 DEF FillOnes, Turn, input
    <3> QED
      BY <3>2, <3>3
  <2> QED
    BY <1>7, <2>1, FillTurn DEF FillOnes, input
<1>8. CASE Return
  <2>1. /\ UNCHANGED <<inputs, semihosting, input_buffers, i, err, data>>
        /\ pc = "loop" /\ pc' = "done" /\ i = Len(inputs)
    BY <1>8 DEF Return, args
  <2>2. TurnsDone'
    BY <2>1 DEF FillInv, TurnsDone, Turn
  <2>3. InputTypes' /\ NotYet' /\ FilesGiven' /\ ErrOfLast' /\ AllTurns'
    BY <2>1
    DEF FillInv, InputTypes, NotYet, FilesGiven, ErrOfLast, AllTurns, Succeeded
  <2> QED
    BY <2>2, <2>3 DEF FillInv
<1> QED
  BY <1>1, <1>2, <1>3, <1>4, <1>5, <1>6, <1>7, <1>8 DEF Next

\* Every step of either build keeps the invariant, from any initial state.
THEOREM Fills == FSpec => []FillInv
<1>1. FillInv /\ [FNext]_fvars => FillInv'
  <2> SUFFICES ASSUME FillInv, [FNext]_fvars PROVE FillInv'
    OBVIOUS
  <2>1. CASE UNCHANGED fvars
    <3>1. UNCHANGED <<inputs, semihosting, input_buffers, pc, i, err, data>>
      BY <2>1 DEF fvars, vars, args
    <3>2. TurnsDone'
      BY <3>1 DEF FillInv, TurnsDone, Turn
    <3>3. InputTypes' /\ NotYet' /\ FilesGiven' /\ ErrOfLast' /\ AllTurns'
      BY <3>1
      DEF FillInv, InputTypes, NotYet, FilesGiven, ErrOfLast, AllTurns, Succeeded
    <3> QED
      BY <3>2, <3>3 DEF FillInv
  <2> QED
    BY <2>1, FillArguments, FillNext DEF FNext
<1> QED
  BY <1>1, FillInit, PTL DEF FSpec

\* Without files, success means all ones in the tensors of the three types and
\* nothing touched elsewhere, for any method.
THEOREM FillsOnes == FSpec => []OnesWhenNoFiles
<1>1. FillInv => OnesWhenNoFiles
  <2> SUFFICES ASSUME FillInv, Succeeded, ~semihosting, NEW j \in 1 .. Len(inputs)
               PROVE  data[j] = IF j \in Tensors(Filled) THEN "ones" ELSE "loaded"
    BY DEF OnesWhenNoFiles, num_inputs
  <2>1. data[j] = Turn(j) /\ input_buffers = << >>
    BY DEF FillInv, InputTypes, TurnsDone, AllTurns, FilesGiven
  <2> QED
    BY <2>1 DEF Turn, Tensors, num_inputs
<1> QED
  BY <1>1, Fills, PTL

\* A file reaches only the tensor at its own position and of its own size, and
\* does reach it when prepare_input_tensors returns Ok.
THEOREM CopiesMatch == FSpec => []FilesMatch
<1>1. FillInv => FilesMatch
  <2> SUFFICES ASSUME FillInv, NEW j \in 1 .. Len(inputs)
      PROVE  /\ data[j] = "file" =>
                   inputs[j].tag = "Tensor" /\ input_buffers[j] = inputs[j].nbytes
             /\ Succeeded /\ semihosting /\ inputs[j].tag = "Tensor" =>
                   (data[j] = "file") = (input_buffers[j] = inputs[j].nbytes)
    BY DEF FilesMatch, num_inputs
  <2>1. data[j] = IF j <= i THEN Turn(j) ELSE "loaded"
    BY DEF FillInv, TurnsDone
  <2>2. data[j] = "file" =>
           inputs[j].tag = "Tensor" /\ input_buffers[j] = inputs[j].nbytes
    BY <2>1 DEF Turn
  <2>3. ASSUME Succeeded, semihosting, inputs[j].tag = "Tensor"
        PROVE  (data[j] = "file") = (input_buffers[j] = inputs[j].nbytes)
    <3>1. data[j] = Turn(j) /\ input_buffers # << >>
      BY <2>1, <2>3 DEF FillInv, InputTypes, AllTurns, FilesGiven
    <3> QED
      BY <2>3, <3>1 DEF Turn
  <2> QED
    BY <2>2, <2>3
<1> QED
  BY <1>1, Fills, PTL

\* A missing file is reported, and so is a mismatch of the last tensor, the only
\* one whose error nothing overwrites.
THEOREM ReportsLast == FSpec => []LastMismatchReported
<1>1. FillInv => LastMismatchReported
  BY DEF FillInv, FilesGiven, ErrOfLast, AllTurns, LastMismatchReported, Succeeded,
         num_inputs
<1> QED
  BY <1>1, Fills, PTL

-----------------------------------------------------------------------------
(* The argument loop *)

TakesValue == {"-i", "-m", "-o"}

\* The options of that name at the positions before a.
Before(flag, a) == {j \in Named(flag) : j < a}

\* Whether a position is that of an option follows from the one before it.
LEMMA OptionSteps ==
  ASSUME argv \in Seq(STRING)
  PROVE  /\ IsOption[0] = TRUE
         /\ \A j \in 1..argc :
              /\ IsOption[j - 1] /\ Arg(j - 1) \in TakesValue => ~IsOption[j]
              /\ ~(IsOption[j - 1] /\ Arg(j - 1) \in TakesValue) => IsOption[j]
<1> DEFINE Step(j, x) == ~(x /\ Arg(j - 1) \in TakesValue)
           step == [j \in 1..argc |-> [x \in BOOLEAN |-> Step(j, x)]]
           Is(f) == f = [j \in 0..argc |->
                           j = 0 \/ ~(f[j - 1] /\ Arg(j - 1) \in {"-i", "-m", "-o"})]
           g == IsOption
<1>1. argc \in Nat
  BY DEF argc
<1>2. \A j \in 1..argc : step[j] \in [BOOLEAN -> BOOLEAN]
  OBVIOUS
<1>3. \A j \in 1..argc, x \in BOOLEAN : step[j][x] = Step(j, x)
  OBVIOUS
<1> HIDE DEF step, Step
<1>4. PICK f \in [0..argc -> BOOLEAN] : Follows(f, TRUE, step, argc)
  BY <1>1, <1>2, RecursionExists, TRUE \in BOOLEAN
<1>5. Is(f)
  <2> DEFINE h == [j \in 0..argc |-> j = 0 \/ Step(j, f[j - 1])]
  <2>1. ASSUME NEW j \in 0..argc PROVE f[j] = h[j]
    <3>1. h[j] = (j = 0 \/ Step(j, f[j - 1]))
      OBVIOUS
    <3>2. CASE j = 0
      BY <1>4, <3>1, <3>2 DEF Follows
    <3>3. CASE j # 0
      <4>1. j \in 1..argc /\ j - 1 \in 0..argc
        BY <1>1, <3>3
      <4>2. f[j] = step[j][f[j - 1]] /\ f[j - 1] \in BOOLEAN
        BY <1>4, <4>1 DEF Follows
      <4>3. f[j] = Step(j, f[j - 1])
        BY <1>3, <4>1, <4>2
      <4> QED
        BY <3>1, <3>3, <4>3
    <3> QED
      BY <3>2, <3>3
  <2>2. f = h
    BY <1>4, <2>1
  <2> QED
    BY <2>2 DEF Step, TakesValue
<1>6. g = CHOOSE h : Is(h)
  BY DEF IsOption
<1>7. Is(g)
  BY <1>5, <1>6
<1> HIDE DEF g
<1>8. g[0] = TRUE
  <2>1. 0 \in 0..argc
    BY <1>1
  <2> QED
    BY <1>7, <2>1
<1>9. ASSUME NEW j \in 1..argc
      PROVE  g[j] = ~(g[j - 1] /\ Arg(j - 1) \in TakesValue)
  <2>1. j \in 0..argc /\ j # 0
    BY <1>1
  <2>2. g[j] = (j = 0 \/ ~(g[j - 1] /\ Arg(j - 1) \in {"-i", "-m", "-o"}))
    BY <1>7, <2>1
  <2> QED
    BY <2>1, <2>2 DEF TakesValue
<1> QED
  BY <1>8, <1>9 DEF g

\* The options before a command line's first argument, and before the argument
\* after an option that takes a value, or after anything else.
LEMMA BeforeSteps ==
  ASSUME argv \in Seq(STRING), NEW flag, NEW a \in Nat, a <= argc => IsOption[a]
  PROVE  /\ Before(flag, 0) = {}
         /\ a < argc /\ Arg(a) \in TakesValue =>
              /\ a + 2 <= argc => IsOption[a + 2]
              /\ Before(flag, a + 2) =
                   IF Arg(a) = flag THEN Before(flag, a) \cup {a} ELSE Before(flag, a)
         /\ a < argc /\ Arg(a) \notin TakesValue => (a + 1 <= argc => IsOption[a + 1])
         /\ a < argc /\ Arg(a) # flag => Before(flag, a + 1) = Before(flag, a)
         /\ a >= argc => Before(flag, a) = Named(flag)
<1> DEFINE opt == IsOption
<1>1. argc \in Nat
  BY DEF argc
<1>2. \A j \in 1..argc :
        /\ opt[j - 1] /\ Arg(j - 1) \in TakesValue => ~opt[j]
        /\ ~(opt[j - 1] /\ Arg(j - 1) \in TakesValue) => opt[j]
  BY OptionSteps
<1>3. Named(flag) = {j \in 0..argc - 1 : opt[j] /\ Arg(j) = flag}
  BY DEF Named
<1> HIDE DEF opt
<1>4. \A x : x \in Before(flag, a) <=> x \in 0..argc - 1 /\ opt[x] /\ Arg(x) = flag /\ x < a
  BY <1>3 DEF Before
<1>5. Before(flag, 0) = {}
  BY <1>1, <1>3 DEF Before
<1>6. ASSUME a < argc
      PROVE  \A x : x \in Before(flag, a + 1) <=>
                      x \in Before(flag, a) \/ (x = a /\ opt[a] /\ Arg(a) = flag)
  BY <1>1, <1>3, <1>4, <1>6 DEF Before
<1>7. ASSUME a < argc, Arg(a) \in TakesValue
      PROVE  /\ a + 2 <= argc => opt[a + 2]
             /\ Before(flag, a + 2) =
                  IF Arg(a) = flag THEN Before(flag, a) \cup {a} ELSE Before(flag, a)
  <2>1. opt[a] /\ a + 1 \in 1..argc /\ a + 1 - 1 = a
    BY <1>1, <1>7 DEF opt
  <2>2. ~opt[a + 1]
    BY <1>2, <1>7, <2>1
  <2>3. a + 2 <= argc => opt[a + 2]
    <3> SUFFICES ASSUME a + 2 <= argc PROVE opt[a + 2]
      OBVIOUS
    <3>1. a + 2 \in 1..argc /\ a + 2 - 1 = a + 1
      BY <1>1
    <3> QED
      BY <1>2, <2>2, <3>1
  <2>4. \A x : x \in Before(flag, a + 2) <=>
                 x \in Before(flag, a) \/ (x = a /\ Arg(a) = flag)
    <3>1. \A x : x \in Before(flag, a + 2) <=> x \in 0..argc - 1 /\ opt[x] /\ Arg(x) = flag /\ x < a + 2
      BY <1>3 DEF Before
    <3>2. \A x \in 0..argc - 1 : x < a + 2 <=> x < a \/ x = a \/ x = a + 1
      BY <1>1
    <3>3. a \in 0..argc - 1
      BY <1>1, <1>7
    <3> QED
      BY <1>4, <2>1, <2>2, <3>1, <3>2, <3>3
  <2> QED
    BY <2>3, <2>4
<1>8. ASSUME a < argc, Arg(a) \notin TakesValue, a + 1 <= argc PROVE opt[a + 1]
  <2>1. a + 1 \in 1..argc /\ a + 1 - 1 = a
    BY <1>1, <1>8
  <2> QED
    BY <1>2, <1>8, <2>1
<1>9. a >= argc => Before(flag, a) = Named(flag)
  BY <1>1, <1>3 DEF Before
<1> QED
  BY <1>5, <1>6, <1>7, <1>8, <1>9 DEF opt

FileBlocks == [start : Nat, size : Nat, align : Nat]

\* Every file read so far has a block of its own in the pool.
FilePool ==
  /\ fcur_ \in FileBase..FileBase + FileSize
  /\ fblocks \in Seq(FileBlocks)
  /\ \A b \in 1..Len(fblocks) : fblocks[b].start + fblocks[b].size <= fcur_
  /\ input_file_allocator!BlocksDisjoint

\* The k-th input is the file of the k-th -i, and the model that of the last -m.
InputRead(k) ==
  \E j \in Before("-i", arg), b \in 1..Len(fblocks) :
    /\ Cardinality(Before("-i", j)) = k - 1
    /\ fblocks[b].start = buffers[k] /\ fblocks[b].size = disk[Arg(j + 1)]
    /\ input_buffers[k] <= fblocks[b].size
ModelRead ==
  \E j \in Before("-m", arg), b \in 1..Len(fblocks) :
    /\ \A l \in Before("-m", arg) : l <= j
    /\ fblocks[b].start = model_pte /\ fblocks[b].size = disk[Arg(j + 1)]

\* The loop stands at an option, or past the end.
AtOption == arg \in Nat /\ (arg <= argc => IsOption[arg])

ArgsRead ==
  /\ buffers \in Seq(Nat) /\ input_buffers \in Seq(Nat) /\ Len(input_buffers) = Len(buffers)
  /\ Len(buffers) = Cardinality(Before("-i", arg))
  /\ Len(fblocks) = Len(buffers) + Cardinality(Before("-m", arg))
  /\ \A k \in 1..Len(buffers) : InputRead(k)
  /\ model_pte # 0 => ModelRead

ArgsInv ==
  /\ argv \in Seq(STRING) /\ (argv # << >> => disk \in Disks)
  /\ argv # << >> /\ pc \in {"usage", "args", "array"} => FilePool /\ AtOption /\ ArgsRead
  /\ argv # << >> /\ pc = "array" => arg >= argc /\ model_pte # 0

LEMMA FilesInit == FInit => ArgsInv
<1> SUFFICES ASSUME FInit PROVE ArgsInv
  OBVIOUS
<1>1. CASE argv = << >>
  BY <1>1 DEF ArgsInv
<1>2. CASE argv # << >>
  <2>1. /\ argv \in Seq(STRING) /\ disk \in Disks /\ arg = 0 /\ buffers = << >> /\ model_pte = 0
        /\ input_file_allocator!Init /\ pc = "usage" /\ input_buffers = << >>
    BY <1>2, CommandsAssumption DEF FInit, SInit
  <2>2. /\ fcur_ = FileBase /\ fblocks = << >>
        /\ FileBase \in FileBase..FileBase + FileSize
    BY <2>1, FilePoolAssumption DEF input_file_allocator!Init
  <2>3. FilePool
    BY <2>2 DEF FilePool, input_file_allocator!BlocksDisjoint
  <2>4. AtOption
    BY <2>1, OptionSteps DEF AtOption
  <2>5. Before("-i", arg) = {} /\ Before("-m", arg) = {}
    BY <2>1, <2>4, BeforeSteps DEF AtOption
  <2>6. ArgsRead
    <3>1. Cardinality(Before("-i", arg)) = 0 /\ Cardinality(Before("-m", arg)) = 0
      BY <2>5, FS_EmptySet
    <3>2. Len(buffers) = 0 /\ Len(fblocks) = 0 /\ Len(input_buffers) = 0
      BY <2>1, <2>2
    <3>3. \A k \in 1..Len(buffers) : InputRead(k)
      BY <3>2
    <3> QED
      BY <2>1, <3>1, <3>2, <3>3 DEF ArgsRead
  <2> QED
    BY <2>1, <2>3, <2>4, <2>6 DEF ArgsInv
<1> QED
  BY <1>1, <1>2

\* A file that was read has a block of its size behind those of the others.
LEMMA FileReadStep ==
  ASSUME FilePool, disk \in Disks, NEW name, NEW read_size, read_binary_file(name, read_size),
         fret' # input_file_allocator!nullptr
  PROVE  /\ FilePool' /\ fret' \in Nat \ {0}
         /\ Len(fblocks) \in Nat /\ Len(fblocks') = Len(fblocks) + 1
         /\ fblocks'[Len(fblocks) + 1].start = fret'
         /\ fblocks'[Len(fblocks) + 1].size = disk[name]
         /\ \A b \in 1..Len(fblocks) : fblocks'[b] = fblocks[b]
<1> DEFINE size  == disk[name]
           start == input_file_allocator!alignPointer(fcur_, PtrSize)
           end   == input_file_allocator!Add(start, size)
           block == [start |-> start, size |-> size, align |-> PtrSize]
<1>1. size \in 0..M-1
  BY CommandsAssumption DEF read_binary_file, Opens
<1>2. /\ ~(end > FileBase + FileSize) /\ ~(end < start)
      /\ fcur_' = end /\ fblocks' = Append(fblocks, block) /\ fret' = start
  BY DEF read_binary_file, input_file_allocator!allocate, input_file_allocator!ReturnNull,
         input_file_allocator!nullptr, input_file_allocator!end_
<1>3. fcur_ \in FileBase..FileBase + FileSize /\ fblocks \in Seq(FileBlocks)
  BY DEF FilePool
<1>4. start \in fcur_..M-1
  <2> DEFINE r == fcur_ % PtrSize
  <2>1. r \in 0..PtrSize-1 /\ r <= fcur_
    BY <1>3, FilePoolAssumption
  <2>2. start = IF r = 0 THEN fcur_ ELSE input_file_allocator!Add(fcur_ - r, PtrSize)
    BY DEF input_file_allocator!alignPointer, input_file_allocator!NextMultiple
  <2> HIDE DEF r, start
  <2>3. r # 0 => fcur_ - r + PtrSize < M
    BY <1>3, <2>1, FilePoolAssumption
  <2>4. r # 0 => start = fcur_ - r + PtrSize
    BY <2>2, <2>3 DEF input_file_allocator!Add
  <2> QED
    BY <1>3, <2>1, <2>2, <2>3, <2>4, FilePoolAssumption
<1> HIDE DEF size, start
<1>5. end = start + size /\ start + size <= FileBase + FileSize /\ fcur_ <= start
      /\ start \in Nat \ {0} /\ size \in Nat /\ fcur_ \in Nat
  <2>1. end = IF start + size < M THEN start + size ELSE start + size - M
    BY DEF input_file_allocator!Add
  <2> HIDE DEF end
  <2> QED
    BY <1>1, <1>2, <1>3, <1>4, <2>1, FilePoolAssumption
<1> HIDE DEF end
<1>6. block \in FileBlocks /\ block.start = start /\ block.size = size
  BY <1>5, FilePoolAssumption DEF FileBlocks
<1> HIDE DEF block
<1>7. /\ Len(fblocks) \in Nat /\ Len(fblocks') = Len(fblocks) + 1
      /\ fblocks' \in Seq(FileBlocks) /\ fblocks'[Len(fblocks) + 1] = block
      /\ \A b \in 1..Len(fblocks) : fblocks'[b] = fblocks[b]
  BY <1>2, <1>3, <1>6
<1>8. \A b \in 1..Len(fblocks) :
        /\ fblocks[b].start \in Nat /\ fblocks[b].size \in Nat
        /\ fblocks[b].start + fblocks[b].size <= fcur_
  <2> TAKE b \in 1..Len(fblocks)
  <2>1. fblocks[b] \in FileBlocks
    BY <1>3
  <2> QED
    BY <2>1 DEF FilePool, FileBlocks
<1>9. fcur_' = start + size /\ fcur_' \in FileBase..FileBase + FileSize
  BY <1>2, <1>3, <1>5, FilePoolAssumption
<1>10. \A b \in 1..Len(fblocks') : fblocks'[b].start + fblocks'[b].size <= fcur_'
  <2> TAKE b \in 1..Len(fblocks')
  <2>1. CASE b \in 1..Len(fblocks)
    BY <1>5, <1>7, <1>8, <1>9, <2>1
  <2>2. CASE b = Len(fblocks) + 1
    BY <1>5, <1>6, <1>7, <1>9, <2>2
  <2> QED
    BY <1>7, <2>1, <2>2
<1>11. input_file_allocator!BlocksDisjoint'
  <2> SUFFICES ASSUME NEW a \in 1..Len(fblocks'), NEW b \in 1..Len(fblocks'), a < b
               PROVE  fblocks'[a].start + fblocks'[a].size <= fblocks'[b].start
    BY DEF input_file_allocator!BlocksDisjoint
  <2>1. a \in 1..Len(fblocks) /\ fblocks'[a] = fblocks[a]
    BY <1>7
  <2>2. CASE b \in 1..Len(fblocks)
    BY <1>7, <2>1, <2>2 DEF FilePool, input_file_allocator!BlocksDisjoint
  <2>3. CASE b = Len(fblocks) + 1
    BY <1>5, <1>6, <1>7, <1>8, <2>1, <2>3
  <2> QED
    BY <1>7, <2>2, <2>3
<1>12. FilePool'
  BY <1>7, <1>9, <1>10, <1>11 DEF FilePool
<1> QED
  BY <1>2, <1>5, <1>6, <1>7, <1>12 DEF size

\* The command line stays what it is, and so do its options.
LEMMA SameOptions ==
  ASSUME UNCHANGED argv
  PROVE  /\ argc' = argc /\ IsOption' = IsOption
         /\ \A j : Arg(j)' = Arg(j)
         /\ \A flag, a : Before(flag, a)' = Before(flag, a)
  BY DEF argc, IsOption, Arg, Before, Named

LEMMA BeforeFinite ==
  ASSUME argv \in Seq(STRING), NEW flag, NEW a
  PROVE  IsFiniteSet(Before(flag, a))
<1>1. argc - 1 \in Int /\ Before(flag, a) \subseteq 0..argc - 1
  BY DEF argc, Before, Named
<1>2. IsFiniteSet(0..argc - 1)
  BY <1>1, FS_Interval
<1> QED
  BY <1>1, <1>2, FS_Subset

\* An option more.
LEMMA OneMore ==
  ASSUME argv \in Seq(STRING), AtOption, NEW flag
  PROVE  /\ Cardinality(Before(flag, arg)) \in Nat
         /\ Cardinality(Before(flag, arg) \cup {arg}) = Cardinality(Before(flag, arg)) + 1
<1>1. arg \notin Before(flag, arg)
  BY DEF Before, AtOption
<1> QED
  BY <1>1, BeforeFinite, FS_AddElement, FS_CardinalityType

\* Inputs and model stay what they are when blocks are added behind theirs, and
\* no other model is named.
LEMMA ReadsKept ==
  ASSUME UNCHANGED <<argv, disk>>, NEW n \in Nat,
         Before("-i", arg) \subseteq Before("-i", arg'),
         Len(fblocks) \in Nat, Len(fblocks') >= Len(fblocks), Len(fblocks') \in Nat,
         \A b \in 1..Len(fblocks) : fblocks'[b] = fblocks[b],
         \A k \in 1..n : buffers'[k] = buffers[k] /\ input_buffers'[k] = input_buffers[k]
  PROVE  /\ \A k \in 1..n : InputRead(k) => InputRead(k)'
         /\ Before("-m", arg') = Before("-m", arg) /\ ModelRead /\ UNCHANGED model_pte => ModelRead'
<1>1. /\ \A j : Arg(j)' = Arg(j)
      /\ \A flag, a : Before(flag, a)' = Before(flag, a)
  BY SameOptions
<1>2. Before("-i", arg)' = Before("-i", arg') /\ Before("-m", arg)' = Before("-m", arg')
  BY DEF Before, Named, IsOption, argc, Arg
<1>3. ASSUME NEW k \in 1..n, InputRead(k) PROVE InputRead(k)'
  <2>1. PICK j \in Before("-i", arg), b \in 1..Len(fblocks) :
           /\ Cardinality(Before("-i", j)) = k - 1
           /\ fblocks[b].start = buffers[k] /\ fblocks[b].size = disk[Arg(j + 1)]
           /\ input_buffers[k] <= fblocks[b].size
    BY <1>3 DEF InputRead
  <2>2. b \in 1..Len(fblocks') /\ fblocks'[b] = fblocks[b]
    OBVIOUS
  <2>3. j \in Before("-i", arg)' /\ Cardinality(Before("-i", j))' = k - 1
    BY <1>1, <1>2, <2>1
  <2>4. disk'[Arg(j + 1)'] = disk[Arg(j + 1)]
    BY <1>1
  <2> QED
    BY <2>1, <2>2, <2>3, <2>4 DEF InputRead
<1>4. ASSUME Before("-m", arg') = Before("-m", arg), ModelRead, UNCHANGED model_pte
      PROVE  ModelRead'
  <2>1. PICK j \in Before("-m", arg), b \in 1..Len(fblocks) :
           /\ \A l \in Before("-m", arg) : l <= j
           /\ fblocks[b].start = model_pte /\ fblocks[b].size = disk[Arg(j + 1)]
    BY <1>4 DEF ModelRead
  <2>2. b \in 1..Len(fblocks') /\ fblocks'[b] = fblocks[b]
    OBVIOUS
  <2>3. j \in Before("-m", arg)' /\ (\A l \in Before("-m", arg)' : l <= j)
    BY <1>2, <1>4, <2>1
  <2>4. disk'[Arg(j + 1)'] = disk[Arg(j + 1)]
    BY <1>1
  <2> QED
    BY <1>4, <2>1, <2>2, <2>3, <2>4 DEF ModelRead
<1> QED
  BY <1>3, <1>4

LEMMA ArgsReadInput ==
  ASSUME ArgsInv, ReadInput, argv # << >>
  PROVE  FilePool' /\ AtOption' /\ ArgsRead'
<1>1. /\ pc = "args" /\ arg < argc /\ Arg(arg) = "-i" /\ arg' = arg + 2
      /\ fret' # input_file_allocator!nullptr /\ buffers' = Append(buffers, fret')
      /\ UNCHANGED <<argv, disk, model_pte>>
  BY DEF ReadInput
<1>2. PICK read_size \in 0..M-1 : /\ read_binary_file(Arg(arg + 1), read_size)
                                  /\ input_buffers' = Append(input_buffers, read_size)
  BY DEF ReadInput
<1>3. argv \in Seq(STRING) /\ disk \in Disks /\ FilePool /\ AtOption /\ ArgsRead
  BY <1>1 DEF ArgsInv
<1>n. PICK n \in Nat : n = Len(buffers)
  BY <1>3 DEF ArgsRead
<1>o. PICK o : o = arg
  OBVIOUS
<1>4. /\ FilePool' /\ fret' \in Nat \ {0}
      /\ Len(fblocks) \in Nat /\ Len(fblocks') = Len(fblocks) + 1
      /\ fblocks'[Len(fblocks) + 1].start = fret'
      /\ fblocks'[Len(fblocks) + 1].size = disk[Arg(arg + 1)]
      /\ \A b \in 1..Len(fblocks) : fblocks'[b] = fblocks[b]
  BY <1>1, <1>2, <1>3, FileReadStep
<1>5. /\ Before("-i", arg') = Before("-i", arg) \cup {arg}
      /\ Before("-m", arg') = Before("-m", arg)
      /\ arg' <= argc => IsOption[arg']
  BY <1>1, <1>3, BeforeSteps DEF AtOption, TakesValue
<1>6. AtOption'
  BY <1>1, <1>3, <1>5, SameOptions DEF AtOption
<1>7. /\ n \in Nat /\ buffers' \in Seq(Nat) /\ Len(buffers') = n + 1
      /\ input_buffers' \in Seq(Nat) /\ Len(input_buffers') = n + 1
      /\ buffers'[n + 1] = fret' /\ input_buffers'[n + 1] = read_size
      /\ \A k \in 1..n : buffers'[k] = buffers[k] /\ input_buffers'[k] = input_buffers[k]
  <2>1. /\ buffers \in Seq(Nat) /\ input_buffers \in Seq(Nat) /\ Len(input_buffers) = n
        /\ read_size \in Nat /\ fret' \in Nat
    BY <1>3, <1>n, <1>4, FilePoolAssumption DEF ArgsRead
  <2> QED
    BY <1>1, <1>2, <1>n, <2>1
<1>8. /\ n = Cardinality(Before("-i", arg))
      /\ Len(fblocks) = n + Cardinality(Before("-m", arg))
  BY <1>3, <1>n DEF ArgsRead
<1>9. Before("-i", arg)' = Before("-i", arg') /\ Before("-m", arg)' = Before("-m", arg')
  BY <1>1 DEF Before, Named, IsOption, argc, Arg
<1>10. /\ Cardinality(Before("-i", arg)') = n + 1
       /\ Len(fblocks') = n + 1 + Cardinality(Before("-m", arg)')
  <2>1. Cardinality(Before("-i", arg) \cup {arg}) = n + 1 /\ Cardinality(Before("-m", arg)) \in Nat
    BY <1>3, <1>8, OneMore
  <2>2. Before("-i", arg)' = Before("-i", arg) \cup {arg} /\ Before("-m", arg)' = Before("-m", arg)
    BY <1>5, <1>9, Zenon
  <2>3. Cardinality(Before("-i", arg)') = n + 1
        /\ Cardinality(Before("-m", arg)') = Cardinality(Before("-m", arg))
    BY <2>1, <2>2, Zenon
  <2> QED
    BY <1>4, <1>8, <2>1, <2>3
<1>11. /\ \A k \in 1..n : InputRead(k) => InputRead(k)'
       /\ ModelRead /\ UNCHANGED model_pte => ModelRead'
  <2>1. Len(fblocks') >= Len(fblocks) /\ Len(fblocks') \in Nat
    BY <1>4
  <2> QED
    BY <1>1, <1>4, <1>5, <1>7, <2>1, ReadsKept
<1>12. InputRead(n + 1)'
  <2>1. o \in Before("-i", arg)'
    BY <1>5, <1>9, <1>o
  <2>2. Cardinality(Before("-i", o)') = n
    BY <1>1, <1>8, <1>o, SameOptions
  <2>3. n = n + 1 - 1
    OBVIOUS
  <2>4. Len(fblocks) + 1 \in 1..Len(fblocks')
    BY <1>4
  <2>5. fblocks'[Len(fblocks) + 1].size = disk'[Arg(o + 1)']
    BY <1>1, <1>4, <1>o, SameOptions
  <2>6. fblocks'[Len(fblocks) + 1].start = buffers'[n + 1]
    BY <1>4, <1>7
  <2>7. input_buffers'[n + 1] <= fblocks'[Len(fblocks) + 1].size
    BY <1>2, <1>4, <1>7 DEF read_binary_file
  <2>8. PICK b : b = Len(fblocks) + 1
    OBVIOUS
  <2>9. /\ Cardinality(Before("-i", o)') = n + 1 - 1
        /\ b \in 1..Len(fblocks')
        /\ fblocks'[b].start = buffers'[n + 1] /\ fblocks'[b].size = disk'[Arg(o + 1)']
        /\ input_buffers'[n + 1] <= fblocks'[b].size
    BY <2>2, <2>3, <2>4, <2>5, <2>6, <2>7, <2>8
  <2> QED
    BY <2>1, <2>9 DEF InputRead
<1>13. ArgsRead'
  <2>1. \A k \in 1..n + 1 : InputRead(k)'
    <3>1. \A k \in 1..n : InputRead(k)'
      BY <1>3, <1>n, <1>11 DEF ArgsRead
    <3>2. \A k \in 1..n + 1 : k \in 1..n \/ k = n + 1
      BY <1>7
    <3> QED
      BY <1>12, <3>1, <3>2
  <2>2. model_pte' # 0 => ModelRead'
    BY <1>1, <1>3, <1>11 DEF ArgsRead
  <2> QED
    BY <1>7, <1>10, <2>1, <2>2 DEF ArgsRead
<1> QED
  BY <1>4, <1>6, <1>13

LEMMA ArgsReadModel ==
  ASSUME ArgsInv, ReadModel, argv # << >>
  PROVE  FilePool' /\ AtOption' /\ ArgsRead'
<1>1. /\ pc = "args" /\ arg < argc /\ Arg(arg) = "-m" /\ arg' = arg + 2
      /\ read_binary_file(Arg(arg + 1), 0)
      /\ fret' # input_file_allocator!nullptr /\ model_pte' = fret'
      /\ UNCHANGED <<argv, disk, buffers, input_buffers>>
  BY DEF ReadModel
<1>2. argv \in Seq(STRING) /\ disk \in Disks /\ FilePool /\ AtOption /\ ArgsRead
  BY <1>1 DEF ArgsInv
<1>3. PICK n \in Nat : n = Len(buffers)
  BY <1>2 DEF ArgsRead
<1>4. /\ FilePool' /\ fret' \in Nat \ {0}
      /\ Len(fblocks) \in Nat /\ Len(fblocks') = Len(fblocks) + 1
      /\ fblocks'[Len(fblocks) + 1].start = fret'
      /\ fblocks'[Len(fblocks) + 1].size = disk[Arg(arg + 1)]
      /\ \A b \in 1..Len(fblocks) : fblocks'[b] = fblocks[b]
  BY <1>1, <1>2, FileReadStep
<1>5. /\ Before("-m", arg') = Before("-m", arg) \cup {arg}
      /\ Before("-i", arg') = Before("-i", arg)
      /\ arg' <= argc => IsOption[arg']
  BY <1>1, <1>2, BeforeSteps DEF AtOption, TakesValue
<1>6. AtOption'
  BY <1>1, <1>2, <1>5, SameOptions DEF AtOption
<1>7. /\ n = Cardinality(Before("-i", arg))
      /\ Len(fblocks) = n + Cardinality(Before("-m", arg))
  BY <1>2, <1>3 DEF ArgsRead
<1>8. Before("-i", arg)' = Before("-i", arg') /\ Before("-m", arg)' = Before("-m", arg')
  BY <1>1 DEF Before, Named, IsOption, argc, Arg
<1>9. /\ Cardinality(Before("-i", arg)') = n
      /\ Len(fblocks') = n + Cardinality(Before("-m", arg)')
  <2>1. /\ Cardinality(Before("-m", arg) \cup {arg}) = Cardinality(Before("-m", arg)) + 1
        /\ Cardinality(Before("-m", arg)) \in Nat
    BY <1>2, OneMore
  <2>2. Before("-m", arg)' = Before("-m", arg) \cup {arg} /\ Before("-i", arg)' = Before("-i", arg)
    BY <1>5, <1>8, Zenon
  <2>3. /\ Cardinality(Before("-i", arg)') = n
        /\ Cardinality(Before("-m", arg)') = Cardinality(Before("-m", arg)) + 1
    BY <1>7, <2>1, <2>2, Zenon
  <2> QED
    BY <1>4, <1>7, <2>1, <2>3
<1>10. \A k \in 1..n : InputRead(k)'
  <2>1. Len(fblocks') >= Len(fblocks) /\ Len(fblocks') \in Nat
    BY <1>4
  <2>2. \A k \in 1..n : InputRead(k) => InputRead(k)'
    BY <1>1, <1>4, <1>5, <2>1, ReadsKept
  <2> QED
    BY <1>2, <1>3, <2>2 DEF ArgsRead
<1>11. ModelRead'
  <2>1. PICK o, b : o = arg /\ b = Len(fblocks) + 1
    OBVIOUS
  <2>2. o \in Before("-m", arg)' /\ b \in 1..Len(fblocks')
    BY <1>4, <1>5, <1>8, <2>1
  <2>3. \A l \in Before("-m", arg)' : l <= o
    <3>1. arg \in Nat /\ \A l \in Before("-m", arg) : l \in 0..argc - 1 /\ l < arg
      BY <1>2 DEF AtOption, Before, Named
    <3>2. Before("-m", arg)' = Before("-m", arg) \cup {arg}
      BY <1>5, <1>8
    <3> QED
      BY <2>1, <3>1, <3>2
  <2>4. fblocks'[b].start = model_pte' /\ fblocks'[b].size = disk'[Arg(o + 1)']
    BY <1>1, <1>4, <2>1, SameOptions
  <2> QED
    BY <2>2, <2>3, <2>4 DEF ModelRead
<1>12. ArgsRead'
  <2>1. Len(buffers') = n /\ Len(input_buffers') = n /\ buffers' \in Seq(Nat) /\ input_buffers' \in Seq(Nat)
    BY <1>1, <1>2, <1>3 DEF ArgsRead
  <2> QED
    BY <1>9, <1>10, <1>11, <2>1 DEF ArgsRead
<1> QED
  BY <1>4, <1>6, <1>12

\* What is no option of a file leaves the files alone.
LEMMA ArgsOther ==
  ASSUME ArgsInv, OtherArg, argv # << >>
  PROVE  FilePool' /\ AtOption' /\ ArgsRead'
<1>1. /\ pc = "args" /\ arg < argc /\ Arg(arg) \notin {"-i", "-m"}
      /\ arg' = arg + (IF Arg(arg) = "-o" THEN 2 ELSE 1)
      /\ UNCHANGED <<argv, disk, buffers, input_buffers, model_pte, fcur_, fblocks>>
  BY DEF OtherArg, prepare, pool
<1>2. argv \in Seq(STRING) /\ FilePool /\ AtOption /\ ArgsRead
  BY <1>1 DEF ArgsInv
<1>3. PICK n \in Nat : n = Len(buffers)
  BY <1>2 DEF ArgsRead
<1>4. /\ Before("-i", arg') = Before("-i", arg)
      /\ Before("-m", arg') = Before("-m", arg)
      /\ arg' <= argc => IsOption[arg']
  <2>1. CASE Arg(arg) = "-o"
    BY <1>1, <1>2, <2>1, BeforeSteps DEF AtOption, TakesValue
  <2>2. CASE Arg(arg) # "-o"
    BY <1>1, <1>2, <2>2, BeforeSteps DEF AtOption, TakesValue
  <2> QED
    BY <2>1, <2>2
<1>5. AtOption'
  BY <1>1, <1>2, <1>4, SameOptions DEF AtOption
<1>6. Before("-i", arg)' = Before("-i", arg') /\ Before("-m", arg)' = Before("-m", arg')
  BY <1>1 DEF Before, Named, IsOption, argc, Arg
<1>7. /\ \A k \in 1..n : InputRead(k) => InputRead(k)'
      /\ ModelRead => ModelRead'
  <2>1. Len(fblocks') >= Len(fblocks) /\ Len(fblocks') \in Nat /\ Len(fblocks) \in Nat
    BY <1>1, <1>2 DEF FilePool
  <2> QED
    BY <1>1, <1>4, <2>1, ReadsKept
<1>8. /\ Cardinality(Before("-i", arg)') = Cardinality(Before("-i", arg))
      /\ Cardinality(Before("-m", arg)') = Cardinality(Before("-m", arg))
  BY <1>4, <1>6, Zenon
<1>9. ArgsRead'
  BY <1>1, <1>2, <1>3, <1>7, <1>8 DEF ArgsRead
<1>10. FilePool'
  BY <1>1, <1>2 DEF FilePool, input_file_allocator!BlocksDisjoint
<1> QED
  BY <1>5, <1>9, <1>10

\* What leaves the arguments and what was read of them alone.
LEMMA ArgsKept ==
  ASSUME FilePool, AtOption, ArgsRead, UNCHANGED <<files, input_buffers>>
  PROVE  FilePool' /\ AtOption' /\ ArgsRead'
<1>1. UNCHANGED <<argv, disk, arg, buffers, model_pte, fcur_, fblocks, input_buffers>>
  BY DEF files, pool
<1>2. FilePool'
  BY <1>1 DEF FilePool, input_file_allocator!BlocksDisjoint
<1>3. AtOption' /\ Before("-i", arg)' = Before("-i", arg) /\ Before("-m", arg)' = Before("-m", arg)
  BY <1>1 DEF AtOption, Before, Named, IsOption, argc, Arg
<1>4. (\A k : InputRead(k)' = InputRead(k)) /\ ModelRead' = ModelRead
  BY <1>1 DEF InputRead, ModelRead, Before, Named, IsOption, argc, Arg
<1>5. ArgsRead'
  BY <1>1, <1>3, <1>4 DEF ArgsRead
<1> QED
  BY <1>2, <1>3, <1>5

LEMMA ArgsNext ==
  ASSUME ArgsInv, FNext \/ UNCHANGED fvars
  PROVE  ArgsInv'
<1>1. UNCHANGED <<argv, disk>>
  BY DEF FNext, Arguments, CheckUsage, ExitOnFile, ReadInput, ReadModel, OtherArg, LoadModel,
         files, fvars
<1>2. argv' \in Seq(STRING) /\ (argv' # << >> => disk' \in Disks)
  BY <1>1 DEF ArgsInv
<1>3. CASE argv = << >>
  BY <1>1, <1>2, <1>3 DEF ArgsInv
<1>4. CASE argv # << >>
  <2>1. CASE CheckUsage
    <3>1. pc = "usage" /\ pc' \in {"exit", "args"} /\ UNCHANGED <<files, input_buffers>>
      BY <2>1 DEF CheckUsage
    <3>2. FilePool' /\ AtOption' /\ ArgsRead'
      BY <1>4, <3>1, ArgsKept DEF ArgsInv
    <3> QED
      BY <1>2, <3>1, <3>2 DEF ArgsInv
  <2>2. CASE ExitOnFile
    BY <1>2, <2>2 DEF ArgsInv, ExitOnFile
  <2>3. CASE ReadInput
    <3>1. pc' = "args"
      BY <2>3 DEF ReadInput
    <3> QED
      BY <1>2, <1>4, <2>3, <3>1, ArgsReadInput DEF ArgsInv
  <2>4. CASE ReadModel
    <3>1. pc' = "args"
      BY <2>4 DEF ReadModel
    <3> QED
      BY <1>2, <1>4, <2>4, <3>1, ArgsReadModel DEF ArgsInv
  <2>5. CASE OtherArg
    <3>1. pc' = "args"
      BY <2>5 DEF OtherArg
    <3> QED
      BY <1>2, <1>4, <2>5, <3>1, ArgsOther DEF ArgsInv
  <2>6. CASE LoadModel
    <3>1. /\ pc = "args" /\ arg >= argc /\ pc' \in {"array", "crash", "hang"}
          /\ pc' = "array" => model_pte # 0
          /\ UNCHANGED <<files, input_buffers>>
      BY <2>6 DEF LoadModel
    <3>2. FilePool' /\ AtOption' /\ ArgsRead'
      BY <1>4, <3>1, ArgsKept DEF ArgsInv
    <3>3. arg' = arg /\ argc' = argc /\ model_pte' = model_pte
      BY <1>1, <3>1, SameOptions DEF files
    <3> QED
      BY <1>2, <3>1, <3>2, <3>3 DEF ArgsInv
  <2>7. CASE Next
    <3>1. pc' \notin {"usage", "args", "array"}
      BY <2>7 DEF Next, AllocateArray, GetInputs, MetaFails, SkipNonTensor, CopyFile, Mismatch,
             FillOnes, Return, Looping, NextInput, Fail
    <3> QED
      BY <1>2, <3>1 DEF ArgsInv
  <2>8. CASE UNCHANGED fvars
    <3>1. pc' = pc /\ UNCHANGED <<files, input_buffers>>
      BY <2>8 DEF fvars, vars, args
    <3>2. arg' = arg /\ argc' = argc /\ model_pte' = model_pte
      BY <1>1, <3>1, SameOptions DEF files
    <3>3. pc \in {"usage", "args", "array"} => FilePool' /\ AtOption' /\ ArgsRead'
      BY <1>4, <3>1, ArgsKept DEF ArgsInv
    <3> QED
      BY <1>1, <1>2, <1>4, <3>1, <3>2, <3>3 DEF ArgsInv
  <2> QED
    BY <2>1, <2>2, <2>3, <2>4, <2>5, <2>6, <2>7, <2>8 DEF FNext, Arguments
<1> QED
  BY <1>3, <1>4

\* When runner_init begins, every file that is named was read, whatever else the
\* command line holds: the k-th input is what was read of the file the k-th -i
\* names and the model that of the last -m, in blocks of their own.
THEOREM ReadsFilesAsNamed == FSpec => []FilesAsNamed
<1>1. ArgsInv /\ [FNext]_fvars => ArgsInv'
  BY ArgsNext
<1>2. ArgsInv => FilesAsNamed
  <2> SUFFICES ASSUME ArgsInv, pc = "array", argv # << >> PROVE FilesAsNamed
    BY DEF FilesAsNamed
  <2>1. /\ argv \in Seq(STRING) /\ FilePool /\ AtOption /\ ArgsRead
        /\ arg >= argc /\ model_pte # 0
    BY DEF ArgsInv
  <2>2. Before("-i", arg) = Named("-i") /\ Before("-m", arg) = Named("-m")
    BY <2>1, BeforeSteps DEF AtOption
  <2>3. /\ Len(buffers) = Cardinality(Named("-i"))
        /\ Len(fblocks) = Len(buffers) + Cardinality(Named("-m"))
    BY <2>1, <2>2 DEF ArgsRead
  <2>4. \A k \in 1..Len(buffers) :
          \E j \in Named("-i"), b \in 1..Len(fblocks) :
            /\ Cardinality({l \in Named("-i") : l < j}) = k - 1
            /\ fblocks[b].start = buffers[k] /\ fblocks[b].size = disk[Arg(j + 1)]
            /\ input_buffers[k] <= fblocks[b].size
    <3>1. \A j : Before("-i", j) = {l \in Named("-i") : l < j}
      BY DEF Before
    <3>2. \A k \in 1..Len(buffers) : InputRead(k)
      BY <2>1 DEF ArgsRead
    <3> TAKE k \in 1..Len(buffers)
    <3>3. PICK j \in Before("-i", arg), b \in 1..Len(fblocks) :
            /\ Cardinality(Before("-i", j)) = k - 1
            /\ fblocks[b].start = buffers[k] /\ fblocks[b].size = disk[Arg(j + 1)]
            /\ input_buffers[k] <= fblocks[b].size
      BY <3>2 DEF InputRead
    <3>4. j \in Named("-i") /\ Cardinality({l \in Named("-i") : l < j}) = k - 1
      BY <2>2, <3>1, <3>3
    <3> QED
      BY <3>3, <3>4
  <2>5. \E j \in Named("-m"), b \in 1..Len(fblocks) :
          /\ \A l \in Named("-m") : l <= j
          /\ fblocks[b].start = model_pte /\ fblocks[b].size = disk[Arg(j + 1)]
    BY <2>1, <2>2 DEF ArgsRead, ModelRead
  <2> QED
    BY <2>1, <2>3, <2>4, <2>5 DEF FilesAsNamed, FilePool
<1> QED
  BY <1>1, <1>2, FilesInit, PTL DEF FSpec
=============================================================================
