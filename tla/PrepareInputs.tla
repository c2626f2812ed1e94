----------------------------- MODULE PrepareInputs -----------------------------
(***************************************************************************)
(* prepare_input_tensors: the inputs of the method are copied out into an  *)
(* array taken from the method pool, and the tensors among them are filled *)
(* from the files read over semihosting, or with ones when there is none.  *)
(***************************************************************************)
EXTENDS Naturals, Sequences

CONSTANTS
  Width, M, PoolBase, PoolSize,   \* method_allocator (see ArmAllocator)
  Tops,             \* where load_method may have left cur_
  PtrSize,          \* sizeof(EValue*), and the default alignment
  EValueSize,       \* sizeof(EValue)
  Methods,          \* inputs of the methods, sequences of [tag, dtype, nbytes]
  Files             \* what may be passed as input_buffers: sequences of sizes

ASSUME TopsAssumption == Tops \subseteq PoolBase..PoolBase+PoolSize
ASSUME MethodsAssumption ==
  Methods \subseteq Seq([tag : STRING, dtype : STRING, nbytes : Nat])

VARIABLES
  inputs,           \* the method's
  semihosting,      \* the SEMIHOSTING build
  input_buffers,    \* sizes; only a SEMIHOSTING build has any
  pc,               \* "array", "get", "loop", "done"
  input_evalues,    \* address of the array, 0 for nullptr
  writtenEnd,       \* end of what get_inputs stored there
  i, err,
  data,             \* of each input: "loaded" with the method, "ones", or "file"
  cur_, used_, blocks, ret

alloc == <<cur_, used_, blocks, ret>>
args  == <<inputs, semihosting, input_buffers>>
vars  == <<args, pc, input_evalues, writtenEnd, i, err, data, alloc>>

method_allocator == INSTANCE ArmAllocator
  WITH Base <- PoolBase, Sizes <- {}, Aligns <- {PtrSize}, Counts <- {},
       MaxBlocks <- 0, call <- << >>

num_inputs == Len(inputs)

Init ==
  /\ inputs \in Methods /\ semihosting \in BOOLEAN
  /\ input_buffers \in IF semihosting THEN Files ELSE {<< >>}
  /\ pc = "array" /\ input_evalues = 0 /\ writtenEnd = 0 /\ i = 0 /\ err = "Ok"
  /\ data = [j \in 1..Len(inputs) |-> "loaded"]
  /\ cur_ \in Tops /\ used_ = cur_ - PoolBase /\ blocks = << >> /\ ret = 0

Fail(e) == err' = e /\ pc' = "done"

\* The number of files is checked, then the array is allocated.
AllocateArray ==
  /\ pc = "array"
  /\ IF semihosting /\ ~(input_buffers # << >> /\ Len(input_buffers) = num_inputs)
     THEN Fail("InvalidArgument") /\ UNCHANGED <<input_evalues, alloc>>
     ELSE /\ method_allocator!allocate(num_inputs * PtrSize, PtrSize)
          /\ input_evalues' = ret'
          /\ IF ret' = method_allocator!nullptr
             THEN Fail("MemoryAllocationFailed") ELSE pc' = "get" /\ UNCHANGED err
  /\ UNCHANGED <<args, writtenEnd, i, data>>

\* Method::get_inputs stores one EValue for each input, or fails.
GetInputs ==
  /\ pc = "get"
  /\ \/ Fail("Error") /\ UNCHANGED writtenEnd
     \/ /\ writtenEnd' = input_evalues + num_inputs * EValueSize
        /\ pc' = "loop" /\ UNCHANGED err
  /\ UNCHANGED <<args, input_evalues, i, data, alloc>>

input == inputs[i + 1]
Looping == pc = "loop" /\ i < num_inputs
NextInput == i' = i + 1 /\ UNCHANGED <<args, pc, input_evalues, writtenEnd, alloc>>

\* Mutant: an input that is no tensor ends the loop.
SkipNonTensor_Returns ==
  /\ Looping /\ input.tag # "Tensor"
  /\ pc' = "done"
  /\ UNCHANGED <<args, input_evalues, writtenEnd, i, err, data, alloc>>

SkipNonTensor ==
  /\ Looping /\ input.tag # "Tensor"
  /\ NextInput /\ UNCHANGED <<err, data>>

\* The metadata of an input cannot be read.
MetaFails ==
  /\ Looping /\ Fail("Error")
  /\ UNCHANGED <<args, input_evalues, writtenEnd, i, data, alloc>>

\* Mutant: a shorter file is copied too.
CopyFile_Shorter ==
  /\ Looping /\ input.tag = "Tensor" /\ input_buffers # << >>
  /\ input_buffers[i + 1] <= input.nbytes
  /\ data' = [data EXCEPT ![i + 1] = "file"]
  /\ err' = "Ok"
  /\ NextInput

CopyFile ==
  /\ Looping /\ input.tag = "Tensor" /\ input_buffers # << >>
  /\ input_buffers[i + 1] = input.nbytes
  /\ data' = [data EXCEPT ![i + 1] = "file"]
  /\ err' = "Ok"
  /\ NextInput

\* Mutant: the mismatch is logged only.
Mismatch_LogOnly ==
  /\ Looping /\ input.tag = "Tensor" /\ input_buffers # << >>
  /\ input_buffers[i + 1] # input.nbytes
  /\ err' = "Ok"
  /\ NextInput /\ UNCHANGED data

Mismatch ==
  /\ Looping /\ input.tag = "Tensor" /\ input_buffers # << >>
  /\ input_buffers[i + 1] # input.nbytes
  /\ err' = "InvalidArgument"
  /\ NextInput /\ UNCHANGED data

\* The types the switch has a case for; a tensor of another type stays as it is.
Filled == {"Int", "Float", "Char"}

FillOnes ==
  /\ Looping /\ input.tag = "Tensor" /\ input_buffers = << >>
  /\ data' = IF input.dtype \in Filled THEN [data EXCEPT ![i + 1] = "ones"] ELSE data
  /\ err' = "Ok"
  /\ NextInput

Return ==
  /\ pc = "loop" /\ i = num_inputs
  /\ pc' = "done"
  /\ UNCHANGED <<args, input_evalues, writtenEnd, i, err, data, alloc>>

Next == \/ AllocateArray \/ GetInputs \/ SkipNonTensor \/ MetaFails \/ CopyFile
        \/ Mismatch \/ FillOnes \/ Return

Spec == Init /\ [][Next]_vars

-----------------------------------------------------------------------------
(* Properties *)

Succeeded == pc = "done" /\ err = "Ok"
Tensors(S) == {j \in 1..num_inputs : inputs[j].tag = "Tensor" /\ inputs[j].dtype \in S}

\* Types; the index never passes the last input.
TypeOK ==
  /\ pc \in {"array", "get", "loop", "done"} /\ i \in 0..num_inputs
  /\ err \in {"Ok", "Error", "InvalidArgument", "MemoryAllocationFailed"}
  /\ data \in [1..num_inputs -> {"loaded", "ones", "file"}]
  /\ cur_ \in PoolBase..PoolBase+PoolSize /\ used_ \in 0..M-1

\* Without files, success means that every tensor of the three types of the
\* switch is all ones and that nothing else was touched: prepare_input_tensors
\* leaves the tensors of other types, and inputs that are no tensors, as loaded.
OnesWhenNoFiles ==
  Succeeded /\ ~semihosting =>
    \A j \in 1..num_inputs :
      data[j] = IF j \in Tensors(Filled) THEN "ones" ELSE "loaded"

\* A file reaches only the tensor at its own position and of its own size, also
\* when inputs that are no tensors stand between; and a tensor whose file was
\* refused keeps its data.
FilesMatch ==
  \A j \in 1..num_inputs :
    /\ data[j] = "file" => inputs[j].tag = "Tensor" /\ input_buffers[j] = inputs[j].nbytes
    /\ Succeeded /\ semihosting /\ inputs[j].tag = "Tensor" =>
         (data[j] = "file") = (input_buffers[j] = inputs[j].nbytes)

\* A mismatch of the last tensor is reported, and so is a missing file.
LastMismatchReported ==
  Succeeded /\ semihosting =>
    /\ Len(input_buffers) = num_inputs
    /\ \A j \in 1..num_inputs :
         inputs[j].tag = "Tensor" /\ (\A l \in j+1..num_inputs : inputs[l].tag # "Tensor") =>
           data[j] = "file"

\* "input size and tensor size mismatch!": a size that does not match is an
\* error of prepare_input_tensors, whichever input it is.
MismatchReported ==
  Succeeded /\ semihosting =>
    \A j \in 1..num_inputs :
      inputs[j].tag = "Tensor" => input_buffers[j] = inputs[j].nbytes

\* The size passed to get_inputs, num_inputs elements, is that of the array.
EValuesFit ==
  writtenEnd # 0 =>
    \E b \in 1..Len(blocks) :
      blocks[b].start = input_evalues /\ writtenEnd <= input_evalues + blocks[b].size
=============================================================================
