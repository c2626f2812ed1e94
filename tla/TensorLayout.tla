------------------------------ MODULE TensorLayout ------------------------------
(***************************************************************************)
(* How a tensor's sizes, dimension order and strides describe one storage: *)
(* dim_order_util.h, the checks and the indexing of tensor_util.h, the     *)
(* views of tensor_ptr.h, TensorAccessor and the layouts that              *)
(* TensorFactory makes.  The firmware's inputs and outputs are such        *)
(* tensors, read and written through their flat data.                      *)
(*                                                                         *)
(* Dimensions are numbered from 1 here and coordinates from 0; a C array   *)
(* of dimensions is a sequence.  An ET_CHECK that fails aborts, which is   *)
(* here a step that does not exist.                                        *)
(***************************************************************************)
EXTENDS Integers, Sequences, FiniteSets, FiniteSetsExt, SequencesExt, Sums

CONSTANTS
    Shapes,     \* the sizes tensors are made with and viewed as
    Strides,    \* the strides a caller may give the factory
    MaxOps      \* bound: operations on one tensor

ASSUME ShapesAssumption == Shapes \subseteq Seq(Nat) /\ Strides \subseteq Seq(Nat)

VARIABLES
    tensor,     \* sizes, dimension order, strides, and data: offset -> element
    prev,       \* the tensor before the last operation
    ops         \* operations so far

layoutVars == <<tensor, prev, ops>>

-----------------------------------------------------------------------------
(* Sizes, coordinates, offsets.                                            *)

Dims(s) == 1 .. Len(s)
sizes_to_numel(s) == Product(s)
OneIfZero(n) == IF n = 0 THEN 1 ELSE n
Coordinates(s) == {c \in [Dims(s) -> 0 .. Max({0} \cup {s[d] : d \in Dims(s)}) - 1] :
                     \A d \in Dims(s) : c[d] < s[d]}
DimOrders(n) == {p \in [1 .. n -> 1 .. n] : Cardinality({p[i] : i \in 1 .. n}) = n}

calculate_linear_index(c, strides) ==
    Total([d \in Dims(strides) |-> c[d] * strides[d]])

\* TensorAccessor: each operator[] advances the data pointer by one dimension
\* and drops it from the strides.
AccessorOffset(c, strides) ==
    LET from[d \in 1 .. Len(strides) + 1] ==
            IF d > Len(strides) THEN 0 ELSE strides[d] * c[d] + from[d + 1]
    IN  from[1]

-----------------------------------------------------------------------------
(* dim_order_util.h                                                        *)

validate_dim_order(order) == \A i \in Dims(order) : order[i] \in Dims(order)

is_contiguous_dim_order(order) == \A i \in Dims(order) : order[i] = i

is_channels_last_dim_order(order) ==
    /\ Len(order) \in {4, 5}
    /\ order[Len(order)] = 2
    /\ order[1] = 1
    /\ \A d \in 2 .. Len(order) - 1 : order[d] = d + 1

\* The stride that is written last for d, 0 if none is: into zeros.
StrideOf(order, at, d) ==
    LET Places == {i \in Dims(order) : order[i] = d}
    IN  IF Places = {} THEN 0 ELSE at[Min(Places)]

\* Mutant: each stride is multiplied by its own size.
dim_order_to_stride_nocheck_OwnSize(sizes, order) ==
    LET n == Len(order)
        at[i \in 1 .. n] ==
            IF i = n THEN 1 ELSE at[i + 1] * OneIfZero(sizes[order[i]])
    IN  [d \in 1 .. n |-> StrideOf(order, at, d)]

\* The strides are written from the fastest dimension to the slowest, each
\* from the one written just before it; an order that repeats a dimension
\* writes its stride again and leaves another as it was.
dim_order_to_stride_nocheck(sizes, order) ==
    LET n == Len(order)
        at[i \in 1 .. n] ==
            IF i = n THEN 1 ELSE at[i + 1] * OneIfZero(sizes[order[i + 1]])
    IN  [d \in 1 .. n |-> StrideOf(order, at, d)]

\* Mutant: the order is the other way round.
Greater_Ascending(a, b) == a.stride > b.stride

\* StrideDimOrder's operator>: descending strides.
Greater(a, b) == a.stride < b.stride

Swap(arr, i, j) == [arr EXCEPT ![i] = arr[j], ![j] = arr[i]]

\* Sorter::partition: what is not after the pivot is swapped to the front; the
\* pivot itself, the last element, is swapped last and so ends at j - 1.
partition(arr, low, high) ==
    LET to[k \in 0 .. high - low + 1] ==
            IF k = 0 THEN [arr |-> arr, j |-> low]
            ELSE LET a == to[k - 1]
                     i == low + k - 1
                 IN  IF Greater(a.arr[i], arr[high]) THEN a
                     ELSE [arr |-> Swap(a.arr, i, a.j), j |-> a.j + 1]
    IN  to[high - low + 1]

\* Sorter::quick_sort: sort[m] sorts ranges of at most m elements, and those it
\* sorts on both sides of the pivot are shorter than its own.
quick_sort(array, low, high) ==
    LET n == Len(array)
        Calls == [arr : [1 .. n -> [dim_order : 1 .. n, stride : Nat]],
                  low : 1 .. n + 1, high : -1 .. n]
        sort[m \in 0 .. n] ==
            [c \in Calls |->
               IF m = 0 \/ c.low >= c.high THEN c.arr
               ELSE LET p == partition(c.arr, c.low, c.high)
                        front == [arr |-> p.arr, low |-> c.low, high |-> p.j - 2]
                    IN  sort[m - 1][[arr |-> sort[m - 1][front], low |-> p.j, high |-> c.high]]]
    IN  sort[n][[arr |-> array, low |-> low, high |-> high]]

stride_to_dim_order(strides) ==
    LET arr == quick_sort([i \in Dims(strides) |-> [dim_order |-> i, stride |-> strides[i]]],
                          1, Len(strides))
    IN  [i \in Dims(strides) |-> arr[i].dim_order]

-----------------------------------------------------------------------------
(* tensor_factory.h                                                        *)

\* sorted_idx, as std::sort may leave it: by descending stride and, among equal
\* strides, the larger size first; sizes of 0 count as 1.
check_strides(sizes, strides) ==
    LET size(d) == OneIfZero(sizes[d])
        Before(a, b) == \/ strides[a] > strides[b]
                        \/ strides[a] = strides[b] /\ size(a) > size(b)
        n == Len(sizes)
    IN  /\ Len(strides) = n
        /\ \E idx \in DimOrders(n) :
              /\ n > 0 => strides[idx[n]] = 1
              /\ \A i \in 1 .. n - 1 :
                    /\ ~Before(idx[i + 1], idx[i])
                    /\ strides[idx[i]] = strides[idx[i + 1]] * size(idx[i + 1])

\* validate_strides: only unit and empty dimensions may share a stride.
validate_strides(sizes, strides) ==
    /\ \A d \in Dims(strides) : strides[d] # 0
    /\ \A d, e \in Dims(strides) :
           (d # e /\ sizes[d] > 1 /\ sizes[e] > 1) => strides[d] # strides[e]

\* dim_order_from_stride: a stable sort by descending stride; the dimension at k
\* is the one that k - 1 others come before.
dim_order_from_stride(strides) ==
    LET Before(i, j) == strides[i] > strides[j] \/ (strides[i] = strides[j] /\ i < j)
        Earlier(d) == {e \in Dims(strides) : Before(e, d)}
    IN  [k \in Dims(strides) |-> CHOOSE d \in Dims(strides) : Cardinality(Earlier(d)) = k - 1]

\* check_dim_order: in range, and the sum of the dimensions is right, which that
\* of <<2, 2, 2>> is too.
check_dim_order(sizes, order) ==
    /\ Len(sizes) = Len(order)
    /\ validate_dim_order(order)
    /\ Total(order) = (Len(sizes) * (Len(sizes) + 1)) \div 2

channels_last_dim_order(n) ==
    [i \in 1 .. n |-> IF i = 1 THEN 1 ELSE IF i = n THEN 2 ELSE i + 1]

default_strides(sizes) == dim_order_to_stride_nocheck(sizes, [i \in Dims(sizes) |-> i])

Storage(sizes) == [i \in 0 .. sizes_to_numel(sizes) - 1 |-> i]

make(sizes, strides) ==
    [sizes |-> sizes, order |-> dim_order_from_stride(strides), strides |-> strides,
     data |-> Storage(sizes)]

make_with_dimorder(sizes, data, order) ==
    [sizes |-> sizes, order |-> order,
     strides |-> dim_order_to_stride_nocheck(sizes, order), data |-> data]

-----------------------------------------------------------------------------
(* Operations.  A tensor comes from the factory and is then given other    *)
(* orders, strides and views.                                              *)

LayoutInit ==
    /\ \E sizes \in Shapes :
          \/ \E strides \in {s \in Strides : Len(s) = Len(sizes)} \cup {default_strides(sizes)} :
                /\ validate_strides(sizes, strides)
                /\ check_strides(sizes, strides)
                /\ tensor = make(sizes, strides)
          \/ \E order \in [Dims(sizes) -> 1 .. Len(sizes) + 1] :
                /\ sizes # <<>>
                /\ check_dim_order(sizes, order)
                /\ tensor = make_with_dimorder(sizes, Storage(sizes), order)
    /\ prev = tensor
    /\ ops = 0

\* dim_order_to_stride on the tensor's own sizes and order.
DimOrderToStride ==
    /\ validate_dim_order(tensor.order)
    /\ tensor' = [tensor EXCEPT !.strides = dim_order_to_stride_nocheck(tensor.sizes, tensor.order)]
    /\ prev' = tensor

StrideToDimOrder ==
    /\ tensor' = [tensor EXCEPT !.order = stride_to_dim_order(tensor.strides)]
    /\ prev' = tensor

\* The four nested loops of channels_last_like: the data moves, element by
\* element, from N C H W order to N H W C order.
channels_last_like ==
    LET s == tensor.sizes
        Old(c) == ((c[1] * s[2] + c[2]) * s[3] + c[3]) * s[4] + c[4]
        New(c) == ((c[1] * s[3] + c[3]) * s[4] + c[4]) * s[2] + c[2]
        moved == [i \in 0 .. sizes_to_numel(s) - 1 |->
                     tensor.data[Old(CHOOSE c \in Coordinates(s) : New(c) = i)]]
    IN  /\ Len(s) = 4
        /\ is_contiguous_dim_order(tensor.order)
        /\ tensor' = make_with_dimorder(s, moved, channels_last_dim_order(4))
        /\ prev' = tensor

\* make_tensor_ptr(tensor, requested): a view of the same storage, with the same
\* sizes if none are requested.  With the rank it had it keeps the order, and
\* the strides are derived from it; otherwise both are left to the core's default.
View(requested) ==
    LET sizes == IF requested = <<>> THEN tensor.sizes ELSE requested
        order == IF Len(sizes) = Len(tensor.sizes) THEN tensor.order
                 ELSE [i \in Dims(sizes) |-> i]
    IN  /\ sizes_to_numel(sizes) <= sizes_to_numel(tensor.sizes)
        /\ tensor' = make_with_dimorder(sizes, tensor.data, order)
        /\ prev' = tensor

LayoutNext ==
    /\ ops < MaxOps
    /\ ops' = ops + 1
    /\ \/ DimOrderToStride
       \/ StrideToDimOrder
       \/ channels_last_like
       \/ \E sizes \in Shapes : View(sizes)

LayoutSpec == LayoutInit /\ [][LayoutNext]_layoutVars

-----------------------------------------------------------------------------
(* tensor_util.h                                                           *)

Numel(t) == sizes_to_numel(t.sizes)
Dim(t) == Len(t.sizes)

dim_is_valid(d, bound) == d >= -bound /\ d < bound
nonzero_dim(t) == IF Dim(t) = 0 THEN 1 ELSE Dim(t)
tensor_has_dim(t, d) ==
    IF Dim(t) = 0 THEN d \in {0, -1}
    ELSE IF d > 0 THEN d < Dim(t) ELSE Dim(t) + d >= 0

tensors_have_same_shape(a, b) ==
    \/ Numel(a) = 1 /\ Numel(b) = 1
    \/ a.sizes = b.sizes /\ Numel(a) = Numel(b)
tensors_have_same_shape3(a, b, c) ==
    \/ Numel(a) = 1 /\ Numel(b) = 1 /\ Numel(c) = 1
    \/ a.sizes = b.sizes /\ b.sizes = c.sizes

\* The macros compare ranks, then the dimensions that both have.
SameUpTo(n, a, b) == \A d \in 1 .. n : a.sizes[d] = b.sizes[d]
\* Mutant: only the dimensions that both have are compared.
ET_CHECK_SAME_SHAPE2_NoRank(a, b) ==
    Numel(a) = Numel(b) /\ SameUpTo(Min({Dim(a), Dim(b)}), a, b)

ET_CHECK_SAME_SHAPE2(a, b) ==
    /\ Numel(a) = Numel(b)
    /\ Numel(a) = 1 \/ Dim(a) = Dim(b)
    /\ SameUpTo(Min({Dim(a), Dim(b)}), a, b)
ET_CHECK_SAME_SHAPE3(a, b, c) ==
    LET n == Min({Dim(a), Dim(b), Dim(c)})
    IN  /\ Numel(a) = Numel(b) /\ Numel(b) = Numel(c)
        /\ Numel(a) = 1 \/ (Dim(a) = Dim(b) /\ Dim(b) = Dim(c))
        /\ SameUpTo(n, a, b) /\ SameUpTo(n, b, c)

tensors_have_same_strides(a, b) == a.strides = b.strides
ET_CHECK_SAME_STRIDES2(a, b) ==
    Dim(a) = Dim(b) /\ \A i \in 1 .. Dim(a) : a.strides[i] = b.strides[i]

tensor_is_contiguous(t) ==
    LET n == Len(t.strides)
    IN  n > 0 => /\ t.strides[n] = 1
                 /\ \A i \in 2 .. n : t.strides[i - 1] = t.strides[i] * t.sizes[i]
getLeadingDims(t, dim) == sizes_to_numel(SubSeq(t.sizes, 1, dim))
\* Mutant: dim itself is counted.
getTrailingDims_FromDim(t, dim) == sizes_to_numel(SubSeq(t.sizes, dim + 1, Dim(t)))

getTrailingDims(t, dim) == sizes_to_numel(SubSeq(t.sizes, dim + 2, Dim(t)))

coordinateToIndex(t, c) ==
    Total([d \in 1 .. Dim(t) |-> c[d] * getTrailingDims(t, d - 1)])

memoizeTrailingDims(t) ==
    LET memo[ii \in 1 .. Dim(t)] ==
            IF ii = Dim(t) THEN 1 ELSE memo[ii + 1] * t.sizes[ii + 1]
    IN  memo
coordinateToIndexWithTrailingDimsMemo(t, c, memo) ==
    Total([d \in 1 .. Dim(t) |-> c[d] * memo[d]])

\* From the last dimension to the first: the remainder, then the quotient.
indexToCoordinate(t, index) ==
    LET rest[d \in 0 .. Dim(t)] ==
            IF d = Dim(t) THEN index ELSE rest[d + 1] \div t.sizes[d + 1]
    IN  [d \in 1 .. Dim(t) |-> rest[d] % t.sizes[d]]

-----------------------------------------------------------------------------
Defaults == {make(s, default_strides(s)) : s \in Shapes}
Offset(t, c) == calculate_linear_index(c, t.strides)

(* Every dimension has a stride.  What check_dim_order lets pass although  *)
(* it repeats a dimension leaves another without one.                      *)
AllStrided(t) == \A d \in 1 .. Dim(t) : t.strides[d] # 0

(* Every layout in which each dimension has a stride is one to one: the    *)
(* elements fill the offsets from 0 to numel - 1, none is shared and none  *)
(* is outside, for strides and orders the factory accepted, any conversion *)
(* and any view.                                                           *)
LayoutBijective ==
    LET C == Coordinates(tensor.sizes)
    IN  AllStrided(tensor) => {Offset(tensor, c) : c \in C} = 0 .. Cardinality(C) - 1

\* What the sizes alone give for c, memoised or not, is its offset, and back.
SizesIndex(t, c) ==
    LET memo == memoizeTrailingDims(t)
    IN  /\ coordinateToIndex(t, c) = Offset(t, c)
        /\ coordinateToIndexWithTrailingDimsMemo(t, c, memo) = Offset(t, c)
        /\ indexToCoordinate(t, Offset(t, c)) = c

(* Every way to find an element finds the same one: the linear index, the  *)
(* accessor and, in the default dimension order that they assume, with a   *)
(* stride for each dimension, the index computed from sizes, its memoised  *)
(* form and its inverse.                                                   *)
IndexingAgrees ==
    LET t == tensor
        trivial == \/ is_contiguous_dim_order(t.order) /\ AllStrided(t)
                   \/ tensor_is_contiguous(t)
    IN  /\ \A c \in Coordinates(t.sizes) :
              /\ AccessorOffset(c, t.strides) = Offset(t, c)
              /\ trivial => SizesIndex(t, c)
        /\ \A d \in 1 .. Dim(t) :
              getLeadingDims(t, d - 1) * t.sizes[d] * getTrailingDims(t, d - 1) = Numel(t)

(* The checks that kernels rely on agree with each other, whatever pair or *)
(* triple of tensors they are asked about: macro with function, two        *)
(* operands with three, and the dimension checks for every index.          *)
ChecksAgree ==
    /\ \A a, b \in {tensor, prev} :
          /\ ET_CHECK_SAME_SHAPE2(a, b) <=> tensors_have_same_shape(a, b)
          /\ ET_CHECK_SAME_STRIDES2(a, b) <=> tensors_have_same_strides(a, b)
          /\ \A c \in Defaults :
                /\ ET_CHECK_SAME_SHAPE3(a, b, c) <=> tensors_have_same_shape3(a, b, c)
                /\ tensors_have_same_shape3(a, b, c) <=>
                      tensors_have_same_shape(a, c) /\ tensors_have_same_shape(c, b)
    /\ \A d \in -6 .. 6 : tensor_has_dim(tensor, d) <=> dim_is_valid(d, nonzero_dim(tensor))
    /\ is_channels_last_dim_order(tensor.order) <=>
          Dim(tensor) \in {4, 5} /\ tensor.order = channels_last_dim_order(Dim(tensor))

(* An operation that leaves the sizes as they are leaves every element at  *)
(* its coordinates, although it may move it, or describe it differently,   *)
(* provided that each dimension had a stride.                              *)
ElementsKept ==
    [][AllStrided(tensor) /\ tensor'.sizes = tensor.sizes =>
          \A c \in Coordinates(tensor.sizes) :
              tensor'.data[Offset(tensor', c)] = tensor.data[Offset(tensor, c)]]_layoutVars

-----------------------------------------------------------------------------
=============================================================================
