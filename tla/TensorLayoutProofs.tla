-------------------------- MODULE TensorLayoutProofs --------------------------
(***************************************************************************)
(* What TensorLayout promises for any shapes and strides: the checks of    *)
(* tensors agree, every layout the code produces numbers the elements from *)
(* 0 on without a gap, every way to index finds the same element, and      *)
(* operations leave the elements at their coordinates.                     *)
(*                                                                         *)
(* The invariant is Laid, or Wanting a stride.  Laid: strides are those    *)
(* that some order of the dimensions gives (Packed), the dimension order   *)
(* is a permutation, and it gives the same strides where a dimension has   *)
(* more than one element (Aligned).  The last is what the sorts by stride  *)
(* restore, quick_sort and the factory's, although strides do not say in   *)
(* which order dimensions of one element come.  Wanting: what an order     *)
(* that repeats a dimension leads to, until channels_last_like, or a view  *)
(* or a conversion with an order that repeats none, lays the tensor out.   *)
(***************************************************************************)
EXTENDS TensorLayout, SumsProofs, SequenceTheorems, FiniteSetTheorems, TLAPS

-----------------------------------------------------------------------------
(* Checks of shapes and strides, coordinates and indices.                  *)

\* s has an entry for each of n dimensions.
Entries(s, n) == n \in Nat /\ s = [i \in 1 .. n |-> s[i]]

\* A tensor has an order and a stride for each of its dimensions ...
Ranked(t) == /\ t.sizes \in Seq(Nat)
             /\ Entries(t.order, Dim(t))
             /\ Entries(t.strides, Dim(t))

\* ... in every state: what the checks of TensorLayout rest on.
LayoutTypes == Ranked(tensor) /\ Ranked(prev)

\* What has an entry for each of n dimensions has length n.
LEMMA EntriesLen ==
  ASSUME NEW s, NEW n, Entries(s, n)
  PROVE  Len(s) = n /\ Dims(s) = 1 .. n
<1>1. s \in Seq({s[i] : i \in 1 .. n})
  BY DEF Entries
<1>2. DOMAIN s = 1 .. n
  BY DEF Entries
<1>3. Len(s) \in Nat /\ DOMAIN s = 1 .. Len(s)
  BY <1>1
<1>4. Len(s) = n
  BY <1>2, <1>3 DEF Entries
<1> QED
  BY <1>4 DEF Dims

\* A sequence has an entry for each of its positions.
LEMMA SeqEntries == \A s \in Seq(Nat) : Entries(s, Len(s))
  BY DEF Entries

\* Both ways to make a tensor give it an order and strides of its own rank: the
\* order found from strides, the strides computed from an order, the defaults.
LEMMA MadeRanked ==
  /\ \A s, st \in Seq(Nat) : Len(st) = Len(s) => Ranked(make(s, st))
  /\ \A s \in Seq(Nat) : Ranked(make(s, default_strides(s)))
  /\ \A s \in Seq(Nat) : \A data, o : Entries(o, Len(s)) => Ranked(make_with_dimorder(s, data, o))
<1>1. \A s \in Seq(Nat) : \A data, o : Entries(o, Len(s)) => Ranked(make_with_dimorder(s, data, o))
  <2> SUFFICES ASSUME NEW s \in Seq(Nat), NEW data, NEW o, Entries(o, Len(s))
               PROVE  Ranked(make_with_dimorder(s, data, o))
    OBVIOUS
  <2>1. Entries(dim_order_to_stride_nocheck(s, o), Len(s))
    BY EntriesLen DEF dim_order_to_stride_nocheck, Entries
  <2> QED
    BY <2>1 DEF make_with_dimorder, Ranked, Dim
<1>2. \A s, st : s \in Seq(Nat) /\ Entries(st, Len(s)) => Ranked(make(s, st))
  <2> SUFFICES ASSUME NEW s \in Seq(Nat), NEW st, Entries(st, Len(s))
               PROVE  Ranked(make(s, st))
    OBVIOUS
  <2>1. Entries(dim_order_from_stride(st), Len(s))
    <3>1. Dims(st) = 1 .. Len(s)
      BY EntriesLen
    <3> DEFINE Before(i, j) == st[i] > st[j] \/ (st[i] = st[j] /\ i < j)
               Earlier(d) == {e \in 1 .. Len(s) : Before(e, d)}
               At(k) == CHOOSE d \in 1 .. Len(s) : Cardinality(Earlier(d)) = k - 1
    <3>2. dim_order_from_stride(st) = [k \in 1 .. Len(s) |-> At(k)]
      BY <3>1 DEF dim_order_from_stride
    <3> HIDE DEF At
    <3> QED
      BY <3>2 DEF Entries
  <2> QED
    BY <2>1 DEF make, Ranked, Dim
<1>3. \A s \in Seq(Nat) : Entries(default_strides(s), Len(s))
  <2> SUFFICES ASSUME NEW s \in Seq(Nat)
               PROVE  Entries(default_strides(s), Len(s))
    OBVIOUS
  <2> DEFINE o == [i \in Dims(s) |-> i]
  <2>1. Entries(o, Len(s))
    BY DEF Entries, Dims
  <2> HIDE DEF o
  <2>2. Entries(dim_order_to_stride_nocheck(s, o), Len(s))
    BY <2>1, EntriesLen DEF dim_order_to_stride_nocheck, Entries
  <2> QED
    BY <2>2 DEF default_strides, o
<1> QED
  BY <1>1, <1>2, <1>3, SeqEntries

\* The tensors made first are ranked ...
LEMMA LayoutInitTypes == LayoutInit => LayoutTypes
<1> SUFFICES ASSUME LayoutInit
             PROVE  LayoutTypes
  OBVIOUS
<1>1. PICK sizes \in Shapes :
         \/ \E strides \in {s \in Strides : Len(s) = Len(sizes)} \cup {default_strides(sizes)} :
               tensor = make(sizes, strides)
         \/ \E order \in [Dims(sizes) -> 1 .. Len(sizes) + 1] :
               tensor = make_with_dimorder(sizes, Storage(sizes), order)
  BY DEF LayoutInit
<1>2. sizes \in Seq(Nat)
  BY ShapesAssumption
<1>3. Ranked(tensor)
  <2>1. CASE \E strides \in {s \in Strides : Len(s) = Len(sizes)} \cup {default_strides(sizes)} :
               tensor = make(sizes, strides)
    BY <1>2, <2>1, ShapesAssumption, MadeRanked
  <2>2. CASE \E order \in [Dims(sizes) -> 1 .. Len(sizes) + 1] :
               tensor = make_with_dimorder(sizes, Storage(sizes), order)
    <3>1. PICK order \in [Dims(sizes) -> 1 .. Len(sizes) + 1] :
             tensor = make_with_dimorder(sizes, Storage(sizes), order)
      BY <2>2
    <3>2. Entries(order, Len(sizes))
      BY <1>2 DEF Entries, Dims
    <3> QED
      BY <1>2, <3>1, <3>2, MadeRanked
  <2> QED
    BY <1>1, <2>1, <2>2
<1> QED
  BY <1>3 DEF LayoutInit, LayoutTypes

\* ... and every operation keeps or makes ranked tensors.
LEMMA LayoutNextTypes == LayoutTypes /\ [LayoutNext]_layoutVars => LayoutTypes'
<1> SUFFICES ASSUME LayoutTypes, [LayoutNext]_layoutVars
             PROVE  LayoutTypes'
  OBVIOUS
<1> USE DEF LayoutTypes
<1>1. CASE UNCHANGED layoutVars
  BY <1>1 DEF layoutVars
<1>2. CASE DimOrderToStride
  <2> DEFINE st == dim_order_to_stride_nocheck(tensor.sizes, tensor.order)
  <2>1. tensor' = [tensor EXCEPT !.strides = st] /\ prev' = tensor
    BY <1>2 DEF DimOrderToStride
  <2>2. Entries(st, Dim(tensor))
    BY EntriesLen DEF dim_order_to_stride_nocheck, Entries, Ranked
  <2> HIDE DEF st
  <2> QED
    BY <2>1, <2>2 DEF Ranked, Dim
<1>3. CASE StrideToDimOrder
  <2> DEFINE o == stride_to_dim_order(tensor.strides)
  <2>1. tensor' = [tensor EXCEPT !.order = o] /\ prev' = tensor
    BY <1>3 DEF StrideToDimOrder
  <2>2. Entries(o, Dim(tensor))
    <3>1. Dims(tensor.strides) = 1 .. Dim(tensor) /\ Dim(tensor) \in Nat
      BY EntriesLen DEF Ranked, Entries
    <3> QED
      BY <3>1 DEF stride_to_dim_order, Entries
  <2> HIDE DEF o
  <2> QED
    BY <2>1, <2>2 DEF Ranked, Dim
<1>4. CASE channels_last_like
  <2>1. PICK data : Len(tensor.sizes) = 4 /\ prev' = tensor
                     /\ tensor' = make_with_dimorder(tensor.sizes, data, channels_last_dim_order(4))
    BY <1>4 DEF channels_last_like
  <2>2. Entries(channels_last_dim_order(4), 4)
    BY DEF channels_last_dim_order, Entries
  <2> QED
    BY <2>1, <2>2, MadeRanked DEF Ranked
<1>5. ASSUME NEW requested \in Shapes, View(requested)
      PROVE  LayoutTypes'
  <2> DEFINE sizes == IF requested = <<>> THEN tensor.sizes ELSE requested
             order == IF Len(sizes) = Len(tensor.sizes) THEN tensor.order
                      ELSE [i \in Dims(sizes) |-> i]
  <2>1. prev' = tensor /\ tensor' = make_with_dimorder(sizes, tensor.data, order)
    BY <1>5 DEF View
  <2>2. sizes \in Seq(Nat)
    BY ShapesAssumption DEF Ranked
  <2> HIDE DEF sizes
  <2>3. Entries(order, Len(sizes))
    <3>1. CASE Len(sizes) = Len(tensor.sizes)
      BY <3>1 DEF Ranked, Dim
    <3>2. CASE Len(sizes) # Len(tensor.sizes)
      <4>1. order = [i \in 1 .. Len(sizes) |-> i] /\ Len(sizes) \in Nat
        BY <2>2, <3>2 DEF Dims
      <4> HIDE DEF order
      <4> QED
        BY <4>1 DEF Entries
    <3> QED
      BY <3>1, <3>2
  <2> QED
    BY <2>1, <2>2, <2>3, MadeRanked
<1> QED
  BY <1>1, <1>2, <1>3, <1>4, <1>5 DEF LayoutNext

\* A tensor of one element has only sizes of 1: what lets a check that compares
\* the shapes of such tensors skip the comparison.
LEMMA NumelOne ==
  ASSUME NEW t, t.sizes \in Seq(Nat)
  PROVE  /\ Numel(t) \in Nat /\ Dim(t) \in Nat
         /\ Numel(t) = 1 => \A d \in 1 .. Dim(t) : t.sizes[d] = 1
  BY ProductType, ProductOne DEF Numel, Dim, sizes_to_numel

\* ET_CHECK_SAME_SHAPE2 compares element counts and the common dimensions only,
\* and still accepts exactly what tensors_have_same_shape accepts.
LEMMA SameShape2 ==
  ASSUME NEW a, NEW b, a.sizes \in Seq(Nat), b.sizes \in Seq(Nat)
  PROVE  ET_CHECK_SAME_SHAPE2(a, b) <=> tensors_have_same_shape(a, b)
<1> DEFINE m == Min({Dim(a), Dim(b)})
<1>1. Dim(a) \in Nat /\ Dim(b) \in Nat
  BY DEF Dim
<1>2. m \in Nat /\ m <= Dim(a) /\ m <= Dim(b) /\ (m = Dim(a) \/ m = Dim(b))
  <2>1. \E x \in {Dim(a), Dim(b)} : \A y \in {Dim(a), Dim(b)} : x <= y
    BY <1>1
  <2>2. m \in {Dim(a), Dim(b)} /\ \A y \in {Dim(a), Dim(b)} : m <= y
    BY <2>1 DEF Min
  <2> QED
    BY <1>1, <2>2
<1> HIDE DEF m
<1>3. Numel(a) = 1 /\ Numel(b) = 1 => SameUpTo(m, a, b)
  <2> SUFFICES ASSUME Numel(a) = 1, Numel(b) = 1, NEW d \in 1 .. m
               PROVE  a.sizes[d] = b.sizes[d]
    BY DEF SameUpTo
  <2>1. d \in 1 .. Dim(a) /\ d \in 1 .. Dim(b)
    BY <1>1, <1>2
  <2> QED
    BY <2>1, NumelOne
<1>4. Dim(a) = Dim(b) /\ SameUpTo(m, a, b) => a.sizes = b.sizes
  BY <1>2 DEF SameUpTo, Dim
<1>5. a.sizes = b.sizes => Dim(a) = Dim(b) /\ SameUpTo(m, a, b) /\ Numel(a) = Numel(b)
  BY DEF Dim, SameUpTo, Numel
<1> QED
  BY <1>3, <1>4, <1>5 DEF ET_CHECK_SAME_SHAPE2, tensors_have_same_shape, m

\* So with three tensors, and that is the two comparisons with the third.
LEMMA SameShape3 ==
  ASSUME NEW a, NEW b, NEW c, a.sizes \in Seq(Nat), b.sizes \in Seq(Nat), c.sizes \in Seq(Nat)
  PROVE  /\ ET_CHECK_SAME_SHAPE3(a, b, c) <=> tensors_have_same_shape3(a, b, c)
         /\ tensors_have_same_shape3(a, b, c) <=>
               tensors_have_same_shape(a, c) /\ tensors_have_same_shape(c, b)
<1> DEFINE m == Min({Dim(a), Dim(b), Dim(c)})
<1>1. Dim(a) \in Nat /\ Dim(b) \in Nat /\ Dim(c) \in Nat
  BY DEF Dim
<1>2. m \in Nat /\ m <= Dim(a) /\ m <= Dim(b) /\ m <= Dim(c) /\ (m = Dim(a) \/ m = Dim(b) \/ m = Dim(c))
  <2>1. \E x \in {Dim(a), Dim(b), Dim(c)} : \A y \in {Dim(a), Dim(b), Dim(c)} : x <= y
    BY <1>1
  <2>2. m \in {Dim(a), Dim(b), Dim(c)} /\ \A y \in {Dim(a), Dim(b), Dim(c)} : m <= y
    BY <2>1 DEF Min
  <2> QED
    BY <1>1, <2>2
<1> HIDE DEF m
<1>3. Numel(a) = 1 /\ Numel(b) = 1 /\ Numel(c) = 1 => SameUpTo(m, a, b) /\ SameUpTo(m, b, c)
  <2> SUFFICES ASSUME Numel(a) = 1, Numel(b) = 1, Numel(c) = 1, NEW d \in 1 .. m
               PROVE  a.sizes[d] = b.sizes[d] /\ b.sizes[d] = c.sizes[d]
    BY DEF SameUpTo
  <2>1. d \in 1 .. Dim(a) /\ d \in 1 .. Dim(b) /\ d \in 1 .. Dim(c)
    BY <1>1, <1>2
  <2> QED
    BY <2>1, NumelOne
<1>4. Dim(a) = Dim(b) /\ Dim(b) = Dim(c) /\ SameUpTo(m, a, b) /\ SameUpTo(m, b, c)
        => a.sizes = b.sizes /\ b.sizes = c.sizes
  BY <1>2 DEF SameUpTo, Dim
<1>5. a.sizes = b.sizes /\ b.sizes = c.sizes
        => /\ Dim(a) = Dim(b) /\ Dim(b) = Dim(c) /\ SameUpTo(m, a, b) /\ SameUpTo(m, b, c)
           /\ Numel(a) = Numel(b) /\ Numel(b) = Numel(c)
  BY DEF Dim, SameUpTo, Numel
<1>6. ET_CHECK_SAME_SHAPE3(a, b, c) <=> tensors_have_same_shape3(a, b, c)
  BY <1>3, <1>4, <1>5 DEF ET_CHECK_SAME_SHAPE3, tensors_have_same_shape3, m
<1>7. a.sizes = c.sizes => Numel(a) = Numel(c)
  BY DEF Numel
<1>8. b.sizes = c.sizes => Numel(b) = Numel(c)
  BY DEF Numel
<1>9. tensors_have_same_shape3(a, b, c) <=> tensors_have_same_shape(a, c) /\ tensors_have_same_shape(c, b)
  BY <1>7, <1>8 DEF tensors_have_same_shape3, tensors_have_same_shape
<1> QED
  BY <1>6, <1>9

\* The macro and the function that compare strides accept the same tensors.
LEMMA SameStrides ==
  ASSUME NEW a, NEW b, Ranked(a), Ranked(b)
  PROVE  ET_CHECK_SAME_STRIDES2(a, b) <=> tensors_have_same_strides(a, b)
<1>1. a.strides = b.strides => Dim(a) = Dim(b)
  BY EntriesLen DEF Ranked
<1>2. Dim(a) = Dim(b) /\ (\A i \in 1 .. Dim(a) : a.strides[i] = b.strides[i]) => a.strides = b.strides
  <2> SUFFICES ASSUME Dim(a) = Dim(b), \A i \in 1 .. Dim(a) : a.strides[i] = b.strides[i]
               PROVE  a.strides = b.strides
    OBVIOUS
  <2>1. a.strides = [i \in 1 .. Dim(a) |-> a.strides[i]] /\ b.strides = [i \in 1 .. Dim(a) |-> b.strides[i]]
    BY DEF Ranked, Entries
  <2>2. [i \in 1 .. Dim(a) |-> a.strides[i]] = [i \in 1 .. Dim(a) |-> b.strides[i]]
    OBVIOUS
  <2> QED
    BY <2>1, <2>2
<1> QED
  BY <1>1, <1>2 DEF ET_CHECK_SAME_STRIDES2, tensors_have_same_strides

\* tensor_has_dim is dim_is_valid of the dimensions a scalar counts as having.
LEMMA HasDim ==
  ASSUME NEW t, Ranked(t), NEW d \in Int
  PROVE  tensor_has_dim(t, d) <=> dim_is_valid(d, nonzero_dim(t))
<1>1. Dim(t) \in Nat
  BY DEF Ranked, Entries
<1>2. CASE Dim(t) = 0
  <2>1. nonzero_dim(t) = 1 /\ (tensor_has_dim(t, d) <=> d \in {0, -1})
    BY <1>2 DEF nonzero_dim, tensor_has_dim
  <2> QED
    BY <2>1 DEF dim_is_valid
<1>3. CASE Dim(t) # 0
  <2>1. nonzero_dim(t) = Dim(t)
    BY <1>3 DEF nonzero_dim
  <2>2. CASE d > 0
    BY <1>1, <1>3, <2>1, <2>2 DEF dim_is_valid, tensor_has_dim
  <2>3. CASE ~(d > 0)
    BY <1>1, <1>3, <2>1, <2>3 DEF dim_is_valid, tensor_has_dim
  <2> QED
    BY <2>2, <2>3
<1> QED
  BY <1>2, <1>3

\* The test for a channels-last order accepts the orders the constructor writes,
\* and no other.
LEMMA ChannelsLast ==
  ASSUME NEW t, Ranked(t)
  PROVE  is_channels_last_dim_order(t.order) <=>
            Dim(t) \in {4, 5} /\ t.order = channels_last_dim_order(Dim(t))
<1> DEFINE o == t.order
           n == Dim(t)
<1>1. Len(o) = n /\ n \in Nat /\ o = [i \in 1 .. n |-> o[i]]
  BY EntriesLen DEF Ranked, Entries
<1> HIDE DEF o, n
<1>2. ASSUME n \in {4, 5}, o[n] = 2, o[1] = 1, \A d \in 2 .. n - 1 : o[d] = d + 1
      PROVE  o = channels_last_dim_order(n)
  <2>1. \A i \in 1 .. n : o[i] = IF i = 1 THEN 1 ELSE IF i = n THEN 2 ELSE i + 1
    BY <1>2
  <2> QED
    BY <1>1, <2>1 DEF channels_last_dim_order
<1>3. ASSUME n \in {4, 5}, o = channels_last_dim_order(n)
      PROVE  o[n] = 2 /\ o[1] = 1 /\ \A d \in 2 .. n - 1 : o[d] = d + 1
  BY <1>3 DEF channels_last_dim_order
<1>4. is_channels_last_dim_order(o) <=> n \in {4, 5} /\ o = channels_last_dim_order(n)
  BY <1>1, <1>2, <1>3 DEF is_channels_last_dim_order
<1> QED
  BY <1>4 DEF o, n

\* The two copies of each check in tensor_util.h, the macros that abort and the
\* functions that log, accept the same tensors at any sizes and strides: a kernel
\* checked by one and then by the other never meets a tensor that passes only one.
THEOREM ChecksAlwaysAgree == LayoutSpec => []ChecksAgree
<1>1. LayoutTypes => ChecksAgree
  <2> SUFFICES ASSUME LayoutTypes
               PROVE  ChecksAgree
    OBVIOUS
  <2>1. \A a \in {tensor, prev} : Ranked(a)
    BY DEF LayoutTypes
  <2>2. \A c \in Defaults : c.sizes \in Seq(Nat)
    BY ShapesAssumption DEF Defaults, make
  <2>3. ASSUME NEW a \in {tensor, prev}, NEW b \in {tensor, prev}
        PROVE  /\ ET_CHECK_SAME_SHAPE2(a, b) <=> tensors_have_same_shape(a, b)
               /\ ET_CHECK_SAME_STRIDES2(a, b) <=> tensors_have_same_strides(a, b)
               /\ \A c \in Defaults :
                     /\ ET_CHECK_SAME_SHAPE3(a, b, c) <=> tensors_have_same_shape3(a, b, c)
                     /\ tensors_have_same_shape3(a, b, c) <=>
                           tensors_have_same_shape(a, c) /\ tensors_have_same_shape(c, b)
    <3>1. Ranked(a) /\ Ranked(b) /\ a.sizes \in Seq(Nat) /\ b.sizes \in Seq(Nat)
      BY <2>1 DEF Ranked
    <3> QED
      BY <2>2, <3>1, SameShape2, SameShape3, SameStrides
  <2>4. \A d \in -6 .. 6 : tensor_has_dim(tensor, d) <=> dim_is_valid(d, nonzero_dim(tensor))
    BY <2>1, HasDim
  <2>5. is_channels_last_dim_order(tensor.order) <=>
          Dim(tensor) \in {4, 5} /\ tensor.order = channels_last_dim_order(Dim(tensor))
    BY <2>1, ChannelsLast
  <2> QED
    BY <2>3, <2>4, <2>5 DEF ChecksAgree
<1> QED
  BY <1>1, LayoutInitTypes, LayoutNextTypes, PTL DEF LayoutSpec

\* The product of the sizes after dimension d.
After(s, d) == Product(SubSeq(s, d + 1, Len(s)))

\* It is 1 behind the last dimension, and grows by one size per dimension.
LEMMA AfterStep ==
  ASSUME NEW s \in Seq(Nat)
  PROVE  /\ After(s, Len(s)) = 1
         /\ \A d \in 0 .. Len(s) : After(s, d) \in Nat
         /\ \A d \in 1 .. Len(s) : After(s, d - 1) = s[d] * After(s, d)
<1> DEFINE n == Len(s)
<1>1. n \in Nat
  OBVIOUS
<1>2. \A d \in 0 .. n : /\ SubSeq(s, d + 1, n) \in Seq(Nat) 
                        /\ Len(SubSeq(s, d + 1, n)) = n - d
                        /\ \A i \in 1 .. n - d : SubSeq(s, d + 1, n)[i] = s[d + i]
  <2> SUFFICES ASSUME NEW d \in 0 .. n
               PROVE /\ SubSeq(s, d + 1, n) \in Seq(Nat) 
                     /\ Len(SubSeq(s, d + 1, n)) = n - d
                     /\ \A i \in 1 .. n - d : SubSeq(s, d + 1, n)[i] = s[d + i]
    OBVIOUS
  <2>1. PICK m \in Int : m = d + 1
    BY <1>1
  <2>2. \A i \in m .. n : s[i] \in Nat
    BY <1>1, <2>1
  <2>3. n \in Int
    BY <1>1
  <2>4. /\ SubSeq(s, m, n) \in Seq(Nat)
        /\ Len(SubSeq(s, m, n)) = IF m <= n THEN n - m + 1 ELSE 0
        /\ \A i \in 1 .. n - m + 1 : SubSeq(s, m, n)[i] = s[m + i - 1]
    <3> HIDE DEF n
    <3> QED
      BY <2>2, <2>3, SubSeqProperties
  <2>5. (IF m <= n THEN n - m + 1 ELSE 0) = n - d /\ n - m + 1 = n - d
    BY <1>1, <2>1
  <2>6. \A i \in 1 .. n - d : m + i - 1 = d + i
    BY <1>1, <2>1
  <2> QED
    BY <2>1, <2>4, <2>5, <2>6
<1> HIDE DEF n
<1>3. After(s, n) = 1
  <2>1. SubSeq(s, n + 1, n) \in Seq(Nat) /\ Len(SubSeq(s, n + 1, n)) = 0
    BY <1>1, <1>2
  <2>2. SubSeq(s, n + 1, n) = << >>
    BY <2>1
  <2> QED
    BY <2>2, ProductEmpty DEF After, n
<1>4. \A d \in 0 .. n : After(s, d) \in Nat
  BY <1>2, ProductType DEF After, n
<1>5. ASSUME NEW d \in 1 .. n
      PROVE  After(s, d - 1) = s[d] * After(s, d)
  <2> DEFINE u == SubSeq(s, (d - 1) + 1, n)
             v == SubSeq(s, d + 1, n)
             m == n - d
  <2>1. d - 1 \in 0 .. n /\ d \in 0 .. n /\ m \in Nat /\ n - (d - 1) = m + 1 
    BY <1>1
  <2>2. u \in Seq(Nat) /\ Len(u) = m + 1 /\ \A i \in 1 .. m + 1 : u[i] = s[(d - 1) + i]
    BY <1>2, <2>1
  <2>3. v \in Seq(Nat) /\ Len(v) = m /\ \A i \in 1 .. m : v[i] = s[d + i]
    BY <1>2, <2>1
  <2>4. After(s, d - 1) = Product(u) /\ After(s, d) = Product(v)
    BY DEF After, n
  <2> HIDE DEF u, v, m
  <2>5. u[1] = s[d]
    <3>1. 1 \in 1 .. m + 1 /\ (d - 1) + 1 = d
      BY <2>1
    <3> QED
      BY <2>2, <3>1
  <2>6. \A i \in 1 .. m : v[i] = u[i + 1]
    <3> TAKE i \in 1 .. m
    <3>1. i + 1 \in 1 .. m + 1 /\ (d - 1) + (i + 1) = d + i
      BY <2>1
    <3> QED
      BY <2>2, <2>3, <3>1
  <2>7. Product(u) = u[1] * Product(v)
    BY <2>1, <2>2, <2>3, <2>6, ProductFirst
  <2> QED
    BY <2>4, <2>5, <2>7
<1> QED
  BY <1>3, <1>4, <1>5 DEF n

\* getTrailingDims computes it, by the product of the trailing sizes ...
LEMMA AfterIsTrailing ==
  \A t : \A d : t.sizes \in Seq(Nat) /\ d \in 1 .. Dim(t) => getTrailingDims(t, d - 1) = After(t.sizes, d)
<1> SUFFICES ASSUME NEW t, NEW d, t.sizes \in Seq(Nat), d \in 1 .. Dim(t)
             PROVE  getTrailingDims(t, d - 1) = After(t.sizes, d)
  OBVIOUS
<1>1. (d - 1) + 2 = d + 1
  BY DEF Dim
<1> QED
  BY <1>1 DEF getTrailingDims, After, sizes_to_numel, Dim

\* g has, at each position, the product of the numbers behind it.
Trails(g, u, n) ==
    \A i \in 1 .. n : g[i] = IF i = n THEN 1 ELSE g[i + 1] * u[i + 1]

\* These products do, and nothing else.
LEMMA TrailsAfter ==
  ASSUME NEW u \in Seq(Nat)
  PROVE  /\ Trails([i \in 1 .. Len(u) |-> After(u, i)], u, Len(u))
         /\ \A g : Trails(g, u, Len(u)) => \A i \in 1 .. Len(u) : g[i] = After(u, i)
<1> DEFINE n == Len(u)
           w == [i \in 1 .. n |-> After(u, i)]
<1>1. n \in Nat
  OBVIOUS
<1>2. \A i \in 1 .. n : After(u, i) = IF i = n THEN 1 ELSE After(u, i + 1) * u[i + 1]
  <2> SUFFICES ASSUME NEW i \in 1 .. n, i # n
               PROVE  After(u, i) = After(u, i + 1) * u[i + 1]
    BY <1>1, AfterStep
  <2>1. i + 1 \in 1 .. n /\ (i + 1) - 1 = i /\ i + 1 \in 0 .. n
    BY <1>1
  <2>2. After(u, (i + 1) - 1) = u[i + 1] * After(u, i + 1)
    BY <1>1, <2>1, AfterStep
  <2>3. u[i + 1] \in Nat
    <3>1. \A k \in 1 .. Len(u) : u[k] \in Nat
      OBVIOUS
    <3> QED
      BY <1>1, <2>1, <3>1
  <2>4. After(u, i + 1) \in Nat
    BY <1>1, <2>1, AfterStep
  <2> DEFINE x == u[i + 1]
             y == After(u, i + 1)
  <2>5. x * y = y * x
    <3>1. x \in Nat /\ y \in Nat
      BY <2>3, <2>4
    <3> HIDE DEF x, y
    <3> QED
      BY <3>1
  <2> QED
    BY <2>1, <2>2, <2>5
<1>3. Trails(w, u, n)
  <2>1. \A i \in 1 .. n : i # n => i + 1 \in 1 .. n
    BY <1>1
  <2> QED
    BY <1>2, <2>1 DEF Trails
<1>4. ASSUME NEW g, Trails(g, u, n)
      PROVE  \A i \in 1 .. n : g[i] = After(u, i)
  <2> DEFINE T == {i \in 0 .. n : i > 0 => g[i] = After(u, i)}
  <2>1. n \in T
    BY <1>1, <1>2, <1>4 DEF Trails
  <2>2. \A i \in 1 .. n : i \in T => i - 1 \in T
    <3> SUFFICES ASSUME NEW i \in 1 .. n, i \in T, i - 1 > 0
                 PROVE  g[i - 1] = After(u, i - 1)
      BY <1>1
    <3>1. i - 1 \in 1 .. n /\ i - 1 # n /\ (i - 1) + 1 = i
      BY <1>1
    <3>2. g[i - 1] = g[(i - 1) + 1] * u[(i - 1) + 1]
      BY <1>4, <3>1 DEF Trails
    <3>3. After(u, i - 1) = After(u, (i - 1) + 1) * u[(i - 1) + 1]
      BY <1>2, <3>1
    <3>4. g[i] = After(u, i)
      OBVIOUS
    <3> QED
      BY <3>1, <3>2, <3>3, <3>4
  <2>3. \A i \in 0 .. n : i \in T
    <3> HIDE DEF T
    <3> QED
      BY <1>1, <2>1, <2>2, DownFrom
  <2> QED
    BY <1>1, <2>3
<1> QED
  BY <1>3, <1>4

\* ... and memoizeTrailingDims for all dimensions at once, from the last.
LEMMA MemoIsAfter ==
  ASSUME NEW t, t.sizes \in Seq(Nat)
  PROVE  \A d \in 1 .. Dim(t) : memoizeTrailingDims(t)[d] = After(t.sizes, d)
<1> DEFINE s == t.sizes
           n == Dim(t)
           Is(f) == f = [ii \in 1 .. n |-> IF ii = n THEN 1 ELSE f[ii + 1] * s[ii + 1]]
           w == [ii \in 1 .. n |-> After(s, ii)]
           g == memoizeTrailingDims(t)
<1>1. n \in Nat /\ n = Len(s)
  BY DEF Dim
<1>2. Is(w)
  <2>1. Trails(w, s, n)
    BY <1>1, TrailsAfter
  <2>2. w = [ii \in 1 .. n |-> w[ii]]
    OBVIOUS
  <2> HIDE DEF w
  <2> QED
    BY <2>1, <2>2 DEF Trails
<1>3. g = CHOOSE f : Is(f)
  BY DEF memoizeTrailingDims
<1>4. Is(g)
  <2> HIDE DEF Is
  <2> QED
    BY <1>2, <1>3
<1> HIDE DEF g
<1>5. Trails(g, s, n)
  BY <1>4 DEF Trails
<1>6. \A d \in 1 .. n : g[d] = After(s, d)
  BY <1>1, <1>5, TrailsAfter
<1> QED
  BY <1>6 DEF g

\* A dimension parts the elements into those before, along and behind it.
LEMMA LeadingTimesTrailing ==
  ASSUME NEW t, t.sizes \in Seq(Nat), NEW d \in 1 .. Dim(t)
  PROVE  getLeadingDims(t, d - 1) * t.sizes[d] * getTrailingDims(t, d - 1) = Numel(t)
<1> DEFINE s == t.sizes
           n == Len(s)
           f == Products(s)
           T == {i \in 0 .. n : f[i] * After(s, i) = f[n]}
<1>1. Multiplies(f, s, n) /\ n \in Nat /\ n = Dim(t)
  BY ProductsDef DEF Dim
<1>2. Numel(t) = f[n] /\ f[n] \in Nat
  BY <1>1 DEF Numel, sizes_to_numel, Product, Multiplies
<1> HIDE DEF f
<1>3. ASSUME NEW i \in 1 .. n
      PROVE  f[i - 1] * After(s, i - 1) = f[i] * After(s, i)
  <2>1. After(s, i - 1) = s[i] * After(s, i) /\ After(s, i) \in Nat /\ s[i] \in Nat
    BY AfterStep
  <2>2. f[i] = f[i - 1] * s[i] /\ f[i - 1] \in Nat
    <3>1. i - 1 \in 0 .. n
      BY <1>1
    <3> QED
      BY <1>1, <3>1 DEF Multiplies
  <2> QED
    BY <2>1, <2>2, Associates
<1>4. n \in T
  BY <1>1, <1>2, AfterStep
<1>5. \A i \in 1 .. n : i \in T => i - 1 \in T
  BY <1>1, <1>3
<1>6. \A i \in 0 .. n : i \in T
  <2> HIDE DEF T
  <2> QED
    BY <1>1, <1>4, <1>5, DownFrom
<1>7. getLeadingDims(t, d - 1) = f[d - 1]
  <2>1. d - 1 \in 0 .. n
    BY <1>1
  <2> QED
    BY <2>1, ProductPrefix DEF getLeadingDims, sizes_to_numel, f
<1>8. f[d - 1] * s[d] = f[d]
  BY <1>1 DEF Multiplies
<1>9. f[d] * After(s, d) = f[n]
  BY <1>1, <1>6
<1> QED
  BY <1>1, <1>2, <1>7, <1>8, <1>9, AfterIsTrailing

\* TensorAccessor adds up the offset one dimension per subscript, from the inside;
\* calculate_linear_index in a loop from the first dimension. They agree.
LEMMA AccessorIsLinear ==
  ASSUME NEW strides, NEW c, NEW n \in Nat, Len(strides) = n, Dims(strides) = 1 .. n,
         \A d \in 1 .. n : strides[d] \in Nat /\ c[d] \in Nat
  PROVE  AccessorOffset(c, strides) = calculate_linear_index(c, strides)
<1> DEFINE terms == [d \in 1 .. n |-> c[d] * strides[d]]
           p == Partial(terms)
           Is(f) == f = [d \in 1 .. n + 1 |-> IF d > n THEN 0 ELSE strides[d] * c[d] + f[d + 1]]
           w == [d \in 1 .. n + 1 |-> p[n] - p[d - 1]]
<1>1. \A d \in 1 .. n : c[d] * strides[d] \in Nat
  OBVIOUS
<1>2. terms \in Seq(Nat) /\ Len(terms) = n
  <2> DEFINE e(d) == c[d] * strides[d]
  <2>1. terms = [d \in 1 .. n |-> e(d)] /\ \A d \in 1 .. n : e(d) \in Nat
    BY <1>1
  <2> HIDE DEF e, terms
  <2> QED
    BY <2>1
<1>3. Adds(p, terms, n) /\ calculate_linear_index(c, strides) = p[n]
  BY <1>2, PartialDef DEF calculate_linear_index, Total
<1>4. \A d \in 1 .. n : p[d] = p[d - 1] + c[d] * strides[d]
  BY <1>3 DEF Adds
<1>5. \A d \in 0 .. n : p[d] \in Nat
  BY <1>3 DEF Adds
<1>6. p[0] = 0
  BY <1>3 DEF Adds
<1> HIDE DEF p
<1>7. \A d \in 1 .. n + 1 : w[d] = IF d > n THEN 0 ELSE strides[d] * c[d] + w[d + 1]
  <2> SUFFICES ASSUME NEW d \in 1 .. n + 1
               PROVE  w[d] = IF d > n THEN 0 ELSE strides[d] * c[d] + w[d + 1]
    OBVIOUS
  <2>1. CASE d > n
    BY <1>5, <2>1
  <2>2. CASE ~(d > n)
    <3>1. d \in 1 .. n /\ d + 1 \in 1 .. n + 1 /\ (d + 1) - 1 = d /\ d - 1 \in 0 .. n /\ d \in 0 .. n
      BY <2>2
    <3>2. w[d] = p[n] - p[d - 1] /\ w[d + 1] = p[n] - p[d]
      BY <3>1
    <3>3. p[d] = p[d - 1] + c[d] * strides[d]
      BY <1>4, <3>1
    <3>4. c[d] * strides[d] = strides[d] * c[d] /\ c[d] * strides[d] \in Nat
      BY <1>1, <3>1, Associates
    <3>5. p[n] \in Nat /\ p[d] \in Nat /\ p[d - 1] \in Nat
      BY <1>5, <3>1
    <3> DEFINE x == c[d] * strides[d]
    <3>6. w[d] = x + w[d + 1]
      <4>1. x \in Nat /\ p[d] = p[d - 1] + x
        BY <3>3, <3>4
      <4> HIDE DEF x, w
      <4> QED
        BY <3>2, <3>5, <4>1
    <3> QED
      BY <2>2, <3>4, <3>6
  <2> QED
    BY <2>1, <2>2
<1>8. Is(w)
  <2>1. w = [d \in 1 .. n + 1 |-> w[d]]
    OBVIOUS
  <2> HIDE DEF w
  <2> QED
    BY <1>7, <2>1
<1> HIDE DEF w
<1> DEFINE g == CHOOSE f : Is(f)
<1>9. AccessorOffset(c, strides) = g[1]
  BY DEF AccessorOffset
<1>10. Is(g)
  <2> HIDE DEF Is
  <2> QED
    BY <1>8
<1> HIDE DEF g
<1> DEFINE T == {i \in 0 .. n : g[i + 1] = w[i + 1]}
<1>11. n \in T
  <2>1. n + 1 \in 1 .. n + 1 /\ n + 1 > n
    OBVIOUS
  <2> QED
    BY <1>7, <1>10, <2>1
<1>12. \A i \in 1 .. n : i \in T => i - 1 \in T
  <2> SUFFICES ASSUME NEW i \in 1 .. n, g[i + 1] = w[i + 1]
               PROVE  i - 1 \in T
    OBVIOUS
  <2>1. (i - 1) + 1 = i /\ i \in 1 .. n + 1 /\ ~(i > n) /\ i - 1 \in 0 .. n
    OBVIOUS
  <2>2. g[i] = strides[i] * c[i] + g[i + 1]
    BY <1>10, <2>1
  <2>3. w[i] = strides[i] * c[i] + w[i + 1]
    BY <1>7, <2>1
  <2> QED
    BY <2>1, <2>2, <2>3
<1>13. g[1] = w[1]
  <2>1. \A i \in 0 .. n : i \in T
    <3> HIDE DEF T
    <3> QED
      BY <1>11, <1>12, DownFrom
  <2>2. 0 \in T
    <3> HIDE DEF T
    <3> QED
      BY <2>1, 0 \in 0 .. n
  <2>3. 0 + 1 = 1
    OBVIOUS
  <2> QED
    BY <2>2, <2>3
<1>14. w[1] = p[n]
  <2>1. 1 \in 1 .. n + 1 /\ 1 - 1 = 0 /\ n \in 0 .. n
    OBVIOUS
  <2> QED
    BY <1>5, <1>6, <2>1 DEF w
<1> QED
  BY <1>3, <1>9, <1>13, <1>14

\* Division undoes a multiplication to which less than the factor was added.
LEMMA DivideBack ==
  ASSUME NEW q \in Nat, NEW m \in Nat \ {0}, NEW r \in Nat, r < m
  PROVE  (q * m + r) \div m = q /\ (q * m + r) % m = r
<1> DEFINE x == q * m + r
           d == x \div m
           e == x % m
<1>1. x \in Nat /\ d \in Nat /\ e \in Nat /\ e < m /\ x = m * d + e
  OBVIOUS
<1>2. q * m + r = m * d + e
  BY <1>1
<1> HIDE DEF d, e
<1>3. ~(q < d)
  <2> SUFFICES ASSUME q < d PROVE FALSE
    OBVIOUS
  <2>1. PICK k \in Nat : d = q + 1 + k
    <3>1. d - q - 1 \in Nat /\ d = q + 1 + (d - q - 1)
      BY <1>1
    <3> QED
      BY <3>1
  <2>2. m * d = q * m + m + m * k /\ m * k \in Nat /\ q * m \in Nat
    BY <2>1
  <2> QED
    BY <1>1, <1>2, <2>2
<1>4. ~(d < q)
  <2> SUFFICES ASSUME d < q PROVE FALSE
    OBVIOUS
  <2>1. PICK k \in Nat : q = d + 1 + k
    <3>1. q - d - 1 \in Nat /\ q = d + 1 + (q - d - 1)
      BY <1>1
    <3> QED
      BY <3>1
  <2>2. q * m = m * d + m + m * k /\ m * k \in Nat /\ m * d \in Nat
    BY <1>1, <2>1
  <2> QED
    BY <1>1, <1>2, <2>2
<1>5. d = q
  BY <1>1, <1>3, <1>4
<1>6. e = r
  <2>1. q * m = m * d /\ q * m \in Nat
    BY <1>5
  <2> QED
    BY <1>1, <1>2, <2>1
<1> QED
  BY <1>5, <1>6 DEF d, e

\* c is a coordinate of t.
CoordinateOf(t, c) ==
    /\ t.sizes \in Seq(Nat \ {0})
    /\ c \in [1 .. Dim(t) -> Nat]
    /\ \A d \in 1 .. Dim(t) : c[d] < t.sizes[d]

\* q takes the coordinates in one after the other, as Horner's scheme does.
Horner(t, c, q) ==
    /\ q \in [0 .. Dim(t) -> Nat] /\ q[0] = 0
    /\ \A d \in 1 .. Dim(t) : q[d] = q[d - 1] * t.sizes[d] + c[d]

\* Every coordinate has such a computation.
LEMMA HornerExists ==
  ASSUME NEW t, NEW c, CoordinateOf(t, c)
  PROVE  \E q : Horner(t, c, q)
<1> DEFINE n == Dim(t)
           s == t.sizes
           step == [d \in 1 .. n |-> [x \in Nat |-> x * s[d] + c[d]]]
<1>1. n \in Nat /\ \A d \in 1 .. n : s[d] \in Nat /\ c[d] \in Nat
  BY DEF CoordinateOf, Dim
<1>2. \A d \in 1 .. n : step[d] \in [Nat -> Nat]
  <2> SUFFICES ASSUME NEW d \in 1 .. n
               PROVE  step[d] \in [Nat -> Nat]
    OBVIOUS
  <2>1. s[d] \in Nat /\ c[d] \in Nat
    BY <1>1
  <2>2. \A x \in Nat : x * s[d] + c[d] \in Nat
    BY <2>1
  <2>3. step[d] = [x \in Nat |-> x * s[d] + c[d]]
    OBVIOUS
  <2> QED
    BY <2>2, <2>3
<1>3. \A d \in 1 .. n, x \in Nat : step[d][x] = x * s[d] + c[d]
  OBVIOUS
<1> HIDE DEF step, n
<1>4. PICK q \in [0 .. n -> Nat] : Follows(q, 0, step, n)
  BY <1>1, <1>2, RecursionExists, 0 \in Nat
<1>5. \A d \in 1 .. n : q[d] = q[d - 1] * s[d] + c[d]
  <2> TAKE d \in 1 .. n
  <2>1. d - 1 \in 0 .. n
    BY <1>1
  <2>2. q[d - 1] \in Nat
    BY <2>1
  <2> QED
    BY <1>3, <1>4, <2>2 DEF Follows
<1> QED
  BY <1>4, <1>5 DEF Horner, Follows, n

\* One step of it, distributed over the sizes behind.
LEMMA HornerStep ==
  ASSUME NEW x \in Nat, NEW s \in Nat, NEW c \in Nat, NEW a \in Nat
  PROVE  (x * s + c) * a = x * (s * a) + c * a
<1>1. (x * s + c) * a = (x * s) * a + c * a
  OBVIOUS
<1> QED
  BY <1>1, Associates

\* The sum over the trailing products is what Horner's scheme gives.
LEMMA IndexIsHorner ==
  ASSUME NEW t, NEW c, NEW q, CoordinateOf(t, c), Horner(t, c, q)
  PROVE  Total([d \in 1 .. Dim(t) |-> c[d] * After(t.sizes, d)]) = q[Dim(t)]
<1> DEFINE n == Dim(t)
           s == t.sizes
           e(d) == c[d] * After(s, d)
           terms == [d \in 1 .. n |-> e(d)]
           p == Partial(terms)
           F == p
           G == [d \in 0 .. n |-> q[d] * After(s, d)]
<1>1. s \in Seq(Nat) /\ n = Len(s) /\ n \in Nat
  BY DEF CoordinateOf, Dim
<1>2. \A d \in 0 .. n : After(s, d) \in Nat
  BY <1>1, AfterStep
<1>3. \A d \in 1 .. n : c[d] \in Nat /\ s[d] \in Nat
  <2>1. \A d \in 1 .. n : s[d] \in Nat
    BY <1>1
  <2>2. \A d \in 1 .. n : c[d] \in Nat
    BY DEF CoordinateOf
  <2> QED
    BY <2>1, <2>2
<1>4. \A d \in 1 .. n : e(d) \in Nat
  <2> TAKE d \in 1 .. n
  <2>1. c[d] \in Nat /\ After(s, d) \in Nat
    BY <1>1, <1>2, <1>3
  <2> QED
    BY <2>1
<1>5. terms \in Seq(Nat) /\ Len(terms) = n
  <2> HIDE DEF e, n
  <2> QED
    BY <1>1, <1>4
<1>6. Adds(p, terms, n) /\ Total(terms) = p[n]
  BY <1>5, PartialDef DEF Total
<1>7. p[0] = 0 /\ \A d \in 1 .. n : p[d] = p[d - 1] + c[d] * After(s, d)
  BY <1>6 DEF Adds
<1> HIDE DEF p, n
<1>8. q[0] = 0 /\ (\A d \in 0 .. n : q[d] \in Nat) /\ \A d \in 1 .. n : q[d] = q[d - 1] * s[d] + c[d]
  BY DEF Horner, n
<1>9. p[0] = G[0]
  <2>1. 0 \in 0 .. n /\ After(s, 0) \in Nat
    BY <1>1, <1>2
  <2> QED
    BY <1>7, <1>8, <2>1
<1>10. \A d \in 1 .. n : p[d - 1] = G[d - 1] => p[d] = G[d]
  <2> SUFFICES ASSUME NEW d \in 1 .. n, p[d - 1] = G[d - 1]
               PROVE  p[d] = G[d]
    OBVIOUS
  <2>1. d \in 0 .. n /\ d - 1 \in 0 .. n
    BY <1>1
  <2>2. After(s, d - 1) = s[d] * After(s, d)
    BY <1>1, AfterStep
  <2>3. p[d] = q[d - 1] * (s[d] * After(s, d)) + c[d] * After(s, d)
    BY <1>7, <2>1, <2>2
  <2>4. (q[d - 1] * s[d] + c[d]) * After(s, d) = q[d - 1] * (s[d] * After(s, d)) + c[d] * After(s, d)
    BY <1>2, <1>3, <1>8, <2>1, HornerStep
  <2>5. q[d] = q[d - 1] * s[d] + c[d]
    BY <1>8
  <2>6. G[d] = q[d] * After(s, d)
    BY <2>1
  <2> HIDE DEF G
  <2> QED
    BY <2>3, <2>4, <2>5, <2>6
<1>11. StepAlike(p, G, n)
  BY <1>9, <1>10 DEF StepAlike
<1>12. Alike(p, G, n)
  <2> HIDE DEF G
  <2> QED
    BY <1>1, <1>11, AlikeUpTo
<1>13. p[n] = q[n] * After(s, n)
  BY <1>1, <1>12, n \in 0 .. n DEF Alike
<1>14. After(s, n) = 1 /\ q[n] \in Nat
  BY <1>1, <1>8, AfterStep
<1>15. p[n] = q[n]
  BY <1>13, <1>14
<1> QED
  BY <1>6, <1>15 DEF n

\* indexToCoordinate divides out what the computation put in, from the last
\* dimension to the first.
LEMMA InverseOfHorner ==
  ASSUME NEW t, NEW c, NEW q, CoordinateOf(t, c), Horner(t, c, q)
  PROVE  indexToCoordinate(t, q[Dim(t)]) = c
<1> DEFINE n == Dim(t)
           s == t.sizes
           index == q[n]
           Is(f) == f = [d \in 0 .. n |-> IF d = n THEN index ELSE f[d + 1] \div s[d + 1]]
           rest == CHOOSE f : Is(f)
<1>1. n \in Nat /\ \A d \in 1 .. n : s[d] \in Nat \ {0} /\ c[d] \in Nat /\ c[d] < s[d]
  BY DEF CoordinateOf, Dim
<1>2. \A d \in 0 .. n : q[d] \in Nat
  BY DEF Horner
<1>3. \A d \in 1 .. n : q[d] \div s[d] = q[d - 1] /\ q[d] % s[d] = c[d]
  <2> SUFFICES ASSUME NEW d \in 1 .. n
               PROVE  q[d] \div s[d] = q[d - 1] /\ q[d] % s[d] = c[d]
    OBVIOUS
  <2>1. q[d] = q[d - 1] * s[d] + c[d]
    BY DEF Horner
  <2>2. q[d - 1] \in Nat
    <3>1. d - 1 \in 0 .. n
      BY <1>1
    <3> QED
      BY <1>2, <3>1
  <2>3. s[d] \in Nat \ {0} /\ c[d] \in Nat /\ c[d] < s[d]
    BY <1>1
  <2>4. (q[d - 1] * s[d] + c[d]) \div s[d] = q[d - 1] /\ (q[d - 1] * s[d] + c[d]) % s[d] = c[d]
    BY <2>2, <2>3, DivideBack
  <2> QED
    BY <2>1, <2>4
<1>4. indexToCoordinate(t, index) = [d \in 1 .. n |-> rest[d] % s[d]]
  BY DEF indexToCoordinate
<1> HIDE DEF n, index
<1>5. Is(q)
  <2>1. q = [d \in 0 .. n |-> q[d]]
    BY DEF Horner, n
  <2>2. \A d \in 0 .. n : q[d] = IF d = n THEN index ELSE q[d + 1] \div s[d + 1]
    <3> SUFFICES ASSUME NEW d \in 0 .. n, d # n
                 PROVE  q[d] = q[d + 1] \div s[d + 1]
      BY DEF index
    <3>1. d + 1 \in 1 .. n /\ (d + 1) - 1 = d
      BY <1>1
    <3> QED
      BY <1>3, <3>1
  <2> QED
    BY <2>1, <2>2
<1>6. Is(rest)
  <2> HIDE DEF Is
  <2> QED
    BY <1>5
<1> HIDE DEF rest
<1> DEFINE T == {i \in 0 .. n : rest[i] = q[i]}
<1>7. n \in T
  BY <1>1, <1>5, <1>6
<1>8. \A i \in 1 .. n : i \in T => i - 1 \in T
  <2> SUFFICES ASSUME NEW i \in 1 .. n, rest[i] = q[i]
               PROVE  i - 1 \in T
    OBVIOUS
  <2>1. i - 1 \in 0 .. n /\ i - 1 # n /\ (i - 1) + 1 = i
    BY <1>1
  <2>2. rest[i - 1] = rest[(i - 1) + 1] \div s[(i - 1) + 1]
    BY <1>6, <2>1
  <2>3. q[i - 1] = q[i] \div s[i]
    BY <1>3
  <2> QED
    BY <2>1, <2>2, <2>3
<1>9. \A d \in 1 .. n : rest[d] % s[d] = c[d]
  <2>1. \A i \in 0 .. n : i \in T
    <3> HIDE DEF T
    <3> QED
      BY <1>1, <1>7, <1>8, DownFrom
  <2>2. \A d \in 1 .. n : rest[d] = q[d]
    BY <1>1, <2>1
  <2> QED
    BY <1>3, <2>2
<1>10. c = [d \in 1 .. n |-> c[d]]
  BY DEF CoordinateOf, n
<1>11. indexToCoordinate(t, index) = c
  BY <1>4, <1>9, <1>10
<1> QED
  BY <1>11 DEF index, n

\* What is less in each size is less in all.
LEMMA HornerBelow ==
  ASSUME NEW t, NEW c, NEW q, CoordinateOf(t, c), Horner(t, c, q)
  PROVE  q[Dim(t)] < Numel(t)
<1> DEFINE n == Dim(t)
           s == t.sizes
           f == Products(s)
           T == {i \in 0 .. n : q[i] < f[i]}
<1>1. n \in Nat /\ Multiplies(f, s, n) /\ Numel(t) = f[n]
  BY ProductsDef DEF CoordinateOf, Dim, Numel, sizes_to_numel, Product
<1> HIDE DEF f
<1>2. 0 \in T
  BY <1>1 DEF Multiplies, Horner
<1>3. \A i \in 1 .. n : i - 1 \in T => i \in T
  <2> SUFFICES ASSUME NEW i \in 1 .. n, i - 1 \in T
               PROVE  q[i] < f[i]
    OBVIOUS
  <2>1. i - 1 \in 0 .. n /\ q[i - 1] < f[i - 1]
    BY <1>1
  <2>2. q[i] = q[i - 1] * s[i] + c[i] /\ q[i - 1] \in Nat
    BY <2>1 DEF Horner
  <2>3. f[i] = f[i - 1] * s[i] /\ f[i - 1] \in Nat
    BY <1>1, <2>1 DEF Multiplies
  <2>4. s[i] \in Nat /\ c[i] \in Nat /\ c[i] < s[i]
    BY DEF CoordinateOf, Dim
  <2>5. PICK k \in Nat : f[i - 1] = q[i - 1] + 1 + k
    <3>1. f[i - 1] - q[i - 1] - 1 \in Nat /\ f[i - 1] = q[i - 1] + 1 + (f[i - 1] - q[i - 1] - 1)
      BY <2>1, <2>2, <2>3
    <3> QED
      BY <3>1
  <2>6. f[i - 1] * s[i] = q[i - 1] * s[i] + s[i] + k * s[i] /\ k * s[i] \in Nat /\ q[i - 1] * s[i] \in Nat
    BY <2>2, <2>4, <2>5
  <2> QED
    BY <2>2, <2>3, <2>4, <2>6
<1>4. n \in T
  <2>1. \A i \in 0 .. n : i \in T
    <3> HIDE DEF T, n
    <3> QED
      BY <1>1, <1>2, <1>3, UpTo
  <2> QED
    BY <1>1, <2>1
<1> QED
  BY <1>1, <1>4

\* The strides of a contiguous tensor are the products of the sizes behind.
LEMMA ContiguousStrides ==
  ASSUME NEW t, Ranked(t), tensor_is_contiguous(t)
  PROVE  \A d \in 1 .. Dim(t) : t.strides[d] = After(t.sizes, d)
<1> DEFINE n == Dim(t)
           s == t.sizes
           T == {i \in 0 .. n : i > 0 => t.strides[i] = After(s, i)}
<1>1. n \in Nat /\ n = Len(s) /\ s \in Seq(Nat) /\ Len(t.strides) = n
  BY EntriesLen DEF Ranked, Dim
<1> HIDE DEF n
<1>2. n > 0 => t.strides[n] = 1 /\ \A i \in 2 .. n : t.strides[i - 1] = t.strides[i] * s[i]
  BY <1>1 DEF tensor_is_contiguous
<1>3. n \in T
  BY <1>1, <1>2, AfterStep
<1>4. \A i \in 1 .. n : i \in T => i - 1 \in T
  <2> SUFFICES ASSUME NEW i \in 1 .. n, i \in T, i - 1 > 0
               PROVE  t.strides[i - 1] = After(s, i - 1)
    BY <1>1
  <2>1. t.strides[i - 1] = After(s, i) * s[i]
    BY <1>1, <1>2
  <2>2. After(s, i - 1) = s[i] * After(s, i) /\ After(s, i) \in Nat
    BY <1>1, AfterStep
  <2>3. s[i] \in Nat
    BY <1>1
  <2> QED
    BY <2>1, <2>2, <2>3, Associates
<1>5. \A i \in 0 .. n : i \in T
  <2> HIDE DEF T
  <2> QED
    BY <1>1, <1>3, <1>4, DownFrom
<1> QED
  BY <1>1, <1>5 DEF n

\* What the sizes alone give for a coordinate is one number, less than the number
\* of elements, from which the coordinate comes back; where it is the offset, all
\* three ways to compute it find the element.
LEMMA IndexedBySizes ==
  ASSUME NEW t, Ranked(t), NEW c, CoordinateOf(t, c)
  PROVE  LET index == Total([d \in 1 .. Dim(t) |-> c[d] * After(t.sizes, d)])
         IN  /\ coordinateToIndex(t, c) = index /\ index < Numel(t)
             /\ indexToCoordinate(t, index) = c
             /\ Offset(t, c) = index => SizesIndex(t, c)
<1> DEFINE n == Dim(t)
           index == Total([d \in 1 .. n |-> c[d] * After(t.sizes, d)])
           memo == memoizeTrailingDims(t)
<1>1. t.sizes \in Seq(Nat) /\ n \in Nat
  BY DEF Ranked, Dim
<1>2. PICK q : Horner(t, c, q)
  BY HornerExists
<1>3. index = q[n] /\ index < Numel(t) /\ indexToCoordinate(t, index) = c
  BY <1>2, IndexIsHorner, HornerBelow, InverseOfHorner
<1>4. coordinateToIndex(t, c) = index
  <2>1. \A d \in 1 .. n : getTrailingDims(t, d - 1) = After(t.sizes, d)
    BY <1>1, AfterIsTrailing
  <2>2. [d \in 1 .. n |-> c[d] * getTrailingDims(t, d - 1)] = [d \in 1 .. n |-> c[d] * After(t.sizes, d)]
    BY <2>1
  <2> QED
    BY <2>2 DEF coordinateToIndex
<1>5. coordinateToIndexWithTrailingDimsMemo(t, c, memo) = index
  <2>1. \A d \in 1 .. n : memo[d] = After(t.sizes, d)
    BY <1>1, MemoIsAfter
  <2>2. [d \in 1 .. n |-> c[d] * memo[d]] = [d \in 1 .. n |-> c[d] * After(t.sizes, d)]
    BY <2>1
  <2> QED
    BY <2>2 DEF coordinateToIndexWithTrailingDimsMemo
<1> HIDE DEF index, memo
<1>6. ASSUME Offset(t, c) = index
      PROVE  SizesIndex(t, c)
  <2>1. indexToCoordinate(t, Offset(t, c)) = c
    BY <1>3, <1>6
  <2> QED
    BY <1>4, <1>5, <1>6, <2>1 DEF SizesIndex, memo
<1> QED
  BY <1>3, <1>4, <1>6 DEF index

\* For a tensor of any rank and sizes without a zero: the accessors reach the
\* element calculate_linear_index names; coordinateToIndex is less than the number
\* of elements and indexToCoordinate takes it back; with contiguous strides the
\* index, with and without the memo, is the offset in the data; and the leading
\* sizes, the size and the trailing sizes of each dimension multiply to numel.
THEOREM IndexingIsInverse ==
  ASSUME NEW t, t.strides \in Seq(Nat), Ranked(t), NEW c, CoordinateOf(t, c)
  PROVE  /\ AccessorOffset(c, t.strides) = Offset(t, c)
         /\ coordinateToIndex(t, c) < Numel(t)
         /\ indexToCoordinate(t, coordinateToIndex(t, c)) = c
         /\ tensor_is_contiguous(t) => SizesIndex(t, c)
         /\ \A d \in 1 .. Dim(t) :
               getLeadingDims(t, d - 1) * t.sizes[d] * getTrailingDims(t, d - 1) = Numel(t)
<1> DEFINE n == Dim(t)
<1>1. t.sizes \in Seq(Nat) /\ n \in Nat /\ Len(t.strides) = n /\ Dims(t.strides) = 1 .. n
  BY EntriesLen DEF Ranked, Dim
<1>2. AccessorOffset(c, t.strides) = Offset(t, c)
  <2>1. \A d \in 1 .. n : t.strides[d] \in Nat /\ c[d] \in Nat
    BY <1>1 DEF CoordinateOf
  <2> QED
    BY <1>1, <2>1, AccessorIsLinear DEF Offset
<1>3. ASSUME tensor_is_contiguous(t)
      PROVE  Offset(t, c) = Total([d \in 1 .. n |-> c[d] * After(t.sizes, d)])
  <2>1. \A d \in 1 .. n : t.strides[d] = After(t.sizes, d)
    BY <1>3, ContiguousStrides
  <2>2. [d \in 1 .. n |-> c[d] * t.strides[d]] = [d \in 1 .. n |-> c[d] * After(t.sizes, d)]
    BY <2>1
  <2> QED
    BY <1>1, <2>2 DEF Offset, calculate_linear_index
<1>4. \A d \in 1 .. Dim(t) :
         getLeadingDims(t, d - 1) * t.sizes[d] * getTrailingDims(t, d - 1) = Numel(t)
  BY <1>1, LeadingTimesTrailing
<1>5. /\ coordinateToIndex(t, c) < Numel(t)
      /\ indexToCoordinate(t, coordinateToIndex(t, c)) = c
      /\ tensor_is_contiguous(t) => SizesIndex(t, c)
  BY <1>3, IndexedBySizes
<1> QED
  BY <1>2, <1>4, <1>5

-----------------------------------------------------------------------------
(* Strides that follow from an order of the dimensions.                    *)

\* The dimension orders of TensorLayout are the permutations.
LEMMA OrdersPermute ==
  ASSUME NEW n \in Nat, NEW p
  PROVE  p \in DimOrders(n) <=> Permutes(p, n)
<1>1. IsFiniteSet(1 .. n) /\ Cardinality(1 .. n) = n
  BY FS_Interval
<1>2. ASSUME p \in [1 .. n -> 1 .. n]
      PROVE  p \in DimOrders(n) <=> Permutes(p, n)
  <2> DEFINE R == {p[i] : i \in 1 .. n}
  <2>1. R \in SUBSET (1 .. n) /\ p \in Surjection(1 .. n, R)
    BY <1>2 DEF Surjection
  <2>2. p \in DimOrders(n) <=> Cardinality(R) = n
    BY <1>2 DEF DimOrders
  <2> HIDE DEF R
  <2>3. Cardinality(R) = n <=> p \in Injection(1 .. n, R)
    BY <1>1, <2>1, FS_Surjection
  <2>4. Cardinality(R) = n => R = 1 .. n
    BY <1>1, <2>1, FS_Subset
  <2>5. p \in Injection(1 .. n, R) <=> \A i, j \in 1 .. n : p[i] = p[j] => i = j
    BY <1>2, <2>1 DEF Injection, IsInjective, Surjection
  <2>6. R = 1 .. n => \A d \in 1 .. n : \E i \in 1 .. n : p[i] = d
    BY <2>1 DEF Surjection
  <2> QED
    BY <1>2, <2>2, <2>3, <2>4, <2>5, <2>6 DEF Permutes
<1> QED
  BY <1>2 DEF DimOrders, Permutes

\* The sizes in the order of o, empty dimensions counted as one.
Sorted(s, o) == [i \in 1 .. Len(s) |-> OneIfZero(s[o[i]])]

\* Such sizes are positive, one for each dimension.
LEMMA RangedType ==
  ASSUME NEW s \in Seq(Nat), NEW o \in [1 .. Len(s) -> 1 .. Len(s)]
  PROVE  Sorted(s, o) \in Seq(Nat \ {0}) /\ Len(Sorted(s, o)) = Len(s)
<1>1. \A i \in 1 .. Len(s) : OneIfZero(s[o[i]]) \in Nat \ {0}
  <2> TAKE i \in 1 .. Len(s)
  <2>1. o[i] \in 1 .. Len(s)
    OBVIOUS
  <2>2. s[o[i]] \in Nat
    BY <2>1
  <2> QED
    BY <2>2 DEF OneIfZero
<1> QED
  BY <1>1 DEF Sorted

\* In particular in the order of a permutation.
LEMMA SortedType ==
  ASSUME NEW s \in Seq(Nat), NEW o, Permutes(o, Len(s))
  PROVE  Sorted(s, o) \in Seq(Nat \ {0}) /\ Len(Sorted(s, o)) = Len(s)
  BY RangedType DEF Permutes

\* What is written at each position of the order is the product of the sizes of
\* the positions behind it.
LEMMA StridesWritten ==
  ASSUME NEW s \in Seq(Nat), NEW o \in [1 .. Len(s) -> 1 .. Len(s)]
  PROVE  dim_order_to_stride_nocheck(s, o) =
            [d \in 1 .. Len(s) |-> StrideOf(o, [i \in 1 .. Len(s) |-> After(Sorted(s, o), i)], d)]
<1> DEFINE n == Len(s)
           u == Sorted(s, o)
           Is(f) == f = [i \in 1 .. n |-> IF i = n THEN 1 ELSE f[i + 1] * OneIfZero(s[o[i + 1]])]
           w == [i \in 1 .. n |-> After(u, i)]
           at == CHOOSE f : Is(f)
           st == dim_order_to_stride_nocheck(s, o)
<1>1. n \in Nat /\ u \in Seq(Nat) /\ Len(u) = n
  BY RangedType
<1>2. \A i \in 1 .. n : u[i] = OneIfZero(s[o[i]])
  BY DEF Sorted
<1>3. Len(o) = n
  OBVIOUS
<1>4. st = [d \in 1 .. n |-> StrideOf(o, at, d)]
  BY <1>3 DEF dim_order_to_stride_nocheck
<1> HIDE DEF u, n
<1>5. \A i \in 1 .. n : i # n => i + 1 \in 1 .. n
  BY <1>1
<1>6. Is(w)
  <2>1. Trails(w, u, n)
    BY <1>1, TrailsAfter
  <2>2. w = [i \in 1 .. n |-> w[i]]
    OBVIOUS
  <2> HIDE DEF w
  <2> QED
    BY <1>2, <1>5, <2>1, <2>2 DEF Trails
<1>7. Is(at)
  <2> HIDE DEF Is
  <2> QED
    BY <1>6
<1> HIDE DEF at
<1>8. Trails(at, u, n)
  BY <1>2, <1>5, <1>7 DEF Trails
<1>9. \A i \in 1 .. n : at[i] = After(u, i)
  BY <1>1, <1>8, TrailsAfter
<1>10. at = w
  <2>1. at = [i \in 1 .. n |-> at[i]]
    BY <1>7
  <2> QED
    BY <1>9, <2>1
<1> QED
  BY <1>4, <1>10 DEF n, u

\* The stride of a dimension is the product of the sizes of those behind it.
LEMMA StridesOfOrder ==
  ASSUME NEW s \in Seq(Nat), NEW o, Permutes(o, Len(s)), Len(o) = Len(s)
  PROVE  /\ dim_order_to_stride_nocheck(s, o) \in [1 .. Len(s) -> Nat]
         /\ \A i \in 1 .. Len(s) :
               dim_order_to_stride_nocheck(s, o)[o[i]] = After(Sorted(s, o), i)
<1> DEFINE n == Len(s)
           u == Sorted(s, o)
           w == [i \in 1 .. n |-> After(u, i)]
           st == dim_order_to_stride_nocheck(s, o)
<1>1. o \in [1 .. n -> 1 .. n]
  BY DEF Permutes
<1>2. n \in Nat /\ u \in Seq(Nat) /\ Len(u) = n
  BY <1>1, RangedType
<1>3. st = [d \in 1 .. n |-> StrideOf(o, w, d)]
  BY <1>1, StridesWritten
<1> HIDE DEF u, n, st
<1>4. ASSUME NEW i \in 1 .. n
      PROVE  st[o[i]] = After(u, i)
  <2>1. o[i] \in 1 .. n /\ \A j \in 1 .. n : o[j] = o[i] => j = i
    BY DEF Permutes, n
  <2>2. Dims(o) = 1 .. n
    BY DEF Dims, n
  <2>3. {j \in Dims(o) : o[j] = o[i]} = {i}
    BY <2>1, <2>2
  <2>4. Min({i}) = i
    BY DEF Min
  <2>5. StrideOf(o, w, o[i]) = w[i]
    BY <2>3, <2>4 DEF StrideOf
  <2> QED
    BY <1>3, <2>1, <2>5
<1>5. \A i \in 1 .. n : After(u, i) \in Nat
  BY <1>2, AfterStep
<1>6. \A d \in 1 .. n : st[d] \in Nat
  <2> TAKE d \in 1 .. n
  <2>1. PICK i \in 1 .. n : o[i] = d
    BY DEF Permutes, n
  <2> QED
    BY <1>4, <1>5, <2>1
<1>7. st \in [1 .. n -> Nat]
  BY <1>3, <1>6
<1> QED
  BY <1>4, <1>7 DEF st, u, n

\* An order that repeats a dimension leaves another out, whose stride stays 0.
LEMMA StrideWanted ==
  ASSUME NEW s \in Seq(Nat), NEW o \in [1 .. Len(s) -> 1 .. Len(s)], ~Permutes(o, Len(s))
  PROVE  /\ dim_order_to_stride_nocheck(s, o) \in [1 .. Len(s) -> Nat]
         /\ \E d \in 1 .. Len(s) : dim_order_to_stride_nocheck(s, o)[d] = 0
<1> DEFINE n == Len(s)
           u == Sorted(s, o)
           w == [i \in 1 .. n |-> After(u, i)]
           st == dim_order_to_stride_nocheck(s, o)
           R == {o[i] : i \in 1 .. n}
<1>1. n \in Nat /\ u \in Seq(Nat) /\ Len(u) = n /\ Dims(o) = 1 .. n
  BY RangedType DEF Dims
<1>2. st = [d \in 1 .. n |-> StrideOf(o, w, d)]
  BY StridesWritten
<1>3. PICK e \in 1 .. n : e \notin R
  <2>1. Cardinality(1 .. n) = n
    BY FS_Interval
  <2>2. o \notin DimOrders(n)
    BY <1>1, OrdersPermute
  <2>3. Cardinality(R) # n
    BY <2>2 DEF DimOrders
  <2>4. R # 1 .. n
    BY <1>1, <2>1, <2>3
  <2>5. R \subseteq 1 .. n
    OBVIOUS
  <2> QED
    BY <2>4, <2>5
<1> HIDE DEF u, n, st
<1>4. st[e] = 0
  <2>1. {i \in Dims(o) : o[i] = e} = {}
    BY <1>1, <1>3
  <2> QED
    BY <1>2, <2>1 DEF StrideOf
<1>5. ASSUME NEW d \in 1 .. n
      PROVE  st[d] \in Nat
  <2> DEFINE Places == {i \in Dims(o) : o[i] = d}
  <2>1. st[d] = IF Places = {} THEN 0 ELSE w[Min(Places)]
    BY <1>2 DEF StrideOf
  <2>2. Places # {} => Min(Places) \in 1 .. n
    <3>1. Places \subseteq 1 .. n /\ Places \subseteq Nat
      BY <1>1
    <3> HIDE DEF Places
    <3>2. Places # {} => Min(Places) \in Places
      BY <3>1, Least DEF Min
    <3> QED
      BY <3>1, <3>2
  <2>3. \A i \in 1 .. n : After(u, i) \in Nat
    BY <1>1, AfterStep
  <2> QED
    BY <2>1, <2>2, <2>3
<1>6. st \in [1 .. n -> Nat]
  BY <1>2, <1>5
<1> QED
  BY <1>3, <1>4, <1>6 DEF st, n

\* Strides that follow from some order of the dimensions.
Packed(t) == /\ t.sizes \in Seq(Nat)
             /\ \E o : /\ Permutes(o, Dim(t))
                       /\ t.strides = dim_order_to_stride_nocheck(t.sizes, o)

\* The coordinate c in the order of o, of the sizes in that order.
InOrder(c, o, n) == [i \in 1 .. n |-> c[o[i]]]
Shape(s) == [sizes |-> s]

\* The offset of a coordinate is the sum, in the order that gave the strides, of each
\* component times the sizes behind it.
LEMMA OffsetInOrder ==
  ASSUME NEW t, t.sizes \in Seq(Nat), NEW o, Permutes(o, Dim(t)),
         t.strides = dim_order_to_stride_nocheck(t.sizes, o),
         NEW c \in [1 .. Dim(t) -> Nat]
  PROVE  /\ Offset(t, c) = Total([i \in 1 .. Dim(t) |->
                                    InOrder(c, o, Dim(t))[i] * After(Sorted(t.sizes, o), i)])
         /\ Offset(t, c) \in Nat
<1> DEFINE n == Dim(t)
           u == Sorted(t.sizes, o)
           st == t.strides
           f == [d \in 1 .. n |-> c[d] * st[d]]
<1>1. n \in Nat /\ n = Len(t.sizes) /\ Len(o) = n
  BY DEF Dim, Permutes
<1>2. st \in [1 .. n -> Nat] /\ \A i \in 1 .. n : st[o[i]] = After(u, i)
  BY <1>1, StridesOfOrder
<1> HIDE DEF u, st, n
<1>3. f \in [1 .. n -> Nat]
  <2>1. \A d \in 1 .. n : c[d] \in Nat /\ st[d] \in Nat
    BY <1>2 DEF n
  <2>2. \A d \in 1 .. n : c[d] * st[d] \in Nat
    BY <2>1
  <2> QED
    BY <2>2
<1>4. Offset(t, c) = Total(f)
  <2>1. Dims(st) = 1 .. n
    BY <1>1, <1>2 DEF Dims
  <2> QED
    BY <2>1 DEF Offset, calculate_linear_index, st
<1>5. Total(f) \in Nat
  <2>1. f \in Seq(Nat)
    BY <1>1, <1>3
  <2> QED
    BY <2>1, TotalType
<1>6. [i \in 1 .. n |-> f[o[i]]] = [i \in 1 .. n |-> InOrder(c, o, n)[i] * After(u, i)]
  <2>1. \A i \in 1 .. n : o[i] \in 1 .. n
    BY DEF Permutes, n
  <2> QED
    BY <1>2, <2>1 DEF InOrder
<1>7. Total([i \in 1 .. n |-> f[o[i]]]) = Total(f)
  <2> HIDE DEF f
  <2> QED
    BY <1>1, <1>3, TotalPermuted DEF n
<1> HIDE DEF f
<1> QED
  BY <1>4, <1>5, <1>6, <1>7 DEF n, u

\* Every number below the product of the sizes is the index of a coordinate.
LEMMA IndexOnto ==
  ASSUME NEW u \in Seq(Nat \ {0}), NEW x \in Nat, x < Product(u)
  PROVE  \E e : /\ CoordinateOf(Shape(u), e)
                /\ Total([i \in 1 .. Len(u) |-> e[i] * After(u, i)]) = x
<1> DEFINE n == Len(u)
           step == [i \in 1 .. n |-> [y \in Nat |-> y \div u[n + 1 - i]]]
           f == Products(u)
<1>1. n \in Nat /\ u \in Seq(Nat) /\ \A d \in 1 .. n : u[d] \in Nat \ {0}
  OBVIOUS
<1>2. \A i \in 1 .. n : n + 1 - i \in 1 .. n
  BY <1>1
<1>3. \A i \in 1 .. n : step[i] \in [Nat -> Nat]
  <2> SUFFICES ASSUME NEW i \in 1 .. n
               PROVE  step[i] \in [Nat -> Nat]
    OBVIOUS
  <2>1. PICK m \in Nat \ {0} : m = u[n + 1 - i]
    BY <1>1, <1>2
  <2>2. \A y \in Nat : y \div m \in Nat
    OBVIOUS
  <2>3. step[i] = [y \in Nat |-> y \div u[n + 1 - i]]
    OBVIOUS
  <2> QED
    BY <2>1, <2>2, <2>3
<1>4. \A i \in 1 .. n, y \in Nat : step[i][y] = y \div u[n + 1 - i]
  OBVIOUS
<1> HIDE DEF step, n
<1>5. PICK r \in [0 .. n -> Nat] : Follows(r, x, step, n)
  BY <1>1, <1>3, RecursionExists
<1> DEFINE q == [d \in 0 .. n |-> r[n - d]]
           e == [d \in 1 .. n |-> q[d] % u[d]]
           t == Shape(u)
<1>6. \A d \in 0 .. n : q[d] \in Nat
  <2> TAKE d \in 0 .. n
  <2>1. n - d \in 0 .. n
    BY <1>1
  <2> QED
    BY <1>5, <2>1
<1>7. q[n] = x
  <2>1. n - n = 0 /\ n \in 0 .. n
    BY <1>1
  <2> QED
    BY <1>5, <2>1 DEF Follows
<1>8. \A d \in 1 .. n : q[d - 1] = q[d] \div u[d]
  <2> TAKE d \in 1 .. n
  <2>1. n + 1 - d \in 1 .. n /\ (n + 1 - d) - 1 = n - d /\ n - (d - 1) = n + 1 - d
        /\ n + 1 - (n + 1 - d) = d /\ n - d \in 0 .. n /\ d - 1 \in 0 .. n /\ d \in 0 .. n
    BY <1>1
  <2>2. r[n + 1 - d] = step[n + 1 - d][r[(n + 1 - d) - 1]]
    BY <1>5, <2>1 DEF Follows
  <2>3. r[n - d] \in Nat
    BY <1>5, <2>1
  <2>4. step[n + 1 - d][r[n - d]] = r[n - d] \div u[n + 1 - (n + 1 - d)]
    BY <1>4, <2>1, <2>3
  <2> QED
    BY <2>1, <2>2, <2>4
<1>9. Multiplies(f, u, n) /\ Product(u) = f[n]
  BY <1>1, ProductsDef DEF Product, n
<1> HIDE DEF q, f
<1> DEFINE T == {i \in 0 .. n : q[i] < f[i]}
<1>10. n \in T
  BY <1>1, <1>7, <1>9
<1>11. \A i \in 1 .. n : i \in T => i - 1 \in T
  <2> SUFFICES ASSUME NEW i \in 1 .. n, q[i] < f[i]
               PROVE  q[i - 1] < f[i - 1]
    BY <1>1
  <2>1. i - 1 \in 0 .. n /\ i \in 0 .. n
    BY <1>1
  <2>2. f[i] = f[i - 1] * u[i] /\ f[i - 1] \in Nat
    BY <1>9, <2>1 DEF Multiplies
  <2>3. q[i - 1] = q[i] \div u[i] /\ q[i] \in Nat /\ u[i] \in Nat \ {0}
    BY <1>1, <1>6, <1>8, <2>1
  <2> DEFINE a == q[i]
             b == f[i - 1]
             m == u[i]
  <2>4. a \in Nat /\ b \in Nat /\ m \in Nat \ {0} /\ a < b * m
    BY <2>2, <2>3
  <2>5. a \div m < b
    <3> HIDE DEF a, b, m
    <3> DEFINE k == a \div m
    <3>1. k \in Nat /\ m * k <= a
      BY <2>4
    <3> HIDE DEF k
    <3>2. ~(b <= k)
      <4> SUFFICES ASSUME b <= k PROVE FALSE
        OBVIOUS
      <4>1. PICK j \in Nat : k = b + j
        <5>1. k - b \in Nat /\ k = b + (k - b)
          BY <2>4, <3>1
        <5> QED
          BY <5>1
      <4>2. m * k = b * m + m * j /\ m * j \in Nat /\ b * m \in Nat
        BY <2>4, <4>1
      <4> QED
        BY <2>4, <3>1, <4>2
    <3> QED
      BY <2>4, <3>1, <3>2 DEF k
  <2> QED
    BY <2>3, <2>5
<1>12. 0 \in T
  <2>1. \A i \in 0 .. n : i \in T
    <3> HIDE DEF T
    <3> QED
      BY <1>1, <1>10, <1>11, DownFrom
  <2>2. 0 \in 0 .. n
    BY <1>1
  <2> QED
    BY <2>1, <2>2
<1>13. q[0] = 0
  <2>1. q[0] \in Nat /\ q[0] < 1
    BY <1>1, <1>6, <1>9, <1>12 DEF Multiplies
  <2> QED
    BY <2>1
<1>14. \A d \in 1 .. n : e[d] \in Nat /\ e[d] < u[d] /\ q[d] = q[d - 1] * u[d] + e[d]
  <2> SUFFICES ASSUME NEW d \in 1 .. n
               PROVE  e[d] \in Nat /\ e[d] < u[d] /\ q[d] = q[d - 1] * u[d] + e[d]
    OBVIOUS
  <2>1. q[d] \in Nat /\ u[d] \in Nat \ {0} /\ q[d - 1] = q[d] \div u[d] /\ e[d] = q[d] % u[d]
    BY <1>1, <1>6, <1>8
  <2> DEFINE a == q[d]
             m == u[d]
  <2>2. (a % m) \in Nat /\ (a % m) < m /\ a = (a \div m) * m + (a % m)
    <3>1. a \in Nat /\ m \in Nat \ {0}
      BY <2>1
    <3> HIDE DEF a, m
    <3>2. (a % m) \in 0 .. m - 1 /\ a = m * (a \div m) + (a % m) /\ a \div m \in Nat
      BY <3>1
    <3>3. m * (a \div m) = (a \div m) * m
      BY <3>1, <3>2
    <3> QED
      BY <3>1, <3>2, <3>3
  <2> QED
    BY <2>1, <2>2
<1>15. e \in [1 .. n -> Nat]
  <2> HIDE DEF e
  <2>1. e = [d \in 1 .. n |-> e[d]]
    BY DEF e
  <2> QED
    BY <1>14, <2>1
<1>16. q \in [0 .. n -> Nat]
  BY <1>6 DEF q
<1> HIDE DEF e
<1>17. t.sizes = u /\ Dim(t) = n
  BY DEF Shape, Dim, n
<1> HIDE DEF t
<1>18. CoordinateOf(t, e)
  BY <1>14, <1>15, <1>17 DEF CoordinateOf
<1>19. Horner(t, e, q)
  BY <1>13, <1>14, <1>16, <1>17 DEF Horner
<1>20. Total([d \in 1 .. n |-> e[d] * After(u, d)]) = x
  BY <1>7, <1>17, <1>18, <1>19, IndexIsHorner
<1> QED
  BY <1>18, <1>20 DEF t, n

\* The largest of 0 and the sizes exists; coordinates go up to it.
LEMMA MaxSize ==
  ASSUME NEW s \in Seq(Nat)
  PROVE  LET S == {0} \cup {s[d] : d \in Dims(s)}
         IN  Max(S) \in Nat /\ \A d \in 1 .. Len(s) : s[d] <= Max(S)
<1> DEFINE n == Len(s)
           S == {0} \cup {s[d] : d \in Dims(s)}
           T == {m \in 0 .. n : \E x \in S : \A d \in 1 .. m : s[d] <= x}
<1>1. n \in Nat /\ Dims(s) = 1 .. n /\ S \subseteq Nat /\ \A d \in 1 .. n : s[d] \in S
  BY DEF Dims
<1> HIDE DEF S
<1>2. 0 \in T
  <2>1. 0 \in S
    BY DEF S
  <2> QED
    BY <1>1, <2>1
<1>3. \A m \in 1 .. n : m - 1 \in T => m \in T
  <2> SUFFICES ASSUME NEW m \in 1 .. n, m - 1 \in T
               PROVE  \E x \in S : \A d \in 1 .. m : s[d] <= x
    OBVIOUS
  <2>1. PICK x \in S : \A d \in 1 .. m - 1 : s[d] <= x
    OBVIOUS
  <2>2. x \in Nat /\ s[m] \in Nat /\ s[m] \in S /\ \A d \in 1 .. m - 1 : s[d] \in Nat
    BY <1>1
  <2>3. CASE s[m] <= x
    <3>1. \A d \in 1 .. m : d \in 1 .. m - 1 \/ d = m
      OBVIOUS
    <3> QED
      BY <2>1, <2>3, <3>1
  <2>4. CASE ~(s[m] <= x)
    <3>1. \A d \in 1 .. m : d \in 1 .. m - 1 \/ d = m
      OBVIOUS
    <3>2. \A d \in 1 .. m - 1 : s[d] <= s[m]
      BY <2>1, <2>2, <2>4
    <3>3. s[m] <= s[m]
      BY <2>2
    <3> QED
      BY <2>2, <3>1, <3>2, <3>3
  <2> QED
    BY <2>3, <2>4
<1>4. n \in T
  <2>1. \A m \in 0 .. n : m \in T
    <3> HIDE DEF T
    <3> QED
      BY <1>1, <1>2, <1>3, UpTo
  <2>2. n \in 0 .. n
    BY <1>1
  <2> HIDE DEF T
  <2> QED
    BY <2>1, <2>2
<1>5. PICK x \in S : \A d \in 1 .. n : s[d] <= x
  BY <1>4
<1>6. \A y \in S : x >= y
  <2>1. \A y \in S : y = 0 \/ \E d \in 1 .. n : y = s[d]
    BY <1>1 DEF S
  <2> QED
    BY <1>1, <1>5, <2>1
<1>7. Max(S) \in S /\ \A y \in S : Max(S) >= y
  BY <1>6 DEF Max
<1>8. Max(S) \in Nat /\ \A d \in 1 .. n : s[d] <= Max(S)
  <2> DEFINE m == Max(S)
  <2>1. m \in Nat /\ \A d \in 1 .. n : s[d] \in S /\ s[d] \in Nat
    BY <1>1, <1>7
  <2> HIDE DEF m
  <2>2. \A y \in S : m >= y
    BY <1>7 DEF m
  <2> QED
    BY <2>1, <2>2 DEF m
<1> QED
  BY <1>8 DEF S

\* The coordinates of a shape are all that are below its sizes.
LEMMA CoordinatesAre ==
  ASSUME NEW s \in Seq(Nat)
  PROVE  Coordinates(s) = {c \in [1 .. Len(s) -> Nat] : \A d \in 1 .. Len(s) : c[d] < s[d]}
<1> DEFINE m == Max({0} \cup {s[d] : d \in Dims(s)})
<1>1. m \in Nat /\ \A d \in 1 .. Len(s) : s[d] <= m
  BY MaxSize
<1>2. Coordinates(s) = {c \in [1 .. Len(s) -> 0 .. m - 1] : \A d \in 1 .. Len(s) : c[d] < s[d]}
  BY DEF Coordinates, Dims
<1> HIDE DEF m
<1>3. ASSUME NEW c \in [1 .. Len(s) -> Nat], \A d \in 1 .. Len(s) : c[d] < s[d]
      PROVE  c \in [1 .. Len(s) -> 0 .. m - 1]
  <2>1. \A d \in 1 .. Len(s) : c[d] \in 0 .. m - 1
    <3> TAKE d \in 1 .. Len(s)
    <3>2. c[d] \in Nat /\ s[d] \in Nat
      OBVIOUS
    <3>1. c[d] \in Nat /\ s[d] \in Nat /\ c[d] < s[d] /\ s[d] <= m
      BY <1>1, <1>3, <3>2
    <3> QED
      BY <1>1, <3>1
  <2> QED
    BY <2>1
<1>4. [1 .. Len(s) -> 0 .. m - 1] \subseteq [1 .. Len(s) -> Nat]
  BY <1>1
<1> QED
  BY <1>2, <1>3, <1>4

\* A coordinate in the order of o is one of the sizes in that order, and its
\* offset is the index there.
LEMMA PackedOffset ==
  ASSUME NEW t, t.sizes \in Seq(Nat \ {0}), NEW o, Permutes(o, Dim(t)),
         t.strides = dim_order_to_stride_nocheck(t.sizes, o),
         NEW c \in [1 .. Dim(t) -> Nat], \A d \in 1 .. Dim(t) : c[d] < t.sizes[d]
  PROVE  LET u == Sorted(t.sizes, o)
             e == InOrder(c, o, Dim(t))
         IN  /\ Offset(t, c) \in 0 .. Product(u) - 1
             /\ indexToCoordinate(Shape(u), Offset(t, c)) = e
<1> DEFINE n == Dim(t)
           s == t.sizes
           u == Sorted(s, o)
           e == InOrder(c, o, n)
           v == Shape(u)
<1>1. s \in Seq(Nat) /\ n = Len(s) /\ n \in Nat
  BY DEF Dim
<1>2. u \in Seq(Nat \ {0}) /\ Len(u) = n /\ v.sizes = u /\ Dim(v) = n
  BY <1>1, SortedType DEF Shape, Dim
<1>3. \A i \in 1 .. n : o[i] \in 1 .. n /\ u[i] = s[o[i]]
  <2> TAKE i \in 1 .. n
  <2>1. o[i] \in 1 .. n
    BY DEF Permutes
  <2>2. s[o[i]] # 0
    BY <1>1, <2>1
  <2>3. u[i] = OneIfZero(s[o[i]])
    BY <1>1 DEF Sorted
  <2> QED
    BY <2>1, <2>2, <2>3 DEF OneIfZero
<1>4. CoordinateOf(v, e)
  <2>1. \A i \in 1 .. n : e[i] = c[o[i]] /\ c[o[i]] \in Nat /\ c[o[i]] < u[i]
    BY <1>3 DEF InOrder
  <2>2. e = [i \in 1 .. n |-> c[o[i]]]
    BY DEF InOrder
  <2>3. e \in [1 .. n -> Nat]
    BY <2>1, <2>2
  <2> HIDE DEF e, v, u, n
  <2> QED
    BY <1>2, <2>1, <2>3 DEF CoordinateOf
<1>5. Offset(t, c) = Total([i \in 1 .. n |-> e[i] * After(u, i)]) /\ Offset(t, c) \in Nat
  BY <1>1, OffsetInOrder
<1> HIDE DEF u, e, v, n
<1>6. PICK q : Horner(v, e, q)
  BY <1>4, HornerExists
<1>7. q[n] = Offset(t, c)
  BY <1>2, <1>4, <1>5, <1>6, IndexIsHorner
<1>8. q[n] < Numel(v) /\ indexToCoordinate(v, q[n]) = e
  BY <1>2, <1>4, <1>6, HornerBelow, InverseOfHorner
<1>9. Numel(v) = Product(u) /\ Product(u) \in Nat
  <2>1. u \in Seq(Nat)
    BY <1>2
  <2> QED
    BY <1>2, <2>1, ProductType DEF Numel, sizes_to_numel
<1>10. Offset(t, c) \in 0 .. Product(u) - 1 /\ indexToCoordinate(v, Offset(t, c)) = e
  BY <1>5, <1>7, <1>8, <1>9
<1> QED
  BY <1>10 DEF u, e, v, n

\* Strides that follow from an order number the coordinates from 0 on.
LEMMA PackedBijective ==
  ASSUME NEW t, Packed(t)
  PROVE  LET C == Coordinates(t.sizes)
         IN  {Offset(t, c) : c \in C} = 0 .. Cardinality(C) - 1
<1> DEFINE n == Dim(t)
           s == t.sizes
           C == Coordinates(s)
<1>1. s \in Seq(Nat) /\ n = Len(s) /\ n \in Nat
  BY DEF Packed, Dim
<1>2. PICK o : Permutes(o, n) /\ t.strides = dim_order_to_stride_nocheck(s, o)
  BY DEF Packed
<1>3. C = {c \in [1 .. n -> Nat] : \A d \in 1 .. n : c[d] < s[d]}
  BY <1>1, CoordinatesAre
<1> HIDE DEF C
<1>4. CASE \E d \in 1 .. n : s[d] = 0
  <2>1. PICK d \in 1 .. n : s[d] = 0
    BY <1>4
  <2>2. \A c \in [1 .. n -> Nat] : ~(c[d] < s[d])
    <3> TAKE c \in [1 .. n -> Nat]
    <3>1. c[d] \in Nat
      OBVIOUS
    <3> QED
      BY <2>1, <3>1
  <2>3. C = {}
    BY <1>3, <2>2
  <2>4. Cardinality(C) = 0
    BY <2>3, FS_EmptySet
  <2>5. 0 .. Cardinality(C) - 1 = {}
    BY <2>4
  <2>6. {Offset(t, c) : c \in C} = {}
    BY <2>3
  <2> QED
    BY <2>5, <2>6 DEF C
<1>5. CASE \A d \in 1 .. n : s[d] # 0
  <2> DEFINE u == Sorted(s, o)
             N == Product(u)
             F == [c \in C |-> Offset(t, c)]
  <2>1. s \in Seq(Nat \ {0})
    BY <1>1, <1>5
  <2>2. u \in Seq(Nat \ {0}) /\ Len(u) = n /\ N \in Nat
    <3>1. u \in Seq(Nat \ {0}) /\ Len(u) = n
      BY <1>1, <1>2, SortedType
    <3>2. u \in Seq(Nat)
      BY <3>1
    <3> QED
      BY <3>1, <3>2, ProductType
  <2>3. \A i \in 1 .. n : o[i] \in 1 .. n /\ u[i] = s[o[i]]
    <3> TAKE i \in 1 .. n
    <3>1. o[i] \in 1 .. n
      BY <1>2 DEF Permutes
    <3>2. s[o[i]] # 0
      BY <1>5, <3>1
    <3>3. u[i] = OneIfZero(s[o[i]])
      BY <1>1 DEF Sorted
    <3> QED
      BY <3>1, <3>2, <3>3 DEF OneIfZero
  <2> HIDE DEF u
  <2>4. \A c \in C : /\ Offset(t, c) \in 0 .. N - 1
                     /\ indexToCoordinate(Shape(u), Offset(t, c)) = InOrder(c, o, n)
    BY <1>2, <1>3, <2>1, PackedOffset DEF u
  <2> HIDE DEF N, n
  <2>5. F \in [C -> 0 .. N - 1] /\ \A c \in C : F[c] = Offset(t, c)
    BY <2>4
  <2> HIDE DEF F
  <2>6. \A b, c \in C : F[b] = F[c] => b = c
    <3> SUFFICES ASSUME NEW b \in C, NEW c \in C, F[b] = F[c]
                 PROVE  b = c
      OBVIOUS
    <3>1. InOrder(b, o, n) = InOrder(c, o, n)
      BY <2>4, <2>5
    <3>2. \A d \in 1 .. n : b[d] = c[d]
      <4> TAKE d \in 1 .. n
      <4>1. PICK i \in 1 .. n : o[i] = d
        BY <1>2 DEF Permutes
      <4>2. InOrder(b, o, n)[i] = b[o[i]] /\ InOrder(c, o, n)[i] = c[o[i]]
        BY DEF InOrder
      <4> QED
        BY <3>1, <4>1, <4>2
    <3>3. b = [d \in 1 .. n |-> b[d]] /\ c = [d \in 1 .. n |-> c[d]]
      BY <1>3
    <3>4. [d \in 1 .. n |-> b[d]] = [d \in 1 .. n |-> c[d]]
      BY <3>2
    <3> QED
      BY <3>3, <3>4
  <2>7. \A x \in 0 .. N - 1 : \E c \in C : F[c] = x
    <3> TAKE x \in 0 .. N - 1
    <3>1. x \in Nat /\ x < Product(u)
      BY <2>2 DEF N
    <3>2. PICK e : /\ CoordinateOf(Shape(u), e)
                   /\ Total([i \in 1 .. Len(u) |-> e[i] * After(u, i)]) = x
      BY <2>2, <3>1, IndexOnto
    <3> DEFINE at(d) == CHOOSE i \in 1 .. n : o[i] = d
               c == [d \in 1 .. n |-> e[at(d)]]
    <3>3. \A d \in 1 .. n : at(d) \in 1 .. n /\ o[at(d)] = d
      BY <1>2 DEF Permutes
    <3>4. \A i \in 1 .. n : at(o[i]) = i
      BY <1>2, <2>3, <3>3 DEF Permutes
    <3> HIDE DEF at
    <3>5. \A i \in 1 .. n : e[i] \in Nat /\ e[i] < s[o[i]]
      BY <2>2, <2>3, <3>2 DEF CoordinateOf, Shape, Dim
    <3>6. c \in [1 .. n -> Nat] /\ \A d \in 1 .. n : c[d] < s[d]
      <4>1. \A d \in 1 .. n : e[at(d)] \in Nat /\ e[at(d)] < s[d]
        BY <3>3, <3>5
      <4> QED
        BY <4>1
    <3>7. InOrder(c, o, n) = [i \in 1 .. n |-> e[i]]
      BY <2>3, <3>4 DEF InOrder
    <3>8. c \in C
      BY <1>3, <3>6
    <3> HIDE DEF c
    <3>9. Offset(t, c) = Total([i \in 1 .. n |-> InOrder(c, o, n)[i] * After(u, i)])
      BY <1>1, <1>2, <3>6, OffsetInOrder DEF u, n
    <3>10. [i \in 1 .. n |-> InOrder(c, o, n)[i] * After(u, i)] = [i \in 1 .. n |-> e[i] * After(u, i)]
      BY <3>7
    <3>11. Offset(t, c) = x
      BY <2>2, <3>2, <3>9, <3>10
    <3> QED
      BY <2>5, <3>8, <3>11
  <2>8. F \in Bijection(C, 0 .. N - 1)
    BY <2>5, <2>6, <2>7 DEF Bijection, Injection, Surjection, IsInjective
  <2>9. Cardinality(C) = N
    <3>1. F \in Injection(C, 0 .. N - 1) /\ F \in Surjection(C, 0 .. N - 1)
      BY <2>8 DEF Bijection
    <3>2. IsFiniteSet(0 .. N - 1) /\ Cardinality(0 .. N - 1) = N
      <4>1. 0 \in Int /\ N - 1 \in Int
        BY <2>2 DEF N
      <4>2. /\ IsFiniteSet(0 .. N - 1)
            /\ Cardinality(0 .. N - 1) = IF 0 > N - 1 THEN 0 ELSE (N - 1) - 0 + 1
        BY <4>1, FS_Interval
      <4>3. N \in Nat
        BY <2>2 DEF N
      <4> QED
        BY <4>2, <4>3
    <3> QED
      BY <3>1, <3>2, FS_Injection
  <2>10. {Offset(t, c) : c \in C} = 0 .. N - 1
    BY <2>5, <2>7
  <2> QED
    BY <2>9, <2>10 DEF C
<1> QED
  BY <1>4, <1>5

-----------------------------------------------------------------------------
(* Orders that follow from strides, and what the factory accepts.          *)

\* The strides st do not grow along p.
Descends(st, p, n) == \A i, j \in 1 .. n : i < j => st[p[i]] >= st[p[j]]

\* A stable sort by descending stride is an order of the dimensions.
LEMMA RanksPermute ==
  ASSUME NEW st \in Seq(Nat)
  PROVE  LET o == dim_order_from_stride(st)
         IN  Permutes(o, Len(st)) /\ Descends(st, o, Len(st))
<1> DEFINE n == Len(st)
           Before(i, j) == st[i] > st[j] \/ (st[i] = st[j] /\ i < j)
           Earlier(d) == {e \in 1 .. n : Before(e, d)}
           rank == [d \in 1 .. n |-> Cardinality(Earlier(d))]
           at(k) == CHOOSE d \in 1 .. n : Cardinality(Earlier(d)) = k - 1
           o == dim_order_from_stride(st)
<1>1. n \in Nat /\ Dims(st) = 1 .. n /\ \A d \in 1 .. n : st[d] \in Nat
  BY DEF Dims
<1>2. IsFiniteSet(1 .. n) /\ Cardinality(1 .. n) = n
  <2>1. 1 \in Int /\ n \in Int
    BY <1>1
  <2> HIDE DEF n
  <2>2. IsFiniteSet(1 .. n) /\ Cardinality(1 .. n) = IF 1 > n THEN 0 ELSE n - 1 + 1
    BY <2>1, FS_Interval
  <2> QED
    BY <1>1, <2>2
<1>3. o = [k \in 1 .. n |-> at(k)]
  BY <1>1 DEF dim_order_from_stride
<1> HIDE DEF o, n
<1>4. /\ \A d \in 1 .. n : ~Before(d, d)
      /\ \A d, e \in 1 .. n : d # e => Before(d, e) \/ Before(e, d)
      /\ \A d, e, f \in 1 .. n : Before(d, e) /\ Before(e, f) => Before(d, f)
  BY <1>1
<1>5. \A d, e \in 1 .. n : Before(d, e) => st[d] >= st[e]
  BY <1>1
<1> HIDE DEF Before
<1>6. \A d \in 1 .. n : IsFiniteSet(Earlier(d)) /\ Cardinality(Earlier(d)) \in 0 .. n - 1
  <2> TAKE d \in 1 .. n
  <2> DEFINE R == (1 .. n) \ {d}
  <2>1. IsFiniteSet(R) /\ Cardinality(R) = n - 1
    BY <1>2, FS_RemoveElement
  <2>2. Earlier(d) \in SUBSET R
    BY <1>4
  <2> HIDE DEF R, Earlier
  <2>3. IsFiniteSet(Earlier(d)) /\ Cardinality(Earlier(d)) <= Cardinality(R)
    BY <2>1, <2>2, FS_Subset
  <2> QED
    BY <1>1, <2>1, <2>3, FS_CardinalityType
<1>7. \A d, e \in 1 .. n : Before(d, e) => Cardinality(Earlier(d)) < Cardinality(Earlier(e))
  <2> SUFFICES ASSUME NEW d \in 1 .. n, NEW e \in 1 .. n, Before(d, e)
               PROVE  Cardinality(Earlier(d)) < Cardinality(Earlier(e))
    OBVIOUS
  <2>1. Earlier(d) \in SUBSET Earlier(e) /\ d \in Earlier(e) /\ d \notin Earlier(d)
    BY <1>4
  <2> HIDE DEF Earlier
  <2>2. Cardinality(Earlier(d)) <= Cardinality(Earlier(e)) /\ Cardinality(Earlier(d)) # Cardinality(Earlier(e))
    BY <1>6, <2>1, FS_Subset
  <2> QED
    BY <1>6, <2>2
<1> HIDE DEF Earlier
<1>8. rank \in [1 .. n -> 0 .. n - 1] /\ \A d \in 1 .. n : rank[d] = Cardinality(Earlier(d))
  BY <1>6
<1> HIDE DEF rank
<1>9. \A d, e \in 1 .. n : rank[d] = rank[e] => d = e
  <2> SUFFICES ASSUME NEW d \in 1 .. n, NEW e \in 1 .. n, d # e
               PROVE  rank[d] # rank[e]
    OBVIOUS
  <2>1. rank[d] \in 0 .. n - 1 /\ rank[e] \in 0 .. n - 1
    BY <1>8
  <2>2. rank[d] < rank[e] \/ rank[e] < rank[d]
    BY <1>4, <1>7, <1>8
  <2> QED
    BY <1>1, <2>1, <2>2
<1>10. \A x \in 0 .. n - 1 : \E d \in 1 .. n : rank[d] = x
  <2>1. rank \in Injection(1 .. n, 0 .. n - 1)
    BY <1>8, <1>9 DEF Injection, IsInjective
  <2>2. IsFiniteSet(0 .. n - 1) /\ Cardinality(0 .. n - 1) = n
    <3>1. 0 \in Int /\ n - 1 \in Int
      BY <1>1
    <3>2. IsFiniteSet(0 .. n - 1) /\ Cardinality(0 .. n - 1) = IF 0 > n - 1 THEN 0 ELSE (n - 1) - 0 + 1
      BY <3>1, FS_Interval
    <3> QED
      BY <1>1, <3>2
  <2>3. rank \in Surjection(1 .. n, 0 .. n - 1)
    BY <1>2, <2>1, <2>2, FS_Injection
  <2> QED
    BY <2>3 DEF Surjection
<1>11. \A k \in 1 .. n : o[k] \in 1 .. n /\ rank[o[k]] = k - 1
  <2> TAKE k \in 1 .. n
  <2>1. k - 1 \in 0 .. n - 1
    BY <1>1
  <2>2. \E d \in 1 .. n : Cardinality(Earlier(d)) = k - 1
    BY <1>8, <1>10, <2>1
  <2>3. at(k) \in 1 .. n /\ Cardinality(Earlier(at(k))) = k - 1
    BY <2>2
  <2> HIDE DEF at
  <2> QED
    BY <1>3, <1>8, <2>3
<1>12. o \in [1 .. n -> 1 .. n]
  <2> HIDE DEF at
  <2> QED
    BY <1>3, <1>11
<1>13. \A i, j \in 1 .. n : o[i] = o[j] => i = j
  <2> SUFFICES ASSUME NEW i \in 1 .. n, NEW j \in 1 .. n, o[i] = o[j]
               PROVE  i = j
    OBVIOUS
  <2>1. i - 1 = j - 1
    BY <1>11
  <2> QED
    BY <1>1, <2>1
<1>14. \A d \in 1 .. n : \E i \in 1 .. n : o[i] = d
  <2> TAKE d \in 1 .. n
  <2>1. rank[d] \in 0 .. n - 1
    BY <1>8
  <2>2. rank[d] + 1 \in 1 .. n /\ (rank[d] + 1) - 1 = rank[d]
    BY <1>1, <2>1
  <2>3. o[rank[d] + 1] = d
    BY <1>9, <1>11, <2>2
  <2> QED
    BY <2>2, <2>3
<1>15. Descends(st, o, n)
  <2> SUFFICES ASSUME NEW i \in 1 .. n, NEW j \in 1 .. n, i < j
               PROVE  st[o[i]] >= st[o[j]]
    BY DEF Descends
  <2>1. o[i] \in 1 .. n /\ o[j] \in 1 .. n /\ rank[o[i]] < rank[o[j]]
    BY <1>1, <1>11
  <2>2. ~Before(o[j], o[i]) /\ o[i] # o[j]
    <3>1. rank[o[i]] \in Int /\ rank[o[j]] \in Int
      BY <1>11
    <3> QED
      BY <1>7, <1>8, <2>1, <3>1
  <2> QED
    BY <1>4, <1>5, <2>1, <2>2
<1> QED
  BY <1>12, <1>13, <1>14, <1>15 DEF Permutes, n, o

\* What the factory accepts is packed, in the order that check_strides sorts to.
LEMMA CheckedPacked ==
  ASSUME NEW s \in Seq(Nat), NEW st \in Seq(Nat), check_strides(s, st)
  PROVE  \E o : Permutes(o, Len(s)) /\ st = dim_order_to_stride_nocheck(s, o)
<1> DEFINE n == Len(s)
<1>1. n \in Nat /\ Len(st) = n
  BY DEF check_strides
<1>2. PICK o \in DimOrders(n) :
         /\ n > 0 => st[o[n]] = 1
         /\ \A i \in 1 .. n - 1 : st[o[i]] = st[o[i + 1]] * OneIfZero(s[o[i + 1]])
  BY <1>1 DEF check_strides
<1>3. Permutes(o, n) /\ Len(o) = n
  <2> HIDE DEF n
  <2>1. Permutes(o, n)
    BY <1>1, <1>2, OrdersPermute
  <2>2. o \in [1 .. n -> 1 .. n]
    BY <2>1 DEF Permutes
  <2> QED
    BY <1>1, <2>1, <2>2
<1> DEFINE u == Sorted(s, o)
           g == [i \in 1 .. n |-> st[o[i]]]
           t == dim_order_to_stride_nocheck(s, o)
<1>4. u \in Seq(Nat) /\ Len(u) = n /\ \A i \in 1 .. n : u[i] = OneIfZero(s[o[i]])
  <2>1. u \in Seq(Nat \ {0}) /\ Len(u) = n
    BY <1>3, SortedType
  <2> QED
    BY <2>1 DEF Sorted
<1>5. t \in [1 .. n -> Nat] /\ \A i \in 1 .. n : t[o[i]] = After(u, i)
  BY <1>3, StridesOfOrder
<1> HIDE DEF u, t, n
<1>6. Trails(g, u, n)
  <2>1. \A i \in 1 .. n : i # n => i \in 1 .. n - 1 /\ i + 1 \in 1 .. n
    BY <1>1
  <2>2. n \in 1 .. n => n > 0
    BY <1>1
  <2> QED
    BY <1>2, <1>4, <2>1, <2>2 DEF Trails
<1>7. \A i \in 1 .. n : g[i] = After(u, i)
  <2> HIDE DEF g
  <2> QED
    BY <1>4, <1>6, TrailsAfter
<1>8. \A d \in 1 .. n : st[d] = t[d]
  <2> TAKE d \in 1 .. n
  <2>1. PICK i \in 1 .. n : o[i] = d
    BY <1>3 DEF Permutes
  <2> QED
    BY <1>5, <1>7, <2>1
<1>9. st = [d \in 1 .. n |-> st[d]] /\ t = [d \in 1 .. n |-> t[d]]
  BY <1>1, <1>5
<1>10. [d \in 1 .. n |-> st[d]] = [d \in 1 .. n |-> t[d]]
  BY <1>8
<1>11. st = t
  BY <1>9, <1>10
<1> QED
  BY <1>3, <1>11 DEF t, n

\* The product of the sizes behind k is one of as many numbers as there are sizes.
LEMMA AfterIsProduct ==
  ASSUME NEW u \in Seq(Nat), NEW k \in 0 .. Len(u)
  PROVE  After(u, k) = Product([i \in 1 .. Len(u) |-> IF i > k THEN u[i] ELSE 1])
<1> DEFINE n == Len(u)
           h(j) == [i \in 1 .. n |-> IF i > j THEN u[i] ELSE 1]
           T == {j \in 0 .. n : After(u, j) = Product(h(j))}
<1>1. n \in Nat /\ u \in [1 .. n -> Nat]
  OBVIOUS
<1> HIDE DEF n
<1>2. \A j \in 0 .. n : h(j) \in [1 .. n -> Nat]
  <2> TAKE j \in 0 .. n
  <2>1. \A i \in 1 .. n : (IF i > j THEN u[i] ELSE 1) \in Nat
    BY <1>1
  <2> QED
    BY <2>1
<1>3. n \in T
  <2>1. n \in 0 .. n
    BY <1>1
  <2>2. h(n) \in [1 .. n -> Nat] /\ \A i \in 1 .. n : h(n)[i] = 1
    BY <1>1, <1>2, <2>1
  <2> HIDE DEF h
  <2>3. Product(h(n)) = 1
    BY <1>1, <2>2, ProductOnes
  <2>4. After(u, n) = 1
    BY AfterStep DEF n
  <2> QED
    BY <2>1, <2>3, <2>4
<1>4. \A j \in 1 .. n : j \in T => j - 1 \in T
  <2> SUFFICES ASSUME NEW j \in 1 .. n, After(u, j) = Product(h(j))
               PROVE  After(u, j - 1) = Product(h(j - 1))
    <3>1. \A j \in 1 .. n : j - 1 \in 0 .. n
      BY <1>1
    <3> HIDE DEF h
    <3> QED
      BY <3>1
  <2>1. j - 1 \in 0 .. n /\ j \in 0 .. n /\ u[j] \in Nat
    BY <1>1
  <2>2. h(j)[j] = 1 /\ h(j - 1)[j] = u[j]
    BY <1>1
  <2>3. \A i \in 1 .. n : i # j => h(j - 1)[i] = h(j)[i]
    BY <1>1
  <2>4. h(j - 1) \in [1 .. n -> Nat] /\ h(j) \in [1 .. n -> Nat]
    BY <1>2, <2>1
  <2>5. h(j - 1)[j] = h(j)[j] * u[j]
    BY <2>1, <2>2
  <2> HIDE DEF h
  <2>6. Product(h(j - 1)) = Product(h(j)) * u[j]
    BY <1>1, <2>1, <2>3, <2>4, <2>5, ProductScaled
  <2>7. After(u, j - 1) = u[j] * After(u, j) /\ After(u, j) \in Nat
    BY <2>1, AfterStep DEF n
  <2>8. u[j] * After(u, j) = After(u, j) * u[j]
    BY <2>1, <2>7, Associates
  <2> QED
    BY <2>6, <2>7, <2>8
<1>5. k \in T
  <2>1. \A j \in 0 .. n : j \in T
    <3> HIDE DEF T
    <3> QED
      BY <1>1, <1>3, <1>4, DownFrom
  <2> QED
    BY <2>1 DEF n
<1> QED
  BY <1>5 DEF n

\* Behind fewer sizes the product is no smaller, and each size counts.
LEMMA AfterFalls ==
  ASSUME NEW u \in Seq(Nat \ {0}), NEW j \in 0 .. Len(u)
  PROVE  /\ After(u, j) \in Nat \ {0}
         /\ \A i \in 0 .. j : After(u, i) >= After(u, j)
         /\ \A i \in 0 .. j : i < j => After(u, i) >= u[j] * After(u, j)
<1> DEFINE n == Len(u)
           P == {i \in 0 .. n : After(u, i) > 0}
<1>1. u \in Seq(Nat) /\ n \in Nat /\ \A i \in 1 .. n : u[i] \in Nat \ {0}
  OBVIOUS
<1>2. /\ After(u, n) = 1
      /\ \A d \in 0 .. n : After(u, d) \in Nat
      /\ \A d \in 1 .. n : After(u, d - 1) = u[d] * After(u, d)
  BY <1>1, AfterStep
<1> HIDE DEF n
<1>3. \A d \in 1 .. n : After(u, d - 1) >= After(u, d)
  <2> TAKE d \in 1 .. n
  <2>1. u[d] \in Nat \ {0} /\ After(u, d) \in Nat
    BY <1>1, <1>2
  <2>2. PICK x \in Nat, y \in Nat : x = u[d] - 1 /\ y = After(u, d)
    BY <2>1
  <2>3. u[d] * After(u, d) = x * y + y /\ x * y \in Nat
    BY <2>1, <2>2
  <2> QED
    BY <1>2, <2>1, <2>2, <2>3
<1>4. \A i \in 0 .. n : i \in P
  <2>1. n \in P
    BY <1>1, <1>2
  <2>2. \A i \in 1 .. n : i \in P => i - 1 \in P
    <3> SUFFICES ASSUME NEW i \in 1 .. n, After(u, i) > 0
                 PROVE  After(u, i - 1) > 0 /\ i - 1 \in 0 .. n
      OBVIOUS
    <3>1. i - 1 \in 0 .. n /\ i \in 0 .. n
      BY <1>1
    <3>2. After(u, i - 1) \in Nat /\ After(u, i) \in Nat /\ After(u, i - 1) >= After(u, i)
      BY <1>2, <1>3, <3>1
    <3> QED
      BY <3>1, <3>2
  <2> HIDE DEF P
  <2> QED
    BY <1>1, <2>1, <2>2, DownFrom
<1>5. j \in 0 .. n
  BY DEF n
<1>6. \A m \in 0 .. n : \A i \in 0 .. m : After(u, i) >= After(u, m)
  <2> TAKE m \in 0 .. n
  <2> DEFINE T == {i \in 0 .. m : After(u, i) >= After(u, m)}
  <2>1. m \in Nat /\ m \in 0 .. m
    OBVIOUS
  <2>2. m \in T
    BY <1>2, <2>1
  <2>3. \A i \in 1 .. m : i \in T => i - 1 \in T
    <3> SUFFICES ASSUME NEW i \in 1 .. m, After(u, i) >= After(u, m)
                 PROVE  After(u, i - 1) >= After(u, m) /\ i - 1 \in 0 .. m
      OBVIOUS
    <3>1. i - 1 \in 0 .. n /\ i \in 1 .. n /\ i \in 0 .. n /\ i - 1 \in 0 .. m
      BY <1>1
    <3>2. After(u, i - 1) \in Nat /\ After(u, i) \in Nat /\ After(u, m) \in Nat
          /\ After(u, i - 1) >= After(u, i)
      BY <1>2, <1>3, <3>1
    <3> QED
      BY <3>1, <3>2
  <2>4. \A i \in 0 .. m : i \in T
    <3> HIDE DEF T
    <3> QED
      BY <2>1, <2>2, <2>3, DownFrom
  <2> QED
    BY <2>4
<1>7. \A i \in 0 .. j : i < j => After(u, i) >= u[j] * After(u, j)
  <2> SUFFICES ASSUME NEW i \in 0 .. j, i < j
               PROVE  After(u, i) >= u[j] * After(u, j)
    OBVIOUS
  <2>1. j \in 1 .. n /\ j - 1 \in 0 .. n /\ i \in 0 .. j - 1
    BY <1>1, <1>5
  <2>2. After(u, i) >= After(u, j - 1)
    BY <1>6, <2>1
  <2> QED
    BY <1>2, <2>1, <2>2
<1>8. After(u, j) \in Nat \ {0}
  <2>1. After(u, j) \in Nat /\ After(u, j) > 0
    BY <1>2, <1>4, <1>5
  <2> QED
    BY <2>1
<1> QED
  BY <1>5, <1>6, <1>7, <1>8

\* The product of the sizes whose strides are smaller than that of d is the
\* product of the sizes behind d, in an order that such strides follow.
Smaller(s, st, d) == Product([e \in 1 .. Len(s) |-> IF st[e] < st[d] THEN s[e] ELSE 1])

LEMMA BehindIsSmaller ==
  ASSUME NEW s \in Seq(Nat \ {0}), NEW st \in [1 .. Len(s) -> Nat],
         NEW p, Permutes(p, Len(s)), NEW k \in 1 .. Len(s),
         \A i \in 1 .. Len(s) : i <= k => st[p[i]] >= st[p[k]],
         \A i \in 1 .. Len(s) : i > k => st[p[i]] < st[p[k]] \/ s[p[i]] = 1
  PROVE  After(Sorted(s, p), k) = Smaller(s, st, p[k])
<1> DEFINE n == Len(s)
           d == p[k]
           u == Sorted(s, p)
           h == [e \in 1 .. n |-> IF st[e] < st[d] THEN s[e] ELSE 1]
<1>1. n \in Nat /\ s \in Seq(Nat) /\ \A e \in 1 .. n : s[e] \in Nat \ {0}
  OBVIOUS
<1>2. \A i \in 1 .. n : p[i] \in 1 .. n
  BY DEF Permutes
<1>3. u \in Seq(Nat) /\ Len(u) = n /\ \A i \in 1 .. n : u[i] = s[p[i]]
  <2>1. u \in Seq(Nat \ {0}) /\ Len(u) = n
    BY <1>1, SortedType
  <2>2. \A i \in 1 .. n : u[i] = OneIfZero(s[p[i]]) /\ s[p[i]] # 0
    BY <1>1, <1>2 DEF Sorted
  <2> QED
    BY <2>1, <2>2 DEF OneIfZero
<1> HIDE DEF u
<1>4. After(u, k) = Product([i \in 1 .. n |-> IF i > k THEN u[i] ELSE 1])
  BY <1>3, AfterIsProduct
<1> HIDE DEF n
<1>5. h \in [1 .. n -> Nat]
  <2>1. \A e \in 1 .. n : (IF st[e] < st[d] THEN s[e] ELSE 1) \in Nat
    BY <1>1
  <2> QED
    BY <2>1
<1>6. \A i \in 1 .. n : h[p[i]] = IF i > k THEN u[i] ELSE 1
  <2> TAKE i \in 1 .. n
  <2>1. h[p[i]] = IF st[p[i]] < st[d] THEN s[p[i]] ELSE 1
    BY <1>2
  <2>2. st[p[i]] \in Nat /\ st[d] \in Nat
    BY <1>2 DEF n
  <2>3. CASE i > k
    BY <1>3, <2>1, <2>3 DEF n
  <2>4. CASE ~(i > k)
    <3>1. i <= k
      BY <1>1, <2>4 DEF n
    <3>2. ~(st[p[i]] < st[d])
      BY <2>2, <3>1 DEF n
    <3> QED
      BY <2>1, <2>4, <3>2
  <2> QED
    BY <2>3, <2>4
<1>7. [i \in 1 .. n |-> h[p[i]]] = [i \in 1 .. n |-> IF i > k THEN u[i] ELSE 1]
  BY <1>6
<1>8. Product([i \in 1 .. n |-> h[p[i]]]) = Product(h)
  <2>1. Permutes(p, n)
    BY DEF n
  <2> HIDE DEF h
  <2> QED
    BY <1>1, <1>5, <2>1, ProductPermuted
<1> QED
  BY <1>4, <1>7, <1>8 DEF Smaller, n, u

\* Strides that some order gives are, for every dimension of more than one
\* element, those that any order along which they descend gives.
LEMMA Realigned ==
  ASSUME NEW s \in Seq(Nat \ {0}), NEW o, Permutes(o, Len(s)), NEW p, Permutes(p, Len(s)),
         NEW st, st = dim_order_to_stride_nocheck(s, o), Descends(st, p, Len(s)),
         NEW d \in 1 .. Len(s), s[d] > 1
  PROVE  dim_order_to_stride_nocheck(s, p)[d] = st[d]
<1> DEFINE n == Len(s)
           u == Sorted(s, o)
<1>1. n \in Nat /\ s \in Seq(Nat) /\ \A e \in 1 .. n : s[e] \in Nat \ {0}
  OBVIOUS
<1>2. Len(o) = n /\ Len(p) = n
  BY <1>1 DEF Permutes
<1>3. st \in [1 .. n -> Nat] /\ \A i \in 1 .. n : st[o[i]] = After(u, i)
  BY <1>1, <1>2, StridesOfOrder
<1>4. \A i \in 1 .. n : dim_order_to_stride_nocheck(s, p)[p[i]] = After(Sorted(s, p), i)
  BY <1>1, <1>2, StridesOfOrder
<1>5. u \in Seq(Nat \ {0}) /\ Len(u) = n
  BY <1>1, SortedType
<1>6. \A i \in 1 .. n : o[i] \in 1 .. n /\ p[i] \in 1 .. n
  BY DEF Permutes
<1>7. \A i \in 1 .. n : u[i] = s[o[i]]
  <2>1. \A i \in 1 .. n : u[i] = OneIfZero(s[o[i]]) /\ s[o[i]] # 0
    BY <1>1, <1>6 DEF Sorted
  <2> QED
    BY <2>1 DEF OneIfZero
<1> HIDE DEF u, n
<1>8. \A i, j \in 1 .. n : i <= j => After(u, i) >= After(u, j)
  <2> SUFFICES ASSUME NEW i \in 1 .. n, NEW j \in 1 .. n, i <= j
               PROVE  After(u, i) >= After(u, j)
    OBVIOUS
  <2>1. j \in 0 .. n /\ i \in 0 .. j
    BY <1>1
  <2> QED
    BY <1>5, <2>1, AfterFalls
<1>9. \A i, j \in 1 .. n : i < j /\ u[j] # 1 => After(u, j) < After(u, i)
  <2> SUFFICES ASSUME NEW i \in 1 .. n, NEW j \in 1 .. n, i < j, u[j] # 1
               PROVE  After(u, j) < After(u, i)
    OBVIOUS
  <2>1. j \in 0 .. n /\ i \in 0 .. j /\ i \in 0 .. n
    BY <1>1
  <2>2. After(u, i) >= u[j] * After(u, j) /\ After(u, j) \in Nat \ {0} /\ After(u, i) \in Nat
    BY <1>5, <2>1, AfterFalls
  <2>3. u[j] \in Nat \ {0, 1}
    BY <1>1, <1>6, <1>7
  <2>4. PICK x \in Nat, y \in Nat \ {0} : u[j] = x + 2 /\ y = After(u, j)
    <3>1. u[j] - 2 \in Nat /\ u[j] = (u[j] - 2) + 2
      BY <2>3
    <3> QED
      BY <2>2, <3>1
  <2>5. (x + 2) * y = x * y + y + y /\ x * y \in Nat
    OBVIOUS
  <2>6. After(u, i) >= x * y + y + y
    BY <2>2, <2>4, <2>5
  <2>7. After(u, i) > y
    <3>1. PICK z \in Nat, w \in Nat : z = x * y /\ w = After(u, i)
      BY <2>2, <2>5
    <3>2. w >= z + y + y
      BY <2>6, <3>1
    <3>3. w > y
      BY <3>2
    <3> QED
      BY <3>1, <3>3
  <2> QED
    BY <2>4, <2>7
<1>10. \A e \in 1 .. n : e # d /\ s[e] # 1 => st[e] # st[d]
  <2> SUFFICES ASSUME NEW e \in 1 .. n, e # d, s[e] # 1
               PROVE  st[e] # st[d]
    OBVIOUS
  <2>1. PICK a \in 1 .. n, b \in 1 .. n : o[a] = e /\ o[b] = d
    BY DEF Permutes, n
  <2>2. a # b /\ u[a] # 1 /\ u[b] # 1
    BY <1>7, <2>1
  <2>3. After(u, a) \in Nat /\ After(u, b) \in Nat
    BY <1>3, <1>6
  <2>4. st[e] = After(u, a) /\ st[d] = After(u, b)
    BY <1>3, <2>1
  <2>5. CASE a < b
    <3>1. After(u, b) < After(u, a)
      BY <1>9, <2>2, <2>5
    <3> QED
      BY <2>3, <2>4, <3>1
  <2>6. CASE b < a
    <3>1. After(u, a) < After(u, b)
      BY <1>9, <2>2, <2>6
    <3> QED
      BY <2>3, <2>4, <3>1
  <2>7. a < b \/ b < a
    BY <1>1, <2>2
  <2> QED
    BY <2>5, <2>6, <2>7
<1>11. st[d] = Smaller(s, st, d)
  <2>1. PICK k \in 1 .. n : o[k] = d
    BY DEF Permutes, n
  <2>2. \A i \in 1 .. n : i <= k => st[o[i]] >= st[o[k]]
    BY <1>3, <1>8
  <2>3. \A i \in 1 .. n : i > k => st[o[i]] < st[o[k]] \/ s[o[i]] = 1
    BY <1>3, <1>7, <1>9
  <2>4. After(u, k) = Smaller(s, st, o[k])
    BY <1>3, <2>2, <2>3, BehindIsSmaller DEF n, u
  <2> QED
    BY <1>3, <2>1, <2>4
<1>12. PICK k \in 1 .. n : p[k] = d
  BY DEF Permutes, n
<1>13. \A i \in 1 .. n : i <= k => st[p[i]] >= st[p[k]]
  <2> SUFFICES ASSUME NEW i \in 1 .. n, i <= k
               PROVE  st[p[i]] >= st[p[k]]
    OBVIOUS
  <2>1. st[p[i]] \in Nat
    BY <1>3, <1>6
  <2>2. i < k \/ i = k
    BY <1>1
  <2> QED
    BY <2>1, <2>2 DEF Descends, n
<1>14. \A i \in 1 .. n : i > k => st[p[i]] < st[p[k]] \/ s[p[i]] = 1
  <2> SUFFICES ASSUME NEW i \in 1 .. n, i > k, s[p[i]] # 1
               PROVE  st[p[i]] < st[p[k]]
    OBVIOUS
  <2>1. st[p[i]] \in Nat /\ st[p[k]] \in Nat
    BY <1>3, <1>6
  <2>2. st[p[k]] >= st[p[i]]
    BY DEF Descends, n
  <2>3. p[i] # d
    <3>1. p[i] # p[k]
      BY DEF Permutes, n
    <3> QED
      BY <1>12, <3>1
  <2>4. st[p[i]] # st[d]
    BY <1>6, <1>10, <2>3
  <2> QED
    BY <1>12, <2>1, <2>2, <2>4
<1>15. After(Sorted(s, p), k) = Smaller(s, st, p[k])
  BY <1>3, <1>13, <1>14, BehindIsSmaller DEF n
<1> QED
  BY <1>4, <1>11, <1>12, <1>15

-----------------------------------------------------------------------------
(* quick_sort.                                                             *)

Arrays(n) == [1 .. n -> [dim_order : 1 .. n, stride : Nat]]

\* b is a in another order, and the same outside low .. high.
Reorders(a, b, low, high, n) ==
    \E p : /\ Permutes(p, n)
           /\ \A i \in 1 .. n : i \notin low .. high => p[i] = i
           /\ \A i \in 1 .. n : b[i] = a[p[i]]

\* An array is one order of itself.
LEMMA ReordersSelf ==
  ASSUME NEW n \in Nat, NEW a, NEW low, NEW high
  PROVE  Reorders(a, a, low, high, n)
<1> DEFINE p == [i \in 1 .. n |-> i]
<1>1. Permutes(p, n) /\ \A i \in 1 .. n : p[i] = i
  BY DEF Permutes
<1> HIDE DEF p
<1> QED
  BY <1>1 DEF Reorders

\* One order after another, in parts of a range, is an order in the range.
LEMMA ReordersThen ==
  ASSUME NEW n \in Nat, NEW a, NEW b, NEW c, NEW low, NEW high, NEW l1, NEW h1, NEW l2, NEW h2,
         Reorders(a, b, l1, h1, n), Reorders(b, c, l2, h2, n),
         \A i \in 1 .. n : i \in l1 .. h1 \/ i \in l2 .. h2 => i \in low .. high
  PROVE  Reorders(a, c, low, high, n)
<1>1. PICK p : /\ Permutes(p, n)
               /\ \A i \in 1 .. n : i \notin l1 .. h1 => p[i] = i
               /\ \A i \in 1 .. n : b[i] = a[p[i]]
  BY DEF Reorders
<1>2. PICK q : /\ Permutes(q, n)
               /\ \A i \in 1 .. n : i \notin l2 .. h2 => q[i] = i
               /\ \A i \in 1 .. n : c[i] = b[q[i]]
  BY DEF Reorders
<1> DEFINE r == [i \in 1 .. n |-> p[q[i]]]
<1>3. \A i \in 1 .. n : p[i] \in 1 .. n /\ q[i] \in 1 .. n
  BY <1>1, <1>2 DEF Permutes
<1>4. Permutes(r, n)
  <2>1. r \in [1 .. n -> 1 .. n]
    BY <1>3
  <2>2. \A i, j \in 1 .. n : r[i] = r[j] => i = j
    BY <1>1, <1>2, <1>3 DEF Permutes
  <2>3. \A d \in 1 .. n : \E i \in 1 .. n : r[i] = d
    <3> TAKE d \in 1 .. n
    <3>1. PICK j \in 1 .. n : p[j] = d
      BY <1>1 DEF Permutes
    <3>2. PICK i \in 1 .. n : q[i] = j
      BY <1>2 DEF Permutes
    <3> QED
      BY <3>1, <3>2
  <2> HIDE DEF r
  <2> QED
    BY <2>1, <2>2, <2>3 DEF Permutes
<1>5. \A i \in 1 .. n : i \notin low .. high => r[i] = i
  BY <1>1, <1>2
<1>6. \A i \in 1 .. n : c[i] = a[r[i]]
  BY <1>1, <1>2, <1>3
<1> HIDE DEF r
<1> QED
  BY <1>4, <1>5, <1>6 DEF Reorders

\* A property of all elements of the range stays one, and no element outside
\* of it moves.
LEMMA ReordersWithin ==
  ASSUME NEW n \in Nat, NEW a, NEW b, NEW low, NEW high, Reorders(a, b, low, high, n)
  PROVE  /\ \A i \in 1 .. n : i \notin low .. high => b[i] = a[i]
         /\ \A i \in 1 .. n : i \in low .. high => \E k \in 1 .. n : k \in low .. high /\ b[i] = a[k]
<1>1. PICK p : /\ Permutes(p, n)
               /\ \A i \in 1 .. n : i \notin low .. high => p[i] = i
               /\ \A i \in 1 .. n : b[i] = a[p[i]]
  BY DEF Reorders
<1>2. \A i \in 1 .. n : i \in low .. high => p[i] \in 1 .. n /\ p[i] \in low .. high
  <2> SUFFICES ASSUME NEW i \in 1 .. n, i \in low .. high, p[i] \notin low .. high
               PROVE  FALSE
    BY <1>1 DEF Permutes
  <2>1. p[i] \in 1 .. n
    BY <1>1 DEF Permutes
  <2>2. p[p[i]] = p[i]
    BY <1>1, <2>1
  <2>3. p[i] = i
    BY <1>1, <2>1, <2>2 DEF Permutes
  <2> QED
    BY <2>3
<1> QED
  BY <1>1, <1>2

\* An array in another order is an array.
LEMMA ReordersType ==
  ASSUME NEW n \in Nat, NEW a \in Arrays(n), NEW b, NEW low, NEW high,
         Reorders(a, b, low, high, n), b = [i \in 1 .. n |-> b[i]]
  PROVE  b \in Arrays(n)
<1>1. \A i \in 1 .. n : b[i] \in [dim_order : 1 .. n, stride : Nat]
  <2>1. PICK p : Permutes(p, n) /\ \A i \in 1 .. n : b[i] = a[p[i]]
    BY DEF Reorders
  <2>2. \A i \in 1 .. n : p[i] \in 1 .. n
    BY <2>1 DEF Permutes
  <2>3. \A k \in 1 .. n : a[k] \in [dim_order : 1 .. n, stride : Nat]
    BY DEF Arrays
  <2> QED
    BY <2>1, <2>2, <2>3
<1> QED
  BY <1>1 DEF Arrays

\* Two elements of a range change places.
LEMMA SwapReorders ==
  ASSUME NEW n \in Nat, NEW a \in Arrays(n), NEW i \in 1 .. n, NEW j \in 1 .. n, NEW low, NEW high,
         i \in low .. high, j \in low .. high
  PROVE  /\ Swap(a, i, j) \in Arrays(n)
         /\ Reorders(a, Swap(a, i, j), low, high, n)
         /\ \A k \in 1 .. n : Swap(a, i, j)[k] = IF k = j THEN a[i] ELSE IF k = i THEN a[j] ELSE a[k]
<1> DEFINE b == Swap(a, i, j)
           p == [k \in 1 .. n |-> IF k = j THEN i ELSE IF k = i THEN j ELSE k]
<1>1. \A k \in 1 .. n : b[k] = IF k = j THEN a[i] ELSE IF k = i THEN a[j] ELSE a[k]
  BY DEF Swap, Arrays
<1>2. b \in Arrays(n)
  BY DEF Swap, Arrays
<1>3. Permutes(p, n)
  <2>1. p \in [1 .. n -> 1 .. n]
    OBVIOUS
  <2>2. \A k \in 1 .. n : p[k] \in 1 .. n /\ p[p[k]] = k
    OBVIOUS
  <2> HIDE DEF p
  <2> QED
    BY <2>1, <2>2 DEF Permutes
<1>4. \A k \in 1 .. n : k \notin low .. high => p[k] = k
  OBVIOUS
<1>5. \A k \in 1 .. n : b[k] = a[p[k]]
  BY <1>1
<1> HIDE DEF b, p
<1> QED
  BY <1>1, <1>2, <1>3, <1>4, <1>5 DEF Reorders, b

\* One turn of partition's loop, the k-th, from the array and the index a.
Turn(arr, low, high, a, k) ==
    IF Greater(a.arr[low + k - 1], arr[high]) THEN a
    ELSE [arr |-> Swap(a.arr, low + k - 1, a.j), j |-> a.j + 1]

States(n) == [arr : Arrays(n), j : 1 .. n + 1]

\* What holds after k turns.
Parted(arr, low, high, n, a, k) ==
    /\ a \in States(n) /\ a.j \in low .. low + k
    /\ Reorders(arr, a.arr, low, high, n)
    /\ \A i \in 1 .. n : i >= low /\ i < a.j => ~Greater(a.arr[i], arr[high])
    /\ \A i \in 1 .. n : i >= a.j /\ i < low + k => Greater(a.arr[i], arr[high])
    /\ low + k <= high => a.arr[high] = arr[high]
    /\ low + k > high => a.j > low /\ a.arr[a.j - 1] = arr[high]

\* Each turn of the loop takes the next element to the side it belongs to.
LEMMA TurnParts ==
  ASSUME NEW n \in Nat, NEW arr \in Arrays(n), NEW low \in 1 .. n, NEW high \in 1 .. n, low < high,
         NEW k \in 1 .. high - low + 1, NEW a, Parted(arr, low, high, n, a, k - 1)
  PROVE  Parted(arr, low, high, n, Turn(arr, low, high, a, k), k)
<1> DEFINE i == low + k - 1
           pivot == arr[high]
           j == a.j
           r == a.arr
           b == Turn(arr, low, high, a, k)
<1>1. i \in low .. high /\ i \in 1 .. n /\ j \in low .. i /\ j \in 1 .. n /\ r \in Arrays(n)
      /\ low + (k - 1) = i /\ low + k = i + 1
  BY DEF Parted, States
<1>2. /\ a \in States(n) /\ Reorders(arr, r, low, high, n)
      /\ \A x \in 1 .. n : x >= low /\ x < j => ~Greater(r[x], pivot)
      /\ \A x \in 1 .. n : x >= j /\ x < i => Greater(r[x], pivot)
      /\ r[high] = pivot
  BY <1>1 DEF Parted
<1>3. CASE Greater(r[i], pivot)
  <2>1. b = a
    BY <1>3 DEF Turn
  <2>2. i # high
    <3>1. pivot.stride \in Nat
      BY DEF Arrays
    <3> QED
      BY <1>2, <1>3, <3>1 DEF Greater
  <2>3. \A x \in 1 .. n : x >= j /\ x < i + 1 => Greater(r[x], pivot)
    <3> SUFFICES ASSUME NEW x \in 1 .. n, x >= j, x < i + 1
                 PROVE  Greater(r[x], pivot)
      OBVIOUS
    <3>1. x < i \/ x = i
      BY <1>1
    <3> QED
      BY <1>2, <1>3, <3>1
  <2>4. i + 1 <= high /\ ~(i + 1 > high) /\ j \in low .. i + 1
    BY <1>1, <2>2
  <2> HIDE DEF b, i
  <2> QED
    BY <1>1, <1>2, <2>1, <2>3, <2>4 DEF Parted, b
<1>4. CASE ~Greater(r[i], pivot)
  <2> DEFINE w == Swap(r, i, j)
  <2>1. b = [arr |-> w, j |-> j + 1]
    BY <1>4 DEF Turn
  <2> HIDE DEF i, j, r, b
  <2>2. n \in Nat /\ r \in Arrays(n) /\ i \in 1 .. n /\ j \in 1 .. n /\ i \in low .. high /\ j \in low .. high
    BY <1>1
  <2>3. /\ w \in Arrays(n) /\ Reorders(r, w, low, high, n)
        /\ \A x \in 1 .. n : w[x] = IF x = j THEN r[i] ELSE IF x = i THEN r[j] ELSE r[x]
    BY <2>2, SwapReorders
  <2> HIDE DEF w
  <2>4. Reorders(arr, w, low, high, n)
    BY <1>2, <2>3, ReordersThen
  <2>5. \A x \in 1 .. n : x >= low /\ x < j + 1 => ~Greater(w[x], pivot)
    <3> SUFFICES ASSUME NEW x \in 1 .. n, x >= low, x < j + 1
                 PROVE  ~Greater(w[x], pivot)
      OBVIOUS
    <3>1. x < j \/ x = j
      BY <1>1
    <3>2. CASE x = j
      BY <1>4, <2>3, <3>2
    <3>3. CASE x < j
      <4>1. x # j /\ x # i
        BY <1>1, <3>3
      <4> QED
        BY <1>2, <2>3, <3>3, <4>1
    <3> QED
      BY <3>1, <3>2, <3>3
  <2>6. \A x \in 1 .. n : x >= j + 1 /\ x < i + 1 => Greater(w[x], pivot)
    <3> SUFFICES ASSUME NEW x \in 1 .. n, x >= j + 1, x < i + 1
                 PROVE  Greater(w[x], pivot)
      OBVIOUS
    <3>1. x # j /\ x >= j /\ (x < i \/ x = i)
      BY <1>1
    <3>2. CASE x = i
      <4>1. j >= j /\ j < i
        BY <1>1, <3>1, <3>2
      <4> QED
        BY <1>1, <1>2, <2>3, <3>1, <3>2, <4>1
    <3>3. CASE x < i
      <4>1. x # i
        BY <1>1, <3>3
      <4> QED
        BY <1>2, <2>3, <3>1, <3>3, <4>1
    <3> QED
      BY <3>1, <3>2, <3>3
  <2>7. i + 1 <= high => w[high] = pivot
    <3> SUFFICES ASSUME i + 1 <= high
                 PROVE  w[high] = pivot
      OBVIOUS
    <3>1. high # i /\ high # j
      BY <1>1
    <3> QED
      BY <1>2, <2>3, <3>1
  <2>8. i + 1 > high => j + 1 > low /\ w[(j + 1) - 1] = pivot
    <3> SUFFICES ASSUME i + 1 > high
                 PROVE  j + 1 > low /\ w[(j + 1) - 1] = pivot
      OBVIOUS
    <3>1. high = i /\ j + 1 > low /\ (j + 1) - 1 = j
      BY <1>1
    <3> QED
      BY <1>1, <1>2, <2>3, <3>1
  <2>9. j + 1 \in 1 .. n + 1 /\ j + 1 \in low .. i + 1
    BY <1>1
  <2>10. b \in States(n) /\ b.arr = w /\ b.j = j + 1
    BY <2>1, <2>3, <2>9 DEF States
  <2> QED
    BY <1>1, <2>4, <2>5, <2>6, <2>7, <2>8, <2>9, <2>10 DEF Parted, b, i
<1> QED
  BY <1>3, <1>4

\* The loop leaves what is not after the pivot in front of the rest, the pivot
\* last.
LEMMA PartitionParts ==
  ASSUME NEW n \in Nat, NEW arr \in Arrays(n), NEW low \in 1 .. n, NEW high \in 1 .. n, low < high
  PROVE  Parted(arr, low, high, n, partition(arr, low, high), high - low + 1)
<1> DEFINE m == high - low + 1
           start == [arr |-> arr, j |-> low]
           Is(f) == f = [k \in 0 .. m |-> IF k = 0 THEN start ELSE Turn(arr, low, high, f[k - 1], k)]
           to == CHOOSE f : Is(f)
           step == [k \in 1 .. m |->
                      [a \in States(n) |-> IF Parted(arr, low, high, n, a, k - 1)
                                           THEN Turn(arr, low, high, a, k) ELSE a]]
<1>1. m \in Nat /\ m \in 0 .. m
  OBVIOUS
<1>2. partition(arr, low, high) = to[m]
  BY DEF partition, Turn
<1>3. Parted(arr, low, high, n, start, 0)
  <2>1. start \in States(n)
    BY DEF States
  <2>2. Reorders(arr, start.arr, low, high, n)
    BY ReordersSelf
  <2> QED
    BY <2>1, <2>2 DEF Parted
<1> HIDE DEF start, to
<1>4. \A k \in 1 .. m : step[k] \in [States(n) -> States(n)]
  <2> TAKE k \in 1 .. m
  <2>1. \A a \in States(n) : Parted(arr, low, high, n, a, k - 1) => Turn(arr, low, high, a, k) \in States(n)
    <3> TAKE a \in States(n)
    <3>1. Parted(arr, low, high, n, a, k - 1) => Parted(arr, low, high, n, Turn(arr, low, high, a, k), k)
      BY TurnParts
    <3> QED
      BY <3>1 DEF Parted
  <2>2. \A a \in States(n) : (IF Parted(arr, low, high, n, a, k - 1)
                              THEN Turn(arr, low, high, a, k) ELSE a) \in States(n)
    BY <2>1
  <2> QED
    BY <2>2
<1>5. \A k \in 1 .. m, a \in States(n) :
         Parted(arr, low, high, n, a, k - 1) => step[k][a] = Turn(arr, low, high, a, k)
  OBVIOUS
<1> HIDE DEF step, m
<1>6. start \in States(n)
  BY <1>3 DEF Parted
<1>7. PICK f \in [0 .. m -> States(n)] : Follows(f, start, step, m)
  BY <1>1, <1>4, <1>6, RecursionExists
<1> DEFINE T == {k \in 0 .. m : Parted(arr, low, high, n, f[k], k)}
<1>8. \A k \in 0 .. m : k \in T
  <2>1. 0 \in T
    BY <1>1, <1>3, <1>7 DEF Follows
  <2>2. \A k \in 1 .. m : k - 1 \in T => k \in T
    <3> SUFFICES ASSUME NEW k \in 1 .. m, Parted(arr, low, high, n, f[k - 1], k - 1)
                 PROVE  Parted(arr, low, high, n, f[k], k)
      OBVIOUS
    <3>1. f[k] = step[k][f[k - 1]] /\ f[k - 1] \in States(n)
      BY <1>7 DEF Follows, Parted
    <3>2. f[k] = Turn(arr, low, high, f[k - 1], k)
      BY <1>5, <3>1
    <3> QED
      BY <3>2, TurnParts DEF m
  <2> HIDE DEF T
  <2> QED
    BY <1>1, <2>1, <2>2, UpTo
<1>9. Is(f)
  <2>1. \A k \in 0 .. m : f[k] = IF k = 0 THEN start ELSE Turn(arr, low, high, f[k - 1], k)
    <3> TAKE k \in 0 .. m
    <3>1. CASE k = 0
      BY <1>7, <3>1 DEF Follows
    <3>2. CASE k # 0
      <4>1. k \in 1 .. m /\ k - 1 \in 0 .. m
        BY <1>1, <3>2
      <4>2. f[k - 1] \in States(n) /\ Parted(arr, low, high, n, f[k - 1], k - 1)
        BY <1>7, <1>8, <4>1
      <4>3. f[k] = step[k][f[k - 1]]
        BY <1>7, <4>1 DEF Follows
      <4> QED
        BY <1>5, <3>2, <4>1, <4>2, <4>3
    <3> QED
      BY <3>1, <3>2
  <2>2. f = [k \in 0 .. m |-> f[k]]
    BY <1>7
  <2> QED
    BY <2>1, <2>2
<1>10. Is(to)
  <2> HIDE DEF Is
  <2> QED
    BY <1>9 DEF to, m
<1>11. to[0] = f[0] /\ \A k \in 1 .. m : to[k - 1] = f[k - 1] => to[k] = f[k]
  <2>1. 0 \in 0 .. m /\ \A k \in 1 .. m : k \in 0 .. m /\ k # 0
    BY <1>1
  <2> QED
    BY <1>9, <1>10, <2>1
<1>12. \A k \in 0 .. m : to[k] = f[k]
  <2>1. StepAlike(to, f, m)
    BY <1>11 DEF StepAlike
  <2>2. Alike(to, f, m)
    BY <1>1, <2>1, AlikeUpTo
  <2> QED
    BY <2>2 DEF Alike
<1> QED
  BY <1>1, <1>2, <1>8, <1>12 DEF m

CallsOf(n) == [arr : Arrays(n), low : 1 .. n + 1, high : -1 .. n]
FrontOf(c) == LET p == partition(c.arr, c.low, c.high)
            IN  [arr |-> p.arr, low |-> c.low, high |-> p.j - 2]
BackOf(c, arr) == [arr |-> arr, low |-> partition(c.arr, c.low, c.high).j, high |-> c.high]

\* quick_sort on one range, with g for the shorter ones.
SortOne(g, c) == IF c.low >= c.high THEN c.arr ELSE g[BackOf(c, g[FrontOf(c)])]

\* b is what c sorts, sorted.
Falls(b, low, high, n) == \A i, j \in 1 .. n : low <= i /\ i < j /\ j <= high => b[i].stride >= b[j].stride
Done(c, b, n) == Reorders(c.arr, b, c.low, c.high, n) /\ Falls(b, c.low, c.high, n)

\* A range of two elements or more is split at the pivot into shorter ones.
LEMMA Halves ==
  ASSUME NEW n \in Nat, NEW c \in CallsOf(n), c.low < c.high
  PROVE  /\ c.arr \in Arrays(n) /\ c.low \in 1 .. n /\ c.high \in 1 .. n
         /\ Parted(c.arr, c.low, c.high, n, partition(c.arr, c.low, c.high), c.high - c.low + 1)
         /\ partition(c.arr, c.low, c.high).j \in c.low + 1 .. c.high + 1
         /\ FrontOf(c) \in CallsOf(n)
         /\ \A arr \in Arrays(n) : BackOf(c, arr) \in CallsOf(n)
<1> DEFINE low == c.low
           high == c.high
           p == partition(c.arr, low, high)
<1>1. c.arr \in Arrays(n) /\ low \in 1 .. n /\ high \in 1 .. n
  BY DEF CallsOf
<1>2. Parted(c.arr, low, high, n, p, high - low + 1)
  BY <1>1, PartitionParts
<1> HIDE DEF p
<1>3. p.arr \in Arrays(n) /\ p.j \in low + 1 .. high + 1
  BY <1>1, <1>2 DEF Parted, States
<1>4. p.j - 2 \in -1 .. n /\ p.j \in 1 .. n + 1
  BY <1>1, <1>3
<1>5. FrontOf(c) \in CallsOf(n)
  BY <1>1, <1>3, <1>4 DEF FrontOf, CallsOf, p
<1>6. \A arr \in Arrays(n) : BackOf(c, arr) \in CallsOf(n)
  BY <1>1, <1>4 DEF BackOf, CallsOf, p
<1> QED
  BY <1>1, <1>2, <1>3, <1>5, <1>6 DEF p

\* Sorting a range gives an array back.
LEMMA SortOneType ==
  ASSUME NEW n \in Nat, NEW g \in [CallsOf(n) -> Arrays(n)], NEW c \in CallsOf(n)
  PROVE  SortOne(g, c) \in Arrays(n)
<1>1. CASE c.low < c.high
  <2>1. g[FrontOf(c)] \in Arrays(n)
    BY <1>1, Halves
  <2>2. g[BackOf(c, g[FrontOf(c)])] \in Arrays(n)
    BY <1>1, <2>1, Halves
  <2> QED
    BY <1>1, <2>2 DEF SortOne, CallsOf
<1>2. CASE ~(c.low < c.high)
  BY <1>2 DEF SortOne, CallsOf
<1> QED
  BY <1>1, <1>2

\* If the shorter ranges are sorted then so is this one.
LEMMA SortOneDone ==
  ASSUME NEW n \in Nat, NEW k \in Nat, NEW g \in [CallsOf(n) -> Arrays(n)],
         \A e \in CallsOf(n) : e.high - e.low < k => Done(e, g[e], n),
         NEW c \in CallsOf(n), c.high - c.low < k + 1
  PROVE  Done(c, SortOne(g, c), n)
<1> DEFINE low == c.low
           high == c.high
           p == partition(c.arr, low, high)
           front == FrontOf(c)
           f == g[front]
           back == BackOf(c, f)
           r == g[back]
<1>1. CASE ~(low < high)
  <2>1. low \in Int /\ high \in Int
    BY DEF CallsOf
  <2>2. SortOne(g, c) = c.arr
    BY <1>1, <2>1 DEF SortOne
  <2>3. Falls(c.arr, low, high, n)
    BY <1>1, <2>1 DEF Falls
  <2> QED
    BY <2>2, <2>3, ReordersSelf DEF Done
<1>2. CASE low < high
  <2>1. /\ c.arr \in Arrays(n) /\ low \in 1 .. n /\ high \in 1 .. n
        /\ Parted(c.arr, low, high, n, p, high - low + 1) /\ p.j \in low + 1 .. high + 1
        /\ front \in CallsOf(n)
        /\ \A arr \in Arrays(n) : BackOf(c, arr) \in CallsOf(n)
    BY <1>2, Halves
  <2>2. front.arr = p.arr /\ front.low = low /\ front.high = p.j - 2
    BY DEF FrontOf
  <2>3. f \in Arrays(n)
    BY <2>1
  <2>4. back \in CallsOf(n) /\ back.arr = f /\ back.low = p.j /\ back.high = high
    BY <2>1, <2>3 DEF BackOf
  <2>5. r \in Arrays(n) /\ SortOne(g, c) = r
    BY <1>2, <2>1, <2>4 DEF SortOne
  <2> HIDE DEF front, f, back, r, p
  <2> DEFINE j == p.j
             pivot == c.arr[high]
  <2>6. /\ Reorders(c.arr, p.arr, low, high, n) /\ p.arr \in Arrays(n)
        /\ \A i \in 1 .. n : i >= low /\ i < j => ~Greater(p.arr[i], pivot)
        /\ \A i \in 1 .. n : i >= j /\ i <= high => Greater(p.arr[i], pivot)
        /\ p.arr[j - 1] = pivot
    <3>1. low + (high - low + 1) = high + 1
      BY <2>1
    <3>2. \A i \in 1 .. n : i <= high <=> i < high + 1
      BY <2>1
    <3> QED
      BY <2>1, <3>1, <3>2 DEF Parted, States
  <2> HIDE DEF j
  <2>7. j \in low + 1 .. high + 1 /\ j - 1 \in 1 .. n /\ j \in Int
    BY <2>1 DEF j
  <2>8. Done(front, f, n)
    <3>1. front.high - front.low < k
      BY <2>1, <2>2, <2>7 DEF j
    <3> QED
      BY <2>1, <3>1 DEF f
  <2>9. Done(back, r, n)
    <3>1. back.high - back.low < k
      BY <2>1, <2>4, <2>7 DEF j
    <3> QED
      BY <2>4, <3>1 DEF r
  <2>10. Reorders(p.arr, f, low, j - 2, n) /\ Falls(f, low, j - 2, n)
    BY <2>2, <2>8 DEF Done, j
  <2>11. Reorders(f, r, j, high, n) /\ Falls(r, j, high, n)
    BY <2>4, <2>9 DEF Done, j
  <2>12. Reorders(c.arr, r, low, high, n)
    <3>1. \A i \in 1 .. n : i \in low .. j - 2 \/ i \in j .. high => i \in low .. high
      BY <2>1, <2>7
    <3>2. Reorders(p.arr, r, low, high, n)
      BY <2>10, <2>11, <3>1, ReordersThen
    <3> QED
      BY <2>6, <3>2, ReordersThen
  <2>13. \A i \in 1 .. n : i >= low /\ i <= j - 2 => r[i] = f[i] /\ r[i].stride >= pivot.stride
    <3> SUFFICES ASSUME NEW i \in 1 .. n, i >= low, i <= j - 2
                 PROVE  r[i] = f[i] /\ r[i].stride >= pivot.stride
      OBVIOUS
    <3>1. i \notin j .. high /\ i \in low .. j - 2
      BY <2>1, <2>7
    <3>2. r[i] = f[i]
      BY <2>11, <3>1, ReordersWithin
    <3>3. PICK x \in 1 .. n : x \in low .. j - 2 /\ f[i] = p.arr[x]
      BY <2>10, <3>1, ReordersWithin
    <3>4. ~Greater(p.arr[x], pivot)
      BY <2>1, <2>6, <2>7, <3>3
    <3>5. p.arr[x].stride \in Nat /\ pivot.stride \in Nat
      BY <2>1, <2>6 DEF Arrays
    <3> QED
      BY <3>2, <3>3, <3>4, <3>5 DEF Greater
  <2>14. r[j - 1] = pivot
    <3>1. j - 1 \notin j .. high /\ j - 1 \notin low .. j - 2
      BY <2>1, <2>7
    <3> QED
      BY <2>6, <2>7, <2>10, <2>11, <3>1, ReordersWithin
  <2>15. \A i \in 1 .. n : i >= j /\ i <= high => pivot.stride >= r[i].stride
    <3> SUFFICES ASSUME NEW i \in 1 .. n, i >= j, i <= high
                 PROVE  pivot.stride >= r[i].stride
      OBVIOUS
    <3>1. i \in j .. high
      BY <2>1, <2>7
    <3>2. PICK x \in 1 .. n : x \in j .. high /\ r[i] = f[x]
      BY <2>11, <3>1, ReordersWithin
    <3>3. x \notin low .. j - 2
      BY <2>1, <2>7, <3>2
    <3>4. f[x] = p.arr[x]
      BY <2>10, <3>3, ReordersWithin
    <3>5. Greater(p.arr[x], pivot)
      BY <2>1, <2>6, <2>7, <3>2
    <3>6. p.arr[x].stride \in Nat /\ pivot.stride \in Nat
      BY <2>1, <2>6 DEF Arrays
    <3> QED
      BY <3>2, <3>4, <3>5, <3>6 DEF Greater
  <2>16. Falls(r, low, high, n)
    <3> SUFFICES ASSUME NEW x \in 1 .. n, NEW y \in 1 .. n, low <= x, x < y, y <= high
                 PROVE  r[x].stride >= r[y].stride
      BY DEF Falls
    <3>1. r[x].stride \in Nat /\ r[y].stride \in Nat /\ pivot.stride \in Nat
      BY <2>1, <2>5 DEF Arrays
    <3>2. x <= j - 2 \/ x = j - 1 \/ x >= j
      BY <2>7
    <3>3. y <= j - 2 \/ y = j - 1 \/ y >= j
      BY <2>7
    <3>4. CASE y <= j - 2
      <4>1. x <= j - 2 /\ y >= low
        BY <2>1, <2>7, <3>4
      <4>2. f[x].stride >= f[y].stride
        BY <2>10, <3>4, <4>1 DEF Falls
      <4> QED
        BY <2>13, <3>4, <4>1, <4>2
    <3>5. CASE x >= j
      <4>1. y <= high
        OBVIOUS
      <4> QED
        BY <2>7, <2>11, <3>5, <4>1 DEF Falls
    <3>6. CASE x <= j - 2 /\ y = j - 1
      BY <2>13, <2>14, <3>6
    <3>7. CASE x = j - 1 /\ y >= j
      BY <2>14, <2>15, <3>7
    <3>8. CASE x <= j - 2 /\ y >= j
      <4>1. r[x].stride >= pivot.stride /\ pivot.stride >= r[y].stride
        BY <2>13, <2>15, <3>8
      <4> QED
        BY <3>1, <4>1
    <3>9. ~(x >= j - 1 /\ y <= j - 1) /\ (x = j - 1 => y >= j)
      BY <2>7
    <3> QED
      BY <3>2, <3>3, <3>4, <3>5, <3>6, <3>7, <3>8, <3>9
  <2> QED
    BY <2>5, <2>12, <2>16 DEF Done
<1> QED
  BY <1>1, <1>2

\* The whole array comes out sorted.
LEMMA QuickSorts ==
  ASSUME NEW n \in Nat, NEW array \in Arrays(n)
  PROVE  LET b == quick_sort(array, 1, n)
         IN  b \in Arrays(n) /\ Reorders(array, b, 1, n, n) /\ Falls(b, 1, n, n)
<1> DEFINE Calls == CallsOf(n)
           S == [Calls -> Arrays(n)]
           first == [c \in Calls |-> c.arr]
           Next(g, m) == [c \in Calls |->
                            IF m = 0 \/ c.low >= c.high THEN c.arr
                            ELSE LET p == partition(c.arr, c.low, c.high)
                                     front == [arr |-> p.arr, low |-> c.low, high |-> p.j - 2]
                                 IN  g[[arr |-> g[front], low |-> p.j, high |-> c.high]]]
           Is(f) == f = [m \in 0 .. n |-> Next(f[m - 1], m)]
           sort == CHOOSE f : Is(f)
           step == [m \in 1 .. n |-> [g \in S |-> [c \in Calls |-> SortOne(g, c)]]]
           whole == [arr |-> array, low |-> 1, high |-> n]
<1>1. Len(array) = n
  BY DEF Arrays
<1>2. quick_sort(array, 1, n) = sort[n][whole]
  BY <1>1 DEF quick_sort, CallsOf, Arrays
<1>3. first \in S
  BY DEF CallsOf
<1>4. \A m \in 1 .. n : step[m] \in [S -> S]
  <2> TAKE m \in 1 .. n
  <2>1. \A g \in S : [c \in Calls |-> SortOne(g, c)] \in S
    BY SortOneType
  <2> QED
    BY <2>1
<1>5. \A m \in 1 .. n, g \in S : step[m][g] = [c \in Calls |-> SortOne(g, c)]
  OBVIOUS
<1> HIDE DEF step, S, sort
<1>6. PICK f \in [0 .. n -> S] : Follows(f, first, step, n)
  BY <1>3, <1>4, RecursionExists
<1>7. \A m \in 1 .. n : f[m - 1] \in S /\ f[m] = [c \in Calls |-> SortOne(f[m - 1], c)]
  <2> TAKE m \in 1 .. n
  <2>1. m - 1 \in 0 .. n
    OBVIOUS
  <2>2. f[m - 1] \in S
    BY <2>1
  <2> QED
    BY <1>5, <1>6, <2>2 DEF Follows
<1>8. Is(f)
  <2>1. \A m \in 0 .. n : f[m] = Next(f[m - 1], m)
    <3> TAKE m \in 0 .. n
    <3>1. CASE m = 0
      BY <1>6, <3>1 DEF Follows
    <3>2. CASE m # 0
      <4>1. m \in 1 .. n
        BY <3>2
      <4>2. f[m] = [c \in Calls |-> SortOne(f[m - 1], c)]
        BY <1>7, <4>1
      <4> QED
        BY <3>2, <4>2 DEF SortOne, FrontOf, BackOf
    <3> QED
      BY <3>1, <3>2
  <2>2. f = [m \in 0 .. n |-> f[m]]
    OBVIOUS
  <2> QED
    BY <2>1, <2>2
<1>9. Is(sort)
  <2> HIDE DEF Is
  <2> QED
    BY <1>8 DEF sort
<1>10. StepAlike(sort, f, n)
  <2>1. sort[0] = f[0]
    <3>1. 0 \in 0 .. n
      OBVIOUS
    <3>2. Next(sort[0 - 1], 0) = Next(f[0 - 1], 0)
      OBVIOUS
    <3> HIDE DEF Next
    <3>3. sort[0] = Next(sort[0 - 1], 0) /\ f[0] = Next(f[0 - 1], 0)
      BY <1>8, <1>9, <3>1
    <3> QED
      BY <3>2, <3>3
  <2>2. \A m \in 1 .. n : sort[m - 1] = f[m - 1] => sort[m] = f[m]
    <3> TAKE m \in 1 .. n
    <3>1. m \in 0 .. n
      OBVIOUS
    <3> HIDE DEF Next
    <3>2. sort[m] = Next(sort[m - 1], m) /\ f[m] = Next(f[m - 1], m)
      BY <1>8, <1>9, <3>1
    <3> QED
      BY <3>2
  <2> QED
    BY <2>1, <2>2 DEF StepAlike
<1> HIDE DEF Is
<1>11. sort[n] = f[n]
  <2>1. Alike(sort, f, n)
    BY <1>10, AlikeUpTo
  <2>2. n \in 0 .. n
    OBVIOUS
  <2> QED
    BY <2>1, <2>2 DEF Alike
<1> DEFINE T == {m \in 0 .. n : \A c \in Calls : c.high - c.low < m => Done(c, f[m][c], n)}
<1>12. 0 \in T
  <2> SUFFICES ASSUME NEW c \in Calls, c.high - c.low < 0
               PROVE  Done(c, f[0][c], n)
    OBVIOUS
  <2>1. f[0][c] = c.arr /\ c.low \in Int /\ c.high \in Int
    BY <1>6 DEF Follows, CallsOf
  <2>2. Falls(c.arr, c.low, c.high, n)
    BY <2>1 DEF Falls
  <2> QED
    BY <2>1, <2>2, ReordersSelf DEF Done
<1>13. \A m \in 1 .. n : m - 1 \in T => m \in T
  <2> SUFFICES ASSUME NEW m \in 1 .. n, \A c \in Calls : c.high - c.low < m - 1 => Done(c, f[m - 1][c], n),
                      NEW c \in Calls, c.high - c.low < m
               PROVE  Done(c, f[m][c], n)
    OBVIOUS
  <2>1. f[m - 1] \in [CallsOf(n) -> Arrays(n)] /\ f[m][c] = SortOne(f[m - 1], c)
    BY <1>7 DEF S
  <2>2. PICK k \in Nat : k = m - 1
    OBVIOUS
  <2>3. c.high - c.low < k + 1
    BY <2>2
  <2> QED
    BY <2>1, <2>2, <2>3, SortOneDone
<1>14. n \in T
  <2>1. \A m \in 0 .. n : m \in T
    <3> HIDE DEF T
    <3> QED
      BY <1>12, <1>13, UpTo
  <2>2. n \in 0 .. n
    OBVIOUS
  <2> HIDE DEF T
  <2> QED
    BY <2>1, <2>2
<1>15. whole \in Calls
  BY DEF CallsOf
<1>16. Done(whole, f[n][whole], n)
  <2>1. whole.high - whole.low < n
    OBVIOUS
  <2> HIDE DEF whole, Calls
  <2> QED
    BY <1>14, <1>15, <2>1
<1>17. f[n][whole] \in Arrays(n)
  <2>1. f[n] \in S
    BY n \in 0 .. n
  <2> HIDE DEF whole, Calls
  <2> QED
    BY <1>15, <2>1 DEF S
<1> QED
  BY <1>2, <1>11, <1>16, <1>17 DEF Done

\* stride_to_dim_order puts the dimensions in an order along which the strides
\* descend.
LEMMA SortedOrder ==
  ASSUME NEW n \in Nat, NEW st \in [1 .. n -> Nat]
  PROVE  LET o == stride_to_dim_order(st)
         IN  Permutes(o, n) /\ Descends(st, o, n)
<1> DEFINE o == stride_to_dim_order(st)
           array == [i \in 1 .. n |-> [dim_order |-> i, stride |-> st[i]]]
           b == quick_sort(array, 1, n)
<1>1. Dims(st) = 1 .. n /\ Len(st) = n
  BY DEF Dims
<1>2. array \in Arrays(n)
  BY DEF Arrays
<1>3. o = [i \in 1 .. n |-> b[i].dim_order]
  BY <1>1 DEF stride_to_dim_order
<1>4. Reorders(array, b, 1, n, n) /\ Falls(b, 1, n, n)
  <2> HIDE DEF array
  <2> QED
    BY <1>2, QuickSorts
<1> HIDE DEF o, b
<1>5. PICK p : Permutes(p, n) /\ \A i \in 1 .. n : b[i] = array[p[i]]
  BY <1>4 DEF Reorders
<1>6. \A i \in 1 .. n : p[i] \in 1 .. n /\ b[i].dim_order = p[i] /\ b[i].stride = st[p[i]]
  <2> TAKE i \in 1 .. n
  <2>1. p[i] \in 1 .. n
    BY <1>5 DEF Permutes
  <2>2. b[i] = [dim_order |-> p[i], stride |-> st[p[i]]]
    BY <1>5, <2>1
  <2> QED
    BY <2>1, <2>2
<1>7. o = p
  <2>1. p = [i \in 1 .. n |-> p[i]]
    BY <1>5 DEF Permutes
  <2>2. [i \in 1 .. n |-> b[i].dim_order] = [i \in 1 .. n |-> p[i]]
    BY <1>6
  <2> QED
    BY <1>3, <2>1, <2>2
<1>8. Descends(st, p, n)
  <2> SUFFICES ASSUME NEW i \in 1 .. n, NEW j \in 1 .. n, i < j
               PROVE  st[p[i]] >= st[p[j]]
    BY DEF Descends
  <2>1. b[i].stride >= b[j].stride
    BY <1>4 DEF Falls
  <2> QED
    BY <1>6, <2>1
<1> QED
  BY <1>5, <1>7, <1>8 DEF o

-----------------------------------------------------------------------------
(* The invariant, and what follows from it.                                *)

\* Strides are those of the dimension order, where there is more than one element.
Aligned(t) ==
    t.sizes \in Seq(Nat \ {0}) =>
        \A d \in 1 .. Dim(t) :
            t.sizes[d] > 1 => t.strides[d] = dim_order_to_stride_nocheck(t.sizes, t.order)[d]

Laid(t) == /\ t = [sizes |-> t.sizes, order |-> t.order, strides |-> t.strides, data |-> t.data]
           /\ Packed(t)
           /\ Permutes(t.order, Dim(t))
           /\ Aligned(t)

\* A dimension wants a stride.
Wanting(t) == /\ t = [sizes |-> t.sizes, order |-> t.order, strides |-> t.strides, data |-> t.data]
              /\ t.sizes \in Seq(Nat)
              /\ t.order \in [1 .. Dim(t) -> 1 .. Dim(t)]
              /\ t.strides \in [1 .. Dim(t) -> Nat]
              /\ ~AllStrided(t)

LayoutLaid == Laid(tensor) \/ Wanting(tensor)

\* A tensor made with a dimension order is laid out by it.
LEMMA LaidByOrder ==
  ASSUME NEW s \in Seq(Nat), NEW o, Permutes(o, Len(s)), NEW data
  PROVE  Laid(make_with_dimorder(s, data, o))
<1> DEFINE t == make_with_dimorder(s, data, o)
<1>1. /\ t.sizes = s /\ t.order = o /\ t.strides = dim_order_to_stride_nocheck(s, o) /\ t.data = data
      /\ t = [sizes |-> s, order |-> o, strides |-> dim_order_to_stride_nocheck(s, o), data |-> data]
  BY DEF make_with_dimorder
<1> HIDE DEF t
<1>2. Dim(t) = Len(s)
  BY <1>1 DEF Dim
<1>3. Packed(t)
  BY <1>1, <1>2 DEF Packed
<1>4. Aligned(t)
  BY <1>1 DEF Aligned
<1> QED
  BY <1>1, <1>2, <1>3, <1>4 DEF Laid, t

\* Made with an order that repeats a dimension it wants a stride.
LEMMA LaidOrWanting ==
  ASSUME NEW s \in Seq(Nat), NEW o \in [1 .. Len(s) -> 1 .. Len(s)], NEW data
  PROVE  LET t == make_with_dimorder(s, data, o) IN Laid(t) \/ Wanting(t)
<1> DEFINE t == make_with_dimorder(s, data, o)
<1>1. CASE Permutes(o, Len(s))
  BY <1>1, LaidByOrder
<1>2. CASE ~Permutes(o, Len(s))
  <2> DEFINE st == dim_order_to_stride_nocheck(s, o)
  <2>1. st \in [1 .. Len(s) -> Nat] /\ \E d \in 1 .. Len(s) : st[d] = 0
    BY <1>2, StrideWanted
  <2> HIDE DEF st
  <2>2. /\ t.sizes = s /\ t.order = o /\ t.strides = st /\ t.data = data
        /\ t = [sizes |-> s, order |-> o, strides |-> st, data |-> data]
    BY DEF make_with_dimorder, st
  <2> HIDE DEF t
  <2>3. Dim(t) = Len(s)
    BY <2>2 DEF Dim
  <2> QED
    BY <2>1, <2>2, <2>3 DEF Wanting, AllStrided, t
<1> QED
  BY <1>1, <1>2

\* So is one whose order was sorted from strides that some order gave.
LEMMA LaidBySort ==
  ASSUME NEW t, t = [sizes |-> t.sizes, order |-> t.order, strides |-> t.strides, data |-> t.data],
         Packed(t), Permutes(t.order, Dim(t)), Descends(t.strides, t.order, Dim(t))
  PROVE  Laid(t)
<1>1. PICK o : Permutes(o, Dim(t)) /\ t.strides = dim_order_to_stride_nocheck(t.sizes, o)
  BY DEF Packed
<1>2. Aligned(t)
  <2> SUFFICES ASSUME t.sizes \in Seq(Nat \ {0}), NEW d \in 1 .. Dim(t), t.sizes[d] > 1
               PROVE  t.strides[d] = dim_order_to_stride_nocheck(t.sizes, t.order)[d]
    BY DEF Aligned
  <2> QED
    BY <1>1, Realigned DEF Dim
<1> QED
  BY <1>2 DEF Laid

\* The default order.
LEMMA IdentityPermutes ==
  ASSUME NEW n \in Nat
  PROVE  Permutes([i \in 1 .. n |-> i], n)
  BY DEF Permutes

\* The factory lays tensors out, whether from strides or from an order ...
LEMMA LayoutInitLaid == LayoutInit => LayoutLaid
<1> SUFFICES ASSUME LayoutInit
             PROVE  Laid(tensor) \/ Wanting(tensor)
  BY DEF LayoutLaid
<1>1. PICK s \in Shapes :
         \/ \E st \in {r \in Strides : Len(r) = Len(s)} \cup {default_strides(s)} :
               check_strides(s, st) /\ tensor = make(s, st)
         \/ \E order \in [Dims(s) -> 1 .. Len(s) + 1] :
               check_dim_order(s, order) /\ tensor = make_with_dimorder(s, Storage(s), order)
  BY DEF LayoutInit
<1>2. s \in Seq(Nat) /\ Len(s) \in Nat
  BY ShapesAssumption
<1>3. CASE \E st \in {r \in Strides : Len(r) = Len(s)} \cup {default_strides(s)} :
              check_strides(s, st) /\ tensor = make(s, st)
  <2>1. PICK st \in {r \in Strides : Len(r) = Len(s)} \cup {default_strides(s)} :
           check_strides(s, st) /\ tensor = make(s, st)
    BY <1>3
  <2>2. Dims(s) = 1 .. Len(s)
    BY DEF Dims
  <2>3. default_strides(s) \in [1 .. Len(s) -> Nat]
    <3> DEFINE o == [i \in 1 .. Len(s) |-> i]
    <3>1. Permutes(o, Len(s)) /\ Len(o) = Len(s)
      BY <1>2, IdentityPermutes
    <3>2. default_strides(s) = dim_order_to_stride_nocheck(s, o)
      BY <2>2 DEF default_strides
    <3> HIDE DEF o
    <3> QED
      BY <1>2, <3>1, <3>2, StridesOfOrder
  <2>4. st \in Seq(Nat) /\ Len(st) = Len(s)
    <3>1. CASE st = default_strides(s)
      BY <1>2, <2>3, <3>1
    <3>2. CASE st \in Strides /\ Len(st) = Len(s)
      BY <3>2, ShapesAssumption
    <3> QED
      BY <3>1, <3>2
  <2> DEFINE o == dim_order_from_stride(st)
  <2>5. Permutes(o, Len(s)) /\ Descends(st, o, Len(s))
    BY <2>4, RanksPermute
  <2> HIDE DEF o
  <2>6. /\ tensor.sizes = s /\ tensor.order = o /\ tensor.strides = st /\ tensor.data = Storage(s)
        /\ tensor = [sizes |-> s, order |-> o, strides |-> st, data |-> Storage(s)]
    BY <2>1 DEF make, o
  <2>7. Dim(tensor) = Len(s)
    BY <2>6 DEF Dim
  <2>8. Packed(tensor)
    BY <1>2, <2>1, <2>4, <2>6, <2>7, CheckedPacked DEF Packed
  <2> QED
    BY <2>5, <2>6, <2>7, <2>8, LaidBySort
<1>4. CASE \E order \in [Dims(s) -> 1 .. Len(s) + 1] :
              check_dim_order(s, order) /\ tensor = make_with_dimorder(s, Storage(s), order)
  <2>1. PICK order \in [1 .. Len(s) -> 1 .. Len(s) + 1] :
           check_dim_order(s, order) /\ tensor = make_with_dimorder(s, Storage(s), order)
    BY <1>4 DEF Dims
  <2>2. Dims(order) = 1 .. Len(s)
    BY <1>2, <2>1 DEF Dims
  <2>3. order \in [1 .. Len(s) -> 1 .. Len(s)]
    BY <2>1, <2>2 DEF check_dim_order, validate_dim_order
  <2> QED
    BY <1>2, <2>1, <2>3, LaidOrWanting
<1> QED
  BY <1>1, <1>3, <1>4

\* The channels-last order of four dimensions.
LEMMA ChannelsLastPermutes == Permutes(channels_last_dim_order(4), 4)
<1> DEFINE o == channels_last_dim_order(4)
<1>1. o = [i \in 1 .. 4 |-> IF i = 1 THEN 1 ELSE IF i = 4 THEN 2 ELSE i + 1]
  BY DEF channels_last_dim_order
<1> HIDE DEF o
<1>2. o[1] = 1 /\ o[2] = 3 /\ o[3] = 4 /\ o[4] = 2
  BY <1>1
<1>3. \A i \in 1 .. 4 : i = 1 \/ i = 2 \/ i = 3 \/ i = 4
  OBVIOUS
<1>4. o \in [1 .. 4 -> 1 .. 4]
  BY <1>1
<1>5. \A d \in 1 .. 4 : \E i \in 1 .. 4 : o[i] = d
  BY <1>2, <1>3
<1>6. \A i, j \in 1 .. 4 : o[i] = o[j] => i = j
  BY <1>2, <1>3
<1> QED
  BY <1>4, <1>5, <1>6 DEF Permutes, o

\* ... or leaves them wanting a stride.  Every operation keeps a tensor laid out ...
LEMMA LaidNext == Laid(tensor) /\ [LayoutNext]_layoutVars => Laid(tensor')
<1> SUFFICES ASSUME Laid(tensor), [LayoutNext]_layoutVars
             PROVE  Laid(tensor')
  OBVIOUS
<1> DEFINE s == tensor.sizes
           n == Dim(tensor)
<1>1. /\ s \in Seq(Nat) /\ n = Len(s) /\ n \in Nat
      /\ tensor = [sizes |-> s, order |-> tensor.order, strides |-> tensor.strides, data |-> tensor.data]
      /\ Permutes(tensor.order, n) /\ Packed(tensor)
  BY DEF Laid, Packed, Dim
<1>2. CASE UNCHANGED layoutVars
  BY <1>2 DEF layoutVars
<1>3. CASE DimOrderToStride
  <2>1. tensor' = [tensor EXCEPT !.strides = dim_order_to_stride_nocheck(s, tensor.order)]
    BY <1>3 DEF DimOrderToStride
  <2>2. tensor' = make_with_dimorder(s, tensor.data, tensor.order)
    BY <1>1, <2>1 DEF make_with_dimorder
  <2> QED
    BY <1>1, <2>2, LaidByOrder
<1>4. CASE StrideToDimOrder
  <2> DEFINE o == stride_to_dim_order(tensor.strides)
  <2>1. tensor' = [tensor EXCEPT !.order = o]
    BY <1>4 DEF StrideToDimOrder
  <2>2. tensor.strides \in [1 .. n -> Nat]
    <3>1. PICK p : Permutes(p, n) /\ tensor.strides = dim_order_to_stride_nocheck(s, p)
      BY <1>1 DEF Packed
    <3>2. Len(p) = n
      BY <1>1, <3>1 DEF Permutes
    <3> QED
      BY <1>1, <3>1, <3>2, StridesOfOrder
  <2>3. Permutes(o, n) /\ Descends(tensor.strides, o, n)
    BY <1>1, <2>2, SortedOrder
  <2> HIDE DEF o
  <2>4. /\ tensor' = [sizes |-> s, order |-> o, strides |-> tensor.strides, data |-> tensor.data]
        /\ tensor'.sizes = s /\ tensor'.order = o /\ tensor'.strides = tensor.strides
        /\ tensor'.data = tensor.data
    BY <1>1, <2>1
  <2>5. Dim(tensor') = n
    BY <2>4 DEF Dim
  <2>6. Packed(tensor')
    BY <1>1, <2>4, <2>5 DEF Packed
  <2> QED
    BY <2>3, <2>4, <2>5, <2>6, LaidBySort
<1>5. CASE channels_last_like
  <2>1. PICK moved : Len(s) = 4 /\ tensor' = make_with_dimorder(s, moved, channels_last_dim_order(4))
    BY <1>5 DEF channels_last_like
  <2> QED
    BY <1>1, <2>1, ChannelsLastPermutes, LaidByOrder
<1>6. ASSUME NEW requested \in Shapes, View(requested)
      PROVE  Laid(tensor')
  <2> DEFINE sizes == IF requested = <<>> THEN s ELSE requested
             order == IF Len(sizes) = Len(s) THEN tensor.order ELSE [i \in Dims(sizes) |-> i]
  <2>1. tensor' = make_with_dimorder(sizes, tensor.data, order)
    BY <1>6 DEF View
  <2>2. sizes \in Seq(Nat) /\ Len(sizes) \in Nat /\ Dims(sizes) = 1 .. Len(sizes)
    BY <1>1, ShapesAssumption DEF Dims
  <2> HIDE DEF sizes
  <2>3. Permutes(order, Len(sizes))
    <3>1. CASE Len(sizes) = Len(s)
      BY <1>1, <3>1
    <3>2. CASE Len(sizes) # Len(s)
      BY <2>2, <3>2, IdentityPermutes
    <3> QED
      BY <3>1, <3>2
  <2> QED
    BY <2>1, <2>2, <2>3, LaidByOrder
<1> QED
  BY <1>2, <1>3, <1>4, <1>5, <1>6 DEF LayoutNext

\* ... or lays it out, or leaves it wanting a stride.
LEMMA WantingNext == Wanting(tensor) /\ [LayoutNext]_layoutVars => LayoutLaid'
<1> SUFFICES ASSUME Wanting(tensor), [LayoutNext]_layoutVars
             PROVE  Laid(tensor') \/ Wanting(tensor')
  BY DEF LayoutLaid
<1> DEFINE s == tensor.sizes
           n == Dim(tensor)
<1>1. /\ s \in Seq(Nat) /\ n = Len(s) /\ n \in Nat
      /\ tensor = [sizes |-> s, order |-> tensor.order, strides |-> tensor.strides, data |-> tensor.data]
      /\ tensor.order \in [1 .. n -> 1 .. n] /\ tensor.strides \in [1 .. n -> Nat]
  BY DEF Wanting, Dim
<1>2. CASE UNCHANGED layoutVars
  BY <1>2 DEF layoutVars
<1>3. CASE DimOrderToStride
  <2>1. tensor' = [tensor EXCEPT !.strides = dim_order_to_stride_nocheck(s, tensor.order)]
    BY <1>3 DEF DimOrderToStride
  <2>2. tensor' = make_with_dimorder(s, tensor.data, tensor.order)
    BY <1>1, <2>1 DEF make_with_dimorder
  <2> QED
    BY <1>1, <2>2, LaidOrWanting
<1>4. CASE StrideToDimOrder
  <2> DEFINE o == stride_to_dim_order(tensor.strides)
  <2>1. tensor' = [tensor EXCEPT !.order = o]
    BY <1>4 DEF StrideToDimOrder
  <2>2. o \in [1 .. n -> 1 .. n]
    BY <1>1, SortedOrder DEF Permutes
  <2> HIDE DEF o
  <2>3. /\ tensor' = [sizes |-> s, order |-> o, strides |-> tensor.strides, data |-> tensor.data]
        /\ tensor'.sizes = s /\ tensor'.order = o /\ tensor'.strides = tensor.strides
        /\ tensor'.data = tensor.data
    BY <1>1, <2>1
  <2>4. Dim(tensor') = n
    BY <2>3 DEF Dim
  <2>5. ~AllStrided(tensor')
    BY <2>3, <2>4 DEF Wanting, AllStrided
  <2> QED
    BY <1>1, <2>2, <2>3, <2>4, <2>5 DEF Wanting
<1>5. CASE channels_last_like
  <2>1. PICK moved : Len(s) = 4 /\ tensor' = make_with_dimorder(s, moved, channels_last_dim_order(4))
    BY <1>5 DEF channels_last_like
  <2> QED
    BY <1>1, <2>1, ChannelsLastPermutes, LaidByOrder
<1>6. ASSUME NEW requested \in Shapes, View(requested)
      PROVE  Laid(tensor') \/ Wanting(tensor')
  <2> DEFINE sizes == IF requested = <<>> THEN s ELSE requested
             order == IF Len(sizes) = Len(s) THEN tensor.order ELSE [i \in Dims(sizes) |-> i]
  <2>1. tensor' = make_with_dimorder(sizes, tensor.data, order)
    BY <1>6 DEF View
  <2>2. sizes \in Seq(Nat) /\ Len(sizes) \in Nat /\ Dims(sizes) = 1 .. Len(sizes)
    BY <1>1, ShapesAssumption DEF Dims
  <2> HIDE DEF sizes
  <2>3. order \in [1 .. Len(sizes) -> 1 .. Len(sizes)]
    BY <1>1, <2>2
  <2> QED
    BY <2>1, <2>2, <2>3, LaidOrWanting
<1> QED
  BY <1>2, <1>3, <1>4, <1>5, <1>6 DEF LayoutNext

\* The layout invariant.
LEMMA AlwaysLaid == LayoutSpec => []LayoutLaid
<1>1. LayoutInit => LayoutLaid
  BY LayoutInitLaid
<1>2. LayoutLaid /\ [LayoutNext]_layoutVars => LayoutLaid'
  BY LaidNext, WantingNext DEF LayoutLaid
<1> QED
  BY <1>1, <1>2, PTL DEF LayoutSpec

\* With a stride for each dimension a tensor is laid out.
LEMMA StridedIsLaid == LayoutLaid /\ AllStrided(tensor) => Laid(tensor)
  BY DEF LayoutLaid, Wanting

\* Whatever strides and whatever dimension order the factory accepted and
\* whatever conversions and views followed: if each dimension has a stride, no
\* two elements share an offset, none lies outside the storage, and no offset is
\* left unused.
THEOREM LayoutsBijective == LayoutSpec => []LayoutBijective
<1>1. LayoutLaid => LayoutBijective
  BY StridedIsLaid, PackedBijective DEF LayoutBijective, Laid
<1> QED
  BY <1>1, AlwaysLaid, PTL

\* The coordinates of a tensor whose sizes are sizes.
LEMMA CoordinatesOf ==
  ASSUME NEW t, t.sizes \in Seq(Nat), NEW c \in Coordinates(t.sizes)
  PROVE  CoordinateOf(t, c)
<1> DEFINE n == Dim(t)
           s == t.sizes
<1>1. n = Len(s) /\ n \in Nat /\ c \in [1 .. n -> Nat] /\ \A d \in 1 .. n : c[d] < s[d]
  BY CoordinatesAre DEF Dim
<1>2. \A d \in 1 .. n : s[d] \in Nat \ {0}
  <2> TAKE d \in 1 .. n
  <2>1. c[d] \in Nat /\ s[d] \in Nat /\ c[d] < s[d]
    BY <1>1
  <2> QED
    BY <2>1
<1>3. s \in Seq(Nat \ {0})
  BY <1>1, <1>2
<1> QED
  BY <1>1, <1>3 DEF CoordinateOf

\* The strides are natural numbers, one for each dimension.
LEMMA LaidStrides ==
  ASSUME NEW t, Laid(t)
  PROVE  /\ t.sizes \in Seq(Nat) /\ Dim(t) \in Nat /\ Dim(t) = Len(t.sizes) /\ Len(t.order) = Dim(t)
         /\ t.strides \in [1 .. Dim(t) -> Nat]
         /\ dim_order_to_stride_nocheck(t.sizes, t.order) \in [1 .. Dim(t) -> Nat]
<1>1. t.sizes \in Seq(Nat) /\ Dim(t) = Len(t.sizes) /\ Dim(t) \in Nat
  BY DEF Laid, Packed, Dim
<1>2. PICK p : Permutes(p, Dim(t)) /\ t.strides = dim_order_to_stride_nocheck(t.sizes, p)
  BY DEF Laid, Packed
<1>3. Len(p) = Dim(t)
  BY <1>1, <1>2 DEF Permutes
<1>4. Permutes(t.order, Dim(t))
  BY DEF Laid
<1>5. Len(t.order) = Dim(t)
  BY <1>1, <1>4 DEF Permutes
<1> QED
  BY <1>1, <1>2, <1>3, <1>4, <1>5, StridesOfOrder

\* Strides that differ only where there is one element give the same terms.
LEMMA SameTerms ==
  ASSUME NEW t, NEW c, CoordinateOf(t, c), NEW f, NEW g,
         \A d \in 1 .. Dim(t) : f[d] \in Nat /\ g[d] \in Nat /\ (t.sizes[d] > 1 => f[d] = g[d])
  PROVE  [d \in 1 .. Dim(t) |-> c[d] * f[d]] = [d \in 1 .. Dim(t) |-> c[d] * g[d]]
<1>1. \A d \in 1 .. Dim(t) : c[d] * f[d] = c[d] * g[d]
  <2> TAKE d \in 1 .. Dim(t)
  <2>1. c[d] \in Nat /\ t.sizes[d] \in Nat \ {0} /\ c[d] < t.sizes[d] /\ f[d] \in Nat /\ g[d] \in Nat
    BY DEF CoordinateOf, Dim
  <2>2. t.sizes[d] > 1 \/ c[d] = 0
    BY <2>1
  <2>3. CASE c[d] = 0
    BY <2>1, <2>3
  <2> QED
    BY <2>2, <2>3
<1> QED
  BY <1>1

\* Where strides are aligned with their order they may as well be the order's.
LEMMA AlignedOffset ==
  ASSUME NEW t, Laid(t), NEW c, CoordinateOf(t, c)
  PROVE  Offset(t, c) = calculate_linear_index(c, dim_order_to_stride_nocheck(t.sizes, t.order))
<1> DEFINE f == t.strides
           g == dim_order_to_stride_nocheck(t.sizes, t.order)
<1>1. f \in [1 .. Dim(t) -> Nat] /\ g \in [1 .. Dim(t) -> Nat] /\ Dim(t) \in Nat
  BY LaidStrides
<1>2. \A d \in 1 .. Dim(t) : t.sizes[d] > 1 => f[d] = g[d]
  BY DEF Laid, Aligned, CoordinateOf
<1> HIDE DEF f, g
<1>3. Dims(f) = 1 .. Dim(t) /\ Dims(g) = 1 .. Dim(t)
  BY <1>1 DEF Dims
<1>4. [d \in 1 .. Dim(t) |-> c[d] * f[d]] = [d \in 1 .. Dim(t) |-> c[d] * g[d]]
  BY <1>1, <1>2, SameTerms
<1> QED
  BY <1>3, <1>4 DEF Offset, calculate_linear_index, f, g

\* The strides of the default order.
LEMMA IdentityStrides ==
  ASSUME NEW s \in Seq(Nat \ {0}), NEW o, Permutes(o, Len(s)), \A i \in 1 .. Len(s) : o[i] = i
  PROVE  /\ dim_order_to_stride_nocheck(s, o) = [d \in 1 .. Len(s) |-> After(s, d)]
         /\ Sorted(s, o) = s
<1> DEFINE n == Len(s)
           g == dim_order_to_stride_nocheck(s, o)
<1>1. s \in Seq(Nat) /\ n \in Nat /\ \A d \in 1 .. n : s[d] \in Nat \ {0}
  OBVIOUS
<1>2. Len(o) = n
  BY <1>1 DEF Permutes
<1>3. Sorted(s, o) = s
  <2>1. \A i \in 1 .. n : OneIfZero(s[o[i]]) = s[i]
    BY <1>1 DEF OneIfZero
  <2>2. Sorted(s, o) = [i \in 1 .. n |-> s[i]]
    BY <2>1 DEF Sorted
  <2> QED
    BY <1>1, <2>2
<1>4. g \in [1 .. n -> Nat] /\ \A i \in 1 .. n : g[o[i]] = After(s, i)
  BY <1>1, <1>2, <1>3, StridesOfOrder
<1> HIDE DEF g, n
<1>5. \A i \in 1 .. n : g[i] = After(s, i)
  BY <1>4 DEF n
<1>6. g = [d \in 1 .. n |-> g[d]]
  BY <1>4
<1>7. g = [d \in 1 .. n |-> After(s, d)]
  BY <1>5, <1>6
<1> QED
  BY <1>3, <1>7 DEF g, n

\* In every state the accessors reach the element calculate_linear_index names,
\* and under the default order with a stride for each dimension, or with
\* contiguous strides, so does the index computed from the sizes, whose inverse
\* gives the coordinate back.
THEOREM IndexingAlwaysAgrees == LayoutSpec => []IndexingAgrees
<1>1. LayoutTypes /\ LayoutLaid => IndexingAgrees
  <2> SUFFICES ASSUME LayoutTypes, LayoutLaid
               PROVE  IndexingAgrees
    OBVIOUS
  <2> DEFINE t == tensor
             n == Dim(t)
             s == t.sizes
  <2>1. Ranked(t) /\ (AllStrided(t) => Laid(t) /\ Permutes(t.order, n))
    BY StridedIsLaid DEF LayoutTypes, Laid
  <2>2. /\ s \in Seq(Nat) /\ n \in Nat /\ n = Len(s) /\ Len(t.order) = n
        /\ t.strides \in [1 .. n -> Nat]
    <3>1. CASE Laid(t)
      BY <3>1, LaidStrides
    <3>2. CASE Wanting(t)
      BY <3>2 DEF Wanting, Dim
    <3> QED
      BY <3>1, <3>2 DEF LayoutLaid
  <2>3. Len(t.strides) = n /\ Dims(t.strides) = 1 .. n /\ Dims(t.order) = 1 .. n
    BY <2>2 DEF Dims
  <2> HIDE DEF t, n
  <2>4. ASSUME NEW c \in Coordinates(s)
        PROVE  /\ AccessorOffset(c, t.strides) = Offset(t, c)
               /\ \/ is_contiguous_dim_order(t.order) /\ AllStrided(t)
                  \/ tensor_is_contiguous(t)
                  => SizesIndex(t, c)
    <3>1. CoordinateOf(t, c)
      BY <2>2, CoordinatesOf
    <3>2. AccessorOffset(c, t.strides) = Offset(t, c)
      <4>1. \A d \in 1 .. n : t.strides[d] \in Nat /\ c[d] \in Nat
        BY <2>2, <3>1 DEF CoordinateOf, n
      <4> QED
        BY <2>2, <2>3, <4>1, AccessorIsLinear DEF Offset
    <3>3. CASE tensor_is_contiguous(t)
      <4>1. \A d \in 1 .. n : t.strides[d] = After(s, d)
        BY <2>1, <3>3, ContiguousStrides DEF n
      <4>2. [d \in 1 .. n |-> c[d] * t.strides[d]] = [d \in 1 .. n |-> c[d] * After(s, d)]
        BY <4>1
      <4>3. Offset(t, c) = Total([d \in 1 .. n |-> c[d] * After(s, d)])
        BY <2>3, <4>2 DEF Offset, calculate_linear_index
      <4> QED
        BY <2>1, <3>1, <3>2, <4>3, IndexedBySizes DEF n
    <3>4. CASE is_contiguous_dim_order(t.order) /\ AllStrided(t)
      <4> DEFINE g == dim_order_to_stride_nocheck(s, t.order)
                 w == [d \in 1 .. n |-> After(s, d)]
      <4>1. \A i \in 1 .. n : t.order[i] = i
        BY <2>3, <3>4 DEF is_contiguous_dim_order
      <4>2. g = w
        BY <2>1, <2>2, <3>1, <3>4, <4>1, IdentityStrides DEF CoordinateOf
      <4>3. Offset(t, c) = calculate_linear_index(c, g)
        BY <2>1, <3>1, <3>4, AlignedOffset
      <4>4. Dims(w) = 1 .. n
        BY <2>2 DEF Dims
      <4>5. [d \in 1 .. n |-> c[d] * w[d]] = [d \in 1 .. n |-> c[d] * After(s, d)]
        OBVIOUS
      <4> HIDE DEF g, w
      <4>6. Offset(t, c) = Total([d \in 1 .. n |-> c[d] * After(s, d)])
        BY <4>2, <4>3, <4>4, <4>5 DEF calculate_linear_index
      <4> QED
        BY <2>1, <3>1, <3>2, <4>6, IndexedBySizes DEF n
    <3> QED
      BY <3>2, <3>3, <3>4
  <2>5. \A d \in 1 .. Dim(t) :
           getLeadingDims(t, d - 1) * t.sizes[d] * getTrailingDims(t, d - 1) = Numel(t)
    BY <2>2, LeadingTimesTrailing
  <2> QED
    BY <2>4, <2>5 DEF IndexingAgrees, t
<1>2. LayoutSpec => []LayoutTypes
  BY LayoutInitTypes, LayoutNextTypes, PTL DEF LayoutSpec
<1> QED
  BY <1>1, <1>2, AlwaysLaid, PTL

\* No two coordinates have one offset.
LEMMA OrderInjective ==
  ASSUME NEW t, t.sizes \in Seq(Nat \ {0}), NEW o, Permutes(o, Dim(t)),
         t.strides = dim_order_to_stride_nocheck(t.sizes, o),
         NEW b, CoordinateOf(t, b), NEW c, CoordinateOf(t, c), Offset(t, b) = Offset(t, c)
  PROVE  b = c
<1> DEFINE n == Dim(t)
<1>1. b \in [1 .. n -> Nat] /\ c \in [1 .. n -> Nat]
      /\ \A d \in 1 .. n : b[d] < t.sizes[d] /\ c[d] < t.sizes[d]
  BY DEF CoordinateOf
<1>2. InOrder(b, o, n) = InOrder(c, o, n)
  <2>1. indexToCoordinate(Shape(Sorted(t.sizes, o)), Offset(t, b)) = InOrder(b, o, n)
    BY <1>1, PackedOffset
  <2>2. indexToCoordinate(Shape(Sorted(t.sizes, o)), Offset(t, c)) = InOrder(c, o, n)
    BY <1>1, PackedOffset
  <2> QED
    BY <2>1, <2>2
<1> HIDE DEF n
<1>3. \A d \in 1 .. n : b[d] = c[d]
  <2> TAKE d \in 1 .. n
  <2>1. PICK i \in 1 .. n : o[i] = d
    BY DEF Permutes, n
  <2>2. InOrder(b, o, n)[i] = b[o[i]] /\ InOrder(c, o, n)[i] = c[o[i]]
    BY DEF InOrder
  <2> QED
    BY <1>2, <2>1, <2>2
<1>4. b = [d \in 1 .. n |-> b[d]] /\ c = [d \in 1 .. n |-> c[d]]
  BY <1>1
<1>5. [d \in 1 .. n |-> b[d]] = [d \in 1 .. n |-> c[d]]
  BY <1>3
<1> QED
  BY <1>4, <1>5

\* The index of a coordinate of four dimensions.
Index4(u, a, b, c, d) == ((a * u[2] + b) * u[3] + c) * u[4] + d

\* ... is what the nested loops of channels_last_like compute.
LEMMA FourDimensions ==
  ASSUME NEW v, NEW e, CoordinateOf(v, e), Dim(v) = 4
  PROVE  Total([i \in 1 .. 4 |-> e[i] * After(v.sizes, i)]) = Index4(v.sizes, e[1], e[2], e[3], e[4])
<1>1. PICK q : Horner(v, e, q)
  BY HornerExists
<1>2. Total([i \in 1 .. 4 |-> e[i] * After(v.sizes, i)]) = q[4]
  BY <1>1, IndexIsHorner
<1>3. q[0] = 0 /\ \A d \in 1 .. 4 : q[d] = q[d - 1] * v.sizes[d] + e[d]
  BY <1>1 DEF Horner
<1>4. e[1] \in Nat /\ v.sizes[1] \in Nat
  BY DEF CoordinateOf, Dim
<1>5. q[1] = e[1]
  BY <1>3, <1>4
<1>6. q[2] = q[1] * v.sizes[2] + e[2] /\ q[3] = q[2] * v.sizes[3] + e[3] /\ q[4] = q[3] * v.sizes[4] + e[4]
  <2>1. q[2] = q[2 - 1] * v.sizes[2] + e[2]
    BY <1>3, 2 \in 1 .. 4
  <2>2. q[3] = q[3 - 1] * v.sizes[3] + e[3]
    BY <1>3, 3 \in 1 .. 4
  <2>3. q[4] = q[4 - 1] * v.sizes[4] + e[4]
    BY <1>3, 4 \in 1 .. 4
  <2>4. 2 - 1 = 1 /\ 3 - 1 = 2 /\ 4 - 1 = 3
    OBVIOUS
  <2> QED
    BY <2>1, <2>2, <2>3, <2>4
<1> QED
  BY <1>2, <1>5, <1>6 DEF Index4

\* The element at c is where it was, or where it is copied to.
Kept(t, r) == \A c \in Coordinates(t.sizes) : r.data[Offset(r, c)] = t.data[Offset(t, c)]

\* Strides derived anew from the order reach every element where it was.
LEMMA DerivedKeeps ==
  ASSUME NEW t, Laid(t), NEW r, r.sizes = t.sizes, r.data = t.data,
         r.strides = dim_order_to_stride_nocheck(t.sizes, t.order)
  PROVE  Kept(t, r)
<1> SUFFICES ASSUME NEW c \in Coordinates(t.sizes)
             PROVE  Offset(r, c) = Offset(t, c)
  BY DEF Kept
<1>1. CoordinateOf(t, c)
  BY LaidStrides, CoordinatesOf
<1> QED
  BY <1>1, AlignedOffset DEF Offset

\* channels_last_like copies each element to where its coordinates now point.
LEMMA MoveKeeps ==
  ASSUME Laid(tensor), channels_last_like
  PROVE  Kept(tensor, tensor')
<1> DEFINE t == tensor
           s == t.sizes
           o == channels_last_dim_order(4)
           Old(c) == ((c[1] * s[2] + c[2]) * s[3] + c[3]) * s[4] + c[4]
           New(c) == ((c[1] * s[3] + c[3]) * s[4] + c[4]) * s[2] + c[2]
           C == Coordinates(s)
           at(i) == CHOOSE c \in C : New(c) = i
           moved == [i \in 0 .. sizes_to_numel(s) - 1 |-> t.data[Old(at(i))]]
           r == make_with_dimorder(s, moved, o)
<1>1. /\ Len(s) = 4 /\ is_contiguous_dim_order(t.order) /\ tensor' = r
  BY DEF channels_last_like
<1>2. /\ s \in Seq(Nat) /\ Dim(t) = 4 /\ Len(t.order) = 4 /\ Permutes(t.order, 4)
  BY <1>1, LaidStrides DEF Laid
<1> HIDE DEF moved
<1>3. r.sizes = s /\ r.strides = dim_order_to_stride_nocheck(s, o) /\ r.data = moved
  BY DEF make_with_dimorder
<1>4. Permutes(o, 4)
  BY ChannelsLastPermutes
<1>5. o[1] = 1 /\ o[2] = 3 /\ o[3] = 4 /\ o[4] = 2
  BY DEF channels_last_dim_order
<1> HIDE DEF r, o, t, New, Old
<1>6. Dim(r) = 4
  BY <1>1, <1>3 DEF Dim
<1> SUFFICES ASSUME NEW c \in C
             PROVE  r.data[Offset(r, c)] = t.data[Offset(t, c)]
  BY <1>1 DEF Kept, t
<1>7. \A b \in C : CoordinateOf(t, b) /\ CoordinateOf(r, b)
  <2> TAKE b \in C
  <2>1. CoordinateOf(t, b)
    BY <1>2, CoordinatesOf
  <2> QED
    BY <1>2, <1>3, <1>6, <2>1 DEF CoordinateOf
<1> HIDE DEF C
<1>8. s \in Seq(Nat \ {0})
  BY <1>7 DEF CoordinateOf
<1> DEFINE u == Sorted(s, o)
           v == Shape(u)
<1>9. \A i \in 1 .. 4 : o[i] \in 1 .. 4 /\ u[i] = s[o[i]]
  <2> TAKE i \in 1 .. 4
  <2>1. o[i] \in 1 .. 4
    BY <1>4 DEF Permutes
  <2>2. s[o[i]] # 0
    BY <1>1, <1>8, <2>1
  <2>3. u[i] = OneIfZero(s[o[i]])
    BY <1>1 DEF Sorted
  <2> QED
    BY <2>1, <2>2, <2>3 DEF OneIfZero
<1>10. u \in Seq(Nat \ {0}) /\ Len(u) = 4 /\ v.sizes = u /\ Dim(v) = 4
  BY <1>1, <1>2, <1>4, SortedType DEF Shape, Dim
<1>11. Product(u) = sizes_to_numel(s)
  <2>1. u = [i \in 1 .. 4 |-> s[o[i]]]
    <3>1. u = [i \in 1 .. Len(s) |-> OneIfZero(s[o[i]])]
      BY DEF u, Sorted
    <3>2. \A i \in 1 .. 4 : OneIfZero(s[o[i]]) = s[o[i]]
      <4>1. \A i \in 1 .. 4 : s[o[i]] # 0
        BY <1>1, <1>8, <1>9
      <4> QED
        BY <4>1 DEF OneIfZero
    <3> QED
      BY <1>1, <3>1, <3>2
  <2>2. s \in [1 .. 4 -> Nat]
    <3> HIDE DEF s
    <3>1. s \in [1 .. Len(s) -> Nat]
      BY <1>2
    <3> QED
      BY <1>1, <3>1
  <2> HIDE DEF u
  <2> QED
    BY <1>4, <2>1, <2>2, ProductPermuted DEF sizes_to_numel
<1> HIDE DEF u, v
<1>12. \A b \in C : Offset(r, b) = New(b) /\ Offset(r, b) \in 0 .. sizes_to_numel(s) - 1
  <2> TAKE b \in C
  <2> DEFINE e == InOrder(b, o, 4)
  <2>1. b \in [1 .. 4 -> Nat] /\ \A d \in 1 .. 4 : b[d] < s[d]
    BY <1>3, <1>6, <1>7 DEF CoordinateOf
  <2>2. e = [i \in 1 .. 4 |-> b[o[i]]] /\ \A i \in 1 .. 4 : e[i] = b[o[i]]
    BY DEF InOrder
  <2>3. CoordinateOf(v, e)
    <3>1. \A i \in 1 .. 4 : b[o[i]] \in Nat /\ b[o[i]] < u[i]
      BY <1>9, <2>1
    <3>2. e \in [1 .. 4 -> Nat]
      BY <2>2, <3>1
    <3> HIDE DEF e
    <3> QED
      BY <1>10, <2>2, <3>1, <3>2 DEF CoordinateOf
  <2>4. Offset(r, b) = Total([i \in 1 .. 4 |-> e[i] * After(u, i)])
    BY <1>2, <1>3, <1>4, <1>6, <2>1, OffsetInOrder DEF u
  <2> HIDE DEF e
  <2>5. Offset(r, b) = Index4(u, e[1], e[2], e[3], e[4])
    BY <1>10, <2>3, <2>4, FourDimensions
  <2>6. /\ u[2] = s[3] /\ u[3] = s[4] /\ u[4] = s[2]
        /\ e[1] = b[1] /\ e[2] = b[3] /\ e[3] = b[4] /\ e[4] = b[2]
    BY <1>5, <1>9, <2>2
  <2>7. Offset(r, b) = New(b)
    BY <2>5, <2>6 DEF Index4, New
  <2>8. Offset(r, b) \in 0 .. Product(u) - 1
    BY <1>3, <1>4, <1>6, <1>8, <2>1, PackedOffset DEF u
  <2> QED
    BY <1>11, <2>7, <2>8
<1>13. at(New(c)) = c
  <2>1. at(New(c)) \in C /\ New(at(New(c))) = New(c)
    OBVIOUS
  <2> HIDE DEF at
  <2> DEFINE b == at(New(c))
  <2>2. b \in C /\ Offset(r, b) = Offset(r, c)
    BY <1>12, <2>1
  <2>3. CoordinateOf(r, b) /\ CoordinateOf(r, c)
    BY <1>7, <2>2
  <2> HIDE DEF b
  <2>4. b = c
    BY <1>3, <1>4, <1>6, <1>8, <2>2, <2>3, OrderInjective
  <2> QED
    BY <2>4 DEF b
<1>14. r.data[Offset(r, c)] = t.data[Old(c)]
  <2>1. moved[New(c)] = t.data[Old(at(New(c)))]
    <3>1. New(c) \in 0 .. sizes_to_numel(s) - 1
      BY <1>12
    <3> HIDE DEF at
    <3> QED
      BY <3>1 DEF moved
  <2> HIDE DEF at
  <2> QED
    BY <1>3, <1>12, <1>13, <2>1
<1>15. Offset(t, c) = Old(c)
  <2> DEFINE g == dim_order_to_stride_nocheck(s, t.order)
             w == [d \in 1 .. 4 |-> After(s, d)]
  <2>1. \A i \in 1 .. 4 : t.order[i] = i
    BY <1>1, <1>2 DEF is_contiguous_dim_order, Dims, t
  <2>2. g = w
    BY <1>1, <1>2, <1>8, <2>1, IdentityStrides
  <2>3. Offset(t, c) = calculate_linear_index(c, g)
    BY <1>7, AlignedOffset DEF t
  <2>4. Dims(w) = 1 .. 4
    BY DEF Dims
  <2>5. [d \in 1 .. 4 |-> c[d] * w[d]] = [d \in 1 .. 4 |-> c[d] * After(s, d)]
    OBVIOUS
  <2> HIDE DEF g, w
  <2>6. Offset(t, c) = Total([d \in 1 .. 4 |-> c[d] * After(s, d)])
    BY <2>2, <2>3, <2>4, <2>5 DEF calculate_linear_index
  <2>7. Offset(t, c) = Index4(s, c[1], c[2], c[3], c[4])
    BY <1>2, <1>7, <2>6, FourDimensions
  <2> QED
    BY <2>7 DEF Index4, Old
<1> QED
  BY <1>14, <1>15

\* Conversions and views that leave the sizes leave every element at its
\* coordinates, the move to channels-last order included.
THEOREM KeepsElements == LayoutSpec => ElementsKept
<1>1. LayoutLaid /\ [LayoutNext]_layoutVars
        => [AllStrided(tensor) /\ tensor'.sizes = tensor.sizes =>
              \A c \in Coordinates(tensor.sizes) :
                 tensor'.data[Offset(tensor', c)] = tensor.data[Offset(tensor, c)]]_layoutVars
  <2> SUFFICES ASSUME LayoutLaid, [LayoutNext]_layoutVars, AllStrided(tensor),
                      tensor'.sizes = tensor.sizes
               PROVE  Kept(tensor, tensor') \/ UNCHANGED layoutVars
    BY DEF Kept
  <2> DEFINE s == tensor.sizes
  <2>1. Laid(tensor) /\ tensor = [sizes |-> s, order |-> tensor.order, strides |-> tensor.strides,
                                  data |-> tensor.data]
    BY StridedIsLaid DEF Laid
  <2>2. CASE DimOrderToStride
    <3>1. tensor' = [tensor EXCEPT !.strides = dim_order_to_stride_nocheck(s, tensor.order)]
      BY <2>2 DEF DimOrderToStride
    <3>2. /\ tensor'.sizes = s /\ tensor'.data = tensor.data
          /\ tensor'.strides = dim_order_to_stride_nocheck(s, tensor.order)
      BY <2>1, <3>1
    <3> QED
      BY <2>1, <3>2, DerivedKeeps
  <2>3. CASE StrideToDimOrder
    <3>1. tensor' = [tensor EXCEPT !.order = stride_to_dim_order(tensor.strides)]
      BY <2>3 DEF StrideToDimOrder
    <3>2. tensor'.data = tensor.data /\ tensor'.strides = tensor.strides
      BY <2>1, <3>1
    <3> QED
      BY <3>2 DEF Kept, Offset
  <2>4. CASE channels_last_like
    BY <2>1, <2>4, MoveKeeps
  <2>5. ASSUME NEW requested \in Shapes, View(requested)
        PROVE  Kept(tensor, tensor')
    <3> DEFINE sizes == IF requested = <<>> THEN s ELSE requested
               order == IF Len(sizes) = Len(s) THEN tensor.order ELSE [i \in Dims(sizes) |-> i]
    <3>1. tensor' = make_with_dimorder(sizes, tensor.data, order)
      BY <2>5 DEF View
    <3>2. /\ tensor'.sizes = sizes /\ tensor'.data = tensor.data
          /\ tensor'.strides = dim_order_to_stride_nocheck(sizes, order)
      BY <3>1 DEF make_with_dimorder
    <3>3. sizes = s
      BY <3>2
    <3>4. order = tensor.order
      BY <3>3
    <3> QED
      BY <2>1, <3>2, <3>3, <3>4, DerivedKeeps
  <2> QED
    BY <2>2, <2>3, <2>4, <2>5 DEF LayoutNext
<1> QED
  BY <1>1, AlwaysLaid, PTL DEF LayoutSpec, ElementsKept
=============================================================================
