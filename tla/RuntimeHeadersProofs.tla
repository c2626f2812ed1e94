-------------------------- MODULE RuntimeHeadersProofs --------------------------
(***************************************************************************)
(* What the parts of the runtime that are headers promise, for every value *)
(* of their constants: types promote to their join, events bear the ids of *)
(* the instruction they happened in and every tracer entry is given back   *)
(* once, loaded data is freed once and a merged map finds every key.       *)
(***************************************************************************)
EXTENDS ScalarTypes, EventTracing, Ownership, SumsProofs, SequenceTheorems,
        FiniteSetTheorems, TLAPS

-----------------------------------------------------------------------------
(* ScalarTypes: the table of promotions as an order.                       *)

\* The types that promote, by their index in the table, and what Kind and Wide say
\* of each; for a complex type, of its component.
Index == 1 .. 13
Type(i) == index2dtype[i]
Table == promoteTypesLookup
KindOf == <<1, 1, 1, 1, 1, 2, 2, 2, 3, 3, 3, 0, 2>>
Extent == <<8, 7, 15, 31, 63, 5, 8, 11, 5, 8, 11, 0, 8>>
Digits == <<0, 1, 1, 1, 1, 10, 23, 52, 10, 23, 52, 0, 7>>
\* j holds the values of i, as Join compares types.
Below(i, j) ==
    /\ KindOf[i] <= KindOf[j]
    /\ KindOf[i] = KindOf[j] \/ KindOf[i] = 2 =>
          Extent[i] <= Extent[j] /\ Digits[i] <= Digits[j]
WidenedIndex(i) == IF i \in {6, 13} THEN 7 ELSE i

\* index2dtype and dtype2index are inverses of each other ...
LEMMA TypeNumbers ==
    \A i \in Index : /\ Type(i) \in Promotable
                     /\ dtype2index(Type(i)) = i
<1>1. \A i, j \in Index : Type(i) = Type(j) => i = j
  BY SMTT(60) DEF Index, Type, index2dtype
<1> QED
  BY <1>1 DEF Index, Type, Promotable, dtype2index

LEMMA TypeNumbered ==
    \A t \in Promotable : dtype2index(t) \in Index /\ Type(dtype2index(t)) = t
  BY TypeNumbers DEF Promotable, Index, Type

\* ... and the lists above are Kind and Wide, entry by entry.
LEMMA TypeKinds == \A i \in Index : Kind(Type(i)) = KindOf[i] /\ ~ExactOnly(Type(i))
  BY SMTT(60) DEF Index, Type, index2dtype, Kind, KindOf, isIntegralType, isFloatingType,
     ExactOnly, isQIntType, isBitsType, isFloat8Type, isBarebonesUnsignedType

LEMMA TypeWidths ==
    \A i \in Index : 
       /\ KindOf[i] \in {1, 2} => toRealValueType(Type(i)) = Type(i)
       /\ KindOf[i] # 0 => Wide(toRealValueType(Type(i))) = <<Extent[i], Digits[i]>>
  BY SMTT(60) DEF Index, Type, index2dtype, KindOf, toRealValueType, Wide, Extent, Digits

\* The table's entry for two types is their least upper bound: below exactly what
\* both are below, so of the larger of their kinds.
LEMMA TableBounds ==
    /\ \A i, j \in Index : Table[i][j] \in Index
    /\ \A i, j, d \in Index : Below(Table[i][j], d) <=> Below(i, d) /\ Below(j, d)
<1>1. \A i, j \in Index : Table[i][j] \in Index
  BY SMTT(60) DEF Index, Table, promoteTypesLookup
<1>2. \A i, j, d \in Index : Below(Table[i][j], d) <=> Below(i, d) /\ Below(j, d)
  BY SMTT(60) DEF Index, Table, promoteTypesLookup, Below, KindOf, Extent, Digits
<1> QED  BY <1>1, <1>2

LEMMA TableKinds ==
    \A i, j \in Index : KindOf[Table[i][j]] = IF KindOf[i] < KindOf[j] THEN KindOf[j] ELSE KindOf[i]
  BY SMTT(60) DEF Index, Table, promoteTypesLookup, KindOf

\* Only complex half promotes to complex half, only bfloat16 to bfloat16.
LEMMA TableIrreducible ==
    /\ \A i, j \in Index : Table[i][j] = 9 => i = 9 \/ j = 9
    /\ \A i, j \in Index : Table[i][j] = 13 => i = 13 \/ j = 13
<1>1. \A i, j \in Index : Table[i][j] = 9 => i = 9 \/ j = 9
  BY SMTT(60) DEF Index, Table, promoteTypesLookup
<1>2. \A i, j \in Index : Table[i][j] = 13 => i = 13 \/ j = 13
  BY SMTT(60) DEF Index, Table, promoteTypesLookup
<1> QED  BY <1>1, <1>2

\* Widening before promoting or only after it makes no difference, complex half aside.
LEMMA TableWidened ==
    \A i, j \in Index : i # 9 /\ j # 9 =>
       WidenedIndex(Table[WidenedIndex(i)][j]) = WidenedIndex(Table[i][j])
  BY SMTT(60) DEF Index, Table, promoteTypesLookup, WidenedIndex

\* Below is reflexive and, within a kind, antisymmetric.
LEMMA BelowIsOrder ==
    /\ \A i \in Index : Below(i, i)
    /\ \A i, j \in Index : KindOf[i] = KindOf[j] /\ Below(i, j) /\ Below(j, i) => i = j
<1>1. \A i \in Index : Below(i, i)
  BY SMTT(60) DEF Index, Below, KindOf, Extent, Digits
<1>2. \A i, j \in Index : KindOf[i] = KindOf[j] /\ Below(i, j) /\ Below(j, i) => i = j
  BY SMTT(60) DEF Index, Below, KindOf, Extent, Digits
<1> QED  BY <1>1, <1>2

\* Widening stays within the promotable types and their kinds.
LEMMA WidenedKinds ==
    \A i \in Index : /\ WidenedIndex(i) \in Index
                     /\ KindOf[WidenedIndex(i)] = KindOf[i]
                     /\ Widened(Type(i)) = Type(WidenedIndex(i))
  BY SMTT(60) DEF Index, Type, index2dtype, KindOf, WidenedIndex, Widened

-----------------------------------------------------------------------------
(* What Join chooses.                                                      *)

\* j is the least upper bound of the types.
Bound(types, j) ==
    \A d \in Index : Below(j, d) <=> \A t \in types : Below(dtype2index(t), d)

\* The least candidate, where there is one, is the one that CHOOSE gives.
LEMMA LeastIs ==
  ASSUME NEW candidates, NEW types, NEW m \in candidates,
         \A u \in types : Holds(m, u),
         \A d \in candidates : (\A u \in types : Holds(d, u)) => Holds(d, m),
         \A d \in candidates : Holds(d, m) /\ Holds(m, d) => d = m
  PROVE  LeastHolding(candidates, types) = m
<1> DEFINE fit == {t \in candidates : \A u \in types : Holds(t, u)}
<1>1. m \in fit
  OBVIOUS
<1>2. \A u \in fit : Holds(u, m)
  OBVIOUS
<1>3. ASSUME NEW t \in fit, \A u \in fit : Holds(u, t)
      PROVE  t = m
  <2>1. t \in candidates /\ Holds(t, m)
    BY <1>2, <1>3
  <2>2. Holds(m, t)
    BY <1>1, <1>3
  <2> QED
    BY <2>1, <2>2
<1>4. (CHOOSE t \in fit : \A u \in fit : Holds(u, t)) = m
  <2> HIDE DEF fit
  <2> QED
    BY <1>1, <1>2, <1>3
<1> QED
  BY <1>4 DEF LeastHolding

\* Holds, on the components of numbered types, compares the lists.
LEMMA HoldsIndex ==
  \A i, j \in Index : KindOf[i] # 0 /\ KindOf[j] # 0 =>
     (Holds(toRealValueType(Type(i)), toRealValueType(Type(j))) <=> Extent[j] <= Extent[i] /\ Digits[j] <= Digits[i])
  BY TypeWidths DEF Holds

\* The candidates of each kind are the numbered types of that kind.
LEMMA RealClasses ==
  /\ \A t \in ET_FORALL_INT_TYPES : \E i \in Index : t = Type(i) /\ KindOf[i] = 1
  /\ \A t \in ET_FORALL_FLOAT_TYPES \cup {"Half", "BFloat16"} : \E i \in Index : t = Type(i) /\ KindOf[i] = 2
  /\ \A i \in Index : KindOf[i] = 1 => Type(i) \in ET_FORALL_INT_TYPES
  /\ \A i \in Index : KindOf[i] = 2 => Type(i) \in ET_FORALL_FLOAT_TYPES \cup {"Half", "BFloat16"}
  /\ \A t \in {"Half", "Float", "Double"} : \E i \in Index : KindOf[i] = 3 /\ t = toRealValueType(Type(i))
  /\ \A i \in Index : KindOf[i] = 3 => toRealValueType(Type(i)) \in {"Half", "Float", "Double"}
                                       /\ toComplexType(toRealValueType(Type(i))) = Type(i)
  /\ \A i \in Index : KindOf[i] = 0 => Type(i) = "Bool"
  /\ \A i \in Index : KindOf[i] \in 0 .. 3
<1>1. \A t \in ET_FORALL_INT_TYPES : \E i \in Index : t = Type(i) /\ KindOf[i] = 1
  <2>1. /\ "Byte" = Type(1) /\ "Char" = Type(2) /\ "Short" = Type(3) /\ "Int" = Type(4) /\ "Long" = Type(5)
    BY DEF Type, index2dtype
  <2>2. KindOf[1] = 1 /\ KindOf[2] = 1 /\ KindOf[3] = 1 /\ KindOf[4] = 1 /\ KindOf[5] = 1
    BY DEF KindOf
  <2>3. {1,2,3,4,5} \subseteq Index
    BY DEF Index
  <2> QED  BY <2>1, <2>2, <2>3 DEF ET_FORALL_INT_TYPES
<1>2. \A t \in ET_FORALL_FLOAT_TYPES \cup {"Half", "BFloat16"} : \E i \in Index : t = Type(i) /\ KindOf[i] = 2
  <2>1. /\ "Half" = Type(6) /\ "Float" = Type(7) /\ "Double" = Type(8) /\ "BFloat16" = Type(13)
    BY DEF Type, index2dtype
  <2>2. KindOf[6] = 2 /\ KindOf[7] = 2 /\ KindOf[8] = 2 /\ KindOf[13] = 2
    BY DEF KindOf
  <2>3. {6,7,8,13} \subseteq Index
    BY DEF Index
  <2> QED  BY <2>1, <2>2, <2>3 DEF ET_FORALL_FLOAT_TYPES
<1>3. \A i \in Index : KindOf[i] = 1 => Type(i) \in ET_FORALL_INT_TYPES
  BY DEF Index, KindOf, Type, index2dtype, ET_FORALL_INT_TYPES
<1>4. \A i \in Index : KindOf[i] = 2 => Type(i) \in ET_FORALL_FLOAT_TYPES \cup {"Half", "BFloat16"}
  BY DEF Index, KindOf, Type, index2dtype, ET_FORALL_FLOAT_TYPES
<1>5. \A t \in {"Half", "Float", "Double"} : \E i \in Index : KindOf[i] = 3 /\ t = toRealValueType(Type(i))
  <2>1. /\ "Half" = toRealValueType(Type(9)) /\ "Float" = toRealValueType(Type(10)) /\ "Double" = toRealValueType(Type(11))
    BY DEF Type, index2dtype, toRealValueType
  <2>2. KindOf[9] = 3 /\ KindOf[10] = 3 /\ KindOf[11] = 3
    BY DEF KindOf
  <2>3. {9,10,11} \subseteq Index
    BY DEF Index
  <2> QED  BY <2>1, <2>2, <2>3
<1>6. \A i \in Index : KindOf[i] = 3 => toRealValueType(Type(i)) \in {"Half", "Float", "Double"}
                                       /\ toComplexType(toRealValueType(Type(i))) = Type(i)
  BY DEF Index, KindOf, Type, index2dtype, toRealValueType, toComplexType
<1>7. \A i \in Index : KindOf[i] = 0 => Type(i) = "Bool"
  BY DEF Index, KindOf, Type, index2dtype
<1>8. \A i \in Index : KindOf[i] \in 0 .. 3
  BY DEF Index, KindOf
<1> QED  BY <1>1, <1>2, <1>3, <1>4, <1>5, <1>6, <1>7, <1>8

Parts(types, from) == {toRealValueType(t) : t \in {u \in types : Kind(u) \in from}}
AtMost(types, k) == \A t \in types : Kind(t) <= k
OfKind(candidates, k) ==
    \A d \in candidates : \E i \in Index : KindOf[i] = k /\ d = toRealValueType(Type(i))

\* Among the candidates of its kind, the bound of the types is the least that
\* holds the components of those types that have any.
LEMMA LeastOfKind ==
  ASSUME NEW types \in SUBSET Promotable, NEW j \in Index, Bound(types, j),
         NEW candidates, NEW k, NEW from,
         <<k, from>> \in {<<1, {1}>>, <<2, {2}>>, <<3, {2, 3}>>},
         KindOf[j] = k, AtMost(types, k),
         OfKind(candidates, k), toRealValueType(Type(j)) \in candidates
  PROVE  LeastHolding(candidates, Parts(types, from)) = toRealValueType(Type(j))
<1> USE DEF AtMost, OfKind, Parts
<1> DEFINE C == {toRealValueType(t) : t \in {u \in types : Kind(u) \in from}}
           m == toRealValueType(Type(j))
<1>0. \A t \in types : dtype2index(t) \in Index /\ Type(dtype2index(t)) = t /\ KindOf[dtype2index(t)] = Kind(t)
  BY TypeNumbered, TypeKinds
<1>1. \A u \in C : Holds(m, u)
  <2> SUFFICES ASSUME NEW t \in types, Kind(t) \in from
               PROVE  Holds(m, toRealValueType(t))
    OBVIOUS
  <2>1. Below(dtype2index(t), j)
    BY BelowIsOrder DEF Bound
  <2>2. KindOf[dtype2index(t)] = k \/ KindOf[dtype2index(t)] = 2
    BY <1>0
  <2>3. Extent[dtype2index(t)] <= Extent[j] /\ Digits[dtype2index(t)] <= Digits[j]
    BY <2>1, <2>2 DEF Below
  <2>4. KindOf[dtype2index(t)] # 0 /\ KindOf[j] # 0
    BY <2>2
  <2> QED
    BY <2>3, <2>4, <1>0, HoldsIndex
<1>2. ASSUME NEW i \in Index, KindOf[i] = k, \A u \in C : Holds(toRealValueType(Type(i)), u)
      PROVE  Below(j, i)
  <2> SUFFICES ASSUME NEW t \in types
               PROVE  Below(dtype2index(t), i)
    BY DEF Bound
  <2>1. KindOf[dtype2index(t)] <= KindOf[i]
    BY <1>0, <1>2
  <2>2. ASSUME KindOf[dtype2index(t)] = KindOf[i] \/ KindOf[dtype2index(t)] = 2
        PROVE  Extent[dtype2index(t)] <= Extent[i] /\ Digits[dtype2index(t)] <= Digits[i]
    <3>1. Kind(t) \in from
      BY <1>0, <1>2, <2>2
    <3>2. Holds(toRealValueType(Type(i)), toRealValueType(t))
      BY <3>1, <1>2
    <3>3. KindOf[dtype2index(t)] # 0 /\ KindOf[i] # 0
      BY <2>2, <1>2
    <3> QED
      BY <3>2, <3>3, <1>0, HoldsIndex
  <2> QED
    BY <2>1, <2>2 DEF Below
<1>3. \A d \in candidates : (\A u \in C : Holds(d, u)) => Holds(d, m)
  <2> SUFFICES ASSUME NEW d \in candidates, \A u \in C : Holds(d, u)
               PROVE  Holds(d, m)
    OBVIOUS
  <2>1. PICK i \in Index : KindOf[i] = k /\ d = toRealValueType(Type(i))
    OBVIOUS
  <2>2. Below(j, i)
    BY <1>2, <2>1
  <2> QED
    BY <2>1, <2>2, HoldsIndex DEF Below
<1>4. \A d \in candidates : Holds(d, m) /\ Holds(m, d) => d = m
  <2> SUFFICES ASSUME NEW d \in candidates, Holds(d, m), Holds(m, d)
               PROVE  d = m
    OBVIOUS
  <2>1. PICK i \in Index : KindOf[i] = k /\ d = toRealValueType(Type(i))
    OBVIOUS
  <2>2. /\ Extent[j] <= Extent[i] /\ Digits[j] <= Digits[i]
        /\ Extent[i] <= Extent[j] /\ Digits[i] <= Digits[j]
    BY <2>1, HoldsIndex
  <2>3. Below(i, j) /\ Below(j, i)
    <3>1. KindOf[i] <= KindOf[j] /\ KindOf[j] <= KindOf[i]
      BY <2>1
    <3> QED
      BY <2>2, <3>1 DEF Below
  <2> QED
    BY <2>1, <2>3, BelowIsOrder
<1>5. m \in candidates
  OBVIOUS
<1> HIDE DEF C, m
<1>6. LeastHolding(candidates, C) = m
  BY <1>1, <1>3, <1>4, <1>5, LeastIs
<1> QED
  BY <1>6 DEF C, m

\* Join is the least upper bound.
LEMMA JoinIsBound ==
  ASSUME NEW types \in SUBSET Promotable, NEW j \in Index, Bound(types, j),
         AtMost(types, KindOf[j]),
         \E t \in types : Kind(t) = KindOf[j]
  PROVE  Join(types) = Type(j)
<1> DEFINE kinds == {Kind(t) : t \in types}
           top == CHOOSE k \in kinds : \A l \in kinds : l <= k
           k == KindOf[j]
<1>1. k \in 0 .. 3
  BY RealClasses
<1>2. \A t \in types : Kind(t) \in Int
  BY TypeNumbered, TypeKinds, RealClasses
<1>3. top = k
  <2>1. k \in kinds /\ \A l \in kinds : l <= k
    BY DEF AtMost
  <2>2. \A l \in kinds : l \in Int
    BY <1>2
  <2>3. \A l \in kinds : (\A n \in kinds : n <= l) => l = k
    <3> SUFFICES ASSUME NEW l \in kinds, \A n \in kinds : n <= l
                 PROVE  l = k
      OBVIOUS
    <3>1. k <= l /\ l <= k
      BY <2>1
    <3> HIDE DEF k
    <3> QED
      BY <3>1, <2>2, <1>1
  <2> HIDE DEF kinds, k
  <2> QED
    BY <2>1, <2>3
<1>4. Join(types) =
        CASE top = 0 -> "Bool"
          [] top = 1 -> LeastHolding(ET_FORALL_INT_TYPES, Parts(types, {1}))
          [] top = 2 -> LeastHolding(ET_FORALL_FLOAT_TYPES \cup {"Half", "BFloat16"}, Parts(types, {2}))
          [] top = 3 -> toComplexType(LeastHolding({"Half", "Float", "Double"}, Parts(types, {2, 3})))
  BY DEF Join, Parts
<1> HIDE DEF top, kinds
<1>5. CASE k = 0
  <2>1. top = 0
    BY <1>3, <1>5
  <2>2. Type(j) = "Bool"
    BY <1>5, RealClasses
  <2> QED
    BY <1>4, <2>1, <2>2
<1>6. CASE k = 1
  <2>1. toRealValueType(Type(j)) = Type(j) /\ Type(j) \in ET_FORALL_INT_TYPES
    BY <1>6, TypeWidths, RealClasses
  <2>2. OfKind(ET_FORALL_INT_TYPES, 1)
    BY TypeWidths, RealClasses DEF OfKind
  <2>3. LeastHolding(ET_FORALL_INT_TYPES, Parts(types, {1})) = Type(j)
    BY <1>6, <2>1, <2>2, LeastOfKind
  <2>4. top = 1
    BY <1>3, <1>6
  <2> QED
    BY <1>4, <2>1, <2>3, <2>4
<1>7. CASE k = 2
  <2>1. toRealValueType(Type(j)) = Type(j) /\ Type(j) \in ET_FORALL_FLOAT_TYPES \cup {"Half", "BFloat16"}
    BY <1>7, TypeWidths, RealClasses
  <2>2. OfKind(ET_FORALL_FLOAT_TYPES \cup {"Half", "BFloat16"}, 2)
    BY TypeWidths, RealClasses DEF OfKind
  <2>3. LeastHolding(ET_FORALL_FLOAT_TYPES \cup {"Half", "BFloat16"}, Parts(types, {2})) = Type(j)
    BY <1>7, <2>1, <2>2, LeastOfKind
  <2>4. top = 2
    BY <1>3, <1>7
  <2> QED
    BY <1>4, <2>1, <2>3, <2>4
<1>8. CASE k = 3
  <2>1. toRealValueType(Type(j)) \in {"Half", "Float", "Double"} /\ toComplexType(toRealValueType(Type(j))) = Type(j)
    BY <1>8, RealClasses
  <2>2. OfKind({"Half", "Float", "Double"}, 3)
    BY RealClasses DEF OfKind
  <2>3. LeastHolding({"Half", "Float", "Double"}, Parts(types, {2, 3})) = toRealValueType(Type(j))
    BY <1>8, <2>1, <2>2, LeastOfKind
  <2>4. top = 3
    BY <1>3, <1>8
  <2> QED
    BY <1>4, <2>1, <2>3, <2>4
<1> QED
  BY <1>1, <1>5, <1>6, <1>7, <1>8

-----------------------------------------------------------------------------
(* Promoting one operand after the other.                                  *)

\* promoteTypes of two promotable types is the table's entry, widened if asked for.
LEMMA PromotesByTable ==
  ASSUME NEW a \in Promotable, NEW b \in Promotable, NEW h \in BOOLEAN
  PROVE  LET p == Table[dtype2index(a)][dtype2index(b)]
         IN  /\ p \in Index
             /\ promoteTypes(a, b, h) = Type(IF h THEN WidenedIndex(p) ELSE p)
<1> DEFINE p == Table[dtype2index(a)][dtype2index(b)]
<1>1. p \in Index
  BY TypeNumbered, TableBounds
<1>2. ~ExactOnly(a)
  BY TypeNumbered, TypeKinds
<1>3. promoteTypes(a, b, h) = IF h /\ Type(p) \in {"Half", "BFloat16"} THEN "Float" ELSE Type(p)
  BY <1>2 DEF promoteTypes, Table, Type
<1> HIDE DEF p
<1>4. Widened(Type(p)) = Type(WidenedIndex(p))
  BY <1>1, WidenedKinds
<1>5. promoteTypes(a, b, h) = IF h THEN Widened(Type(p)) ELSE Type(p)
  BY <1>3 DEF Widened
<1>6. promoteTypes(a, b, h) = Type(IF h THEN WidenedIndex(p) ELSE p)
  BY <1>4, <1>5
<1> QED
  BY <1>1, <1>6 DEF p

\* j bounds what was taken, and what was promoted to is j, widened or not.
Reached(j) ==
    /\ Bound(Taken, j)
    /\ j = 9 => "ComplexHalf" \in Taken
    /\ KindOf[j] = Kind(common)
    /\ IF halfToFloat /\ Len(operands) > 1
       THEN "ComplexHalf" \notin Taken => common = Type(WidenedIndex(j))
       ELSE common = Type(j)

\* Types that promote have their bound, and nothing above their kinds, ...
Promoted ==
    /\ Taken \subseteq Promotable
    /\ common \in Promotable
    /\ AtMost(Taken, Kind(common))
    /\ \E t \in Taken : Kind(t) = Kind(common)
    /\ common = "BFloat16" => "BFloat16" \in Taken
    /\ \E j \in Index : Reached(j)

\* ... and one that matches only itself has met only itself.
Alone == ExactOnly(common) /\ Taken = {common}

TypesInv ==
    /\ operands \in Seq(ET_FORALL_SCALAR_TYPES)
    /\ Len(operands) > 0
    /\ halfToFloat \in BOOLEAN
    /\ Promoted \/ Alone

\* Every type either promotes or matches itself only.
LEMMA Classes ==
  /\ \A t \in ET_FORALL_SCALAR_TYPES : t \in Promotable \/ ExactOnly(t)
  /\ \A t \in Promotable : ~ExactOnly(t)
<1>1. \A t \in {"Byte", "Char", "Short", "Int", "Long", "Half", "Float", "Double",
                 "ComplexHalf", "ComplexFloat", "ComplexDouble", "Bool", "BFloat16"} : t \in Promotable
  <2>1. \A i \in Index : Type(i) \in Promotable
    BY TypeNumbers
  <2>2. {1,2,3,4,5,6,7,8,9,10,11,12,13} \subseteq Index
    BY DEF Index
  <2>3. /\ Type(1) = "Byte" /\ Type(2) = "Char" /\ Type(3) = "Short" /\ Type(4) = "Int" /\ Type(5) = "Long"
        /\ Type(6) = "Half" /\ Type(7) = "Float" /\ Type(8) = "Double" /\ Type(9) = "ComplexHalf"
        /\ Type(10) = "ComplexFloat" /\ Type(11) = "ComplexDouble" /\ Type(12) = "Bool" /\ Type(13) = "BFloat16"
    BY DEF Type, index2dtype
  <2> QED
    BY <2>1, <2>2, <2>3
<1>2. \A t \in ET_FORALL_SCALAR_TYPES : t \in Promotable \/ ExactOnly(t)
  BY <1>1 DEF ET_FORALL_SCALAR_TYPES, ET_FORALL_REALHBBF16_TYPES, ET_FORALL_REALHBF16_TYPES,
     ET_FORALL_REAL_TYPES, ET_FORALL_INT_TYPES, ET_FORALL_FLOAT_TYPES, ET_FORALL_COMPLEXH_TYPES,
     ET_FORALL_QINT_TYPES, ExactOnly, isQIntType, isBitsType, isFloat8Type, isBarebonesUnsignedType
<1> QED
  BY <1>2, TypeNumbered, TypeKinds

LEMMA FirstOperand == TypesInit => TypesInv
<1> SUFFICES ASSUME TypesInit
             PROVE  TypesInv
  OBVIOUS
<1>1. PICK t \in ET_FORALL_SCALAR_TYPES : operands = <<t>> /\ common = t
  BY DEF TypesInit
<1>2. operands \in Seq(ET_FORALL_SCALAR_TYPES) /\ Len(operands) = 1 /\ operands[1] = t
  BY <1>1
<1>3. Taken = {t}
  BY <1>2 DEF Taken
<1>4. CASE ExactOnly(t)
  BY <1>1, <1>2, <1>3, <1>4 DEF TypesInit, TypesInv, Alone
<1>5. CASE t \in Promotable
  <2> DEFINE j == dtype2index(t)
  <2>1. j \in Index /\ Type(j) = t /\ KindOf[j] = Kind(t) /\ KindOf[j] \in 0 .. 3
    BY <1>5, TypeNumbered, TypeKinds, RealClasses
  <2>2. Bound(Taken, j)
    BY <1>3 DEF Bound
  <2>3. j = 9 => t = "ComplexHalf"
    BY <2>1 DEF Type, index2dtype
  <2>4. Reached(j)
    BY <1>1, <1>2, <1>3, <2>1, <2>2, <2>3 DEF Reached
  <2>5. AtMost(Taken, Kind(common))
    BY <1>1, <1>3, <2>1 DEF AtMost
  <2> HIDE DEF j
  <2>6. Promoted
    BY <1>1, <1>3, <1>5, <2>1, <2>4, <2>5 DEF Promoted
  <2> QED
    BY <1>2, <2>6 DEF TypesInit, TypesInv
<1> QED
  BY <1>4, <1>5, Classes

\* The table's lub keeps the bound; the types absorbed so far need not be known.
LEMMA NextOperandStep ==
  ASSUME NEW t \in ET_FORALL_SCALAR_TYPES, TypesInv, NextOperand(t)
  PROVE  TypesInv'
<1> USE DEF TypesInv, NextOperand
<1>1. /\ operands' \in Seq(ET_FORALL_SCALAR_TYPES)
      /\ Len(operands') = Len(operands) + 1 /\ Len(operands') > 1
      /\ halfToFloat' \in BOOLEAN
  OBVIOUS
<1>2. Taken' = Taken \cup {t}
  <2>1. \A i \in 1 .. Len(operands) : operands'[i] = operands[i]
    OBVIOUS
  <2>2. operands'[Len(operands) + 1] = t
    OBVIOUS
  <2>3. 1 .. Len(operands') = 1 .. Len(operands) \cup {Len(operands) + 1}
    BY <1>1
  <2> QED
    BY <2>1, <2>2, <2>3 DEF Taken
<1>3. CASE Alone
  <2>1. common = t /\ common' = common
    BY <1>3 DEF Alone, CanPromote, promoteTypes
  <2> QED
    BY <1>1, <1>2, <1>3, <2>1 DEF Alone
<1>4. CASE Promoted
  <2>1. t \in Promotable /\ common \in Promotable
    BY <1>4, Classes DEF Promoted, CanPromote
  <2> DEFINE c == dtype2index(common)
             d == dtype2index(t)
             p == Table[c][d]
  <2>2. c \in Index /\ Type(c) = common /\ d \in Index /\ Type(d) = t
    BY <2>1, TypeNumbered
  <2>3. p \in Index /\ common' = Type(IF halfToFloat THEN WidenedIndex(p) ELSE p)
    BY <2>1, PromotesByTable
  <2>4. KindOf[p] = IF KindOf[c] < KindOf[d] THEN KindOf[d] ELSE KindOf[c]
    BY <2>2, TableKinds
  <2>5. p = 13 => common = "BFloat16" \/ t = "BFloat16"
    <3>1. Type(13) = "BFloat16"
      BY DEF Type, index2dtype
    <3> QED
      BY <2>2, <3>1, TableIrreducible
  <2> HIDE DEF p
  <2>6. common' \in Promotable /\ Kind(common') = KindOf[p]
    BY <2>3, WidenedKinds, TypeNumbers, TypeKinds
  <2>7. KindOf[c] = Kind(common) /\ KindOf[d] = Kind(t) /\ KindOf[c] \in 0 .. 3 /\ KindOf[d] \in 0 .. 3
    BY <2>2, TypeKinds, RealClasses
  <2>8. Kind(common) <= Kind(common') /\ Kind(t) <= Kind(common')
        /\ (Kind(common') = Kind(common) \/ Kind(common') = Kind(t))
        /\ Kind(common) \in Int /\ Kind(common') \in Int
    BY <2>4, <2>6, <2>7
  <2>9. \A u \in Taken : Kind(u) \in Int
    BY <1>4, TypeNumbered, TypeKinds, RealClasses DEF Promoted
  <2>10. AtMost(Taken', Kind(common'))
    BY <1>2, <1>4, <2>8, <2>9 DEF AtMost, Promoted
  <2>11. \E u \in Taken' : Kind(u) = Kind(common')
    BY <1>2, <1>4, <2>8 DEF Promoted
  <2>12. common' = "BFloat16" => "BFloat16" \in Taken'
    <3> SUFFICES ASSUME common' = "BFloat16"
                 PROVE  "BFloat16" \in Taken'
      OBVIOUS
    <3>1. "BFloat16" = Type(13) /\ 13 \in Index
      BY DEF Type, index2dtype, Index
    <3>2. (IF halfToFloat THEN WidenedIndex(p) ELSE p) = 13
      <4>1. (IF halfToFloat THEN WidenedIndex(p) ELSE p) \in Index
        BY <2>3, WidenedKinds
      <4> QED
        BY <2>3, <3>1, <4>1, TypeNumbers
    <3>3. p = 13
      BY <2>3, <3>2 DEF WidenedIndex
    <3> QED
      BY <1>2, <1>4, <2>5, <3>3 DEF Promoted
  <2>13. PICK j \in Index : Reached(j)
    BY <1>4 DEF Promoted
  <2> DEFINE q == Table[j][d]
  <2>14. q \in Index
    BY <2>2, TableBounds
  <2>15. Bound(Taken', q)
    <3> SUFFICES ASSUME NEW e \in Index
                 PROVE  Below(q, e) <=> \A u \in Taken' : Below(dtype2index(u), e)
      BY DEF Bound
    <3>1. Below(q, e) <=> Below(j, e) /\ Below(d, e)
      BY <2>2, TableBounds
    <3>2. Below(j, e) <=> \A u \in Taken : Below(dtype2index(u), e)
      BY <2>13 DEF Reached, Bound
    <3> QED
      BY <1>2, <3>1, <3>2
  <2>16. q = 9 => "ComplexHalf" \in Taken'
    <3>1. Type(9) = "ComplexHalf"
      BY DEF Type, index2dtype
    <3> QED
      BY <1>2, <2>2, <2>13, <3>1, TableIrreducible DEF Reached
  <2>17. KindOf[q] = Kind(common')
    <3>1. KindOf[q] = IF KindOf[j] < KindOf[d] THEN KindOf[d] ELSE KindOf[j]
      BY <2>2, TableKinds
    <3>2. KindOf[j] = KindOf[c]
      BY <2>7, <2>13 DEF Reached
    <3> QED
      BY <2>4, <2>6, <3>1, <3>2
  <2>18. ~halfToFloat => common' = Type(q)
    <3> SUFFICES ASSUME ~halfToFloat
                 PROVE  common' = Type(q)
      OBVIOUS
    <3>1. Type(c) = Type(j)
      BY <2>2, <2>13 DEF Reached
    <3>2. c = j
      BY <2>2, <3>1, TypeNumbers
    <3> QED
      BY <2>3, <3>2 DEF p
  <2>19. halfToFloat => ("ComplexHalf" \notin Taken' => common' = Type(WidenedIndex(q)))
    <3> SUFFICES ASSUME halfToFloat, "ComplexHalf" \notin Taken'
                 PROVE  common' = Type(WidenedIndex(q))
      OBVIOUS
    <3>1. common' = Type(WidenedIndex(p))
      BY <2>3
    <3>2. j # 9 /\ d # 9
      <4>1. Type(9) = "ComplexHalf"
        BY DEF Type, index2dtype
      <4> QED
        BY <1>2, <2>2, <2>13, <4>1 DEF Reached
    <3>3. c = j \/ c = WidenedIndex(j)
      <4>1. WidenedIndex(j) \in Index
        BY WidenedKinds
      <4>2. Type(c) = Type(j) \/ Type(c) = Type(WidenedIndex(j))
        BY <1>2, <2>2, <2>13 DEF Reached
      <4> QED
        BY <2>2, <4>1, <4>2, TypeNumbers
    <3>4. WidenedIndex(p) = WidenedIndex(q)
      BY <2>2, <3>2, <3>3, TableWidened DEF p
    <3> QED
      BY <3>1, <3>4
  <2> HIDE DEF q
  <2>20. halfToFloat' = halfToFloat
    OBVIOUS
  <2>21. Reached(q)'
    BY <1>1, <2>15, <2>16, <2>17, <2>18, <2>19, <2>20 DEF Reached
  <2>22. \E i \in Index : Reached(i)'
    BY <2>14, <2>21
  <2>23. Taken' \subseteq Promotable
    BY <1>2, <1>4, <2>1 DEF Promoted
  <2>24. Promoted'
    BY <2>6, <2>10, <2>11, <2>12, <2>22, <2>23 DEF Promoted
  <2> QED
    BY <1>1, <2>24
<1> QED
  BY <1>3, <1>4

\* In every state either the operands taken all promote, and the common type is
\* their bound, or there is one type, taken alone or again and again.
THEOREM TypesInvariant == TypesSpec => []TypesInv
<1>1. TypesInv /\ [TypesNext]_typesVars => TypesInv'
  <2> SUFFICES ASSUME TypesInv, [TypesNext]_typesVars
               PROVE  TypesInv'
    OBVIOUS
  <2>1. CASE UNCHANGED typesVars
    BY <2>1 DEF TypesInv, Promoted, Alone, Reached, Bound, AtMost, Taken, typesVars
  <2>2. ASSUME NEW t \in ET_FORALL_SCALAR_TYPES, NextOperand(t)
        PROVE  TypesInv'
    BY <2>2, NextOperandStep
  <2> QED
    BY <2>1, <2>2 DEF TypesNext
<1> QED
  BY <1>1, FirstOperand, PTL DEF TypesSpec

(* promoteTypes, applied operand by operand, gives the join of all of them,  *)
(* in whatever order and however many they are, and every operand may be    *)
(* cast to it.                                                              *)
THEOREM PromotesToJoin == TypesSpec => []PromotionIsJoin
<1>1. TypesInv => PromotionIsJoin
  <2> SUFFICES ASSUME TypesInv, Taken \subseteq Promotable
               PROVE  /\ \A t \in Taken : canCast(t, common)
                      /\ IF halfToFloat /\ Len(operands) > 1
                         THEN "ComplexHalf" \notin Taken => common = Widened(Join(Taken))
                         ELSE common = Join(Taken)
    BY DEF PromotionIsJoin
  <2>1. Promoted
    <3> SUFFICES ASSUME Alone
                 PROVE  FALSE
      BY DEF TypesInv
    <3> QED
      BY Classes DEF Alone
  <2>2. PICK j \in Index : Reached(j)
    BY <2>1 DEF Promoted
  <2>3. \A t \in Taken : canCast(t, common)
    <3> SUFFICES ASSUME NEW t \in Taken
                 PROVE  canCast(t, common)
      OBVIOUS
    <3>1. Kind(t) <= Kind(common)
      BY <2>1 DEF Promoted, AtMost
    <3>2. \A i \in Index : isComplexType(Type(i)) <=> KindOf[i] = 3
      BY SMTT(60) DEF Index, Type, index2dtype, KindOf, isComplexType
    <3>3. \A i \in Index : isFloatingType(Type(i)) <=> KindOf[i] = 2
      BY SMTT(60) DEF Index, Type, index2dtype, KindOf, isFloatingType
    <3>4. \A i \in Index : isIntegralType(Type(i), FALSE) <=> KindOf[i] = 1
      BY SMTT(60) DEF Index, Type, index2dtype, KindOf, isIntegralType
    <3>5. \A i \in Index : Type(i) = "Bool" <=> KindOf[i] = 0
      BY SMTT(60) DEF Index, Type, index2dtype, KindOf
    <3>6. PICK a \in Index : t = Type(a)
      BY TypeNumbered
    <3>7. PICK b \in Index : common = Type(b)
      BY <2>1, TypeNumbered DEF Promoted
    <3>8. KindOf[a] <= KindOf[b] /\ KindOf[a] \in 0 .. 3 /\ KindOf[b] \in 0 .. 3
      BY <3>1, <3>6, <3>7, TypeKinds, RealClasses
    <3>9. /\ ~(KindOf[a] = 3 /\ KindOf[b] # 3) 
          /\ ~(KindOf[a] = 2 /\ KindOf[b] = 1)
          /\ ~(KindOf[a] # 0 /\ KindOf[b] = 0)
      BY <3>8
    <3> QED
      BY <3>2, <3>3, <3>4, <3>5, <3>6, <3>7, <3>9 DEF canCast
  <2>4. Join(Taken) = Type(j)
    <3>1. Bound(Taken, j) /\ AtMost(Taken, KindOf[j]) /\ \E t \in Taken : Kind(t) = KindOf[j]
      BY <2>1, <2>2 DEF Promoted, Reached
    <3> QED
      BY <3>1, JoinIsBound
  <2>5. Widened(Join(Taken)) = Type(WidenedIndex(j))
    BY <2>4, WidenedKinds
  <2>6. IF halfToFloat /\ Len(operands) > 1
        THEN "ComplexHalf" \notin Taken => common = Widened(Join(Taken))
        ELSE common = Join(Taken)
    BY <2>2, <2>4, <2>5 DEF Reached
  <2> QED
    BY <2>3, <2>6
<1> QED
  BY <1>1, TypesInvariant, PTL

\* The class predicates are kinds, on the types that promote, ...
LEMMA ClassesByKind ==
  \A i \in Index :
    /\ isRealHBBF16Type(Type(i)) <=> KindOf[i] # 3
    /\ isRealHBF16Type(Type(i)) <=> KindOf[i] \in {1, 2}
    /\ isRealHBType(Type(i)) <=> KindOf[i] # 3 /\ i # 13
    /\ isFloatingType(Type(i)) <=> KindOf[i] = 2
    /\ isIntegralType(Type(i), FALSE) <=> KindOf[i] = 1
    /\ isComplexType(Type(i)) <=> KindOf[i] = 3
    /\ isBarebonesUnsignedType(Type(i)) <=> FALSE
<1>1. \A i \in Index : isRealHBBF16Type(Type(i)) <=> KindOf[i] # 3
  BY SMTT(60) DEF Index, Type, index2dtype, KindOf, isRealHBBF16Type, isRealHBF16Type, isRealHBType, isRealHType, isFloatingType, isIntegralType, isComplexType, isBarebonesUnsignedType
<1>2. \A i \in Index : isRealHBF16Type(Type(i)) <=> KindOf[i] \in {1, 2}
  BY SMTT(60) DEF Index, Type, index2dtype, KindOf, isRealHBBF16Type, isRealHBF16Type, isRealHBType, isRealHType, isFloatingType, isIntegralType, isComplexType, isBarebonesUnsignedType
<1>3. \A i \in Index : isRealHBType(Type(i)) <=> KindOf[i] # 3 /\ i # 13
  BY SMTT(60) DEF Index, Type, index2dtype, KindOf, isRealHBBF16Type, isRealHBF16Type, isRealHBType, isRealHType, isFloatingType, isIntegralType, isComplexType, isBarebonesUnsignedType
<1>4. \A i \in Index : isFloatingType(Type(i)) <=> KindOf[i] = 2
  BY SMTT(60) DEF Index, Type, index2dtype, KindOf, isRealHBBF16Type, isRealHBF16Type, isRealHBType, isRealHType, isFloatingType, isIntegralType, isComplexType, isBarebonesUnsignedType
<1>5. \A i \in Index : isIntegralType(Type(i), FALSE) <=> KindOf[i] = 1
  BY SMTT(60) DEF Index, Type, index2dtype, KindOf, isRealHBBF16Type, isRealHBF16Type, isRealHBType, isRealHType, isFloatingType, isIntegralType, isComplexType, isBarebonesUnsignedType
<1>6. \A i \in Index : isComplexType(Type(i)) <=> KindOf[i] = 3
  BY SMTT(60) DEF Index, Type, index2dtype, KindOf, isRealHBBF16Type, isRealHBF16Type, isRealHBType, isRealHType, isFloatingType, isIntegralType, isComplexType, isBarebonesUnsignedType
<1>7. \A i \in Index : isBarebonesUnsignedType(Type(i)) <=> FALSE
  BY SMTT(60) DEF Index, Type, index2dtype, KindOf, isRealHBBF16Type, isRealHBF16Type, isRealHBType, isRealHType, isFloatingType, isIntegralType, isComplexType, isBarebonesUnsignedType
<1> QED
  BY <1>1, <1>2, <1>3, <1>4, <1>5, <1>6, <1>7

\* ... and the switches have a case for each type of those kinds.
LEMMA SwitchesByKind ==
  \A i \in Index :
    /\ KindOf[i] # 3 => Type(i) \in ET_SWITCH_REALHBBF16_TYPES
    /\ KindOf[i] \in {1, 2} => Type(i) \in ET_SWITCH_REALHBF16_TYPES
    /\ KindOf[i] # 3 /\ i # 13 => Type(i) \in ET_SWITCH_REALHB_TYPES
    /\ KindOf[i] = 2 => Type(i) \in ET_SWITCH_FLOATHBF16_TYPES
    /\ KindOf[i] = 1 => Type(i) \in ET_SWITCH_INT_TYPES
    /\ KindOf[i] = 3 => Type(i) \in ET_SWITCH_COMPLEXH_TYPES
    /\ KindOf[i] # 3 => Type(i) \in ET_SWITCH_REALHBBF16_AND_UINT_TYPES
<1>1. \A i \in Index : KindOf[i] # 3 => Type(i) \in ET_SWITCH_REALHBBF16_TYPES
  BY SMTT(60) DEF Index, Type, index2dtype, KindOf, ET_SWITCH_REALHBBF16_AND_UINT_TYPES, ET_SWITCH_REALHBBF16_TYPES, ET_SWITCH_REALHBF16_TYPES, ET_SWITCH_REALHB_TYPES, ET_SWITCH_FLOATHBF16_TYPES, ET_SWITCH_INT_TYPES, ET_SWITCH_COMPLEXH_TYPES, ET_SWITCH_REAL_TYPES_AND, ET_SWITCH_REAL_TYPES, ET_SWITCH_UINT_TYPES
<1>2. \A i \in Index : KindOf[i] \in {1, 2} => Type(i) \in ET_SWITCH_REALHBF16_TYPES
  BY SMTT(60) DEF Index, Type, index2dtype, KindOf, ET_SWITCH_REALHBBF16_AND_UINT_TYPES, ET_SWITCH_REALHBBF16_TYPES, ET_SWITCH_REALHBF16_TYPES, ET_SWITCH_REALHB_TYPES, ET_SWITCH_FLOATHBF16_TYPES, ET_SWITCH_INT_TYPES, ET_SWITCH_COMPLEXH_TYPES, ET_SWITCH_REAL_TYPES_AND, ET_SWITCH_REAL_TYPES, ET_SWITCH_UINT_TYPES
<1>3. \A i \in Index : KindOf[i] # 3 /\ i # 13 => Type(i) \in ET_SWITCH_REALHB_TYPES
  BY SMTT(60) DEF Index, Type, index2dtype, KindOf, ET_SWITCH_REALHBBF16_AND_UINT_TYPES, ET_SWITCH_REALHBBF16_TYPES, ET_SWITCH_REALHBF16_TYPES, ET_SWITCH_REALHB_TYPES, ET_SWITCH_FLOATHBF16_TYPES, ET_SWITCH_INT_TYPES, ET_SWITCH_COMPLEXH_TYPES, ET_SWITCH_REAL_TYPES_AND, ET_SWITCH_REAL_TYPES, ET_SWITCH_UINT_TYPES
<1>4. \A i \in Index : KindOf[i] = 2 => Type(i) \in ET_SWITCH_FLOATHBF16_TYPES
  BY SMTT(60) DEF Index, Type, index2dtype, KindOf, ET_SWITCH_REALHBBF16_AND_UINT_TYPES, ET_SWITCH_REALHBBF16_TYPES, ET_SWITCH_REALHBF16_TYPES, ET_SWITCH_REALHB_TYPES, ET_SWITCH_FLOATHBF16_TYPES, ET_SWITCH_INT_TYPES, ET_SWITCH_COMPLEXH_TYPES, ET_SWITCH_REAL_TYPES_AND, ET_SWITCH_REAL_TYPES, ET_SWITCH_UINT_TYPES
<1>5. \A i \in Index : KindOf[i] = 1 => Type(i) \in ET_SWITCH_INT_TYPES
  BY SMTT(60) DEF Index, Type, index2dtype, KindOf, ET_SWITCH_REALHBBF16_AND_UINT_TYPES, ET_SWITCH_REALHBBF16_TYPES, ET_SWITCH_REALHBF16_TYPES, ET_SWITCH_REALHB_TYPES, ET_SWITCH_FLOATHBF16_TYPES, ET_SWITCH_INT_TYPES, ET_SWITCH_COMPLEXH_TYPES, ET_SWITCH_REAL_TYPES_AND, ET_SWITCH_REAL_TYPES, ET_SWITCH_UINT_TYPES
<1>6. \A i \in Index : KindOf[i] = 3 => Type(i) \in ET_SWITCH_COMPLEXH_TYPES
  BY SMTT(60) DEF Index, Type, index2dtype, KindOf, ET_SWITCH_REALHBBF16_AND_UINT_TYPES, ET_SWITCH_REALHBBF16_TYPES, ET_SWITCH_REALHBF16_TYPES, ET_SWITCH_REALHB_TYPES, ET_SWITCH_FLOATHBF16_TYPES, ET_SWITCH_INT_TYPES, ET_SWITCH_COMPLEXH_TYPES, ET_SWITCH_REAL_TYPES_AND, ET_SWITCH_REAL_TYPES, ET_SWITCH_UINT_TYPES
<1>7. \A i \in Index : KindOf[i] # 3 => Type(i) \in ET_SWITCH_REALHBBF16_AND_UINT_TYPES
  BY SMTT(60) DEF Index, Type, index2dtype, KindOf, ET_SWITCH_REALHBBF16_AND_UINT_TYPES, ET_SWITCH_REALHBBF16_TYPES, ET_SWITCH_REALHBF16_TYPES, ET_SWITCH_REALHB_TYPES, ET_SWITCH_FLOATHBF16_TYPES, ET_SWITCH_INT_TYPES, ET_SWITCH_COMPLEXH_TYPES, ET_SWITCH_REAL_TYPES_AND, ET_SWITCH_REAL_TYPES, ET_SWITCH_UINT_TYPES
<1> QED
  BY <1>1, <1>2, <1>3, <1>4, <1>5, <1>6, <1>7

(* Operands that pass a kernel's class check promote to a type that the     *)
(* switch for that class has a case for.                                    *)
THEOREM SwitchesHaveCases == TypesSpec => []SwitchesHandle
<1>1. TypesInv => SwitchesHandle
  <2> SUFFICES ASSUME TypesInv
               PROVE  SwitchesHandle
    OBVIOUS
  <2>1. Taken # {}
    BY DEF TypesInv, Promoted, Alone
  <2>2. CASE Alone
    <3>1. PICK t : Taken = {t} /\ common = t /\ ExactOnly(t)
      BY <2>2 DEF Alone
    <3>2. ExactOnly(t) => /\ ~isRealHBBF16Type(t) /\ ~isRealHBF16Type(t) /\ ~isRealHBType(t)
                          /\ ~isFloatingType(t) /\ ~isIntegralType(t, FALSE) /\ ~isComplexType(t)
      BY DEF ExactOnly, isQIntType, isBitsType, isFloat8Type, isBarebonesUnsignedType, isRealHBBF16Type, isRealHBType, isRealHType, isRealHBF16Type, isFloatingType, isIntegralType, isComplexType
    <3>3. isBarebonesUnsignedType(t) => t \in ET_SWITCH_REALHBBF16_AND_UINT_TYPES
      BY DEF isBarebonesUnsignedType, ET_SWITCH_REALHBBF16_AND_UINT_TYPES, ET_SWITCH_UINT_TYPES
    <3> QED
      BY <3>1, <3>2, <3>3 DEF SwitchesHandle
  <2>3. CASE Promoted
    <3>1. PICK b \in Index : common = Type(b)
      BY <2>3, TypeNumbered DEF Promoted
    <3>2. PICK u \in Taken : Kind(u) = Kind(common)
      BY <2>3 DEF Promoted
    <3>3. PICK a \in Index : u = Type(a)
      BY <2>3, TypeNumbered DEF Promoted
    <3>4. KindOf[a] = KindOf[b]
      BY <3>1, <3>2, <3>3, TypeKinds
    <3>5. b = 13 => \E t \in Taken : t = "BFloat16"
      <4>1. Type(13) = "BFloat16"
        BY DEF Type, index2dtype
      <4> QED
        BY <2>3, <3>1, <4>1 DEF Promoted
    <3>6. \A t \in Taken : t = "BFloat16" => ~isRealHBType(t)
      BY DEF isRealHBType, isRealHType
    <3>7. (\A t \in Taken : isRealHBBF16Type(t)) => common \in ET_SWITCH_REALHBBF16_TYPES
      BY <3>1, <3>3, <3>4, ClassesByKind, SwitchesByKind
    <3>8. (\A t \in Taken : isRealHBF16Type(t)) => common \in ET_SWITCH_REALHBF16_TYPES
      BY <3>1, <3>3, <3>4, ClassesByKind, SwitchesByKind
    <3>9. (\A t \in Taken : isRealHBType(t)) => common \in ET_SWITCH_REALHB_TYPES
      BY <3>1, <3>3, <3>4, <3>5, <3>6, ClassesByKind, SwitchesByKind
    <3>10. (\A t \in Taken : isFloatingType(t)) => common \in ET_SWITCH_FLOATHBF16_TYPES
      BY <3>1, <3>3, <3>4, ClassesByKind, SwitchesByKind
    <3>11. (\A t \in Taken : isIntegralType(t, FALSE)) => common \in ET_SWITCH_INT_TYPES
      BY <3>1, <3>3, <3>4, ClassesByKind, SwitchesByKind
    <3>12. (\A t \in Taken : isComplexType(t)) => common \in ET_SWITCH_COMPLEXH_TYPES
      BY <3>1, <3>3, <3>4, ClassesByKind, SwitchesByKind
    <3>13. (\A t \in Taken : isRealHBBF16Type(t) \/ isBarebonesUnsignedType(t))
             => common \in ET_SWITCH_REALHBBF16_AND_UINT_TYPES
      BY <3>1, <3>3, <3>4, ClassesByKind, SwitchesByKind
    <3> QED
      BY <3>7, <3>8, <3>9, <3>10, <3>11, <3>12, <3>13 DEF SwitchesHandle
  <2> QED
    BY <2>2, <2>3 DEF TypesInv
<1> QED
  BY <1>1, TypesInvariant, PTL

-----------------------------------------------------------------------------
(* EventTracing.                                                           *)

Levels == {kProfileMethodOnly, kProfileAllEvents}
ScopeKinds == {"method", "op", "instruction"}
Scopes == [kind : ScopeKinds, entry : NoEntry .. MaxEntries,
           ids : Instruction \cup {Unset}, eclipsed : BOOLEAN]

TracingTypes ==
    /\ tracer \in BOOLEAN
    /\ profiling \in Levels
    /\ ids \in Instruction \cup {Unset}
    /\ scopes \in Seq(Scopes)
    /\ manual \subseteq 1 .. started
    /\ started \in 0 .. MaxEntries
    /\ ended \in [NoEntry .. MaxEntries -> 0 .. 2]

-----------------------------------------------------------------------------
(* The stack of scopes.                                                    *)

Depth == Len(scopes)

\* What a constructor does to the stack ...
LEMMA Pushed ==
  ASSUME TracingTypes, NEW s \in Scopes, Push(s)
  PROVE  /\ scopes' \in Seq(Scopes)
         /\ Depth \in Nat /\ Len(scopes') = Depth + 1 /\ scopes'[Depth + 1] = s
         /\ \A i \in 1 .. Depth : scopes'[i] = scopes[i]
<1>1. scopes' = Append(scopes, s)
  BY DEF Push
<1> QED
  BY <1>1 DEF TracingTypes, Depth

\* ... and what a destructor does.
LEMMA Popped ==
  ASSUME TracingTypes, scopes # <<>>
  PROVE  /\ Rest \in Seq(Scopes)
         /\ Depth \in Nat \ {0} /\ Len(Rest) = Depth - 1 /\ Top = scopes[Depth]
         /\ \A i \in 1 .. Depth - 1 : Rest[i] = scopes[i]
         /\ \A i \in 1 .. Depth : scopes[i] \in Scopes
<1>1. scopes \in Seq(Scopes) /\ Depth \in Nat /\ \A i \in 1 .. Depth : scopes[i] \in Scopes
  BY DEF TracingTypes, Depth
<1>2. Depth # 0
  BY <1>1, EmptySeq DEF Depth
<1>3. PICK n \in Nat : n = Depth - 1
  BY <1>1, <1>2
<1>4. /\ Rest \in Seq(Scopes) /\ Len(Rest) = Depth - 1
      /\ \A i \in 1 .. Depth - 1 : Rest[i] = scopes[i]
  <2>1. \A i \in 1 .. n : scopes[i] \in Scopes
    BY <1>1, <1>3
  <2>2. Rest = SubSeq(scopes, 1, n)
    BY <1>3 DEF Rest, Depth
  <2>3. /\ SubSeq(scopes, 1, n) \in Seq(Scopes)
        /\ Len(SubSeq(scopes, 1, n)) = IF 1 <= n THEN n - 1 + 1 ELSE 0
        /\ \A i \in 1 .. n - 1 + 1 : SubSeq(scopes, 1, n)[i] = scopes[1 + i - 1]
    BY <2>1, SubSeqProperties
  <2>4. n - 1 + 1 = n /\ (IF 1 <= n THEN n - 1 + 1 ELSE 0) = n /\ \A i \in 1 .. n : 1 + i - 1 = i
    OBVIOUS
  <2> QED
    BY <1>3, <2>2, <2>3, <2>4
<1> QED
  BY <1>1, <1>2, <1>4 DEF Top, Depth

\* The stack without its top, the enclosing instructions marked.
LEMMA Eclipsed ==
  ASSUME TracingTypes, CloseInstruction
  PROVE  /\ scopes' \in Seq(Scopes)
         /\ Depth \in Nat \ {0} /\ Len(scopes') = Depth - 1
         /\ \A i \in 1 .. Depth - 1 :
               /\ scopes'[i].kind = scopes[i].kind
               /\ scopes'[i].entry = scopes[i].entry
               /\ scopes'[i].ids = scopes[i].ids
               /\ scopes[i].kind = "instruction" => scopes'[i].eclipsed
<1>1. /\ Depth \in Nat \ {0} /\ Len(Rest) = Depth - 1
      /\ \A i \in 1 .. Depth - 1 : Rest[i] = scopes[i] /\ scopes[i] \in Scopes
  BY Popped DEF CloseInstruction
<1>2. scopes' = [i \in 1 .. Depth - 1 |->
                   [Rest[i] EXCEPT !.eclipsed = @ \/ Rest[i].kind = "instruction"]]
  BY <1>1 DEF CloseInstruction
<1>3. \A i \in 1 .. Depth - 1 :
         /\ scopes'[i] \in Scopes
         /\ scopes'[i].kind = scopes[i].kind
         /\ scopes'[i].entry = scopes[i].entry
         /\ scopes'[i].ids = scopes[i].ids
         /\ scopes[i].kind = "instruction" => scopes'[i].eclipsed
  BY <1>1, <1>2 DEF Scopes
<1>4. scopes' \in Seq(Scopes) /\ Len(scopes') = Depth - 1
  <2>1. PICK n \in Nat : n = Depth - 1
    BY <1>1
  <2>2. scopes' \in [1 .. n -> Scopes]
    BY <1>2, <1>3, <2>1
  <2> QED
    BY <2>1, <2>2
<1> QED
  BY <1>1, <1>3, <1>4

-----------------------------------------------------------------------------
LEMMA TracingInitTypes == TracingInit => TracingTypes
  BY EntriesAssumption
  DEF TracingInit, TracingTypes, Levels, kProfileMethodOnly, kProfileAllEvents, NoEntry

LEMMA EndTypes ==
  ASSUME TracingTypes, NEW e, end_profiling(e)
  PROVE  ended' \in [NoEntry .. MaxEntries -> 0 .. 2]
<1>1. (IF ended[e] = 0 THEN 1 ELSE 2) \in 0 .. 2
  OBVIOUS
<1> QED
  BY <1>1 DEF TracingTypes, end_profiling

LEMMA StartTypes ==
  ASSUME TracingTypes, IF tracer THEN start_profiling ELSE UNCHANGED <<started, last>>
  PROVE  started' \in 0 .. MaxEntries /\ started <= started'
<1>1. started' = started \/ (started < MaxEntries /\ started' = started + 1)
  BY DEF start_profiling
<1>2. started \in 0 .. MaxEntries
  BY DEF TracingTypes
<1> QED
  BY <1>1, <1>2, EntriesAssumption

LEMMA TracingNextTypes ==
  ASSUME TracingTypes, [TracingNext]_tracingVars
  PROVE  TracingTypes'
<1> USE DEF Levels, NoEntry
<1>1. CASE OpenMethod
  <2>1. started' \in 0 .. MaxEntries /\ started <= started'
    BY <1>1, StartTypes DEF OpenMethod
  <2>2. scopes' \in Seq(Scopes)
    BY <1>1, <2>1, Pushed DEF OpenMethod, Scope, Scopes, ScopeKinds
  <2> QED
    BY <1>1, <2>1, <2>2 DEF OpenMethod, TracingTypes
<1>2. CASE OpenOp
  <2>1. started' \in 0 .. MaxEntries /\ started <= started' /\ 0 \in 0 .. MaxEntries
    BY <1>2, EntriesAssumption DEF OpenOp, start_profiling, TracingTypes
  <2>2. scopes' \in Seq(Scopes)
    BY <1>2, <2>1, Pushed DEF OpenOp, Scope, Scopes, ScopeKinds
  <2> QED
    BY <1>2, <2>1, <2>2 DEF OpenOp, TracingTypes
<1>3. CASE CloseMethod
  <2>1. scopes' \in Seq(Scopes)
    BY <1>3, Popped DEF CloseMethod
  <2> QED
    BY <1>3, <2>1, EndTypes DEF CloseMethod, TracingTypes
<1>4. CASE CloseOp
  <2>1. scopes' \in Seq(Scopes)
    BY <1>4, Popped DEF CloseOp
  <2> QED
    BY <1>4, <2>1, EndTypes DEF CloseOp, TracingTypes
<1>5. CASE CloseInstruction
  BY <1>5, Eclipsed DEF CloseInstruction, TracingTypes
<1>6. ASSUME NEW i \in Instruction, OpenInstruction(i)
      PROVE  TracingTypes'
  <2>1. Scope("instruction", NoEntry, IF tracer THEN i ELSE Unset) \in Scopes
    BY EntriesAssumption DEF Scope, Scopes, ScopeKinds
  <2>2. Push(Scope("instruction", NoEntry, IF tracer THEN i ELSE Unset))
    BY <1>6 DEF OpenInstruction
  <2>3. scopes' \in Seq(Scopes)
    BY <2>1, <2>2, Pushed
  <2> QED
    BY <1>6, <2>3 DEF OpenInstruction, TracingTypes
<1>7. CASE Begin
  <2>1. started' \in 0 .. MaxEntries /\ started <= started'
    <3>1. IF tracer THEN start_profiling ELSE UNCHANGED <<started, last>>
      BY <1>7 DEF Begin
    <3> QED
      BY <3>1, StartTypes
  <2>2. \/ manual' = manual
        \/ manual' = manual \cup {started'} /\ started' = started + 1
    BY <1>7 DEF Begin, start_profiling
  <2>3. manual' \subseteq 1 .. started'
    <3>1. manual \subseteq 1 .. started /\ started \in 0 .. MaxEntries
      BY DEF TracingTypes
    <3>2. manual \subseteq 1 .. started'
      BY <2>1, <3>1, EntriesAssumption
    <3>3. started' = started + 1 => started' \in 1 .. started'
      BY <3>1, EntriesAssumption
    <3> QED
      BY <2>2, <3>2, <3>3
  <2> QED
    BY <1>7, <2>1, <2>3 DEF Begin, TracingTypes
<1>8. ASSUME NEW e \in manual, End(e)
      PROVE  TracingTypes'
  BY <1>8, EndTypes DEF End, TracingTypes
<1>9. CASE LogDelegate \/ \E l \in {kProgramOutputs, kIntermediateOutputs} : LogEValue(l)
  BY <1>9 DEF LogDelegate, LogEValue, TracingTypes
<1>10. CASE \E l \in Levels : set_event_tracer_profiling_level(l)
  BY <1>10 DEF set_event_tracer_profiling_level, TracingTypes
<1>11. CASE \E l \in {kNoLogging, kProgramOutputs, kIntermediateOutputs} :
               set_event_tracer_debug_level(l)
  BY <1>11 DEF set_event_tracer_debug_level, TracingTypes
<1>12. CASE UNCHANGED tracingVars
  BY <1>12 DEF tracingVars, TracingTypes
<1> QED
  BY <1>1, <1>2, <1>3, <1>4, <1>5, <1>6, <1>7, <1>8, <1>9, <1>10, <1>11, <1>12 DEF TracingNext

-----------------------------------------------------------------------------
(* The ids.                                                                *)

\* m is the innermost instruction scope among the first n of a stack.
Inner(stack, m, n) ==
    /\ m \in 1 .. n /\ stack[m].kind = "instruction"
    /\ \A j \in m + 1 .. n : stack[j].kind # "instruction"

\* Among any number of scopes with an instruction there is an innermost one.
HasInner ==
    \A n \in 1 .. Depth :
        \/ \A i \in 1 .. n : scopes[i].kind # "instruction"
        \/ \E m \in 1 .. n : Inner(scopes, m, n)

\* The ids stored in the tracer are those of the innermost instruction, unless
\* one inside it has closed; without a tracer there are none.
IdsInv ==
    /\ (\A i \in 1 .. Depth : scopes[i].kind # "instruction") => ids = Unset
    /\ \A m \in 1 .. Depth :
          Inner(scopes, m, Depth) /\ ids # scopes[m].ids => ids = Unset /\ scopes[m].eclipsed
    /\ ~tracer => ids = Unset /\ \A i \in 1 .. Depth : scopes[i].ids = Unset

AttributionInv == TracingTypes /\ HasInner /\ IdsInv

\* What an event that happens now would be attributed to.
LEMMA RecordedNow ==
  ASSUME AttributionInv
  PROVE  ids \in {Where.of, Unset} /\ (ids # Where.of => Where.eclipsed)
<1>0. Depth \in Nat
  BY DEF AttributionInv, TracingTypes, Depth
<1>1. CASE \A i \in 1 .. Depth : scopes[i].kind # "instruction"
  <2>1. InstructionScopes = {}
    BY <1>1 DEF InstructionScopes, Depth
  <2>2. Where.of = Unset
    BY <2>1 DEF Where
  <2> QED
    BY <1>1, <2>2 DEF AttributionInv, IdsInv
<1>2. CASE \E i \in 1 .. Depth : scopes[i].kind = "instruction"
  <2>1. PICK m \in 1 .. Depth : Inner(scopes, m, Depth)
    BY <1>0, <1>2 DEF AttributionInv, HasInner
  <2>2. /\ m \in InstructionScopes
        /\ \A j \in InstructionScopes : j <= m
    BY <1>0, <2>1 DEF Inner, InstructionScopes, Depth
  <2>3. /\ Innermost \in InstructionScopes
        /\ \A j \in InstructionScopes : j <= Innermost
    BY <2>2 DEF Innermost
  <2>4. Innermost = m
    BY <1>0, <2>2, <2>3 DEF InstructionScopes, Depth
  <2>5. Where.of = scopes[m].ids /\ Where.eclipsed = scopes[m].eclipsed
    BY <2>2, <2>4 DEF Where
  <2> QED
    BY <2>1, <2>5 DEF AttributionInv, IdsInv
<1> QED
  BY <1>1, <1>2

LEMMA AttributionInit == TracingInit => AttributionInv
<1> SUFFICES ASSUME TracingInit PROVE AttributionInv
  OBVIOUS
<1>1. Depth = 0 /\ ids = Unset
  BY DEF TracingInit, Depth
<1> QED
  BY <1>1, TracingInitTypes DEF AttributionInv, HasInner, IdsInv

\* A scope that opens.
LEMMA OpenAttribution ==
  ASSUME AttributionInv, TracingTypes', NEW s \in Scopes, Push(s), tracer' = tracer,
         \/ s.kind # "instruction" /\ s.ids = Unset /\ ids' = ids
         \/ /\ s.kind = "instruction" /\ ids' = s.ids /\ (~tracer => s.ids = Unset /\ ids = Unset)
  PROVE  AttributionInv'
<1>1. /\ Depth \in Nat /\ Depth' = Depth + 1 /\ scopes'[Depth + 1] = s
      /\ \A i \in 1 .. Depth : scopes'[i] = scopes[i]
  BY Pushed DEF AttributionInv, Depth
<1>2. ASSUME NEW n \in 1 .. Depth, NEW m \in 1 .. n
      PROVE  Inner(scopes', m, n) <=> Inner(scopes, m, n)
  BY <1>1 DEF Inner
<1>3. CASE s.kind # "instruction"
  <2>1. \A m \in 1 .. Depth + 1 :
           Inner(scopes', m, Depth + 1) <=> m \in 1 .. Depth /\ Inner(scopes, m, Depth)
    BY <1>1, <1>3 DEF Inner
  <2>2. (\A i \in 1 .. Depth + 1 : scopes'[i].kind # "instruction") <=>
           \A i \in 1 .. Depth : scopes[i].kind # "instruction"
    BY <1>1, <1>3
  <2>3. HasInner'
    <3> SUFFICES ASSUME NEW n \in 1 .. Depth + 1
                 PROVE  \/ \A i \in 1 .. n : scopes'[i].kind # "instruction"
                        \/ \E m \in 1 .. n : Inner(scopes', m, n)
      BY <1>1 DEF HasInner
    <3>1. CASE n \in 1 .. Depth
      BY <1>1, <1>2, <3>1 DEF AttributionInv, HasInner
    <3>2. CASE n = Depth + 1
      <4>1. CASE Depth = 0
        BY <1>1, <1>3, <3>2, <4>1
      <4>2. CASE Depth # 0
        <5>1. \/ \A i \in 1 .. Depth : scopes[i].kind # "instruction"
              \/ \E m \in 1 .. Depth : Inner(scopes, m, Depth)
          BY <1>1, <4>2 DEF AttributionInv, HasInner
        <5> QED
          BY <1>1, <2>1, <2>2, <3>2, <5>1
      <4> QED
        BY <4>1, <4>2
    <3> QED
      BY <1>1, <3>1, <3>2
  <2>4. IdsInv'
    <3>1. ids' = ids /\ s.ids = Unset
      BY <1>3
    <3> QED
      BY <1>1, <2>1, <2>2, <3>1 DEF AttributionInv, IdsInv
  <2> QED
    BY <2>3, <2>4 DEF AttributionInv
<1>4. CASE s.kind = "instruction"
  <2>1. \A m \in 1 .. Depth + 1 : Inner(scopes', m, Depth + 1) <=> m = Depth + 1
    BY <1>1, <1>4 DEF Inner
  <2>2. HasInner'
    <3> SUFFICES ASSUME NEW n \in 1 .. Depth + 1
                 PROVE  \/ \A i \in 1 .. n : scopes'[i].kind # "instruction"
                        \/ \E m \in 1 .. n : Inner(scopes', m, n)
      BY <1>1 DEF HasInner
    <3>1. CASE n \in 1 .. Depth
      BY <1>1, <1>2, <3>1 DEF AttributionInv, HasInner
    <3>2. CASE n = Depth + 1
      BY <1>1, <2>1, <3>2
    <3> QED
      BY <1>1, <3>1, <3>2
  <2>3. IdsInv'
    <3>1. ids' = s.ids /\ (~tracer => s.ids = Unset)
      BY <1>4
    <3> QED
      BY <1>1, <1>4, <2>1, <3>1 DEF AttributionInv, IdsInv
  <2> QED
    BY <2>2, <2>3 DEF AttributionInv
<1> QED
  BY <1>3, <1>4

\* A scope without ids that closes.
LEMMA CloseAttribution ==
  ASSUME AttributionInv, TracingTypes', scopes # <<>>, scopes' = Rest,
         Top.kind # "instruction", UNCHANGED <<tracer, ids>>
  PROVE  AttributionInv'
<1>1. /\ Depth \in Nat \ {0} /\ Depth' = Depth - 1 /\ scopes[Depth].kind # "instruction"
      /\ \A i \in 1 .. Depth - 1 : scopes'[i] = scopes[i]
  BY Popped DEF AttributionInv, Depth
<1>2. ASSUME NEW n \in 1 .. Depth - 1, NEW m \in 1 .. n
      PROVE  Inner(scopes', m, n) <=> Inner(scopes, m, n)
  BY <1>1 DEF Inner
<1>3. HasInner'
  BY <1>1, <1>2 DEF AttributionInv, HasInner
<1>4. ASSUME NEW m \in 1 .. Depth - 1
      PROVE  Inner(scopes', m, Depth - 1) <=> Inner(scopes, m, Depth)
  BY <1>1 DEF Inner
<1>5. (\A i \in 1 .. Depth - 1 : scopes'[i].kind # "instruction") =>
         \A i \in 1 .. Depth : scopes[i].kind # "instruction"
  BY <1>1
<1>6. IdsInv'
  BY <1>1, <1>4, <1>5 DEF AttributionInv, IdsInv
<1> QED
  BY <1>3, <1>6 DEF AttributionInv

\* An instruction that closes leaves no ids, and its mark on what encloses it.
LEMMA CloseInstructionAttribution ==
  ASSUME AttributionInv, TracingTypes', CloseInstruction
  PROVE  AttributionInv'
<1>1. /\ Depth \in Nat \ {0} /\ Depth' = Depth - 1
      /\ \A i \in 1 .. Depth - 1 :
            /\ scopes'[i].kind = scopes[i].kind
            /\ scopes'[i].ids = scopes[i].ids
            /\ scopes[i].kind = "instruction" => scopes'[i].eclipsed
  BY Eclipsed DEF AttributionInv, Depth
<1>2. ASSUME NEW n \in 1 .. Depth - 1, NEW m \in 1 .. n
      PROVE  Inner(scopes', m, n) <=> Inner(scopes, m, n)
  BY <1>1 DEF Inner
<1>3. HasInner'
  BY <1>1, <1>2 DEF AttributionInv, HasInner
<1>4. ids' = Unset /\ tracer' = tracer
  BY DEF CloseInstruction, AttributionInv, IdsInv
<1>5. IdsInv'
  BY <1>1, <1>4 DEF AttributionInv, IdsInv, Inner
<1> QED
  BY <1>3, <1>5 DEF AttributionInv

LEMMA AttributionNext ==
  ASSUME AttributionInv, [TracingNext]_tracingVars
  PROVE  AttributionInv'
<1>0. TracingTypes'
  BY TracingNextTypes DEF AttributionInv
<1> USE <1>0
<1>1. CASE OpenMethod
  <2>1. Scope("method", started', Unset) \in Scopes
    BY DEF Scope, Scopes, ScopeKinds, TracingTypes, NoEntry
  <2> QED
    BY <1>1, <2>1, OpenAttribution DEF OpenMethod, Scope
<1>2. CASE OpenOp
  <2>1. Scope("op", IF OpProfiled THEN started' ELSE NoEntry, Unset) \in Scopes
    BY EntriesAssumption DEF Scope, Scopes, ScopeKinds, TracingTypes, NoEntry
  <2> QED
    BY <1>2, <2>1, OpenAttribution DEF OpenOp, Scope
<1>3. CASE CloseMethod \/ CloseOp
  BY <1>3, CloseAttribution DEF CloseMethod, CloseOp
<1>4. CASE CloseInstruction
  BY <1>4, CloseInstructionAttribution
<1>5. ASSUME NEW i \in Instruction, OpenInstruction(i)
      PROVE  AttributionInv'
  <2>1. Scope("instruction", NoEntry, IF tracer THEN i ELSE Unset) \in Scopes
    BY EntriesAssumption DEF Scope, Scopes, ScopeKinds, NoEntry
  <2> QED
    BY <1>5, <2>1, OpenAttribution DEF OpenInstruction, Scope, AttributionInv, IdsInv
<1>6. CASE UNCHANGED <<tracer, ids, scopes>>
  BY <1>6 DEF AttributionInv, HasInner, IdsInv, Inner, Depth
<1> QED
  BY <1>1, <1>2, <1>3, <1>4, <1>5, <1>6
  DEF TracingNext, Begin, End, LogDelegate, LogEValue, set_event_tracer_profiling_level,
      set_event_tracer_debug_level, tracingVars

\* Every step that records an event records what RecordedNow says of it.
LEMMA RecordedWell ==
  ASSUME AttributionInv, EventsAttributed, [TracingNext]_tracingVars
  PROVE  EventsAttributed'
<1>1. CASE Record
  <2>1. last'.ids = ids /\ last'.in = Where
    BY <1>1 DEF Record
  <2> QED
    BY <2>1, RecordedNow DEF EventsAttributed
<1>2. CASE UNCHANGED last
  BY <1>2 DEF EventsAttributed
<1>3. Record \/ UNCHANGED last
  BY DEF TracingNext, OpenMethod, OpenOp, CloseMethod, CloseOp, CloseInstruction,
         OpenInstruction, Begin, End, LogDelegate, LogEValue, start_profiling,
         set_event_tracer_profiling_level, set_event_tracer_debug_level, tracingVars
<1> QED
  BY <1>1, <1>2, <1>3

(* An event bears the ids of the instruction it happened in, unless an     *)
(* inner one has closed, and then none: never those of another.            *)
THEOREM AttributesEvents == TracingSpec => []EventsAttributed
<1>1. TracingInit => EventsAttributed
  BY DEF TracingInit, EventsAttributed, Where, InstructionScopes
<1> QED
  BY <1>1, AttributionInit, AttributionNext, RecordedWell, PTL DEF TracingSpec

-----------------------------------------------------------------------------
(* The entries.                                                            *)

\* Which scopes have an entry, and that no entry is held twice.
EntriesHeld ==
    \A i \in 1 .. Depth :
        /\ scopes[i].kind = "method" => (scopes[i].entry # NoEntry <=> tracer)
        /\ scopes[i].kind = "op" => (scopes[i].entry # NoEntry <=> OpProfiled)
        /\ scopes[i].kind = "instruction" => scopes[i].entry = NoEntry
        /\ scopes[i].entry \in 0 .. started
        /\ scopes[i].entry \notin manual

HeldOnce ==
    \A i, j \in 1 .. Depth :
        i # j /\ scopes[i].entry = scopes[j].entry => scopes[i].entry = NoEntry

\* An entry handed out is ended once or still held, by a scope or by hand.
InScope(e) == \E i \in 1 .. Depth : scopes[i].entry = e
EndedOrHeld ==
    /\ \A e \in 1 .. started : tracer /\ (ended[e] = 0 \/ ended[e] = 1)
    /\ \A e \in 1 .. started : ended[e] = 0 <=> e \in manual \/ InScope(e)
    /\ \A e \in NoEntry .. MaxEntries : e = NoEntry \/ e > started => ended[e] = 0

PairedInv == TracingTypes /\ (~moved => EntriesHeld /\ HeldOnce /\ EndedOrHeld)

LEMMA PairedInit == TracingInit => PairedInv
<1> SUFFICES ASSUME TracingInit PROVE PairedInv
  OBVIOUS
<1>1. Depth = 0 /\ started = 0 /\ \A e \in NoEntry .. MaxEntries : ended[e] = 0
  BY DEF TracingInit, Depth
<1> QED
  BY <1>1, TracingInitTypes DEF PairedInv, EntriesHeld, HeldOnce, EndedOrHeld

LEMMA PairedImplies == PairedInv => EntriesPaired
<1> SUFFICES ASSUME PairedInv, ~moved PROVE EntriesPaired
  BY DEF EntriesPaired
<1>1. started \in 0 .. MaxEntries /\ Depth \in Nat
  BY DEF PairedInv, TracingTypes, Depth
<1>2. ended[NoEntry] = 0
  BY EntriesAssumption DEF PairedInv, EndedOrHeld, NoEntry
<1>3. \A e \in 1 .. started : e \in Pending <=> e \in manual \/ InScope(e)
  BY <1>1 DEF Pending, InScope, NoEntry, Depth
<1>4. ~tracer => started = 0
  BY <1>1 DEF PairedInv, EndedOrHeld
<1>5. \A e \in 1 .. started : ended[e] = IF tracer /\ e \notin Pending THEN 1 ELSE 0
  BY <1>3 DEF PairedInv, EndedOrHeld
<1> QED
  BY <1>2, <1>4, <1>5 DEF EntriesPaired

\* A scope that opens, with a new entry or without one.
LEMMA OpenPaired ==
  ASSUME PairedInv, TracingTypes', NEW s \in Scopes, Push(s),
         UNCHANGED <<tracer, profiling, manual, ended, moved>>,
         \/ s.kind = "method" /\ (s.entry # NoEntry <=> tracer)
         \/ s.kind = "op" /\ (s.entry # NoEntry <=> OpProfiled)
         \/ s.kind = "instruction" /\ s.entry = NoEntry,
         \/ s.entry = NoEntry /\ started' = started
         \/ tracer /\ s.entry = started + 1 /\ started' = started + 1,
         ~moved
  PROVE  PairedInv'
<1> SUFFICES (EntriesHeld /\ HeldOnce /\ EndedOrHeld)'
  BY DEF PairedInv
<1>1. /\ Depth \in Nat /\ Depth' = Depth + 1 /\ scopes'[Depth + 1] = s
      /\ \A i \in 1 .. Depth : scopes'[i] = scopes[i]
  BY Pushed DEF PairedInv, Depth
<1>2. /\ started \in Nat /\ started' \in started .. started + 1 /\ started' <= MaxEntries
      /\ manual \subseteq 1 .. started
  BY EntriesAssumption DEF PairedInv, TracingTypes
<1>3. EntriesHeld /\ HeldOnce /\ EndedOrHeld
  BY DEF PairedInv
<1>4. OpProfiled' <=> OpProfiled
  BY DEF OpProfiled
<1>5. s.entry \in 0 .. started' /\ s.entry \notin manual
  BY <1>2 DEF NoEntry
<1>6. EntriesHeld'
  <2> SUFFICES ASSUME NEW i \in 1 .. Depth + 1
               PROVE  /\ scopes'[i].kind = "method" => (scopes'[i].entry # NoEntry <=> tracer)
                      /\ scopes'[i].kind = "op" => (scopes'[i].entry # NoEntry <=> OpProfiled)
                      /\ scopes'[i].kind = "instruction" => scopes'[i].entry = NoEntry
                      /\ scopes'[i].entry \in 0 .. started'
                      /\ scopes'[i].entry \notin manual
    BY <1>1, <1>4 DEF EntriesHeld
  <2>1. CASE i \in 1 .. Depth
    <3>1. scopes'[i] = scopes[i] /\ \A e \in 0 .. started : e \in 0 .. started'
      BY <1>1, <1>2, <2>1
    <3> QED
      BY <1>3, <2>1, <3>1 DEF EntriesHeld
  <2>2. CASE i = Depth + 1
    <3>1. scopes'[i] = s
      BY <1>1, <2>2
    <3> QED
      BY <1>5, <3>1
  <2> QED
    BY <1>1, <2>1, <2>2
<1>7. \A i \in 1 .. Depth : scopes[i].entry \in 0 .. started
  BY <1>3 DEF EntriesHeld
<1>8. HeldOnce'
  BY <1>1, <1>2, <1>3, <1>7 DEF HeldOnce, NoEntry
<1>9. ASSUME NEW e \in 1 .. started'
      PROVE  InScope(e)' <=> InScope(e) \/ e = started + 1
  BY <1>1, <1>2, <1>7 DEF InScope, NoEntry
<1>10. EndedOrHeld'
  <2>1. ASSUME NEW e \in 1 .. started'
        PROVE  /\ tracer /\ (ended[e] = 0 \/ ended[e] = 1)
               /\ ended[e] = 0 <=> e \in manual \/ InScope(e)'
    <3>1. CASE e \in 1 .. started
      <4>1. InScope(e)' <=> InScope(e)
        BY <1>2, <1>9, <3>1
      <4> QED
        BY <1>3, <3>1, <4>1 DEF EndedOrHeld
    <3>2. CASE e = started + 1
      <4>1. tracer
        BY <1>2, <3>2
      <4>2. ended[e] = 0
        BY <1>2, <1>3, <3>2 DEF EndedOrHeld, NoEntry
      <4>3. InScope(e)'
        BY <1>9, <3>2
      <4> QED
        BY <4>1, <4>2, <4>3
    <3> QED
      BY <1>2, <3>1, <3>2
  <2>2. ASSUME NEW e \in NoEntry .. MaxEntries, e = NoEntry \/ e > started'
        PROVE  ended[e] = 0
    BY <1>2, <1>3, <2>2 DEF EndedOrHeld
  <2> QED
    BY <2>1, <2>2 DEF EndedOrHeld
<1> QED
  BY <1>6, <1>8, <1>10

\* A scope that closes: if it has an entry, the entry is ended.
LEMMA ClosePaired ==
  ASSUME PairedInv, TracingTypes',
         Depth \in Nat \ {0}, Depth' = Depth - 1,
         \A i \in 1 .. Depth - 1 :
            scopes'[i].kind = scopes[i].kind /\ scopes'[i].entry = scopes[i].entry,
         UNCHANGED <<tracer, profiling, manual, started, moved>>,
         IF scopes[Depth].entry = NoEntry THEN ended' = ended
         ELSE end_profiling(scopes[Depth].entry),
         ~moved
  PROVE  PairedInv'
<1> SUFFICES (EntriesHeld /\ HeldOnce /\ EndedOrHeld)'
  BY DEF PairedInv
<1>1. EntriesHeld /\ HeldOnce /\ EndedOrHeld
  BY DEF PairedInv
<1>2. OpProfiled' <=> OpProfiled
  BY DEF OpProfiled
<1>3. EntriesHeld'
  BY <1>1, <1>2 DEF EntriesHeld
<1>4. HeldOnce'
  BY <1>1 DEF HeldOnce
<1>5. PICK top \in 0 .. started : top = scopes[Depth].entry /\ top \notin manual
  BY <1>1 DEF EntriesHeld
<1>6. /\ started \in Nat /\ started <= MaxEntries
      /\ ended \in [NoEntry .. MaxEntries -> 0 .. 2]
  BY EntriesAssumption DEF PairedInv, TracingTypes
<1>7. ASSUME NEW e \in 1 .. started
      PROVE  InScope(e)' <=> InScope(e) /\ e # top
  <2>1. InScope(e) <=> e = top \/ \E i \in 1 .. Depth - 1 : scopes[i].entry = e
    BY <1>5 DEF InScope
  <2>2. \A i \in 1 .. Depth - 1 : scopes[i].entry = top => top = NoEntry
    BY <1>1, <1>5 DEF HeldOnce
  <2>3. InScope(e)' <=> \E i \in 1 .. Depth - 1 : scopes[i].entry = e
    BY DEF InScope
  <2> QED
    BY <2>1, <2>2, <2>3 DEF NoEntry
<1>8. CASE top = NoEntry
  <2>1. \A e \in 1 .. started : InScope(e)' <=> InScope(e)
    BY <1>7, <1>8 DEF NoEntry
  <2>2. EndedOrHeld'
    BY <1>1, <1>5, <1>8, <2>1 DEF EndedOrHeld
  <2> QED
    BY <1>3, <1>4, <2>2
<1>9. CASE top # NoEntry
  <2>1. top \in 1 .. started /\ InScope(top)
    BY <1>5, <1>9 DEF InScope, NoEntry
  <2>2. ended[top] = 0
    BY <1>1, <2>1 DEF EndedOrHeld
  <2>3. ended' = [ended EXCEPT ![top] = 1]
    BY <1>5, <1>6, <1>9, <2>1, <2>2 DEF end_profiling
  <2>4. \A e \in NoEntry .. MaxEntries : ended'[e] = IF e = top THEN 1 ELSE ended[e]
    BY <1>6, <2>3
  <2>5. ASSUME NEW e \in 1 .. started
        PROVE  /\ tracer /\ (ended'[e] = 0 \/ ended'[e] = 1)
               /\ ended'[e] = 0 <=> e \in manual \/ InScope(e)'
    <3>0. e \in NoEntry .. MaxEntries
      BY <1>6, EntriesAssumption DEF NoEntry
    <3>1. CASE e = top
      <4>1. ended'[e] = 1
        BY <2>4, <3>0, <3>1
      <4>2. tracer /\ ~InScope(e)' /\ e \notin manual
        BY <1>1, <1>5, <1>7, <3>1 DEF EndedOrHeld
      <4> QED
        BY <4>1, <4>2
    <3>2. CASE e # top
      <4>1. ended'[e] = ended[e]
        BY <2>4, <3>0, <3>2
      <4>2. InScope(e)' <=> InScope(e)
        BY <1>7, <3>2
      <4> QED
        BY <1>1, <4>1, <4>2 DEF EndedOrHeld
    <3> QED
      BY <3>1, <3>2
  <2>6. ASSUME NEW e \in NoEntry .. MaxEntries, e = NoEntry \/ e > started
        PROVE  ended'[e] = 0
    BY <1>1, <1>6, <2>1, <2>4, <2>6 DEF EndedOrHeld, NoEntry
  <2>7. EndedOrHeld'
    BY <2>5, <2>6 DEF EndedOrHeld
  <2> QED
    BY <1>3, <1>4, <2>7
<1> QED
  BY <1>8, <1>9

\* An event begun by hand.
LEMMA BeginPaired ==
  ASSUME PairedInv, TracingTypes', Begin
  PROVE  PairedInv'
<1> SUFFICES ASSUME ~moved PROVE (EntriesHeld /\ HeldOnce /\ EndedOrHeld)'
  BY DEF PairedInv, Begin
<1>1. EntriesHeld /\ HeldOnce /\ EndedOrHeld
  BY DEF PairedInv
<1>2. UNCHANGED <<tracer, profiling, scopes, ended>> /\ Depth' = Depth
  BY DEF Begin, Depth
<1>3. CASE ~tracer
  BY <1>1, <1>2, <1>3
  DEF Begin, EntriesHeld, HeldOnce, EndedOrHeld, InScope, OpProfiled
<1>4. CASE tracer
  <2>1. started' = started + 1 /\ manual' = manual \cup {started + 1}
    BY <1>4 DEF Begin, start_profiling
  <2>2. started \in Nat /\ manual \subseteq 1 .. started /\ started + 1 <= MaxEntries
    BY <2>1, EntriesAssumption DEF PairedInv, TracingTypes
  <2>3. \A i \in 1 .. Depth : scopes[i].entry \in 0 .. started
    BY <1>1 DEF EntriesHeld
  <2>4. EntriesHeld'
    <3>1. ASSUME NEW i \in 1 .. Depth
          PROVE  scopes[i].entry \in 0 .. started + 1 /\ scopes[i].entry \notin manual \cup {started + 1}
      BY <1>1, <2>2, <2>3 DEF EntriesHeld
    <3> QED
      BY <1>1, <1>2, <2>1, <3>1 DEF EntriesHeld, OpProfiled
  <2>5. HeldOnce'
    BY <1>1, <1>2 DEF HeldOnce
  <2>6. \A e \in 1 .. started + 1 : InScope(e)' <=> InScope(e)
    BY <1>2 DEF InScope
  <2>7. ASSUME NEW e \in 1 .. started + 1
        PROVE  /\ ended[e] = 0 \/ ended[e] = 1
               /\ ended[e] = 0 <=> e \in manual \cup {started + 1} \/ InScope(e)
    <3>1. CASE e \in 1 .. started
      BY <1>1, <2>2, <3>1 DEF EndedOrHeld
    <3>2. CASE e = started + 1
      BY <1>1, <2>2, <3>2 DEF EndedOrHeld, NoEntry
    <3> QED
      BY <2>2, <3>1, <3>2
  <2>8. ASSUME NEW e \in NoEntry .. MaxEntries, e = NoEntry \/ e > started + 1
        PROVE  ended[e] = 0
    BY <1>1, <2>2, <2>8 DEF EndedOrHeld, NoEntry
  <2>9. EndedOrHeld'
    BY <1>2, <1>4, <2>1, <2>6, <2>7, <2>8 DEF EndedOrHeld
  <2> QED
    BY <2>4, <2>5, <2>9
<1> QED
  BY <1>3, <1>4

\* An event ended by hand.
LEMMA EndPaired ==
  ASSUME PairedInv, TracingTypes', NEW entry \in manual, End(entry)
  PROVE  PairedInv'
<1> SUFFICES ASSUME ~moved PROVE (EntriesHeld /\ HeldOnce /\ EndedOrHeld)'
  BY DEF PairedInv, End
<1>1. EntriesHeld /\ HeldOnce /\ EndedOrHeld
  BY DEF PairedInv
<1>2. /\ UNCHANGED <<tracer, profiling, scopes, started>> /\ Depth' = Depth
      /\ manual' = manual \ {entry}
  BY DEF End, Depth
<1>3. /\ started \in Nat /\ started <= MaxEntries /\ entry \in 1 .. started
      /\ ended \in [NoEntry .. MaxEntries -> 0 .. 2]
  BY EntriesAssumption DEF PairedInv, TracingTypes
<1>4. EntriesHeld' /\ HeldOnce'
  BY <1>1, <1>2 DEF EntriesHeld, HeldOnce, OpProfiled
<1>5. ended[entry] = 0
  BY <1>1, <1>3 DEF EndedOrHeld
<1>6. \A e \in NoEntry .. MaxEntries : ended'[e] = IF e = entry THEN 1 ELSE ended[e]
  BY <1>3, <1>5 DEF End, end_profiling
<1>7. \A e \in 1 .. started : e = entry => ~InScope(e)
  BY <1>1 DEF EntriesHeld, InScope
<1>8. \A e \in 1 .. started : InScope(e)' <=> InScope(e)
  BY <1>2 DEF InScope
<1>9. ASSUME NEW e \in 1 .. started
      PROVE  /\ tracer /\ (ended'[e] = 0 \/ ended'[e] = 1)
             /\ ended'[e] = 0 <=> e \in manual \ {entry} \/ InScope(e)
  <2>0. e \in NoEntry .. MaxEntries
    BY <1>3, EntriesAssumption DEF NoEntry
  <2>1. CASE e = entry
    <3>1. ended'[e] = 1
      BY <1>6, <2>0, <2>1
    <3>2. tracer /\ ~InScope(e)
      BY <1>1, <1>7, <2>1 DEF EndedOrHeld
    <3> QED
      BY <2>1, <3>1, <3>2
  <2>2. CASE e # entry
    <3>1. ended'[e] = ended[e]
      BY <1>6, <2>0, <2>2
    <3> QED
      BY <1>1, <2>2, <3>1 DEF EndedOrHeld
  <2> QED
    BY <2>1, <2>2
<1>10. ASSUME NEW e \in NoEntry .. MaxEntries, e = NoEntry \/ e > started
       PROVE  ended'[e] = 0
  BY <1>1, <1>3, <1>6, <1>10 DEF EndedOrHeld, NoEntry
<1>11. EndedOrHeld'
  BY <1>2, <1>8, <1>9, <1>10 DEF EndedOrHeld
<1> QED
  BY <1>4, <1>11

\* The profiling level changes: unless an operator scope is open, or the level
\* stays as it is, the entries are no longer accounted for.
LEMMA LevelPaired ==
  ASSUME PairedInv, TracingTypes', NEW level \in Levels, set_event_tracer_profiling_level(level)
  PROVE  PairedInv'
<1> SUFFICES ASSUME ~moved' PROVE (EntriesHeld /\ HeldOnce /\ EndedOrHeld)'
  BY DEF PairedInv
<1>1. /\ ~moved
      /\ \A i \in 1 .. Depth : scopes[i].kind = "op" => level = profiling
      /\ UNCHANGED <<tracer, scopes, manual, started, ended>> /\ profiling' = level
  BY DEF set_event_tracer_profiling_level, Depth
<1>2. EntriesHeld /\ HeldOnce /\ EndedOrHeld
  BY <1>1 DEF PairedInv
<1>3. \A i \in 1 .. Depth : scopes[i].kind = "op" => (OpProfiled' <=> OpProfiled)
  BY <1>1 DEF OpProfiled
<1>4. EntriesHeld'
  BY <1>1, <1>2, <1>3 DEF EntriesHeld, Depth
<1>5. HeldOnce' /\ EndedOrHeld'
  BY <1>1, <1>2 DEF HeldOnce, EndedOrHeld, InScope, Depth
<1> QED
  BY <1>4, <1>5

LEMMA PairedNext ==
  ASSUME PairedInv, [TracingNext]_tracingVars
  PROVE  PairedInv'
<1>0. TracingTypes'
  BY TracingNextTypes DEF PairedInv
<1> USE <1>0
<1>a. CASE moved
  <2>1. moved'
    BY <1>a
    DEF TracingNext, OpenMethod, OpenOp, CloseMethod, CloseOp, CloseInstruction,
        OpenInstruction, Begin, End, LogDelegate, LogEValue,
        set_event_tracer_profiling_level, set_event_tracer_debug_level, tracingVars
  <2> QED
    BY <2>1 DEF PairedInv
<1>b. CASE ~moved
  <2>0. /\ started \in Nat /\ started + 1 # NoEntry /\ (~tracer => started = NoEntry)
        /\ EntriesHeld
    BY <1>b, EntriesAssumption DEF PairedInv, TracingTypes, EndedOrHeld, NoEntry
  <2>1. CASE OpenMethod
    <3> DEFINE s == Scope("method", started', Unset)
    <3>1. s \in Scopes /\ s.kind = "method" /\ s.entry = started'
      BY DEF Scope, Scopes, ScopeKinds, TracingTypes, NoEntry
    <3>2. Push(s) /\ UNCHANGED <<tracer, profiling, manual, ended, moved>>
      BY <2>1 DEF OpenMethod
    <3>3. IF tracer THEN started' = started + 1 ELSE started' = NoEntry /\ started' = started
      BY <2>0, <2>1 DEF OpenMethod, start_profiling
    <3> HIDE DEF s
    <3> QED
      BY <1>b, <2>0, <3>1, <3>2, <3>3, OpenPaired
  <2>2. CASE OpenOp
    <3> DEFINE s == Scope("op", IF OpProfiled THEN started' ELSE NoEntry, Unset)
    <3>1. /\ s \in Scopes /\ s.kind = "op"
          /\ s.entry = IF OpProfiled THEN started' ELSE NoEntry
      BY EntriesAssumption DEF Scope, Scopes, ScopeKinds, TracingTypes, NoEntry
    <3>2. Push(s) /\ UNCHANGED <<tracer, profiling, manual, ended, moved>>
      BY <2>2 DEF OpenOp
    <3>3. IF OpProfiled THEN started' = started + 1 ELSE started' = started
      BY <2>2 DEF OpenOp, start_profiling
    <3>4. OpProfiled => tracer
      BY DEF OpProfiled
    <3> HIDE DEF s
    <3> QED
      BY <1>b, <2>0, <3>1, <3>2, <3>3, <3>4, OpenPaired
  <2>3. ASSUME NEW i \in Instruction, OpenInstruction(i)
        PROVE  PairedInv'
    <3> DEFINE s == Scope("instruction", NoEntry, IF tracer THEN i ELSE Unset)
    <3>1. s \in Scopes /\ s.kind = "instruction" /\ s.entry = NoEntry
      BY EntriesAssumption DEF Scope, Scopes, ScopeKinds, NoEntry
    <3>2. Push(s) /\ UNCHANGED <<tracer, profiling, manual, ended, moved, started>>
      BY <2>3 DEF OpenInstruction
    <3> HIDE DEF s
    <3> QED
      BY <1>b, <3>1, <3>2, OpenPaired
  <2>4. CASE CloseMethod \/ CloseOp
    <3>1. scopes # <<>> /\ scopes' = Rest /\ UNCHANGED <<tracer, profiling, manual, started, moved>>
      BY <2>4 DEF CloseMethod, CloseOp
    <3>2. /\ Depth \in Nat \ {0} /\ Depth' = Depth - 1 /\ Top = scopes[Depth]
          /\ \A i \in 1 .. Depth - 1 : scopes'[i] = scopes[i]
      BY <3>1, Popped DEF PairedInv, Depth
    <3>3. \/ Top.kind = "method" /\ IF tracer THEN end_profiling(Top.entry) ELSE ended' = ended
          \/ Top.kind = "op" /\ IF OpProfiled THEN end_profiling(Top.entry) ELSE ended' = ended
      BY <2>4 DEF CloseMethod, CloseOp
    <3>4. /\ Top.kind = "method" => (Top.entry # NoEntry <=> tracer)
          /\ Top.kind = "op" => (Top.entry # NoEntry <=> OpProfiled)
      BY <2>0, <3>2 DEF EntriesHeld
    <3>5. IF Top.entry = NoEntry THEN ended' = ended ELSE end_profiling(Top.entry)
      BY <3>3, <3>4
    <3> QED
      BY <1>b, <3>1, <3>2, <3>5, ClosePaired
  <2>5. CASE CloseInstruction
    <3>1. /\ Depth \in Nat \ {0} /\ Depth' = Depth - 1 /\ Top = scopes[Depth]
          /\ \A i \in 1 .. Depth - 1 :
                scopes'[i].kind = scopes[i].kind /\ scopes'[i].entry = scopes[i].entry
      BY <2>5, Eclipsed, Popped DEF PairedInv, Depth, CloseInstruction
    <3>2. scopes[Depth].entry = NoEntry
      BY <2>0, <2>5, <3>1 DEF EntriesHeld, CloseInstruction
    <3>3. UNCHANGED <<tracer, profiling, manual, started, moved, ended>>
      BY <2>5 DEF CloseInstruction
    <3> QED
      BY <1>b, <3>1, <3>2, <3>3, ClosePaired
  <2>6. CASE Begin
    BY <2>6, BeginPaired
  <2>7. ASSUME NEW e \in manual, End(e)
        PROVE  PairedInv'
    BY <2>7, EndPaired
  <2>8. ASSUME NEW l \in Levels, set_event_tracer_profiling_level(l)
        PROVE  PairedInv'
    BY <2>8, LevelPaired
  <2>9. CASE UNCHANGED <<tracer, profiling, scopes, manual, started, ended, moved>>
    BY <2>9 DEF PairedInv, EntriesHeld, HeldOnce, EndedOrHeld, InScope, OpProfiled, Depth
  <2> QED
    BY <2>1, <2>2, <2>3, <2>4, <2>5, <2>6, <2>7, <2>8, <2>9
    DEF TracingNext, LogDelegate, LogEValue, set_event_tracer_debug_level, tracingVars, Levels
<1> QED
  BY <1>a, <1>b

(* Every entry the tracer hands out is given back exactly once, by the     *)
(* scope or the caller that holds it, unless the profiling level changes   *)
(* while an operator scope is open.                                        *)
THEOREM PairsEntries == TracingSpec => []EntriesPaired
<1>1. TracingSpec => []PairedInv
  BY PairedInit, PairedNext, PTL DEF TracingSpec
<1> QED
  BY <1>1, PairedImplies, PTL

-----------------------------------------------------------------------------
(* Ownership.                                                              *)

Kinds == {"none", "result", "buffer", "box"}

OwnTypes ==
    /\ objects \in [Place -> [kind : Kinds, has : BOOLEAN, data : Nat]]
    /\ loads \in Seq([fn : BOOLEAN])
    /\ Len(loads) <= MaxLoads
    /\ freed \in [1 .. MaxLoads -> 0 .. 2]

\* Only an object with a value holds data, and only data that was loaded.
HeldIsLoaded ==
    \A p \in Place : /\ objects[p].data \in 0 .. Len(loads)
                     /\ ~objects[p].has => objects[p].data = Null
                     /\ objects[p].kind = "none" => ~objects[p].has

\* No two objects hold the same data: what is moved out of leaves nothing behind.
OneHolder ==
    \A p, q \in Place :
        p # q /\ objects[p].data = objects[q].data => objects[p].data = Null

\* Data to be freed is held until it is freed, and freed at most once.
HeldOrFreed ==
    \A r \in 1 .. MaxLoads :
        /\ r > Len(loads) => freed[r] = 0
        /\ r <= Len(loads) /\ ~loads[r].fn => freed[r] = 0
        /\ r <= Len(loads) /\ loads[r].fn =>
               \/ freed[r] = 0 /\ \E p \in Place : objects[p].data = r
               \/ freed[r] = 1 /\ \A p \in Place : objects[p].data # r

OwnIInv == OwnTypes /\ HeldIsLoaded /\ OneHolder /\ HeldOrFreed

-----------------------------------------------------------------------------
(* The data in the objects.  Every operation but get_data passes data from *)
(* object to object or lets go of it; what it lets go of it frees.         *)

LEMMA OwnInitInv == OwnInit => OwnIInv
  BY LoadsAssumption
  DEF OwnInit, OwnIInv, OwnTypes, HeldIsLoaded, OneHolder, HeldOrFreed, Nothing, Kinds, Null

\* What Free does to each block's count.
LEMMA FreeCounts ==
  ASSUME OwnTypes, NEW o, o.data \in Nat, o.has \in BOOLEAN, Free(o)
  PROVE  /\ freed' \in [1 .. MaxLoads -> 0 .. 2]
         /\ \A r \in 1 .. MaxLoads :
               freed'[r] = IF o.has /\ o.data = r /\ loads[r].fn
                           THEN IF freed[r] = 0 THEN 1 ELSE 2 ELSE freed[r]
<1>1. CASE o.has /\ o.data # Null /\ loads[o.data].fn
  <2>1. freed' = [freed EXCEPT ![o.data] = IF @ = 0 THEN 1 ELSE 2]
    BY <1>1 DEF Free
  <2>2. \A r \in 1 .. MaxLoads :
           freed'[r] = IF o.data = r THEN IF freed[r] = 0 THEN 1 ELSE 2 ELSE freed[r]
    BY <2>1 DEF OwnTypes
  <2>3. (IF freed[o.data] = 0 THEN 1 ELSE 2) \in 0 .. 2
    OBVIOUS
  <2>4. freed' \in [1 .. MaxLoads -> 0 .. 2]
    BY <2>1, <2>3 DEF OwnTypes
  <2> QED
    BY <1>1, <2>2, <2>4
<1>2. CASE ~(o.has /\ o.data # Null /\ loads[o.data].fn)
  BY <1>2 DEF Free, OwnTypes, Null
<1> QED
  BY <1>1, <1>2

\* Appending a block to the loaded ones.
LEMMA LenAppend ==
  ASSUME NEW s \in Seq([fn : BOOLEAN]), NEW fn \in BOOLEAN
  PROVE  /\ Append(s, [fn |-> fn]) \in Seq([fn : BOOLEAN])
         /\ Len(Append(s, [fn |-> fn])) = Len(s) + 1 /\ Len(s) \in Nat
         /\ \A r \in 1 .. Len(s) : Append(s, [fn |-> fn])[r] = s[r]
<1>1. [fn |-> fn] \in [fn : BOOLEAN]
  OBVIOUS
<1> QED
  BY <1>1

\* get_data puts a new block into an empty object.
LEMMA GetDataInv ==
  ASSUME OwnIInv, NEW key \in Key, NEW p \in Place, GetData(key, p)
  PROVE  OwnIInv'
<1>1. PICK error, map : Answer(p, key, map, error)
  BY DEF GetData
<1>2. objects[p].kind = "none" /\ Len(loads) < MaxLoads /\ freed' = freed
  BY DEF GetData, Empty
<1>3. OwnTypes'
  <2>2. /\ Len(loads) \in Nat
        /\ Object("result", TRUE, Len(loads) + 1) \in [kind : Kinds, has : BOOLEAN, data : Nat]
        /\ Object("result", FALSE, Null) \in [kind : Kinds, has : BOOLEAN, data : Nat]
    BY DEF OwnIInv, OwnTypes, Object, Kinds, Null
  <2>3. objects' \in [Place -> [kind : Kinds, has : BOOLEAN, data : Nat]]
    BY <1>1, <2>2 DEF Answer, OwnIInv, OwnTypes
  <2>4. loads' \in Seq([fn : BOOLEAN]) /\ Len(loads') <= MaxLoads
    <3>1. loads' = loads \/ \E fn \in BOOLEAN : loads' = Append(loads, [fn |-> fn])
      BY <1>1 DEF Answer
    <3>2. loads \in Seq([fn : BOOLEAN]) /\ Len(loads) <= MaxLoads
      BY DEF OwnIInv, OwnTypes
    <3>3. CASE \E fn \in BOOLEAN : loads' = Append(loads, [fn |-> fn])
      BY <1>2, <3>2, <3>3, LenAppend, LoadsAssumption
    <3> QED
      BY <3>1, <3>2, <3>3
  <2> QED
    BY <1>2, <2>3, <2>4 DEF OwnIInv, OwnTypes
<1>4. CASE error = "Ok"
  <2>1. PICK fn \in BOOLEAN : loads' = Append(loads, [fn |-> fn])
    BY <1>1, <1>4 DEF Answer
  <2>2. /\ Len(loads') = Len(loads) + 1 /\ Len(loads) \in Nat
        /\ \A r \in 1 .. Len(loads) : loads'[r] = loads[r]
    BY <2>1 DEF OwnIInv, OwnTypes
  <2>3. objects' = [objects EXCEPT ![p] = Object("result", TRUE, Len(loads) + 1)]
    BY <1>1, <1>4 DEF Answer
  <2>4. /\ objects'[p] = Object("result", TRUE, Len(loads) + 1)
        /\ \A q \in Place \ {p} : objects'[q] = objects[q]
    BY <2>3 DEF OwnIInv, OwnTypes
  <2>5. objects[p].data = Null
    BY <1>2 DEF OwnIInv, OwnTypes, HeldIsLoaded
  <2>6. \A q \in Place \ {p} : objects[q].data \in 0 .. Len(loads)
    BY DEF OwnIInv, HeldIsLoaded
  <2>7. HeldIsLoaded'
    BY <2>2, <2>4 DEF OwnIInv, OwnTypes, HeldIsLoaded, Object, Null
  <2>8. OneHolder'
    BY <2>2, <2>4, <2>6 DEF OwnIInv, OneHolder, Object, Null
  <2>9. HeldOrFreed'
    <3> SUFFICES ASSUME NEW r \in 1 .. MaxLoads
                 PROVE  /\ r > Len(loads') => freed'[r] = 0
                        /\ r <= Len(loads') /\ ~loads'[r].fn => freed'[r] = 0
                        /\ r <= Len(loads') /\ loads'[r].fn =>
                             \/ freed'[r] = 0 /\ \E q \in Place : objects'[q].data = r
                             \/ freed'[r] = 1 /\ \A q \in Place : objects'[q].data # r
      BY DEF HeldOrFreed
    <3>1. CASE r = Len(loads) + 1
      BY <1>2, <2>2, <2>4, <3>1 DEF OwnIInv, HeldOrFreed, Object
    <3>2. CASE r # Len(loads) + 1
      <4>1. \A q \in Place : (objects'[q].data = r) <=> (objects[q].data = r)
        BY <2>4, <2>5, <3>2 DEF Object, Null
      <4> QED
        BY <1>2, <2>2, <3>2, <4>1 DEF OwnIInv, HeldOrFreed
    <3> QED
      BY <3>1, <3>2
  <2> QED
    BY <1>3, <2>7, <2>8, <2>9 DEF OwnIInv
<1>5. CASE error # "Ok"
  <2>1. loads' = loads /\ objects' = [objects EXCEPT ![p] = Object("result", FALSE, Null)]
    BY <1>1, <1>5 DEF Answer
  <2>2. HeldIsLoaded' /\ OneHolder' /\ HeldOrFreed'
    BY <1>2, <2>1
    DEF OwnIInv, OwnTypes, HeldIsLoaded, OneHolder, HeldOrFreed, Object, Null
  <2> QED
    BY <1>3, <2>2 DEF OwnIInv
<1> QED
  BY <1>4, <1>5

\* The moved-from object holds nothing.
LEMMA MoveInv ==
  ASSUME OwnIInv, NEW p \in Place, NEW q \in Place, Move(p, q)
  PROVE  OwnIInv'
<1> USE LoadsAssumption DEF Move, Moved, Empty, Null, OwnIInv, OwnTypes
<1>1. OwnTypes'
  BY DEF Kinds
<1>2. HeldIsLoaded'
  BY DEF HeldIsLoaded
<1>3. OneHolder'
  BY DEF HeldIsLoaded, OneHolder
<1>4. HeldOrFreed'
  BY DEF HeldIsLoaded, OneHolder, HeldOrFreed
<1> QED
  BY <1>1, <1>2, <1>3, <1>4

\* The value goes from the Result to the buffer, or there is none.
LEMMA UnwrapInv ==
  ASSUME OwnIInv, NEW p \in Place, NEW q \in Place, Unwrap(p, q)
  PROVE  OwnIInv'
<1> USE LoadsAssumption DEF Unwrap, Moved, Object, Empty, Null, OwnIInv, OwnTypes
<1>1. OwnTypes'
  BY DEF Kinds
<1>2. HeldIsLoaded'
  BY DEF HeldIsLoaded
<1>3. OneHolder'
  BY DEF HeldIsLoaded, OneHolder
<1>4. HeldOrFreed'
  BY DEF HeldIsLoaded, OneHolder, HeldOrFreed
<1> QED
  BY <1>1, <1>2, <1>3, <1>4

\* A new box is empty.
LEMMA NewBoxInv ==
  ASSUME OwnIInv, NEW p \in Place, NewBox(p)
  PROVE  OwnIInv'
<1> USE LoadsAssumption DEF NewBox, Object, Empty, Null, OwnIInv, OwnTypes
<1>1. OwnTypes'
  BY DEF Kinds
<1>2. HeldIsLoaded'
  BY DEF HeldIsLoaded
<1>3. OneHolder'
  BY DEF HeldIsLoaded, OneHolder
<1>4. HeldOrFreed'
  BY DEF HeldIsLoaded, OneHolder, HeldOrFreed
<1> QED
  BY <1>1, <1>2, <1>3, <1>4

\* The box frees what it held before it takes the buffer's data.
LEMMA BoxResetInv ==
  ASSUME OwnIInv, NEW p \in Place, NEW q \in Place, BoxReset(p, q)
  PROVE  OwnIInv'
<1>1. OwnTypes'
  <2>1. objects' \in [Place -> [kind : Kinds, has : BOOLEAN, data : Nat]]
    BY DEF Kinds, BoxReset, Moved, Object, Null, OwnIInv, OwnTypes
  <2>2. freed' \in [1 .. MaxLoads -> 0 .. 2]
    BY FreeCounts DEF BoxReset, OwnIInv, OwnTypes
  <2> QED
    BY <2>1, <2>2 DEF BoxReset, OwnIInv, OwnTypes
<1>2. HeldIsLoaded'
  BY DEF HeldIsLoaded, BoxReset, Moved, Object, Null, OwnIInv, OwnTypes
<1>3. OneHolder'
  BY DEF HeldIsLoaded, OneHolder, BoxReset, Moved, Object, Null, OwnIInv, OwnTypes
<1>4. HeldOrFreed'
  <2>1. /\ objects[p] \in [kind : Kinds, has : BOOLEAN, data : Nat] /\ p # q
        /\ objects'[p].data = objects[q].data /\ objects'[q].data = 0
        /\ \A o \in Place \ {p, q} : objects'[o].data = objects[o].data
    BY DEF BoxReset, Moved, Object, Null, OwnIInv, OwnTypes
  <2>2. \A r \in 1 .. MaxLoads :
           freed'[r] = IF objects[p].has /\ objects[p].data = r /\ loads[r].fn
                       THEN IF freed[r] = 0 THEN 1 ELSE 2 ELSE freed[r]
    BY <2>1, FreeCounts DEF BoxReset, OwnIInv, OwnTypes
  <2>3. \A r \in 1 .. MaxLoads : objects[p].data = r =>
           objects[p].has /\ r <= Len(loads) /\ \A o \in Place : o # p => objects[o].data # r
    BY <2>1 DEF HeldIsLoaded, OneHolder, OwnIInv, Null
  <2>4. \A r \in 1 .. MaxLoads : objects[p].data # r =>
           ((\E o \in Place : objects'[o].data = r) <=> (\E o \in Place : objects[o].data = r))
    BY <2>1
  <2> SUFFICES ASSUME NEW r \in 1 .. MaxLoads
               PROVE  /\ r > Len(loads) => freed'[r] = 0
                      /\ r <= Len(loads) /\ ~loads[r].fn => freed'[r] = 0
                      /\ r <= Len(loads) /\ loads[r].fn =>
                           \/ freed'[r] = 0 /\ \E o \in Place : objects'[o].data = r
                           \/ freed'[r] = 1 /\ \A o \in Place : objects'[o].data # r
    BY DEF HeldOrFreed, BoxReset
  <2>5. /\ r > Len(loads) => freed[r] = 0
        /\ r <= Len(loads) /\ ~loads[r].fn => freed[r] = 0
        /\ r <= Len(loads) /\ loads[r].fn =>
             \/ freed[r] = 0 /\ \E o \in Place : objects[o].data = r
             \/ freed[r] = 1 /\ \A o \in Place : objects[o].data # r
    BY DEF HeldOrFreed, OwnIInv
  <2>6. CASE objects[p].data = r
    <3>1. /\ r <= Len(loads) /\ objects[p].has
          /\ \A o \in Place : objects'[o].data # r
      BY <2>1, <2>3, <2>6
    <3>2. CASE loads[r].fn
      BY <2>2, <2>5, <2>6, <3>1, <3>2
    <3>3. CASE ~loads[r].fn
      BY <2>2, <2>5, <2>6, <3>1, <3>3
    <3> QED
      BY <3>2, <3>3
  <2>7. CASE objects[p].data # r
    <3>1. freed'[r] = freed[r]
      BY <2>2, <2>7
    <3>2. (\A o \in Place : objects'[o].data # r) <=> (\A o \in Place : objects[o].data # r)
      BY <2>4, <2>7
    <3> QED
      BY <2>4, <2>5, <2>7, <3>1, <3>2
  <2> QED
    BY <2>6, <2>7
<1> QED
  BY <1>1, <1>2, <1>3, <1>4 DEF OwnIInv

\* A buffer freed by hand holds nothing afterwards.
LEMMA FreeNowInv ==
  ASSUME OwnIInv, NEW p \in Place, FreeNow(p)
  PROVE  OwnIInv'
<1> USE LoadsAssumption DEF FreeNow, Free, Null, OwnIInv, OwnTypes
<1>1. OwnTypes'
  <2>1. objects' \in [Place -> [kind : Kinds, has : BOOLEAN, data : Nat]]
    BY DEF Kinds
  <2> QED
    BY <2>1, FreeCounts
<1>2. HeldIsLoaded'
  BY DEF HeldIsLoaded
<1>3. OneHolder'
  BY DEF HeldIsLoaded, OneHolder
<1>4. HeldOrFreed'
  BY FreeCounts DEF HeldIsLoaded, OneHolder, HeldOrFreed
<1> QED
  BY <1>1, <1>2, <1>3, <1>4

\* An object that goes frees what it held.
LEMMA DestroyInv ==
  ASSUME OwnIInv, NEW p \in Place, Destroy(p)
  PROVE  OwnIInv'
<1> USE LoadsAssumption DEF Destroy, Free, Nothing, Empty, Null, OwnIInv, OwnTypes
<1>1. OwnTypes'
  <2>1. objects' \in [Place -> [kind : Kinds, has : BOOLEAN, data : Nat]]
    BY DEF Kinds
  <2> QED
    BY <2>1, FreeCounts
<1>2. HeldIsLoaded'
  BY DEF HeldIsLoaded
<1>3. OneHolder'
  BY DEF HeldIsLoaded, OneHolder
<1>4. HeldOrFreed'
  BY FreeCounts DEF HeldIsLoaded, OneHolder, HeldOrFreed
<1> QED
  BY <1>1, <1>2, <1>3, <1>4

-----------------------------------------------------------------------------
(* The invariant is inductive.                                             *)

LEMMA OwnNextInv == OwnIInv /\ [OwnNext]_ownVars => OwnIInv'
<1> SUFFICES ASSUME OwnIInv, [OwnNext]_ownVars PROVE OwnIInv'
  OBVIOUS
<1>1. CASE \E key \in Key, p \in Place : GetData(key, p)
  BY <1>1, GetDataInv
<1>2. CASE \E p, q \in Place : Move(p, q) \/ Unwrap(p, q) \/ BoxReset(p, q)
  BY <1>2, MoveInv, UnwrapInv, BoxResetInv
<1>3. CASE \E p \in Place : NewBox(p) \/ FreeNow(p) \/ Destroy(p)
  BY <1>3, NewBoxInv, FreeNowInv, DestroyInv
<1>4. CASE UNCHANGED ownVars
  BY <1>4 DEF ownVars, OwnIInv, OwnTypes, HeldIsLoaded, OneHolder, HeldOrFreed
<1> QED
  BY <1>1, <1>2, <1>3, <1>4 DEF OwnNext

\* The objects that hold a block are one, or none.
LEMMA HoldersCounted == OwnIInv => FreedOnce
<1> SUFFICES ASSUME OwnIInv, NEW r \in 1 .. Len(loads)
             PROVE  LET holders == Cardinality({p \in Place : objects[p].has /\ objects[p].data = r})
                    IN  IF loads[r].fn THEN freed[r] + holders = 1
                        ELSE freed[r] = 0 /\ holders <= 1
  BY DEF FreedOnce
<1> DEFINE Holders == {p \in Place : objects[p].has /\ objects[p].data = r}
<1>1. r \in 1 .. MaxLoads /\ r # Null /\ freed[r] \in 0 .. 2 /\ r <= Len(loads)
  BY LoadsAssumption DEF OwnIInv, OwnTypes, Null
<1>2. \A p \in Place : p \in Holders <=> objects[p].data = r
  BY <1>1 DEF OwnIInv, HeldIsLoaded
<1>3. \A p, q \in Holders : p = q
  BY <1>1 DEF OwnIInv, OneHolder
<1>4. CASE Holders = {}
  <2>1. Cardinality(Holders) = 0
    BY <1>4, FS_EmptySet
  <2>2. \A p \in Place : objects[p].data # r
    BY <1>2, <1>4
  <2>3. IF loads[r].fn THEN freed[r] = 1 ELSE freed[r] = 0
    BY <1>1, <2>2 DEF OwnIInv, HeldOrFreed
  <2> QED
    BY <2>1, <2>3
<1>5. CASE Holders # {}
  <2>1. PICK p : p \in Holders
    BY <1>5
  <2>2. Holders = {p}
    BY <1>3, <2>1
  <2>3. Cardinality(Holders) = 1
    BY <2>2, FS_Singleton
  <2>4. freed[r] = 0
    BY <1>1, <1>2, <2>1 DEF OwnIInv, HeldOrFreed
  <2> QED
    BY <2>3, <2>4
<1> QED
  BY <1>4, <1>5

(* However loaded data is moved, unwrapped, boxed and let go of, it is     *)
(* freed exactly once if it has a free function: an object holds it until  *)
(* then and none does after.                                               *)
THEOREM FreesOnce == OwnSpec => []FreedOnce
<1>1. OwnSpec => []OwnIInv
  BY OwnInitInv, OwnNextInv, PTL DEF OwnSpec
<1> QED
  BY <1>1, HoldersCounted, PTL

-----------------------------------------------------------------------------
(* The merged map.                                                         *)

\* The maps are the loaded ones, and get_data ended where the key is.
MapsInv ==
    /\ first \in Maps /\ second \in Maps
    /\ load(first, second)
    /\ found.error = "NotFound" => found.key \notin KeysOf(first) \cup KeysOf(second)
    /\ found.error \in {"Ok", "AccessFailed"} =>
          found.at = IF found.key \in KeysOf(first) THEN first ELSE second

LEMMA MapsInitInv == OwnInit => MapsInv
  BY DEF OwnInit, MapsInv

LEMMA MapsNextInv == MapsInv /\ [OwnNext]_ownVars => MapsInv'
<1> SUFFICES ASSUME MapsInv, [OwnNext]_ownVars PROVE MapsInv'
  OBVIOUS
<1>1. CASE \E key \in Key, p \in Place : GetData(key, p)
  <2>1. PICK key \in Key, p \in Place : GetData(key, p)
    BY <1>1
  <2>2. CASE \E error \in DataIn(first, key) : error # "NotFound" /\ Answer(p, key, first, error)
    <3>1. PICK error \in DataIn(first, key) : error # "NotFound" /\ Answer(p, key, first, error)
      BY <2>2
    <3>2. key \in KeysOf(first)
      BY <3>1 DEF DataIn
    <3> QED
      BY <2>1, <3>1, <3>2 DEF MapsInv, GetData, Answer, load, LayoutIn
  <2>3. CASE /\ "NotFound" \in DataIn(first, key)
             /\ \E e \in DataIn(second, key) : Answer(p, key, second, e)
    <3>1. PICK e \in DataIn(second, key) : Answer(p, key, second, e)
      BY <2>3
    <3>2. key \notin KeysOf(first)
      BY <2>3 DEF DataIn
    <3>3. e = "NotFound" => key \notin KeysOf(second)
      BY <3>1 DEF DataIn
    <3> QED
      BY <2>1, <3>1, <3>2, <3>3 DEF MapsInv, GetData, Answer, load, LayoutIn
  <2> QED
    BY <2>1, <2>2, <2>3 DEF GetData
<1>2. CASE UNCHANGED <<first, second, found>>
  BY <1>2 DEF MapsInv, load, LayoutIn
<1> QED
  BY <1>1, <1>2
  DEF OwnNext, Move, Unwrap, BoxReset, NewBox, FreeNow, Destroy, ownVars

\* The indices at which get_key answers with a key.
Indices(key) == {i \in 0 .. get_num_keys - 1 : get_key(i) = key}
InFirst(key) == {i \in 0 .. Len(first.keys) - 1 : first.keys[i + 1] = key}
InSecond(key) == {i \in 1 .. Len(second.keys) : second.keys[i] = key}

LEMMA MapTypes ==
  ASSUME MapsInv
  PROVE  /\ first.keys \in Seq(Key) /\ second.keys \in Seq(Key)
         /\ Len(first.keys) \in Nat /\ Len(second.keys) \in Nat
         /\ first.layouts \in BOOLEAN /\ second.layouts \in BOOLEAN
  BY MapsAssumption DEF MapsInv

\* An index is one into the first map or, shifted, one into the second; a key
\* has at most one of each.
LEMMA IndicesSplit ==
  ASSUME MapsInv, NEW key
  PROVE  /\ \A i \in Indices(key) :
               /\ i < Len(first.keys) => i + 1 \in 1 .. Len(first.keys) /\ first.keys[i + 1] = key
               /\ i >= Len(first.keys) =>
                     /\ i - Len(first.keys) + 1 \in 1 .. Len(second.keys)
                     /\ second.keys[i - Len(first.keys) + 1] = key
         /\ \A i \in 1 .. Len(first.keys) : first.keys[i] = key => i - 1 \in Indices(key)
         /\ \A i \in 1 .. Len(second.keys) :
               second.keys[i] = key => i - 1 + Len(first.keys) \in Indices(key)
<1>0. PICK m \in Nat, n \in Nat : m = Len(first.keys) /\ n = Len(second.keys)
  BY MapTypes
<1>a. \A i : i \in Indices(key) <=>
            /\ i \in 0 .. m + n - 1
            /\ key = IF i < m THEN first.keys[i + 1] ELSE second.keys[i - m + 1]
  <2>1. get_num_keys = m + n
    BY <1>0 DEF get_num_keys
  <2>2. \A i : get_key(i) = IF i < m THEN first.keys[i + 1] ELSE second.keys[i - m + 1]
    BY <1>0 DEF get_key
  <2> QED
    BY <2>1, <2>2 DEF Indices
<1>1. ASSUME NEW i \in Indices(key)
      PROVE  /\ i < m => i + 1 \in 1 .. m /\ first.keys[i + 1] = key
             /\ i >= m => i - m + 1 \in 1 .. n /\ second.keys[i - m + 1] = key
  <2>1. i \in 0 .. m + n - 1
    BY <1>a
  <2>2. key = IF i < m THEN first.keys[i + 1] ELSE second.keys[i - m + 1]
    BY <1>a
  <2>3. i < m => i + 1 \in 1 .. m
    BY <2>1
  <2>4. i >= m => i - m + 1 \in 1 .. n /\ ~(i < m)
    BY <2>1
  <2> QED
    BY <2>2, <2>3, <2>4
<1>2. ASSUME NEW i \in 1 .. m, first.keys[i] = key
      PROVE  i - 1 \in Indices(key)
  <2>1. i - 1 \in 0 .. m + n - 1 /\ i - 1 < m /\ i - 1 + 1 = i
    OBVIOUS
  <2> QED
    BY <1>a, <1>2, <2>1
<1>3. ASSUME NEW i \in 1 .. n, second.keys[i] = key
      PROVE  i - 1 + m \in Indices(key)
  <2>1. i - 1 + m \in 0 .. m + n - 1 /\ ~(i - 1 + m < m) /\ i - 1 + m - m + 1 = i
    OBVIOUS
  <2> QED
    BY <1>a, <1>3, <2>1
<1> QED
  BY <1>0, <1>1, <1>2, <1>3

LEMMA ListedWhere ==
  ASSUME MapsInv, NEW key
  PROVE  /\ (\E i \in Indices(key) : i < Len(first.keys)) <=> key \in KeysOf(first)
         /\ (\E i \in Indices(key) : i >= Len(first.keys)) <=> key \in KeysOf(second)
         /\ \A i, j \in Indices(key) :
               i # j => \/ i < Len(first.keys) /\ j >= Len(first.keys)
                        \/ j < Len(first.keys) /\ i >= Len(first.keys)
<1>0. \A i \in Indices(key) : i \in Int
  BY MapTypes DEF Indices, get_num_keys
<1>1. (\E i \in Indices(key) : i < Len(first.keys)) <=> key \in KeysOf(first)
  <2>1. ASSUME NEW i \in Indices(key), i < Len(first.keys) PROVE key \in KeysOf(first)
    BY <2>1, IndicesSplit DEF KeysOf
  <2>2. ASSUME NEW i \in 1 .. Len(first.keys), first.keys[i] = key
        PROVE  i - 1 \in Indices(key) /\ i - 1 < Len(first.keys)
    BY <2>2, IndicesSplit, MapTypes
  <2> QED
    BY <2>1, <2>2 DEF KeysOf
<1>2. (\E i \in Indices(key) : i >= Len(first.keys)) <=> key \in KeysOf(second)
  <2>1. ASSUME NEW i \in Indices(key), i >= Len(first.keys) PROVE key \in KeysOf(second)
    BY <2>1, IndicesSplit DEF KeysOf
  <2>2. ASSUME NEW i \in 1 .. Len(second.keys), second.keys[i] = key
        PROVE  i - 1 + Len(first.keys) \in Indices(key) /\ i - 1 + Len(first.keys) >= Len(first.keys)
    BY <2>2, IndicesSplit, MapTypes
  <2> QED
    BY <2>1, <2>2 DEF KeysOf
<1>3. ASSUME NEW i \in Indices(key), NEW j \in Indices(key), i # j
      PROVE  \/ i < Len(first.keys) /\ j >= Len(first.keys)
             \/ j < Len(first.keys) /\ i >= Len(first.keys)
  <2>1. i \in Int /\ j \in Int
    BY <1>0
  <2>2. CASE i < Len(first.keys) /\ j < Len(first.keys)
    <3>1. i + 1 = j + 1
      BY <2>2, MapTypes, IndicesSplit, KeysAssumption DEF MapsInv
    <3> QED
      BY <1>3, <2>1, <3>1
  <2>3. CASE i >= Len(first.keys) /\ j >= Len(first.keys)
    <3>1. i - Len(first.keys) + 1 = j - Len(first.keys) + 1
      BY <2>3, MapTypes, IndicesSplit, KeysAssumption DEF MapsInv
    <3> QED
      BY <1>3, <2>1, <3>1, MapTypes
  <2> QED
    BY <2>1, <2>2, <2>3, MapTypes
<1> QED
  BY <1>1, <1>2, <1>3

\* How often a key is listed: once for each map that has it.
LEMMA ListedCount ==
  ASSUME MapsInv, NEW key
  PROVE  /\ Cardinality(Indices(key)) =
               Cardinality({i \in 1 .. 2 : key \in KeysOf(<<first, second>>[i])})
         /\ ~(key \in KeysOf(first) /\ key \in KeysOf(second)) => Cardinality(Indices(key)) <= 1
         /\ Indices(key) = {} <=> key \notin KeysOf(first) \cup KeysOf(second)
<1> DEFINE Having == {i \in 1 .. 2 : key \in KeysOf(<<first, second>>[i])}
<1>0. /\ \A i \in Indices(key) : i \in Int
      /\ \A i \in 1 .. 2 : i = 1 \/ i = 2
      /\ 1 \in Having <=> key \in KeysOf(first)
      /\ 2 \in Having <=> key \in KeysOf(second)
  BY MapTypes DEF Indices, get_num_keys
<1>1. CASE key \notin KeysOf(first) /\ key \notin KeysOf(second)
  <2>1. Indices(key) = {}
    BY <1>0, <1>1, MapTypes, ListedWhere
  <2>2. Having = {}
    BY <1>0, <1>1
  <2> QED
    BY <1>1, <2>1, <2>2, FS_EmptySet
<1>2. CASE key \in KeysOf(first) /\ key \notin KeysOf(second)
  <2>1. PICK i : Indices(key) = {i}
    <3>1. PICK i \in Indices(key) : i < Len(first.keys)
      BY <1>2, ListedWhere
    <3>2. \A j \in Indices(key) : j = i
      BY <1>0, <1>2, ListedWhere, MapTypes
    <3> QED
      BY <3>1, <3>2
  <2>2. Having = {1}
    BY <1>0, <1>2
  <2>3. Cardinality(Indices(key)) = 1 /\ Cardinality(Having) = 1
    BY <2>1, <2>2, FS_Singleton
  <2> QED
    BY <1>2, <2>1, <2>3
<1>3. CASE key \notin KeysOf(first) /\ key \in KeysOf(second)
  <2>1. PICK i : Indices(key) = {i}
    <3>1. PICK i \in Indices(key) : i >= Len(first.keys)
      BY <1>3, ListedWhere
    <3>2. \A j \in Indices(key) : j = i
      BY <1>0, <1>3, ListedWhere, MapTypes
    <3> QED
      BY <3>1, <3>2
  <2>2. Having = {2}
    BY <1>0, <1>3
  <2>3. Cardinality(Indices(key)) = 1 /\ Cardinality(Having) = 1
    BY <2>1, <2>2, FS_Singleton
  <2> QED
    BY <1>3, <2>1, <2>3
<1>4. CASE key \in KeysOf(first) /\ key \in KeysOf(second)
  <2>1. PICK i \in Indices(key) : i < Len(first.keys)
    BY <1>4, ListedWhere
  <2>2. PICK j \in Indices(key) : j >= Len(first.keys)
    BY <1>4, ListedWhere
  <2>3. i # j
    BY <1>0, <2>1, <2>2, MapTypes
  <2>4. Indices(key) = {i} \cup {j}
    BY <1>0, <2>1, <2>2, MapTypes, ListedWhere
  <2>5. Having = {1} \cup {2}
    BY <1>0, <1>4
  <2>6. Cardinality(Indices(key)) = 2 /\ Cardinality(Having) = 2
    <3>1. IsFiniteSet({i}) /\ Cardinality({i}) = 1 /\ IsFiniteSet({1}) /\ Cardinality({1}) = 1
      BY FS_Singleton
    <3>2. Cardinality({i} \cup {j}) = 2
      BY <2>3, <3>1, FS_AddElement
    <3>3. Cardinality({1} \cup {2}) = 2
      BY <3>1, FS_AddElement
    <3> QED
      BY <2>4, <2>5, <3>2, <3>3
  <2> QED
    BY <1>4, <2>1, <2>6
<1> QED
  BY <1>1, <1>2, <1>3, <1>4

LEMMA MergedAnswers == MapsInv => MergedFinds
<1> SUFFICES ASSUME MapsInv PROVE MergedFinds
  OBVIOUS
<1>1. ASSUME NEW key \in Key
      PROVE  /\ second.layouts => ~(key \in KeysOf(first) /\ key \in KeysOf(second))
             /\ (first.layouts /\ second.layouts) =>
                   (get_tensor_layout(key) = "Ok" <=> key \in KeysOf(first) \cup KeysOf(second))
  <2>1. second.layouts => ~(key \in KeysOf(first) /\ key \in KeysOf(second))
    BY MapTypes DEF MapsInv, load, LayoutIn, KeysOf
  <2>2. (first.layouts /\ second.layouts) =>
           (get_tensor_layout(key) = "Ok" <=> key \in KeysOf(first) \cup KeysOf(second))
    BY DEF get_tensor_layout, LayoutIn
  <2> QED
    BY <2>1, <2>2
<1>2. \A key \in Key :
         /\ Cardinality(Indices(key)) =
               Cardinality({i \in 1 .. 2 : key \in KeysOf(<<first, second>>[i])})
         /\ second.layouts => Cardinality(Indices(key)) <= 1
         /\ (first.layouts /\ second.layouts) =>
               (get_tensor_layout(key) = "Ok" <=> Indices(key) # {})
  BY <1>1, ListedCount
<1>3. found.error = "NotFound" => Indices(found.key) = {}
  BY ListedCount DEF MapsInv
<1>4. found.error \in {"Ok", "AccessFailed"} =>
         found.at = IF \E i \in Indices(found.key) : i < Len(first.keys) THEN first ELSE second
  BY ListedWhere DEF MapsInv
<1> QED
  BY <1>2, <1>3, <1>4 DEF MergedFinds, Indices

(* The merged map lists each key once for each map that has it, and        *)
(* get_data finds it where it is listed, the first map's before the        *)
(* second's; with layouts no key is in both, and each has its layout.      *)
THEOREM MergedMapFinds == OwnSpec => []MergedFinds
<1>1. OwnSpec => []MapsInv
  BY MapsInitInv, MapsNextInv, PTL DEF OwnSpec
<1> QED
  BY <1>1, MergedAnswers, PTL

=============================================================================
