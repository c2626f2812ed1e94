------------------------------- MODULE ScalarTypes -------------------------------
(***************************************************************************)
(* scalar_type_util.h: the element types of tensors, their classes, how    *)
(* the types of an operation's operands promote to one, what may be cast   *)
(* to what, and the switches that pick a kernel's code by type.            *)
(*                                                                         *)
(* The state is an operation that takes its operands one after the other:  *)
(* the common type so far is promoted with the next operand's.  An         *)
(* ET_CHECK that fails aborts, which is here a step that does not exist.   *)
(***************************************************************************)
EXTENDS Integers, Sequences

CONSTANT MaxOperands    \* bound: operands of one operation

VARIABLES
    operands,       \* the types of the operands taken so far
    common,         \* what they were promoted to
    halfToFloat     \* promoteTypes's third argument

typesVars == <<operands, common, halfToFloat>>

-----------------------------------------------------------------------------
(* Types and their classes.                                                *)

ET_FORALL_INT_TYPES == {"Byte", "Char", "Short", "Int", "Long"}
ET_FORALL_FLOAT_TYPES == {"Float", "Double"}
ET_FORALL_REAL_TYPES == ET_FORALL_INT_TYPES \cup ET_FORALL_FLOAT_TYPES
ET_FORALL_REALHBF16_TYPES == ET_FORALL_REAL_TYPES \cup {"Half", "BFloat16"}
ET_FORALL_REALHBBF16_TYPES == ET_FORALL_REALHBF16_TYPES \cup {"Bool"}
ET_FORALL_QINT_TYPES == {"QInt8", "QUInt8", "QInt32", "QUInt4x2", "QUInt2x4"}
ET_FORALL_COMPLEXH_TYPES == {"ComplexHalf", "ComplexFloat", "ComplexDouble"}

isIntegralType(t, includeBool) ==
    t \in {"Byte", "Char", "Int", "Long", "Short"} \/ (includeBool /\ t = "Bool")
isFloatingType(t) == t \in {"Double", "Float", "Half", "BFloat16"}
isRealHType(t) == t \in {"Byte", "Char", "Short", "Int", "Long", "Float", "Double", "Half"}
isRealHBType(t) == isRealHType(t) \/ t = "Bool"
isRealHBF16Type(t) == isRealHType(t) \/ t = "BFloat16"
isRealHBBF16Type(t) == isRealHBType(t) \/ t = "BFloat16"
isComplexType(t) == t \in {"ComplexHalf", "ComplexFloat", "ComplexDouble"}
isBitsType(t) == t \in {"Bits1x8", "Bits2x4", "Bits4x2", "Bits8", "Bits16"}
isQIntType(t) == t \in {"QInt8", "QUInt8", "QInt32", "QUInt4x2", "QUInt2x4"}
isFloat8Type(t) ==
    t \in {"Float8_e5m2", "Float8_e4m3fn", "Float8_e5m2fnuz", "Float8_e4m3fnuz"}
isBarebonesUnsignedType(t) == t \in {"UInt16", "UInt32", "UInt64"}

ET_FORALL_SCALAR_TYPES ==
    ET_FORALL_REALHBBF16_TYPES \cup ET_FORALL_COMPLEXH_TYPES \cup ET_FORALL_QINT_TYPES
      \cup {"Bits1x8", "Bits2x4", "Bits4x2", "Bits8", "Bits16", "Float8_e5m2",
            "Float8_e4m3fn", "Float8_e5m2fnuz", "Float8_e4m3fnuz", "UInt16", "UInt32", "UInt64"}

toComplexType(t) ==
    CASE t \in {"BFloat16", "Float", "ComplexFloat"} -> "ComplexFloat"
      [] t \in {"Half", "ComplexHalf"} -> "ComplexHalf"
      [] t \in {"Double", "ComplexDouble"} -> "ComplexDouble"
toRealValueType(t) ==
    CASE t = "ComplexHalf" -> "Half"
      [] t = "ComplexFloat" -> "Float"
      [] t = "ComplexDouble" -> "Double"
      [] OTHER -> t

-----------------------------------------------------------------------------
(* Promotion and casts.                                                    *)

\* Mutant: an order that is not the table's.
index2dtype_Swapped == <<"Byte", "Char", "Short", "Int", "Long", "Half", "Float", "Double",
                 "ComplexHalf", "ComplexFloat", "ComplexDouble", "BFloat16", "Bool">>

index2dtype == <<"Byte", "Char", "Short", "Int", "Long", "Half", "Float", "Double",
                 "ComplexHalf", "ComplexFloat", "ComplexDouble", "Bool", "BFloat16">>
Promotable == {index2dtype[i] : i \in 1 .. 13}
dtype2index(t) == CHOOSE i \in 1 .. 13 : index2dtype[i] = t

promoteTypesLookup ==
    LET u1 == 1  i1 == 2  i2 == 3  i4 == 4  i8 == 5  f2 == 6  f4 == 7  f8 == 8
        c2 == 9  c4 == 10  c8 == 11  b1 == 12  bf == 13
    IN  << <<u1, i2, i2, i4, i8, f2, f4, f8, c2, c4, c8, u1, bf>>,
           <<i2, i1, i2, i4, i8, f2, f4, f8, c2, c4, c8, i1, bf>>,
           <<i2, i2, i2, i4, i8, f2, f4, f8, c2, c4, c8, i2, bf>>,
           <<i4, i4, i4, i4, i8, f2, f4, f8, c2, c4, c8, i4, bf>>,
           <<i8, i8, i8, i8, i8, f2, f4, f8, c2, c4, c8, i8, bf>>,
           <<f2, f2, f2, f2, f2, f2, f4, f8, c2, c4, c8, f2, f4>>,
           <<f4, f4, f4, f4, f4, f4, f4, f8, c4, c4, c8, f4, f4>>,
           <<f8, f8, f8, f8, f8, f8, f8, f8, c8, c8, c8, f8, f8>>,
           <<c2, c2, c2, c2, c2, c2, c4, c8, c2, c4, c8, c2, c4>>,
           <<c4, c4, c4, c4, c4, c4, c4, c8, c4, c4, c8, c4, c4>>,
           <<c8, c8, c8, c8, c8, c8, c8, c8, c8, c8, c8, c8, c8>>,
           <<u1, i1, i2, i4, i8, f2, f4, f8, c2, c4, c8, b1, bf>>,
           <<bf, bf, bf, bf, bf, f4, f4, f8, c4, c4, c8, bf, bf>> >>

\* Quantised, bits, float8 and barebones unsigned types match themselves only.
ExactOnly(t) ==
    isQIntType(t) \/ isBitsType(t) \/ isFloat8Type(t) \/ isBarebonesUnsignedType(t)
CanPromote(a, b) == IF ExactOnly(a) \/ ExactOnly(b) THEN a = b ELSE {a, b} \subseteq Promotable

promoteTypes(a, b, half_to_float) ==
    LET promoted == index2dtype[promoteTypesLookup[dtype2index(a)][dtype2index(b)]]
    IN  IF ExactOnly(a) THEN a
        ELSE IF half_to_float /\ promoted \in {"Half", "BFloat16"} THEN "Float"
        ELSE promoted

\* No complex to real, no float to integer, nothing but bool to bool.
canCast(from, to) ==
    /\ ~(isComplexType(from) /\ ~isComplexType(to))
    /\ ~(isFloatingType(from) /\ isIntegralType(to, FALSE))
    /\ ~(from # "Bool" /\ to = "Bool")

-----------------------------------------------------------------------------
(* The cases of the ET_SWITCH_* macros; a type without a case fails the    *)
(* kernel with InvalidArgument.                                            *)

ET_SWITCH_INT_TYPES == {"Byte", "Char", "Short", "Int", "Long"}
ET_SWITCH_UINT_TYPES == {"UInt16", "UInt32", "UInt64"}
ET_SWITCH_REAL_TYPES == ET_SWITCH_INT_TYPES \cup {"Float", "Double"}
ET_SWITCH_REAL_TYPES_AND(more) == ET_SWITCH_REAL_TYPES \cup more
ET_SWITCH_REALHBF16_TYPES == ET_SWITCH_REAL_TYPES_AND({"Half", "BFloat16"})
ET_SWITCH_REALHB_TYPES == ET_SWITCH_REAL_TYPES_AND({"Half", "Bool"})
\* Mutant: a forgotten case.
ET_SWITCH_REALHBBF16_TYPES_NoBool == ET_SWITCH_REAL_TYPES_AND({"Half", "BFloat16"})

ET_SWITCH_REALHBBF16_TYPES == ET_SWITCH_REAL_TYPES_AND({"Half", "Bool", "BFloat16"})
ET_SWITCH_REALHBBF16_AND_UINT_TYPES == ET_SWITCH_REALHBBF16_TYPES \cup ET_SWITCH_UINT_TYPES
ET_SWITCH_FLOATHBF16_TYPES == {"Float", "Double", "Half", "BFloat16"}
ET_SWITCH_COMPLEXH_TYPES == {"ComplexFloat", "ComplexDouble", "ComplexHalf"}

-----------------------------------------------------------------------------
TypesInit ==
    /\ \E t \in ET_FORALL_SCALAR_TYPES : operands = <<t>> /\ common = t
    /\ halfToFloat \in BOOLEAN

NextOperand(t) ==
    /\ Len(operands) < MaxOperands
    /\ CanPromote(common, t)
    /\ operands' = Append(operands, t)
    /\ common' = promoteTypes(common, t, halfToFloat)
    /\ UNCHANGED halfToFloat

TypesNext == \E t \in ET_FORALL_SCALAR_TYPES : NextOperand(t)

TypesSpec == TypesInit /\ [][TypesNext]_typesVars

-----------------------------------------------------------------------------
(* What promotion is for, independently of the table: a type that holds    *)
(* the values of every operand, of the least kind there is (bool, integer, *)
(* float, complex), with the least range and precision of that kind.       *)

Kind(t) == IF t = "Bool" THEN 0 ELSE IF isIntegralType(t, FALSE) THEN 1
           ELSE IF isFloatingType(t) THEN 2 ELSE 3

\* Integers by their signed and unsigned widths, floats by the bits of their
\* exponent and mantissa.
Wide(t) ==
    CASE t = "Byte" -> <<8, 0>> [] t = "Char" -> <<7, 1>> [] t = "Short" -> <<15, 1>>
      [] t = "Int" -> <<31, 1>> [] t = "Long" -> <<63, 1>>
      [] t = "Half" -> <<5, 10>> [] t = "BFloat16" -> <<8, 7>>
      [] t = "Float" -> <<8, 23>> [] t = "Double" -> <<11, 52>>
Holds(t, u) == Wide(u)[1] <= Wide(t)[1] /\ Wide(u)[2] <= Wide(t)[2]

LeastHolding(candidates, types) ==
    LET fit == {t \in candidates : \A u \in types : Holds(t, u)}
    IN  CHOOSE t \in fit : \A u \in fit : Holds(u, t)

Join(types) ==
    LET kinds == {Kind(t) : t \in types}
        top == CHOOSE k \in kinds : \A l \in kinds : l <= k
        Components(from) == {toRealValueType(t) : t \in {u \in types : Kind(u) \in from}}
    IN  CASE top = 0 -> "Bool"
          [] top = 1 -> LeastHolding(ET_FORALL_INT_TYPES, Components({1}))
          [] top = 2 -> LeastHolding(ET_FORALL_FLOAT_TYPES \cup {"Half", "BFloat16"}, Components({2}))
          [] top = 3 -> toComplexType(LeastHolding({"Half", "Float", "Double"}, Components({2, 3})))

Taken == {operands[i] : i \in 1 .. Len(operands)}
Widened(t) == IF t \in {"Half", "BFloat16"} THEN "Float" ELSE t

(* Promoting operands one by one gives the same type in whatever order     *)
(* they come, the least that holds them all, and each may be cast to it.   *)
(* With half_to_float it is the join with float for the half types, as     *)
(* long as no operand is complex half, which is not widened.               *)
PromotionIsJoin ==
    Taken \subseteq Promotable =>
        /\ \A t \in Taken : canCast(t, common)
        /\ IF halfToFloat /\ Len(operands) > 1
           THEN "ComplexHalf" \notin Taken => common = Widened(Join(Taken))
           ELSE common = Join(Taken)

(* Operands that the kernel's checks let through promote to a type that    *)
(* the kernel's switch has a case for, and stay in their class.            *)
SwitchesHandle ==
    LET All(P(_)) == \A t \in Taken : P(t)
    IN  /\ All(isRealHBBF16Type) => common \in ET_SWITCH_REALHBBF16_TYPES
        /\ All(isRealHBF16Type) => common \in ET_SWITCH_REALHBF16_TYPES
        /\ All(isRealHBType) => common \in ET_SWITCH_REALHB_TYPES
        /\ All(isFloatingType) => common \in ET_SWITCH_FLOATHBF16_TYPES
        /\ All(LAMBDA t : isIntegralType(t, FALSE)) => common \in ET_SWITCH_INT_TYPES
        /\ All(isComplexType) => common \in ET_SWITCH_COMPLEXH_TYPES
        /\ All(LAMBDA t : isRealHBBF16Type(t) \/ isBarebonesUnsignedType(t)) =>
              common \in ET_SWITCH_REALHBBF16_AND_UINT_TYPES

=============================================================================
