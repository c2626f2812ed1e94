---------------------------- MODULE MCSemihosting ----------------------------
(* Methods of up to three inputs, tensors of a type the code fills and of one *)
(* it does not, and scalars.  The files passed are any, or those read from    *)
(* command lines that are short, repeat or forget an option, name a file like *)
(* an option, or end with an option that lacks its value.                     *)
EXTENDS Semihosting, SequencesExt

Inputs == {[tag |-> "Tensor", dtype |-> "Char", nbytes |-> 2],
           [tag |-> "Tensor", dtype |-> "Bool", nbytes |-> 0],
           [tag |-> "Int", dtype |-> "Char", nbytes |-> 0]}
AnyMethod == SeqOf(Inputs, 3)
AnyFiles == SeqOf({0, 2}, 4)

CommandLines ==
  {<<"app", "-m", "m">>,
   <<"app", "-m", "m", "-i", "a", "-o", "out">>,
   <<"app", "-i", "a", "-i", "b", "-m", "m">>,
   <<"app", "-i", "a", "-m", "m", "-i", "a">>,
   <<"app", "-m", "a", "-i", "b", "-m", "m">>,
   <<"app", "-i", "a", "-i", "b", "-o", "out">>,
   <<"app", "-m", "m", "-i", "-o", "-i", "a", "-i", "b">>,
   <<"app", "-x", "-i", "b", "-m", "m", "-i">>,
   <<"app", "-o", "-i", "-i", "a", "-m", "m", "-o">>}
Size(a, b, m, o) == "a" :> a @@ "b" :> b @@ "m" :> m @@ "-o" :> o
SomeDisks == {Size(2, 0, 5, 2), Size(1, 2, 3, 0), Size(2, 12, 5, 0), "b" :> 2 @@ "m" :> 5}
=============================================================================
