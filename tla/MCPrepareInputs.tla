---------------------------- MODULE MCPrepareInputs ----------------------------
(* Methods of up to three inputs, tensors of a type the code fills and of one *)
(* it does not, and scalars; files that match, that do not, too many of them. *)
EXTENDS PrepareInputs, SequencesExt

Inputs == {[tag |-> "Tensor", dtype |-> "Char", nbytes |-> 2],
           [tag |-> "Tensor", dtype |-> "Bool", nbytes |-> 0],
           [tag |-> "Int", dtype |-> "Char", nbytes |-> 0]}
AnyMethod == SeqOf(Inputs, 3)
AnyFiles == SeqOf({0, 2}, 4)
=============================================================================
