-------------------------------- MODULE Arena --------------------------------
(***************************************************************************)
(* What a bump allocator promises, in unbounded arithmetic: blocks carved  *)
(* in order out of [Base, Base + PoolSize), each at the next multiple of   *)
(* the alignment asked for, refused only when it does not fit, and given   *)
(* back all at once.                                                       *)
(***************************************************************************)
EXTENDS Naturals, Sequences

CONSTANTS Base, PoolSize,
          Alignments,   \* the alignments that are valid
          Requests      \* the requests <<size, alignment>> that may be made

VARIABLES top,          \* end of the last block
          blocks,       \* the blocks given out, [start, size, align], in order
          ret,          \* last result: an address, or 0
          call          \* the request it answered

Up(p, a) == IF p % a = 0 THEN p ELSE p - (p % a) + a

Init == top = Base /\ blocks = << >> /\ ret = 0 /\ call = << >>

Fits(size, align) ==
  align \in Alignments /\ Up(top, align) + size <= Base + PoolSize

Alloc(size, align) ==
  /\ Fits(size, align)
  /\ top' = Up(top, align) + size
  /\ blocks' = Append(blocks, [start |-> Up(top, align), size |-> size,
                               align |-> align])
  /\ ret' = Up(top, align)
  /\ call' = <<size, align>>

Refuse(size, align) ==
  /\ ~Fits(size, align)
  /\ ret' = 0
  /\ call' = <<size, align>>
  /\ UNCHANGED <<top, blocks>>

FreeAll == top' = Base /\ blocks' = << >> /\ UNCHANGED <<ret, call>>

Next == \/ FreeAll
        \/ \E r \in Requests : Alloc(r[1], r[2]) \/ Refuse(r[1], r[2])

Spec == Init /\ [][Next]_<<top, blocks, ret, call>>
=============================================================================
