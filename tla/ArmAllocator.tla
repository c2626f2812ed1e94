----------------------------- MODULE ArmAllocator -----------------------------
(***************************************************************************)
(* ArmMemoryAllocator on top of ExecuTorch's MemoryAllocator: the bump     *)
(* allocator behind the method pool, the temp pool and the input-file pool.*)
(* Addresses and sizes are size_t values, 0..M-1, and wrap around at M; an *)
(* allocator counts what it gave out twice, with cur_ and with used_.      *)
(***************************************************************************)
EXTENDS Naturals, Sequences, Sums

CONSTANTS Width, M,   \* bits of a size_t, and 2^Width: 32 on the Cortex-M33
          Base,       \* begin_, the base address of the pool
          PoolSize,   \* size_
          Sizes,      \* sizes that are asked for
          Aligns,     \* alignments that are asked for, valid or not
          Counts,     \* lengths of the lists that are asked for
          MaxBlocks   \* bound of the model: allocations between two resets

nullptr == 0

ASSUME SizesAssumption ==
  /\ Width \in Nat /\ M \in Nat \ {0} /\ M = 2^Width
  /\ Base \in Nat \ {0} /\ PoolSize \in Nat /\ MaxBlocks \in Nat
  /\ Sizes \subseteq 0..M-1 /\ Aligns \subseteq 0..M-1 /\ Counts \subseteq 0..M-1
\* No pool lies so high that rounding an address of it up would wrap around.
ASSUME PoolAssumption == \A a \in Aligns : Base + PoolSize + a <= M

VARIABLES cur_, used_,
          blocks,     \* what has been handed out since the last reset
          ret,        \* what the last call returned
          call        \* and the <<size in bytes, alignment>> it asked for

vars == <<cur_, used_, blocks, ret, call>>

end_ == Base + PoolSize

\* Sum of two size_t values.
Add(x, y) == IF x + y < M THEN x + y ELSE x + y - M

isPowerOf2(v) == v > 0 /\ \E i \in 0..Width-1 : v = 2^i

\* Mutant: the + 1 is missing.
NextMultiple_NoPlusOne(p, a) == Add(p - (p % a), a - 1)

\* (addr | (alignment - 1)) + 1, for a power of two.
NextMultiple(p, a) == Add(p - (p % a), a)

\* Mutant: rounds down.
alignPointer_Down(p, a) == p - (p % a)

alignPointer(p, a) == IF p % a = 0 THEN p ELSE NextMultiple(p, a)

Init == /\ cur_ = Base /\ used_ = 0 /\ blocks = << >>
        /\ ret = nullptr /\ call = << >>

ReturnNull == ret' = nullptr /\ UNCHANGED <<cur_, used_, blocks>>

\* Mutant: a sum that wrapped around is not caught.
allocate_NoWrapCheck(size, alignment) ==
  LET start == alignPointer(cur_, alignment)
      end   == Add(start, size)
  IN  IF ~isPowerOf2(alignment) \/ end > end_
      THEN ReturnNull
      ELSE /\ cur_' = end /\ used_' = Add(used_, size) /\ ret' = start
           /\ blocks' = Append(blocks, [start |-> start, size |-> size,
                                        align |-> alignment])

\* ArmMemoryAllocator::allocate, with the base class's allocate.  used_ is
\* updated after cur_ is, and looks at the size where the base class looks at
\* the address.
allocate(size, alignment) ==
  LET start == alignPointer(cur_, alignment)
      end   == Add(start, size)
  IN  IF ~isPowerOf2(alignment) \/ end > end_ \/ end < start
      THEN ReturnNull
      ELSE /\ cur_' = end
           /\ used_' = IF size % alignment = 0 THEN Add(used_, size)
                       ELSE Add(NextMultiple(used_, alignment), size)
           /\ blocks' = Append(blocks, [start |-> start, size |-> size,
                                        align |-> alignment])
           /\ ret' = start

\* Mutant: no overflow check.
allocateList_Unchecked(n, size, alignment) == allocate((n * size) % M, alignment)

\* allocateList: the multiplication is checked for overflow first.
allocateList(n, size, alignment) ==
  IF n * size >= M THEN ReturnNull ELSE allocate(n * size, alignment)

\* Mutant: used_ keeps its value, as with the base class's reset alone.
reset_KeepsUsed == cur_' = Base /\ blocks' = << >> /\ UNCHANGED <<used_, ret>>

\* reset, and Box::reset, which constructs a new allocator in place.
reset == cur_' = Base /\ used_' = 0 /\ blocks' = << >> /\ UNCHANGED ret

used_size == used_
free_size == Add(PoolSize, M - used_)

Allocate(s, a)        == allocate(s, a) /\ call' = <<s, a>>
AllocateList(n, s, a) == allocateList(n, s, a) /\ call' = <<n * s, a>>
Reset                 == reset /\ UNCHANGED call

Next ==
  \/ /\ Len(blocks) < MaxBlocks
     /\ \E s \in Sizes, a \in Aligns :
          Allocate(s, a) \/ \E n \in Counts : AllocateList(n, s, a)
  \/ Reset

Spec == Init /\ [][Next]_vars

-----------------------------------------------------------------------------
(* Properties *)

Blocks == [start : 0..M-1, size : 0..M-1, align : Nat]

Requests == {<<s, a>> : s \in Sizes, a \in Aligns}
            \cup {<<n * s, a>> : n \in Counts, s \in Sizes, a \in Aligns}

TypeOK == /\ cur_ \in Base..end_
          /\ used_ \in 0..M-1
          /\ blocks \in Seq(Blocks)
          /\ ret \in 0..M-1
          /\ call \in Requests \cup {<< >>}

\* Blocks lie inside the pool, at the alignment asked for, one after the
\* other, so no two of them overlap, and cur_ is past all of them.
BlocksInPool ==
  \A i \in 1..Len(blocks) :
    /\ Base <= blocks[i].start
    /\ blocks[i].start + blocks[i].size <= cur_
    /\ blocks[i].start % blocks[i].align = 0
BlocksDisjoint ==
  \A i, j \in 1..Len(blocks) :
    i < j => blocks[i].start + blocks[i].size <= blocks[j].start

\* What log_mem_status prints as used is not the extent of the pool in use but
\* brackets the bytes asked for: used_ is never less than their sum, and more
\* by at most one alignment a block.
Asked   == Total([i \in 1..Len(blocks) |-> blocks[i].size])
Padding == Total([i \in 1..Len(blocks) |-> blocks[i].align])
UsedBrackets == Asked <= used_ /\ used_ <= Asked + Padding

\* No alignment asked for exceeds a, and rounding used_ up n times leads from the
\* end of the pool to no wrap-around; n allocations are the most that round, as
\* each of those takes a byte of the pool.
RoundingFits(a, n) ==
  /\ a \in Nat /\ \A b \in Aligns : isPowerOf2(b) => b <= a
  /\ n \in {PoolSize, MaxBlocks} /\ PoolSize + n * a < M

\* Every call is answered as unbounded arithmetic would: the check
\* "end < start" refuses every size that wraps around, and nothing that fits
\* is refused.
ArenaSpec == INSTANCE Arena
  WITH top <- cur_, Alignments <- {a \in Aligns : isPowerOf2(a)}
IsArena == ArenaSpec!Spec
=============================================================================
