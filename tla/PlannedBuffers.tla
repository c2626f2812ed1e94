---------------------------- MODULE PlannedBuffers ----------------------------
(***************************************************************************)
(* runner_init's placement of the memory-planned buffers of the model: the *)
(* sizes are summed, the sum decides between the method pool in DTCM and   *)
(* the DDR pool, the buffers are placed one by one, and the spans are what *)
(* the HierarchicalAllocator of the method is made of.                     *)
(***************************************************************************)
EXTENDS Naturals, Sequences, Sums

CONSTANTS
  Width, M,            \* bits of a size_t, and 2^Width
  Align,               \* 16
  PoolBase, PoolSize,  \* method_allocation_pool
  DdrBase, DdrSize,    \* planned_buffer_ddr_pool, _size
  RegionEnd,           \* end of ethosu_region, which holds the DDR pool
  SizeLists            \* buffer sizes in the model file (int64), as sequences

ASSUME MachineAssumption == /\ Width \in Nat /\ M \in Nat \ {0} /\ M = 2^Width
                            /\ Align \in Nat \ {0}
ASSUME ListsAssumption == SizeLists \subseteq Seq(Nat)
\* The pool does not lie so high that rounding an address up would wrap around.
ASSUME PoolAssumption ==
  PoolBase \in Nat \ {0} /\ PoolSize \in Nat /\ PoolBase + PoolSize + Align <= M
\* What follows the DDR pool in its region takes the padding of every buffer.
ASSUME DdrAssumption ==
  /\ DdrBase \in Nat /\ DdrSize \in Nat /\ RegionEnd \in 0..M-1
  /\ DdrBase % Align = 0
  /\ \A s \in SizeLists : DdrBase + DdrSize + Len(s) * (Align - 1) <= RegionEnd

VARIABLES
  sizes,               \* the model that was loaded
  pc,                  \* "sum", "place", "built", or "abort" (ET_CHECK failed)
  id,                  \* the loop variable
  total_planned_size, use_ddr_planned, ddr_planned_offset,
  planned_spans,       \* [start, size], in the order of the memory ids
  planned_buffer_memsize,
  cur_, used_, blocks, ret    \* ctx.method_allocator

alloc == <<cur_, used_, blocks, ret>>
vars == <<sizes, pc, id, total_planned_size, use_ddr_planned,
          ddr_planned_offset, planned_spans, planned_buffer_memsize, alloc>>

method_allocator == INSTANCE ArmAllocator
  WITH Base <- PoolBase, Sizes <- {}, Aligns <- {Align}, Counts <- {},
       MaxBlocks <- 0, call <- << >>

Add(x, y) == method_allocator!Add(x, y)

Init ==
  /\ sizes \in SizeLists
  /\ pc = "sum" /\ id = 0
  /\ total_planned_size = 0 /\ use_ddr_planned = FALSE
  /\ ddr_planned_offset = 0 /\ planned_spans = << >>
  /\ planned_buffer_memsize = 0
  /\ method_allocator!Init

\* static_cast<size_t>(memory_planned_buffer_size(id).get())
buffer_size == sizes[id + 1] % M

SumSize ==
  /\ pc = "sum" /\ id < Len(sizes)
  /\ total_planned_size' = Add(total_planned_size, buffer_size)
  /\ id' = id + 1
  /\ UNCHANGED <<sizes, pc, use_ddr_planned, ddr_planned_offset, planned_spans,
                 planned_buffer_memsize, alloc>>

\* The choice of the pool, and the check that the DDR pool is large enough.
Decide ==
  /\ pc = "sum" /\ id = Len(sizes)
  /\ use_ddr_planned' = (total_planned_size > PoolSize \div 2)
  /\ pc' = IF use_ddr_planned' /\ total_planned_size > DdrSize
           THEN "abort" ELSE "place"
  /\ id' = 0
  /\ UNCHANGED <<sizes, total_planned_size, ddr_planned_offset, planned_spans,
                 planned_buffer_memsize, alloc>>

\* Mutant: no alignment.
RoundUp_None(x) == x

\* (ddr_planned_offset + 15UL) & ~15UL
RoundUp(x) == LET y == Add(x, Align - 1) IN y - (y % Align)

AddSpan(start) ==
  planned_spans' = Append(planned_spans, [start |-> start, size |-> buffer_size])

\* Mutant: the offset does not advance past the buffer.
PlaceInDdr_NoAdvance ==
  /\ pc = "place" /\ id < Len(sizes) /\ use_ddr_planned
  /\ AddSpan(Add(DdrBase, RoundUp(ddr_planned_offset)))
  /\ ddr_planned_offset' = RoundUp(ddr_planned_offset)
  /\ id' = id + 1
  /\ UNCHANGED <<sizes, pc, total_planned_size, use_ddr_planned,
                 planned_buffer_memsize, alloc>>

PlaceInDdr ==
  /\ pc = "place" /\ id < Len(sizes) /\ use_ddr_planned
  /\ AddSpan(Add(DdrBase, RoundUp(ddr_planned_offset)))
  /\ ddr_planned_offset' = Add(RoundUp(ddr_planned_offset), buffer_size)
  /\ id' = id + 1
  /\ UNCHANGED <<sizes, pc, total_planned_size, use_ddr_planned,
                 planned_buffer_memsize, alloc>>

PlaceInDtcm ==
  /\ pc = "place" /\ id < Len(sizes) /\ ~use_ddr_planned
  /\ method_allocator!allocate(buffer_size, Align)
  /\ IF ret' = method_allocator!nullptr
     THEN pc' = "abort" /\ UNCHANGED <<id, planned_spans>>
     ELSE AddSpan(ret') /\ id' = id + 1 /\ UNCHANGED pc
  /\ UNCHANGED <<sizes, total_planned_size, use_ddr_planned,
                 ddr_planned_offset, planned_buffer_memsize>>

\* Mutant: always reports the method pool's figure.
Built_MethodPool ==
  /\ pc = "place" /\ id = Len(sizes)
  /\ planned_buffer_memsize' = method_allocator!used_size
  /\ pc' = "built"
  /\ UNCHANGED <<sizes, id, total_planned_size, use_ddr_planned,
                 ddr_planned_offset, planned_spans, alloc>>

Built ==
  /\ pc = "place" /\ id = Len(sizes)
  /\ planned_buffer_memsize' = IF use_ddr_planned THEN ddr_planned_offset
                               ELSE method_allocator!used_size
  /\ pc' = "built"
  /\ UNCHANGED <<sizes, id, total_planned_size, use_ddr_planned,
                 ddr_planned_offset, planned_spans, alloc>>

Next == SumSize \/ Decide \/ PlaceInDdr \/ PlaceInDtcm \/ Built

Spec == Init /\ [][Next]_vars

-----------------------------------------------------------------------------
(* Properties *)

TypeOK ==
  /\ pc \in {"sum", "place", "built", "abort"} /\ id \in 0..Len(sizes)
  /\ total_planned_size \in 0..M-1 /\ ddr_planned_offset \in 0..M-1
  /\ use_ddr_planned \in BOOLEAN /\ planned_buffer_memsize \in 0..M-1
  /\ planned_spans \in Seq([start : 0..M-1, size : 0..M-1])
  /\ cur_ \in PoolBase..PoolBase+PoolSize /\ used_ \in 0..M-1

\* The memory a span stands for was reserved for it: in the method pool, or in
\* the DDR region of the NPU, into which the padding between buffers may push
\* the last of them beyond the DDR pool.
End(s) == s.start + s.size
SpansReserved ==
  \A i \in 1..Len(planned_spans) :
    LET s == planned_spans[i]
    IN  /\ s.start % Align = 0
        /\ IF use_ddr_planned THEN DdrBase <= s.start /\ End(s) <= RegionEnd
           ELSE \E b \in 1..Len(blocks) : blocks[b].start = s.start /\ blocks[b].size = s.size
SpansDisjoint ==
  \A i, j \in 1..Len(planned_spans) :
    i < j => End(planned_spans[i]) <= planned_spans[j].start

\* The figure reported as planned covers the buffers laid out, and exceeds them
\* by the padding at most in DDR.  A sum that wrapped around is no exception:
\* it leads to the method pool, whose allocator then refuses a buffer.
LaidOut == Total([i \in 1..Len(planned_spans) |-> planned_spans[i].size])
ReportedCovers ==
  pc = "built" =>
    /\ LaidOut = total_planned_size
    /\ planned_buffer_memsize >= LaidOut
    /\ use_ddr_planned =>
         planned_buffer_memsize <= LaidOut + Len(sizes) * (Align - 1)

\* "Planned buffers exceed DDR pool": the buffers fit in the DDR pool whenever
\* the check has passed.
SpansInDdrPool ==
  use_ddr_planned => \A i \in 1..Len(planned_spans) :
    End(planned_spans[i]) <= DdrBase + DdrSize
=============================================================================
