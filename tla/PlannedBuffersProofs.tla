------------------------- MODULE PlannedBuffersProofs -------------------------
(***************************************************************************)
(* That the planned buffers lie in memory reserved for them, one after the *)
(* other, and that the figure reported covers them: for any pools, any     *)
(* number of buffers and any sizes.                                        *)
(***************************************************************************)
EXTENDS PlannedBuffers, SumsProofs, Integers

-----------------------------------------------------------------------------
(* Arithmetic *)

\* What the assumptions say of the numbers, without the power of two.
LEMMA Numbers ==
  /\ M \in Nat \ {0} /\ Align \in Nat \ {0}
  /\ PoolBase \in Nat \ {0} /\ PoolSize \in Nat /\ PoolBase + PoolSize + Align <= M
  /\ DdrBase \in Nat /\ DdrSize \in Nat /\ RegionEnd \in Nat /\ RegionEnd < M
  BY MachineAssumption, PoolAssumption, DdrAssumption

LEMMA Remainder ==
  ASSUME NEW x \in Nat, NEW a \in Nat \ {0}
  PROVE  x % a \in 0..a-1 /\ x % a <= x
  OBVIOUS

LEMMA Quotient ==
  ASSUME NEW x \in Nat, NEW a \in Nat \ {0}
  PROVE  x = a * (x \div a) + (x % a) /\ x \div a \in Nat
  OBVIOUS

LEMMA Multiple ==
  ASSUME NEW q \in Nat, NEW a \in Nat \ {0}
  PROVE  (a * q) % a = 0
  OBVIOUS

LEMMA RoundedDown ==
  ASSUME NEW x \in Nat, NEW a \in Nat \ {0}
  PROVE  (x - (x % a)) % a = 0
<1>1. PICK q \in Nat : x = a * q + (x % a)
  BY Quotient
<1>2. a * q \in Nat /\ x % a \in Nat
  BY <1>1, Remainder
<1>3. x - (x % a) = a * q
  BY <1>1, <1>2
<1> QED
  BY <1>3, Multiple

LEMMA RoundedUp ==
  ASSUME NEW x \in Nat, NEW a \in Nat \ {0}
  PROVE  (x - (x % a) + a) % a = 0
  OBVIOUS

LEMMA SumOfMultiples ==
  ASSUME NEW x \in Nat, NEW y \in Nat, NEW a \in Nat \ {0}, x % a = 0, y % a = 0
  PROVE  (x + y) % a = 0
<1>1. x + y = a * (x \div a + y \div a) /\ x \div a + y \div a \in Nat
  BY Quotient
<1> QED
  BY <1>1, Multiple

\* Padding is counted once for each buffer.
LEMMA Padding ==
  ASSUME NEW i \in Nat, NEW n \in Nat, NEW a \in Nat, i < n
  PROVE  (i + 1) * a = i * a + a /\ (i + 1) * a <= n * a
  OBVIOUS

\* A sum of two size_t values that does not wrap around.
LEMMA PlainSum ==
  ASSUME NEW x \in Nat, NEW y \in Nat, x + y < M
  PROVE  Add(x, y) = x + y
  BY DEF Add, method_allocator!Add

\* The next multiple of the alignment.
LEMMA RoundUpFacts ==
  ASSUME NEW x \in Nat, x + (Align - 1) < M
  PROVE  RoundUp(x) \in x..x + (Align - 1) /\ RoundUp(x) % Align = 0
<1> DEFINE y == x + (Align - 1)
<1>1. y \in Nat /\ Align \in Nat \ {0} /\ Align - 1 \in Nat
  BY Numbers
<1>2. Add(x, Align - 1) = y
  BY <1>1, PlainSum
<1>3. y % Align \in 0..Align-1 /\ (y - (y % Align)) % Align = 0
  BY <1>1, Remainder, RoundedDown
<1>4. RoundUp(x) = y - (y % Align)
  BY <1>2 DEF RoundUp
<1> HIDE DEF y
<1>5. y - (y % Align) <= y /\ y - (y % Align) >= y - (Align - 1)
  BY <1>1, <1>3
<1>6. y = x + (Align - 1)
  BY DEF y
<1> QED
  BY <1>1, <1>3, <1>4, <1>5, <1>6

\* alignPointer, for an address of the pool.
LEMMA AlignPointer ==
  ASSUME NEW p \in PoolBase..PoolBase + PoolSize
  PROVE  /\ method_allocator!alignPointer(p, Align) \in p..M-1
         /\ method_allocator!alignPointer(p, Align) % Align = 0
<1> DEFINE r == p % Align
<1>1. p \in Nat /\ Align \in Nat \ {0} /\ p + Align <= M
  BY Numbers
<1>2. r \in 0..Align-1 /\ r <= p /\ (p - r + Align) % Align = 0
  BY <1>1, Remainder, RoundedUp
<1>3. CASE r = 0
  <2>1. method_allocator!alignPointer(p, Align) = p
    BY <1>3 DEF method_allocator!alignPointer
  <2>2. p \in p..M-1
    BY <1>1, Numbers
  <2> QED
    BY <1>3, <2>1, <2>2
<1>4. CASE r # 0
  <2>1. method_allocator!alignPointer(p, Align) = method_allocator!Add(p - r, Align)
    BY <1>4 DEF method_allocator!alignPointer, method_allocator!NextMultiple
  <2> HIDE DEF r
  <2>2. p - r + Align < M /\ p - r + Align \in p..M-1
    BY <1>1, <1>2, <1>4, Numbers
  <2>3. method_allocator!Add(p - r, Align) = p - r + Align
    BY <2>2 DEF method_allocator!Add
  <2> QED
    BY <1>2, <2>1, <2>2, <2>3
<1> QED
  BY <1>3, <1>4

-----------------------------------------------------------------------------
(* The invariant *)

\* The sums a model's sizes run through.  If they lead to DDR they do not wrap
\* around: a model with 4 GB of planned buffers is not one for this device.
Running(s, sum) ==
  /\ sum \in [0..Len(s) -> 0..M-1] /\ sum[0] = 0
  /\ \A i \in 1..Len(s) : sum[i] = Add(sum[i - 1], s[i] % M)
  /\ sum[Len(s)] > PoolSize \div 2 =>
       \A i \in 1..Len(s) : sum[i - 1] + (s[i] % M) <= sum[Len(s)]
SumsFit == \A s \in SizeLists : \E sum : Running(s, sum)

Spans == [start : 0..M-1, size : 0..M-1]
PoolBlocks == [start : 0..M-1, size : 0..M-1, align : Nat]

Types ==
  /\ sizes \in SizeLists /\ id \in 0..Len(sizes)
  /\ pc \in {"sum", "place", "built", "abort"}
  /\ use_ddr_planned \in BOOLEAN
  /\ total_planned_size \in 0..M-1 /\ ddr_planned_offset \in 0..M-1
  /\ planned_spans \in Seq(Spans) /\ blocks \in Seq(PoolBlocks)
  /\ cur_ \in PoolBase..PoolBase + PoolSize

\* How far the loops are.
Progress ==
  /\ Len(planned_spans) = IF pc = "sum" THEN 0 ELSE id
  /\ pc = "sum" => ~use_ddr_planned
  /\ use_ddr_planned => blocks = << >>
  /\ ~use_ddr_planned => ddr_planned_offset = 0 /\ Len(blocks) = Len(planned_spans)

\* The total is the sum so far; in DDR the offset is what the buffers placed so
\* far add up to, with their padding.
Totals ==
  \E sum :
    /\ Running(sizes, sum)
    /\ pc = "sum" => total_planned_size = sum[id]
    /\ use_ddr_planned /\ pc # "abort" =>
         /\ sum[Len(sizes)] > PoolSize \div 2 /\ sum[Len(sizes)] <= DdrSize
         /\ ddr_planned_offset <= sum[id] + id * (Align - 1)

\* A span in the method pool is the block allocated for it.
InPool ==
  ~use_ddr_planned =>
    \A i \in 1..Len(planned_spans) :
      /\ blocks[i].start = planned_spans[i].start /\ blocks[i].size = planned_spans[i].size
      /\ End(planned_spans[i]) <= cur_

\* A span in DDR lies between the pool's base and what is left of it.
InDdr ==
  use_ddr_planned =>
    /\ DdrBase + ddr_planned_offset <= RegionEnd
    /\ \A i \in 1..Len(planned_spans) :
         /\ DdrBase <= planned_spans[i].start
         /\ End(planned_spans[i]) <= DdrBase + ddr_planned_offset

Aligned == \A i \in 1..Len(planned_spans) : planned_spans[i].start % Align = 0

PlaceInv == Types /\ Progress /\ Totals /\ InPool /\ InDdr /\ Aligned /\ SpansDisjoint

LEMMA PlaceInit == SumsFit /\ Init => PlaceInv
<1> SUFFICES ASSUME SumsFit, Init PROVE PlaceInv
  OBVIOUS
<1>1. Types
  <2>1. sizes \in SizeLists /\ Len(sizes) \in Nat
    BY ListsAssumption DEF Init
  <2>2. id \in 0..Len(sizes) /\ 0 \in 0..M-1 /\ PoolBase \in PoolBase..PoolBase + PoolSize
    BY <2>1, Numbers DEF Init
  <2>3. sizes \in SizeLists /\ pc \in {"sum", "place", "built", "abort"} /\ use_ddr_planned \in BOOLEAN
    BY DEF Init
  <2>4. /\ planned_spans \in Seq(Spans) /\ blocks \in Seq(PoolBlocks)
        /\ cur_ \in PoolBase..PoolBase + PoolSize
        /\ total_planned_size \in 0..M-1 /\ ddr_planned_offset \in 0..M-1
    BY <2>2 DEF Init, method_allocator!Init
  <2> QED
    BY <2>2, <2>3, <2>4 DEF Types
<1>2. Progress /\ InPool /\ InDdr /\ Aligned /\ SpansDisjoint
  BY DEF Init, Progress, InPool, InDdr, Aligned, SpansDisjoint, method_allocator!Init
<1>3. Totals
  <2>1. PICK sum : Running(sizes, sum)
    BY DEF SumsFit, Init
  <2> QED
    BY <2>1 DEF Init, Totals, Running
<1> QED
  BY <1>1, <1>2, <1>3 DEF PlaceInv

\* What a step that places a buffer appends.
LEMMA Appended ==
  ASSUME Types, NEW start \in 0..M-1, id < Len(sizes), AddSpan(start)
  PROVE  /\ planned_spans' \in Seq(Spans) /\ buffer_size \in 0..M-1
         /\ Len(planned_spans) \in Nat /\ Len(planned_spans') = Len(planned_spans) + 1
         /\ planned_spans'[Len(planned_spans) + 1] = [start |-> start, size |-> buffer_size]
         /\ \A i \in 1..Len(planned_spans) :
              planned_spans'[i] = planned_spans[i] /\ planned_spans[i] \in Spans
<1>1. sizes \in Seq(Nat) /\ id \in 0..Len(sizes) /\ planned_spans \in Seq(Spans)
  BY ListsAssumption DEF Types
<1>2. buffer_size \in 0..M-1
  <2>1. sizes[id + 1] \in Nat
    BY <1>1
  <2> QED
    BY <2>1, Numbers, Remainder DEF buffer_size
<1>3. [start |-> start, size |-> buffer_size] \in Spans
  BY <1>2 DEF Spans
<1> QED
  BY <1>1, <1>2, <1>3 DEF AddSpan

LEMMA SumSizeInv == PlaceInv /\ SumSize => PlaceInv'
<1> SUFFICES ASSUME PlaceInv, SumSize PROVE PlaceInv'
  OBVIOUS
<1>1. /\ pc = "sum" /\ id < Len(sizes) /\ id' = id + 1
      /\ total_planned_size' = Add(total_planned_size, buffer_size)
      /\ UNCHANGED <<sizes, pc, use_ddr_planned, ddr_planned_offset, planned_spans,
                     cur_, blocks>>
  BY DEF SumSize, alloc
<1>2. /\ sizes \in Seq(Nat) /\ Len(sizes) \in Nat /\ id \in 0..Len(sizes)
      /\ id + 1 \in 1..Len(sizes)
  BY <1>1, ListsAssumption DEF PlaceInv, Types
<1>3. PICK sum : Running(sizes, sum) /\ total_planned_size = sum[id]
  BY <1>1 DEF PlaceInv, Totals
<1>4. total_planned_size' = sum[id + 1]
  <2>1. sum[id + 1] = Add(sum[id + 1 - 1], sizes[id + 1] % M)
    BY <1>2, <1>3 DEF Running
  <2>2. id + 1 - 1 = id
    BY <1>2
  <2> QED
    BY <1>1, <1>3, <2>1, <2>2 DEF buffer_size
<1>5. total_planned_size' \in 0..M-1
  <2>1. id + 1 \in 0..Len(sizes)
    BY <1>2
  <2> QED
    BY <1>3, <1>4, <2>1 DEF Running
<1>6. Types'
  BY <1>1, <1>2, <1>5 DEF PlaceInv, Types
<1>7. Totals'
  BY <1>1, <1>3, <1>4 DEF PlaceInv, Totals, Progress
<1>8. Progress' /\ InPool' /\ InDdr' /\ Aligned' /\ SpansDisjoint'
  BY <1>1 DEF PlaceInv, Progress, InPool, InDdr, Aligned, SpansDisjoint
<1> QED
  BY <1>6, <1>7, <1>8 DEF PlaceInv

LEMMA DecideInv == PlaceInv /\ Decide => PlaceInv'
<1> SUFFICES ASSUME PlaceInv, Decide PROVE PlaceInv'
  OBVIOUS
<1>1. /\ pc = "sum" /\ id = Len(sizes) /\ id' = 0 /\ pc' \in {"place", "abort"}
      /\ use_ddr_planned' = (total_planned_size > PoolSize \div 2)
      /\ use_ddr_planned' /\ pc' # "abort" => ~(total_planned_size > DdrSize)
      /\ UNCHANGED <<sizes, total_planned_size, ddr_planned_offset, planned_spans,
                     cur_, blocks>>
  BY DEF Decide, alloc
<1>2. sizes \in Seq(Nat) /\ Len(sizes) \in Nat /\ Len(planned_spans) = 0 /\ Len(blocks) = 0
      /\ ddr_planned_offset = 0 /\ blocks = << >>
  BY <1>1, ListsAssumption DEF PlaceInv, Types, Progress
<1>3. Types'
  BY <1>1, <1>2 DEF PlaceInv, Types
<1>4. Progress' /\ InPool' /\ Aligned' /\ SpansDisjoint'
  BY <1>1, <1>2 DEF PlaceInv, Progress, InPool, Aligned, SpansDisjoint
<1>5. InDdr'
  <2>1. DdrBase <= RegionEnd
    BY <1>2, DdrAssumption, Numbers DEF PlaceInv, Types
  <2> QED
    BY <1>1, <1>2, <2>1, Numbers DEF InDdr
<1>6. Totals'
  <2>1. PICK sum : Running(sizes, sum) /\ total_planned_size = sum[Len(sizes)]
    BY <1>1 DEF PlaceInv, Totals
  <2>2. 0 <= sum[0] + 0 * (Align - 1)
    BY <2>1, Numbers DEF Running
  <2>3. total_planned_size \in Nat
    BY Numbers DEF PlaceInv, Types
  <2>4. use_ddr_planned' /\ pc' # "abort" =>
           sum[Len(sizes)] > PoolSize \div 2 /\ sum[Len(sizes)] <= DdrSize
    <3>1. ASSUME use_ddr_planned', pc' # "abort"
          PROVE  total_planned_size > PoolSize \div 2 /\ ~(total_planned_size > DdrSize)
      BY <1>1, <3>1
    <3> QED
      BY <2>1, <2>3, <3>1, Numbers
  <2>5. ddr_planned_offset' <= sum[id'] + id' * (Align - 1)
    BY <1>1, <1>2, <2>2
  <2> QED
    BY <1>1, <2>1, <2>4, <2>5 DEF Totals
<1> QED
  BY <1>3, <1>4, <1>5, <1>6 DEF PlaceInv

\* The sizes and the padding so far, the next buffer's included, leave the DDR
\* region room for it.
LEMMA Room ==
  ASSUME NEW offset \in Nat, NEW before \in Nat, NEW size \in Nat, NEW total \in Nat,
         NEW pad \in Nat, NEW padding \in Nat, NEW a \in Nat,
         NEW base \in Nat, NEW pool \in Nat, NEW end \in Nat, NEW m \in Nat,
         before + size <= total, total <= pool, offset <= before + pad, pad + a <= padding,
         base + pool + padding <= end, end < m
  PROVE  /\ offset + a < m /\ before + size < m
         /\ \A up \in offset..offset + a :
              /\ up \in Nat /\ base + up + size <= end /\ base + up < m /\ up + size < m
              /\ up + size <= before + size + (pad + a)
  OBVIOUS

\* A step that places a buffer of size bytes at the offset up; sum is what the
\* sizes run through.
DdrStep(sum, up, size) ==
  /\ Running(sizes, sum)
  /\ sum[Len(sizes)] > PoolSize \div 2 /\ sum[Len(sizes)] <= DdrSize
  /\ size = buffer_size /\ sum[id + 1] = sum[id] + size
  /\ up >= ddr_planned_offset /\ up <= ddr_planned_offset + (Align - 1)
  /\ up % Align = 0 /\ DdrBase + up + size <= RegionEnd
  /\ AddSpan(DdrBase + up) /\ ddr_planned_offset' = up + size
  /\ up + size <= sum[id + 1] + (id + 1) * (Align - 1)

\* In DDR: the next span starts at the rounded-up offset and ends in the region,
\* since what the sizes and the padding add up to does.
LEMMA PlacedInDdr ==
  ASSUME PlaceInv, PlaceInDdr
  PROVE  \E sum : \E up \in Nat, size \in Nat : DdrStep(sum, up, size)
<1> DEFINE up == RoundUp(ddr_planned_offset)
<1>1. /\ pc = "place" /\ id < Len(sizes) /\ use_ddr_planned = TRUE /\ id' = id + 1
      /\ AddSpan(Add(DdrBase, up)) /\ ddr_planned_offset' = Add(up, buffer_size)
      /\ UNCHANGED <<sizes, pc, total_planned_size, use_ddr_planned, cur_, blocks>>
  BY DEF PlaceInDdr, alloc, PlaceInv, Types
<1>2. /\ sizes \in SizeLists /\ sizes \in Seq(Nat) /\ Len(sizes) \in Nat /\ id \in Nat
      /\ ddr_planned_offset \in Nat /\ id + 1 \in 1..Len(sizes) /\ id \in 0..Len(sizes)
  BY <1>1, ListsAssumption, Numbers DEF PlaceInv, Types
<1>3. PICK sum : /\ Running(sizes, sum)
                 /\ sum[Len(sizes)] > PoolSize \div 2 /\ sum[Len(sizes)] <= DdrSize
                 /\ ddr_planned_offset <= sum[id] + id * (Align - 1)
  BY <1>1 DEF PlaceInv, Totals
<1>4. PICK total \in Nat, before \in Nat, pad \in Nat, padding \in Nat :
         /\ total = sum[Len(sizes)] /\ before = sum[id]
         /\ pad = id * (Align - 1) /\ padding = Len(sizes) * (Align - 1)
  <2>1. \A i \in 0..Len(sizes) : sum[i] \in Nat
    BY <1>3, Numbers DEF Running
  <2>2. id * (Align - 1) \in Nat /\ Len(sizes) * (Align - 1) \in Nat
    BY <1>2, Numbers
  <2>3. sum[Len(sizes)] \in Nat /\ sum[id] \in Nat
    BY <1>2, <2>1
  <2> QED
    BY <2>2, <2>3
<1>5. PICK size \in Nat : size = buffer_size /\ sum[id + 1] = Add(before, size)
                        /\ before + size <= total
  <2>1. buffer_size \in Nat
    <3>1. sizes[id + 1] \in Nat
      BY <1>2
    <3> QED
      BY <3>1, Numbers, Remainder DEF buffer_size
  <2>2. id + 1 - 1 = id
    BY <1>2
  <2> QED
    BY <1>2, <1>3, <1>4, <2>1, <2>2 DEF Running, buffer_size
<1>6. /\ pad + (Align - 1) <= padding /\ (id + 1) * (Align - 1) = pad + (Align - 1)
      /\ DdrBase + DdrSize + padding <= RegionEnd
  <2> DEFINE a == Align - 1
  <2>1. a \in Nat /\ id \in Nat /\ Len(sizes) \in Nat /\ id < Len(sizes)
    BY <1>1, <1>2, Numbers
  <2>2. pad = id * a /\ padding = Len(sizes) * a
    BY <1>4
  <2>3. DdrBase + DdrSize + padding <= RegionEnd
    BY <1>2, <1>4, DdrAssumption
  <2> HIDE DEF a
  <2>4. (id + 1) * a = id * a + a /\ (id + 1) * a <= Len(sizes) * a
    BY <2>1, Padding, Zenon
  <2>5. pad + a <= padding /\ (id + 1) * a = pad + a
    BY <2>2, <2>4, Zenon
  <2> QED
    BY <2>3, <2>5 DEF a
<1>7. total <= DdrSize /\ ddr_planned_offset <= before + pad
  BY <1>3, <1>4
<1>8. /\ ddr_planned_offset + (Align - 1) < M /\ before + size < M
      /\ \A x \in ddr_planned_offset..ddr_planned_offset + (Align - 1) :
           /\ x \in Nat /\ DdrBase + x + size <= RegionEnd /\ DdrBase + x < M /\ x + size < M
           /\ x + size <= before + size + (pad + (Align - 1))
  <2>1. Align - 1 \in Nat
    BY Numbers
  <2> QED
    BY <1>2, <1>5, <1>6, <1>7, <2>1, Numbers, Room
<1>9. up \in ddr_planned_offset..ddr_planned_offset + (Align - 1) /\ up % Align = 0
  BY <1>2, <1>8, RoundUpFacts
<1> HIDE DEF up
<1>10. /\ up \in Nat /\ DdrBase + up + size <= RegionEnd /\ DdrBase + up < M /\ up + size < M
       /\ up + size <= before + size + (pad + (Align - 1)) /\ ddr_planned_offset <= up
  <2>1. Align - 1 \in Nat
    BY Numbers
  <2>2. ddr_planned_offset <= up
    BY <1>2, <1>9, <2>1
  <2> QED
    BY <1>8, <1>9, <2>2
<1>11. Add(DdrBase, up) = DdrBase + up /\ Add(up, size) = up + size /\ Add(before, size) = before + size
  BY <1>8, <1>10, Numbers, PlainSum
<1>12. AddSpan(DdrBase + up) /\ ddr_planned_offset' = up + size
  BY <1>1, <1>5, <1>11
<1>13. up + size <= sum[id + 1] + (id + 1) * (Align - 1)
  <2>1. sum[id + 1] = before + size
    BY <1>5, <1>11
  <2> QED
    BY <1>6, <1>10, <2>1
<1>14. /\ up >= ddr_planned_offset /\ up <= ddr_planned_offset + (Align - 1)
       /\ sum[id + 1] = sum[id] + size
  <2>1. Align - 1 \in Nat
    BY Numbers
  <2> QED
    BY <1>2, <1>4, <1>5, <1>9, <1>10, <1>11, <2>1
<1>15. DdrStep(sum, up, size)
  BY <1>3, <1>5, <1>9, <1>10, <1>12, <1>13, <1>14 DEF DdrStep
<1> QED
  BY <1>10, <1>15

LEMMA PlaceInDdrInv == PlaceInv /\ PlaceInDdr => PlaceInv'
<1> SUFFICES ASSUME PlaceInv, PlaceInDdr PROVE PlaceInv'
  OBVIOUS
<1>1. /\ pc = "place" /\ id < Len(sizes) /\ use_ddr_planned = TRUE /\ id' = id + 1
      /\ UNCHANGED <<sizes, pc, total_planned_size, use_ddr_planned, cur_, blocks>>
  BY DEF PlaceInDdr, alloc, PlaceInv, Types
<1>2. /\ sizes \in SizeLists /\ sizes \in Seq(Nat) /\ Len(sizes) \in Nat /\ id \in Nat
      /\ ddr_planned_offset \in Nat /\ id + 1 \in 1..Len(sizes) /\ id \in 0..Len(sizes)
  BY <1>1, ListsAssumption, Numbers DEF PlaceInv, Types
<1>3. PICK sum : \E up \in Nat, size \in Nat : DdrStep(sum, up, size)
  BY PlacedInDdr
<1>4. PICK up \in Nat, size \in Nat : DdrStep(sum, up, size)
  BY <1>3
<1> DEFINE start == DdrBase + up
<1>5. size \in Nat /\ size = buffer_size
  BY <1>4 DEF DdrStep
<1>10. /\ up \in Nat /\ DdrBase + up + size <= RegionEnd /\ DdrBase + up < M /\ up + size < M
       /\ ddr_planned_offset <= up
  BY <1>2, <1>4, Numbers DEF DdrStep
<1>12. ddr_planned_offset' = up + size /\ start \in 0..M-1 /\ start % Align = 0
  <2>1. start % Align = 0
    BY <1>4, <1>10, Numbers, SumOfMultiples, DdrAssumption DEF DdrStep
  <2> QED
    BY <1>4, <1>10, <2>1, Numbers DEF DdrStep
<1>13. /\ planned_spans' \in Seq(Spans)
       /\ Len(planned_spans) \in Nat /\ Len(planned_spans') = Len(planned_spans) + 1
       /\ planned_spans'[Len(planned_spans) + 1] = [start |-> start, size |-> size]
       /\ \A i \in 1..Len(planned_spans) :
            planned_spans'[i] = planned_spans[i] /\ planned_spans[i] \in Spans
  BY <1>1, <1>4, <1>12, Appended DEF PlaceInv, DdrStep
<1> HIDE DEF start
<1>14. start = DdrBase + up
  BY DEF start
<1>15. Types'
  <2>1. ddr_planned_offset' \in 0..M-1
    BY <1>10, <1>12, Numbers
  <2> QED
    BY <1>1, <1>2, <1>13, <2>1 DEF PlaceInv, Types
<1>16. Progress'
  BY <1>1, <1>2, <1>13 DEF PlaceInv, Progress
<1>17. Totals'
  <2>1. ddr_planned_offset' <= sum[id'] + id' * (Align - 1)
    <3>1. ddr_planned_offset' <= sum[id + 1] + (id + 1) * (Align - 1)
      BY <1>4 DEF DdrStep
    <3> QED
      BY <1>1, <3>1
  <2> QED
    BY <1>1, <1>4, <2>1 DEF Totals, DdrStep
<1>18. \A i \in 1..Len(planned_spans) :
          /\ planned_spans[i].start \in Nat /\ planned_spans[i].size \in Nat
          /\ DdrBase <= planned_spans[i].start
          /\ End(planned_spans[i]) <= DdrBase + ddr_planned_offset
  <2> TAKE i \in 1..Len(planned_spans)
  <2>1. planned_spans[i].start \in 0..M-1 /\ planned_spans[i].size \in 0..M-1
    BY <1>13 DEF Spans
  <2>2. /\ DdrBase <= planned_spans[i].start
        /\ End(planned_spans[i]) <= DdrBase + ddr_planned_offset
    BY <1>1 DEF PlaceInv, InDdr
  <2> QED
    BY <2>1, <2>2, Numbers
<1>19. \A i \in 1..Len(planned_spans) : End(planned_spans[i]) \in Nat /\ End(planned_spans[i]) <= start
  <2> TAKE i \in 1..Len(planned_spans)
  <2>1. End(planned_spans[i]) \in Nat
    BY <1>18 DEF End
  <2> QED
    <3>1. End(planned_spans[i]) <= DdrBase + ddr_planned_offset
      BY <1>18
    <3>2. DdrBase \in Nat /\ ddr_planned_offset \in Nat /\ up \in Nat /\ ddr_planned_offset <= up
      BY <1>2, <1>10, Numbers
    <3> QED
      BY <1>14, <2>1, <3>1, <3>2
<1>20. End([start |-> start, size |-> size]) = start + size
  BY DEF End
<1>21. InDdr'
  <2>1. DdrBase + ddr_planned_offset' = start + size
    BY <1>5, <1>10, <1>12, <1>14, Numbers
  <2>2. start + size <= RegionEnd /\ DdrBase <= start
    BY <1>10, <1>14, Numbers
  <2> SUFFICES ASSUME NEW i \in 1..Len(planned_spans')
               PROVE  /\ DdrBase <= planned_spans'[i].start
                      /\ End(planned_spans'[i]) <= start + size
    BY <2>1, <2>2 DEF InDdr
  <2>3. CASE i \in 1..Len(planned_spans)
    <3>1. End(planned_spans[i]) <= start + size
      BY <1>5, <1>12, <1>19, <2>3, Numbers
    <3> QED
      BY <1>13, <1>18, <2>3, <3>1
  <2>4. CASE i = Len(planned_spans) + 1
    BY <1>5, <1>12, <1>13, <1>20, <2>2, <2>4, Numbers
  <2> QED
    BY <1>13, <2>3, <2>4
<1>22. Aligned'
  <2> SUFFICES ASSUME NEW i \in 1..Len(planned_spans')
               PROVE  planned_spans'[i].start % Align = 0
    BY DEF Aligned
  <2>1. CASE i \in 1..Len(planned_spans)
    BY <1>13, <2>1 DEF PlaceInv, Aligned
  <2>2. CASE i = Len(planned_spans) + 1
    BY <1>12, <1>13, <2>2
  <2> QED
    BY <1>13, <2>1, <2>2
<1>23. SpansDisjoint'
  <2> SUFFICES ASSUME NEW i \in 1..Len(planned_spans'), NEW j \in 1..Len(planned_spans'), i < j
               PROVE  End(planned_spans'[i]) <= planned_spans'[j].start
    BY DEF SpansDisjoint
  <2>1. i \in 1..Len(planned_spans) /\ planned_spans'[i] = planned_spans[i]
    BY <1>13
  <2>2. CASE j \in 1..Len(planned_spans)
    BY <1>13, <2>1, <2>2 DEF PlaceInv, SpansDisjoint
  <2>3. CASE j = Len(planned_spans) + 1
    BY <1>13, <1>19, <2>1, <2>3
  <2> QED
    BY <1>13, <2>2, <2>3
<1>24. InPool'
  BY <1>1 DEF InPool
<1> QED
  BY <1>15, <1>16, <1>17, <1>21, <1>22, <1>23, <1>24 DEF PlaceInv

\* A step that places a buffer of size bytes at the address start of the pool.
PoolStep(start, size) ==
  /\ size = buffer_size /\ AddSpan(start) /\ id' = id + 1 /\ pc' = pc
  /\ cur_ <= start /\ start % Align = 0
  /\ cur_' = start + size /\ start + size <= PoolBase + PoolSize
  /\ blocks' = Append(blocks, [start |-> start, size |-> size, align |-> Align])
  /\ used_' = IF size % Align = 0 THEN Add(used_, size)
              ELSE Add(method_allocator!NextMultiple(used_, Align), size)

\* In the method pool: the span is the block the allocator answers with.
LEMMA PlacedInPool ==
  ASSUME PlaceInv, PlaceInDtcm, ret' # method_allocator!nullptr
  PROVE  \E start \in 0..M-1, size \in 0..M-1 : PoolStep(start, size)
<1> DEFINE start == method_allocator!alignPointer(cur_, Align)
           end   == method_allocator!Add(start, buffer_size)
           block == [start |-> start, size |-> buffer_size, align |-> Align]
<1>1. id < Len(sizes) /\ sizes \in Seq(Nat) /\ id \in 0..Len(sizes)
      /\ cur_ \in PoolBase..PoolBase + PoolSize
  BY ListsAssumption DEF PlaceInDtcm, PlaceInv, Types
<1>2. PICK size \in 0..M-1 : size = buffer_size
  <2>1. sizes[id + 1] \in Nat
    BY <1>1
  <2> QED
    BY <2>1, Numbers, Remainder DEF buffer_size
<1>3. AddSpan(ret') /\ id' = id + 1 /\ pc' = pc
  BY DEF PlaceInDtcm
<1>4. /\ ~(end > PoolBase + PoolSize) /\ ~(end < start)
      /\ cur_' = end /\ blocks' = Append(blocks, block) /\ ret' = start
      /\ used_' = IF buffer_size % Align = 0 THEN method_allocator!Add(used_, buffer_size)
                  ELSE method_allocator!Add(method_allocator!NextMultiple(used_, Align), buffer_size)
  BY DEF PlaceInDtcm, method_allocator!allocate, method_allocator!ReturnNull,
         method_allocator!nullptr, method_allocator!end_
<1>5. start \in cur_..M-1 /\ start % Align = 0
  BY <1>1, AlignPointer
<1> HIDE DEF start
<1>6. end = start + size /\ start + size <= PoolBase + PoolSize /\ start \in 0..M-1 /\ cur_ <= start
  <2>1. end = IF start + size < M THEN start + size ELSE start + size - M
    BY <1>2 DEF method_allocator!Add
  <2>2. start \in Nat /\ start < M /\ cur_ <= start /\ cur_ \in Nat
    BY <1>1, <1>5, Numbers
  <2> HIDE DEF end
  <2> QED
    BY <1>4, <2>1, <2>2, Numbers
<1> HIDE DEF end
<1>7. PoolStep(start, size)
  BY <1>2, <1>3, <1>4, <1>5, <1>6 DEF PoolStep, Add
<1> QED
  BY <1>2, <1>6, <1>7

LEMMA PlaceInDtcmInv == PlaceInv /\ PlaceInDtcm => PlaceInv'
<1> SUFFICES ASSUME PlaceInv, PlaceInDtcm PROVE PlaceInv'
  OBVIOUS
<1> DEFINE aligned == method_allocator!alignPointer(cur_, Align)
<1>1. /\ pc = "place" /\ id < Len(sizes) /\ use_ddr_planned = FALSE
      /\ UNCHANGED <<sizes, total_planned_size, use_ddr_planned, ddr_planned_offset>>
  BY DEF PlaceInDtcm, PlaceInv, Types
<1>2. /\ sizes \in SizeLists /\ sizes \in Seq(Nat) /\ Len(sizes) \in Nat /\ id \in 0..Len(sizes)
      /\ id + 1 \in 0..Len(sizes) /\ planned_spans \in Seq(Spans) /\ blocks \in Seq(PoolBlocks)
      /\ cur_ \in PoolBase..PoolBase + PoolSize
  BY <1>1, ListsAssumption DEF PlaceInv, Types
<1>4. CASE ret' = method_allocator!nullptr
  <2>1. pc' = "abort" /\ UNCHANGED <<id, planned_spans>>
    BY <1>4 DEF PlaceInDtcm
  <2>2. \/ UNCHANGED <<cur_, blocks>>
        \/ ret' = aligned
    BY DEF PlaceInDtcm, method_allocator!allocate, method_allocator!ReturnNull
  <2>3. aligned # 0
    BY <1>2, AlignPointer, Numbers
  <2>4. UNCHANGED <<cur_, blocks>>
    BY <1>4, <2>2, <2>3 DEF method_allocator!nullptr
  <2>5. Types'
    BY <1>1, <2>1, <2>4 DEF PlaceInv, Types
  <2>6. Progress' /\ Totals' /\ InPool' /\ InDdr' /\ Aligned' /\ SpansDisjoint'
    BY <1>1, <2>1, <2>4
    DEF PlaceInv, Progress, Totals, InPool, InDdr, Aligned, SpansDisjoint
  <2> QED
    BY <2>5, <2>6 DEF PlaceInv
<1>5. CASE ret' # method_allocator!nullptr
  <2>1. PICK start \in 0..M-1, size \in 0..M-1 : PoolStep(start, size)
    BY <1>5, PlacedInPool
  <2> DEFINE block == [start |-> start, size |-> size, align |-> Align]
  <2>2. /\ AddSpan(start) /\ size = buffer_size /\ id' = id + 1 /\ pc' = pc
        /\ cur_' = start + size /\ blocks' = Append(blocks, block) /\ start % Align = 0
    BY <2>1 DEF PoolStep
  <2>4. start + size <= PoolBase + PoolSize /\ start \in 0..M-1 /\ cur_ <= start
    BY <2>1 DEF PoolStep
  <2>5. /\ planned_spans' \in Seq(Spans)
        /\ Len(planned_spans) \in Nat /\ Len(planned_spans') = Len(planned_spans) + 1
        /\ planned_spans'[Len(planned_spans) + 1] = [start |-> start, size |-> size]
        /\ \A i \in 1..Len(planned_spans) :
             planned_spans'[i] = planned_spans[i] /\ planned_spans[i] \in Spans
    BY <1>1, <2>2, Appended DEF PlaceInv
  <2>6. block \in PoolBlocks
    BY <2>4, Numbers DEF PoolBlocks
  <2>7. Len(blocks) = Len(planned_spans) /\ Len(planned_spans) = id
    BY <1>1 DEF PlaceInv, Progress
  <2>8. block.start = start /\ block.size = size
    OBVIOUS
  <2> HIDE DEF block
  <2>9. /\ blocks' \in Seq(PoolBlocks) /\ Len(blocks') = Len(blocks) + 1
        /\ blocks'[Len(blocks) + 1] = block
        /\ \A i \in 1..Len(blocks) : blocks'[i] = blocks[i]
    BY <1>2, <2>2, <2>6
  <2>10. cur_' = start + size /\ cur_' \in PoolBase..PoolBase + PoolSize /\ cur_ <= cur_'
    BY <1>2, <2>2, <2>4, Numbers
  <2>11. Types'
    BY <1>1, <1>2, <2>2, <2>5, <2>9, <2>10 DEF PlaceInv, Types
  <2>12. Progress'
    BY <1>1, <1>2, <2>2, <2>5, <2>7, <2>9 DEF PlaceInv, Progress
  <2>13. Totals' /\ InDdr'
    BY <1>1, <2>2 DEF PlaceInv, Totals, InDdr
  <2>14. \A i \in 1..Len(planned_spans) :
            /\ End(planned_spans[i]) \in Nat /\ End(planned_spans[i]) <= cur_
            /\ blocks[i].start = planned_spans[i].start /\ blocks[i].size = planned_spans[i].size
    <3> TAKE i \in 1..Len(planned_spans)
    <3>1. planned_spans[i].start \in Nat /\ planned_spans[i].size \in Nat
      BY <2>5, Numbers DEF Spans
    <3>2. End(planned_spans[i]) \in Nat
      BY <3>1 DEF End
    <3> QED
      BY <1>1, <3>2 DEF PlaceInv, InPool
  <2>15. End([start |-> start, size |-> size]) = start + size
    BY DEF End
  <2>16. InPool'
    <3> SUFFICES ASSUME NEW i \in 1..Len(planned_spans')
                 PROVE  /\ blocks'[i].start = planned_spans'[i].start
                        /\ blocks'[i].size = planned_spans'[i].size
                        /\ End(planned_spans'[i]) <= cur_'
      BY DEF InPool
    <3>1. CASE i \in 1..Len(planned_spans)
      <4>1. End(planned_spans[i]) <= cur_'
        <5>1. cur_ \in Nat /\ cur_' \in Nat /\ cur_ <= cur_'
          BY <1>2, <2>10, Numbers
        <5>2. End(planned_spans[i]) \in Nat /\ End(planned_spans[i]) <= cur_
          BY <2>14, <3>1
        <5> QED
          BY <5>1, <5>2
      <4> QED
        BY <2>5, <2>7, <2>9, <2>14, <3>1, <4>1
    <3>2. CASE i = Len(planned_spans) + 1
      <4>1. End(planned_spans'[i]) <= cur_'
        BY <2>4, <2>5, <2>10, <2>15, <3>2
      <4> QED
        BY <2>5, <2>7, <2>8, <2>9, <3>2, <4>1
    <3> QED
      BY <2>5, <3>1, <3>2
  <2>17. Aligned'
    <3> SUFFICES ASSUME NEW i \in 1..Len(planned_spans')
                 PROVE  planned_spans'[i].start % Align = 0
      BY DEF Aligned
    <3>1. CASE i \in 1..Len(planned_spans)
      BY <2>5, <3>1 DEF PlaceInv, Aligned
    <3>2. CASE i = Len(planned_spans) + 1
      BY <2>2, <2>5, <3>2
    <3> QED
      BY <2>5, <3>1, <3>2
  <2>18. SpansDisjoint'
    <3> SUFFICES ASSUME NEW i \in 1..Len(planned_spans'), NEW j \in 1..Len(planned_spans'), i < j
                 PROVE  End(planned_spans'[i]) <= planned_spans'[j].start
      BY DEF SpansDisjoint
    <3>1. i \in 1..Len(planned_spans) /\ planned_spans'[i] = planned_spans[i]
      BY <2>5
    <3>2. CASE j \in 1..Len(planned_spans)
      BY <2>5, <3>1, <3>2 DEF PlaceInv, SpansDisjoint
    <3>3. CASE j = Len(planned_spans) + 1
      <4>1. End(planned_spans[i]) <= start
        BY <1>2, <2>4, <2>14, <3>1, Numbers
      <4> QED
        BY <2>5, <3>1, <3>3, <4>1
    <3> QED
      BY <2>5, <3>2, <3>3
  <2> QED
    BY <2>11, <2>12, <2>13, <2>16, <2>17, <2>18 DEF PlaceInv
<1> QED
  BY <1>4, <1>5

LEMMA BuiltInv == PlaceInv /\ Built => PlaceInv'
<1> SUFFICES ASSUME PlaceInv, Built PROVE PlaceInv'
  OBVIOUS
<1>1. /\ pc = "place" /\ pc' = "built"
      /\ UNCHANGED <<sizes, id, total_planned_size, use_ddr_planned, ddr_planned_offset,
                     planned_spans, cur_, blocks>>
  BY DEF Built, alloc
<1>2. Types'
  BY <1>1 DEF PlaceInv, Types
<1>3. Progress' /\ Totals' /\ InPool' /\ InDdr' /\ Aligned' /\ SpansDisjoint'
  BY <1>1 DEF PlaceInv, Progress, Totals, InPool, InDdr, Aligned, SpansDisjoint
<1> QED
  BY <1>2, <1>3 DEF PlaceInv

\* The placement keeps its invariant, whatever sizes the model has.
THEOREM Placed == ASSUME SumsFit PROVE Spec => []PlaceInv
<1>1. Init => PlaceInv
  BY PlaceInit
<1>2. PlaceInv /\ [Next]_vars => PlaceInv'
  <2>1. PlaceInv /\ UNCHANGED vars => PlaceInv'
    <3> SUFFICES ASSUME PlaceInv, UNCHANGED vars PROVE PlaceInv'
      OBVIOUS
    <3>1. Types'
      BY DEF PlaceInv, Types, vars, alloc
    <3>2. Progress' /\ Totals' /\ InPool' /\ InDdr' /\ Aligned' /\ SpansDisjoint'
      BY DEF PlaceInv, Progress, Totals, InPool, InDdr, Aligned, SpansDisjoint, vars, alloc
    <3> QED
      BY <3>1, <3>2 DEF PlaceInv
  <2> QED
    BY <2>1, SumSizeInv, DecideInv, PlaceInDdrInv, PlaceInDtcmInv, BuiltInv DEF Next
<1> QED
  BY <1>1, <1>2, PTL DEF Spec

-----------------------------------------------------------------------------
(* The properties *)

LEMMA SpanNumbers ==
  ASSUME PlaceInv, NEW i \in 1..Len(planned_spans)
  PROVE  planned_spans[i].start \in Nat /\ planned_spans[i].size \in Nat
<1>1. planned_spans[i] \in Spans
  BY DEF PlaceInv, Types
<1> QED
  BY <1>1, Numbers DEF Spans

LEMMA PlaceInvReserves == PlaceInv => SpansReserved
<1> SUFFICES ASSUME PlaceInv, NEW i \in 1..Len(planned_spans)
             PROVE  /\ planned_spans[i].start % Align = 0
                    /\ IF use_ddr_planned
                       THEN DdrBase <= planned_spans[i].start /\ End(planned_spans[i]) <= RegionEnd
                       ELSE \E b \in 1..Len(blocks) :
                              /\ blocks[b].start = planned_spans[i].start
                              /\ blocks[b].size = planned_spans[i].size
  BY DEF SpansReserved
<1>1. planned_spans[i].start % Align = 0
  BY DEF PlaceInv, Aligned
<1>2. CASE use_ddr_planned
  <2>1. planned_spans[i].start \in Nat /\ planned_spans[i].size \in Nat
    BY SpanNumbers
  <2>2. End(planned_spans[i]) \in Nat /\ ddr_planned_offset \in Nat
    BY <2>1, Numbers DEF End, PlaceInv, Types
  <2>3. /\ DdrBase <= planned_spans[i].start
        /\ End(planned_spans[i]) <= DdrBase + ddr_planned_offset
        /\ DdrBase + ddr_planned_offset <= RegionEnd
    BY <1>2 DEF PlaceInv, InDdr
  <2>4. End(planned_spans[i]) <= RegionEnd
    BY <2>2, <2>3, Numbers
  <2> QED
    BY <1>1, <1>2, <2>3, <2>4
<1>3. CASE ~use_ddr_planned
  <2>1. Len(blocks) = Len(planned_spans)
    BY <1>3 DEF PlaceInv, Progress
  <2>2. blocks[i].start = planned_spans[i].start /\ blocks[i].size = planned_spans[i].size
    BY <1>3 DEF PlaceInv, InPool
  <2> QED
    BY <1>1, <1>3, <2>1, <2>2
<1> QED
  BY <1>2, <1>3

(* Every planned buffer lies in memory reserved for it, aligned: in the    *)
(* method pool it is a block of the allocator's, in DDR it ends within the *)
(* NPU's region although the check leaves the padding out.                 *)
THEOREM SpansAreReserved == ASSUME SumsFit PROVE Spec => []SpansReserved
  BY Placed, PlaceInvReserves, PTL

(* No two planned buffers share a byte, in either pool.                    *)
THEOREM SpansNeverOverlap == ASSUME SumsFit PROVE Spec => []SpansDisjoint
<1>1. PlaceInv => SpansDisjoint
  BY DEF PlaceInv
<1> QED
  BY <1>1, Placed, PTL

-----------------------------------------------------------------------------
(* The figure reported as planned *)

\* Rounding used_ up for every byte of the pool leads to no wrap-around.
UsedFits == PoolSize * (1 + Align) < M

\* The bytes laid out so far are the sum of the sizes so far, and the counter
\* that will be reported is not below it.
Counted(sum) ==
  /\ pc = "sum" => total_planned_size = sum[id] /\ LaidOut = 0
  /\ pc # "sum" => total_planned_size = sum[Len(sizes)] /\ LaidOut = sum[id]
  /\ use_ddr_planned =>
       LaidOut <= ddr_planned_offset /\ ddr_planned_offset <= LaidOut + id * (Align - 1)
  /\ ~use_ddr_planned =>
       /\ LaidOut <= cur_ - PoolBase
       /\ used_ \in Nat /\ LaidOut <= used_ /\ used_ <= LaidOut * (1 + Align)
  /\ pc = "built" =>
       /\ id = Len(sizes)
       /\ planned_buffer_memsize = IF use_ddr_planned THEN ddr_planned_offset ELSE used_
Covers == pc # "abort" => \E sum : Running(sizes, sum) /\ Counted(sum)

\* A model's sizes run through one list of sums.
LEMMA RunningUnique ==
  ASSUME NEW s \in Seq(Nat), NEW f, NEW g, Running(s, f), Running(s, g)
  PROVE  \A i \in 0..Len(s) : f[i] = g[i]
<1>1. Len(s) \in Nat /\ f[0] = g[0]
  BY DEF Running
<1>2. \A i \in 1..Len(s) : f[i - 1] = g[i - 1] => f[i] = g[i]
  BY DEF Running
<1> QED
  BY <1>1, <1>2, AgreeUpTo

LEMMA LaidOutType == ASSUME Types PROVE LaidOut \in Nat
<1> DEFINE f == [i \in 1..Len(planned_spans) |-> planned_spans[i].size]
<1>1. planned_spans \in Seq(Spans) /\ Len(planned_spans) \in Nat
  BY DEF Types
<1>2. \A i \in 1..Len(planned_spans) : planned_spans[i].size \in Nat
  <2> TAKE i \in 1..Len(planned_spans)
  <2>1. planned_spans[i] \in Spans
    BY <1>1
  <2> QED
    BY <2>1, Numbers DEF Spans
<1>3. f \in Seq(Nat)
  BY <1>1, <1>2
<1> HIDE DEF f
<1>4. Total(f) \in Nat
  BY <1>3, TotalType
<1> QED
  BY <1>4 DEF f, LaidOut

\* The buffer placed adds its size.
LEMMA LaidOutGrows ==
  ASSUME Types, NEW start \in 0..M-1, id < Len(sizes), AddSpan(start)
  PROVE  LaidOut \in Nat /\ LaidOut' = LaidOut + buffer_size
<1> DEFINE n == Len(planned_spans)
           f == [i \in 1..n |-> planned_spans[i].size]
           g == [i \in 1..Len(planned_spans') |-> planned_spans'[i].size]
<1>1. /\ buffer_size \in Nat /\ n \in Nat /\ Len(planned_spans') = n + 1
      /\ planned_spans'[n + 1] = [start |-> start, size |-> buffer_size]
      /\ \A i \in 1..n : planned_spans'[i] = planned_spans[i] /\ planned_spans[i] \in Spans
  <2>1. \A x \in 0..M-1 : x \in Nat
    BY Numbers
  <2> QED
    BY <2>1, Appended
<1>2. \A i \in 1..n : planned_spans[i].size \in Nat
  BY <1>1, Numbers DEF Spans
<1>3. \A i \in 1..n + 1 : i \in 1..n \/ i = n + 1
  BY <1>1
<1>4. \A i \in 1..n + 1 : planned_spans'[i].size \in Nat
  BY <1>1, <1>2, <1>3
<1>5. f \in [1..n -> Nat] /\ g \in [1..n + 1 -> Nat]
  BY <1>1, <1>2, <1>4
<1>6. g[n + 1] = buffer_size /\ \A i \in 1..n : g[i] = f[i]
  BY <1>1
<1>7. LaidOut = Total(f) /\ LaidOut' = Total(g)
  BY DEF LaidOut
<1> HIDE DEF n, f, g
<1>8. Total(g) = Total(f) + g[n + 1] /\ Total(f) \in Nat
  BY <1>1, <1>5, <1>6, TotalGrows
<1> QED
  BY <1>6, <1>7, <1>8

LEMMA LaidOutKept ==
  ASSUME UNCHANGED planned_spans
  PROVE  LaidOut' = LaidOut
  BY DEF LaidOut

LEMMA CoversInit == SumsFit /\ Init => Covers
<1> SUFFICES ASSUME SumsFit, Init PROVE Covers
  OBVIOUS
<1>1. PICK sum : Running(sizes, sum)
  BY DEF SumsFit, Init
<1>2. LaidOut = 0
  <2>1. [i \in 1..Len(planned_spans) |-> planned_spans[i].size] = << >>
    BY DEF Init
  <2> QED
    BY <2>1, TotalEmpty DEF LaidOut
<1>3. 0 * (1 + Align) = 0 /\ PoolBase \in Nat
  BY Numbers
<1>4. Counted(sum)
  BY <1>1, <1>2, <1>3 DEF Init, method_allocator!Init, Running, Counted
<1> QED
  BY <1>1, <1>4 DEF Covers

LEMMA CoversSumSize == PlaceInv /\ Covers /\ SumSize => Covers'
<1> SUFFICES ASSUME PlaceInv, Covers, SumSize PROVE Covers'
  OBVIOUS
<1>1. /\ pc = "sum" /\ id < Len(sizes) /\ id' = id + 1
      /\ total_planned_size' = Add(total_planned_size, buffer_size)
      /\ UNCHANGED <<sizes, pc, use_ddr_planned, planned_spans, cur_, used_>>
  BY DEF SumSize, alloc
<1>2. PICK sum : Running(sizes, sum) /\ Counted(sum)
  BY <1>1 DEF Covers
<1>3. Len(sizes) \in Nat /\ id \in 0..Len(sizes) /\ id + 1 \in 1..Len(sizes) /\ id + 1 - 1 = id
  BY <1>1, ListsAssumption DEF PlaceInv, Types
<1>4. total_planned_size' = sum[id']
  BY <1>1, <1>2, <1>3 DEF Counted, Running, buffer_size
<1>5. ~use_ddr_planned /\ LaidOut' = LaidOut
  BY <1>1, LaidOutKept DEF PlaceInv, Progress
<1>6. Counted(sum)'
  BY <1>1, <1>2, <1>4, <1>5 DEF Counted
<1> QED
  BY <1>1, <1>2, <1>6 DEF Covers

LEMMA CoversDecide == PlaceInv /\ Covers /\ Decide => Covers'
<1> SUFFICES ASSUME PlaceInv, Covers, Decide PROVE Covers'
  OBVIOUS
<1>1. /\ pc = "sum" /\ id = Len(sizes) /\ id' = 0 /\ pc' \in {"place", "abort"}
      /\ UNCHANGED <<sizes, total_planned_size, ddr_planned_offset, planned_spans, cur_, used_>>
  BY DEF Decide, alloc
<1>2. PICK sum : Running(sizes, sum) /\ Counted(sum)
  BY <1>1 DEF Covers
<1>3. ~use_ddr_planned /\ ddr_planned_offset = 0 /\ LaidOut = 0 /\ LaidOut' = 0
  BY <1>1, <1>2, LaidOutKept DEF PlaceInv, Progress, Counted
<1>4. sum[0] = 0 /\ 0 * (Align - 1) = 0
  BY <1>2, Numbers DEF Running
<1>5. total_planned_size' = sum[Len(sizes)]
  BY <1>1, <1>2 DEF Counted
<1>6. LaidOut' <= ddr_planned_offset' /\ ddr_planned_offset' <= LaidOut' + id' * (Align - 1)
  BY <1>1, <1>3, <1>4
<1>7. /\ LaidOut' <= cur_' - PoolBase
      /\ used_' \in Nat /\ LaidOut' <= used_' /\ used_' <= LaidOut' * (1 + Align)
  BY <1>1, <1>2, <1>3 DEF Counted
<1>8. Counted(sum)'
  BY <1>1, <1>3, <1>4, <1>5, <1>6, <1>7 DEF Counted
<1> QED
  BY <1>1, <1>2, <1>8 DEF Covers

LEMMA CoversInDdr == PlaceInv /\ Covers /\ PlaceInDdr => Covers'
<1> SUFFICES ASSUME PlaceInv, Covers, PlaceInDdr PROVE Covers'
  OBVIOUS
<1>1. /\ pc = "place" /\ id < Len(sizes) /\ use_ddr_planned = TRUE /\ id' = id + 1
      /\ UNCHANGED <<sizes, pc, total_planned_size, use_ddr_planned>>
  BY DEF PlaceInDdr, PlaceInv, Types
<1>2. PICK sum : Running(sizes, sum) /\ Counted(sum)
  BY <1>1 DEF Covers
<1>3. PICK s : \E up \in Nat, size \in Nat : DdrStep(s, up, size)
  BY PlacedInDdr
<1>4. PICK up \in Nat, size \in Nat : DdrStep(s, up, size)
  BY <1>3
<1>5. sizes \in Seq(Nat) /\ Len(sizes) \in Nat /\ id \in Nat /\ ddr_planned_offset \in Nat
      /\ id \in 0..Len(sizes) /\ id + 1 \in 0..Len(sizes)
  BY <1>1, ListsAssumption, Numbers DEF PlaceInv, Types
<1>6. sum[id] = s[id] /\ sum[id + 1] = s[id + 1]
  <2>1. Running(sizes, s)
    BY <1>4 DEF DdrStep
  <2>2. \A i \in 0..Len(sizes) : sum[i] = s[i]
    BY <1>2, <1>5, <2>1, RunningUnique
  <2> QED
    BY <1>5, <2>2
<1>7. /\ AddSpan(DdrBase + up) /\ size = buffer_size /\ s[id + 1] = s[id] + size
      /\ ddr_planned_offset' = up + size /\ DdrBase + up + size <= RegionEnd
      /\ up >= ddr_planned_offset /\ up <= ddr_planned_offset + (Align - 1)
  BY <1>4 DEF DdrStep
<1>8. LaidOut \in Nat /\ LaidOut' = LaidOut + size
  <2>1. DdrBase + up \in 0..M-1
    BY <1>4, <1>7, Numbers
  <2> QED
    BY <1>1, <1>7, <2>1, LaidOutGrows DEF PlaceInv
<1>9. /\ LaidOut = sum[id] /\ total_planned_size = sum[Len(sizes)]
      /\ LaidOut <= ddr_planned_offset /\ ddr_planned_offset <= LaidOut + id * (Align - 1)
  BY <1>1, <1>2 DEF Counted
<1>10. LaidOut' = sum[id']
  BY <1>1, <1>6, <1>7, <1>8, <1>9
<1>11. LaidOut' <= ddr_planned_offset' /\ ddr_planned_offset' <= LaidOut' + id' * (Align - 1)
  <2> DEFINE a == Align - 1
             pad == id * a
  <2>1. a \in Nat
    BY Numbers
  <2> HIDE DEF a
  <2>2. pad \in Nat /\ (id + 1) * a = pad + a
    BY <1>5, <2>1, Padding
  <2> HIDE DEF pad
  <2>3. ddr_planned_offset <= LaidOut + pad /\ up <= ddr_planned_offset + a
    BY <1>7, <1>9 DEF a, pad
  <2>4. up + size <= LaidOut + size + (pad + a) /\ LaidOut + size <= up + size
    <3>1. LaidOut \in Nat /\ LaidOut <= ddr_planned_offset /\ ddr_planned_offset <= up
      BY <1>7, <1>8, <1>9
    <3> QED
      BY <1>4, <1>5, <2>1, <2>2, <2>3, <3>1
  <2>5. id' * (Align - 1) = pad + a
    BY <1>1, <2>2 DEF a
  <2> QED
    BY <1>7, <1>8, <2>4, <2>5
<1>12. Counted(sum)'
  BY <1>1, <1>9, <1>10, <1>11 DEF Counted
<1> QED
  BY <1>1, <1>2, <1>12 DEF Covers

\* A byte more in the pool makes room for another rounding.
LEMMA Scaled ==
  ASSUME NEW l \in Nat, NEW s \in Nat, NEW a \in Nat, NEW p \in Nat, l + s <= p
  PROVE  /\ (l + s) * (1 + a) <= p * (1 + a)
         /\ l * (1 + a) + s <= (l + s) * (1 + a)
         /\ s >= 1 => l * (1 + a) + a + s <= (l + s) * (1 + a)
         /\ l * (1 + a) \in Nat /\ (l + s) * (1 + a) \in Nat /\ p * (1 + a) \in Nat
<1>1. s * a \in Nat /\ l * a \in Nat /\ (s >= 1 => a <= s * a)
  OBVIOUS
<1>2. (l + s) * (1 + a) = l + l * a + s + s * a /\ l * (1 + a) = l + l * a
  OBVIOUS
<1>3. (l + s) * (1 + a) <= p * (1 + a) /\ p * (1 + a) \in Nat
  OBVIOUS
<1> QED
  BY <1>1, <1>2, <1>3

\* Rounding up adds at most the alignment.
LEMMA RoundedUsed ==
  ASSUME NEW u \in Nat, NEW s \in Nat, u + Align + s < M
  PROVE  Add(method_allocator!NextMultiple(u, Align), s) \in u + s..u + Align + s
<1>1. u % Align \in 0..Align-1 /\ u % Align <= u /\ Align \in Nat
  BY Numbers, Remainder
<1> DEFINE r == u - (u % Align)
<1>2. r \in Nat /\ r + Align \in u..u + Align
  BY <1>1
<1> HIDE DEF r
<1>3. method_allocator!Add(r, Align) = r + Align
  BY <1>1, <1>2, Numbers DEF method_allocator!Add
<1>4. Add(r + Align, s) = r + Align + s
  BY <1>1, <1>2, Numbers, PlainSum
<1> QED
  BY <1>1, <1>2, <1>3, <1>4 DEF method_allocator!NextMultiple, r

LEMMA CoversInPool == UsedFits /\ PlaceInv /\ Covers /\ PlaceInDtcm => Covers'
<1> SUFFICES ASSUME UsedFits, PlaceInv, Covers, PlaceInDtcm, pc' # "abort" PROVE Covers'
  BY DEF Covers
<1>1. /\ pc = "place" /\ id < Len(sizes) /\ use_ddr_planned = FALSE
      /\ ret' # method_allocator!nullptr
      /\ UNCHANGED <<sizes, total_planned_size, use_ddr_planned>>
  BY DEF PlaceInDtcm, PlaceInv, Types
<1>2. PICK sum : Running(sizes, sum) /\ Counted(sum)
  BY <1>1 DEF Covers
<1>3. PICK start \in 0..M-1, size \in 0..M-1 : PoolStep(start, size)
  BY <1>1, PlacedInPool
<1>4. size = buffer_size /\ LaidOut \in Nat /\ LaidOut' = LaidOut + size
  BY <1>1, <1>3, LaidOutGrows DEF PlaceInv, PoolStep
<1>5. /\ LaidOut = sum[id] /\ total_planned_size = sum[Len(sizes)]
      /\ LaidOut <= cur_ - PoolBase
      /\ used_ \in Nat /\ LaidOut <= used_ /\ used_ <= LaidOut * (1 + Align)
  BY <1>1, <1>2 DEF Counted
<1>6. /\ cur_ <= start /\ cur_' = start + size /\ start + size <= PoolBase + PoolSize
      /\ id' = id + 1 /\ pc' = pc
      /\ used_' = IF size % Align = 0 THEN Add(used_, size)
                  ELSE Add(method_allocator!NextMultiple(used_, Align), size)
  BY <1>3 DEF PoolStep
<1>7. size \in Nat /\ start \in Nat /\ cur_ \in Nat
  BY Numbers DEF PlaceInv, Types
<1>8. LaidOut' <= cur_' - PoolBase /\ LaidOut + size <= PoolSize /\ LaidOut + size < M
  <2> DEFINE l == LaidOut
  <2>1. /\ l \in Nat /\ l <= cur_ - PoolBase /\ cur_ <= start
        /\ start + size <= PoolBase + PoolSize
    BY <1>4, <1>5, <1>6
  <2> HIDE DEF l
  <2>2. l + size <= start + size - PoolBase /\ l + size <= PoolSize /\ l + size < M
    BY <1>7, <2>1, Numbers
  <2>3. LaidOut' = l + size
    BY <1>4 DEF l
  <2>4. LaidOut = l
    BY DEF l
  <2> QED
    BY <1>6, <1>7, <2>1, <2>2, <2>3, <2>4, Numbers
<1>9. LaidOut' = sum[id']
  <2>1. Len(sizes) \in Nat /\ id \in 0..Len(sizes) /\ id + 1 \in 1..Len(sizes) /\ id + 1 - 1 = id
    BY <1>1, ListsAssumption DEF PlaceInv, Types
  <2>2. sum[id + 1] = Add(sum[id], buffer_size)
    BY <1>2, <2>1 DEF Running, buffer_size
  <2>3. Add(LaidOut, size) = LaidOut + size
    BY <1>4, <1>7, <1>8, PlainSum
  <2> QED
    BY <1>4, <1>5, <1>6, <2>2, <2>3
<1>10. used_' \in Nat /\ LaidOut' <= used_' /\ used_' <= LaidOut' * (1 + Align)
  <2> DEFINE l == LaidOut
             bound == l * (1 + Align)
             more == (l + size) * (1 + Align)
             all == PoolSize * (1 + Align)
  <2>1. l \in Nat /\ Align \in Nat /\ PoolSize \in Nat /\ l + size <= PoolSize
    BY <1>4, <1>8, Numbers
  <2> HIDE DEF l
  <2>2. /\ more <= all /\ bound + size <= more /\ (size >= 1 => bound + Align + size <= more)
        /\ bound \in Nat /\ more \in Nat /\ all \in Nat
    BY <1>7, <2>1, Scaled
  <2> HIDE DEF bound, more, all
  <2>3. used_ <= bound /\ l <= used_ /\ all < M
    BY <1>5 DEF UsedFits, l, bound, all
  <2>4. CASE size % Align = 0
    <3>1. used_ + size < M
      BY <1>5, <1>7, <2>2, <2>3, Numbers
    <3>2. used_' = used_ + size
      BY <1>5, <1>6, <1>7, <2>4, <3>1, PlainSum
    <3>3. used_' \in Nat /\ l + size <= used_' /\ used_' <= more
      BY <1>5, <1>7, <2>1, <2>2, <2>3, <3>2
    <3> QED
      BY <1>4, <3>3 DEF l, more
  <2>5. CASE size % Align # 0
    <3>1. size >= 1
      <4>1. 0 % Align = 0
        BY Numbers
      <4> QED
        BY <1>7, <2>5, <4>1
    <3>2. used_ + Align + size < M
      BY <1>5, <1>7, <2>1, <2>2, <2>3, <3>1, Numbers
    <3>3. used_' \in used_ + size..used_ + Align + size
      BY <1>5, <1>6, <1>7, <2>5, <3>2, RoundedUsed
    <3>4. used_' \in Nat /\ l + size <= used_' /\ used_' <= more
      BY <1>5, <1>7, <2>1, <2>2, <2>3, <3>1, <3>3
    <3> QED
      BY <1>4, <3>4 DEF l, more
  <2> QED
    BY <2>4, <2>5
<1>11. Counted(sum)'
  BY <1>1, <1>5, <1>6, <1>8, <1>9, <1>10 DEF Counted
<1> QED
  BY <1>1, <1>2, <1>11 DEF Covers

LEMMA CoversBuilt == PlaceInv /\ Covers /\ Built => Covers'
<1> SUFFICES ASSUME PlaceInv, Covers, Built PROVE Covers'
  OBVIOUS
<1>1. /\ pc = "place" /\ pc' = "built" /\ id = Len(sizes)
      /\ planned_buffer_memsize' = IF use_ddr_planned THEN ddr_planned_offset ELSE used_
      /\ UNCHANGED <<sizes, id, total_planned_size, use_ddr_planned, ddr_planned_offset,
                     planned_spans, cur_, used_>>
  BY DEF Built, alloc, method_allocator!used_size
<1>2. PICK sum : Running(sizes, sum) /\ Counted(sum)
  BY <1>1 DEF Covers
<1>3. LaidOut' = LaidOut
  BY <1>1, LaidOutKept
<1>4. Counted(sum)'
  BY <1>1, <1>2, <1>3 DEF Counted
<1> QED
  BY <1>1, <1>2, <1>4 DEF Covers

LEMMA CoversReports == PlaceInv /\ Covers => ReportedCovers
<1> SUFFICES ASSUME PlaceInv, Covers, pc = "built" PROVE
      /\ LaidOut = total_planned_size /\ planned_buffer_memsize >= LaidOut
      /\ use_ddr_planned => planned_buffer_memsize <= LaidOut + Len(sizes) * (Align - 1)
  BY DEF ReportedCovers
<1>1. PICK sum : Running(sizes, sum) /\ Counted(sum)
  BY DEF Covers
<1>2. LaidOut \in Nat /\ ddr_planned_offset \in Nat /\ use_ddr_planned \in BOOLEAN
  BY LaidOutType, Numbers DEF PlaceInv, Types
<1> QED
  BY <1>1, <1>2 DEF Counted

(* The figure reported as planned covers the buffers laid out, whose sum   *)
(* has not wrapped around; in DDR it exceeds them by the padding at most.  *)
(* The method pool of the firmware, 60 MB with an alignment of 16, is      *)
(* small enough for its used_ not to wrap around.                          *)
THEOREM ReportCoversBuffers ==
  ASSUME SumsFit, UsedFits
  PROVE  Spec => []ReportedCovers
<1>1. Init => Covers
  BY CoversInit
<1>2. PlaceInv /\ Covers /\ [Next]_vars => Covers'
  <2>1. Covers /\ UNCHANGED vars => Covers'
    <3> SUFFICES ASSUME Covers, UNCHANGED vars PROVE Covers'
      OBVIOUS
    <3>1. LaidOut' = LaidOut /\ UNCHANGED <<pc, sizes>>
      BY LaidOutKept DEF vars
    <3>2. \A sum : Counted(sum) => Counted(sum)'
      BY <3>1 DEF Counted, vars, alloc
    <3> QED
      BY <3>1, <3>2 DEF Covers
  <2> QED
    BY <2>1, CoversSumSize, CoversDecide, CoversInDdr, CoversInPool, CoversBuilt DEF Next
<1> QED
  BY <1>1, <1>2, Placed, CoversReports, PTL DEF Spec

=============================================================================
