-------------------------- MODULE ArmAllocatorProofs --------------------------
(***************************************************************************)
(* Proofs about ArmAllocator: for every pool, every alignment it may be    *)
(* asked for and every sequence of requests, blocks lie in the pool, at    *)
(* their alignment, without overlap, although sizes wrap around.  The      *)
(* invariants of the runs, together, are inductive.                        *)
(***************************************************************************)
EXTENDS ArmAllocator, SumsProofs, Integers

IInv == TypeOK /\ BlocksInPool /\ BlocksDisjoint

-----------------------------------------------------------------------------
(* Arithmetic *)

\* Rounding down leaves a remainder below the divisor.
LEMMA RemainderBound ==
  ASSUME NEW p \in Nat, NEW a \in Nat \ {0}
  PROVE  p % a \in 0..a-1
  OBVIOUS

\* The next multiple is a multiple.
LEMMA NextIsMultiple ==
  ASSUME NEW p \in Nat, NEW a \in Nat \ {0}
  PROVE  (p - (p % a) + a) % a = 0
  OBVIOUS

\* Add is closed on size_t.
LEMMA AddClosed ==
  ASSUME NEW x \in 0..M-1, NEW y \in 0..M-1
  PROVE  Add(x, y) \in 0..M-1
  BY SizesAssumption DEF Add

\* alignPointer: a multiple of the alignment, at least p, less than p plus the
\* alignment, for an address of the pool; nothing wraps around there.
LEMMA AlignPointer ==
  ASSUME NEW p \in Base..end_, NEW a \in Aligns, isPowerOf2(a)
  PROVE  /\ alignPointer(p, a) \in p..M-1
         /\ alignPointer(p, a) % a = 0
<1> DEFINE r == p % a
<1>1. a \in Nat \ {0} /\ p \in Nat /\ p + a <= M
  BY SizesAssumption, PoolAssumption DEF isPowerOf2, end_
<1>2. r \in 0..a-1
  BY <1>1, RemainderBound
<1>3. CASE r = 0
  <2>1. alignPointer(p, a) = p
    BY <1>3 DEF alignPointer
  <2>2. p \in p..M-1
    BY <1>1, SizesAssumption
  <2> QED
    BY <2>1, <2>2, <1>3
<1>4. CASE r # 0
  <2>1. alignPointer(p, a) = Add(p - r, a)
    BY <1>4 DEF alignPointer, NextMultiple
  <2>2. p - r + a < M
    BY <1>1, <1>2, <1>4, SizesAssumption
  <2>3. Add(p - r, a) = p - r + a
    BY <2>2 DEF Add
  <2>4. (p - r + a) % a = 0
    BY <1>1, NextIsMultiple
  <2>5. p - r + a \in p..M-1
    BY <1>1, <1>2, <2>2, SizesAssumption
  <2> QED
    BY <2>1, <2>3, <2>4, <2>5
<1> QED
  BY <1>3, <1>4

\* used_ stays a size_t, whatever it is rounded up to.
LEMMA UsedClosed ==
  ASSUME NEW u \in 0..M-1, NEW s \in 0..M-1, NEW a \in Aligns, isPowerOf2(a)
  PROVE  /\ Add(u, s) \in 0..M-1
         /\ Add(NextMultiple(u, a), s) \in 0..M-1
<1>1. a \in 0..M-1 /\ a \in Nat \ {0} /\ u \in Nat
  BY SizesAssumption DEF isPowerOf2
<1>2. u % a \in 0..a-1 /\ u - (u % a) \in 0..M-1
  <2>1. u % a \in 0..a-1
    BY <1>1, RemainderBound
  <2>2. u % a <= u
    BY <1>1
  <2> QED
    BY <2>1, <2>2, <1>1, SizesAssumption
<1>3. NextMultiple(u, a) \in 0..M-1
  BY <1>1, <1>2, AddClosed DEF NextMultiple
<1> QED
  BY <1>3, AddClosed

-----------------------------------------------------------------------------
(* The invariant *)

LEMMA Initially == Init => IInv
  BY SizesAssumption
  DEF Init, IInv, TypeOK, BlocksInPool, BlocksDisjoint, end_, nullptr, Blocks

\* A refused request changes nothing but the result.
LEMMA RefusalStep ==
  ASSUME IInv, ReturnNull, call' \in Requests
  PROVE  IInv'
  BY SizesAssumption
  DEF IInv, ReturnNull, TypeOK, BlocksInPool, BlocksDisjoint, end_, nullptr, Blocks,
      Requests

\* A granted request puts a block between the last one and the end of the pool.
LEMMA AllocateStep ==
  ASSUME IInv, NEW s \in 0..M-1, NEW a \in Aligns, allocate(s, a),
         call' \in Requests
  PROVE  IInv'
<1> DEFINE start == alignPointer(cur_, a)
           end   == Add(start, s)
           b     == [start |-> start, size |-> s, align |-> a]
<1> USE DEF IInv
<1>1. CASE ~isPowerOf2(a) \/ end > end_ \/ end < start
  BY <1>1, RefusalStep DEF allocate
<1>2. CASE isPowerOf2(a) /\ ~(end > end_) /\ ~(end < start)
  <2>1. /\ cur_' = end /\ blocks' = Append(blocks, b) /\ ret' = start
        /\ used_' = IF s % a = 0 THEN Add(used_, s)
                    ELSE Add(NextMultiple(used_, a), s)
    BY <1>2 DEF allocate
  <2>2. cur_ \in Base..end_ /\ used_ \in 0..M-1 /\ blocks \in Seq(Blocks)
    BY DEF TypeOK
  <2>3. start \in cur_..M-1 /\ start % a = 0
    BY <1>2, <2>2, AlignPointer
  <2>4. end = start + s
    BY <1>2, <2>2, <2>3, SizesAssumption DEF Add, end_
  <2>5. end <= end_ /\ start <= end /\ end \in Base..end_ /\ start \in 0..M-1
    BY <1>2, <2>2, <2>3, <2>4, SizesAssumption DEF end_
  <2>6. b \in Blocks
    BY <2>5, SizesAssumption DEF Blocks
  <2>7. TypeOK'
    <3>1. used_' \in 0..M-1
      BY <1>2, <2>1, <2>2, UsedClosed
    <3>2. blocks' \in Seq(Blocks)
      BY <2>1, <2>2, <2>6
    <3> QED
      BY <2>1, <2>5, <3>1, <3>2 DEF TypeOK, end_, Requests
  <2>8. /\ Len(blocks') = Len(blocks) + 1 /\ Len(blocks) \in Nat
        /\ \A i \in 1..Len(blocks) : blocks'[i] = blocks[i]
        /\ blocks'[Len(blocks) + 1] = b
    BY <2>1, <2>2, <2>6
  <2>9. cur_ <= start /\ cur_ <= cur_' /\ start + s = cur_'
    BY <2>1, <2>2, <2>3, <2>4, <2>5, SizesAssumption DEF end_
  <2>10. \A i \in 1..Len(blocks) :
           /\ blocks[i].start \in Nat /\ blocks[i].size \in Nat
           /\ Base <= blocks[i].start
           /\ blocks[i].start + blocks[i].size <= cur_
           /\ blocks[i].start % blocks[i].align = 0
    <3> TAKE i \in 1..Len(blocks)
    <3>1. blocks[i] \in Blocks
      BY <2>2
    <3> QED
      BY <3>1, SizesAssumption DEF Blocks, BlocksInPool
  <2>11. BlocksInPool'
    <3> SUFFICES ASSUME NEW i \in 1..Len(blocks')
                 PROVE  /\ Base <= blocks'[i].start
                        /\ blocks'[i].start + blocks'[i].size <= cur_'
                        /\ blocks'[i].start % blocks'[i].align = 0
      BY DEF BlocksInPool
    <3>1. CASE i = Len(blocks) + 1
      <4>1. blocks'[i].start = start /\ blocks'[i].size = s /\ blocks'[i].align = a
        BY <2>8, <3>1
      <4>2. Base <= start
        BY <2>2, <2>3, <2>9, SizesAssumption DEF end_
      <4> QED
        BY <4>1, <4>2, <2>3, <2>9
    <3>2. CASE i \in 1..Len(blocks)
      <4>1. /\ blocks[i].start \in Nat /\ blocks[i].size \in Nat
            /\ blocks[i].start + blocks[i].size <= cur_
        BY <2>10, <3>2
      <4>2. cur_ \in Nat /\ cur_' \in Nat /\ cur_ <= cur_'
        BY <2>1, <2>2, <2>5, <2>9, SizesAssumption DEF end_
      <4>3. blocks[i].start + blocks[i].size <= cur_'
        BY <4>1, <4>2
      <4> QED
        BY <4>3, <2>8, <2>10, <3>2
    <3> QED
      BY <2>8, <3>1, <3>2
  <2>12. BlocksDisjoint'
    <3> SUFFICES ASSUME NEW i \in 1..Len(blocks'), NEW j \in 1..Len(blocks'), i < j
                 PROVE  blocks'[i].start + blocks'[i].size <= blocks'[j].start
      BY DEF BlocksDisjoint
    <3>1. i \in 1..Len(blocks) /\ blocks'[i] = blocks[i]
      BY <2>8
    <3>2. CASE j = Len(blocks) + 1
      <4>1. blocks'[j].start = start
        BY <2>8, <3>2
      <4>2. /\ blocks[i].start \in Nat /\ blocks[i].size \in Nat
            /\ blocks[i].start + blocks[i].size <= cur_
        BY <2>10, <3>1
      <4>3. cur_ \in Nat /\ start \in Nat /\ cur_ <= start
        BY <2>2, <2>3, <2>9, SizesAssumption DEF end_
      <4>4. blocks[i].start + blocks[i].size <= start
        BY <4>2, <4>3
      <4> QED
        BY <4>1, <4>4, <3>1
    <3>3. CASE j \in 1..Len(blocks)
      BY <2>8, <3>1, <3>3 DEF BlocksDisjoint
    <3> QED
      BY <2>8, <3>2, <3>3
  <2> QED
    BY <2>7, <2>11, <2>12
<1> QED
  BY <1>1, <1>2

\* allocateList: a product that is no size_t is refused.
LEMMA AllocateListStep ==
  ASSUME IInv, NEW n \in Counts, NEW s \in Sizes, NEW a \in Aligns,
         AllocateList(n, s, a)
  PROVE  IInv'
<1>1. n \in Nat /\ s \in Nat /\ n * s \in Nat
  BY SizesAssumption
<1>a. allocateList(n, s, a) /\ call' \in Requests
  BY DEF AllocateList, Requests
<1>2. CASE n * s >= M
  BY <1>2, <1>a, RefusalStep DEF allocateList
<1>3. CASE ~(n * s >= M)
  <2>1. n * s \in 0..M-1
    BY <1>1, <1>3, SizesAssumption
  <2>2. allocate(n * s, a)
    BY <1>3, <1>a DEF allocateList
  <2> QED
    BY <1>a, <2>1, <2>2, AllocateStep
<1> QED
  BY <1>2, <1>3

LEMMA ResetStep ==
  ASSUME IInv, Reset
  PROVE  IInv'
  BY SizesAssumption
  DEF IInv, Reset, reset, Requests, TypeOK, BlocksInPool, BlocksDisjoint, end_, Blocks

\* The three invariants are inductive together.
THEOREM Inductive == Spec => []IInv
<1>1. IInv /\ [Next]_vars => IInv'
  <2> SUFFICES ASSUME IInv, [Next]_vars
               PROVE  IInv'
    OBVIOUS
  <2>1. ASSUME NEW s \in Sizes, NEW a \in Aligns, Allocate(s, a)
        PROVE  IInv'
    <3>1. s \in 0..M-1
      BY SizesAssumption
    <3>2. allocate(s, a) /\ call' \in Requests
      BY <2>1 DEF Allocate, Requests
    <3> QED
      BY <3>1, <3>2, AllocateStep
  <2>2. ASSUME NEW n \in Counts, NEW s \in Sizes, NEW a \in Aligns, AllocateList(n, s, a)
        PROVE  IInv'
    BY <2>2, AllocateListStep
  <2>3. CASE Reset
    BY <2>3, ResetStep
  <2>4. CASE UNCHANGED vars
    <3>1. TypeOK'
      BY <2>4 DEF vars, IInv, TypeOK, end_, Requests, Blocks
    <3>2. BlocksInPool' /\ BlocksDisjoint'
      BY <2>4 DEF vars, IInv, BlocksInPool, BlocksDisjoint
    <3> QED
      BY <3>1, <3>2 DEF IInv
  <2> QED
    BY <2>1, <2>2, <2>3, <2>4 DEF Next
<1> QED
  BY Initially, <1>1, PTL DEF Spec

\* ArmMemoryAllocator: cur_ never leaves the pool, whatever is asked for.
THEOREM TypeCorrect == Spec => []TypeOK
<1>1. IInv => TypeOK
  BY DEF IInv
<1> QED
  BY Inductive, <1>1, PTL

\* Every block handed out lies in the pool, below cur_, at the alignment that
\* was asked for.
THEOREM BlocksStayInPool == Spec => []BlocksInPool
<1>1. IInv => BlocksInPool
  BY DEF IInv
<1> QED
  BY Inductive, <1>1, PTL

\* No two blocks handed out since the last reset share a byte.
THEOREM BlocksNeverOverlap == Spec => []BlocksDisjoint
<1>1. IInv => BlocksDisjoint
  BY DEF IInv
<1> QED
  BY Inductive, <1>1, PTL

-----------------------------------------------------------------------------
(* The refinement *)

\* Where the arena puts a block is where alignPointer puts it.
LEMMA UpIsAlignPointer ==
  ASSUME NEW p \in Base..end_, NEW a \in Aligns, isPowerOf2(a)
  PROVE  ArenaSpec!Up(p, a) = alignPointer(p, a)
<1>1. a \in Nat \ {0} /\ p \in Nat /\ p + a <= M
  BY SizesAssumption, PoolAssumption DEF isPowerOf2, end_
<1>2. p % a \in 0..a-1
  BY <1>1, RemainderBound
<1>3. CASE p % a = 0
  BY <1>3 DEF ArenaSpec!Up, alignPointer
<1>4. CASE p % a # 0
  <2>1. p - (p % a) + a < M
    BY <1>1, <1>2, <1>4, SizesAssumption
  <2>2. Add(p - (p % a), a) = p - (p % a) + a
    BY <2>1 DEF Add
  <2> QED
    BY <1>4, <2>2 DEF ArenaSpec!Up, alignPointer, NextMultiple
<1> QED
  BY <1>3, <1>4

\* The three tests of allocate, one of them there for sizes that wrap around,
\* grant exactly what fits.
LEMMA GrantsWhatFits ==
  ASSUME NEW p \in Base..end_, NEW s \in 0..M-1, NEW a \in Aligns, isPowerOf2(a)
  PROVE  LET start == alignPointer(p, a)
             end   == Add(start, s)
         IN  /\ ~(end > end_ \/ end < start) <=> start + s <= Base + PoolSize
             /\ start + s <= Base + PoolSize => end = start + s
<1> DEFINE start == alignPointer(p, a)
           end   == Add(start, s)
<1>1. start \in p..M-1
  BY AlignPointer
<1>2. p \in Nat /\ start \in 0..M-1 /\ end_ < M /\ end_ \in Nat
  BY <1>1, SizesAssumption, PoolAssumption DEF isPowerOf2, end_
<1>3. CASE start + s < M
  <2>1. end = start + s
    BY <1>3 DEF Add
  <2> QED
    BY <1>2, <2>1, SizesAssumption DEF end_
<1>4. CASE ~(start + s < M)
  <2>1. end = start + s - M
    BY <1>4 DEF Add
  <2>2. end < start /\ ~(start + s <= end_)
    BY <1>2, <1>4, <2>1, SizesAssumption
  <2> QED
    BY <2>2 DEF end_
<1> QED
  BY <1>3, <1>4

\* A call of allocate is a step of the arena.
LEMMA AllocateRefines ==
  ASSUME IInv, NEW s \in 0..M-1, NEW a \in Aligns, allocate(s, a),
         call' = <<s, a>>
  PROVE  ArenaSpec!Alloc(s, a) \/ ArenaSpec!Refuse(s, a)
<1> DEFINE start == alignPointer(cur_, a)
           end   == Add(start, s)
<1>1. cur_ \in Base..end_
  BY DEF IInv, TypeOK
<1>2. CASE ~isPowerOf2(a)
  BY <1>2 DEF allocate, ReturnNull, nullptr, ArenaSpec!Refuse, ArenaSpec!Fits
<1>3. CASE isPowerOf2(a)
  <2>1. ArenaSpec!Up(cur_, a) = start
    BY <1>1, <1>3, UpIsAlignPointer
  <2>2. /\ ~(end > end_ \/ end < start) <=> start + s <= Base + PoolSize
        /\ start + s <= Base + PoolSize => end = start + s
    BY <1>1, <1>3, GrantsWhatFits
  <2>3. ArenaSpec!Fits(s, a) <=> start + s <= Base + PoolSize
    BY <1>3, <2>1 DEF ArenaSpec!Fits
  <2>4. CASE start + s <= Base + PoolSize
    <3>1. /\ cur_' = end /\ ret' = start
          /\ blocks' = Append(blocks, [start |-> start, size |-> s, align |-> a])
      BY <1>3, <2>2, <2>4 DEF allocate
    <3>2. ArenaSpec!Alloc(s, a)
      BY <2>1, <2>2, <2>3, <2>4, <3>1 DEF ArenaSpec!Alloc
    <3> QED
      BY <3>2
  <2>5. CASE ~(start + s <= Base + PoolSize)
    <3>1. ReturnNull
      BY <1>3, <2>2, <2>5 DEF allocate
    <3>2. ArenaSpec!Refuse(s, a)
      BY <2>3, <2>5, <3>1 DEF ReturnNull, nullptr, ArenaSpec!Refuse
    <3> QED
      BY <3>2
  <2> QED
    BY <2>4, <2>5
<1> QED
  BY <1>2, <1>3

\* So is a call of allocateList, also when the product is no size_t.
LEMMA AllocateListRefines ==
  ASSUME IInv, NEW n \in Counts, NEW s \in Sizes, NEW a \in Aligns,
         AllocateList(n, s, a)
  PROVE  ArenaSpec!Alloc(n * s, a) \/ ArenaSpec!Refuse(n * s, a)
<1>1. n \in Nat /\ s \in Nat /\ n * s \in Nat
  BY SizesAssumption
<1>2. allocateList(n, s, a) /\ call' = <<n * s, a>>
  BY DEF AllocateList
<1>3. CASE n * s >= M
  <2>1. ReturnNull
    BY <1>2, <1>3 DEF allocateList
  <2>2. ~ArenaSpec!Fits(n * s, a)
    <3> SUFFICES ASSUME isPowerOf2(a)
                 PROVE  ~(ArenaSpec!Up(cur_, a) + n * s <= Base + PoolSize)
      BY DEF ArenaSpec!Fits
    <3>1. cur_ \in Base..end_
      BY DEF IInv, TypeOK
    <3>2. ArenaSpec!Up(cur_, a) \in cur_..M-1
      BY <3>1, UpIsAlignPointer, AlignPointer
    <3>3. end_ < M /\ end_ \in Nat
      BY SizesAssumption, PoolAssumption DEF isPowerOf2, end_
    <3>4. ArenaSpec!Up(cur_, a) \in Nat
      BY <3>1, <3>2, SizesAssumption DEF end_
    <3> DEFINE u == ArenaSpec!Up(cur_, a)
               t == n * s
    <3>5. t \in Nat /\ t >= M /\ u \in Nat
      BY <1>1, <1>3, <3>4
    <3>6. u + t > end_
      <4> HIDE DEF u, t
      <4> QED
        BY <3>3, <3>5, SizesAssumption
    <3> QED
      BY <3>3, <3>5, <3>6, SizesAssumption DEF end_
  <2> QED
    BY <1>2, <2>1, <2>2 DEF ReturnNull, nullptr, ArenaSpec!Refuse
<1>4. CASE ~(n * s >= M)
  <2>1. n * s \in 0..M-1
    BY <1>1, <1>4, SizesAssumption
  <2>2. allocate(n * s, a)
    BY <1>2, <1>4 DEF allocateList
  <2> QED
    BY <1>2, <2>1, <2>2, AllocateRefines
<1> QED
  BY <1>3, <1>4

\* ArmMemoryAllocator implements the arena of unbounded arithmetic: every call
\* is granted or refused as if sizes and addresses did not wrap around.
THEOREM ImplementsArena == Spec => IsArena
<1>1. Init => ArenaSpec!Init
  BY DEF Init, nullptr, ArenaSpec!Init
<1>2. IInv /\ [Next]_vars => [ArenaSpec!Next]_<<cur_, blocks, ret, call>>
  <2> SUFFICES ASSUME IInv, [Next]_vars
               PROVE  ArenaSpec!Next \/ UNCHANGED <<cur_, blocks, ret, call>>
    OBVIOUS
  <2>1. ASSUME NEW s \in Sizes, NEW a \in Aligns, Allocate(s, a)
        PROVE  ArenaSpec!Next
    <3>1. s \in 0..M-1 /\ allocate(s, a) /\ call' = <<s, a>>
      BY <2>1, SizesAssumption DEF Allocate
    <3>2. ArenaSpec!Alloc(s, a) \/ ArenaSpec!Refuse(s, a)
      BY <3>1, AllocateRefines
    <3>3. <<s, a>> \in Requests
      BY DEF Requests
    <3> QED
      BY <3>2, <3>3 DEF ArenaSpec!Next
  <2>2. ASSUME NEW n \in Counts, NEW s \in Sizes, NEW a \in Aligns, AllocateList(n, s, a)
        PROVE  ArenaSpec!Next
    <3>1. ArenaSpec!Alloc(n * s, a) \/ ArenaSpec!Refuse(n * s, a)
      BY <2>2, AllocateListRefines
    <3>2. <<n * s, a>> \in Requests
      BY DEF Requests
    <3> QED
      BY <3>1, <3>2 DEF ArenaSpec!Next
  <2>3. CASE Reset
    BY <2>3 DEF Reset, reset, ArenaSpec!Next, ArenaSpec!FreeAll
  <2>4. CASE UNCHANGED vars
    BY <2>4 DEF vars
  <2> QED
    BY <2>1, <2>2, <2>3, <2>4 DEF Next
<1> QED
  BY <1>1, <1>2, Inductive, PTL DEF Spec, IsArena, ArenaSpec!Spec

-----------------------------------------------------------------------------
(* What used_ says *)

\* used_ is the bytes asked for, rounded up k times, and those lie in the pool.
Bracketed(a) ==
  /\ Len(blocks) <= MaxBlocks /\ Asked \in Nat /\ Padding \in Nat
  /\ Asked <= cur_ - Base
  /\ Asked <= used_ /\ used_ <= Asked + Padding
  /\ \E k \in Nat : k <= Asked /\ k <= Len(blocks) /\ used_ <= Asked + k * a

LEMMA BracketedInit == \A a \in Nat : Init => Bracketed(a)
<1> SUFFICES ASSUME NEW a \in Nat, Init PROVE Bracketed(a)
  OBVIOUS
<1>1. Len(blocks) = 0 /\ cur_ = Base /\ used_ = 0 /\ 0 <= MaxBlocks /\ Base \in Nat
  BY SizesAssumption DEF Init
<1>2. [i \in 1..Len(blocks) |-> blocks[i].size] = << >>
      /\ [i \in 1..Len(blocks) |-> blocks[i].align] = << >>
  BY <1>1
<1>3. Asked = 0 /\ Padding = 0
  BY <1>2, TotalEmpty DEF Asked, Padding
<1>4. 0 * a = 0
  OBVIOUS
<1> QED
  BY <1>1, <1>3, <1>4 DEF Bracketed

\* Rounding up adds at most the alignment.
LEMMA RoundedUsed ==
  ASSUME NEW u \in Nat, NEW b \in Nat \ {0}, NEW s \in Nat, u + b + s < M
  PROVE  Add(NextMultiple(u, b), s) \in u + s..u + b + s
<1>1. u % b \in 0..b-1 /\ u % b <= u
  OBVIOUS
<1> DEFINE r == u - (u % b)
<1>2. r \in Nat /\ r + b \in u..u + b
  BY <1>1
<1> HIDE DEF r
<1>3. Add(r, b) = r + b
  BY <1>2, SizesAssumption DEF Add
<1>4. Add(r + b, s) = r + b + s
  BY <1>2, SizesAssumption DEF Add
<1> QED
  BY <1>2, <1>3, <1>4 DEF NextMultiple, r

\* Rounding up k times leads no further than rounding up n times does.
LEMMA TimesBound ==
  ASSUME NEW k \in Nat, NEW n \in Nat, NEW a \in Nat, k <= n
  PROVE  k * a \in Nat /\ n * a \in Nat /\ k * a <= n * a /\ (k + 1) * a = k * a + a
  OBVIOUS

\* The sums after a granted request.
LEMMA SumsGrow ==
  ASSUME IInv, NEW s \in 0..M-1, NEW b \in Nat, NEW start,
         blocks' = Append(blocks, [start |-> start, size |-> s, align |-> b])
  PROVE  /\ Asked \in Nat /\ Padding \in Nat
         /\ Asked' = Asked + s /\ Padding' = Padding + b
         /\ Len(blocks') = Len(blocks) + 1
<1> DEFINE n == Len(blocks)
           sizes   == [i \in 1..n |-> blocks[i].size]
           aligns  == [i \in 1..n |-> blocks[i].align]
           sizes2  == [i \in 1..Len(blocks') |-> blocks'[i].size]
           aligns2 == [i \in 1..Len(blocks') |-> blocks'[i].align]
<1>1. blocks \in Seq(Blocks) /\ n \in Nat /\ s \in Nat
  BY SizesAssumption DEF IInv, TypeOK
<1>2. \A i \in 1..n : blocks[i].size \in Nat /\ blocks[i].align \in Nat
  <2> TAKE i \in 1..n
  <2>1. blocks[i] \in Blocks
    BY <1>1
  <2> QED
    BY <2>1, SizesAssumption DEF Blocks
<1>3. /\ Len(blocks') = n + 1 /\ \A i \in 1..n : blocks'[i] = blocks[i]
      /\ blocks'[n + 1] = [start |-> start, size |-> s, align |-> b]
  BY <1>1
<1>4. sizes \in [1..n -> Nat] /\ aligns \in [1..n -> Nat]
  BY <1>2
<1>5. \A i \in 1..n + 1 : i \in 1..n \/ i = n + 1
  BY <1>1
<1>6. \A i \in 1..n + 1 : blocks'[i].size \in Nat /\ blocks'[i].align \in Nat
  BY <1>1, <1>2, <1>3, <1>5
<1>7. sizes2 \in [1..n + 1 -> Nat] /\ aligns2 \in [1..n + 1 -> Nat]
  BY <1>3, <1>6
<1>8. /\ \A i \in 1..n : sizes2[i] = sizes[i]
      /\ \A i \in 1..n : aligns2[i] = aligns[i]
      /\ sizes2[n + 1] = s /\ aligns2[n + 1] = b
  BY <1>1, <1>3
<1>9. /\ Asked = Total(sizes) /\ Asked' = Total(sizes2)
      /\ Padding = Total(aligns) /\ Padding' = Total(aligns2)
  BY DEF Asked, Padding
<1> HIDE DEF n, sizes, aligns, sizes2, aligns2
<1>10. Total(sizes2) = Total(sizes) + s /\ Total(sizes) \in Nat
  <2>1. Total(sizes2) = Total(sizes) + sizes2[n + 1] /\ Total(sizes) \in Nat
    BY <1>1, <1>4, <1>7, <1>8, TotalGrows
  <2> QED
    BY <1>8, <2>1
<1>11. Total(aligns2) = Total(aligns) + b /\ Total(aligns) \in Nat
  <2>1. Total(aligns2) = Total(aligns) + aligns2[n + 1] /\ Total(aligns) \in Nat
    BY <1>1, <1>4, <1>7, <1>8, TotalGrows
  <2> QED
    BY <1>8, <2>1
<1> QED
  BY <1>3, <1>9, <1>10, <1>11 DEF n

\* A granted request adds its size to used_, rounded up at most once.
LEMMA BracketedAllocate ==
  ASSUME NEW a, NEW n, RoundingFits(a, n), IInv, Bracketed(a), Len(blocks) < MaxBlocks,
         NEW s \in 0..M-1, NEW b \in Aligns, allocate(s, b), ~ReturnNull
  PROVE  Bracketed(a)'
<1> DEFINE start == alignPointer(cur_, b)
<1>1. /\ ~(~isPowerOf2(b) \/ Add(start, s) > end_ \/ Add(start, s) < start)
      /\ cur_' = Add(start, s)
      /\ used_' = IF s % b = 0 THEN Add(used_, s) ELSE Add(NextMultiple(used_, b), s)
      /\ blocks' = Append(blocks, [start |-> start, size |-> s, align |-> b])
  BY DEF allocate
<1>2. cur_ \in Base..end_ /\ cur_ \in Nat /\ Base \in Nat /\ end_ = Base + PoolSize
      /\ PoolSize \in Nat /\ s \in Nat /\ used_ \in Nat /\ M \in Nat
      /\ MaxBlocks \in Nat /\ Len(blocks) \in Nat
  BY SizesAssumption DEF IInv, TypeOK, end_
<1>3. b \in Nat \ {0} /\ b <= a /\ a \in Nat
  BY <1>1, SizesAssumption DEF RoundingFits, isPowerOf2
<1>4. start \in cur_..M-1 /\ start + s <= end_ /\ cur_' = start + s
  BY <1>1, <1>2, AlignPointer, GrantsWhatFits
<1>5. /\ Asked \in Nat /\ Padding \in Nat
      /\ Asked' = Asked + s /\ Padding' = Padding + b
      /\ Len(blocks') = Len(blocks) + 1
  BY <1>1, <1>3, SumsGrow
<1> HIDE DEF start
<1>6. Asked' <= cur_' - Base /\ Asked' <= PoolSize
  BY <1>2, <1>4, <1>5 DEF Bracketed
<1>7. PICK k \in Nat : k <= Asked /\ k <= Len(blocks) /\ used_ <= Asked + k * a
  BY DEF Bracketed
<1>8. Asked <= used_ /\ used_ <= Asked + Padding
  BY DEF Bracketed
<1>9. CASE s % b = 0
  <2>1. k <= n /\ n \in Nat
    BY <1>2, <1>5, <1>6, <1>7 DEF RoundingFits
  <2>2. k * a \in Nat /\ n * a \in Nat /\ k * a <= n * a
    BY <1>3, <2>1, TimesBound
  <2>3. PoolSize + n * a < M
    BY DEF RoundingFits
  <2> DEFINE ka == k * a
             na == n * a
  <2> HIDE DEF ka, na
  <2>4. used_ + s < M /\ used_ + s <= Asked' + ka
    BY <1>2, <1>5, <1>6, <1>7, <2>2, <2>3 DEF ka, na
  <2>5. used_' = used_ + s
    BY <1>1, <1>9, <2>4 DEF Add
  <2>6. used_' <= Asked' + k * a
    BY <2>4, <2>5 DEF ka
  <2>7. Asked' <= used_' /\ used_' <= Asked' + Padding' /\ k <= Asked' /\ k <= Len(blocks')
    BY <1>2, <1>3, <1>5, <1>7, <1>8, <2>5
  <2> QED
    BY <1>2, <1>3, <1>5, <1>6, <2>6, <2>7 DEF Bracketed
<1>10. CASE s % b # 0
  <2>1. s >= 1
    <3>1. 0 % b = 0
      BY <1>3
    <3> QED
      BY <1>2, <1>10, <3>1
  <2>2. k + 1 <= Asked' /\ k + 1 <= Len(blocks') /\ k + 1 <= n /\ n \in Nat /\ k + 1 \in Nat
    BY <1>2, <1>5, <1>6, <1>7, <2>1 DEF RoundingFits
  <2>3. k * a \in Nat /\ (k + 1) * a = k * a + a
    BY <1>3, <1>7, <2>2, TimesBound
  <2>4. (k + 1) * a <= n * a /\ n * a \in Nat
    BY <1>3, <2>2, TimesBound
  <2>5. PoolSize + n * a < M
    BY DEF RoundingFits
  <2> DEFINE ka == k * a
             na == n * a
             k1a == (k + 1) * a
  <2> HIDE DEF ka, na, k1a
  <2>6. used_ + b + s < M /\ used_ + b + s <= Asked' + k1a
    BY <1>2, <1>3, <1>5, <1>6, <1>7, <2>3, <2>4, <2>5 DEF ka, na, k1a
  <2>7. used_' \in used_ + s..used_ + b + s
    BY <1>1, <1>2, <1>3, <1>10, <2>6, RoundedUsed
  <2>8. used_' <= Asked' + (k + 1) * a
    BY <1>2, <1>3, <1>5, <2>3, <2>6, <2>7 DEF k1a
  <2>9. Asked' <= used_' /\ used_' <= Asked' + Padding'
    BY <1>2, <1>3, <1>5, <1>8, <2>7
  <2>10. \E j \in Nat : j <= Asked' /\ j <= Len(blocks') /\ used_' <= Asked' + j * a
    BY <2>2, <2>8, Zenon
  <2>11. Len(blocks') <= MaxBlocks /\ Asked' \in Nat /\ Padding' \in Nat
    BY <1>2, <1>3, <1>5
  <2> QED
    BY <1>6, <2>9, <2>10, <2>11 DEF Bracketed
<1> QED
  BY <1>9, <1>10

LEMMA BracketedKept ==
  ASSUME NEW a, Bracketed(a), UNCHANGED <<cur_, used_, blocks>>
  PROVE  Bracketed(a)'
  BY DEF Bracketed, Asked, Padding

LEMMA BracketedNext ==
  ASSUME NEW a, NEW n, RoundingFits(a, n), IInv, Bracketed(a), [Next]_vars
  PROVE  Bracketed(a)'
<1>1. ASSUME Len(blocks) < MaxBlocks, NEW s \in 0..M-1, NEW b \in Aligns, allocate(s, b)
      PROVE  Bracketed(a)'
  <2>1. CASE ReturnNull
    BY <2>1, BracketedKept DEF ReturnNull
  <2>2. CASE ~ReturnNull
    BY <1>1, <2>2, BracketedAllocate
  <2> QED
    BY <2>1, <2>2
<1>2. ASSUME Len(blocks) < MaxBlocks, NEW s \in Sizes, NEW b \in Aligns, Allocate(s, b)
      PROVE  Bracketed(a)'
  <2>1. s \in 0..M-1 /\ allocate(s, b)
    BY <1>2, SizesAssumption DEF Allocate
  <2> QED
    BY <1>1, <1>2, <2>1
<1>3. ASSUME Len(blocks) < MaxBlocks, NEW c \in Counts, NEW s \in Sizes, NEW b \in Aligns,
             AllocateList(c, s, b)
      PROVE  Bracketed(a)'
  <2>1. c \in Nat /\ s \in Nat /\ c * s \in Nat /\ allocateList(c, s, b)
    BY <1>3, SizesAssumption DEF AllocateList
  <2>2. CASE c * s >= M
    BY <2>1, <2>2, BracketedKept DEF allocateList, ReturnNull
  <2>3. CASE ~(c * s >= M)
    <3>1. c * s \in 0..M-1 /\ allocate(c * s, b)
      BY <2>1, <2>3, SizesAssumption DEF allocateList
    <3> QED
      BY <1>1, <1>3, <3>1
  <2> QED
    BY <2>2, <2>3
<1>4. CASE Reset
  <2>1. Len(blocks') = 0 /\ cur_' = Base /\ used_' = 0 /\ 0 <= MaxBlocks /\ Base \in Nat
        /\ a \in Nat
    BY <1>4, SizesAssumption DEF Reset, reset, RoundingFits
  <2>2. [i \in 1..Len(blocks') |-> blocks'[i].size] = << >>
        /\ [i \in 1..Len(blocks') |-> blocks'[i].align] = << >>
    BY <2>1
  <2>3. Asked' = 0 /\ Padding' = 0
    BY <2>2, TotalEmpty DEF Asked, Padding
  <2>4. 0 * a = 0
    BY <2>1
  <2> QED
    BY <2>1, <2>3, <2>4 DEF Bracketed
<1>5. CASE UNCHANGED vars
  BY <1>5, BracketedKept DEF vars
<1> QED
  BY <1>2, <1>3, <1>4, <1>5 DEF Next

\* What log_mem_status prints of an allocator brackets the bytes asked for since
\* the last reset, although used_ is rounded up by another rule than cur_ is.
\* The pools of the firmware are small enough for it: at most 60 MB, and
\* alignments of 16, in 2^32.
THEOREM UsedIsBracketed ==
  ASSUME \E a, n : RoundingFits(a, n)
  PROVE  Spec => []UsedBrackets
<1>1. PICK a, n : RoundingFits(a, n)
  OBVIOUS
<1>2. Init => Bracketed(a)
  BY <1>1, BracketedInit DEF RoundingFits
<1>3. IInv /\ Bracketed(a) /\ [Next]_vars => Bracketed(a)'
  BY <1>1, BracketedNext
<1>4. Bracketed(a) => UsedBrackets
  BY DEF Bracketed, UsedBrackets
<1> QED
  BY <1>2, <1>3, <1>4, Inductive, PTL DEF Spec
=============================================================================
