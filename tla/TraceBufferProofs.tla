-------------------------- MODULE TraceBufferProofs --------------------------
(***************************************************************************)
(* Proofs about TraceBuffer, for every size of the buffer, every set of    *)
(* messages and every interleaving of the contexts.                        *)
(*                                                                         *)
(* The length check of trace_write is made before the bytes are stored, so *)
(* "trace_idx < Size" is not inductive when the interrupt handler logs.    *)
(* What is: a write that passed the check starts below Size, whatever the  *)
(* interrupt did since, hence ends less than one format buffer beyond it.  *)
(***************************************************************************)
EXTENDS TraceBuffer, SequenceTheorems, TLAPS

\* The highest index any interleaving can reach.
Top == Size + LogBuf - 2

BusyLabels  == {"addr", "copy", "load", "store"}
WriteLabels == BusyLabels \cup {"idle", "nuladdr", "nul", "spin"}
FaultLabels == {"idle", "fload", "fcopy", "fstore", "spin", "silent"}

\* What each context is doing, and with which kind of message.
Roles ==
  /\ \A c \in Writers :
       /\ pc[c] \in WriteLabels
       /\ pc[c] \notin {"idle", "spin"} => msg[c] \in Writes
  /\ \A c \in {"fault", "hard"} :
       /\ pc[c] \in FaultLabels
       /\ pc[c] \in {"fload", "fcopy", "fstore", "spin"} => msg[c] \in Reports

\* The addresses the contexts hold in their registers.
Registers ==
  /\ \A c \in Writers :
       /\ pc[c] = "copy" => reg[c] < Size /\ k[c] < Written(msg[c])
       /\ pc[c] = "store" => reg[c] < Size
       /\ pc[c] = "nul" => reg[c] <= Top
  /\ pc["irq"] = "store" => reg["irq"] + Written(msg["irq"]) < Size
  /\ \A c \in {"fault", "hard"} :
       pc[c] \in {"fcopy", "fstore"} => reg[c] <= Top

NoFault == pc["fault"] = "idle" /\ pc["hard"] = "idle"

\* As long as no fault came: a write that passed the check finds trace_idx
\* below Size, and the handler, which main cannot interrupt, finds its room.
Index ==
  /\ trace_idx <= Top
  /\ NoFault /\ pc["main"] \in BusyLabels => trace_idx < Size
  /\ NoFault /\ pc["irq"] \in BusyLabels =>
       trace_idx + Written(msg["irq"]) < Size

IInv == TypeOK /\ Roles /\ Registers /\ Index

\* Lengths of messages: trace_write stores at least one byte and leaves one
\* byte of the format buffer; a report has a length.
LEMMA MsgLengths ==
  /\ \A m \in Writes : Written(m) \in Nat \ {0} /\ Written(m) <= LogBuf - 1
  /\ \A m \in Reports : ReportLen(m) \in Nat
  /\ Top \in Nat /\ Top < Region /\ Size <= Top /\ Size \in Nat \ {0}
  /\ Region \in Nat
<1>1. \A m \in Writes : Written(m) \in Nat \ {0} /\ Written(m) <= LogBuf - 1
  BY SizeAssumption, LenAssumption, RegionAssumption DEF Written, Msgs
<1>2. \A m \in Reports : ReportLen(m) \in Nat
  <2> SUFFICES ASSUME NEW m \in Reports PROVE ReportLen(m) \in Nat
    OBVIOUS
  <2>1. FmtLen[m] \in Nat /\ Words[m] \in Nat /\ WordLen \in Nat
    BY LenAssumption DEF Msgs
  <2>2. Words[m] * WordLen \in Nat
    BY <2>1
  <2> QED
    BY <2>1, <2>2 DEF ReportLen
<1> QED
  BY <1>1, <1>2, SizeAssumption, RegionAssumption DEF Top

\* The invariant implies that every pending store is inside the region.
LEMMA IInvStores == IInv => StoresInRegion
<1> SUFFICES ASSUME IInv, NEW c \in Ctx, pc[c] \in {"copy", "fcopy", "nul"}
             PROVE  reg[c] + (IF pc[c] = "copy" THEN k[c] ELSE 0) < Region
  BY DEF StoresInRegion
<1>1. reg[c] \in Nat /\ k[c] \in Nat
  BY DEF IInv, TypeOK
<1>2. CASE pc[c] = "copy"
  <2>1. c \in Writers /\ msg[c] \in Writes
    BY <1>2 DEF IInv, Roles, Ctx, Writers, FaultLabels
  <2>2. reg[c] < Size /\ k[c] < Written(msg[c])
    BY <1>2, <2>1 DEF IInv, Registers
  <2> QED
    BY <1>1, <1>2, <2>1, <2>2, MsgLengths, RegionAssumption, SizeAssumption DEF Top
<1>3. CASE pc[c] = "nul"
  <2>1. c \in Writers
    BY <1>3 DEF IInv, Roles, Ctx, Writers, FaultLabels
  <2> QED
    BY <1>1, <1>3, <2>1, MsgLengths DEF IInv, Registers
<1>4. CASE pc[c] = "fcopy"
  <2>1. c \in {"fault", "hard"}
    BY <1>4 DEF IInv, Roles, Ctx, Writers, WriteLabels, BusyLabels
  <2> QED
    BY <1>1, <1>4, <2>1, MsgLengths DEF IInv, Registers
<1> QED
  BY <1>2, <1>3, <1>4

LEMMA InitIInv == Init => IInv
<1> SUFFICES ASSUME Init PROVE IInv
  OBVIOUS
<1> USE DEF Init
<1>1. TypeOK
  <2>1. trace_idx \in 0..Region-1
    BY MsgLengths
  <2>2. rsc_trace_buf \in [0..Region-1 -> Cells]
    BY DEF Cells
  <2>3. pc \in [Ctx -> Labels] /\ msg \in [Ctx -> Msgs \cup {NUL}]
    BY DEF Labels
  <2>4. reg \in [Ctx -> Nat] /\ k \in [Ctx -> Nat]
    OBVIOUS
  <2> QED
    BY <2>1, <2>2, <2>3, <2>4 DEF TypeOK
<1>2. Roles
  BY DEF Roles, Ctx, Writers, WriteLabels, FaultLabels
<1>3. Registers
  BY DEF Registers, Ctx, Writers
<1>4. Index
  BY MsgLengths DEF Index, Ctx, BusyLabels
<1> QED
  BY <1>1, <1>2, <1>3, <1>4 DEF IInv

LEMMA WriteAddrIInv == ASSUME IInv, NEW c \in Writers, WriteAddr(c) PROVE IInv'
<1> USE DEF WriteAddr, At, Goto, Put
<1>1. TypeOK'
  BY MsgLengths, SMTT(30) DEF IInv, TypeOK, Roles, Registers, Index, Labels, Cells, Ctx, Writers, Msgs, BusyLabels, WriteLabels, FaultLabels
<1>2. Roles'
  BY DEF IInv, TypeOK, Roles, Ctx, Writers, Writes, Reports, BusyLabels, WriteLabels, FaultLabels
<1>3. Registers'
  BY MsgLengths, SMTT(30) DEF IInv, TypeOK, Roles, Registers, Index, Ctx, Writers, BusyLabels, NoFault, Running, Above
<1>4. Index'
  BY MsgLengths, SMTT(30) DEF IInv, TypeOK, Roles, Registers, Index, Ctx, Writers, BusyLabels, NoFault, Running, Above
<1> QED
  BY <1>1, <1>2, <1>3, <1>4 DEF IInv

LEMMA WriteByteIInv == ASSUME IInv, NEW c \in Writers, WriteByte(c) PROVE IInv'
<1> USE DEF WriteByte, At, Goto, Put
<1>1. TypeOK'
  <2>1. msg[c] \in Msgs /\ k[c] + 1 \in Nat \ {0}
    BY DEF IInv, TypeOK, Roles, Ctx, Writers, Msgs
  <2>2. rsc_trace_buf' \in [0..Region-1 -> Cells]
    BY <2>1 DEF IInv, TypeOK, Cells
  <2>3. /\ trace_idx' \in 0..Region-1 /\ pc' \in [Ctx -> Labels]
        /\ msg' \in [Ctx -> Msgs \cup {NUL}]
        /\ reg' \in [Ctx -> Nat] /\ k' \in [Ctx -> Nat]
        /\ phase' \in {"boot", "init", "reset", "run"} /\ nvic' \in BOOLEAN
    BY <2>1 DEF IInv, TypeOK, Labels, Ctx, Writers
  <2> QED
    BY <2>2, <2>3 DEF TypeOK
<1>2. Roles'
  BY DEF IInv, TypeOK, Roles, Ctx, Writers, Writes, Reports, BusyLabels, WriteLabels, FaultLabels
<1>3. Registers'
  <2>1. /\ c \in Ctx /\ k[c] \in Nat /\ msg[c] \in Writes
        /\ k[c] < Written(msg[c]) /\ Written(msg[c]) \in Nat
    BY MsgLengths DEF IInv, TypeOK, Roles, Registers, Ctx, Writers
  <2>2. pc'[c] = "copy" => k'[c] < Written(msg'[c])
    BY <2>1 DEF IInv, TypeOK
  <2>3. pc'[c] \in {"copy", "load"} /\ reg' = reg /\ msg' = msg
    BY <2>1 DEF IInv, TypeOK
  <2>4. \A d \in Ctx \ {c} : pc'[d] = pc[d] /\ k'[d] = k[d]
    BY DEF IInv, TypeOK
  <2> QED
    BY <2>2, <2>3, <2>4 DEF IInv, Registers, Ctx, Writers
<1>4. Index'
  BY MsgLengths, SMTT(30) DEF IInv, TypeOK, Roles, Registers, Index, Ctx, Writers, BusyLabels, NoFault, Running, Above
<1> QED
  BY <1>1, <1>2, <1>3, <1>4 DEF IInv

LEMMA WriteLoadIInv == ASSUME IInv, NEW c \in Writers, WriteLoad(c) PROVE IInv'
<1> USE DEF WriteLoad, At, Goto, Put
<1>1. TypeOK'
  BY MsgLengths, SMTT(30) DEF IInv, TypeOK, Roles, Registers, Index, Labels, Cells, Ctx, Writers, Msgs, BusyLabels, WriteLabels, FaultLabels
<1>2. Roles'
  BY DEF IInv, TypeOK, Roles, Ctx, Writers, Writes, Reports, BusyLabels, WriteLabels, FaultLabels
<1>3. Registers'
  BY MsgLengths, SMTT(30) DEF IInv, TypeOK, Roles, Registers, Index, Ctx, Writers, BusyLabels, NoFault, Running, Above
<1>4. Index'
  BY MsgLengths, SMTT(30) DEF IInv, TypeOK, Roles, Registers, Index, Ctx, Writers, BusyLabels, NoFault, Running, Above
<1> QED
  BY <1>1, <1>2, <1>3, <1>4 DEF IInv

LEMMA WriteStoreIInv == ASSUME IInv, NEW c \in Writers, WriteStore(c) PROVE IInv'
<1> USE DEF WriteStore, At, Goto, Put
<1>1. TypeOK'
  <2>1. /\ c \in Ctx /\ msg[c] \in Writes /\ reg[c] \in Nat
        /\ reg[c] < Size
    BY DEF IInv, TypeOK, Roles, Registers, Ctx, Writers
  <2>2. trace_idx' \in Nat /\ trace_idx' <= Top
    BY <2>1, MsgLengths, SizeAssumption, RegionAssumption DEF Top
  <2>3. /\ trace_idx' \in 0..Region-1 /\ pc' \in [Ctx -> Labels]
        /\ msg' \in [Ctx -> Msgs \cup {NUL}]
        /\ reg' \in [Ctx -> Nat] /\ k' \in [Ctx -> Nat]
        /\ phase' \in {"boot", "init", "reset", "run"} /\ nvic' \in BOOLEAN
    BY <2>2, MsgLengths DEF IInv, TypeOK, Labels, Ctx, Writers
  <2> QED
    BY <2>3 DEF IInv, TypeOK
<1>2. Roles'
  BY DEF IInv, TypeOK, Roles, Ctx, Writers, Writes, Reports, BusyLabels, WriteLabels, FaultLabels
<1>3. Registers'
  BY MsgLengths, SMTT(30) DEF IInv, TypeOK, Roles, Registers, Index, Ctx, Writers, BusyLabels, NoFault, Running, Above
<1>4. Index'
  <2>1. /\ c \in Ctx /\ msg[c] \in Writes /\ reg[c] \in Nat
        /\ reg[c] < Size
    BY DEF IInv, TypeOK, Roles, Registers, Ctx, Writers
  <2>2. trace_idx' <= Top
    BY <2>1, MsgLengths, SizeAssumption, RegionAssumption DEF Top
  <2>3. CASE c = "main"
    <3>1. pc'["main"] = "nuladdr" /\ pc'["irq"] = "idle"
      BY <2>3 DEF IInv, TypeOK, Ctx, Running, Above
    <3> QED
      BY <2>2, <3>1 DEF Index, BusyLabels
  <2>4. CASE c = "irq"
    <3>1. pc'["irq"] = "nuladdr" /\ trace_idx' < Size
      BY <2>4 DEF IInv, TypeOK, Ctx, Registers
    <3> QED
      BY <2>2, <3>1 DEF Index, BusyLabels
  <2> QED
    BY <2>3, <2>4 DEF Writers
<1> QED
  BY <1>1, <1>2, <1>3, <1>4 DEF IInv

LEMMA WriteNulAddrIInv == ASSUME IInv, NEW c \in Writers, WriteNulAddr(c) PROVE IInv'
<1> USE DEF WriteNulAddr, At, Goto, Put
<1>1. TypeOK'
  BY MsgLengths, SMTT(30) DEF IInv, TypeOK, Roles, Registers, Index, Labels, Cells, Ctx, Writers, Msgs, BusyLabels, WriteLabels, FaultLabels
<1>2. Roles'
  BY DEF IInv, TypeOK, Roles, Ctx, Writers, Writes, Reports, BusyLabels, WriteLabels, FaultLabels
<1>3. Registers'
  BY MsgLengths, SMTT(30) DEF IInv, TypeOK, Roles, Registers, Index, Ctx, Writers, BusyLabels, NoFault, Running, Above
<1>4. Index'
  BY MsgLengths, SMTT(30) DEF IInv, TypeOK, Roles, Registers, Index, Ctx, Writers, BusyLabels, NoFault, Running, Above
<1> QED
  BY <1>1, <1>2, <1>3, <1>4 DEF IInv

LEMMA WriteNulIInv == ASSUME IInv, NEW c \in Writers, WriteNul(c) PROVE IInv'
<1> USE DEF WriteNul, At, Goto, Put, Return
<1>1. TypeOK'
  BY MsgLengths, SMTT(30) DEF IInv, TypeOK, Roles, Registers, Index, Labels, Cells, Ctx, Writers, Msgs, BusyLabels, WriteLabels, FaultLabels
<1>2. Roles'
  BY DEF IInv, TypeOK, Roles, Ctx, Writers, Writes, Reports, BusyLabels, WriteLabels, FaultLabels
<1>3. Registers'
  BY MsgLengths, SMTT(30) DEF IInv, TypeOK, Roles, Registers, Index, Ctx, Writers, BusyLabels, NoFault, Running, Above
<1>4. Index'
  BY MsgLengths, SMTT(30) DEF IInv, TypeOK, Roles, Registers, Index, Ctx, Writers, BusyLabels, NoFault, Running, Above
<1> QED
  BY <1>1, <1>2, <1>3, <1>4 DEF IInv

LEMMA FaultLoadIInv == ASSUME IInv, NEW c \in {"fault", "hard"}, FaultLoad(c) PROVE IInv'
<1> USE DEF FaultLoad, At, Goto, Put
<1>1. TypeOK'
  <2>1. trace_idx \in Nat
    BY MsgLengths DEF IInv, TypeOK
  <2>2. /\ trace_idx' \in 0..Region-1 /\ pc' \in [Ctx -> Labels]
        /\ msg' \in [Ctx -> Msgs \cup {NUL}]
        /\ reg' \in [Ctx -> Nat] /\ k' \in [Ctx -> Nat]
        /\ phase' \in {"boot", "init", "reset", "run"} /\ nvic' \in BOOLEAN
    BY <2>1 DEF IInv, TypeOK, Labels, Ctx, Writers
  <2> QED
    BY <2>2 DEF IInv, TypeOK
<1>2. Roles'
  BY DEF IInv, TypeOK, Roles, Ctx, Writers, Writes, Reports, BusyLabels, WriteLabels, FaultLabels
<1>3. Registers'
  BY MsgLengths, SMTT(30) DEF IInv, TypeOK, Roles, Registers, Index, Ctx, Writers, BusyLabels, NoFault, Running, Above
<1>4. Index'
  BY MsgLengths, SMTT(30) DEF IInv, TypeOK, Roles, Registers, Index, Ctx, Writers, BusyLabels, NoFault, Running, Above
<1> QED
  BY <1>1, <1>2, <1>3, <1>4 DEF IInv

LEMMA FaultByteIInv == ASSUME IInv, NEW c \in {"fault", "hard"}, FaultByte(c) PROVE IInv'
<1> USE DEF FaultByte, At, Goto, Put, Room
<1>1. TypeOK'
  <2>1. msg[c] \in Msgs /\ k[c] + 1 \in Nat \ {0}
    BY DEF IInv, TypeOK, Roles, Ctx, Msgs
  <2>2. rsc_trace_buf' \in [0..Region-1 -> Cells]
    BY <2>1 DEF IInv, TypeOK, Cells
  <2>3. /\ trace_idx' \in 0..Region-1 /\ pc' \in [Ctx -> Labels]
        /\ msg' \in [Ctx -> Msgs \cup {NUL}]
        /\ reg' \in [Ctx -> Nat] /\ k' \in [Ctx -> Nat]
        /\ phase' \in {"boot", "init", "reset", "run"} /\ nvic' \in BOOLEAN
    BY <2>1 DEF IInv, TypeOK, Labels, Ctx, Writers
  <2> QED
    BY <2>2, <2>3 DEF TypeOK
<1>2. Roles'
  BY DEF IInv, TypeOK, Roles, Ctx, Writers, Writes, Reports, BusyLabels, WriteLabels, FaultLabels
<1>3. Registers'
  <2>1. c \in Ctx \ Writers /\ reg[c] \in Nat
    BY DEF IInv, TypeOK, Ctx, Writers
  <2>2. reg[c] + 1 <= Size
    <3>1. reg[c] + Margin < Size \/ reg[c] + 1 < Size
      OBVIOUS
    <3> QED
      BY <2>1, <3>1, LenAssumption, SizeAssumption
  <2>3. reg'[c] <= Top
    BY <2>1, <2>2, MsgLengths DEF IInv, TypeOK
  <2>4. \A d \in Ctx \ {c} : reg'[d] = reg[d] /\ k'[d] = k[d]
    BY DEF IInv, TypeOK
  <2>5. pc' = pc /\ msg' = msg
    OBVIOUS
  <2> QED
    BY <2>1, <2>3, <2>4, <2>5 DEF IInv, Registers, Ctx, Writers
<1>4. Index'
  BY MsgLengths, SMTT(30) DEF IInv, TypeOK, Roles, Registers, Index, Ctx, Writers, BusyLabels, NoFault, Running, Above
<1> QED
  BY <1>1, <1>2, <1>3, <1>4 DEF IInv

LEMMA FaultSkipIInv == ASSUME IInv, NEW c \in {"fault", "hard"}, FaultSkip(c) PROVE IInv'
<1> USE DEF FaultSkip, At, Goto, Put
<1>1. TypeOK'
  <2>1. pc[c] = "fcopy" /\ c \in Ctx /\ k[c] \in Nat
    BY DEF IInv, TypeOK, Ctx
  <2>2. msg[c] \in Reports
    BY <2>1 DEF IInv, Roles
  <2>3. ReportLen(msg[c]) - 1 \in Nat
    BY <2>1, <2>2, MsgLengths
  <2> QED
    BY <2>1, <2>3 DEF IInv, TypeOK
<1>2. Roles'
  BY DEF IInv, TypeOK, Roles, Ctx, Writers, Writes, Reports, BusyLabels, WriteLabels, FaultLabels
<1>3. Registers'
  BY MsgLengths, SMTT(30) DEF IInv, TypeOK, Roles, Registers, Index, Ctx, Writers, BusyLabels, NoFault, Running, Above
<1>4. Index'
  BY MsgLengths, SMTT(30) DEF IInv, TypeOK, Roles, Registers, Index, Ctx, Writers, BusyLabels, NoFault, Running, Above
<1> QED
  BY <1>1, <1>2, <1>3, <1>4 DEF IInv

LEMMA FaultNulIInv == ASSUME IInv, NEW c \in {"fault", "hard"}, FaultNul(c) PROVE IInv'
<1> USE DEF FaultNul, At, Goto, Put
<1>1. TypeOK'
  BY MsgLengths, SMTT(30) DEF IInv, TypeOK, Roles, Registers, Index, Labels, Cells, Ctx, Writers, Msgs, BusyLabels, WriteLabels, FaultLabels
<1>2. Roles'
  BY DEF IInv, TypeOK, Roles, Ctx, Writers, Writes, Reports, BusyLabels, WriteLabels, FaultLabels
<1>3. Registers'
  BY MsgLengths, SMTT(30) DEF IInv, TypeOK, Roles, Registers, Index, Ctx, Writers, BusyLabels, NoFault, Running, Above
<1>4. Index'
  BY MsgLengths, SMTT(30) DEF IInv, TypeOK, Roles, Registers, Index, Ctx, Writers, BusyLabels, NoFault, Running, Above
<1> QED
  BY <1>1, <1>2, <1>3, <1>4 DEF IInv

LEMMA FaultStoreIInv == ASSUME IInv, NEW c \in {"fault", "hard"}, FaultStore(c) PROVE IInv'
<1> USE DEF FaultStore, At, Goto, Put
<1>1. TypeOK'
  <2>1. pc[c] = "fstore" /\ c \in Ctx /\ reg[c] \in Nat
    BY DEF IInv, TypeOK, Ctx
  <2>2. reg[c] \in 0..Region-1
    BY <2>1, MsgLengths DEF IInv, Registers
  <2>3. pc' \in [Ctx -> Labels]
    BY <2>1 DEF IInv, TypeOK, Labels
  <2> QED
    BY <2>2, <2>3 DEF IInv, TypeOK
<1>2. Roles'
  BY DEF IInv, TypeOK, Roles, Ctx, Writers, Writes, Reports, BusyLabels, WriteLabels, FaultLabels
<1>3. Registers'
  BY MsgLengths, SMTT(30) DEF IInv, TypeOK, Roles, Registers, Index, Ctx, Writers, BusyLabels, NoFault, Running, Above
<1>4. Index'
  BY MsgLengths, SMTT(30) DEF IInv, TypeOK, Roles, Registers, Index, Ctx, Writers, BusyLabels, NoFault, Running, Above
<1> QED
  BY <1>1, <1>2, <1>3, <1>4 DEF IInv

LEMMA FaultEntryIInv == ASSUME IInv, NEW m \in FaultMsgs, FaultEntry(m) PROVE IInv'
<1> USE DEF FaultEntry, At, Goto, Put
<1>1. TypeOK'
  <2>1. m \in Msgs
    BY DEF Msgs, Reports
  <2>2. /\ trace_idx' \in 0..Region-1 /\ pc' \in [Ctx -> Labels]
        /\ msg' \in [Ctx -> Msgs \cup {NUL}]
        /\ reg' \in [Ctx -> Nat] /\ k' \in [Ctx -> Nat]
        /\ phase' \in {"boot", "init", "reset", "run"} /\ nvic' \in BOOLEAN
    BY <2>1 DEF IInv, TypeOK, Labels, Ctx, Writers
  <2> QED
    BY <2>2 DEF IInv, TypeOK
<1>2. Roles'
  BY DEF IInv, TypeOK, Roles, Ctx, Writers, Writes, Reports, BusyLabels, WriteLabels, FaultLabels
<1>3. Registers'
  BY MsgLengths, SMTT(30) DEF IInv, TypeOK, Roles, Registers, Index, Ctx, Writers, BusyLabels, NoFault, Running, Above
<1>4. Index'
  BY MsgLengths, SMTT(30) DEF IInv, TypeOK, Roles, Registers, Index, Ctx, Writers, BusyLabels, NoFault, Running, Above
<1> QED
  BY <1>1, <1>2, <1>3, <1>4 DEF IInv

LEMMA HardEntryIInv == ASSUME IInv, HardEntry PROVE IInv'
<1> USE DEF HardEntry, At, Goto, Put, MainIdle, Booted
<1>1. TypeOK'
  <2>1. HardMsg \in Msgs
    BY DEF Msgs, Reports
  <2>2. /\ trace_idx' \in 0..Region-1 /\ pc' \in [Ctx -> Labels]
        /\ msg' \in [Ctx -> Msgs \cup {NUL}]
        /\ reg' \in [Ctx -> Nat] /\ k' \in [Ctx -> Nat]
        /\ phase' \in {"boot", "init", "reset", "run"} /\ nvic' \in BOOLEAN
    BY <2>1 DEF IInv, TypeOK, Labels, Ctx, Writers
  <2> QED
    BY <2>2 DEF IInv, TypeOK
<1>2. Roles'
  BY DEF IInv, TypeOK, Roles, Ctx, Writers, Writes, Reports, BusyLabels, WriteLabels, FaultLabels
<1>3. Registers'
  BY MsgLengths, SMTT(30) DEF IInv, TypeOK, Roles, Registers, Index, Ctx, Writers, BusyLabels, NoFault, Running, Above
<1>4. Index'
  BY MsgLengths, SMTT(30) DEF IInv, TypeOK, Roles, Registers, Index, Ctx, Writers, BusyLabels, NoFault, Running, Above
<1> QED
  BY <1>1, <1>2, <1>3, <1>4 DEF IInv

LEMMA MemManageFaultIInv == ASSUME IInv, MemManageFault PROVE IInv'
<1> USE DEF MemManageFault, At, Goto, Put, MainIdle, Booted
<1>1. TypeOK'
  BY MsgLengths, SMTT(30) DEF IInv, TypeOK, Roles, Registers, Index, Labels, Cells, Ctx, Writers, Msgs, BusyLabels, WriteLabels, FaultLabels
<1>2. Roles'
  BY DEF IInv, TypeOK, Roles, Ctx, Writers, Writes, Reports, BusyLabels, WriteLabels, FaultLabels
<1>3. Registers'
  BY MsgLengths, SMTT(30) DEF IInv, TypeOK, Roles, Registers, Index, Ctx, Writers, BusyLabels, NoFault, Running, Above
<1>4. Index'
  BY MsgLengths, SMTT(30) DEF IInv, TypeOK, Roles, Registers, Index, Ctx, Writers, BusyLabels, NoFault, Running, Above
<1> QED
  BY <1>1, <1>2, <1>3, <1>4 DEF IInv

LEMMA copyResourceTableIInv == ASSUME IInv, copyResourceTable PROVE IInv'
<1> USE DEF copyResourceTable, At, Goto, Put, MainIdle, Booted
<1>1. TypeOK'
  BY MsgLengths, SMTT(30) DEF IInv, TypeOK, Roles, Registers, Index, Labels, Cells, Ctx, Writers, Msgs, BusyLabels, WriteLabels, FaultLabels
<1>2. Roles'
  BY DEF IInv, TypeOK, Roles, Ctx, Writers, Writes, Reports, BusyLabels, WriteLabels, FaultLabels
<1>3. Registers'
  BY MsgLengths, SMTT(30) DEF IInv, TypeOK, Roles, Registers, Index, Ctx, Writers, BusyLabels, NoFault, Running, Above
<1>4. Index'
  BY MsgLengths, SMTT(30) DEF IInv, TypeOK, Roles, Registers, Index, Ctx, Writers, BusyLabels, NoFault, Running, Above
<1> QED
  BY <1>1, <1>2, <1>3, <1>4 DEF IInv

LEMMA EnableIRQIInv == ASSUME IInv, EnableIRQ PROVE IInv'
<1> USE DEF EnableIRQ, At, Goto, Put, MainIdle, Booted
<1>1. TypeOK'
  BY MsgLengths, SMTT(30) DEF IInv, TypeOK, Roles, Registers, Index, Labels, Cells, Ctx, Writers, Msgs, BusyLabels, WriteLabels, FaultLabels
<1>2. Roles'
  BY DEF IInv, TypeOK, Roles, Ctx, Writers, Writes, Reports, BusyLabels, WriteLabels, FaultLabels
<1>3. Registers'
  BY MsgLengths, SMTT(30) DEF IInv, TypeOK, Roles, Registers, Index, Ctx, Writers, BusyLabels, NoFault, Running, Above
<1>4. Index'
  BY MsgLengths, SMTT(30) DEF IInv, TypeOK, Roles, Registers, Index, Ctx, Writers, BusyLabels, NoFault, Running, Above
<1> QED
  BY <1>1, <1>2, <1>3, <1>4 DEF IInv

LEMMA ResetIdxIInv == ASSUME IInv, ResetIdx PROVE IInv'
<1> USE DEF ResetIdx, At, Goto, Put, MainIdle, Booted
<1>1. TypeOK'
  BY MsgLengths, SMTT(30) DEF IInv, TypeOK, Roles, Registers, Index, Labels, Cells, Ctx, Writers, Msgs, BusyLabels, WriteLabels, FaultLabels
<1>2. Roles'
  BY DEF IInv, TypeOK, Roles, Ctx, Writers, Writes, Reports, BusyLabels, WriteLabels, FaultLabels
<1>3. Registers'
  BY MsgLengths, SMTT(30) DEF IInv, TypeOK, Roles, Registers, Index, Ctx, Writers, BusyLabels, NoFault, Running, Above
<1>4. Index'
  BY MsgLengths, SMTT(30) DEF IInv, TypeOK, Roles, Registers, Index, Ctx, Writers, BusyLabels, NoFault, Running, Above
<1> QED
  BY <1>1, <1>2, <1>3, <1>4 DEF IInv

LEMMA ResetNulIInv == ASSUME IInv, ResetNul PROVE IInv'
<1> USE DEF ResetNul, At, Goto, Put, MainIdle, Booted
<1>1. TypeOK'
  BY MsgLengths, SMTT(30) DEF IInv, TypeOK, Roles, Registers, Index, Labels, Cells, Ctx, Writers, Msgs, BusyLabels, WriteLabels, FaultLabels
<1>2. Roles'
  BY DEF IInv, TypeOK, Roles, Ctx, Writers, Writes, Reports, BusyLabels, WriteLabels, FaultLabels
<1>3. Registers'
  BY MsgLengths, SMTT(30) DEF IInv, TypeOK, Roles, Registers, Index, Ctx, Writers, BusyLabels, NoFault, Running, Above
<1>4. Index'
  BY MsgLengths, SMTT(30) DEF IInv, TypeOK, Roles, Registers, Index, Ctx, Writers, BusyLabels, NoFault, Running, Above
<1> QED
  BY <1>1, <1>2, <1>3, <1>4 DEF IInv

LEMMA RestartIInv == ASSUME IInv, Restart PROVE IInv'
<1> USE DEF Restart, At, Goto, Put, MainIdle, Booted
<1>1. TypeOK'
  <2>1. 0 \in 0..Region-1
    BY MsgLengths
  <2>2. /\ trace_idx' \in 0..Region-1 /\ pc' \in [Ctx -> Labels]
        /\ msg' \in [Ctx -> Msgs \cup {NUL}]
        /\ reg' \in [Ctx -> Nat] /\ k' \in [Ctx -> Nat]
        /\ phase' \in {"boot", "init", "reset", "run"} /\ nvic' \in BOOLEAN
    BY <2>1 DEF IInv, TypeOK, Labels, Ctx, Writers
  <2> QED
    BY <2>2 DEF IInv, TypeOK
<1>2. Roles'
  BY DEF IInv, TypeOK, Roles, Ctx, Writers, Writes, Reports, BusyLabels, WriteLabels, FaultLabels
<1>3. Registers'
  BY MsgLengths, SMTT(30) DEF IInv, TypeOK, Roles, Registers, Index, Ctx, Writers, BusyLabels, NoFault, Running, Above
<1>4. Index'
  BY MsgLengths, SMTT(30) DEF IInv, TypeOK, Roles, Registers, Index, Ctx, Writers, BusyLabels, NoFault, Running, Above
<1> QED
  BY <1>1, <1>2, <1>3, <1>4 DEF IInv

LEMMA CallIInv == ASSUME IInv, NEW c \in Writers, NEW m \in Writes, trace_write(c, m) PROVE IInv'
<1> USE DEF trace_write, At, Goto, Put, Return, Fits
<1>1. TypeOK'
  BY MsgLengths, SMTT(30) DEF IInv, TypeOK, Roles, Registers, Index, Labels, Cells, Ctx, Writers, Msgs, BusyLabels, WriteLabels, FaultLabels
<1>2. Roles'
  BY DEF IInv, TypeOK, Roles, Ctx, Writers, Writes, Reports, BusyLabels, WriteLabels, FaultLabels
<1>3. Registers'
  BY MsgLengths, SMTT(30) DEF IInv, TypeOK, Roles, Registers, Index, Ctx, Writers, BusyLabels, NoFault, Running, Above
<1>4. Index'
  BY MsgLengths, SMTT(30) DEF IInv, TypeOK, Roles, Registers, Index, Ctx, Writers, BusyLabels, NoFault, Running, Above
<1> QED
  BY <1>1, <1>2, <1>3, <1>4 DEF IInv

LEMMA NextIInv == ASSUME IInv, [Next]_vars PROVE IInv'
<1>1. CASE copyResourceTable  BY <1>1, copyResourceTableIInv
<1>2. CASE EnableIRQ          BY <1>2, EnableIRQIInv
<1>3. CASE ResetIdx           BY <1>3, ResetIdxIInv
<1>4. CASE ResetNul           BY <1>4, ResetNulIInv
<1>5. CASE MainLog            BY <1>5, CallIInv DEF MainLog, Writers, Writes
<1>6. CASE IrqLog             BY <1>6, CallIInv DEF IrqLog, Writers, Writes
<1>7. ASSUME NEW c \in Writers, WriteStep(c) PROVE IInv'
  BY <1>7, WriteAddrIInv, WriteByteIInv, WriteLoadIInv, WriteStoreIInv,
     WriteNulAddrIInv, WriteNulIInv DEF WriteStep
<1>8. ASSUME NEW m \in FaultMsgs, FaultEntry(m) PROVE IInv'
  BY <1>8, FaultEntryIInv
<1>9. CASE MemManageFault     BY <1>9, MemManageFaultIInv
<1>10. CASE HardEntry         BY <1>10, HardEntryIInv
<1>11. ASSUME NEW c \in {"fault", "hard"}, FaultStep(c) PROVE IInv'
  BY <1>11, FaultLoadIInv, FaultByteIInv, FaultSkipIInv, FaultNulIInv,
     FaultStoreIInv DEF FaultStep
<1>12. CASE Restart           BY <1>12, RestartIInv
<1>13. CASE UNCHANGED vars
  BY <1>13 DEF vars, IInv, TypeOK, Roles, Registers, Index, NoFault
<1> QED
  BY <1>1, <1>2, <1>3, <1>4, <1>5, <1>6, <1>7, <1>8, <1>9, <1>10, <1>11,
     <1>12, <1>13 DEF Next

THEOREM Inductive == Spec => []IInv
<1>1. Init => IInv
  BY InitIInv
<1>2. IInv /\ [Next]_vars => IInv'
  BY NextIInv
<1> QED
  BY <1>1, <1>2, PTL DEF Spec

\* The types, trace_idx in the region included, for every instance and every
\* interleaving of main, the interrupt and the faults.
THEOREM TypeCorrect == Spec => []TypeOK
<1>1. IInv => TypeOK
  BY DEF IInv
<1> QED
  BY <1>1, Inductive, PTL

\* No trace_write and no fault handler stores a byte outside m_rsc_tbl, even
\* when the interrupt handler logs between main's length check and its memcpy.
THEOREM StoresStayInRegion == Spec => []StoresInRegion
  BY IInvStores, Inductive, PTL

-----------------------------------------------------------------------------
(* The string Linux reads ends at trace_idx, with interrupts that log.     *)

\* The order of the start-up: no interrupt is taken and no fault reported before
\* main has cleared the trace, main does not log between the two stores of its
\* reset, and a report that ended is never interrupted.
BootOrder ==
  /\ phase = "boot" => NoFault /\ ~nvic /\ trace_idx = 0
  /\ pc["irq"] # "idle" => nvic
  /\ phase \in {"boot", "reset"} /\ NoFault => pc["main"] = "idle"
  /\ pc["hard"] # "idle" => pc["fault"] \notin {"spin", "silent"}

\* The string is terminated, or the context that extended it is about to do so.
\* The handler ends before main goes on, so what main is about to overwrite with
\* NUL may lie below trace_idx, but then the handler has terminated the string.
Terminated ==
  /\ NoFault /\ pc["irq"] \in {"idle", "addr", "spin"} =>
       /\ pc["main"] \in {"idle", "spin", "addr"} /\ phase \in {"init", "run"} =>
            rsc_trace_buf[trace_idx] = NUL
       /\ pc["main"] = "nul" => reg["main"] = trace_idx \/ rsc_trace_buf[trace_idx] = NUL
       /\ phase = "reset" => trace_idx = 0 \/ rsc_trace_buf[trace_idx] = NUL
  /\ NoFault /\ pc["irq"] = "nul" => reg["irq"] = trace_idx
  /\ \A c \in {"fault", "hard"} :
       /\ Running(c) /\ pc[c] = "fstore" => rsc_trace_buf[reg[c]] = NUL
       /\ Running(c) /\ pc[c] = "spin" => rsc_trace_buf[trace_idx] = NUL

EndInv == IInv /\ BootOrder /\ Terminated

LEMMA InitEndInv == Init => EndInv
  BY InitIInv, MsgLengths
  DEF Init, EndInv, BootOrder, Terminated, NoFault, Ctx, Running, Above

LEMMA WriteAddrEnd ==
  ASSUME EndInv, NEW c \in Writers, WriteAddr(c)
  PROVE  BootOrder' /\ Terminated'
<1> USE DEF WriteAddr, At, Goto, Put
<1>1. BootOrder'
  BY DEF EndInv, IInv, TypeOK, BootOrder, NoFault, Running, Above, Ctx, Writers
<1>2. Terminated'
  BY MsgLengths
  DEF EndInv, IInv, TypeOK, Roles, BootOrder, Terminated, NoFault, Running, Above, Ctx, Writers
<1> QED
  BY <1>1, <1>2

LEMMA WriteByteEnd ==
  ASSUME EndInv, NEW c \in Writers, WriteByte(c)
  PROVE  BootOrder' /\ Terminated'
<1> USE DEF WriteByte, At, Goto, Put
<1>1. BootOrder'
  BY DEF EndInv, IInv, TypeOK, BootOrder, NoFault, Running, Above, Ctx, Writers
<1>2. Terminated'
  BY MsgLengths
  DEF EndInv, IInv, TypeOK, Roles, BootOrder, Terminated, NoFault, Running, Above, Ctx, Writers
<1> QED
  BY <1>1, <1>2

LEMMA WriteLoadEnd ==
  ASSUME EndInv, NEW c \in Writers, WriteLoad(c)
  PROVE  BootOrder' /\ Terminated'
<1> USE DEF WriteLoad, At, Goto, Put
<1>1. BootOrder'
  BY DEF EndInv, IInv, TypeOK, BootOrder, NoFault, Running, Above, Ctx, Writers
<1>2. Terminated'
  BY MsgLengths
  DEF EndInv, IInv, TypeOK, Roles, BootOrder, Terminated, NoFault, Running, Above, Ctx, Writers
<1> QED
  BY <1>1, <1>2

LEMMA WriteStoreEnd ==
  ASSUME EndInv, NEW c \in Writers, WriteStore(c)
  PROVE  BootOrder' /\ Terminated'
<1> USE DEF WriteStore, At, Goto, Put
<1>1. BootOrder'
  BY DEF EndInv, IInv, TypeOK, BootOrder, NoFault, Running, Above, Ctx, Writers
<1>2. Terminated'
  BY MsgLengths
  DEF EndInv, IInv, TypeOK, Roles, BootOrder, Terminated, NoFault, Running, Above, Ctx, Writers
<1> QED
  BY <1>1, <1>2

LEMMA WriteNulAddrEnd ==
  ASSUME EndInv, NEW c \in Writers, WriteNulAddr(c)
  PROVE  BootOrder' /\ Terminated'
<1> USE DEF WriteNulAddr, At, Goto, Put
<1>1. BootOrder'
  BY DEF EndInv, IInv, TypeOK, BootOrder, NoFault, Running, Above, Ctx, Writers
<1>2. Terminated'
  BY MsgLengths
  DEF EndInv, IInv, TypeOK, Roles, BootOrder, Terminated, NoFault, Running, Above, Ctx, Writers
<1> QED
  BY <1>1, <1>2

LEMMA WriteNulEnd ==
  ASSUME EndInv, NEW c \in Writers, WriteNul(c)
  PROVE  BootOrder' /\ Terminated'
<1> USE DEF WriteNul, At, Goto, Put, Return
<1>1. BootOrder'
  BY DEF EndInv, IInv, TypeOK, BootOrder, NoFault, Running, Above, Ctx, Writers
<1>2. Terminated'
  BY MsgLengths
  DEF EndInv, IInv, TypeOK, Roles, BootOrder, Terminated, NoFault, Running, Above, Ctx, Writers
<1> QED
  BY <1>1, <1>2

LEMMA FaultLoadEnd ==
  ASSUME EndInv, NEW c \in {"fault", "hard"}, FaultLoad(c)
  PROVE  BootOrder' /\ Terminated'
<1> USE DEF FaultLoad, At, Goto, Put
<1>1. BootOrder'
  BY DEF EndInv, IInv, TypeOK, BootOrder, NoFault, Running, Above, Ctx, Writers
<1>2. Terminated'
  BY MsgLengths
  DEF EndInv, IInv, TypeOK, Roles, BootOrder, Terminated, NoFault, Running, Above, Ctx, Writers
<1> QED
  BY <1>1, <1>2

LEMMA FaultByteEnd ==
  ASSUME EndInv, NEW c \in {"fault", "hard"}, FaultByte(c)
  PROVE  BootOrder' /\ Terminated'
<1> USE DEF FaultByte, At, Goto, Put
<1>1. BootOrder'
  BY DEF EndInv, IInv, TypeOK, BootOrder, NoFault, Running, Above, Ctx, Writers
<1>2. Terminated'
  <2>1. pc' = pc /\ pc[c] = "fcopy" /\ Running(c)
    OBVIOUS
  <2>2. ~NoFault' /\ \A d \in {"fault", "hard"} :
          Running(d)' => pc'[d] \in {"idle", "fcopy"}
    BY <2>1 DEF NoFault, Running, Above
  <2> QED
    BY <2>2 DEF Terminated
<1> QED
  BY <1>1, <1>2

LEMMA FaultSkipEnd ==
  ASSUME EndInv, NEW c \in {"fault", "hard"}, FaultSkip(c)
  PROVE  BootOrder' /\ Terminated'
<1> USE DEF FaultSkip, At, Goto, Put
<1>1. BootOrder'
  BY DEF EndInv, IInv, TypeOK, BootOrder, NoFault, Running, Above, Ctx, Writers
<1>2. Terminated'
  BY MsgLengths
  DEF EndInv, IInv, TypeOK, Roles, BootOrder, Terminated, NoFault, Running, Above, Ctx, Writers
<1> QED
  BY <1>1, <1>2

LEMMA FaultNulEnd ==
  ASSUME EndInv, NEW c \in {"fault", "hard"}, FaultNul(c)
  PROVE  BootOrder' /\ Terminated'
<1> USE DEF FaultNul, At, Goto, Put
<1>1. BootOrder'
  BY DEF EndInv, IInv, TypeOK, BootOrder, NoFault, Running, Above, Ctx, Writers
<1>2. Terminated'
  <2>1. pc[c] = "fcopy" /\ c \in Ctx /\ reg[c] \in Nat /\ reg[c] < Region
    BY IInvStores DEF EndInv, IInv, TypeOK, StoresInRegion, Ctx
  <2>2. rsc_trace_buf'[reg[c]] = NUL /\ reg' = reg
    BY <2>1, MsgLengths DEF EndInv, IInv, TypeOK
  <2>3. pc'[c] = "fstore" /\ \A d \in Ctx \ {c} : pc'[d] = pc[d]
    BY <2>1 DEF EndInv, IInv, TypeOK
  <2>4. ~NoFault' /\ \A d \in {"fault", "hard"} :
          Running(d)' /\ pc'[d] # "idle" => d = c
    BY <2>3 DEF NoFault, Running, Above, Ctx
  <2> QED
    BY <2>2, <2>3, <2>4 DEF Terminated
<1> QED
  BY <1>1, <1>2

LEMMA FaultStoreEnd ==
  ASSUME EndInv, NEW c \in {"fault", "hard"}, FaultStore(c)
  PROVE  BootOrder' /\ Terminated'
<1> USE DEF FaultStore, At, Goto, Put
<1>1. BootOrder'
  BY DEF EndInv, IInv, TypeOK, BootOrder, NoFault, Running, Above, Ctx, Writers
<1>2. Terminated'
  BY MsgLengths
  DEF EndInv, IInv, TypeOK, Roles, BootOrder, Terminated, NoFault, Running, Above, Ctx, Writers
<1> QED
  BY <1>1, <1>2

LEMMA FaultEntryEnd ==
  ASSUME EndInv, NEW m \in FaultMsgs, FaultEntry(m)
  PROVE  BootOrder' /\ Terminated'
<1> USE DEF FaultEntry, At, Goto, Put, Booted
<1>1. BootOrder'
  BY DEF EndInv, IInv, TypeOK, BootOrder, NoFault, Running, Above, Ctx, Writers
<1>2. Terminated'
  BY MsgLengths
  DEF EndInv, IInv, TypeOK, Roles, BootOrder, Terminated, NoFault, Running, Above, Ctx, Writers
<1> QED
  BY <1>1, <1>2

LEMMA HardEntryEnd ==
  ASSUME EndInv, HardEntry
  PROVE  BootOrder' /\ Terminated'
<1> USE DEF HardEntry, At, Goto, Put, Booted
<1>1. BootOrder'
  BY DEF EndInv, IInv, TypeOK, BootOrder, NoFault, Running, Above, Ctx, Writers
<1>2. Terminated'
  BY MsgLengths
  DEF EndInv, IInv, TypeOK, Roles, BootOrder, Terminated, NoFault, Running, Above, Ctx, Writers
<1> QED
  BY <1>1, <1>2

LEMMA MemManageFaultEnd ==
  ASSUME EndInv, MemManageFault
  PROVE  BootOrder' /\ Terminated'
<1> USE DEF MemManageFault, At, Goto, Put, Booted
<1>1. BootOrder'
  BY DEF EndInv, IInv, TypeOK, BootOrder, NoFault, Running, Above, Ctx, Writers
<1>2. Terminated'
  BY MsgLengths
  DEF EndInv, IInv, TypeOK, Roles, BootOrder, Terminated, NoFault, Running, Above, Ctx, Writers
<1> QED
  BY <1>1, <1>2

LEMMA copyResourceTableEnd ==
  ASSUME EndInv, copyResourceTable
  PROVE  BootOrder' /\ Terminated'
<1> USE DEF copyResourceTable, At, Goto, Put, MainIdle
<1>1. BootOrder'
  BY DEF EndInv, IInv, TypeOK, BootOrder, NoFault, Running, Above, Ctx, Writers
<1>2. Terminated'
  BY MsgLengths
  DEF EndInv, IInv, TypeOK, Roles, BootOrder, Terminated, NoFault, Running, Above, Ctx, Writers
<1> QED
  BY <1>1, <1>2

LEMMA EnableIRQEnd ==
  ASSUME EndInv, EnableIRQ
  PROVE  BootOrder' /\ Terminated'
<1> USE DEF EnableIRQ, At, Goto, Put, MainIdle
<1>1. BootOrder'
  BY DEF EndInv, IInv, TypeOK, BootOrder, NoFault, Running, Above, Ctx, Writers
<1>2. Terminated'
  BY MsgLengths
  DEF EndInv, IInv, TypeOK, Roles, BootOrder, Terminated, NoFault, Running, Above, Ctx, Writers
<1> QED
  BY <1>1, <1>2

LEMMA ResetIdxEnd ==
  ASSUME EndInv, ResetIdx
  PROVE  BootOrder' /\ Terminated'
<1> USE DEF ResetIdx, At, Goto, Put, MainIdle
<1>1. BootOrder'
  BY DEF EndInv, IInv, TypeOK, BootOrder, NoFault, Running, Above, Ctx, Writers
<1>2. Terminated'
  BY MsgLengths
  DEF EndInv, IInv, TypeOK, Roles, BootOrder, Terminated, NoFault, Running, Above, Ctx, Writers
<1> QED
  BY <1>1, <1>2

LEMMA ResetNulEnd ==
  ASSUME EndInv, ResetNul
  PROVE  BootOrder' /\ Terminated'
<1> USE DEF ResetNul, At, Goto, Put, MainIdle
<1>1. BootOrder'
  BY DEF EndInv, IInv, TypeOK, BootOrder, NoFault, Running, Above, Ctx, Writers
<1>2. Terminated'
  BY MsgLengths
  DEF EndInv, IInv, TypeOK, Roles, BootOrder, Terminated, NoFault, Running, Above, Ctx, Writers
<1> QED
  BY <1>1, <1>2

LEMMA RestartEnd ==
  ASSUME EndInv, Restart
  PROVE  BootOrder' /\ Terminated'
<1> USE DEF Restart, At, Goto, Put
<1>1. BootOrder'
  BY DEF EndInv, IInv, TypeOK, BootOrder, NoFault, Running, Above, Ctx, Writers
<1>2. Terminated'
  BY MsgLengths
  DEF EndInv, IInv, TypeOK, Roles, BootOrder, Terminated, NoFault, Running, Above, Ctx, Writers
<1> QED
  BY <1>1, <1>2

LEMMA MainLogEnd ==
  ASSUME EndInv, MainLog
  PROVE  BootOrder' /\ Terminated'
<1> USE DEF MainLog, At, Goto, Put, trace_write, Return
<1>1. BootOrder'
  BY DEF EndInv, IInv, TypeOK, BootOrder, NoFault, Running, Above, Ctx, Writers
<1>2. Terminated'
  BY MsgLengths
  DEF EndInv, IInv, TypeOK, Roles, BootOrder, Terminated, NoFault, Running, Above, Ctx, Writers
<1> QED
  BY <1>1, <1>2

LEMMA IrqLogEnd ==
  ASSUME EndInv, IrqLog
  PROVE  BootOrder' /\ Terminated'
<1> USE DEF IrqLog, At, Goto, Put, trace_write, Return
<1>1. BootOrder'
  BY DEF EndInv, IInv, TypeOK, BootOrder, NoFault, Running, Above, Ctx, Writers
<1>2. Terminated'
  BY MsgLengths
  DEF EndInv, IInv, TypeOK, Roles, BootOrder, Terminated, NoFault, Running, Above, Ctx, Writers
<1> QED
  BY <1>1, <1>2

LEMMA NextEnd == ASSUME EndInv, [Next]_vars PROVE EndInv'
<1>1. IInv'
  BY NextIInv DEF EndInv
<1>2. BootOrder' /\ Terminated'
  <2>1. CASE copyResourceTable  BY <2>1, copyResourceTableEnd
  <2>2. CASE EnableIRQ          BY <2>2, EnableIRQEnd
  <2>3. CASE ResetIdx           BY <2>3, ResetIdxEnd
  <2>4. CASE ResetNul           BY <2>4, ResetNulEnd
  <2>5. CASE MainLog            BY <2>5, MainLogEnd
  <2>6. CASE IrqLog             BY <2>6, IrqLogEnd
  <2>7. ASSUME NEW c \in Writers, WriteStep(c) PROVE BootOrder' /\ Terminated'
    BY <2>7, WriteAddrEnd, WriteByteEnd, WriteLoadEnd, WriteStoreEnd,
       WriteNulAddrEnd, WriteNulEnd DEF WriteStep
  <2>8. ASSUME NEW m \in FaultMsgs, FaultEntry(m) PROVE BootOrder' /\ Terminated'
    BY <2>8, FaultEntryEnd
  <2>9. CASE MemManageFault     BY <2>9, MemManageFaultEnd
  <2>10. CASE HardEntry         BY <2>10, HardEntryEnd
  <2>11. ASSUME NEW c \in {"fault", "hard"}, FaultStep(c)
         PROVE  BootOrder' /\ Terminated'
    BY <2>11, FaultLoadEnd, FaultByteEnd, FaultSkipEnd, FaultNulEnd, FaultStoreEnd
    DEF FaultStep
  <2>12. CASE Restart           BY <2>12, RestartEnd
  <2>13. CASE UNCHANGED vars
    BY <2>13 DEF vars, EndInv, BootOrder, Terminated, NoFault, Running
  <2> QED
    BY <2>1, <2>2, <2>3, <2>4, <2>5, <2>6, <2>7, <2>8, <2>9, <2>10, <2>11,
       <2>12, <2>13 DEF Next
<1> QED
  BY <1>1, <1>2 DEF EndInv

\* When no write is under way and after a report of a fault, the string Linux reads
\* ends at trace_idx, also when the interrupt handler logs between any two accesses
\* of main to the index or the buffer.
THEOREM TraceEndsAtIndex == Spec => []EndsAtIndex
<1>1. EndInv => EndsAtIndex
  <2> SUFFICES ASSUME EndInv, Quiescent PROVE rsc_trace_buf[trace_idx] = NUL
    BY DEF EndsAtIndex
  <2>1. CASE pc["hard"] = "spin"
    BY <2>1 DEF EndInv, Terminated, Running, Above
  <2>2. CASE pc["fault"] = "spin"
    BY <2>2 DEF EndInv, BootOrder, Terminated, Running, Above
  <2>3. CASE pc["hard"] # "spin" /\ pc["fault"] # "spin"
    BY <2>3 DEF EndInv, Terminated, Quiescent, Ctx, NoFault
  <2> QED
    BY <2>1, <2>2, <2>3
<1>2. EndInv /\ [Next]_vars => EndInv'
  BY NextEnd
<1> QED
  BY <1>1, <1>2, InitEndInv, PTL DEF Spec

-----------------------------------------------------------------------------
(***************************************************************************)
(* What Linux reads when the driver's interrupt handler does not log       *)
(* (IrqMsgs = {}, the case of the severity ethosu_log.h selects as long as *)
(* the handler logs at debug severity only): the text of the accepted      *)
(* messages, unbroken, never overwritten; the buffer implements TraceLog.  *)
(***************************************************************************)

Handlers == {"fault", "hard"}

\* Only the running context moves trace_idx, so its copy of it is current.
Current ==
  /\ pc["irq"] = "idle"
  /\ NoFault /\ pc["main"] \in {"copy", "store", "nul"} =>
       reg["main"] = trace_idx
  /\ \A c \in Handlers :
       Running(c) /\ pc[c] \in {"fcopy", "fstore"} => reg[c] >= trace_idx

\* The bytes of the write under way lie above trace_idx, none of them NUL.
Copied ==
  /\ NoFault /\ pc["main"] = "copy" =>
       \A j \in 0..k["main"]-1 : rsc_trace_buf[trace_idx + j] # NUL
  /\ NoFault /\ pc["main"] \in {"load", "store"} =>
       \A j \in 0..Written(msg["main"])-1 : rsc_trace_buf[trace_idx + j] # NUL
  /\ \A c \in Handlers :
       Running(c) /\ pc[c] \in {"fcopy", "fstore"} =>
         \A j \in trace_idx..reg[c]-1 : rsc_trace_buf[j] # NUL

\* main logs only after copyResourceTable and not between the reset's stores.
Phases == /\ phase \in {"boot", "reset"} /\ NoFault => pc["main"] = "idle"
          /\ phase = "boot" => NoFault
          /\ phase \in {"boot", "reset"} /\ NoFault => trace_idx = 0
          /\ pc["hard"] # "idle" => pc["fault"] \notin {"spin", "silent"}

Quiet == Current /\ Copied /\ Phases /\ TextUnbroken
QInv  == IInv /\ Quiet


\* What the steps below need of the constants.
LEMMA Facts ==
  /\ \A m \in Writes : Written(m) \in Nat \ {0}
  /\ \A m \in Msgs, n \in Nat : <<m, n>> # NUL
  /\ Size \in Nat \ {0} /\ Region \in Nat /\ Size < Region
  BY MsgLengths, KindAssumption

LEMMA InitQInv == Init => QInv
  BY InitIInv, Facts
  DEF Init, QInv, Quiet, Current, Copied, Phases, TextUnbroken, Handlers,
      NoFault, Ctx, Running, Above


LEMMA WriteAddrQuiet == ASSUME QInv, WriteAddr("main") PROVE Quiet'
<1> USE DEF WriteAddr, At, Goto, Put
<1>1. Current'
  BY DEF IInv, TypeOK, QInv, Quiet, Current, Ctx, Writers, Handlers, NoFault, Running, Above
<1>2. Copied'
  BY Facts DEF IInv, TypeOK, QInv, Quiet, Current, Copied, Roles, Ctx, Writers, Handlers, NoFault, Running, Above
<1>3. Phases'
  BY DEF IInv, TypeOK, QInv, Quiet, Phases, Current, Ctx, Writers, Handlers, NoFault, Running, Above
<1>4. TextUnbroken'
  BY Facts DEF IInv, TypeOK, QInv, Quiet, TextUnbroken, Current, Copied, Roles, Ctx, Writers, Handlers, NoFault, Running, Above
<1> QED
  BY <1>1, <1>2, <1>3, <1>4 DEF Quiet

LEMMA WriteByteQuiet == ASSUME QInv, WriteByte("main") PROVE Quiet'
<1> USE DEF WriteByte, At, Goto, Put
<1>1. Current'
  BY DEF IInv, TypeOK, QInv, Quiet, Current, Ctx, Writers, Handlers, NoFault, Running, Above
<1>2. Copied'
  <2>1. /\ NoFault /\ pc["irq"] = "idle" /\ NoFault'
        /\ msg["main"] \in Writes /\ trace_idx \in 0..Region-1
        /\ reg["main"] = trace_idx /\ k["main"] \in Nat
    BY DEF IInv, TypeOK, QInv, Quiet, Current, Roles, NoFault, Running, Above, Ctx, Writers
  <2>2. /\ trace_idx + k["main"] \in 0..Region-1
        /\ <<msg["main"], k["main"] + 1>> # NUL
    <3>1. reg["main"] + k["main"] < Region
      BY IInvStores DEF QInv, StoresInRegion, Ctx
    <3> QED
      BY <2>1, <3>1, Facts DEF Msgs
  <2>3. \A j \in 0..k["main"] : rsc_trace_buf'[trace_idx + j] # NUL
    <3>1. /\ rsc_trace_buf' =
               [rsc_trace_buf EXCEPT ![trace_idx + k["main"]] = <<msg["main"], k["main"] + 1>>]
          /\ rsc_trace_buf \in [0..Region-1 -> Cells]
      BY <2>1 DEF QInv, IInv, TypeOK
    <3>2. \A j \in 0..k["main"]-1 : rsc_trace_buf[trace_idx + j] # NUL
      BY <2>1 DEF QInv, Quiet, Copied
    <3>3. ASSUME NEW j \in 0..k["main"] PROVE rsc_trace_buf'[trace_idx + j] # NUL
      <4>1. CASE j = k["main"]
        BY <2>2, <3>1, <4>1
      <4>2. CASE j # k["main"]
        <5>1. /\ j \in 0..k["main"]-1 /\ trace_idx + j \in 0..Region-1
              /\ trace_idx + j # trace_idx + k["main"]
          BY <2>1, <2>2, <4>2, SizeAssumption
        <5> QED
          BY <3>1, <3>2, <5>1
      <4> QED
        BY <4>1, <4>2
    <3> QED
      BY <3>3
  <2>4. /\ pc'["main"] \in {"copy", "load"} /\ k'["main"] = k["main"] + 1
        /\ pc'["main"] = "load" => k["main"] + 1 = Written(msg["main"])
        /\ trace_idx' = trace_idx /\ msg' = msg
    BY DEF IInv, TypeOK, QInv, Ctx
  <2> QED
    BY <2>1, <2>3, <2>4 DEF Copied, NoFault, Running, Above, Handlers
<1>3. Phases'
  BY DEF IInv, TypeOK, QInv, Quiet, Phases, Current, Ctx, Writers, Handlers, NoFault, Running, Above
<1>4. TextUnbroken'
  BY Facts DEF IInv, TypeOK, QInv, Quiet, TextUnbroken, Current, Copied, Roles, Ctx, Writers, Handlers, NoFault, Running, Above
<1> QED
  BY <1>1, <1>2, <1>3, <1>4 DEF Quiet

LEMMA WriteLoadQuiet == ASSUME QInv, WriteLoad("main") PROVE Quiet'
<1> USE DEF WriteLoad, At, Goto, Put
<1>1. Current'
  BY DEF IInv, TypeOK, QInv, Quiet, Current, Ctx, Writers, Handlers, NoFault, Running, Above
<1>2. Copied'
  BY Facts DEF IInv, TypeOK, QInv, Quiet, Current, Copied, Roles, Ctx, Writers, Handlers, NoFault, Running, Above
<1>3. Phases'
  BY DEF IInv, TypeOK, QInv, Quiet, Phases, Current, Ctx, Writers, Handlers, NoFault, Running, Above
<1>4. TextUnbroken'
  BY Facts DEF IInv, TypeOK, QInv, Quiet, TextUnbroken, Current, Copied, Roles, Ctx, Writers, Handlers, NoFault, Running, Above
<1> QED
  BY <1>1, <1>2, <1>3, <1>4 DEF Quiet

LEMMA WriteStoreQuiet == ASSUME QInv, WriteStore("main") PROVE Quiet'
<1> USE DEF WriteStore, At, Goto, Put
<1>1. Current'
  BY DEF IInv, TypeOK, QInv, Quiet, Current, Ctx, Writers, Handlers, NoFault, Running, Above
<1>2. Copied'
  BY Facts DEF IInv, TypeOK, QInv, Quiet, Current, Copied, Roles, Ctx, Writers, Handlers, NoFault, Running, Above
<1>3. Phases'
  BY DEF IInv, TypeOK, QInv, Quiet, Phases, Current, Ctx, Writers, Handlers, NoFault, Running, Above
<1>4. TextUnbroken'
  <2>1. /\ NoFault /\ pc["irq"] = "idle" /\ NoFault'
        /\ msg["main"] \in Writes /\ trace_idx \in 0..Region-1
        /\ reg["main"] = trace_idx /\ k["main"] \in Nat
    BY DEF IInv, TypeOK, QInv, Quiet, Current, Roles, NoFault, Running, Above, Ctx, Writers
  <2>2. Written(msg["main"]) \in Nat
    BY <2>1, Facts
  <2>3. \A i \in trace_idx..trace_idx'-1 : rsc_trace_buf[i] # NUL
    <3> SUFFICES ASSUME NEW i \in trace_idx..trace_idx'-1
                 PROVE  rsc_trace_buf[i] # NUL
      OBVIOUS
    <3>1. i - trace_idx \in 0..Written(msg["main"])-1
      BY <2>1, <2>2
    <3>2. rsc_trace_buf[trace_idx + (i - trace_idx)] # NUL
      BY <2>1, <3>1 DEF QInv, Quiet, Copied
    <3> QED
      BY <2>1, <3>2
  <2> QED
    BY <2>1, <2>2, <2>3 DEF QInv, Quiet, TextUnbroken
<1> QED
  BY <1>1, <1>2, <1>3, <1>4 DEF Quiet

LEMMA WriteNulAddrQuiet == ASSUME QInv, WriteNulAddr("main") PROVE Quiet'
<1> USE DEF WriteNulAddr, At, Goto, Put
<1>1. Current'
  BY DEF IInv, TypeOK, QInv, Quiet, Current, Ctx, Writers, Handlers, NoFault, Running, Above
<1>2. Copied'
  BY Facts DEF IInv, TypeOK, QInv, Quiet, Current, Copied, Roles, Ctx, Writers, Handlers, NoFault, Running, Above
<1>3. Phases'
  BY DEF IInv, TypeOK, QInv, Quiet, Phases, Current, Ctx, Writers, Handlers, NoFault, Running, Above
<1>4. TextUnbroken'
  BY Facts DEF IInv, TypeOK, QInv, Quiet, TextUnbroken, Current, Copied, Roles, Ctx, Writers, Handlers, NoFault, Running, Above
<1> QED
  BY <1>1, <1>2, <1>3, <1>4 DEF Quiet

LEMMA WriteNulQuiet == ASSUME QInv, WriteNul("main") PROVE Quiet'
<1> USE DEF WriteNul, At, Goto, Put, Return
<1>1. Current'
  BY DEF IInv, TypeOK, QInv, Quiet, Current, Ctx, Writers, Handlers, NoFault, Running, Above
<1>2. Copied'
  BY Facts DEF IInv, TypeOK, QInv, Quiet, Current, Copied, Roles, Ctx, Writers, Handlers, NoFault, Running, Above
<1>3. Phases'
  BY DEF IInv, TypeOK, QInv, Quiet, Phases, Current, Ctx, Writers, Handlers, NoFault, Running, Above
<1>4. TextUnbroken'
  BY Facts DEF IInv, TypeOK, QInv, Quiet, TextUnbroken, Current, Copied, Roles, Ctx, Writers, Handlers, NoFault, Running, Above
<1> QED
  BY <1>1, <1>2, <1>3, <1>4 DEF Quiet

LEMMA FaultLoadQuiet == ASSUME QInv, NEW c \in Handlers, FaultLoad(c) PROVE Quiet'
<1> USE DEF FaultLoad, At, Goto, Put
<1>1. Current'
  BY DEF IInv, TypeOK, QInv, Quiet, Current, Ctx, Writers, Handlers, NoFault, Running, Above
<1>2. Copied'
  BY Facts DEF IInv, TypeOK, QInv, Quiet, Current, Copied, Roles, Ctx, Writers, Handlers, NoFault, Running, Above
<1>3. Phases'
  BY DEF IInv, TypeOK, QInv, Quiet, Phases, Current, Ctx, Writers, Handlers, NoFault, Running, Above
<1>4. TextUnbroken'
  BY Facts DEF IInv, TypeOK, QInv, Quiet, TextUnbroken, Current, Copied, Roles, Ctx, Writers, Handlers, NoFault, Running, Above
<1> QED
  BY <1>1, <1>2, <1>3, <1>4 DEF Quiet

LEMMA FaultByteQuiet == ASSUME QInv, NEW c \in Handlers, FaultByte(c) PROVE Quiet'
<1> USE DEF FaultByte, At, Goto, Put, Room
<1>1. Current'
  BY DEF IInv, TypeOK, QInv, Quiet, Current, Ctx, Writers, Handlers, NoFault, Running, Above
<1>2. Copied'
  <2>1. /\ c \in Ctx /\ trace_idx \in 0..Region-1 /\ reg[c] \in 0..Region-1
        /\ trace_idx <= reg[c]
    <3>1. c \in Ctx /\ pc[c] = "fcopy" /\ Running(c)
      BY DEF Handlers, Ctx
    <3>2. trace_idx \in 0..Region-1 /\ reg[c] \in Nat
      BY <3>1 DEF QInv, IInv, TypeOK
    <3>3. StoresInRegion
      BY IInvStores DEF QInv
    <3>4. reg[c] < Region
      BY <3>1, <3>2, <3>3 DEF StoresInRegion
    <3>5. trace_idx <= reg[c]
      BY <3>1, <3>2 DEF QInv, Quiet, Current
    <3> QED
      BY <3>1, <3>2, <3>4, <3>5, SizeAssumption
  <2>2. <<msg[c], k[c] + 1>> # NUL
    <3>1. msg[c] \in Msgs /\ k[c] + 1 \in Nat
      BY DEF IInv, TypeOK, QInv, Roles, Handlers, Ctx, Msgs
    <3> QED
      BY <3>1, Facts
  <2>3. \A j \in trace_idx..reg[c] : rsc_trace_buf'[j] # NUL
    <3>1. /\ rsc_trace_buf' = [rsc_trace_buf EXCEPT ![reg[c]] = <<msg[c], k[c] + 1>>]
          /\ rsc_trace_buf \in [0..Region-1 -> Cells]
      BY DEF QInv, IInv, TypeOK
    <3>2. \A j \in trace_idx..reg[c]-1 : rsc_trace_buf[j] # NUL
      BY DEF QInv, Quiet, Copied
    <3>3. ASSUME NEW j \in trace_idx..reg[c] PROVE rsc_trace_buf'[j] # NUL
      <4>1. CASE j = reg[c]
        BY <2>1, <2>2, <3>1, <4>1
      <4>2. CASE j # reg[c]
        <5>1. j \in trace_idx..reg[c]-1 /\ j \in 0..Region-1
          BY <2>1, <4>2, SizeAssumption
        <5> QED
          BY <3>1, <3>2, <4>2, <5>1
      <4> QED
        BY <4>1, <4>2
    <3> QED
      BY <3>3
  <2>4. reg'[c] = reg[c] + 1 /\ trace_idx' = trace_idx /\ pc' = pc
    BY <2>1 DEF IInv, TypeOK, QInv
  <2>5. ~NoFault' /\ \A d \in Handlers : Running(d)' /\ pc'[d] # "idle" => d = c
    BY <2>4 DEF NoFault, Handlers, Running, Above
  <2> QED
    BY <2>1, <2>3, <2>4, <2>5 DEF Copied
<1>3. Phases'
  BY DEF IInv, TypeOK, QInv, Quiet, Phases, Current, Ctx, Writers, Handlers, NoFault, Running, Above
<1>4. TextUnbroken'
  BY Facts DEF IInv, TypeOK, QInv, Quiet, TextUnbroken, Current, Copied, Roles, Ctx, Writers, Handlers, NoFault, Running, Above
<1> QED
  BY <1>1, <1>2, <1>3, <1>4 DEF Quiet

LEMMA FaultSkipQuiet == ASSUME QInv, NEW c \in Handlers, FaultSkip(c) PROVE Quiet'
<1> USE DEF FaultSkip, At, Goto, Put
<1>1. Current'
  BY DEF IInv, TypeOK, QInv, Quiet, Current, Ctx, Writers, Handlers, NoFault, Running, Above
<1>2. Copied'
  BY Facts DEF IInv, TypeOK, QInv, Quiet, Current, Copied, Roles, Ctx, Writers, Handlers, NoFault, Running, Above
<1>3. Phases'
  BY DEF IInv, TypeOK, QInv, Quiet, Phases, Current, Ctx, Writers, Handlers, NoFault, Running, Above
<1>4. TextUnbroken'
  BY Facts DEF IInv, TypeOK, QInv, Quiet, TextUnbroken, Current, Copied, Roles, Ctx, Writers, Handlers, NoFault, Running, Above
<1> QED
  BY <1>1, <1>2, <1>3, <1>4 DEF Quiet

LEMMA FaultNulQuiet == ASSUME QInv, NEW c \in Handlers, FaultNul(c) PROVE Quiet'
<1> USE DEF FaultNul, At, Goto, Put
<1>1. Current'
  BY DEF IInv, TypeOK, QInv, Quiet, Current, Ctx, Writers, Handlers, NoFault, Running, Above
<1>2. Copied'
  BY Facts DEF IInv, TypeOK, QInv, Quiet, Current, Copied, Roles, Ctx, Writers, Handlers, NoFault, Running, Above
<1>3. Phases'
  BY DEF IInv, TypeOK, QInv, Quiet, Phases, Current, Ctx, Writers, Handlers, NoFault, Running, Above
<1>4. TextUnbroken'
  BY Facts DEF IInv, TypeOK, QInv, Quiet, TextUnbroken, Current, Copied, Roles, Ctx, Writers, Handlers, NoFault, Running, Above
<1> QED
  BY <1>1, <1>2, <1>3, <1>4 DEF Quiet

LEMMA FaultStoreQuiet == ASSUME QInv, NEW c \in Handlers, FaultStore(c) PROVE Quiet'
<1> USE DEF FaultStore, At, Goto, Put
<1>1. Current'
  BY DEF IInv, TypeOK, QInv, Quiet, Current, Ctx, Writers, Handlers, NoFault, Running, Above
<1>2. Copied'
  BY Facts DEF IInv, TypeOK, QInv, Quiet, Current, Copied, Roles, Ctx, Writers, Handlers, NoFault, Running, Above
<1>3. Phases'
  BY DEF IInv, TypeOK, QInv, Quiet, Phases, Current, Ctx, Writers, Handlers, NoFault, Running, Above
<1>4. TextUnbroken'
  <2>1. /\ trace_idx' = reg[c] /\ rsc_trace_buf' = rsc_trace_buf
        /\ Running(c) /\ pc[c] = "fstore"
    OBVIOUS
  <2>2. trace_idx \in Nat /\ reg[c] \in Nat
    BY DEF QInv, IInv, TypeOK, Handlers, Ctx
  <2>3. \A j \in trace_idx..reg[c]-1 : rsc_trace_buf[j] # NUL
    BY <2>1 DEF QInv, Quiet, Copied
  <2>4. \A j \in 0..trace_idx-1 : rsc_trace_buf[j] # NUL
    BY DEF QInv, Quiet, TextUnbroken
  <2> QED
    BY <2>1, <2>2, <2>3, <2>4 DEF TextUnbroken
<1> QED
  BY <1>1, <1>2, <1>3, <1>4 DEF Quiet

LEMMA FaultEntryQuiet == ASSUME QInv, NEW m \in FaultMsgs, FaultEntry(m) PROVE Quiet'
<1> USE DEF FaultEntry, At, Goto, Put, Booted
<1>1. Current'
  BY DEF IInv, TypeOK, QInv, Quiet, Current, Ctx, Writers, Handlers, NoFault, Running, Above
<1>2. Copied'
  BY Facts DEF IInv, TypeOK, QInv, Quiet, Current, Copied, Roles, Ctx, Writers, Handlers, NoFault, Running, Above
<1>3. Phases'
  BY DEF IInv, TypeOK, QInv, Quiet, Phases, Current, Ctx, Writers, Handlers, NoFault, Running, Above
<1>4. TextUnbroken'
  BY Facts DEF IInv, TypeOK, QInv, Quiet, TextUnbroken, Current, Copied, Roles, Ctx, Writers, Handlers, NoFault, Running, Above
<1> QED
  BY <1>1, <1>2, <1>3, <1>4 DEF Quiet

LEMMA HardEntryQuiet == ASSUME QInv, HardEntry PROVE Quiet'
<1> USE DEF HardEntry, At, Goto, Put, MainIdle, Booted
<1>1. Current'
  BY DEF IInv, TypeOK, QInv, Quiet, Current, Ctx, Writers, Handlers, NoFault, Running, Above
<1>2. Copied'
  BY Facts DEF IInv, TypeOK, QInv, Quiet, Current, Copied, Roles, Ctx, Writers, Handlers, NoFault, Running, Above
<1>3. Phases'
  BY DEF IInv, TypeOK, QInv, Quiet, Phases, Current, Ctx, Writers, Handlers, NoFault, Running, Above
<1>4. TextUnbroken'
  BY Facts DEF IInv, TypeOK, QInv, Quiet, TextUnbroken, Current, Copied, Roles, Ctx, Writers, Handlers, NoFault, Running, Above
<1> QED
  BY <1>1, <1>2, <1>3, <1>4 DEF Quiet

LEMMA MemManageFaultQuiet == ASSUME QInv, MemManageFault PROVE Quiet'
<1> USE DEF MemManageFault, At, Goto, Put, MainIdle, Booted
<1>1. Current'
  BY DEF IInv, TypeOK, QInv, Quiet, Current, Ctx, Writers, Handlers, NoFault, Running, Above
<1>2. Copied'
  BY Facts DEF IInv, TypeOK, QInv, Quiet, Current, Copied, Roles, Ctx, Writers, Handlers, NoFault, Running, Above
<1>3. Phases'
  BY DEF IInv, TypeOK, QInv, Quiet, Phases, Current, Ctx, Writers, Handlers, NoFault, Running, Above
<1>4. TextUnbroken'
  BY Facts DEF IInv, TypeOK, QInv, Quiet, TextUnbroken, Current, Copied, Roles, Ctx, Writers, Handlers, NoFault, Running, Above
<1> QED
  BY <1>1, <1>2, <1>3, <1>4 DEF Quiet

LEMMA copyResourceTableQuiet == ASSUME QInv, copyResourceTable PROVE Quiet'
<1> USE DEF copyResourceTable, At, Goto, Put, MainIdle, Booted
<1>1. Current'
  BY DEF IInv, TypeOK, QInv, Quiet, Current, Ctx, Writers, Handlers, NoFault, Running, Above
<1>2. Copied'
  BY Facts DEF IInv, TypeOK, QInv, Quiet, Current, Copied, Roles, Ctx, Writers, Handlers, NoFault, Running, Above
<1>3. Phases'
  BY DEF IInv, TypeOK, QInv, Quiet, Phases, Current, Ctx, Writers, Handlers, NoFault, Running, Above
<1>4. TextUnbroken'
  <2>1. trace_idx' = 0
    BY DEF QInv, Quiet, Phases, NoFault, Running, Above
  <2> QED
    BY <2>1 DEF TextUnbroken
<1> QED
  BY <1>1, <1>2, <1>3, <1>4 DEF Quiet

LEMMA EnableIRQQuiet == ASSUME QInv, EnableIRQ PROVE Quiet'
<1> USE DEF EnableIRQ, At, Goto, Put, MainIdle, Booted
<1>1. Current'
  BY DEF IInv, TypeOK, QInv, Quiet, Current, Ctx, Writers, Handlers, NoFault, Running, Above
<1>2. Copied'
  BY Facts DEF IInv, TypeOK, QInv, Quiet, Current, Copied, Roles, Ctx, Writers, Handlers, NoFault, Running, Above
<1>3. Phases'
  BY DEF IInv, TypeOK, QInv, Quiet, Phases, Current, Ctx, Writers, Handlers, NoFault, Running, Above
<1>4. TextUnbroken'
  BY Facts DEF IInv, TypeOK, QInv, Quiet, TextUnbroken, Current, Copied, Roles, Ctx, Writers, Handlers, NoFault, Running, Above
<1> QED
  BY <1>1, <1>2, <1>3, <1>4 DEF Quiet

LEMMA ResetIdxQuiet == ASSUME QInv, ResetIdx PROVE Quiet'
<1> USE DEF ResetIdx, At, Goto, Put, MainIdle, Booted
<1>1. Current'
  BY DEF IInv, TypeOK, QInv, Quiet, Current, Ctx, Writers, Handlers, NoFault, Running, Above
<1>2. Copied'
  BY Facts DEF IInv, TypeOK, QInv, Quiet, Current, Copied, Roles, Ctx, Writers, Handlers, NoFault, Running, Above
<1>3. Phases'
  BY DEF IInv, TypeOK, QInv, Quiet, Phases, Current, Ctx, Writers, Handlers, NoFault, Running, Above
<1>4. TextUnbroken'
  BY Facts DEF IInv, TypeOK, QInv, Quiet, TextUnbroken, Current, Copied, Roles, Ctx, Writers, Handlers, NoFault, Running, Above
<1> QED
  BY <1>1, <1>2, <1>3, <1>4 DEF Quiet

LEMMA ResetNulQuiet == ASSUME QInv, ResetNul PROVE Quiet'
<1> USE DEF ResetNul, At, Goto, Put, MainIdle, Booted
<1>1. Current'
  BY DEF IInv, TypeOK, QInv, Quiet, Current, Ctx, Writers, Handlers, NoFault, Running, Above
<1>2. Copied'
  BY Facts DEF IInv, TypeOK, QInv, Quiet, Current, Copied, Roles, Ctx, Writers, Handlers, NoFault, Running, Above
<1>3. Phases'
  BY DEF IInv, TypeOK, QInv, Quiet, Phases, Current, Ctx, Writers, Handlers, NoFault, Running, Above
<1>4. TextUnbroken'
  <2>1. trace_idx' = 0
    BY DEF QInv, Quiet, Phases, NoFault, Running, Above
  <2> QED
    BY <2>1 DEF TextUnbroken
<1> QED
  BY <1>1, <1>2, <1>3, <1>4 DEF Quiet

LEMMA RestartQuiet == ASSUME QInv, Restart PROVE Quiet'
<1> USE DEF Restart, At, Goto, Put, MainIdle, Booted
<1>1. Current'
  BY DEF IInv, TypeOK, QInv, Quiet, Current, Ctx, Writers, Handlers, NoFault, Running, Above
<1>2. Copied'
  BY Facts DEF IInv, TypeOK, QInv, Quiet, Current, Copied, Roles, Ctx, Writers, Handlers, NoFault, Running, Above
<1>3. Phases'
  BY DEF IInv, TypeOK, QInv, Quiet, Phases, Current, Ctx, Writers, Handlers, NoFault, Running, Above
<1>4. TextUnbroken'
  BY Facts DEF IInv, TypeOK, QInv, Quiet, TextUnbroken, Current, Copied, Roles, Ctx, Writers, Handlers, NoFault, Running, Above
<1> QED
  BY <1>1, <1>2, <1>3, <1>4 DEF Quiet

LEMMA CallQuiet == ASSUME QInv, NEW m \in Writes, phase \in {"init", "run"}, trace_write("main", m) PROVE Quiet'
<1> USE DEF trace_write, At, Goto, Put, Return, Fits
<1>1. Current'
  BY DEF IInv, TypeOK, QInv, Quiet, Current, Ctx, Writers, Handlers, NoFault, Running, Above
<1>2. Copied'
  BY Facts DEF IInv, TypeOK, QInv, Quiet, Current, Copied, Roles, Ctx, Writers, Handlers, NoFault, Running, Above
<1>3. Phases'
  BY DEF IInv, TypeOK, QInv, Quiet, Phases, Current, Ctx, Writers, Handlers, NoFault, Running, Above
<1>4. TextUnbroken'
  BY Facts DEF IInv, TypeOK, QInv, Quiet, TextUnbroken, Current, Copied, Roles, Ctx, Writers, Handlers, NoFault, Running, Above
<1> QED
  BY <1>1, <1>2, <1>3, <1>4 DEF Quiet

LEMMA NextQuiet == ASSUME QInv, [Next]_vars, IrqMsgs = {} PROVE QInv'
<1>1. IInv'
  BY NextIInv DEF QInv
<1>2. Quiet'
  <2>1. CASE copyResourceTable  BY <2>1, copyResourceTableQuiet
  <2>2. CASE EnableIRQ          BY <2>2, EnableIRQQuiet
  <2>3. CASE ResetIdx           BY <2>3, ResetIdxQuiet
  <2>4. CASE ResetNul           BY <2>4, ResetNulQuiet
  <2>5. CASE MainLog            BY <2>5, CallQuiet DEF MainLog, Writes
  <2>6. CASE IrqLog             BY <2>6 DEF IrqLog
  <2>7. ASSUME NEW c \in Writers, WriteStep(c) PROVE Quiet'
    <3>1. c = "main"
      BY <2>7 DEF WriteStep, WriteAddr, WriteByte, WriteLoad, WriteStore,
                  WriteNulAddr, WriteNul, At, Writers, QInv, Quiet, Current
    <3> QED
      BY <2>7, <3>1, WriteAddrQuiet, WriteByteQuiet, WriteLoadQuiet,
         WriteStoreQuiet, WriteNulAddrQuiet, WriteNulQuiet DEF WriteStep
  <2>8. ASSUME NEW m \in FaultMsgs, FaultEntry(m) PROVE Quiet'
    BY <2>8, FaultEntryQuiet
  <2>9. CASE MemManageFault     BY <2>9, MemManageFaultQuiet
  <2>10. CASE HardEntry         BY <2>10, HardEntryQuiet
  <2>11. ASSUME NEW c \in Handlers, FaultStep(c) PROVE Quiet'
    BY <2>11, FaultLoadQuiet, FaultByteQuiet, FaultSkipQuiet, FaultNulQuiet,
       FaultStoreQuiet DEF FaultStep
  <2>12. CASE Restart           BY <2>12, RestartQuiet
  <2>13. CASE UNCHANGED vars
    BY <2>13 DEF vars, QInv, Quiet, Current, Copied, Phases,
                 TextUnbroken, NoFault, Running
  <2> QED
    BY <2>1, <2>2, <2>3, <2>4, <2>5, <2>6, <2>7, <2>8, <2>9, <2>10, <2>11,
       <2>12, <2>13 DEF Next, Handlers
<1> QED
  BY <1>1, <1>2 DEF QInv

\* A step never touches the text below trace_idx, unless it starts a new one.
LEMMA StepGrows ==
  ASSUME QInv, [Next]_vars, IrqMsgs = {}
  PROVE  \/ trace_idx' = 0
         \/ /\ trace_idx' >= trace_idx
            /\ \A i \in 0..trace_idx-1 : rsc_trace_buf'[i] = rsc_trace_buf[i]
<1> DEFINE Grows ==
      /\ trace_idx' >= trace_idx
      /\ \A i \in 0..trace_idx-1 : rsc_trace_buf'[i] = rsc_trace_buf[i]
<1>1. /\ trace_idx \in Nat
      /\ \A x : \A i \in 0..trace_idx-1, j \in Nat :
           j >= trace_idx => [rsc_trace_buf EXCEPT ![j] = x][i] = rsc_trace_buf[i]
  BY MsgLengths DEF QInv, IInv, TypeOK
<1>2. ASSUME UNCHANGED <<trace_idx, rsc_trace_buf>> PROVE Grows
  BY <1>1, <1>2
<1>3. CASE copyResourceTable \/ ResetIdx \/ ResetNul \/ Restart
  BY <1>3 DEF copyResourceTable, ResetIdx, ResetNul, Restart, MainIdle, At,
              QInv, Quiet, Phases, Running, Above, NoFault
<1>4. ASSUME NEW c \in Writers, WriteStep(c) PROVE Grows
  <2>1. /\ c = "main" /\ NoFault /\ reg["main"] \in Nat /\ k["main"] \in Nat
        /\ pc["main"] \in {"store"} => Written(msg["main"]) \in Nat
    BY <1>4, Facts
    DEF WriteStep, WriteAddr, WriteByte, WriteLoad, WriteStore, WriteNulAddr,
        WriteNul, At, Writers, QInv, Quiet, Current, NoFault, Running, Above,
        IInv, TypeOK, Roles, Ctx
  <2>2. CASE WriteAddr(c) \/ WriteLoad(c) \/ WriteNulAddr(c)
    BY <1>2, <2>2 DEF WriteAddr, WriteLoad, WriteNulAddr
  <2>3. CASE WriteByte(c) \/ WriteNul(c)
    <3>1. reg["main"] = trace_idx
      BY <2>1, <2>3 DEF WriteByte, WriteNul, At, QInv, Quiet, Current
    <3> QED
      <4>1. CASE WriteByte(c)
        <5>1. reg["main"] + k["main"] \in Nat /\ reg["main"] + k["main"] >= trace_idx
          BY <1>1, <2>1, <3>1
        <5>2. /\ trace_idx' = trace_idx
              /\ rsc_trace_buf' = [rsc_trace_buf EXCEPT
                    ![reg["main"] + k["main"]] = <<msg["main"], k["main"] + 1>>]
          BY <2>1, <4>1 DEF WriteByte, Put
        <5> QED
          BY <1>1, <5>1, <5>2
      <4>2. CASE WriteNul(c)
        <5>1. trace_idx' = trace_idx
              /\ rsc_trace_buf' = [rsc_trace_buf EXCEPT ![reg["main"]] = NUL]
          BY <2>1, <4>2 DEF WriteNul, Put
        <5> QED
          BY <1>1, <2>1, <3>1, <5>1
      <4> QED
        BY <2>3, <4>1, <4>2
  <2>4. CASE WriteStore(c)
    <3>1. reg["main"] = trace_idx
      BY <2>1, <2>4 DEF WriteStore, At, QInv, Quiet, Current
    <3> QED
      BY <1>1, <2>1, <2>4, <3>1 DEF WriteStore, At
  <2> QED
    BY <1>4, <2>2, <2>3, <2>4 DEF WriteStep
<1>5. ASSUME NEW c \in Handlers, FaultStep(c) PROVE Grows
  <2>1. c \in Ctx /\ reg[c] \in Nat
    BY DEF Handlers, Ctx, QInv, IInv, TypeOK
  <2>2. CASE FaultLoad(c) \/ FaultSkip(c)
    BY <1>2, <2>2 DEF FaultLoad, FaultSkip
  <2>3. CASE FaultByte(c) \/ FaultNul(c)
    <3>1. reg[c] >= trace_idx
      BY <2>3 DEF FaultByte, FaultNul, At, QInv, Quiet, Current
    <3> QED
      <4>1. trace_idx' = trace_idx
            /\ \E x : rsc_trace_buf' = [rsc_trace_buf EXCEPT ![reg[c]] = x]
        BY <2>3 DEF FaultByte, FaultNul, Put
      <4> QED
        BY <1>1, <2>1, <3>1, <4>1
  <2>4. CASE FaultStore(c)
    BY <1>1, <2>1, <2>4 DEF FaultStore, At, QInv, Quiet, Current
  <2> QED
    BY <1>5, <2>2, <2>3, <2>4 DEF FaultStep
<1>6. CASE EnableIRQ \/ MainLog \/ IrqLog \/ MemManageFault \/ HardEntry
  BY <1>2, <1>6 DEF EnableIRQ, MainLog, IrqLog, trace_write, MemManageFault, HardEntry
<1>7. ASSUME NEW m \in FaultMsgs, FaultEntry(m) PROVE Grows
  BY <1>2, <1>7 DEF FaultEntry
<1>8. CASE UNCHANGED vars
  BY <1>2, <1>8 DEF vars
<1> QED
  BY <1>3, <1>4, <1>5, <1>6, <1>7, <1>8 DEF Next, Handlers

THEOREM QuietInductive == ASSUME IrqMsgs = {} PROVE Spec => []QInv
<1>1. QInv /\ [Next]_vars => QInv'
  BY NextQuiet
<1> QED
  BY InitQInv, <1>1, PTL DEF Spec

\* Below trace_idx there is no NUL: with TraceEndsAtIndex, the string Linux reads
\* between writes is exactly the text of the accepted messages.
THEOREM TraceUnbroken == ASSUME IrqMsgs = {} PROVE Spec => []TextUnbroken
<1>1. QInv => TextUnbroken
  BY DEF QInv, Quiet
<1> QED
  BY <1>1, QuietInductive, PTL

\* What Linux has read of the accepted messages stays true: the text is only
\* extended, until main or a restart starts a new one.
THEOREM TraceOnlyGrows == ASSUME IrqMsgs = {} PROVE Spec => TextOnlyGrows
<1>1. QInv /\ [Next]_vars =>
        [\/ trace_idx' = 0
         \/ /\ trace_idx' >= trace_idx
            /\ \A i \in 0..trace_idx-1 : rsc_trace_buf'[i] = rsc_trace_buf[i]]_vars
  BY StepGrows
<1> QED
  BY <1>1, QuietInductive, PTL DEF Spec, TextOnlyGrows

-----------------------------------------------------------------------------
(* What the text consists of: the bytes of whole messages, in order, and   *)
(* the report of a fault, every stack word of it whole.                    *)

\* The bytes of its message main has stored above trace_idx.
Stored == CASE pc["main"] = "copy" -> k["main"]
            [] pc["main"] \in {"load", "store"} -> Written(msg["main"])
            [] OTHER -> 0

\* A message that passed the length check still fits when it is stored.
Roomy ==
  /\ trace_idx < Size
  /\ NoFault /\ pc["main"] \in {"addr", "copy", "load", "store"} =>
       trace_idx + Written(msg["main"]) < Size

\* The bytes main has stored are those of its message, in order.
MainBytes ==
  NoFault => \A j \in 0 .. Stored - 1 :
               rsc_trace_buf[trace_idx + j] = <<msg["main"], j + 1>>

\* Before the reset everything above them is NUL.
Fresh ==
  NoFault /\ phase = "init" =>
    \A j \in trace_idx + Stored .. Size - 1 : rsc_trace_buf[j] = NUL

\* A handler has stored the first n bytes of its report, each stack word among
\* them begun with the margin free, and then nothing, or it has skipped the other
\* stack words, and stored the last byte, or not yet.
Shape(c, n) ==
  /\ n \in 0 .. k[c] /\ k[c] <= ReportLen(msg[c]) /\ reg[c] < Size
  /\ \A j \in 0 .. n - 1 :
       /\ rsc_trace_buf[trace_idx + j] = <<msg[c], j + 1>>
       /\ WordStart(msg[c], j) => trace_idx + j + Margin < Size
  /\ \/ n = k[c] /\ reg[c] = trace_idx + n
     \/ /\ n < k[c] /\ WordStart(msg[c], n) /\ trace_idx + n + Margin >= Size
        /\ \/ k[c] = ReportLen(msg[c]) - 1 /\ reg[c] = trace_idx + n
           \/ /\ k[c] = ReportLen(msg[c]) /\ reg[c] = trace_idx + n + 1
              /\ rsc_trace_buf[trace_idx + n] = <<msg[c], ReportLen(msg[c])>>

\* A report ends when it is complete, was skipped to its end, or the buffer is full
\* before a byte that begins no word.
Over(c, n) ==
  n = k[c] => \/ n = ReportLen(msg[c])
              \/ ~WordStart(msg[c], n) /\ reg[c] + 1 >= Size

HandlerBytes ==
  \A c \in Handlers :
    Running(c) /\ pc[c] \in {"fcopy", "fstore"} =>
      \E n \in Nat : Shape(c, n) /\ (pc[c] = "fstore" => Over(c, n))

LogInv == Roomy /\ MainBytes /\ Fresh /\ NoStaleAtBoot /\ HandlerBytes /\ WordsWhole

TextInv == QInv /\ LogInv

LEMMA InitTextInv == Init => TextInv
<1> SUFFICES ASSUME Init PROVE LogInv
  BY InitQInv DEF TextInv
<1> QED
  BY Facts
  DEF Init, LogInv, Roomy, MainBytes, Fresh, Stored, NoStaleAtBoot, HandlerBytes,
      WordsWhole, NoFault, Handlers, Ctx

\* Two words of a report do not overlap.
LEMMA WordsApart ==
  ASSUME NEW m \in Reports, NEW n \in Nat, NEW l \in Nat,
         WordStart(m, n), WordStart(m, l), n < l
  PROVE  n + WordLen <= l
<1> DEFINE a == n - FmtLen[m]
           b == l - FmtLen[m]
<1>1. /\ a \in Nat /\ b \in Nat /\ a % WordLen = 0 /\ b % WordLen = 0
      /\ WordLen \in Nat \ {0} /\ FmtLen[m] \in Nat /\ a < b
  BY LenAssumption DEF WordStart, Msgs
<1> SUFFICES a + WordLen <= b
  BY <1>1
<1> HIDE DEF a, b
<1>2. a = WordLen * (a \div WordLen) /\ b = WordLen * (b \div WordLen)
  BY <1>1
<1>3. PICK q \in Nat, r \in Nat : a = WordLen * q /\ b = WordLen * r
  BY <1>1, <1>2
<1>4. q + 1 <= r
  <2>1. CASE r <= q
    <3>1. WordLen * r <= WordLen * q
      BY <1>1, <2>1
    <3> QED
      BY <1>1, <1>3, <3>1
  <2> QED
    BY <2>1
<1>5. WordLen * (q + 1) <= WordLen * r
  BY <1>1, <1>4
<1>6. WordLen * (q + 1) = WordLen * q + WordLen
  BY <1>1
<1> QED
  BY <1>1, <1>3, <1>5, <1>6

\* The last word of a report ends before its last byte.
LEMMA WordsEnd ==
  ASSUME NEW m \in Reports, NEW n \in Nat, WordStart(m, n)
  PROVE  n + WordLen <= ReportLen(m) - 1
<1> DEFINE a == n - FmtLen[m]
           w == Words[m]
<1>1. /\ a \in Nat /\ a % WordLen = 0 /\ w \in Nat
      /\ WordLen \in Nat \ {0} /\ FmtLen[m] \in Nat /\ a < w * WordLen
  BY LenAssumption DEF WordStart, Msgs
<1> SUFFICES a + WordLen <= w * WordLen /\ w > 0
  BY <1>1 DEF ReportLen
<1> HIDE DEF a, w
<1>2. a = WordLen * (a \div WordLen)
  BY <1>1
<1>3. PICK q \in Nat : a = WordLen * q
  BY <1>1, <1>2
<1>4. q + 1 <= w
  <2>1. CASE w <= q
    <3>1. w * WordLen <= WordLen * q
      BY <1>1, <2>1
    <3> QED
      BY <1>1, <1>3, <3>1
  <2> QED
    BY <1>1, <2>1
<1>5. WordLen * (q + 1) <= w * WordLen
  BY <1>1, <1>4
<1>6. WordLen * (q + 1) = WordLen * q + WordLen
  BY <1>1
<1> QED
  BY <1>1, <1>3, <1>4, <1>5, <1>6

\* As long as no fault came, what lies above trace_idx is main's, or NUL.
LEMMA FreshIsClean ==
  IInv /\ NoFault /\ MainBytes /\ Fresh => NoStaleAtBoot
<1> SUFFICES ASSUME IInv, NoFault, MainBytes, Fresh, phase = "init",
                    NEW j \in trace_idx .. Size - 1, rsc_trace_buf[j] # NUL
             PROVE  pc["main"] # "idle" /\ rsc_trace_buf[j][1] = msg["main"]
  BY DEF NoStaleAtBoot, Ctx
<1>1. /\ trace_idx \in Nat /\ Size \in Nat /\ k["main"] \in Nat
      /\ pc["main"] \in {"load", "store"} => Written(msg["main"]) \in Nat
  BY Facts DEF IInv, TypeOK, Roles, Ctx, Writers
<1>2. Stored \in Nat
  BY <1>1 DEF Stored
<1>3. j - trace_idx \in 0 .. Stored - 1
  BY <1>1, <1>2 DEF Fresh
<1>4. rsc_trace_buf[trace_idx + (j - trace_idx)] = <<msg["main"], (j - trace_idx) + 1>>
  BY <1>3 DEF MainBytes
<1>5. rsc_trace_buf[j] = <<msg["main"], (j - trace_idx) + 1>>
  BY <1>1, <1>4
<1>6. pc["main"] # "idle"
  BY <1>1, <1>3 DEF Stored
<1> QED
  BY <1>5, <1>6

\* A new trace.
LEMMA ResetLog ==
  ASSUME TextInv, copyResourceTable \/ ResetIdx \/ ResetNul \/ Restart
  PROVE  LogInv'
<1>1. trace_idx' = 0 /\ NoFault' /\ pc'["main"] = "idle" /\ Size \in Nat \ {0}
  BY Facts
  DEF copyResourceTable, ResetIdx, ResetNul, Restart, MainIdle, At, Running, Above,
      TextInv, QInv, Quiet, Phases, NoFault, Ctx
<1>2. Roomy' /\ MainBytes' /\ WordsWhole'
  BY <1>1 DEF Roomy, MainBytes, Stored, WordsWhole
<1>3. phase' = "init" => \A j \in 0 .. Size - 1 : rsc_trace_buf'[j] = NUL
  BY Facts DEF copyResourceTable, ResetIdx, ResetNul, Restart
<1>4. Fresh' /\ NoStaleAtBoot'
  BY <1>1, <1>3 DEF Fresh, Stored, NoStaleAtBoot
<1>5. HandlerBytes'
  BY <1>1 DEF HandlerBytes, NoFault, Handlers
<1> QED
  BY <1>2, <1>4, <1>5 DEF LogInv

\* A step that writes nothing and takes no handler on.
LEMMA SameLog ==
  ASSUME TextInv, UNCHANGED <<trace_idx, rsc_trace_buf, pc, msg, reg, k, phase>>
  PROVE  LogInv'
<1>1. Stored' = Stored /\ NoFault' = NoFault
  BY DEF Stored, NoFault
<1>2. Roomy' /\ MainBytes' /\ Fresh'
  BY <1>1 DEF TextInv, LogInv, Roomy, MainBytes, Fresh
<1>3. NoStaleAtBoot' /\ WordsWhole'
  BY DEF TextInv, LogInv, NoStaleAtBoot, WordsWhole
<1>4. HandlerBytes'
  <2>1. ASSUME NEW c \in Handlers PROVE Running(c)' <=> Running(c)
    BY DEF Running
  <2>2. ASSUME NEW c \in Handlers, NEW n \in Nat, Shape(c, n) PROVE Shape(c, n)'
    BY <2>2 DEF Shape
  <2>3. ASSUME NEW c \in Handlers, NEW n \in Nat, Over(c, n) PROVE Over(c, n)'
    BY <2>3 DEF Over
  <2> QED
    BY <2>1, <2>2, <2>3 DEF TextInv, LogInv, HandlerBytes
<1> QED
  BY <1>2, <1>3, <1>4 DEF LogInv

\* The call of trace_write: it finds its room.
LEMMA CallLog ==
  ASSUME TextInv, NEW m \in Writes, trace_write("main", m)
  PROVE  LogInv'
<1>1. /\ NoFault /\ NoFault' /\ pc["main"] = "idle" /\ pc["irq"] = "idle"
      /\ pc' = [pc EXCEPT !["main"] = IF Fits(m) THEN "addr" ELSE Return(m)]
      /\ msg' = [msg EXCEPT !["main"] = IF Fits(m) THEN m ELSE NUL]
      /\ UNCHANGED <<trace_idx, rsc_trace_buf, reg, k, phase>>
  BY DEF trace_write, At, Goto, Running, Above, NoFault, TextInv, QInv, Quiet, Current
<1>2. pc'["main"] = (IF Fits(m) THEN "addr" ELSE Return(m)) /\ (Fits(m) => msg'["main"] = m)
  BY <1>1 DEF TextInv, QInv, IInv, TypeOK, Ctx
<1>3. Roomy'
  BY <1>1, <1>2 DEF TextInv, LogInv, Roomy, Fits, Return
<1>4. Stored = 0 /\ Stored' = 0
  BY <1>1, <1>2 DEF Stored, Return
<1>5. MainBytes' /\ Fresh'
  BY <1>1, <1>4 DEF TextInv, LogInv, MainBytes, Fresh
<1>6. NoStaleAtBoot'
  <2>1. (IInv /\ NoFault /\ MainBytes /\ Fresh)' => NoStaleAtBoot'
    BY FreshIsClean, PTL
  <2>2. IInv'
    BY CallIInv DEF TextInv, QInv, Writers
  <2> QED
    BY <1>1, <1>5, <2>1, <2>2
<1>7. HandlerBytes'
  BY <1>1 DEF HandlerBytes, NoFault, Handlers
<1>8. WordsWhole'
  BY <1>1 DEF TextInv, LogInv, WordsWhole
<1> QED
  BY <1>3, <1>5, <1>6, <1>7, <1>8 DEF LogInv

\* A store above the text leaves its words as they are.
LEMMA WordsKept ==
  ASSUME WordsWhole, trace_idx' = trace_idx, trace_idx \in Nat, WordLen \in Nat,
         \A j \in 0 .. trace_idx - 1 : rsc_trace_buf'[j] = rsc_trace_buf[j]
  PROVE  WordsWhole'
<1> DEFINE W(b, i, j) ==
      LET m == b[i][1]  n == b[i][2]
      IN  m \in Reports /\ WordStart(m, n - 1) =>
            i + j < trace_idx /\ b[i + j] = <<m, n + j>>
<1>1. ASSUME NEW i \in 0 .. trace_idx - 1, NEW j \in 0 .. WordLen - 1
      PROVE  W(rsc_trace_buf', i, j)
  <2>1. W(rsc_trace_buf, i, j)
    BY DEF WordsWhole
  <2>2. rsc_trace_buf'[i] = rsc_trace_buf[i]
    OBVIOUS
  <2>3. i + j < trace_idx => rsc_trace_buf'[i + j] = rsc_trace_buf[i + j]
    OBVIOUS
  <2> QED
    BY <2>1, <2>2, <2>3
<1> QED
  BY <1>1 DEF WordsWhole

\* main's bytes: they come to lie above trace_idx one by one, and are below it
\* all at once.
LEMMA WriteLog ==
  ASSUME TextInv, WriteStep("main")
  PROVE  LogInv'
<1>0. /\ NoFault /\ NoFault' /\ phase' = phase
      /\ trace_idx \in Nat /\ Size \in Nat /\ Size < Region /\ Region \in Nat
      /\ k["main"] \in Nat /\ reg["main"] \in Nat /\ msg["main"] \in Writes
      /\ Written(msg["main"]) \in Nat \ {0}
      /\ pc \in [Ctx -> Labels] /\ k \in [Ctx -> Nat] /\ reg \in [Ctx -> Nat]
      /\ rsc_trace_buf \in [0 .. Region - 1 -> Cells]
      /\ WordLen \in Nat
  <2>1. /\ NoFault /\ phase' = phase /\ pc["main"] \notin {"idle", "spin"}
        /\ \E l \in Labels : pc' = [pc EXCEPT !["main"] = l]
    BY DEF WriteStep, WriteAddr, WriteByte, WriteLoad, WriteStore, WriteNulAddr,
           WriteNul, Return, At, Goto, Running, Above, NoFault, Labels
  <2>2. /\ pc \in [Ctx -> Labels] /\ k \in [Ctx -> Nat] /\ reg \in [Ctx -> Nat]
        /\ rsc_trace_buf \in [0 .. Region - 1 -> Cells]
        /\ trace_idx \in 0 .. Region - 1 /\ "main" \in Ctx
    BY DEF TextInv, QInv, IInv, TypeOK, Ctx
  <2>3. msg["main"] \in Writes
    BY <2>1 DEF TextInv, QInv, IInv, Roles, Writers
  <2>4. Written(msg["main"]) \in Nat \ {0} /\ WordLen \in Nat
    BY <2>3, Facts, LenAssumption
  <2>5. NoFault'
    BY <2>1, <2>2 DEF NoFault, Ctx
  <2> QED
    BY <2>1, <2>2, <2>3, <2>4, <2>5, Facts
<1>1. HandlerBytes'
  BY <1>0 DEF HandlerBytes, NoFault, Handlers
<1> SUFFICES Roomy' /\ MainBytes' /\ Fresh' /\ WordsWhole'
  <2>1. (IInv /\ NoFault /\ MainBytes /\ Fresh)' => NoStaleAtBoot'
    BY FreshIsClean, PTL
  <2>2. IInv'
    BY WriteAddrIInv, WriteByteIInv, WriteLoadIInv, WriteStoreIInv, WriteNulAddrIInv,
       WriteNulIInv DEF WriteStep, TextInv, QInv, Writers
  <2> QED
    BY <1>0, <1>1, <2>1, <2>2 DEF LogInv
<1>2. ASSUME UNCHANGED <<trace_idx, rsc_trace_buf, msg>>, Stored' = Stored,
             pc'["main"] \in {"addr", "copy", "load", "store"} =>
               pc["main"] \in {"addr", "copy", "load", "store"}
      PROVE  Roomy' /\ MainBytes' /\ Fresh' /\ WordsWhole'
  <2>1. Roomy'
    BY <1>0, <1>2 DEF TextInv, LogInv, Roomy
  <2>2. MainBytes' /\ Fresh'
    BY <1>0, <1>2 DEF TextInv, LogInv, MainBytes, Fresh
  <2>3. WordsWhole'
    BY <1>2 DEF TextInv, LogInv, WordsWhole
  <2> QED
    BY <2>1, <2>2, <2>3
<1>3. CASE WriteAddr("main")
  <2>1. pc["main"] = "addr" /\ pc'["main"] = "copy" /\ k'["main"] = 0
    BY <1>0, <1>3 DEF WriteAddr, At, Goto, Ctx
  <2>2. Stored' = Stored
    BY <2>1 DEF Stored
  <2> QED
    BY <1>2, <1>3, <2>1, <2>2 DEF WriteAddr
<1>4. CASE WriteByte("main")
  <2>1. /\ pc["main"] = "copy" /\ reg["main"] = trace_idx
        /\ UNCHANGED <<trace_idx, msg>> /\ k'["main"] = k["main"] + 1
        /\ pc'["main"] = IF k["main"] + 1 = Written(msg["main"]) THEN "load" ELSE "copy"
        /\ rsc_trace_buf' = [rsc_trace_buf EXCEPT
                               ![trace_idx + k["main"]] = <<msg["main"], k["main"] + 1>>]
    BY <1>0, <1>4
    DEF WriteByte, At, Goto, Put, Ctx, TextInv, QInv, Quiet, Current
  <2>2. Stored = k["main"] /\ Stored' = k["main"] + 1
    BY <2>1 DEF Stored
  <2>3. /\ k["main"] < Written(msg["main"])
        /\ trace_idx + Written(msg["main"]) < Size
    BY <1>0, <2>1 DEF TextInv, QInv, LogInv, Roomy, IInv, Registers, Writers
  <2>4. trace_idx + k["main"] \in 0 .. Region - 1
    BY <1>0, <2>3
  <2>5. \A j \in 0 .. Region - 1 :
          rsc_trace_buf'[j] = IF j = trace_idx + k["main"]
                              THEN <<msg["main"], k["main"] + 1>> ELSE rsc_trace_buf[j]
    BY <1>0, <2>1
  <2>6. Roomy'
    BY <1>0, <2>1, <2>3 DEF Roomy
  <2>7. MainBytes'
    <3> SUFFICES ASSUME NEW j \in 0 .. k["main"]
                 PROVE  rsc_trace_buf'[trace_idx + j] = <<msg["main"], j + 1>>
      BY <1>0, <2>1, <2>2, SMTT(30) DEF MainBytes
    <3>1. trace_idx + j \in 0 .. Region - 1
      BY <1>0, <2>4
    <3>2. CASE j = k["main"]
      BY <2>5, <3>1, <3>2
    <3>3. CASE j # k["main"]
      <4>1. j \in 0 .. Stored - 1 /\ trace_idx + j # trace_idx + k["main"]
        BY <1>0, <2>2, <3>3
      <4>2. rsc_trace_buf[trace_idx + j] = <<msg["main"], j + 1>>
        BY <1>0, <4>1 DEF TextInv, LogInv, MainBytes
      <4> QED
        BY <2>5, <3>1, <4>1, <4>2
    <3> QED
      BY <3>2, <3>3
  <2>8. Fresh'
    BY <1>0, <2>1, <2>2, <2>5 DEF TextInv, LogInv, Fresh
  <2>9. WordsWhole'
    BY <1>0, <2>1, <2>4, <2>5, WordsKept DEF TextInv, LogInv
  <2> QED
    BY <2>6, <2>7, <2>8, <2>9
<1>5. CASE WriteLoad("main")
  <2>1. pc["main"] = "load" /\ pc'["main"] = "store" /\ msg' = msg
    BY <1>0, <1>5 DEF WriteLoad, At, Goto, Ctx
  <2>2. Stored' = Stored
    BY <2>1 DEF Stored
  <2> QED
    BY <1>2, <1>5, <2>1, <2>2 DEF WriteLoad
<1>6. CASE WriteStore("main")
  <2>1. /\ pc["main"] = "store" /\ pc'["main"] = "nuladdr"
        /\ trace_idx' = trace_idx + Written(msg["main"])
        /\ UNCHANGED <<rsc_trace_buf, msg>>
    BY <1>0, <1>6 DEF WriteStore, At, Goto, Ctx, TextInv, QInv, Quiet, Current
  <2>2. Stored = Written(msg["main"]) /\ Stored' = 0
    BY <2>1 DEF Stored
  <2>3. Roomy'
    BY <1>0, <2>1 DEF TextInv, LogInv, Roomy
  <2>4. MainBytes' /\ Fresh'
    BY <1>0, <2>1, <2>2 DEF TextInv, LogInv, MainBytes, Fresh
  <2>5. ASSUME NEW j \in trace_idx .. trace_idx' - 1
        PROVE  rsc_trace_buf[j][1] \notin Reports
    <3>1. j - trace_idx \in 0 .. Stored - 1
      BY <1>0, <2>1, <2>2
    <3>2. rsc_trace_buf[trace_idx + (j - trace_idx)] = <<msg["main"], (j - trace_idx) + 1>>
      BY <1>0, <3>1 DEF TextInv, LogInv, MainBytes
    <3> QED
      BY <1>0, <3>2, KindAssumption
  <2>6. WordsWhole'
    <3> SUFFICES ASSUME NEW j \in 0 .. trace_idx' - 1, rsc_trace_buf[j][1] \in Reports,
                        WordStart(rsc_trace_buf[j][1], rsc_trace_buf[j][2] - 1),
                        NEW l \in 0 .. WordLen - 1
                 PROVE  /\ j + l < trace_idx'
                        /\ rsc_trace_buf[j + l] =
                             <<rsc_trace_buf[j][1], rsc_trace_buf[j][2] + l>>
      BY <2>1 DEF WordsWhole
    <3>1. j \in 0 .. trace_idx - 1
      BY <1>0, <2>1, <2>5
    <3>2. /\ j + l < trace_idx
          /\ rsc_trace_buf[j + l] =
               <<rsc_trace_buf[j][1], rsc_trace_buf[j][2] + l>>
      BY <3>1 DEF TextInv, LogInv, WordsWhole
    <3> QED
      BY <1>0, <2>1, <3>1, <3>2
  <2> QED
    BY <2>3, <2>4, <2>6
<1>7. CASE WriteNulAddr("main")
  <2>1. pc["main"] = "nuladdr" /\ pc'["main"] = "nul"
    BY <1>0, <1>7 DEF WriteNulAddr, At, Goto, Ctx
  <2>2. Stored' = Stored
    BY <2>1 DEF Stored
  <2> QED
    BY <1>2, <1>7, <2>1, <2>2 DEF WriteNulAddr
<1>8. CASE WriteNul("main")
  <2>1. /\ pc["main"] = "nul" /\ reg["main"] = trace_idx
        /\ trace_idx' = trace_idx /\ pc'["main"] \in {"idle", "spin"}
        /\ rsc_trace_buf' = [rsc_trace_buf EXCEPT ![trace_idx] = NUL]
    BY <1>0, <1>8
    DEF WriteNul, At, Goto, Put, Ctx, Return, TextInv, QInv, Quiet, Current
  <2>2. Stored = 0 /\ Stored' = 0
    BY <2>1 DEF Stored
  <2>3. \A j \in 0 .. Region - 1 :
          rsc_trace_buf'[j] = IF j = trace_idx THEN NUL ELSE rsc_trace_buf[j]
    BY <1>0, <2>1
  <2>4. Roomy' /\ MainBytes'
    BY <1>0, <2>1, <2>2 DEF TextInv, LogInv, Roomy, MainBytes
  <2>5. Fresh'
    BY <1>0, <2>1, <2>2, <2>3 DEF TextInv, LogInv, Fresh
  <2>6. trace_idx < Region
    BY <1>0 DEF TextInv, LogInv, Roomy
  <2>7. WordsWhole'
    BY <1>0, <2>1, <2>3, <2>6, WordsKept DEF TextInv, LogInv
  <2> QED
    BY <2>4, <2>5, <2>7
<1> QED
  BY <1>3, <1>4, <1>5, <1>6, <1>7, <1>8 DEF WriteStep

\* A fault is taken: nothing is written yet.
LEMMA EntryLog ==
  ASSUME TextInv,
         (\E m \in FaultMsgs : FaultEntry(m)) \/ MemManageFault \/ HardEntry
  PROVE  LogInv'
<1>1. PICK c \in Handlers, l \in {"fload", "silent"}, m \in Msgs \cup {NUL} :
        /\ pc[c] = "idle" /\ (c = "fault" => pc["hard"] = "idle")
        /\ pc' = [pc EXCEPT ![c] = l]
        /\ msg' = [msg EXCEPT ![c] = m]
        /\ UNCHANGED <<trace_idx, rsc_trace_buf, phase>>
  <2>1. CASE \E m \in FaultMsgs : FaultEntry(m)
    BY <2>1 DEF FaultEntry, Goto, Handlers, Msgs, Reports
  <2>2. CASE MemManageFault
    <3>1. msg' = [msg EXCEPT !["fault"] = msg["fault"]] /\ msg["fault"] \in Msgs \cup {NUL}
      BY <2>2 DEF MemManageFault, TextInv, QInv, IInv, TypeOK, Ctx
    <3> QED
      BY <2>2, <3>1 DEF MemManageFault, Goto, Handlers
  <2>3. CASE HardEntry
    BY <2>3 DEF HardEntry, Goto, Handlers, Msgs, Reports
  <2> QED
    BY <2>1, <2>2, <2>3
<1>2. pc \in [Ctx -> Labels] /\ msg \in [Ctx -> Msgs \cup {NUL}] /\ c \in Ctx
  BY DEF TextInv, QInv, IInv, TypeOK, Handlers, Ctx
<1>3. pc'[c] = l /\ \A d \in Ctx \ {c} : pc'[d] = pc[d] /\ msg'[d] = msg[d]
  BY <1>1, <1>2
<1>4. ~NoFault'
  BY <1>1, <1>3 DEF NoFault, Handlers
<1>5. Roomy' /\ MainBytes' /\ Fresh' /\ WordsWhole'
  BY <1>1, <1>4 DEF TextInv, LogInv, Roomy, MainBytes, Fresh, WordsWhole
<1>6. NoStaleAtBoot'
  <2>1. \A d \in Ctx : pc[d] # "idle" => pc'[d] # "idle" /\ msg'[d] = msg[d]
    BY <1>1, <1>3
  <2> QED
    BY <1>1, <2>1 DEF TextInv, LogInv, NoStaleAtBoot
<1>7. HandlerBytes'
  <2>1. \A d \in Handlers : Running(d)' => pc'[d] \notin {"fcopy", "fstore"}
    BY <1>1, <1>3 DEF Handlers, Running, Above, Ctx
  <2> QED
    BY <2>1 DEF HandlerBytes
<1> QED
  BY <1>5, <1>6, <1>7 DEF LogInv

\* What a handler's step does not touch.
LEMMA ReportFacts ==
  ASSUME TextInv, NEW c \in Handlers, FaultStep(c)
  PROVE  /\ c \in Ctx /\ Running(c) /\ ~NoFault /\ ~NoFault' /\ msg[c] \in Reports
         /\ UNCHANGED <<msg, phase>> /\ pc'[c] # "idle"
         /\ \A d \in Ctx \ {c} : pc'[d] = pc[d]
         /\ \A d \in Handlers : Running(d)' /\ pc'[d] # "idle" => d = c
         /\ trace_idx \in Nat /\ reg[c] \in Nat /\ k[c] \in Nat
         /\ Size \in Nat /\ Size < Region /\ Region \in Nat
         /\ ReportLen(msg[c]) \in Nat /\ FmtLen[msg[c]] \in Nat \ {0}
         /\ WordLen \in Nat \ {0} /\ Margin \in Nat \ {0}
         /\ pc \in [Ctx -> Labels] /\ k \in [Ctx -> Nat] /\ reg \in [Ctx -> Nat]
         /\ rsc_trace_buf \in [0 .. Region - 1 -> Cells]
<1>1. /\ Running(c) /\ UNCHANGED <<msg, phase>> /\ pc[c] \in {"fload", "fcopy", "fstore"}
      /\ \E l \in Labels \ {"idle"} : pc' = [pc EXCEPT ![c] = l]
  <2>1. CASE FaultLoad(c) \/ FaultNul(c) \/ FaultStore(c)
    BY <2>1 DEF FaultLoad, FaultNul, FaultStore, At, Goto, Labels
  <2>2. CASE FaultByte(c) \/ FaultSkip(c)
    <3>1. pc \in [Ctx -> Labels] /\ c \in Ctx
      BY DEF TextInv, QInv, IInv, TypeOK, Handlers, Ctx
    <3>2. pc[c] = "fcopy" /\ pc' = [pc EXCEPT ![c] = pc[c]]
      BY <2>2, <3>1 DEF FaultByte, FaultSkip, At
    <3> QED
      BY <2>2, <3>2 DEF FaultByte, FaultSkip, At, Labels
  <2> QED
    BY <2>1, <2>2 DEF FaultStep
<1>2. /\ pc \in [Ctx -> Labels] /\ k \in [Ctx -> Nat] /\ reg \in [Ctx -> Nat]
      /\ rsc_trace_buf \in [0 .. Region - 1 -> Cells]
      /\ trace_idx \in 0 .. Region - 1 /\ c \in Ctx
  BY DEF TextInv, QInv, IInv, TypeOK, Handlers, Ctx
<1>3. msg[c] \in Reports
  BY <1>1 DEF TextInv, QInv, IInv, Roles, Handlers
<1>4. /\ ReportLen(msg[c]) \in Nat /\ FmtLen[msg[c]] \in Nat \ {0}
      /\ WordLen \in Nat \ {0} /\ Margin \in Nat \ {0}
  BY <1>3, MsgLengths, LenAssumption DEF Msgs
<1>5. pc'[c] # "idle" /\ \A d \in Ctx \ {c} : pc'[d] = pc[d]
  BY <1>1, <1>2
<1>6. ~NoFault /\ ~NoFault'
  BY <1>1, <1>5 DEF NoFault, Handlers
<1>7. \A d \in Handlers : Running(d)' /\ pc'[d] # "idle" => d = c
  BY <1>1, <1>5 DEF Handlers, Running, Above, Ctx
<1> QED
  BY <1>1, <1>2, <1>3, <1>4, <1>5, <1>6, <1>7, Facts

\* The bytes of a handler's report.
LEMMA ReportBytes ==
  ASSUME TextInv, NEW c \in Handlers, FaultStep(c)
  PROVE  HandlerBytes'
<1>0. /\ c \in Ctx /\ msg[c] \in Reports /\ UNCHANGED msg
      /\ \A d \in Handlers : Running(d)' /\ pc'[d] # "idle" => d = c
      /\ trace_idx \in Nat /\ reg[c] \in Nat /\ k[c] \in Nat
      /\ Size \in Nat /\ Size < Region /\ Region \in Nat
      /\ ReportLen(msg[c]) \in Nat /\ Margin \in Nat \ {0}
      /\ pc \in [Ctx -> Labels] /\ k \in [Ctx -> Nat] /\ reg \in [Ctx -> Nat]
      /\ rsc_trace_buf \in [0 .. Region - 1 -> Cells] /\ Running(c)
      /\ trace_idx < Size
  BY ReportFacts DEF TextInv, LogInv, Roomy
<1> SUFFICES pc'[c] \in {"fcopy", "fstore"} =>
               \E n \in Nat : Shape(c, n)' /\ (pc'[c] = "fstore" => Over(c, n)')
  BY <1>0 DEF HandlerBytes, Shape, Over
<1>1. CASE FaultLoad(c)
  <2>1. /\ pc'[c] = "fcopy" /\ reg'[c] = trace_idx /\ k'[c] = 0
        /\ UNCHANGED <<trace_idx, rsc_trace_buf>>
    BY <1>0, <1>1 DEF FaultLoad, Goto
  <2>2. Shape(c, 0)'
    BY <1>0, <2>1 DEF Shape
  <2> QED
    BY <2>1, <2>2
<1>2. ASSUME pc[c] = "fcopy" \/ pc[c] = "fstore"
      PROVE  \E n \in Nat : Shape(c, n) /\ (pc[c] = "fstore" => Over(c, n))
  BY <1>0, <1>2 DEF TextInv, LogInv, HandlerBytes
<1>3. CASE FaultByte(c)
  <2>1. pc[c] = "fcopy"
    BY <1>3 DEF FaultByte, At
  <2>2. PICK n \in Nat : Shape(c, n)
    BY <1>2, <2>1
  <2>3. /\ pc' = pc /\ trace_idx' = trace_idx
        /\ k[c] < ReportLen(msg[c]) /\ Room(msg[c], k[c], reg[c])
        /\ reg'[c] = reg[c] + 1 /\ k'[c] = k[c] + 1
        /\ rsc_trace_buf' = [rsc_trace_buf EXCEPT ![reg[c]] = <<msg[c], k[c] + 1>>]
    BY <1>0, <1>3 DEF FaultByte, Put
  <2>4. reg[c] + 1 < Size
    BY <1>0, <2>3 DEF Room
  <2>5. \A j \in 0 .. Region - 1 :
          rsc_trace_buf'[j] = IF j = reg[c] THEN <<msg[c], k[c] + 1>> ELSE rsc_trace_buf[j]
    BY <1>0, <2>3
  <2>6. CASE n = k[c]
    <3>1. reg[c] = trace_idx + n
      BY <1>0, <2>2, <2>6 DEF Shape
    <3>2. ASSUME NEW j \in 0 .. n
          PROVE  /\ rsc_trace_buf'[trace_idx + j] = <<msg[c], j + 1>>
                 /\ WordStart(msg[c], j) => trace_idx + j + Margin < Size
      <4>1. trace_idx + j \in 0 .. Region - 1
        BY <1>0, <2>4, <3>1
      <4>2. CASE j = n
        BY <1>0, <2>3, <2>5, <2>6, <3>1, <4>1, <4>2 DEF Room
      <4>3. CASE j # n
        <5>1. j \in 0 .. n - 1 /\ trace_idx + j # reg[c]
          BY <1>0, <3>1, <4>3
        <5> QED
          BY <2>2, <2>5, <4>1, <5>1 DEF Shape
      <4> QED
        BY <4>2, <4>3
    <3>3. Shape(c, n + 1)'
      <4>1. n + 1 \in 0 .. k'[c] /\ k'[c] <= ReportLen(msg'[c]) /\ reg'[c] < Size
        BY <1>0, <2>3, <2>4, <2>6
      <4>2. n + 1 = k'[c] /\ reg'[c] = trace_idx' + (n + 1)
        BY <1>0, <2>3, <2>6, <3>1
      <4>3. (n + 1) - 1 = n
        OBVIOUS
      <4>4. \A j \in 0 .. (n + 1) - 1 :
              /\ rsc_trace_buf'[trace_idx' + j] = <<msg'[c], j + 1>>
              /\ WordStart(msg'[c], j) => trace_idx' + j + Margin < Size
        BY <1>0, <2>3, <3>2, <4>3
      <4> QED
        BY <4>1, <4>2, <4>4 DEF Shape
    <3> QED
      BY <2>1, <2>3, <3>3
  <2>7. CASE n # k[c]
    <3>1. /\ n < k[c] /\ WordStart(msg[c], n) /\ trace_idx + n + Margin >= Size
          /\ k[c] = ReportLen(msg[c]) - 1 /\ reg[c] = trace_idx + n
      BY <1>0, <2>2, <2>3, <2>7 DEF Shape
    <3>2. ASSUME NEW j \in 0 .. n - 1
          PROVE  /\ rsc_trace_buf'[trace_idx + j] = <<msg[c], j + 1>>
                 /\ WordStart(msg[c], j) => trace_idx + j + Margin < Size
      <4>1. trace_idx + j \in 0 .. Region - 1 /\ trace_idx + j # reg[c]
        BY <1>0, <2>4, <3>1
      <4> QED
        BY <2>2, <2>5, <4>1 DEF Shape
    <3>3. rsc_trace_buf'[trace_idx + n] = <<msg[c], ReportLen(msg[c])>>
      <4>1. reg[c] \in 0 .. Region - 1 /\ k[c] + 1 = ReportLen(msg[c])
        BY <1>0, <2>4, <3>1
      <4>2. rsc_trace_buf'[reg[c]] = <<msg[c], k[c] + 1>>
        BY <2>5, <4>1
      <4> QED
        BY <3>1, <4>1, <4>2
    <3>4. Shape(c, n)'
      <4>1. n \in 0 .. k'[c] /\ k'[c] <= ReportLen(msg'[c]) /\ reg'[c] < Size
        BY <1>0, <2>3, <2>4, <3>1
      <4>2. /\ n < k'[c] /\ WordStart(msg'[c], n) /\ trace_idx' + n + Margin >= Size
            /\ k'[c] = ReportLen(msg'[c]) /\ reg'[c] = trace_idx' + n + 1
        BY <1>0, <2>3, <3>1
      <4>3. \A j \in 0 .. n - 1 :
              /\ rsc_trace_buf'[trace_idx' + j] = <<msg'[c], j + 1>>
              /\ WordStart(msg'[c], j) => trace_idx' + j + Margin < Size
        BY <1>0, <2>3, <3>2
      <4>4. rsc_trace_buf'[trace_idx' + n] = <<msg'[c], ReportLen(msg'[c])>>
        BY <1>0, <2>3, <3>3
      <4> QED
        BY <4>1, <4>2, <4>3, <4>4 DEF Shape
    <3> QED
      BY <2>1, <2>3, <3>4
  <2> QED
    BY <2>6, <2>7
<1>4. CASE FaultSkip(c)
  <2>1. /\ pc[c] = "fcopy" /\ WordStart(msg[c], k[c])
        /\ reg[c] + Margin >= Size /\ k'[c] = ReportLen(msg[c]) - 1
        /\ UNCHANGED <<pc, trace_idx, rsc_trace_buf, reg>>
    BY <1>0, <1>4 DEF FaultSkip, At, Room
  <2>2. PICK n \in Nat : Shape(c, n)
    BY <1>2, <2>1
  <2>3. k[c] + WordLen <= ReportLen(msg[c]) - 1 /\ WordLen \in Nat \ {0}
    BY <1>0, <2>1, WordsEnd, LenAssumption
  <2>4. n = k[c] /\ reg[c] = trace_idx + n
    BY <1>0, <2>2, <2>3 DEF Shape
  <2>5. Shape(c, n)'
    <3>1. msg' = msg
      BY <1>0, <1>4 DEF FaultSkip
    <3>2. n \in 0 .. k'[c] /\ k'[c] <= ReportLen(msg'[c]) /\ reg'[c] < Size
      BY <1>0, <2>1, <2>2, <2>3, <2>4, <3>1 DEF Shape
    <3>3. /\ n < k'[c] /\ WordStart(msg'[c], n) /\ trace_idx' + n + Margin >= Size
          /\ k'[c] = ReportLen(msg'[c]) - 1 /\ reg'[c] = trace_idx' + n
      BY <1>0, <2>1, <2>3, <2>4, <3>1
    <3>4. \A j \in 0 .. n - 1 :
            /\ rsc_trace_buf'[trace_idx' + j] = <<msg'[c], j + 1>>
            /\ WordStart(msg'[c], j) => trace_idx' + j + Margin < Size
      BY <2>1, <2>2, <3>1 DEF Shape
    <3> QED
      BY <3>2, <3>3, <3>4 DEF Shape
  <2> QED
    BY <2>1, <2>5
<1>5. CASE FaultNul(c)
  <2>1. /\ pc[c] = "fcopy" /\ pc'[c] = "fstore"
        /\ \/ k[c] = ReportLen(msg[c])
           \/ ~WordStart(msg[c], k[c]) /\ reg[c] + 1 >= Size
        /\ UNCHANGED <<trace_idx, reg, k>>
        /\ rsc_trace_buf' = [rsc_trace_buf EXCEPT ![reg[c]] = NUL]
    BY <1>0, <1>5 DEF FaultNul, At, Goto, Put, Room
  <2>2. PICK n \in Nat : Shape(c, n)
    BY <1>2, <2>1
  <2>3. reg[c] < Size /\ trace_idx + n <= reg[c]
    BY <1>0, <2>2 DEF Shape
  <2>4. \A j \in 0 .. Region - 1 : j # reg[c] => rsc_trace_buf'[j] = rsc_trace_buf[j]
    BY <1>0, <2>1
  <2>5. Shape(c, n)'
    <3>1. \A j \in 0 .. n - 1 : trace_idx + j \in 0 .. Region - 1 /\ trace_idx + j # reg[c]
      BY <1>0, <2>3
    <3>2. \A j \in 0 .. n - 1 : rsc_trace_buf'[trace_idx + j] = rsc_trace_buf[trace_idx + j]
      BY <2>4, <3>1
    <3>3. reg[c] = trace_idx + n + 1 =>
             rsc_trace_buf'[trace_idx + n] = rsc_trace_buf[trace_idx + n]
      BY <1>0, <2>3, <2>4
    <3> QED
      BY <1>0, <2>1, <2>2, <3>2, <3>3 DEF Shape
  <2>6. Over(c, n)'
    BY <1>0, <2>1 DEF Over
  <2> QED
    BY <2>5, <2>6
<1>6. CASE FaultStore(c)
  BY <1>0, <1>6 DEF FaultStore, Goto
<1> QED
  BY <1>1, <1>3, <1>4, <1>5, <1>6 DEF FaultStep

\* When a handler publishes the index, every word it began is complete.
LEMMA ReportEnds ==
  ASSUME TextInv, NEW c \in Handlers, FaultStep(c), NEW n \in Nat,
         Shape(c, n), Over(c, n), NEW j \in 0 .. n - 1, WordStart(msg[c], j)
  PROVE  j + WordLen <= n
<1>0. /\ msg[c] \in Reports /\ reg[c] \in Nat /\ k[c] \in Nat /\ trace_idx \in Nat
      /\ Size \in Nat /\ ReportLen(msg[c]) \in Nat
      /\ WordLen \in Nat /\ Margin \in Nat /\ j \in Nat
  BY ReportFacts
<1>1. CASE n # k[c]
  <2>1. WordStart(msg[c], n)
    BY <1>1 DEF Shape
  <2> QED
    BY <1>0, <2>1, WordsApart
<1>2. CASE n = ReportLen(msg[c])
  BY <1>0, <1>2, WordsEnd
<1>3. CASE n = k[c] /\ n # ReportLen(msg[c])
  <2>1. reg[c] + 1 >= Size /\ reg[c] = trace_idx + n /\ trace_idx + j + Margin < Size
    BY <1>3 DEF Over, Shape
  <2> QED
    BY <1>0, <2>1, MarginAssumption
<1> QED
  BY <1>1, <1>2, <1>3

LEMMA ReportLog ==
  ASSUME TextInv, NEW c \in Handlers, FaultStep(c)
  PROVE  LogInv'
<1>0. /\ c \in Ctx /\ msg[c] \in Reports /\ UNCHANGED <<msg, phase>> /\ ~NoFault'
      /\ trace_idx \in Nat /\ reg[c] \in Nat /\ k[c] \in Nat
      /\ Size \in Nat /\ Size < Region /\ Region \in Nat
      /\ ReportLen(msg[c]) \in Nat /\ WordLen \in Nat \ {0}
      /\ pc'[c] # "idle" /\ (\A d \in Ctx \ {c} : pc'[d] = pc[d])
      /\ reg \in [Ctx -> Nat] /\ Running(c)
      /\ rsc_trace_buf \in [0 .. Region - 1 -> Cells]
      /\ trace_idx < Size
  BY ReportFacts DEF TextInv, LogInv, Roomy
<1>1. pc[c] \in {"fcopy", "fstore"} =>
        \E n \in Nat : Shape(c, n) /\ (pc[c] = "fstore" => Over(c, n))
  BY <1>0 DEF TextInv, LogInv, HandlerBytes
<1>2. pc[c] \in {"fcopy", "fstore"} => trace_idx <= reg[c] /\ reg[c] < Size
  BY <1>0, <1>1 DEF Shape
<1>3. \/ UNCHANGED <<trace_idx, rsc_trace_buf>>
      \/ /\ pc[c] = "fcopy" /\ trace_idx' = trace_idx
         /\ \E x \in {NUL, <<msg[c], k[c] + 1>>} :
              rsc_trace_buf' = [rsc_trace_buf EXCEPT ![reg[c]] = x]
      \/ FaultStore(c)
  BY DEF FaultStep, FaultLoad, FaultByte, FaultSkip, FaultNul, At, Put
<1>4. FaultStore(c) =>
        pc[c] = "fstore" /\ trace_idx' = reg[c] /\ UNCHANGED rsc_trace_buf
  BY DEF FaultStore, At
<1>5. Roomy' /\ MainBytes' /\ Fresh'
  BY <1>0, <1>2, <1>3, <1>4 DEF Roomy, MainBytes, Fresh
<1>6. NoStaleAtBoot'
  <2> SUFFICES ASSUME phase = "init", NEW j \in trace_idx' .. Size - 1,
                      rsc_trace_buf'[j] # NUL
               PROVE  \E d \in Ctx : pc'[d] # "idle" /\ rsc_trace_buf'[j][1] = msg[d]
    BY <1>0 DEF NoStaleAtBoot
  <2>1. j \in trace_idx .. Size - 1 /\ j \in 0 .. Region - 1
    BY <1>0, <1>2, <1>3, <1>4
  <2>2. CASE rsc_trace_buf'[j] = rsc_trace_buf[j]
    <3>1. PICK d \in Ctx : pc[d] # "idle" /\ rsc_trace_buf[j][1] = msg[d]
      BY <1>0, <2>1, <2>2 DEF TextInv, LogInv, NoStaleAtBoot
    <3>2. pc'[d] # "idle"
      BY <1>0, <3>1
    <3> QED
      BY <2>2, <3>1, <3>2
  <2>3. CASE rsc_trace_buf'[j] # rsc_trace_buf[j]
    <3>1. rsc_trace_buf'[j] = <<msg[c], k[c] + 1>>
      BY <1>0, <1>3, <1>4, <2>1, <2>3
    <3> QED
      BY <1>0, <3>1
  <2> QED
    BY <2>2, <2>3
<1>7. WordsWhole'
  <2>1. CASE ~FaultStore(c)
    <3>1. /\ trace_idx' = trace_idx
          /\ \A j \in 0 .. trace_idx - 1 : rsc_trace_buf'[j] = rsc_trace_buf[j]
      <4>1. CASE UNCHANGED <<trace_idx, rsc_trace_buf>>
        BY <4>1
      <4>2. CASE ~UNCHANGED <<trace_idx, rsc_trace_buf>>
        <5>1. /\ trace_idx' = trace_idx /\ trace_idx <= reg[c]
              /\ \E x : rsc_trace_buf' = [rsc_trace_buf EXCEPT ![reg[c]] = x]
          BY <1>2, <1>3, <2>1, <4>2
        <5> QED
          BY <1>0, <5>1
      <4> QED
        BY <4>1, <4>2
    <3> QED
      BY <1>0, <3>1, WordsKept DEF TextInv, LogInv
  <2>2. CASE FaultStore(c)
    <3>1. PICK n \in Nat : Shape(c, n) /\ Over(c, n)
      BY <1>1, <1>4, <2>2
    <3> SUFFICES ASSUME NEW i \in 0 .. reg[c] - 1, rsc_trace_buf[i][1] \in Reports,
                        WordStart(rsc_trace_buf[i][1], rsc_trace_buf[i][2] - 1),
                        NEW l \in 0 .. WordLen - 1
                 PROVE  /\ i + l < reg[c]
                        /\ rsc_trace_buf[i + l] =
                             <<rsc_trace_buf[i][1], rsc_trace_buf[i][2] + l>>
      BY <1>4, <2>2 DEF WordsWhole
    <3>2. CASE i < trace_idx
      <4>1. i \in 0 .. trace_idx - 1 /\ WordsWhole
        BY <1>0, <3>2 DEF TextInv, LogInv
      <4>2. /\ i + l < trace_idx
            /\ rsc_trace_buf[i + l] = <<rsc_trace_buf[i][1], rsc_trace_buf[i][2] + l>>
        BY <4>1 DEF WordsWhole
      <4> QED
        BY <1>0, <1>2, <1>4, <2>2, <4>2
    <3>3. CASE i >= trace_idx
      <4> DEFINE j == i - trace_idx
      <4>0. j \in Nat /\ i = trace_idx + j /\ l \in Nat /\ trace_idx + j < reg[c]
        BY <1>0, <3>3
      <4> HIDE DEF j
      <4>1. reg[c] = trace_idx + n \/ reg[c] = trace_idx + n + 1
        BY <3>1 DEF Shape
      <4>2. CASE j < n
        <5>1. j \in 0 .. n - 1
          BY <4>0, <4>2
        <5>2. rsc_trace_buf[i] = <<msg[c], j + 1>>
          BY <3>1, <4>0, <5>1 DEF Shape
        <5>3. WordStart(msg[c], j)
          BY <4>0, <5>2
        <5>4. j + WordLen <= n
          BY <3>1, <5>1, <5>3, ReportEnds
        <5>5. j + l \in 0 .. n - 1
          BY <1>0, <4>0, <5>4
        <5>6. rsc_trace_buf[trace_idx + (j + l)] = <<msg[c], (j + l) + 1>>
          BY <3>1, <5>5 DEF Shape
        <5>7. trace_idx + (j + l) = i + l /\ (j + l) + 1 = (j + 1) + l
          BY <1>0, <4>0
        <5>8. i + l < reg[c]
          BY <1>0, <4>0, <4>1, <5>5, <5>7
        <5>9. rsc_trace_buf[i][1] = msg[c] /\ rsc_trace_buf[i][2] = j + 1
          BY <5>2
        <5> QED
          BY <5>6, <5>7, <5>8, <5>9
      <4>3. CASE j >= n
        <5>1. j = n /\ reg[c] = trace_idx + n + 1
          BY <1>0, <4>0, <4>1, <4>3
        <5>2. rsc_trace_buf[i] = <<msg[c], ReportLen(msg[c])>> /\ ReportLen(msg[c]) - 1 \in Nat
          BY <1>0, <3>1, <4>0, <5>1 DEF Shape
        <5>3. WordStart(msg[c], ReportLen(msg[c]) - 1)
          BY <5>2
        <5> QED
          BY <1>0, <5>2, <5>3, WordsEnd, SMTT(30)
      <4> QED
        BY <4>0, <4>2, <4>3
    <3> QED
      BY <1>0, <3>2, <3>3
  <2> QED
    BY <2>1, <2>2
<1> QED
  BY <1>5, <1>6, <1>7, ReportBytes DEF LogInv

LEMMA NextText == ASSUME TextInv, [Next]_vars, IrqMsgs = {} PROVE TextInv'
<1>1. QInv'
  BY NextQuiet DEF TextInv
<1>2. LogInv'
  <2>1. CASE copyResourceTable \/ ResetIdx \/ ResetNul \/ Restart
    BY <2>1, ResetLog
  <2>2. CASE EnableIRQ \/ UNCHANGED vars
    BY <2>2, SameLog DEF EnableIRQ, vars
  <2>3. CASE MainLog
    BY <2>3, CallLog DEF MainLog, Writes
  <2>4. CASE IrqLog
    BY <2>4 DEF IrqLog
  <2>5. ASSUME NEW c \in Writers, WriteStep(c) PROVE LogInv'
    <3>1. c = "main"
      BY <2>5 DEF WriteStep, WriteAddr, WriteByte, WriteLoad, WriteStore,
                  WriteNulAddr, WriteNul, At, Writers, TextInv, QInv, Quiet, Current
    <3> QED
      BY <2>5, <3>1, WriteLog
  <2>6. CASE (\E m \in FaultMsgs : FaultEntry(m)) \/ MemManageFault \/ HardEntry
    BY <2>6, EntryLog
  <2>7. ASSUME NEW c \in Handlers, FaultStep(c) PROVE LogInv'
    BY <2>7, ReportLog
  <2> QED
    BY <2>1, <2>2, <2>3, <2>4, <2>5, <2>6, <2>7 DEF Next, Handlers
<1> QED
  BY <1>1, <1>2 DEF TextInv

\* Every step keeps it: the text of a trace without interrupt messages.
THEOREM TextInductive == ASSUME IrqMsgs = {} PROVE Spec => []TextInv
<1>1. TextInv /\ [Next]_vars => TextInv'
  BY NextText
<1> QED
  BY InitTextInv, <1>1, PTL DEF Spec

\* Before main resets the trace, Linux finds above trace_idx only NUL and the
\* bytes of writes that a fault or a halt left unfinished, after restarts too.
THEOREM CleanAtBoot == ASSUME IrqMsgs = {} PROVE Spec => []NoStaleAtBoot
<1>1. TextInv => NoStaleAtBoot
  BY DEF TextInv, LogInv
<1> QED
  BY <1>1, TextInductive, PTL

\* However full the trace was when a fault came, no stack word of its report is
\* cut: the margin of 12 bytes is enough for the 9 bytes of a word.
THEOREM WordsAreWhole == ASSUME IrqMsgs = {} PROVE Spec => []WordsWhole
<1>1. TextInv => WordsWhole
  BY DEF TextInv, LogInv
<1> QED
  BY <1>1, TextInductive, PTL

-----------------------------------------------------------------------------
(* The buffer implements TraceLog: what lies below trace_idx is its text.  *)

\* The first n bytes of f, as a sequence.
Upto(f, n) == [j \in 1 .. n |-> f[j - 1]]

\* g has the first n bytes of f, and then b.
Stores(f, n, g, l, b) ==
  /\ n \in Nat /\ l \in Nat /\ b \in Seq(Cells) /\ l = n + Len(b)
  /\ \A j \in 0 .. n - 1 : f[j] \in Cells /\ g[j] = f[j]
  /\ \A j \in 1 .. Len(b) : g[n + j - 1] = b[j]

\* Storing a sequence behind a text extends the text by it.
LEMMA Extended ==
  ASSUME NEW n, NEW f, NEW g, NEW b, NEW l, Stores(f, n, g, l, b)
  PROVE  /\ Upto(f, n) \in Seq(Cells) /\ Upto(g, l) \in Seq(Cells)
         /\ Upto(g, l) = Upto(f, n) \o b
<1> DEFINE s == [j \in 1 .. n |-> f[j - 1]]
           t == [j \in 1 .. l |-> g[j - 1]]
<1> USE DEF Stores
<1>0. Len(b) \in Nat
  OBVIOUS
<1>1. s \in Seq(Cells) /\ Len(s) = n /\ \A j \in 1 .. n : s[j] = f[j - 1]
  OBVIOUS
<1>2. ASSUME NEW j \in 1 .. l
      PROVE  g[j - 1] = (IF j <= n THEN f[j - 1] ELSE b[j - n]) /\ g[j - 1] \in Cells
  <2>1. CASE j <= n
    BY <2>1
  <2>2. CASE j > n
    <3>1. j - n \in 1 .. Len(b) /\ n + (j - n) - 1 = j - 1
      BY <1>0, <2>2
    <3>2. g[n + (j - n) - 1] = b[j - n] /\ b[j - n] \in Cells
      BY <3>1
    <3> QED
      BY <2>2, <3>1, <3>2
  <2> QED
    BY <2>1, <2>2
<1>3. \A j \in 1 .. l : g[j - 1] \in Cells
  BY <1>2
<1>4. t \in Seq(Cells) /\ Len(t) = l /\ \A j \in 1 .. l : t[j] = g[j - 1]
  BY <1>3
<1>5. /\ s \o b \in Seq(Cells) /\ Len(s \o b) = n + Len(b)
      /\ \A j \in 1 .. n + Len(b) : (s \o b)[j] = IF j <= n THEN s[j] ELSE b[j - n]
  BY <1>1, ConcatProperties
<1> HIDE DEF s, t
<1>6. ASSUME NEW j \in 1 .. l PROVE t[j] = (s \o b)[j]
  <2>1. (s \o b)[j] = IF j <= n THEN s[j] ELSE b[j - n]
    BY <1>5
  <2>2. j <= n => s[j] = f[j - 1]
    BY <1>1
  <2> QED
    BY <1>2, <1>4, <2>1, <2>2
<1>7. t = s \o b
  BY <1>4, <1>5, <1>6, SeqEqual
<1> QED
  BY <1>1, <1>4, <1>7 DEF s, t, Upto

\* The text as a sequence, and the bytes of a message.
LEMMA TextSeq ==
  ASSUME TextInv
  PROVE  /\ Text \in Seq(Cells) /\ Len(Text) = trace_idx /\ trace_idx \in Nat
         /\ \A j \in 0 .. trace_idx - 1 : rsc_trace_buf[j] \in Cells
<1>1. trace_idx \in 0 .. Region - 1 /\ rsc_trace_buf \in [0 .. Region - 1 -> Cells]
  BY DEF TextInv, QInv, IInv, TypeOK
<1>2. trace_idx \in Nat /\ \A j \in 0 .. trace_idx - 1 : rsc_trace_buf[j] \in Cells
  BY <1>1, Facts
<1>3. \A j \in 1 .. trace_idx : rsc_trace_buf[j - 1] \in Cells
  BY <1>2
<1> QED
  BY <1>2, <1>3 DEF Text, Upto

LEMMA BytesSeq ==
  ASSUME NEW m \in Msgs, NEW L \in Nat,
         L = IF m \in Reports THEN ReportLen(m) ELSE Written(m)
  PROVE  /\ Bytes(m) \in Seq(Cells) /\ Len(Bytes(m)) = L
         /\ \A j \in 1 .. L : Bytes(m)[j] = <<m, j>>
<1>1. \A j \in 1 .. L : <<m, j>> \in Cells
  BY DEF Cells
<1> QED
  BY <1>1 DEF Bytes

\* WriteStore adds the whole message.
LEMMA StoreAdds ==
  ASSUME TextInv, TextInv', WriteStore("main")
  PROVE  \E m \in Writes : Log!Add(m)
<1> DEFINE m == msg["main"]
           w == Written(m)
<1>1. /\ NoFault /\ pc["main"] = "store" /\ reg["main"] = trace_idx
      /\ UNCHANGED rsc_trace_buf
  BY DEF WriteStore, At, Running, Above, NoFault, TextInv, QInv, Quiet, Current
<1>2. m \in Writes /\ m \in Msgs \ Reports
  BY <1>1, KindAssumption DEF TextInv, QInv, IInv, Roles, Writers, Msgs
<1>3. w \in Nat /\ trace_idx' = trace_idx + w /\ trace_idx + w < Size
  BY <1>1, <1>2, Facts DEF WriteStore, TextInv, LogInv, Roomy
<1>4. Bytes(m) \in Seq(Cells) /\ Len(Bytes(m)) = w /\ \A j \in 1 .. w : Bytes(m)[j] = <<m, j>>
  BY <1>2, <1>3, BytesSeq
<1>5. \A j \in 1 .. w : rsc_trace_buf'[trace_idx + j - 1] = Bytes(m)[j]
  <2> SUFFICES ASSUME NEW j \in 1 .. w PROVE rsc_trace_buf[trace_idx + j - 1] = <<m, j>>
    BY <1>1, <1>4
  <2>1. Stored = w
    BY <1>1 DEF Stored
  <2>2. j - 1 \in 0 .. Stored - 1
    BY <1>3, <2>1
  <2>3. rsc_trace_buf[trace_idx + (j - 1)] = <<m, (j - 1) + 1>>
    BY <1>1, <2>2 DEF TextInv, LogInv, MainBytes
  <2>4. trace_idx + (j - 1) = trace_idx + j - 1 /\ (j - 1) + 1 = j
    BY TextSeq
  <2> QED
    BY <2>3, <2>4
<1> HIDE DEF m, w
<1>6. Text' = Text \o Bytes(m)
  <2> DEFINE b == Bytes(m)
  <2>1. trace_idx' \in Nat /\ trace_idx' = trace_idx + Len(b) /\ trace_idx \in Nat
    BY <1>3, <1>4, TextSeq
  <2>2. \A j \in 0 .. trace_idx - 1 :
          rsc_trace_buf[j] \in Cells /\ rsc_trace_buf'[j] = rsc_trace_buf[j]
    BY <1>1, TextSeq
  <2>3. \A j \in 1 .. Len(b) : rsc_trace_buf'[trace_idx + j - 1] = b[j]
    BY <1>4, <1>5
  <2>4. b \in Seq(Cells)
    BY <1>4
  <2> HIDE DEF b
  <2>5. Stores(rsc_trace_buf, trace_idx, rsc_trace_buf', trace_idx', b)
    BY <2>1, <2>2, <2>3, <2>4 DEF Stores
  <2>6. Upto(rsc_trace_buf', trace_idx') = Upto(rsc_trace_buf, trace_idx) \o b
    BY <2>5, Extended
  <2> QED
    BY <2>6 DEF Text, Upto, b
<1>7. Len(Text) + Len(Bytes(m)) < Size
  BY <1>3, <1>4, TextSeq
<1> QED
  BY <1>2, <1>6, <1>7 DEF Log!Add, Text, Upto

\* FaultStore adds the report, cut as TraceLog allows.
LEMMA StoreReports ==
  ASSUME TextInv, NEW c \in Handlers, FaultStore(c)
  PROVE  \E m \in Reports : Log!Report(m)
<1> DEFINE m == msg[c]
           L == ReportLen(m)
           B == Bytes(m)
<1>0. FaultStep(c) /\ trace_idx' = reg[c] /\ UNCHANGED rsc_trace_buf /\ pc[c] = "fstore"
  BY DEF FaultStep, FaultStore, At
<1>1. /\ m \in Reports /\ m \in Msgs /\ L \in Nat /\ reg[c] \in Nat /\ k[c] \in Nat
      /\ trace_idx \in Nat /\ Size \in Nat /\ Margin \in Nat \ {0}
      /\ FmtLen[m] \in Nat \ {0} /\ Running(c)
  BY <1>0, ReportFacts DEF Msgs
<1>2. L > 0
  <2>1. Words[m] \in Nat /\ WordLen \in Nat
    BY <1>1, LenAssumption
  <2>2. Words[m] * WordLen \in Nat
    BY <2>1
  <2> QED
    BY <1>1, <2>1, <2>2 DEF ReportLen
<1>3. PICK n \in Nat : Shape(c, n) /\ Over(c, n)
  BY <1>0, <1>1 DEF TextInv, LogInv, HandlerBytes
<1>4. PICK e \in {L, L + 1} :
        /\ n < e
        /\ reg[c] = trace_idx + n + (IF e = L THEN 1 ELSE 0)
        /\ e = L => rsc_trace_buf[trace_idx + n] = <<m, L>>
  <2>1. CASE reg[c] = trace_idx + n
    <3>1. n < L + 1
      BY <1>1, <1>3 DEF Shape
    <3> QED
      BY <1>1, <2>1, <3>1
  <2>2. CASE reg[c] # trace_idx + n
    <3>1. n < L /\ reg[c] = trace_idx + n + 1 /\ rsc_trace_buf[trace_idx + n] = <<m, L>>
      BY <1>1, <1>3, <2>2 DEF Shape
    <3> QED
      BY <1>1, <3>1
  <2> QED
    BY <2>1, <2>2
<1>5. B \in Seq(Cells) /\ Len(B) = L /\ \A j \in 1 .. L : B[j] = <<m, j>>
  BY <1>1, BytesSeq
<1>6. n <= L /\ reg[c] < Size
  BY <1>1, <1>3 DEF Shape
<1>7. trace_idx + L + Margin < Size => n = L
  BY <1>1, <1>3, <1>6 DEF Shape, Over
<1>8. trace_idx + 1 < Size => n > 0
  BY <1>1, <1>2, <1>3 DEF Shape, Over, WordStart
<1> HIDE DEF m, L, B
<1>9. /\ SubSeq(B, 1, n) \in Seq(Cells) /\ Len(SubSeq(B, 1, n)) = n
      /\ \A j \in 1 .. n : SubSeq(B, 1, n)[j] = B[j]
  BY <1>1, <1>5, <1>6
<1>10. \A j \in 1 .. n : rsc_trace_buf[trace_idx + j - 1] = SubSeq(B, 1, n)[j]
  <2> SUFFICES ASSUME NEW j \in 1 .. n
               PROVE  rsc_trace_buf[trace_idx + j - 1] = SubSeq(B, 1, n)[j]
    OBVIOUS
  <2>1. j - 1 \in 0 .. n - 1
    OBVIOUS
  <2>2. rsc_trace_buf[trace_idx + (j - 1)] = <<m, (j - 1) + 1>>
    BY <1>3, <2>1 DEF Shape, m
  <2>3. trace_idx + (j - 1) = trace_idx + j - 1 /\ (j - 1) + 1 = j
    BY <1>1
  <2>4. SubSeq(B, 1, n)[j] = B[j] /\ j \in 1 .. L
    BY <1>1, <1>6, <1>9 DEF L, m
  <2> QED
    BY <1>5, <2>2, <2>3, <2>4
<1> DEFINE T == Upto(rsc_trace_buf, trace_idx + n)
<1> DEFINE P == SubSeq(B, 1, n)
<1>11. T \in Seq(Cells) /\ T = Text \o P
  <2>0. P = SubSeq(B, 1, n)
    OBVIOUS
  <2> HIDE DEF P
  <2>1. /\ P \in Seq(Cells) /\ Len(P) = n
        /\ \A j \in 1 .. Len(P) : rsc_trace_buf[trace_idx + j - 1] = P[j]
    BY <1>9, <1>10, <2>0
  <2>4. trace_idx + n \in Nat /\ trace_idx + n = trace_idx + Len(P)
    BY <1>1, <2>1
  <2>2. Stores(rsc_trace_buf, trace_idx, rsc_trace_buf, trace_idx + n, P)
    BY <1>1, <2>1, <2>4, TextSeq DEF Stores
  <2>3. T \in Seq(Cells) /\ T = Upto(rsc_trace_buf, trace_idx) \o P
    BY <2>2, Extended
  <2> QED
    BY <2>3 DEF Text, Upto
<1>12. Text' = Upto(rsc_trace_buf, reg[c])
  BY <1>0 DEF Text, Upto
<1>13. Text' = T \o SubSeq(B, e, L)
  <2>1. CASE e = L
    <3>0. L \in 1 .. L
      BY <1>1, <1>2 DEF L, m
    <3> DEFINE Z == SubSeq(B, L, L)
    <3>1. B[L] = <<m, L>> /\ B[L] \in Cells /\ L \in Int
      BY <1>5, <3>0
    <3>2. Z \in Seq(Cells) /\ Len(Z) = 1 /\ Z[1] = <<m, L>>
      <4>1. \A j \in L .. L : B[j] \in Cells
        BY <3>1
      <4>2. /\ Z \in Seq(Cells) /\ Len(Z) = L - L + 1
            /\ \A j \in 1 .. L - L + 1 : Z[j] = B[L + j - 1]
        BY <3>1, <4>1, SubSeqProperties
      <4>3. L - L + 1 = 1 /\ L + 1 - 1 = L
        BY <3>1
      <4> QED
        BY <3>1, <4>2, <4>3
    <3> HIDE DEF Z
    <3>3. \A j \in 1 .. Len(Z) : rsc_trace_buf[trace_idx + n + j - 1] = Z[j]
      <4>1. trace_idx + n + 1 - 1 = trace_idx + n
        BY <1>1
      <4>2. rsc_trace_buf[trace_idx + n + 1 - 1] = Z[1]
        BY <1>4, <2>1, <3>2, <4>1
      <4> QED
        BY <3>2, <4>2
    <3>4. \A j \in 0 .. trace_idx + n - 1 : rsc_trace_buf[j] \in Cells
      <4>1. \A j \in 1 .. trace_idx + n : T[j] \in Cells
        BY <1>1, <1>11 DEF Upto
      <4> SUFFICES ASSUME NEW j \in 0 .. trace_idx + n - 1 PROVE rsc_trace_buf[j] \in Cells
        OBVIOUS
      <4>2. j + 1 \in 1 .. trace_idx + n /\ (j + 1) - 1 = j
        BY <1>1
      <4>3. T[j + 1] = rsc_trace_buf[j]
        BY <4>2 DEF Upto
      <4> QED
        BY <4>1, <4>2, <4>3
    <3>5. Upto(rsc_trace_buf, reg[c]) = T \o Z
      <4>1. trace_idx + n \in Nat /\ reg[c] = (trace_idx + n) + Len(Z)
        BY <1>1, <1>4, <2>1, <3>2
      <4>2. Stores(rsc_trace_buf, trace_idx + n, rsc_trace_buf, reg[c], Z)
        BY <1>1, <3>2, <3>3, <3>4, <4>1 DEF Stores
      <4> QED
        BY <4>2, Extended
    <3> QED
      BY <1>12, <2>1, <3>5 DEF Z
  <2>2. CASE e = L + 1
    <3>1. reg[c] = trace_idx + n
      BY <1>1, <1>4, <2>2 DEF L, m
    <3>2. SubSeq(B, L + 1, L) = << >>
      BY <1>1 DEF L, m
    <3>3. T \o << >> = T
      BY <1>11, ConcatEmptySeq
    <3> QED
      BY <1>12, <2>2, <3>1, <3>2, <3>3
  <2> QED
    BY <2>1, <2>2
<1>14. Text' = Text \o SubSeq(B, 1, n) \o SubSeq(B, e, L)
  BY <1>11, <1>13
<1>15. Len(Text') < Size
  <2>1. Len(Text') = reg[c]
    BY <1>1, <1>12 DEF Upto
  <2> QED
    BY <1>6, <2>1
<1>16. /\ n \in 0 .. Len(B) /\ e \in {Len(B), Len(B) + 1} /\ n < e
       /\ Len(Text) + Len(B) + Margin < Size => n = Len(B)
       /\ Len(Text) + 1 < Size => n > 0
       /\ Text' = Text \o SubSeq(B, 1, n) \o SubSeq(B, e, Len(B))
       /\ Len(Text') < Size
  BY <1>1, <1>4, <1>5, <1>6, <1>7, <1>8, <1>14, <1>15, TextSeq DEF L, m
<1> QED
  BY <1>1, <1>16 DEF Log!Report, Text, Upto, B, m

\* Every other step leaves the text alone or starts a new one.
LEMMA StepText ==
  ASSUME TextInv, [Next]_vars, IrqMsgs = {}
  PROVE  Log!Next \/ UNCHANGED Text
<1>0. TextInv'
  BY NextText
<1>1. ASSUME trace_idx' = 0 PROVE Log!Next
  <2>1. Text' = << >>
    BY <1>1 DEF Text, Upto
  <2> QED
    BY <2>1 DEF Log!Next, Log!Clear, Text, Upto
<1>2. ASSUME trace_idx' = trace_idx,
             \A j \in 0 .. trace_idx - 1 : rsc_trace_buf'[j] = rsc_trace_buf[j]
      PROVE  UNCHANGED Text
  <2>1. trace_idx \in Nat
    BY TextSeq
  <2>2. \A j \in 1 .. trace_idx : rsc_trace_buf'[j - 1] = rsc_trace_buf[j - 1]
    BY <1>2, <2>1
  <2> QED
    BY <1>2, <2>2 DEF Text, Upto
<1>3. CASE trace_idx' # 0 /\ trace_idx' = trace_idx
  BY <1>2, <1>3, StepGrows DEF TextInv
<1>4. CASE trace_idx' # 0 /\ trace_idx' # trace_idx
  <2>1. \/ \E c \in Writers : WriteStore(c)
        \/ \E c \in Handlers : FaultStore(c)
    BY <1>4
    DEF Next, copyResourceTable, EnableIRQ, ResetIdx, ResetNul, MainLog, IrqLog,
        trace_write, WriteStep, WriteAddr, WriteByte, WriteLoad, WriteNulAddr, WriteNul,
        FaultEntry, MemManageFault, HardEntry, FaultStep, FaultLoad, FaultByte,
        FaultSkip, FaultNul, Restart, vars, Handlers
  <2>2. \A c \in Writers : WriteStore(c) => c = "main"
    BY DEF Writers, WriteStore, At, TextInv, QInv, Quiet, Current
  <2> QED
    BY <1>0, <2>1, <2>2, StoreAdds, StoreReports DEF Log!Next
<1> QED
  BY <1>1, <1>3, <1>4

\* Refinement: under every interleaving of main, faults and restarts, what lies
\* below trace_idx is the text of a trace log.
THEOREM ImplementsTraceLog == ASSUME IrqMsgs = {} PROVE Spec => IsTraceLog
<1>1. Init => Log!Init
  <2> SUFFICES ASSUME Init PROVE Text = << >>
    BY DEF Log!Init
  <2>1. trace_idx = 0
    BY DEF Init
  <2> QED
    BY <2>1 DEF Text
<1>2. TextInv /\ [Next]_vars => [Log!Next]_Text
  BY StepText
<1> QED
  BY <1>1, <1>2, TextInductive, PTL DEF Spec, IsTraceLog, Log!Spec
=============================================================================
