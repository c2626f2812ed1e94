------------------------------ MODULE TraceBuffer -----------------------------
(***************************************************************************)
(* The remoteproc trace buffer of the CM33 firmware: rsc_trace_buf and     *)
(* trace_idx, written by trace_write from the main program and from the    *)
(* NPU interrupt handler, by the three fault handlers, cleared by          *)
(* copyResourceTable at boot and by main before the inferences, and read   *)
(* at any moment by Linux as a NUL-terminated string.                      *)
(*                                                                         *)
(* Every access to the volatile trace_idx and every byte stored is a step  *)
(* of its own, in source order.  Four contexts share the core, each        *)
(* preempting the ones before it: "main" < "irq" < "fault" < "hard".       *)
(* A byte is <<m, k>>, the k-th byte of message m: what the text says is   *)
(* left out, where it lands and what it overwrites is kept.                *)
(***************************************************************************)
EXTENDS Naturals, Sequences, FiniteSets

CONSTANTS
  Size,       \* RSC_TRACE_BUF_SIZE, 0xC00 in the source
  Region,     \* bytes from the buffer to the end of m_rsc_tbl (0xE00)
  MainMsgs,   \* messages main and the code it calls log
  AbortMsg,   \* the message of et_pal_abort
  IrqMsgs,    \* messages the driver's interrupt handler logs; often empty
  FaultMsgs,  \* reports of UsageFault_Handler and BusFault_Handler_C
  HardMsg,    \* report of HardFault_Handler
  FmtLen,     \* the formatted length of each message
  LogBuf,     \* the char buf[256] messages are formatted in
  Words,      \* number of stack words at the end of each report
  WordLen,    \* bytes of a stack word, separator included (9)
  Margin,     \* the stack dump stops Margin bytes before the end (12)
  NUL

Writes  == MainMsgs \cup IrqMsgs \cup {AbortMsg}
Reports == FaultMsgs \cup {HardMsg}
Msgs    == Writes \cup Reports

ASSUME SizeAssumption == Size \in Nat \ {0} /\ Region \in Nat /\ LogBuf \in Nat
ASSUME LenAssumption ==
  /\ FmtLen \in [Msgs -> Nat \ {0}]
  /\ Words \in [Reports -> Nat]
  /\ WordLen \in Nat \ {0} /\ Margin \in Nat \ {0}
ASSUME MarginAssumption == WordLen <= Margin
ASSUME RegionAssumption == LogBuf > 1 /\ Region + 1 >= Size + LogBuf
ASSUME KindAssumption ==
  /\ Writes \cap Reports = {}
  /\ NUL \notin Msgs \cup (Msgs \X Nat)
  /\ AbortMsg \notin MainMsgs \cup IrqMsgs

\* vsnprintf into buf, then (size_t)n < sizeof(buf) ? n : sizeof(buf) - 1.
Written(m) == IF FmtLen[m] < LogBuf THEN FmtLen[m] ELSE LogBuf - 1

\* Bytes of a report: the part before the stack words, then the words, then
\* the newline that ends the dump.
ReportLen(m) == FmtLen[m] + Words[m] * WordLen + (IF Words[m] > 0 THEN 1 ELSE 0)

Bytes(m) ==
  [k \in 1..(IF m \in Reports THEN ReportLen(m) ELSE Written(m)) |-> <<m, k>>]

Ctx == {"main", "irq", "fault", "hard"}
Writers == {"main", "irq"}

VARIABLES
  trace_idx,
  rsc_trace_buf,  \* the buffer and the rest of its region
  pc,             \* where each context is; "idle" when it is not writing
  msg,            \* the message a context writes, NUL when it is idle
  reg,            \* the value of trace_idx a context holds in a register
  k,              \* bytes of the message already stored
  phase,          \* "boot", "init", "reset" (between the two stores), "run"
  nvic            \* the NPU interrupt is enabled

vars == <<trace_idx, rsc_trace_buf, pc, msg, reg, k, phase, nvic>>

Init ==
  /\ trace_idx = 0
  /\ rsc_trace_buf = [i \in 0..Region-1 |-> NUL]
  /\ pc = [c \in Ctx |-> "idle"]
  /\ msg = [c \in Ctx |-> NUL]
  /\ reg = [c \in Ctx |-> 0]
  /\ k = [c \in Ctx |-> 0]
  /\ phase = "boot"
  /\ nvic = FALSE

\* The core executes the highest context that is not idle, main otherwise.
Above(c) == CASE c = "main"  -> {"irq", "fault", "hard"}
              [] c = "irq"   -> {"fault", "hard"}
              [] c = "fault" -> {"hard"}
              [] c = "hard"  -> {}
Running(c) == \A d \in Above(c) : pc[d] = "idle"

At(c, l) == Running(c) /\ pc[c] = l
Goto(c, l) == pc' = [pc EXCEPT ![c] = l]
Put(i, b) == rsc_trace_buf' = [rsc_trace_buf EXCEPT ![i] = b]

\* Where a write of m ends: et_pal_abort waits for events forever after it.
Return(m) == IF m = AbortMsg THEN "spin" ELSE "idle"

-----------------------------------------------------------------------------
(* trace_write *)

\* Mutants of the length check: none, and one that forgets the length.
Fits_Unchecked(m) == TRUE
Fits_IndexOnly(m) == trace_idx < Size

Fits(m) == trace_idx + Written(m) < Size

\* The call, with the length check that reads trace_idx for the first time.
trace_write(c, m) ==
  /\ At(c, "idle")
  /\ Goto(c, IF Fits(m) THEN "addr" ELSE Return(m))
  /\ msg' = [msg EXCEPT ![c] = IF Fits(m) THEN m ELSE NUL]
  /\ UNCHANGED <<trace_idx, rsc_trace_buf, reg, k, phase, nvic>>

\* &rsc_trace_buf[trace_idx]
WriteAddr(c) ==
  /\ At(c, "addr")
  /\ Goto(c, "copy")
  /\ reg' = [reg EXCEPT ![c] = trace_idx]
  /\ k' = [k EXCEPT ![c] = 0]
  /\ UNCHANGED <<trace_idx, rsc_trace_buf, msg, phase, nvic>>

\* One byte of the memcpy.
WriteByte(c) ==
  /\ At(c, "copy")
  /\ Put(reg[c] + k[c], <<msg[c], k[c] + 1>>)
  /\ k' = [k EXCEPT ![c] = @ + 1]
  /\ Goto(c, IF k[c] + 1 = Written(msg[c]) THEN "load" ELSE "copy")
  /\ UNCHANGED <<trace_idx, msg, reg, phase, nvic>>

\* trace_idx += len reads trace_idx ...
WriteLoad(c) ==
  /\ At(c, "load")
  /\ Goto(c, "store")
  /\ reg' = [reg EXCEPT ![c] = trace_idx]
  /\ k' = [k EXCEPT ![c] = 0]
  /\ UNCHANGED <<trace_idx, rsc_trace_buf, msg, phase, nvic>>

\* Mutants: the index counts the NUL; it advances by vsnprintf's result.
WriteStore_CountsNul(c) ==
  /\ At(c, "store")
  /\ trace_idx' = reg[c] + Written(msg[c]) + 1
  /\ Goto(c, "nuladdr")
  /\ UNCHANGED <<rsc_trace_buf, msg, reg, k, phase, nvic>>
WriteStore_Unclamped(c) ==
  /\ At(c, "store")
  /\ trace_idx' = reg[c] + FmtLen[msg[c]]
  /\ Goto(c, "nuladdr")
  /\ UNCHANGED <<rsc_trace_buf, msg, reg, k, phase, nvic>>

\* ... and writes it back.
WriteStore(c) ==
  /\ At(c, "store")
  /\ trace_idx' = reg[c] + Written(msg[c])
  /\ Goto(c, "nuladdr")
  /\ UNCHANGED <<rsc_trace_buf, msg, reg, k, phase, nvic>>

\* rsc_trace_buf[trace_idx] = '\0' reads the index again, then stores.
WriteNulAddr(c) ==
  /\ At(c, "nuladdr")
  /\ Goto(c, "nul")
  /\ reg' = [reg EXCEPT ![c] = trace_idx]
  /\ UNCHANGED <<trace_idx, rsc_trace_buf, msg, k, phase, nvic>>

WriteNul(c) ==
  /\ At(c, "nul")
  /\ Put(reg[c], NUL)
  /\ Goto(c, Return(msg[c]))
  /\ msg' = [msg EXCEPT ![c] = NUL]
  /\ reg' = [reg EXCEPT ![c] = 0]
  /\ UNCHANGED <<trace_idx, k, phase, nvic>>

WriteStep(c) == \/ WriteAddr(c) \/ WriteByte(c) \/ WriteLoad(c)
                \/ WriteStore(c) \/ WriteNulAddr(c) \/ WriteNul(c)

-----------------------------------------------------------------------------
(* The fault handlers: they append byte by byte up to the end of the       *)
(* buffer, terminate the string, publish the index and never return.       *)

Booted == phase # "boot"

\* A fault is taken from any instruction of main or of the interrupt handler.
FaultEntry(m) ==
  /\ Booted
  /\ \A d \in {"fault", "hard"} : pc[d] = "idle"
  /\ Goto("fault", "fload")
  /\ msg' = [msg EXCEPT !["fault"] = m]
  /\ UNCHANGED <<trace_idx, rsc_trace_buf, reg, k, phase, nvic>>

\* SHCSR enables MemManage faults too, but the firmware has no handler for
\* them: the default one of the startup code loops without a report.
MemManageFault ==
  /\ Booted
  /\ \A d \in {"fault", "hard"} : pc[d] = "idle"
  /\ Goto("fault", "silent")
  /\ UNCHANGED <<trace_idx, rsc_trace_buf, msg, reg, k, phase, nvic>>

\* A fault inside a fault handler escalates; any other may arrive here too.
HardEntry ==
  /\ Booted
  /\ pc["hard"] = "idle" /\ pc["fault"] \notin {"spin", "silent"}
  /\ Goto("hard", "fload")
  /\ msg' = [msg EXCEPT !["hard"] = HardMsg]
  /\ UNCHANGED <<trace_idx, rsc_trace_buf, reg, k, phase, nvic>>

\* Mutant: a report that starts the trace anew.
FaultLoad_FromZero(c) ==
  /\ At(c, "fload")
  /\ Goto(c, "fcopy")
  /\ k' = [k EXCEPT ![c] = 0]
  /\ UNCHANGED <<trace_idx, rsc_trace_buf, msg, reg, phase, nvic>>

\* uint32_t idx = trace_idx
FaultLoad(c) ==
  /\ At(c, "fload")
  /\ Goto(c, "fcopy")
  /\ reg' = [reg EXCEPT ![c] = trace_idx]
  /\ k' = [k EXCEPT ![c] = 0]
  /\ UNCHANGED <<trace_idx, rsc_trace_buf, msg, phase, nvic>>

\* Byte n (counting from 0) of report m begins a stack word.
WordStart(m, n) == /\ FmtLen[m] <= n /\ n < FmtLen[m] + Words[m] * WordLen
                   /\ (n - FmtLen[m]) % WordLen = 0

\* Mutant: no margin before a stack word.
Room_NoMargin(m, n, i) == i + 1 < Size

\* The loop conditions idx < SIZE - 1, and idx < SIZE - 12 before a word.
Room(m, n, i) == IF WordStart(m, n) THEN i + Margin < Size ELSE i + 1 < Size

FaultByte(c) ==
  /\ At(c, "fcopy")
  /\ k[c] < ReportLen(msg[c]) /\ Room(msg[c], k[c], reg[c])
  /\ Put(reg[c], <<msg[c], k[c] + 1>>)
  /\ reg' = [reg EXCEPT ![c] = @ + 1]
  /\ k' = [k EXCEPT ![c] = @ + 1]
  /\ UNCHANGED <<trace_idx, pc, msg, phase, nvic>>

\* No room for another word: the dump goes on with its final newline.
FaultSkip(c) ==
  /\ At(c, "fcopy")
  /\ k[c] < ReportLen(msg[c])
  /\ WordStart(msg[c], k[c]) /\ ~Room(msg[c], k[c], reg[c])
  /\ k' = [k EXCEPT ![c] = ReportLen(msg[c]) - 1]
  /\ UNCHANGED <<trace_idx, rsc_trace_buf, pc, msg, reg, phase, nvic>>

\* The loops are over: rsc_trace_buf[idx] = '\0'.
FaultNul(c) ==
  /\ At(c, "fcopy")
  /\ \/ k[c] = ReportLen(msg[c])
     \/ ~WordStart(msg[c], k[c]) /\ ~Room(msg[c], k[c], reg[c])
  /\ Put(reg[c], NUL)
  /\ Goto(c, "fstore")
  /\ UNCHANGED <<trace_idx, msg, reg, k, phase, nvic>>

\* trace_idx = idx; while (1) { __NOP(); }
FaultStore(c) ==
  /\ At(c, "fstore")
  /\ trace_idx' = reg[c]
  /\ Goto(c, "spin")
  /\ UNCHANGED <<rsc_trace_buf, msg, reg, k, phase, nvic>>

FaultStep(c) == FaultLoad(c) \/ FaultByte(c) \/ FaultSkip(c) \/ FaultNul(c)
                \/ FaultStore(c)

-----------------------------------------------------------------------------
(* main, the interrupt and Linux *)

MainIdle == At("main", "idle")

\* Mutant: only the first byte of the trace is cleared.
copyResourceTable_FirstByte ==
  /\ MainIdle /\ phase = "boot"
  /\ Put(0, NUL)
  /\ phase' = "init"
  /\ UNCHANGED <<trace_idx, pc, msg, reg, k, nvic>>

copyResourceTable ==
  /\ MainIdle /\ phase = "boot"
  /\ rsc_trace_buf' = [i \in 0..Region-1 |->
                         IF i < Size THEN NUL ELSE rsc_trace_buf[i]]
  /\ phase' = "init"
  /\ UNCHANGED <<trace_idx, pc, msg, reg, k, nvic>>

\* NVIC_EnableIRQ(ML_IRQn), once main has called ethosu_init.
EnableIRQ ==
  /\ MainIdle /\ phase = "init" /\ ~nvic
  /\ nvic' = TRUE
  /\ UNCHANGED <<trace_idx, rsc_trace_buf, pc, msg, reg, k, phase>>

\* trace_idx = 0, after runner_init ...
ResetIdx ==
  /\ MainIdle /\ phase = "init" /\ nvic
  /\ trace_idx' = 0
  /\ phase' = "reset"
  /\ UNCHANGED <<rsc_trace_buf, pc, msg, reg, k, nvic>>

\* Mutant: only the index is reset.
ResetNul_Forgotten ==
  /\ MainIdle /\ phase = "reset"
  /\ phase' = "run"
  /\ UNCHANGED <<trace_idx, rsc_trace_buf, pc, msg, reg, k, nvic>>

\* ... and rsc_trace_buf[0] = '\0', two stores an interrupt may separate.
ResetNul ==
  /\ MainIdle /\ phase = "reset"
  /\ Put(0, NUL)
  /\ phase' = "run"
  /\ UNCHANGED <<trace_idx, pc, msg, reg, k, nvic>>

\* main or a function it calls logs; et_pal_abort logs and stays.
MainLog == /\ phase \in {"init", "run"}
           /\ \E m \in MainMsgs \cup {AbortMsg} : trace_write("main", m)

\* The NPU interrupt handler logs between two instructions of main.
IrqLog == nvic /\ \E m \in IrqMsgs : trace_write("irq", m)

\* Linux stops and starts the remote processor: the startup code clears
\* trace_idx, the trace buffer in DTCM keeps its bytes until main runs.
Restart ==
  /\ trace_idx' = 0
  /\ pc' = [c \in Ctx |-> "idle"]
  /\ phase' = "boot"
  /\ nvic' = FALSE
  /\ msg' = [c \in Ctx |-> NUL]
  /\ reg' = [c \in Ctx |-> 0]
  /\ k' = [c \in Ctx |-> 0]
  /\ UNCHANGED rsc_trace_buf

Next ==
  \/ copyResourceTable \/ EnableIRQ \/ ResetIdx \/ ResetNul
  \/ MainLog \/ IrqLog
  \/ \E c \in Writers : WriteStep(c)
  \/ \E m \in FaultMsgs : FaultEntry(m)
  \/ MemManageFault \/ HardEntry
  \/ \E c \in {"fault", "hard"} : FaultStep(c)
  \/ Restart

Spec == Init /\ [][Next]_vars

-----------------------------------------------------------------------------
(* Properties *)

Labels == {"idle", "addr", "copy", "load", "store", "nuladdr", "nul",
           "fload", "fcopy", "fstore", "spin", "silent"}
Cells  == (Msgs \X (Nat \ {0})) \cup {NUL}

\* Types; trace_idx may pass Size when an interrupt logs, never the region.
TypeOK ==
  /\ trace_idx \in 0..Region-1
  /\ rsc_trace_buf \in [0..Region-1 -> Cells]
  /\ pc \in [Ctx -> Labels]
  /\ msg \in [Ctx -> Msgs \cup {NUL}]
  /\ reg \in [Ctx -> Nat]
  /\ k \in [Ctx -> Nat]
  /\ phase \in {"boot", "init", "reset", "run"}
  /\ nvic \in BOOLEAN

\* Whatever the interleaving of trace_write calls, no byte is stored outside
\* the m_rsc_tbl region: the length check may be stale when memcpy runs, but
\* by less than one formatted message.
StoresInRegion ==
  \A c \in Ctx : pc[c] \in {"copy", "fcopy", "nul"} =>
    reg[c] + (IF pc[c] = "copy" THEN k[c] ELSE 0) < Region

\* No write is under way: the last one returned, or a fault report is over.
Quiescent ==
  \/ \E c \in {"fault", "hard"} : pc[c] = "spin"
  \/ /\ \A c \in Ctx : pc[c] \in {"idle", "spin"}
     /\ phase \in {"init", "run"}

\* When no write is under way the string Linux reads ends at trace_idx: no
\* stale tail of the log before the reset, or of a write a fault cut short.
EndsAtIndex == Quiescent => rsc_trace_buf[trace_idx] = NUL

\* The string Linux reads holds the whole text: no NUL below trace_idx.  With
\* EndsAtIndex: between writes, Linux reads exactly the messages accepted.
TextUnbroken == \A i \in 0..trace_idx-1 : rsc_trace_buf[i] # NUL

\* Until main resets the trace, a byte above trace_idx is NUL or belongs to a
\* write that began and did not end: Linux never reads stale text at boot,
\* not even after a restart.
NoStaleAtBoot ==
  phase = "init" =>
    \A i \in trace_idx..Size-1 :
      \/ rsc_trace_buf[i] = NUL
      \/ \E c \in Ctx : pc[c] # "idle" /\ rsc_trace_buf[i][1] = msg[c]

\* BusFault_Handler_C never leaves half a stack word, however full the trace
\* was when the fault came.
WordsWhole ==
  \A i \in 0..trace_idx-1 :
    LET m == rsc_trace_buf[i][1]  n == rsc_trace_buf[i][2]
    IN  m \in Reports /\ WordStart(m, n - 1) =>
          \A j \in 0..WordLen-1 :
            i + j < trace_idx /\ rsc_trace_buf[i + j] = <<m, n + j>>

\* What has been accepted is never overwritten: the text below trace_idx stays
\* as it is until main, or a restart, starts a new one.
TextOnlyGrows ==
  [][\/ trace_idx' = 0
     \/ /\ trace_idx' >= trace_idx
        /\ \A i \in 0..trace_idx-1 : rsc_trace_buf'[i] = rsc_trace_buf[i]]_vars

\* What lies below trace_idx.
Text == [i \in 1..trace_idx |-> rsc_trace_buf[i - 1]]

\* The text below trace_idx is a trace log: whole messages added at once or
\* dropped, and fault reports that lose only what does not fit.
Log == INSTANCE TraceLog WITH text <- Text
IsTraceLog == Log!Spec
=============================================================================
