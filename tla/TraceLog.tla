------------------------------- MODULE TraceLog -------------------------------
(***************************************************************************)
(* What the remoteproc trace buffer promises, without saying how: a text   *)
(* made of whole messages, to which a message is added at once or not at   *)
(* all, which is emptied when the firmware starts and when the inference   *)
(* begins, and whose last entry may be a fault report cut short by the end *)
(* of the buffer.  Bytes are pairs <<message, position>>.                  *)
(***************************************************************************)
EXTENDS Naturals, Sequences

CONSTANTS Size,         \* capacity in bytes, the terminating NUL included
          Writes,       \* the messages trace_write is called with
          Reports,      \* the reports the fault handlers write
          Margin,       \* what a report leaves free when it skips stack words
          Bytes(_)      \* the text of a message or report

VARIABLE text

Init == text = << >>

\* trace_write: a message that does not fit is dropped as a whole, silently.
Add(m) == /\ Len(text) + Len(Bytes(m)) < Size
          /\ text' = text \o Bytes(m)

\* A fault handler adds as many leading bytes of its report as fit, and the last
\* byte after them when what it skips is the rest of the stack words.
Report(m) ==
  LET L == Len(Bytes(m))
  IN  \E n \in 0..L, e \in {L, L + 1} :
        /\ n < e
        /\ Len(text) + L + Margin < Size => n = L
        /\ Len(text) + 1 < Size => n > 0
        /\ text' = text \o SubSeq(Bytes(m), 1, n) \o SubSeq(Bytes(m), e, L)
        /\ Len(text') < Size

Clear == text' = << >>

Next == \/ \E m \in Writes : Add(m)
        \/ \E m \in Reports : Report(m)
        \/ Clear

Spec == Init /\ [][Next]_text
=============================================================================
