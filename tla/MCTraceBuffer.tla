---------------------------- MODULE MCTraceBuffer ----------------------------
(* Small instances of TraceBuffer: six bytes of trace, messages of two and   *)
(* three bytes (one cut by the format buffer), reports of two to six bytes.  *)
EXTENDS TraceBuffer

CONSTANTS a, b, i, abort, usage, bus, hard

Lengths == [m \in Msgs |->
              CASE m = b -> 5 [] m = bus -> 1 [] OTHER -> 2]
StackWords == [m \in Reports |-> IF m = bus THEN 2 ELSE 0]
=============================================================================
