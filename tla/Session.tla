------------------------------- MODULE Session -------------------------------
(***************************************************************************)
(* What a session of the firmware promises to whoever started it: after a  *)
(* start-up that may fail it runs its inferences one by one, and it either *)
(* completes, after all of them, or fails for good.  Only a restart begins *)
(* a new session.                                                          *)
(***************************************************************************)
EXTENDS Naturals

CONSTANT NumInferences

VARIABLES phase,  \* "starting", "running", "complete" or "failed"
          done    \* inferences that succeeded

vars == <<phase, done>>

Init == phase = "starting" /\ done = 0

Begin    == phase = "starting" /\ phase' = "running" /\ UNCHANGED done
Infer    == phase = "running" /\ done < NumInferences
            /\ done' = done + 1 /\ UNCHANGED phase
Complete == phase = "running" /\ done = NumInferences
            /\ phase' = "complete" /\ UNCHANGED done
Fail     == phase \in {"starting", "running"} /\ phase' = "failed" /\ UNCHANGED done
Restart  == phase' = "starting" /\ done' = 0

Next == Begin \/ Infer \/ Complete \/ Fail \/ Restart

Spec == Init /\ [][Next]_vars
=============================================================================
