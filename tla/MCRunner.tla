------------------------------- MODULE MCRunner ------------------------------
(* Two inferences of two NPU jobs each, a scratch pool an inference may fill   *)
(* or find too small, bundled programs and plain ones.                       *)
EXTENDS Runner
=============================================================================
