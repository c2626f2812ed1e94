------------------------------- MODULE MCSystem -------------------------------
(* Two inferences of two NPU jobs each, a method pool that is large enough for *)
(* everything or too small for the debug buffer or the base64 buffer.        *)
EXTENDS System
=============================================================================
