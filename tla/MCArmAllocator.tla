---------------------------- MODULE MCArmAllocator ----------------------------
(* The two counters of a pool in an address space of 64 bytes, for words and *)
(* double words.                                                             *)
EXTENDS ArmAllocator

\* "keep used_ in sync": the bytes used_ counts cover the part of the pool that
\* is in use, so free_size() counts none that has been given away.
UsedInSync == used_ >= cur_ - Base
=============================================================================
