--------------------------- MODULE MCPlannedBuffers --------------------------
(* Up to three buffers of zero to a few bytes, of sizes that fill the pool   *)
(* exactly, whose sum wraps around or that a 32-bit size_t truncates.        *)
EXTENDS PlannedBuffers, SequencesExt

FileSizes == {0, 3, 8, 12, 19, 250, 264}

\* Sums of 2^32 and more are in the model when the wrapped sum leads to the
\* method pool (see README, bounds).
Lists ==
  {s \in SeqOf(FileSizes, 3) :
     LET sum == FoldLeft(LAMBDA t, x : t + (x % M), 0, s)
     IN  sum < M \/ sum % M <= PoolSize \div 2}
=============================================================================
