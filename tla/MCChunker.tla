----------------------------- MODULE MCChunker -----------------------------
(* Chunker over a 6-bit word: every size below half the modulus. *)
EXTENDS Chunker

SmallSizes == 0..32
SmallCounts == -1..5
\* 16 * 4 = 64 wraps to zero, 9 * 8 = 72 to eight, and 63 is the largest word.
SmallRequests ==
  ({1, 2, 3, 7, 16, 31, 32, 33, 63} \X {1}) \cup {<<16, 4>>, <<9, 8>>}

=============================================================================
