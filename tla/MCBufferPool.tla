---------------------------- MODULE MCBufferPool ----------------------------
(* Small instances of BufferPool for TLC. *)
EXTENDS BufferPool, TLC

CONSTANTS t1, t2, p, q, r, e1, e2, e3, s1, s2, s3

Symmetry ==
  Permutations(Threads) \cup Permutations(Tags)
    \cup Permutations(Entries) \cup Permutations(Slots)
=============================================================================
