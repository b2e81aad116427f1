----------------------------- MODULE MCBufferPool -----------------------------
(* BufferPool for TLC: interchangeable holders and buffers. *)
EXTENDS BufferPool, TLC

PoolSymmetry == Permutations(Holders) \cup Permutations(Buffers)
===============================================================================
