------------------------------ MODULE MC_PidAllocator ------------------------------
(* PidAllocator with a two-bit usize, so that the wrap of fetch_add, which *)
(* takes 2^64 - 1 calls at the real width, is reached in four calls; the   *)
(* bound allows one call past the wrap.                                    *)
EXTENDS PidAllocator

MC_Width == 2
MC_MaxCalls == 2 ^ MC_Width + 1
=============================================================================
