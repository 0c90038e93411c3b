------------------------ MODULE MC_LinkedListAllocator ------------------------
(* The instance of LinkedListAllocator that TLC checks: a heap of eight    *)
(* units (64 bytes) at a page-aligned start, requests of one to three      *)
(* units aligned to one, two or four units.  Four-unit alignment over a    *)
(* heap split at odd units makes alloc skip a gap before the block.        *)
EXTENDS LinkedListAllocator

MC_HeapStart == 0
MC_HeapSize == 8
MC_Sizes == 1..3
MC_Aligns == {1, 2, 4}
=============================================================================
