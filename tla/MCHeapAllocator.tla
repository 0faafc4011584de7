-------------------------- MODULE MCHeapAllocator ---------------------------
(***************************************************************************)
(* A small heap: pages of 32 bytes, entries of 4. An ordinary block is one *)
(* page with six entries; a request of 28 bytes needs a block of two pages *)
(* with fourteen entries.                                                  *)
(***************************************************************************)
EXTENDS HeapAllocator, TLC

Symmetry == Permutations(Owners)
=============================================================================
