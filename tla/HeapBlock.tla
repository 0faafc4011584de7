----------------------------- MODULE HeapBlock ------------------------------
(***************************************************************************)
(* The layout of a heap block (kernel/memory/heap_alloc.cpp): a header,    *)
(* the bitmap of its entries, padding up to the alignment, and the entries *)
(* that are handed out. Sizes are in bytes and small enough not to wrap a  *)
(* 64-bit product, as every size the kernel asks for is.                   *)
(***************************************************************************)
EXTENDS Integers

CONSTANTS
  HEADER,             (* sizeof(HeapBlock): 16 *)
  ALLOC_ALIGN,        (* bytes of an entry: 16 *)
  ENTRIES_PER_BYTE,   (* entries_per_byte: 4 *)
  PAGE_SIZE,          (* 4096 *)
  BLOCK_ALLOC_SIZE    (* bytes of the blocks that are usually allocated: 16 pages *)

ASSUME LayoutAssumption ==
  /\ {HEADER, ALLOC_ALIGN, ENTRIES_PER_BYTE, PAGE_SIZE, BLOCK_ALLOC_SIZE} \subseteq Nat \ {0}
  /\ PAGE_SIZE % ALLOC_ALIGN = 0
  /\ BLOCK_ALLOC_SIZE % PAGE_SIZE = 0
  /\ HEADER <= PAGE_SIZE /\ ENTRIES_PER_BYTE > 1

DivCeil(a, b) == a \div b + (IF a % b = 0 THEN 0 ELSE 1)

(* entries(): how many entries the bitmap of a block describes. *)
Entries(block_size) ==
  ((block_size - HEADER) * ENTRIES_PER_BYTE) \div (ENTRIES_PER_BYTE * ALLOC_ALIGN + 1)

EntriesSize(block_size) == DivCeil(Entries(block_size), ENTRIES_PER_BYTE)

MetadataSize(block_size) ==
  DivCeil(HEADER + EntriesSize(block_size), ALLOC_ALIGN) * ALLOC_ALIGN

(* Mutant: no room for the header or the bitmap. *)
BlockSizeForPayload(alloc_size) == DivCeil(alloc_size, PAGE_SIZE) * PAGE_SIZE

(* calculate_block_size_for_big_alloc *)
BlockSizeForBigAlloc(alloc_size) ==
  LET mult == ENTRIES_PER_BYTE * ALLOC_ALIGN
  IN  DivCeil((HEADER * (mult - 1) + alloc_size * mult) \div (mult - 1), PAGE_SIZE) * PAGE_SIZE

(* The size of the block heap_allocate adds when no block has room. *)
NewBlockSize(alloc_size) ==
  LET big == BlockSizeForBigAlloc(alloc_size)
  IN  IF BLOCK_ALLOC_SIZE < big THEN big ELSE BLOCK_ALLOC_SIZE

-----------------------------------------------------------------------------
(* The entries a block describes lie behind its metadata and inside the    *)
(* block (entries, metadata_size): an allocation never overlaps the bitmap *)
(* or the next block.                                                      *)
EntriesFitBlock(block_size) ==
  MetadataSize(block_size) + Entries(block_size) * ALLOC_ALIGN <= block_size

(* A block allocated for a request that no block had room for can serve    *)
(* it: try_allocate passes its size test and finds enough entries, so the  *)
(* second try_allocate of heap_allocate does not fail.                     *)
NewBlockServes(alloc_size) ==
  /\ alloc_size < NewBlockSize(alloc_size)
  /\ DivCeil(alloc_size, ALLOC_ALIGN) <= Entries(NewBlockSize(alloc_size))
=============================================================================
