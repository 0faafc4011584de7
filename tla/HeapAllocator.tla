--------------------------- MODULE HeapAllocator ----------------------------
(***************************************************************************)
(* The kernel heap of kernel/memory/heap_alloc.cpp: a list of blocks, each *)
(* with two bits per entry that say whether the entry is free, starts an   *)
(* allocation or continues one. Blocks come from allocate_pages, which     *)
(* hands out one rising range of addresses to every part of the kernel and *)
(* stops the kernel when the physical pages run out.                       *)
(***************************************************************************)
EXTENDS HeapBlock, Sequences

CONSTANTS
  Owners,     (* the parts of the kernel that hold one pointer each *)
  Sizes,      (* the sizes they ask for, in bytes *)
  PoolPages   (* pages that can be handed out before the memory is used up *)

VARIABLES
  blocks,     (* the list from first_block on *)
  nextPage,   (* the next page allocate_pages returns, page 0 being null's *)
  status,     (* running, or why the kernel has stopped *)
  held        (* history: the pointer each owner holds, and how much it asked for *)

vars == <<blocks, nextPage, status, held>>

NoRange == [ptr |-> 0, size |-> 0]

(* The first block has its pages, or the boot stops.                       *)
ASSUME RequestAssumption ==
  /\ Sizes \subseteq Nat \ {0}
  /\ PoolPages \in Nat
  /\ BLOCK_ALLOC_SIZE \div PAGE_SIZE <= PoolPages

-----------------------------------------------------------------------------
(* One block. *)

EntryIds(b) == 0 .. Entries(b.size) - 1

(* allocate_block: the memset leaves every entry free. *)
NewBlock(page, size) ==
  [addr |-> page * PAGE_SIZE,
   size |-> size,
   allocated |-> [i \in 0 .. Entries(size) - 1 |-> "free"]]

Contains(b, ptr) == b.addr < ptr /\ ptr < b.addr + b.size

IndexToPtr(b, i) == b.addr + MetadataSize(b.size) + i * ALLOC_ALIGN

PtrToIndex(b, ptr) == (ptr - (b.addr + MetadataSize(b.size))) \div ALLOC_ALIGN

(* The places where try_allocate would find size_entries free entries. *)
FreeRuns(b, size) ==
  LET n == DivCeil(size, ALLOC_ALIGN)
  IN  {i \in EntryIds(b) :
         /\ i + n <= Entries(b.size)
         /\ \A j \in i .. i + n - 1 : b.allocated[j] = "free"}

HasRoom(b, size) == size < b.size /\ FreeRuns(b, size) # {}

FirstRun(b, size) == CHOOSE i \in FreeRuns(b, size) : \A j \in FreeRuns(b, size) : i <= j

(* Mutant: the entries after the first are not marked. *)
TakeStartOnly(b, size) ==
  [b EXCEPT !.allocated[FirstRun(b, size)] = "start"]

(* try_allocate, when the block has room. *)
Take(b, size) ==
  LET first == FirstRun(b, size)
      last == first + DivCeil(size, ALLOC_ALIGN) - 1
  IN  [b EXCEPT !.allocated =
         [i \in EntryIds(b) |->
            IF i = first THEN "start" ELSE IF i \in first + 1 .. last THEN "cont" ELSE @[i]]]

(* Mutant: continues to the next free entry. *)
GiveThrough(b, index) ==
  LET freed == {i \in EntryIds(b) : i >= index /\ \A j \in index .. i : b.allocated[j] # "free"}
  IN  [b EXCEPT !.allocated = [i \in EntryIds(b) |-> IF i \in freed THEN "free" ELSE @[i]]]

(* free_or_panic, once index is the start of an allocation: it and the     *)
(* continuation entries that follow it become free.                        *)
Give(b, index) ==
  LET freed == {i \in EntryIds(b) :
                  /\ i >= index
                  /\ \A j \in index + 1 .. i : b.allocated[j] = "cont"}
  IN  [b EXCEPT !.allocated = [i \in EntryIds(b) |-> IF i \in freed THEN "free" ELSE @[i]]]

-----------------------------------------------------------------------------
Init ==
  /\ blocks = <<NewBlock(1, BLOCK_ALLOC_SIZE)>>
  /\ nextPage = 1 + BLOCK_ALLOC_SIZE \div PAGE_SIZE
  /\ status = "running"
  /\ held = [o \in Owners |-> NoRange]

(* heap_allocate, served by the first block that has room. (A request of   *)
(* size 0 returns nullptr at once and changes nothing.)                    *)
HeapAllocate(o, size) ==
  /\ status = "running"
  /\ held[o] = NoRange
  /\ \E k \in DOMAIN blocks :
       /\ HasRoom(blocks[k], size)
       /\ \A j \in 1 .. k - 1 : ~HasRoom(blocks[j], size)
       /\ blocks' = [blocks EXCEPT ![k] = Take(@, size)]
       /\ held' = [held EXCEPT ![o] =
            [ptr |-> IndexToPtr(blocks[k], FirstRun(blocks[k], size)), size |-> size]]
  /\ UNCHANGED <<nextPage, status>>

NoBlockHasRoom(size) == \A k \in DOMAIN blocks : ~HasRoom(blocks[k], size)

PagesFor(size) == NewBlockSize(size) \div PAGE_SIZE

(* Mutant: the new block is taken whether or not there are pages for it. *)
GrowUnchecked(o, size) ==
  /\ status = "running"
  /\ held[o] = NoRange
  /\ NoBlockHasRoom(size)
  /\ nextPage' = nextPage + PagesFor(size)
  /\ LET b == NewBlock(nextPage, NewBlockSize(size))
     IN  /\ blocks' = Append(blocks, Take(b, size))
         /\ held' = [held EXCEPT ![o] =
              [ptr |-> IndexToPtr(b, FirstRun(b, size)), size |-> size]]
  /\ UNCHANGED status

(* heap_allocate, when no block has room: a new block ends the list, and   *)
(* whatever try_allocate makes of it is returned.                          *)
HeapAllocateInNewBlock(o, size) ==
  /\ status = "running"
  /\ held[o] = NoRange
  /\ NoBlockHasRoom(size)
  /\ nextPage + PagesFor(size) - 1 <= PoolPages
  /\ nextPage' = nextPage + PagesFor(size)
  /\ LET b == NewBlock(nextPage, NewBlockSize(size))
     IN  IF HasRoom(b, size)
         THEN /\ blocks' = Append(blocks, Take(b, size))
              /\ held' = [held EXCEPT ![o] =
                   [ptr |-> IndexToPtr(b, FirstRun(b, size)), size |-> size]]
         ELSE blocks' = Append(blocks, b) /\ UNCHANGED held
  /\ UNCHANGED status

(* heap_allocate, when no block has room and allocate_pages panics: the    *)
(* physical pages are used up before the block has all of its own.         *)
HeapOutOfMemory(o, size) ==
  /\ status = "running"
  /\ held[o] = NoRange
  /\ NoBlockHasRoom(size)
  /\ nextPage + PagesFor(size) - 1 > PoolPages
  /\ status' = "out_of_memory"
  /\ UNCHANGED <<blocks, nextPage, held>>

FirstContaining(ptr, k) ==
  /\ Contains(blocks[k], ptr)
  /\ \A j \in 1 .. k - 1 : ~Contains(blocks[j], ptr)

StartsAllocation(ptr, k) ==
  blocks[k].allocated[PtrToIndex(blocks[k], ptr)] = "start"

(* heap_free. Whoever held the pointer holds nothing afterwards. *)
HeapFree(ptr) ==
  /\ status = "running"
  /\ \E k \in DOMAIN blocks :
       /\ FirstContaining(ptr, k)
       /\ StartsAllocation(ptr, k)
       /\ blocks' = [blocks EXCEPT ![k] = Give(@, PtrToIndex(@, ptr))]
  /\ held' = [o \in Owners |-> IF held[o].ptr = ptr THEN NoRange ELSE held[o]]
  /\ UNCHANGED <<nextPage, status>>

(* heap_free, of a pointer in no block or one that starts no allocation. *)
PanicInvalidFree(ptr) ==
  /\ status = "running"
  /\ \A k \in DOMAIN blocks : FirstContaining(ptr, k) => ~StartsAllocation(ptr, k)
  /\ status' = "invalid_free"
  /\ UNCHANGED <<blocks, nextPage, held>>

(* The pointers that may be freed: those of the payloads, held or not, and *)
(* one that no block contains. (heap_free does nothing for null.)          *)
FreedPointers ==
  (UNION {{IndexToPtr(blocks[k], i) : i \in EntryIds(blocks[k])} : k \in DOMAIN blocks})
    \cup {nextPage * PAGE_SIZE}

(* Another part of the kernel takes a page, so that blocks need not touch. *)
OtherAllocatePage ==
  /\ status = "running"
  /\ nextPage <= PoolPages
  /\ nextPage' = nextPage + 1
  /\ UNCHANGED <<blocks, status, held>>

Next ==
  \/ \E o \in Owners, size \in Sizes :
       \/ HeapAllocate(o, size)
       \/ HeapAllocateInNewBlock(o, size)
       \/ HeapOutOfMemory(o, size)
  \/ \E ptr \in FreedPointers : HeapFree(ptr) \/ PanicInvalidFree(ptr)
  \/ OtherAllocatePage

Spec == Init /\ [][Next]_vars

-----------------------------------------------------------------------------
(* Properties. *)

Pointers == 0 .. (PoolPages + 1) * PAGE_SIZE

BlockTypeOK(b) ==
  /\ b.addr \in Pointers /\ b.size \in Pointers
  /\ b.allocated \in [EntryIds(b) -> {"free", "start", "cont"}]

TypeOK ==
  /\ \A k \in DOMAIN blocks : BlockTypeOK(blocks[k])
  /\ nextPage \in 0 .. PoolPages + 1
  /\ status \in {"running", "out_of_memory", "invalid_free"}
  /\ held \in [Owners -> [ptr : Pointers, size : Sizes \cup {0}]]

Holds(o) == held[o] # NoRange

(* The bitmaps tell exactly what is held: an entry starts an allocation    *)
(* when somebody holds its address, continues one when it lies inside a    *)
(* held range, and is free otherwise; so freeing never stops early, never  *)
(* runs into a neighbour, and nothing leaks (set_entry in try_allocate and *)
(* free_or_panic).                                                         *)
BitmapMatchesHeld ==
  \A k \in DOMAIN blocks : \A i \in EntryIds(blocks[k]) :
    LET ptr == IndexToPtr(blocks[k], i)
    IN  blocks[k].allocated[i] =
          IF \E o \in Owners : Holds(o) /\ held[o].ptr = ptr THEN "start"
          ELSE IF \E o \in Owners : /\ Holds(o)
                                   /\ held[o].ptr < ptr
                                   /\ ptr < held[o].ptr + held[o].size
          THEN "cont" ELSE "free"

(* heap_allocate never returns null after it has added a block: the new    *)
(* block always serves the request it was sized for                        *)
(* (calculate_block_size_for_big_alloc, heap_allocate).                    *)
NewBlockIsEnough ==
  [][\A o \in Owners, size \in Sizes :
       HeapAllocateInNewBlock(o, size) => held'[o] # NoRange]_vars

(* The bytes of a block that may be handed out: the header and the bitmap  *)
(* stay the block's own.                                                   *)
Space(b) == b.addr + HEADER + EntriesSize(b.size) .. b.addr + b.size - 1

Heap == INSTANCE DisjointHeap WITH
  Alignment <- ALLOC_ALIGN,
  space <- UNION {Space(blocks[k]) : k \in DOMAIN blocks},
  running <- status = "running"

(* No two owners ever share a byte of the heap, nor anyone a byte of the   *)
(* blocks' own metadata: heap_allocate and heap_free implement the         *)
(* abstract heap.                                                          *)
ImplementsDisjointHeap == Heap!Spec
=============================================================================
