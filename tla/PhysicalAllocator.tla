------------------------- MODULE PhysicalAllocator --------------------------
(***************************************************************************)
(* The physical page allocator of kernel/memory/physical_alloc.cpp: one    *)
(* bit per page of usable memory, kept in an array of 64-bit words that is *)
(* placed at the start of the first usable region that can hold it.        *)
(*                                                                         *)
(* Addresses are counted in pages. The bitmap is the set of the numbers of *)
(* its one bits. PageBitmap::get and math::set_bit shift an int, not a     *)
(* 64-bit value, by the number of the bit; the shift the compiler emits    *)
(* takes that number modulo 32 and the result is sign-extended, which is   *)
(* what ShiftedInt says, for any width.                                    *)
(***************************************************************************)
EXTENDS Integers, Sequences, FiniteSets

CONSTANTS
  Regions,    (* the bootloader's memory map, in its order *)
  ByteBits,   (* bits in a byte: 8 *)
  WordBits,   (* bits_per_element: 64 *)
  IntBits,    (* bits of the int that is shifted: 32 *)
  PageBytes   (* PAGE_SIZE: 4096 *)

VARIABLES
  bits,       (* the bitmap: the numbers of the bits that are one *)
  marked,     (* pages of its own the initialisation has marked so far *)
  status,     (* what the kernel is doing *)
  holders     (* history: how many callers hold each page *)

vars == <<bits, marked, status, holders>>

DivCeil(a, b) == a \div b + (IF a % b = 0 THEN 0 ELSE 1)

-----------------------------------------------------------------------------
(* The memory map. Usable pages are numbered in the order of the regions.  *)

RegionIds == 1 .. Len(Regions)

UsablePages(r) == IF Regions[r].usable THEN Regions[r].pages ELSE 0

(* The number of usable pages in the regions before the r-th. *)
FirstIndex[r \in 1 .. Len(Regions) + 1] ==
  IF r = 1 THEN 0 ELSE FirstIndex[r - 1] + UsablePages(r - 1)

PageCount == FirstIndex[Len(Regions) + 1]

Pages == 0 .. PageCount - 1

InRegion(addr, r) ==
  /\ Regions[r].usable
  /\ Regions[r].base <= addr
  /\ addr < Regions[r].base + Regions[r].pages

UsableAddresses ==
  UNION {Regions[r].base .. Regions[r].base + UsablePages(r) - 1 : r \in RegionIds}

(* The bit that stands for a page, as free_physical_page counts it. *)
PageIndex(addr) ==
  LET r == CHOOSE r \in RegionIds : InRegion(addr, r)
  IN  FirstIndex[r] + addr - Regions[r].base

(* The page a bit stands for, as allocate_physical_page counts it. *)
PageAddress(i) ==
  LET r == CHOOSE r \in RegionIds :
             /\ Regions[r].usable
             /\ FirstIndex[r] <= i
             /\ i < FirstIndex[r] + Regions[r].pages
  IN  Regions[r].base + i - FirstIndex[r]

-----------------------------------------------------------------------------
(* The bitmap array: its size in bytes, whole words, pages, and its place. *)

ArrayBytes == PageCount \div ByteBits
SpanWords == (ByteBits * ArrayBytes) \div WordBits
WordCount == DivCeil(PageCount, WordBits)
BitmapPages == DivCeil(ArrayBytes, PageBytes)

Fits(r) == Regions[r].usable /\ Regions[r].pages * PageBytes >= ArrayBytes

HomeRegions == {r \in RegionIds : Fits(r)}
HomeRegion == CHOOSE r \in HomeRegions : \A q \in HomeRegions : r <= q
SkippedPages == FirstIndex[HomeRegion]

(* The pages the first n steps of the marking loop stand for. *)
BitmapAddresses(n) == Regions[HomeRegion].base .. Regions[HomeRegion].base + n - 1

Bits == 0 .. WordCount * WordBits - 1

(* The bits of words past the end of the Span, which clear() does not reach. *)
UnclearedBits == SpanWords * WordBits .. WordCount * WordBits - 1

-----------------------------------------------------------------------------
(* Limine reports usable regions that are page aligned, do not overlap and *)
(* never hold page 0; the assumptions say what the counting relies on.     *)

ASSUME WidthAssumption ==
  /\ {ByteBits, WordBits, IntBits, PageBytes} \subseteq Nat \ {0}
  /\ WordBits = 2 * IntBits

ASSUME RegionAssumption ==
  /\ Regions \in Seq([base : Nat \ {0}, pages : Nat \ {0}, usable : BOOLEAN])
  /\ \A r, q \in RegionIds : r # q =>
       \/ Regions[r].base + Regions[r].pages <= Regions[q].base
       \/ Regions[q].base + Regions[q].pages <= Regions[r].base

(* Some region holds the array, or the boot stops; and the last word of    *)
(* the bitmap lies inside the pages that are marked for it.                *)
ASSUME HomeAssumption ==
  /\ HomeRegions # {}
  /\ WordCount * WordBits <= BitmapPages * PageBytes * ByteBits

-----------------------------------------------------------------------------
(* PageBitmap: get(index) and set(index, value). *)

WordOf(i) == i \div WordBits

(* The value int(1) << bit, as the bits of the word it is converted to: a  *)
(* one in the int's sign bit is copied into the upper half of the word.    *)
ShiftedInt(bit) ==
  LET s == bit % IntBits
  IN  IF s = IntBits - 1 THEN s .. WordBits - 1 ELSE {s}

(* The bits the mask of page i selects in the whole bitmap. *)
Mask(i) == {WordOf(i) * WordBits + b : b \in ShiftedInt(i % WordBits)}

(* Mutant: only get is given a mask of the word's width. *)
WideGet(bm, i) == i \in bm

Get(bm, i) == bm \cap Mask(i) # {}

(* set_bit clears with a mask of the word's width, and then ors the shifted int. *)
Set(bm, i, value) == (bm \ {i}) \cup (IF value THEN Mask(i) ELSE {})

-----------------------------------------------------------------------------
(* init_physical_allocator: clear() has zeroed the words of the Span, the  *)
(* rest holds whatever the memory held; then the loop marks the pages the  *)
(* bitmap itself occupies, one step of the loop at a time.                 *)

Init ==
  /\ \E garbage \in SUBSET UnclearedBits : bits = garbage
  /\ marked = 0
  /\ status = "marking"
  /\ holders = [a \in UsableAddresses |-> 0]

(* Mutant: the loop runs once too often. *)
MarkOneMore ==
  /\ status = "marking"
  /\ marked <= BitmapPages
  /\ bits' = Set(bits, marked + SkippedPages, TRUE)
  /\ marked' = marked + 1
  /\ UNCHANGED <<status, holders>>

MarkOwnPage ==
  /\ status = "marking"
  /\ marked < BitmapPages
  /\ bits' = Set(bits, marked + SkippedPages, TRUE)
  /\ marked' = marked + 1
  /\ UNCHANGED <<status, holders>>

FinishInit ==
  /\ status = "marking"
  /\ marked = BitmapPages
  /\ status' = "running"
  /\ UNCHANGED <<bits, marked, holders>>

(* allocate_physical_page: the first page in the order of the memory map   *)
(* whose bit reads as zero.                                                *)
FirstFree(i) ==
  /\ ~Get(bits, i)
  /\ \A j \in Pages : j < i => Get(bits, j)

AllocatePhysicalPage ==
  /\ status = "running"
  /\ \E i \in Pages :
       /\ FirstFree(i)
       /\ bits' = Set(bits, i, TRUE)
       /\ holders' = [holders EXCEPT ![PageAddress(i)] = @ + 1]
  /\ UNCHANGED <<marked, status>>

(* panic("Couldn't allocate a single page") *)
PanicNoPage ==
  /\ status = "running"
  /\ \A i \in Pages : Get(bits, i)
  /\ status' = "no_page"
  /\ UNCHANGED <<bits, marked, holders>>

(* Mutant: the pages of earlier regions are not counted. *)
FreeByOffset(addr) ==
  /\ status = "running"
  /\ holders[addr] > 0
  /\ \E r \in RegionIds :
       /\ InRegion(addr, r)
       /\ bits' = Set(bits, addr - Regions[r].base, FALSE)
  /\ holders' = [holders EXCEPT ![addr] = @ - 1]
  /\ UNCHANGED <<marked, status>>

(* Mutant: the bit is never cleared. *)
FreeNothing(addr) ==
  /\ status = "running"
  /\ holders[addr] > 0
  /\ holders' = [holders EXCEPT ![addr] = @ - 1]
  /\ UNCHANGED <<bits, marked, status>>

(* free_physical_page, called with a page the caller holds. *)
FreePhysicalPage(addr) ==
  /\ status = "running"
  /\ holders[addr] > 0
  /\ bits' = Set(bits, PageIndex(addr), FALSE)
  /\ holders' = [holders EXCEPT ![addr] = @ - 1]
  /\ UNCHANGED <<marked, status>>

(* free_physical_page, called with an address that is not page aligned or  *)
(* that no usable region contains.                                         *)
PanicBadFree ==
  /\ status = "running"
  /\ status' = "bad_free"
  /\ UNCHANGED <<bits, marked, holders>>

Next ==
  \/ MarkOwnPage
  \/ FinishInit
  \/ AllocatePhysicalPage
  \/ PanicNoPage
  \/ \E addr \in UsableAddresses : FreePhysicalPage(addr)
  \/ PanicBadFree

Spec == Init /\ [][Next]_vars

-----------------------------------------------------------------------------
(* Properties. *)

TypeOK ==
  /\ bits \subseteq Bits
  /\ marked \in 0 .. BitmapPages
  /\ status \in {"marking", "running", "no_page", "bad_free"}
  /\ holders \in [UsableAddresses -> Nat]

(* The page that shares its flag with page i and is searched first: pages  *)
(* whose numbers differ by half a word select the same bits.               *)
Low(i) == (WordOf(i) * WordBits) + ((i % WordBits) % IntBits)

(* The numbers of the pages that belong to somebody: a caller, or the      *)
(* bitmap itself as far as it is marked.                                   *)
Held == {PageIndex(a) : a \in {b \in UsableAddresses : holders[b] > 0}}
Own == {PageIndex(a) : a \in BitmapAddresses(marked)}

(* A page that belongs to somebody reads as used, although freeing another *)
(* page clears one bit of a word several flags share (PageBitmap::set,     *)
(* free_physical_page).                                                    *)
OwnedPagesMarked == \A i \in Held \cup Own : Get(bits, i)

(* No page leaks while flags are shared: in the words clear() has zeroed,  *)
(* a bit below an int's sign bit is one only on behalf of an owner, and so *)
(* the panic of allocate_physical_page never comes while such a page is    *)
(* idle. The sign bit is left out, which stays one when its page is freed, *)
(* because the other bits of its mask do; and so are pages of the upper    *)
(* halves: see OneBitPerPage.                                              *)
UsedPagesHaveOwner ==
  \A i \in Pages :
    /\ WordOf(i) < SpanWords
    /\ i % WordBits < IntBits - 1
    /\ Get(bits, i)
    => \E o \in Held \cup Own : Low(o) = i

(* The comment on PageBitmap (physical_alloc.cpp:16) gives each page "a    *)
(* single bit": in the words of the Span a page reads as used only when it *)
(* belongs to somebody itself.                                             *)
OneBitPerPage ==
  \A i \in Pages : WordOf(i) < SpanWords /\ Get(bits, i) => i \in Held \cup Own

(* The allocator never hands out a page twice, nor a page of its bitmap,   *)
(* and a page goes back only once: it implements the page pool.            *)
Pool == INSTANCE PagePool WITH
  Pages <- UsableAddresses,
  Reserved <- BitmapAddresses(BitmapPages),
  running <- status \in {"marking", "running"}

ImplementsPagePool == Pool!Spec
=============================================================================
