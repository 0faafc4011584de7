------------------------ MODULE HeapAllocatorProofs -------------------------
(***************************************************************************)
(* The kernel heap hands out no byte twice and its bitmaps tell exactly    *)
(* what is held, for every set of owners and sizes and every layout.       *)
(*                                                                         *)
(* The argument is about entries, not addresses: every pointer held is the *)
(* address of one entry of one block (Placed), the entries of two owners   *)
(* lie apart, and a bit pair of the bitmap says what lies on its entry.    *)
(* Blocks take pages in rising order, so an address belongs to one block,  *)
(* and the multiples of the alignment in it to one entry. First comes that *)
(* the layout of a block is sound for every size, and that the block added *)
(* for a request serves it with the numbers of the source.                 *)
(***************************************************************************)
EXTENDS HeapAllocator, DataFacts

-----------------------------------------------------------------------------
(* The layout of one block. *)

LEMMA Numbers ==
  /\ HEADER \in Nat \ {0} /\ ALLOC_ALIGN \in Nat \ {0}
  /\ ENTRIES_PER_BYTE \in Nat \ {0} /\ PAGE_SIZE \in Nat \ {0}
  /\ BLOCK_ALLOC_SIZE \in Nat \ {0}
  /\ HEADER <= PAGE_SIZE /\ ENTRIES_PER_BYTE > 1
  BY LayoutAssumption

LEMMA CeilFacts ==
  ASSUME NEW a \in Nat, NEW n \in Nat \ {0}
  PROVE  /\ DivCeil(a, n) \in Nat
         /\ a <= DivCeil(a, n) * n
         /\ DivCeil(a, n) * n < a + n
         /\ a > 0 => DivCeil(a, n) > 0 /\ (DivCeil(a, n) - 1) * n < a
  <1> DEFINE q == a \div n
             r == a % n
  <1>1. q \in Nat /\ r \in 0 .. n - 1 /\ a = (q * n) + r
    BY DivMod
  <1>2. DivCeil(a, n) = q + (IF r = 0 THEN 0 ELSE 1)
    BY DEF DivCeil
  <1> HIDE DEF q, r
  <1>3. q * n \in Nat /\ (q + 1) * n = (q * n) + n
    BY <1>1, SMT
  <1>4. CASE r = 0
    <2>1. DivCeil(a, n) = q /\ a = q * n
      BY <1>1, <1>2, <1>3, <1>4
    <2>2. a > 0 => q > 0
      BY <1>1, <2>1, SMT
    <2>3. q > 0 => (q - 1) * n < q * n
      BY <1>1, SMT
    <2>4. q * n < a + n
      BY <2>1
    <2> QED  BY <1>1, <1>3, <2>1, <2>2, <2>3, <2>4
  <1>5. CASE r # 0
    <2>1. DivCeil(a, n) = q + 1
      BY <1>1, <1>2, <1>5
    <2>2. (q + 1) - 1 = q /\ q + 1 \in Nat /\ q + 1 > 0
      BY <1>1
    <2>3. a <= (q + 1) * n /\ q * n < a /\ (q + 1) * n < a + n
      BY <1>1, <1>3, <1>5
    <2> QED  BY <2>1, <2>2, <2>3
  <1> QED  BY <1>4, <1>5

-----------------------------------------------------------------------------
(* The layout of a block, for every layout the assumptions allow. *)

LEMMA BlockFacts ==
  ASSUME NEW p \in Nat \ {0}
  PROVE  LET s == p * PAGE_SIZE
         IN  /\ s \in Nat /\ s >= PAGE_SIZE
             /\ Entries(s) \in Nat /\ EntriesSize(s) \in Nat
             /\ MetadataSize(s) \in Nat
             /\ HEADER + EntriesSize(s) <= MetadataSize(s)
             /\ \E m \in Nat : MetadataSize(s) = m * ALLOC_ALIGN
             /\ \E q \in Nat : s = q * ALLOC_ALIGN
             /\ MetadataSize(s) + (Entries(s) * ALLOC_ALIGN) <= s
  <1> DEFINE s == p * PAGE_SIZE
             A == ALLOC_ALIGN
             E == ENTRIES_PER_BYTE
             d == (E * A) + 1
             x == (s - HEADER) * E
             e == Entries(s)
             es == EntriesSize(s)
             m == DivCeil(HEADER + es, A)
  <1>1. A \in Nat \ {0} /\ E \in Nat \ {0} /\ HEADER \in Nat /\ PAGE_SIZE \in Nat
    BY Numbers
  <1>2. s \in Nat /\ s >= PAGE_SIZE /\ s - HEADER \in Nat
    <2>1. s \in Nat /\ s >= 1 * PAGE_SIZE
      BY <1>1, Products
    <2> HIDE DEF s
    <2> QED  BY <1>1, <2>1, Numbers
  <1>3. \E q \in Nat : s = q * A
    <2>1. PAGE_SIZE = (PAGE_SIZE \div A) * A + (PAGE_SIZE % A) /\ PAGE_SIZE \div A \in Nat
      BY <1>1, DivMod
    <2>2. PAGE_SIZE % A = 0
      BY LayoutAssumption
    <2>3. PICK k \in Nat : PAGE_SIZE = k * A
      <3> DEFINE k == PAGE_SIZE \div A
      <3>1. k \in Nat /\ PAGE_SIZE = (k * A) + 0
        BY <2>1, <2>2
      <3> HIDE DEF k
      <3>2. PAGE_SIZE = k * A
        BY <1>1, <3>1, Products
      <3> QED  BY <3>1, <3>2
    <2>4. s = (p * k) * A /\ p * k \in Nat
      BY <1>1, <2>3, Products
    <2> QED  BY <2>4
  <1>4. x \in Nat /\ d \in Nat \ {0} /\ E * A \in Nat
    <2>1. x \in Nat /\ E * A \in Nat
      <3> HIDE DEF s
      <3> QED  BY <1>1, <1>2, Products
    <2> HIDE DEF x
    <2> QED  BY <2>1
  <1>5. e \in Nat /\ e * d <= x
    <2>1. e = x \div d
      BY DEF Entries
    <2> HIDE DEF e, x, d
    <2>2. x \div d \in Nat /\ x % d \in 0 .. d - 1 /\ x = ((x \div d) * d) + (x % d)
      BY <1>4, DivMod
    <2>3. (x \div d) * d \in Nat
      BY <1>4, <2>2, Products
    <2> QED  BY <1>4, <2>1, <2>2, <2>3
  <1>6. es \in Nat /\ es * E < e + E
    <2>1. es = DivCeil(e, E)
      BY DEF EntriesSize
    <2> HIDE DEF e, es
    <2> QED  BY <1>1, <1>5, <2>1, CeilFacts
  <1>7. m \in Nat /\ HEADER + es <= m * A /\ m * A < (HEADER + es) + A
    <2>1. HEADER + es \in Nat
      <3> HIDE DEF es
      <3> QED  BY <1>1, <1>6
    <2> QED  BY <1>1, <2>1, CeilFacts
  <1>8. MetadataSize(s) = m * A
    BY DEF MetadataSize
  <1> HIDE DEF m, es, e, x
  <1>9. (m * A) + (e * A) <= s
    <2>1. PICK q \in Nat : s = q * A
      BY <1>3
    <2>2. (m * A) + (e * A) = (m + e) * A /\ m + e \in Nat /\ m * A \in Nat /\ e * A \in Nat
      BY <1>1, <1>5, <1>7, Products
    <2>3. ASSUME q < m + e
          PROVE  FALSE
      <3> HIDE DEF s
      <3>1. s + A <= (m * A) + (e * A)
        BY <1>1, <2>1, <2>2, <2>3, Products
      <3>2. s + 1 <= HEADER + es + (e * A)
        BY <1>1, <1>2, <1>6, <1>7, <2>2, <3>1
      <3> DEFINE y == e * A
      <3>3. y \in Nat /\ s + 1 <= HEADER + es + y
        BY <2>2, <3>2
      <3>4. y * E = e * (E * A)
        BY <1>1, <1>5, SMT
      <3>5. e * d = (y * E) + e
        BY <1>1, <1>4, <1>5, <3>4, SMT
      <3> HIDE DEF y, d
      <3>6. (s + 1) * E <= (HEADER + es + y) * E
        BY <1>1, <1>2, <1>6, <3>3, Products
      <3>7. (s + 1) * E = (s * E) + E
        BY <1>1, <1>2, SMT
      <3>8. (HEADER + es + y) * E = (HEADER * E) + (es * E) + (y * E)
        BY <1>1, <1>6, <3>3, SMT
      <3>9. x = (s * E) - (HEADER * E)
        BY <1>1, <1>2, SMT DEF x
      <3>10. s * E \in Nat /\ HEADER * E \in Nat /\ es * E \in Nat /\ y * E \in Nat
        BY <1>1, <1>2, <1>6, <3>3, Products
      <3> DEFINE sE == s * E
                 hE == HEADER * E
                 esE == es * E
                 yE == y * E
      <3>11. /\ sE \in Nat /\ hE \in Nat /\ esE \in Nat /\ yE \in Nat
             /\ sE + E <= hE + esE + yE /\ esE < e + E /\ yE + e <= sE - hE
        BY <1>5, <1>6, <3>5, <3>6, <3>7, <3>8, <3>9, <3>10
      <3> HIDE DEF sE, hE, esE, yE
      <3> QED  BY <1>1, <1>5, <3>11
    <2>4. m + e <= q
      BY <2>1, <2>2, <2>3
    <2> QED  BY <1>1, <2>1, <2>2, <2>4, Products
  <1>10. EntriesSize(s) = es /\ Entries(s) = e
    BY DEF es, e
  <1> HIDE DEF s
  <1>11. /\ s \in Nat /\ s >= PAGE_SIZE
         /\ Entries(s) \in Nat /\ EntriesSize(s) \in Nat
         /\ MetadataSize(s) \in Nat
         /\ HEADER + EntriesSize(s) <= MetadataSize(s)
         /\ \E k \in Nat : MetadataSize(s) = k * ALLOC_ALIGN
         /\ MetadataSize(s) + (Entries(s) * ALLOC_ALIGN) <= s
    <2>1. m * A \in Nat
      BY <1>1, <1>7, Products
    <2> QED  BY <1>1, <1>2, <1>5, <1>6, <1>7, <1>8, <1>9, <1>10, <2>1
  <1> QED  BY <1>3, <1>11, Zenon DEF s

(* Every block of at least one page holds its header, its bitmap and all   *)
(* the entries the bitmap describes, whatever the numbers of the layout    *)
(* (entries, metadata_size).                                               *)
THEOREM EntriesAlwaysFit ==
  ASSUME NEW pages \in Nat \ {0}
  PROVE  EntriesFitBlock(pages * PAGE_SIZE)
  BY BlockFacts DEF EntriesFitBlock

-----------------------------------------------------------------------------
(* The numbers of the source. *)

SourceLayout ==
  /\ HEADER = 16
  /\ ALLOC_ALIGN = 16
  /\ ENTRIES_PER_BYTE = 4
  /\ PAGE_SIZE = 4096
  /\ BLOCK_ALLOC_SIZE = 65536

(* div_ceil rounds up, and by less than one unit. *)
LEMMA DivCeilFacts ==
  ASSUME NEW a \in Nat, NEW n \in {4, 16, 4096}
  PROVE  /\ DivCeil(a, n) \in Nat
         /\ a <= DivCeil(a, n) * n
         /\ DivCeil(a, n) * n <= a + n - 1
  <1>1. CASE n = 4
    BY <1>1, SMT DEF DivCeil
  <1>2. CASE n = 16
    BY <1>2, SMT DEF DivCeil
  <1>3. CASE n = 4096
    BY <1>3, SMT DEF DivCeil
  <1> QED  BY <1>1, <1>2, <1>3

(* The block that heap_allocate adds for a request no block had room for   *)
(* can always serve it (calculate_block_size_for_big_alloc).               *)
THEOREM NewBlockAlwaysServes ==
  ASSUME SourceLayout, NEW n \in Nat \ {0}
  PROVE  NewBlockServes(n)
  <1> DEFINE need == (16 * 63 + n * 64) \div 63
             k == DivCeil(need, 4096)
             big == k * 4096
             size == NewBlockSize(n)
             e == Entries(size)
             c == DivCeil(n, 16)
  <1>1. need \in Nat /\ need * 63 + 62 >= 1008 + n * 64
    BY SMT
  <1>2. k \in Nat /\ need <= k * 4096
    <2> HIDE DEF need
    <2> QED  BY <1>1, DivCeilFacts
  <1>3. BlockSizeForBigAlloc(n) = big
    BY DEF SourceLayout, BlockSizeForBigAlloc
  <1>4. size \in Nat /\ size >= need /\ size >= 65536
    <2>1. size = IF 65536 < big THEN big ELSE 65536
      BY <1>3 DEF SourceLayout, NewBlockSize
    <2> HIDE DEF size, need, k
    <2> QED  BY <1>1, <1>2, <2>1, SMT
  <1>5. \E j \in Nat : size = 4096 * j
    <2>1. size = IF 65536 < big THEN big ELSE 65536
      BY <1>3 DEF SourceLayout, NewBlockSize
    <2>2. big = 4096 * k /\ 65536 = 4096 * 16
      BY <1>2, SMT
    <2> HIDE DEF size, k, big
    <2> QED  BY <1>2, <2>1, <2>2
  <1>6. e = ((size - 16) * 4) \div 65
    BY DEF SourceLayout, Entries
  <1>7. e \in Nat /\ (size - 16) * 4 <= e * 65 + 64
    <2> HIDE DEF size, e
    <2> QED  BY <1>4, <1>6, SMT
  <1>8. c \in Nat /\ n <= c * 16 /\ c * 16 <= n + 15
    <2>1. c \in Nat /\ n <= c * 16 /\ c * 16 <= n + 16 - 1
      BY DivCeilFacts
    <2> HIDE DEF c
    <2> QED  BY <2>1, SMT
  <1>9. n < size /\ c <= e
    <2> HIDE DEF size, e, c, need
    <2> QED  BY <1>1, <1>4, <1>5, <1>7, <1>8, SMT
  <1> QED  BY <1>9 DEF NewBlockServes, SourceLayout

-----------------------------------------------------------------------------
(* The list of blocks. *)

(* The entries a size takes.                                               *)
Count(size) == DivCeil(size, ALLOC_ALIGN)

Marks == {"free", "start", "cont"}
BlockRecords == [addr : Nat, size : Nat, allocated : UNION {[0 .. n - 1 -> Marks] : n \in Nat}]

-----------------------------------------------------------------------------
(* The inductive invariant. *)

(* A block is made of whole pages and has a mark for every entry.          *)
BlockOK(b) ==
  /\ b \in BlockRecords
  /\ \E page \in Nat \ {0} : b.addr = page * PAGE_SIZE
  /\ \E pages \in Nat \ {0} : b.size = pages * PAGE_SIZE
  /\ b.allocated \in [EntryIds(b) -> Marks]

(* Blocks lie one behind the other, before the next page to be handed out. *)
BlocksInv(bs, np) ==
  /\ bs \in Seq(BlockRecords)
  /\ np \in Nat \ {0} /\ np <= PoolPages + 1
  /\ \A k \in 1 .. Len(bs) :
       BlockOK(bs[k]) /\ bs[k].addr + bs[k].size <= np * PAGE_SIZE
  /\ \A k \in 1 .. Len(bs) : \A l \in k + 1 .. Len(bs) :
       bs[k].addr + bs[k].size <= bs[l].addr

(* The pointer of o is the address of entry i of block k, and the entries  *)
(* its size takes are in that block.                                       *)
Placed(bs, h, o, k, i) ==
  /\ h[o] # NoRange
  /\ h[o].ptr = IndexToPtr(bs[k], i)
  /\ i + Count(h[o].size) <= Entries(bs[k].size)

HeldInv(bs, h) ==
  /\ h \in [Owners -> [ptr : Nat, size : Nat]]
  /\ \A o \in Owners : h[o] # NoRange =>
       /\ h[o].size \in Sizes
       /\ \E k \in 1 .. Len(bs) : \E i \in EntryIds(bs[k]) : Placed(bs, h, o, k, i)

(* The entries of two owners in one block lie apart.                       *)
ApartInv(bs, h) ==
  \A o, p \in Owners : o # p =>
    \A k \in 1 .. Len(bs) : \A i, j \in EntryIds(bs[k]) :
      Placed(bs, h, o, k, i) /\ Placed(bs, h, p, k, j) =>
        i + Count(h[o].size) <= j \/ j + Count(h[p].size) <= i

Continued(bs, h, o, k, i) ==
  \E j \in 0 .. i - 1 : Placed(bs, h, o, k, j) /\ i < j + Count(h[o].size)

(* The mark that tells what lies on entry i of block k.                    *)
MarkOf(bs, h, k, i) ==
  IF \E o \in Owners : Placed(bs, h, o, k, i) THEN "start"
  ELSE IF \E o \in Owners : Continued(bs, h, o, k, i) THEN "cont"
  ELSE "free"

MarksInv(bs, h) ==
  \A k \in 1 .. Len(bs) : \A i \in EntryIds(bs[k]) :
    bs[k].allocated[i] = MarkOf(bs, h, k, i)

HeapInv(bs, h, np) ==
  /\ BlocksInv(bs, np)
  /\ HeldInv(bs, h)
  /\ ApartInv(bs, h)
  /\ MarksInv(bs, h)

IInv ==
  /\ HeapInv(blocks, held, nextPage)
  /\ status \in {"running", "out_of_memory", "invalid_free"}

-----------------------------------------------------------------------------
(* Addresses of entries. *)

LEMMA CountFacts ==
  ASSUME NEW size \in Nat
  PROVE  /\ Count(size) \in Nat
         /\ size <= Count(size) * ALLOC_ALIGN
         /\ size > 0 => Count(size) > 0 /\ (Count(size) - 1) * ALLOC_ALIGN < size
  BY Numbers, CeilFacts DEF Count

LEMMA Geometry ==
  ASSUME NEW b, BlockOK(b)
  PROVE  /\ b.addr \in Nat /\ b.size \in Nat /\ Entries(b.size) \in Nat
         /\ EntriesSize(b.size) \in Nat
         /\ \A i \in EntryIds(b) :
              /\ i \in Nat /\ i < Entries(b.size)
              /\ IndexToPtr(b, i) \in Nat
              /\ b.addr + HEADER + EntriesSize(b.size) <= IndexToPtr(b, i)
              /\ IndexToPtr(b, i) % ALLOC_ALIGN = 0
              /\ PtrToIndex(b, IndexToPtr(b, i)) = i
              /\ \A n \in Nat : IndexToPtr(b, i + n) = IndexToPtr(b, i) + (n * ALLOC_ALIGN)
              /\ \A n \in Nat : i + n <= Entries(b.size) =>
                   IndexToPtr(b, i) + (n * ALLOC_ALIGN) <= b.addr + b.size
  <1> DEFINE A == ALLOC_ALIGN
             m == MetadataSize(b.size)
             e == Entries(b.size)
             es == EntriesSize(b.size)
  <1>1. /\ A \in Nat \ {0} /\ HEADER \in Nat /\ PAGE_SIZE \in Nat \ {0}
        /\ b.addr \in Nat /\ b.size \in Nat
    BY Numbers DEF BlockOK, BlockRecords
  <1>2. PICK pages \in Nat \ {0} : b.size = pages * PAGE_SIZE
    BY DEF BlockOK
  <1>3. PICK page \in Nat \ {0} : b.addr = page * PAGE_SIZE
    BY DEF BlockOK
  <1>4. /\ m \in Nat /\ e \in Nat /\ es \in Nat
        /\ HEADER + es <= m /\ m + (e * A) <= b.size
        /\ \E x \in Nat : m = x * A
    BY <1>2, BlockFacts
  <1>5. PICK x \in Nat : m = x * A
    BY <1>4
  <1>6. PICK y \in Nat : b.addr = y * A
    BY <1>3, BlockFacts
  <1> HIDE DEF m, e, es, A
  <1>7. ASSUME NEW i \in EntryIds(b)
        PROVE  /\ i \in Nat /\ i < e /\ i * A \in Nat
               /\ IndexToPtr(b, i) = b.addr + m + (i * A)
               /\ IndexToPtr(b, i) \in Nat
    <2>1. i \in Nat /\ i < e
      BY <1>4 DEF EntryIds, e
    <2>2. i * A \in Nat
      BY <1>1, <2>1, Products
    <2>3. IndexToPtr(b, i) = b.addr + m + (i * A)
      BY DEF IndexToPtr, m, A
    <2> QED  BY <1>1, <1>4, <2>1, <2>2, <2>3
  <1>8. ASSUME NEW i \in EntryIds(b)
        PROVE  b.addr + HEADER + es <= IndexToPtr(b, i)
    BY <1>1, <1>4, <1>7
  <1>9. ASSUME NEW i \in EntryIds(b)
        PROVE  IndexToPtr(b, i) % A = 0
    <2>1. i \in Nat /\ IndexToPtr(b, i) = (y * A) + (x * A) + (i * A)
      BY <1>5, <1>6, <1>7
    <2>2. (y * A) + (x * A) + (i * A) = ((y + x) + i) * A
      BY <1>1, <2>1, SMT
    <2>3. (y + x) + i \in Nat
      BY <2>1
    <2> QED  BY <1>1, <2>1, <2>2, <2>3, MultipleFacts
  <1>10. ASSUME NEW i \in EntryIds(b)
         PROVE  PtrToIndex(b, IndexToPtr(b, i)) = i
    <2>1. PtrToIndex(b, IndexToPtr(b, i)) = (IndexToPtr(b, i) - (b.addr + m)) \div A
      BY DEF PtrToIndex, m, A
    <2>2. IndexToPtr(b, i) - (b.addr + m) = i * A
      BY <1>1, <1>4, <1>7
    <2>3. (i * A) \div A = i
      BY <1>1, <1>7, MultipleFacts
    <2> QED  BY <2>1, <2>2, <2>3
  <1>11. ASSUME NEW i \in EntryIds(b), NEW n \in Nat
         PROVE  IndexToPtr(b, i + n) = IndexToPtr(b, i) + (n * A)
    <2>1. (i + n) * A = (i * A) + (n * A) /\ n * A \in Nat
      BY <1>1, <1>7, Products
    <2>2. IndexToPtr(b, i + n) = b.addr + m + ((i + n) * A)
      BY DEF IndexToPtr, m, A
    <2> QED  BY <1>1, <1>4, <1>7, <2>1, <2>2
  <1>12. ASSUME NEW i \in EntryIds(b), NEW n \in Nat, i + n <= e
         PROVE  IndexToPtr(b, i) + (n * A) <= b.addr + b.size
    <2>1. (i + n) * A = (i * A) + (n * A) /\ n * A \in Nat
      BY <1>1, <1>7, Products
    <2>2. i + n \in Nat /\ (i + n) * A <= e * A /\ e * A \in Nat
      BY <1>1, <1>4, <1>7, <1>12, Products
    <2> DEFINE nA == n * A
               eA == e * A
               iA == i * A
    <2>3. /\ nA \in Nat /\ eA \in Nat /\ iA \in Nat /\ iA + nA <= eA
          /\ m + eA <= b.size /\ IndexToPtr(b, i) = b.addr + m + iA
      BY <1>4, <1>7, <2>1, <2>2
    <2> HIDE DEF nA, eA, iA
    <2>4. IndexToPtr(b, i) + nA <= b.addr + b.size
      BY <1>1, <1>4, <2>3
    <2> QED  BY <2>4 DEF nA
  <1> QED  BY <1>1, <1>4, <1>7, <1>8, <1>9, <1>10, <1>11, <1>12 DEF e, es, A

(* Entries of one block are the alignment apart, bs follow each other. *)
LEMMA PointersApart ==
  ASSUME NEW bs, NEW np, BlocksInv(bs, np), NEW k \in 1 .. Len(bs), NEW l \in 1 .. Len(bs),
         NEW i \in EntryIds(bs[k]), NEW j \in EntryIds(bs[l])
  PROVE  /\ k = l /\ i < j =>
              IndexToPtr(bs[k], i) + ((j - i) * ALLOC_ALIGN) = IndexToPtr(bs[l], j)
         /\ k = l /\ i < j => IndexToPtr(bs[k], i) < IndexToPtr(bs[l], j)
         /\ k < l => bs[k].addr + bs[k].size < IndexToPtr(bs[l], j)
         /\ k < l => IndexToPtr(bs[k], i) < IndexToPtr(bs[l], j)
  <1>1. BlockOK(bs[k]) /\ BlockOK(bs[l])
    BY DEF BlocksInv
  <1>2. /\ i \in Nat /\ j \in Nat /\ i < Entries(bs[k].size)
        /\ IndexToPtr(bs[k], i) \in Nat /\ IndexToPtr(bs[l], j) \in Nat
        /\ Entries(bs[k].size) \in Nat
    BY <1>1, Geometry
  <1>3. ASSUME k = l, i < j
        PROVE  /\ IndexToPtr(bs[k], i) + ((j - i) * ALLOC_ALIGN) = IndexToPtr(bs[l], j)
               /\ IndexToPtr(bs[k], i) < IndexToPtr(bs[l], j)
    <2>1. j - i \in Nat /\ i + (j - i) = j /\ 1 \in Nat /\ 1 <= j - i
      BY <1>2, <1>3
    <2>2. IndexToPtr(bs[k], i + (j - i)) = IndexToPtr(bs[k], i) + ((j - i) * ALLOC_ALIGN)
      BY <1>1, <2>1, Geometry
    <2>3. 1 * ALLOC_ALIGN <= (j - i) * ALLOC_ALIGN /\ (j - i) * ALLOC_ALIGN \in Nat
      BY <2>1, Numbers, Products
    <2> QED  BY <1>2, <1>3, <2>1, <2>2, <2>3, Numbers
  <1>4. ASSUME k < l
        PROVE  /\ bs[k].addr + bs[k].size < IndexToPtr(bs[l], j)
               /\ IndexToPtr(bs[k], i) < IndexToPtr(bs[l], j)
    <2>1. bs[k].addr + bs[k].size <= bs[l].addr
      BY <1>4, LenProperties DEF BlocksInv
    <2>2. bs[l].addr + HEADER + EntriesSize(bs[l].size) <= IndexToPtr(bs[l], j)
      BY <1>1, Geometry
    <2>3. /\ bs[k].addr \in Nat /\ bs[k].size \in Nat
          /\ bs[l].addr \in Nat /\ EntriesSize(bs[l].size) \in Nat
      BY <1>1, Geometry
    <2>4. IndexToPtr(bs[k], i) + (1 * ALLOC_ALIGN) <= bs[k].addr + bs[k].size
      <3>1. i + 1 <= Entries(bs[k].size) /\ 1 \in Nat
        BY <1>2
      <3> QED  BY <1>1, <3>1, Geometry
    <2>5. bs[l].addr < IndexToPtr(bs[l], j)
      <3> DEFINE p == IndexToPtr(bs[l], j)
                 a == bs[l].addr
                 s == EntriesSize(bs[l].size)
      <3>1. p \in Nat /\ a \in Nat /\ s \in Nat /\ a + HEADER + s <= p
        BY <1>2, <2>2, <2>3, Zenon
      <3>2. HEADER \in Nat /\ HEADER > 0
        BY Numbers
      <3> HIDE DEF p, a, s
      <3>3. a < p
        BY <3>1, <3>2
      <3> QED  BY <3>3 DEF p, a
    <2>6. IndexToPtr(bs[k], i) <= bs[k].addr + bs[k].size
      <3> DEFINE p == IndexToPtr(bs[k], i)
                 e == bs[k].addr + bs[k].size
      <3>1. p \in Nat /\ p + (1 * ALLOC_ALIGN) <= e
        BY <1>2, <2>4, Zenon
      <3>2. e \in Nat
        BY <2>3, SMTT(30)
      <3>4. ALLOC_ALIGN \in Nat
        BY Numbers
      <3> HIDE DEF p, e
      <3>3. p <= e
        BY <3>1, <3>2, <3>4
      <3> QED  BY <3>3 DEF p, e
    <2> DEFINE x == IndexToPtr(bs[k], i)
               y == IndexToPtr(bs[l], j)
               c == bs[k].addr + bs[k].size
               d == bs[l].addr
    <2>7. /\ x \in Nat /\ y \in Nat /\ c \in Nat /\ d \in Nat
          /\ x <= c /\ c <= d /\ d < y
      <3>1. x \in Nat /\ y \in Nat
        BY <1>2
      <3>2. c \in Nat /\ d \in Nat
        BY <2>3
      <3>3. x <= c
        BY <2>6
      <3>4. c <= d
        BY <2>1
      <3>5. d < y
        BY <2>5
      <3> QED  BY <3>1, <3>2, <3>3, <3>4, <3>5
    <2> HIDE DEF x, y, c, d
    <2>8. c < y /\ x < y
      BY <2>7
    <2> QED  BY <2>8 DEF x, y, c
  <1> QED  BY <1>3, <1>4

LEMMA PointersDiffer ==
  ASSUME NEW bs, NEW np, BlocksInv(bs, np), NEW k \in 1 .. Len(bs), NEW l \in 1 .. Len(bs),
         NEW i \in EntryIds(bs[k]), NEW j \in EntryIds(bs[l]),
         IndexToPtr(bs[k], i) = IndexToPtr(bs[l], j)
  PROVE  k = l /\ i = j
  <1>1. /\ i \in Nat /\ j \in Nat /\ k \in Nat /\ l \in Nat
        /\ IndexToPtr(bs[k], i) \in Nat
    BY Geometry DEF BlocksInv
  <1>2. ~(k < l) /\ ~(l < k)
    BY <1>1, PointersApart
  <1>3. k = l
    BY <1>1, <1>2
  <1>4. ~(i < j)
    BY <1>1, <1>3, PointersApart
  <1>5. ~(j < i)
    <2>1. l = k /\ j < i => IndexToPtr(bs[l], j) < IndexToPtr(bs[k], i)
      BY PointersApart
    <2> QED  BY <1>1, <1>3, <2>1
  <1> QED  BY <1>1, <1>3, <1>4, <1>5

LEMMA HolderFacts ==
  ASSUME NEW bs, NEW h, HeldInv(bs, h), NEW o \in Owners, h[o] # NoRange
  PROVE  /\ h[o].size \in Nat \ {0} /\ h[o].ptr \in Nat
         /\ Count(h[o].size) \in Nat /\ Count(h[o].size) > 0
         /\ h[o].size <= Count(h[o].size) * ALLOC_ALIGN
         /\ (Count(h[o].size) - 1) * ALLOC_ALIGN < h[o].size
         /\ \E k \in 1 .. Len(bs) : \E i \in EntryIds(bs[k]) : Placed(bs, h, o, k, i)
  <1>1. h[o].ptr \in Nat
    BY DEF HeldInv
  <1>2. h[o].size \in Nat /\ h[o].size > 0 /\ h[o].size \in Nat \ {0}
    BY RequestAssumption DEF HeldInv
  <1>3. \E k \in 1 .. Len(bs) : \E i \in EntryIds(bs[k]) : Placed(bs, h, o, k, i)
    BY DEF HeldInv
  <1>4. Count(h[o].size) \in Nat /\ h[o].size <= Count(h[o].size) * ALLOC_ALIGN
    BY <1>2, CountFacts
  <1>5. /\ Count(h[o].size) > 0
        /\ (Count(h[o].size) - 1) * ALLOC_ALIGN < h[o].size
    BY <1>2, CountFacts
  <1> QED  BY <1>1, <1>2, <1>3, <1>4, <1>5

LEMMA PlacedOnce ==
  ASSUME NEW bs, NEW h, NEW np, BlocksInv(bs, np),
         NEW o, NEW k \in 1 .. Len(bs), NEW l \in 1 .. Len(bs),
         NEW i \in EntryIds(bs[k]), NEW j \in EntryIds(bs[l]),
         Placed(bs, h, o, k, i), Placed(bs, h, o, l, j)
  PROVE  k = l /\ i = j
  BY PointersDiffer DEF Placed

(* Where the rest of an allocation lies.                                   *)
LEMMA ContinuedPlace ==
  ASSUME NEW bs, NEW h, NEW np, BlocksInv(bs, np), NEW o,
         NEW k \in 1 .. Len(bs), NEW l \in 1 .. Len(bs),
         NEW i \in EntryIds(bs[k]), NEW j \in EntryIds(bs[l]),
         Placed(bs, h, o, k, i)
  PROVE  Continued(bs, h, o, l, j) <=> k = l /\ i < j /\ j < i + Count(h[o].size)
  <1>1. i \in Nat /\ j \in Nat /\ j < Entries(bs[l].size) /\ Entries(bs[l].size) \in Nat
    BY Geometry DEF BlocksInv
  <1>2. \A m \in 0 .. j - 1 : m \in EntryIds(bs[l]) /\ m < j
    BY <1>1 DEF EntryIds
  <1>3. \A m \in 0 .. j - 1 : Placed(bs, h, o, l, m) => k = l /\ i = m
    BY <1>2, PlacedOnce
  <1>4. i < j => i \in 0 .. j - 1
    BY <1>1
  <1> QED  BY <1>2, <1>3, <1>4 DEF Continued

LEMMA ContinuedBehind ==
  ASSUME NEW bs, NEW h, NEW np, BlocksInv(bs, np), NEW o, NEW k \in 1 .. Len(bs),
         NEW i \in EntryIds(bs[k]), NEW j \in EntryIds(bs[k]), Placed(bs, h, o, k, i)
  PROVE  Continued(bs, h, o, k, j) <=> i < j /\ j < i + Count(h[o].size)
  BY ContinuedPlace, ZenonT(30)

(* An address of an entry lies inside a held range when the entry is one   *)
(* of those behind its first.                                              *)
LEMMA InsideFacts ==
  ASSUME NEW bs, NEW h, NEW np, BlocksInv(bs, np), HeldInv(bs, h), NEW o \in Owners, h[o] # NoRange,
         NEW k \in 1 .. Len(bs), NEW l \in 1 .. Len(bs),
         NEW i \in EntryIds(bs[k]), NEW j \in EntryIds(bs[l]),
         Placed(bs, h, o, k, i)
  PROVE  /\ h[o].ptr < IndexToPtr(bs[l], j)
         /\ IndexToPtr(bs[l], j) < h[o].ptr + h[o].size
         <=> k = l /\ i < j /\ j < i + Count(h[o].size)
  <1> DEFINE x == h[o].ptr
             y == IndexToPtr(bs[l], j)
             s == h[o].size
             n == Count(s)
             A == ALLOC_ALIGN
             c == bs[k].addr + bs[k].size
  <1>1. BlockOK(bs[k]) /\ BlockOK(bs[l])
    BY DEF BlocksInv
  <1>2. i \in Nat /\ j \in Nat /\ y \in Nat /\ k \in Nat /\ l \in Nat
    <2>1. i \in Nat /\ j \in Nat
      BY <1>1, Geometry
    <2>2. IndexToPtr(bs[l], j) \in Nat
      BY <1>1, Geometry
    <2>3. k \in Nat /\ l \in Nat
      OBVIOUS
    <2> QED  BY <2>1, <2>2, <2>3
  <1>3. x = IndexToPtr(bs[k], i) /\ i + n <= Entries(bs[k].size)
    BY DEF Placed
  <1>4. /\ x \in Nat /\ s \in Nat /\ n \in Nat /\ n > 0 /\ A \in Nat
        /\ s <= n * A /\ (n - 1) * A < s
    BY HolderFacts, Numbers
  <1>5. c \in Nat
    <2>1. bs[k].addr \in Nat /\ bs[k].size \in Nat
      BY <1>1, Geometry
    <2> QED  BY <2>1
  <1>6. x + (n * A) <= c
    BY <1>1, <1>3, <1>4, Geometry
  <1>7. n * A \in Nat
    BY <1>4, Products
  <1>8. k < l => c < y
    BY PointersApart
  <1>9. l < k => y < x
    <2>1. l < k => y < IndexToPtr(bs[k], i)
      BY PointersApart
    <2> QED  BY <1>3, <2>1
  <1>10. k = l /\ i < j => x + ((j - i) * A) = y
    <2>1. k = l /\ i < j => IndexToPtr(bs[k], i) + ((j - i) * A) = y
      BY PointersApart
    <2> QED  BY <1>3, <2>1
  <1>11. k = l /\ j < i => y < x
    <2>1. l = k /\ j < i => y < IndexToPtr(bs[k], i)
      BY PointersApart
    <2> QED  BY <1>3, <2>1
  <1>12. k = l /\ i = j => y = x
    BY <1>3
  <1> HIDE DEF x, y, s, n, A, c
  <1>13. ASSUME k = l, i < j, j < i + n
         PROVE  x < y /\ y < x + s
    <2>1. j - i \in Nat /\ 1 <= j - i /\ j - i <= n - 1 /\ n - 1 \in Nat
      BY <1>2, <1>4, <1>13
    <2>2. (j - i) * A <= (n - 1) * A /\ (j - i) * A \in Nat /\ (n - 1) * A \in Nat
      BY <1>4, <2>1, Products
    <2>3. (j - i) * A > 0
      <3>1. 1 * A <= (j - i) * A
        BY <1>4, <2>1, Products
      <3>2. 1 * A = A /\ A > 0
        BY Numbers DEF A
      <3> QED  BY <1>4, <2>2, <3>1, <3>2
    <2> QED  BY <1>4, <1>10, <1>13, <2>2, <2>3
  <1>14. ASSUME x < y, y < x + s
         PROVE  k = l /\ i < j /\ j < i + n
    <2>1. ~(k < l)
      BY <1>2, <1>4, <1>5, <1>6, <1>7, <1>8, <1>14
    <2>2. ~(l < k)
      BY <1>2, <1>4, <1>9, <1>14
    <2>3. k = l
      BY <1>2, <2>1, <2>2
    <2>4. i < j
      BY <1>2, <1>4, <1>11, <1>12, <1>14, <2>3
    <2>5. ASSUME j >= i + n
          PROVE  FALSE
      <3>1. j - i \in Nat /\ n <= j - i
        BY <1>2, <1>4, <2>5
      <3>2. n * A <= (j - i) * A /\ (j - i) * A \in Nat
        BY <1>4, <3>1, Products
      <3>3. x + ((j - i) * A) = y
        BY <1>10, <2>3, <2>4
      <3> QED  BY <1>4, <1>7, <1>14, <3>2, <3>3
    <2>6. j < i + n
      BY <1>2, <1>4, <2>5
    <2> QED  BY <2>3, <2>4, <2>6
  <1> QED  BY <1>13, <1>14 DEF x, y, s, n

(* The invariant on entries is what the property says of addresses.        *)
LEMMA MarksMatchHeld == IInv => BitmapMatchesHeld
  <1> SUFFICES ASSUME IInv, NEW k \in DOMAIN blocks, NEW i \in EntryIds(blocks[k])
               PROVE  LET ptr == IndexToPtr(blocks[k], i)
                      IN  blocks[k].allocated[i] =
                            IF \E o \in Owners : Holds(o) /\ held[o].ptr = ptr THEN "start"
                            ELSE IF \E o \in Owners : /\ Holds(o)
                                                      /\ held[o].ptr < ptr
                                                      /\ ptr < held[o].ptr + held[o].size
                            THEN "cont" ELSE "free"
    BY DEF BitmapMatchesHeld
  <1> DEFINE ptr == IndexToPtr(blocks[k], i)
             starts(o) == Placed(blocks, held, o, k, i)
             continues(o) == Continued(blocks, held, o, k, i)
  <1>1. k \in 1 .. Len(blocks) /\ BlocksInv(blocks, nextPage) /\ HeldInv(blocks, held)
    <2>1. BlocksInv(blocks, nextPage) /\ HeldInv(blocks, held)
      BY DEF IInv, HeapInv
    <2>2. DOMAIN blocks = 1 .. Len(blocks)
      BY <2>1, LenProperties DEF BlocksInv
    <2> QED  BY <2>1, <2>2
  <1>2. blocks[k].allocated[i] = MarkOf(blocks, held, k, i)
    BY <1>1 DEF IInv, HeapInv, MarksInv
  <1>3. ASSUME NEW o \in Owners, Holds(o)
        PROVE  /\ held[o].ptr = ptr <=> starts(o)
               /\ held[o].ptr < ptr /\ ptr < held[o].ptr + held[o].size <=> continues(o)
    <2>0. held[o] # NoRange
      BY <1>3 DEF Holds
    <2>1. PICK l \in 1 .. Len(blocks) :
            \E j \in EntryIds(blocks[l]) : Placed(blocks, held, o, l, j)
      BY <1>1, <2>0, HolderFacts
    <2>2. PICK j \in EntryIds(blocks[l]) : Placed(blocks, held, o, l, j)
      BY <2>1
    <2>3. held[o].ptr = ptr => l = k /\ j = i
      <3>1. held[o].ptr = IndexToPtr(blocks[l], j)
        BY <2>2 DEF Placed
      <3> QED  BY <1>1, <3>1, PointersDiffer
    <2>4. /\ held[o].ptr < ptr /\ ptr < held[o].ptr + held[o].size
          <=> l = k /\ j < i /\ i < j + Count(held[o].size)
      BY <1>1, <2>0, <2>2, InsideFacts
    <2>5. continues(o) <=> l = k /\ j < i /\ i < j + Count(held[o].size)
      BY <1>1, <2>2, ContinuedPlace, Zenon
    <2>6. starts(o) => held[o].ptr = ptr
      BY DEF Placed
    <2> QED  BY <2>2, <2>3, <2>4, <2>5, <2>6
  <1>4. \A o \in Owners : starts(o) \/ continues(o) => Holds(o)
    BY DEF Placed, Continued, Holds
  <1> HIDE DEF ptr, starts, continues
  <1>5. (\E o \in Owners : starts(o)) <=> \E o \in Owners : Holds(o) /\ held[o].ptr = ptr
    BY <1>3, <1>4
  <1>6. (\E o \in Owners : continues(o))
        <=> \E o \in Owners : /\ Holds(o)
                              /\ held[o].ptr < ptr
                              /\ ptr < held[o].ptr + held[o].size
    BY <1>3, <1>4
  <1>7. MarkOf(blocks, held, k, i) =
          IF \E o \in Owners : starts(o) THEN "start"
          ELSE IF \E o \in Owners : continues(o) THEN "cont" ELSE "free"
    BY DEF MarkOf, starts, continues
  <1> QED  BY <1>2, <1>5, <1>6, <1>7, Zenon DEF ptr
-----------------------------------------------------------------------------
(* What an allocation does to the list. *)

(* FirstRun is well defined when there is room. *)
LEMMA FirstRunFacts ==
  ASSUME NEW b, BlockOK(b), NEW size \in Nat, HasRoom(b, size)
  PROVE  /\ FirstRun(b, size) \in EntryIds(b)
         /\ FirstRun(b, size) + Count(size) <= Entries(b.size)
         /\ \A j \in FirstRun(b, size) .. FirstRun(b, size) + Count(size) - 1 :
              b.allocated[j] = "free"
  <1> DEFINE runs == FreeRuns(b, size)
  <1>1. runs \subseteq Nat /\ runs # {}
    BY Geometry DEF FreeRuns, HasRoom
  <1> HIDE DEF runs
  <1>2. PICK i \in runs : \A j \in runs : i <= j
    BY <1>1, LeastElement
  <1>3. FirstRun(b, size) \in runs
    BY <1>2 DEF FirstRun, runs
  <1> QED  BY <1>3 DEF runs, FreeRuns, Count

(* Changing the marks of one block leaves the layout of all of them.       *)
LEMMA Remarked ==
  ASSUME NEW bs, NEW np, BlocksInv(bs, np), NEW k \in 1 .. Len(bs),
         NEW a \in [EntryIds(bs[k]) -> Marks]
  PROVE  LET bs2 == [bs EXCEPT ![k] = [@ EXCEPT !.allocated = a]]
         IN  /\ BlocksInv(bs2, np) /\ Len(bs2) = Len(bs)
             /\ \A l \in 1 .. Len(bs) : /\ bs2[l].addr = bs[l].addr
                                        /\ bs2[l].size = bs[l].size
             /\ bs2[k].allocated = a
             /\ \A l \in 1 .. Len(bs) : l # k => bs2[l] = bs[l]
  <1> DEFINE b2 == [bs[k] EXCEPT !.allocated = a]
             bs2 == [bs EXCEPT ![k] = b2]
  <1>1. bs \in Seq(BlockRecords) /\ BlockOK(bs[k])
    BY DEF BlocksInv
  <1>2. /\ b2.addr = bs[k].addr /\ b2.size = bs[k].size /\ b2.allocated = a
    BY <1>1 DEF BlockOK, BlockRecords
  <1>3. a \in UNION {[0 .. n - 1 -> Marks] : n \in Nat}
    <2>1. Entries(bs[k].size) \in Nat /\ a \in [0 .. Entries(bs[k].size) - 1 -> Marks]
      BY <1>1, Geometry DEF EntryIds
    <2> QED  BY <2>1, Zenon
  <1>4. b2 \in BlockRecords
    BY <1>1, <1>3 DEF BlockOK, BlockRecords
  <1>5. BlockOK(b2)
    BY <1>1, <1>2, <1>4 DEF BlockOK, EntryIds
  <1> HIDE DEF b2
  <1>6. bs2 \in Seq(BlockRecords) /\ Len(bs2) = Len(bs)
    BY <1>1, <1>4, ExceptSeq
  <1>7. \A l \in 1 .. Len(bs) : bs2[l] = IF l = k THEN b2 ELSE bs[l]
    BY <1>1
  <1> HIDE DEF bs2
  <1>8. \A l \in 1 .. Len(bs) : bs2[l].addr = bs[l].addr /\ bs2[l].size = bs[l].size
    BY <1>2, <1>7
  <1>9. \A l \in 1 .. Len(bs2) :
          BlockOK(bs2[l]) /\ bs2[l].addr + bs2[l].size <= np * PAGE_SIZE
    BY <1>5, <1>6, <1>7, <1>8 DEF BlocksInv
  <1>10. \A l \in 1 .. Len(bs2) : \A m \in l + 1 .. Len(bs2) :
           bs2[l].addr + bs2[l].size <= bs2[m].addr
    <2> TAKE l \in 1 .. Len(bs2)
    <2> TAKE m \in l + 1 .. Len(bs2)
    <2>1. m \in 1 .. Len(bs)
      BY <1>1, <1>6, LenProperties
    <2> QED  BY <1>6, <1>8, <2>1 DEF BlocksInv
  <1>11. BlocksInv(bs2, np)
    BY <1>6, <1>9, <1>10 DEF BlocksInv
  <1> QED  BY <1>2, <1>6, <1>7, <1>8, <1>11 DEF bs2, b2

LEMMA SameLayout ==
  ASSUME NEW b, NEW c, c.addr = b.addr, c.size = b.size
  PROVE  /\ EntryIds(c) = EntryIds(b)
         /\ \A i : IndexToPtr(c, i) = IndexToPtr(b, i)
  BY DEF EntryIds, IndexToPtr
(* In a list of the same layout owners that keep their pointers stay where *)
(* they were.                                                              *)
LEMMA SamePlaces ==
  ASSUME NEW bs, NEW bs2, NEW h, NEW h2, NEW k, NEW o, h2[o] = h[o],
         bs2[k].addr = bs[k].addr, bs2[k].size = bs[k].size
  PROVE  /\ \A i : Placed(bs2, h2, o, k, i) <=> Placed(bs, h, o, k, i)
         /\ \A i : Continued(bs2, h2, o, k, i) <=> Continued(bs, h, o, k, i)
  <1>1. \A i : Placed(bs2, h2, o, k, i) <=> Placed(bs, h, o, k, i)
    BY SameLayout DEF Placed
  <1>2. \A i : Continued(bs2, h2, o, k, i) <=> Continued(bs, h, o, k, i)
    BY <1>1 DEF Continued
  <1> QED  BY <1>1, <1>2

(* An owner that gets a run of free entries lies apart from all others,    *)
(* and the marks of try_allocate tell so.                                  *)
LEMMA TakeKeeps ==
  ASSUME NEW bs, NEW h, NEW np, HeapInv(bs, h, np), NEW k \in 1 .. Len(bs),
         NEW o \in Owners, h[o] = NoRange, NEW size \in Sizes, HasRoom(bs[k], size)
  PROVE  LET r == [ptr |-> IndexToPtr(bs[k], FirstRun(bs[k], size)), size |-> size]
         IN  HeapInv([bs EXCEPT ![k] = Take(@, size)], [h EXCEPT ![o] = r], np)
  <1> DEFINE f == FirstRun(bs[k], size)
             n == Count(size)
             r == [ptr |-> IndexToPtr(bs[k], f), size |-> size]
             a == [i \in EntryIds(bs[k]) |->
                     IF i = f THEN "start"
                     ELSE IF i \in f + 1 .. f + n - 1 THEN "cont" ELSE bs[k].allocated[i]]
             bs2 == [bs EXCEPT ![k] = [@ EXCEPT !.allocated = a]]
             h2 == [h EXCEPT ![o] = r]
  <1>1. BlocksInv(bs, np) /\ HeldInv(bs, h) /\ ApartInv(bs, h) /\ MarksInv(bs, h)
    BY DEF HeapInv
  <1>2. BlockOK(bs[k]) /\ size \in Nat /\ size > 0
    BY <1>1, RequestAssumption DEF BlocksInv
  <1>3. n \in Nat /\ n > 0
    BY <1>2, CountFacts
  <1>4. /\ f \in EntryIds(bs[k]) /\ f + n <= Entries(bs[k].size)
        /\ \A j \in f .. f + n - 1 : bs[k].allocated[j] = "free"
    BY <1>2, FirstRunFacts
  <1>5. f \in Nat /\ IndexToPtr(bs[k], f) \in Nat
    BY <1>2, <1>4, Geometry
  <1>6. [bs EXCEPT ![k] = Take(@, size)] = bs2
    BY DEF Take, Count
  <1> HIDE DEF f, n
  <1>7. a \in [EntryIds(bs[k]) -> Marks]
    <2>1. \A i \in EntryIds(bs[k]) : bs[k].allocated[i] \in Marks
      BY <1>2 DEF BlockOK
    <2> QED  BY <2>1 DEF Marks
  <1>8. /\ BlocksInv(bs2, np) /\ Len(bs2) = Len(bs)
        /\ \A l \in 1 .. Len(bs) : bs2[l].addr = bs[l].addr /\ bs2[l].size = bs[l].size
        /\ bs2[k].allocated = a
        /\ \A l \in 1 .. Len(bs) : l # k => bs2[l] = bs[l]
    BY <1>1, <1>7, Remarked
  <1>9. /\ h2 \in [Owners -> [ptr : Nat, size : Nat]]
        /\ h2[o] = r /\ h2[o] # NoRange
        /\ \A p \in Owners \ {o} : h2[p] = h[p]
    BY <1>1, <1>2, <1>5 DEF HeldInv, NoRange
  <1>10. r.ptr = IndexToPtr(bs[k], f) /\ r.size = size
    OBVIOUS
  <1> HIDE DEF a, bs2, h2, r
  <1>11. \A l \in 1 .. Len(bs) : /\ EntryIds(bs2[l]) = EntryIds(bs[l])
                                 /\ \A i : IndexToPtr(bs2[l], i) = IndexToPtr(bs[l], i)
    BY <1>8, SameLayout
  <1>12. ASSUME NEW p \in Owners \ {o}, NEW l \in 1 .. Len(bs)
         PROVE  /\ \A i : Placed(bs2, h2, p, l, i) <=> Placed(bs, h, p, l, i)
                /\ \A i : Continued(bs2, h2, p, l, i) <=> Continued(bs, h, p, l, i)
    BY <1>8, <1>9, SamePlaces
  <1>13. Placed(bs2, h2, o, k, f)
    BY <1>4, <1>8, <1>9, <1>10, <1>11 DEF Placed, n
  <1>14. ASSUME NEW l \in 1 .. Len(bs), NEW i \in EntryIds(bs[l])
         PROVE  /\ Placed(bs2, h2, o, l, i) <=> l = k /\ i = f
                /\ Continued(bs2, h2, o, l, i) <=> l = k /\ i \in f + 1 .. f + n - 1
    <2>1. f \in EntryIds(bs2[k]) /\ i \in EntryIds(bs2[l]) /\ i \in Nat
      BY <1>1, <1>4, <1>11, Geometry DEF BlocksInv
    <2>2. Count(h2[o].size) = n
      BY <1>9, <1>10 DEF n
    <2> DEFINE there == Placed(bs2, h2, o, l, i)
               behind == Continued(bs2, h2, o, l, i)
    <2>0. BlocksInv(bs2, np) /\ k \in 1 .. Len(bs2) /\ l \in 1 .. Len(bs2)
      BY <1>8
    <2>3. behind <=> k = l /\ f < i /\ i < f + Count(h2[o].size)
      BY <1>13, <2>0, <2>1, ContinuedPlace, Zenon
    <2>5. there => k = l /\ f = i
      BY <1>13, <2>0, <2>1, PlacedOnce, Zenon
    <2>6. k = l /\ f = i => there
      BY <1>13, Zenon
    <2> HIDE DEF there, behind
    <2>4. i \in f + 1 .. f + n - 1 <=> f < i /\ i < f + n
      BY <1>3, <1>5, <2>1
    <2>7. there <=> l = k /\ i = f
      BY <2>5, <2>6, Zenon
    <2>8. behind <=> l = k /\ i \in f + 1 .. f + n - 1
      BY <2>2, <2>3, <2>4, Zenon
    <2> QED  BY <2>7, <2>8, Zenon DEF there, behind
  <1>15. ASSUME NEW p \in Owners \ {o}, NEW j \in EntryIds(bs[k]), Placed(bs, h, p, k, j)
         PROVE  j + Count(h[p].size) <= f \/ f + n <= j
    <2>1. /\ h[p] # NoRange /\ j \in Nat
          /\ j + Count(h[p].size) <= Entries(bs[k].size)
      BY <1>2, <1>15, Geometry DEF Placed
    <2>2. Count(h[p].size) \in Nat /\ Count(h[p].size) > 0 /\ Entries(bs[k].size) \in Nat
      BY <1>1, <1>2, <2>1, HolderFacts, Geometry
    <2> DEFINE c == Count(h[p].size)
               N == Entries(bs[k].size)
    <2>3. c \in Nat /\ c > 0 /\ N \in Nat /\ j + c <= N
      BY <2>1, <2>2
    <2>4. EntryIds(bs[k]) = 0 .. N - 1
      BY DEF EntryIds
    <2>5. f + n <= N
      BY <1>4
    <2> HIDE DEF c, N
    <2>6. ASSUME NEW i \in EntryIds(bs[k]), j <= i, i < j + c
          PROVE  bs[k].allocated[i] # "free"
      <3>1. bs[k].allocated[i] = MarkOf(bs, h, k, i)
        BY <1>1 DEF MarksInv
      <3>2. i = j \/ Continued(bs, h, p, k, i)
        <4>1. i = j \/ j < i
          BY <2>1, <2>3, <2>4, <2>6
        <4>2. j < i => Continued(bs, h, p, k, i)
          BY <1>1, <1>15, <2>6, ContinuedBehind DEF c
        <4> QED  BY <4>1, <4>2
      <3> QED  BY <1>15, <3>1, <3>2 DEF MarkOf
    <2>7. ASSUME f < j + c, j < f + n
          PROVE  FALSE
      <3>1. CASE f <= j
        <4>1. j \in f .. f + n - 1 /\ j < j + c /\ j <= j
          BY <1>3, <1>5, <2>1, <2>3, <2>7, <3>1
        <4> QED  BY <1>4, <2>6, <4>1
      <3>2. CASE j < f
        <4>1. f \in f .. f + n - 1 /\ j <= f
          BY <1>3, <1>5, <2>1, <3>2
        <4> QED  BY <1>4, <2>6, <2>7, <4>1
      <3> QED  BY <1>5, <2>1, <3>1, <3>2
    <2>8. j + c <= f \/ f + n <= j
      BY <1>3, <1>5, <2>1, <2>3, <2>7
    <2> QED  BY <2>8 DEF c
  <1>16. HeldInv(bs2, h2)
    <2>1. ASSUME NEW p \in Owners, h2[p] # NoRange
          PROVE  /\ h2[p].size \in Sizes
                 /\ \E l \in 1 .. Len(bs2) :
                      \E i \in EntryIds(bs2[l]) : Placed(bs2, h2, p, l, i)
      <3>1. CASE p = o
        BY <1>4, <1>8, <1>9, <1>10, <1>11, <1>13, <3>1
      <3>2. CASE p # o
        <4>1. h[p] # NoRange /\ h2[p] = h[p]
          BY <1>9, <2>1, <3>2
        <4>2. PICK l \in 1 .. Len(bs) : \E i \in EntryIds(bs[l]) : Placed(bs, h, p, l, i)
          BY <1>1, <4>1 DEF HeldInv
        <4>3. \E i \in EntryIds(bs2[l]) : Placed(bs2, h2, p, l, i)
          BY <1>11, <1>12, <3>2, <4>2
        <4>4. h2[p].size \in Sizes
          BY <1>1, <4>1 DEF HeldInv
        <4> QED  BY <1>8, <4>3, <4>4
      <3> QED  BY <3>1, <3>2
    <2> QED  BY <1>9, <2>1 DEF HeldInv
  <1>17. ApartInv(bs2, h2)
    <2> SUFFICES ASSUME NEW p \in Owners, NEW q \in Owners, p # q,
                        NEW l \in 1 .. Len(bs2),
                        NEW i \in EntryIds(bs2[l]), NEW j \in EntryIds(bs2[l]),
                        Placed(bs2, h2, p, l, i), Placed(bs2, h2, q, l, j)
                 PROVE  i + Count(h2[p].size) <= j \/ j + Count(h2[q].size) <= i
      BY DEF ApartInv
    <2>1. l \in 1 .. Len(bs) /\ i \in EntryIds(bs[l]) /\ j \in EntryIds(bs[l])
      BY <1>8, <1>11
    <2>2. Count(h2[o].size) = n
      BY <1>9, <1>10 DEF n
    <2>3. CASE p = o
      <3>1. l = k /\ i = f /\ q # o
        BY <1>14, <2>1, <2>3
      <3>2. Placed(bs, h, q, k, j) /\ h2[q] = h[q]
        BY <1>9, <1>12, <2>1, <3>1
      <3> QED  BY <1>15, <2>1, <2>2, <2>3, <3>1, <3>2
    <2>4. CASE q = o
      <3>1. l = k /\ j = f /\ p # o
        BY <1>14, <2>1, <2>4
      <3>2. Placed(bs, h, p, k, i) /\ h2[p] = h[p]
        BY <1>9, <1>12, <2>1, <3>1
      <3> QED  BY <1>15, <2>1, <2>2, <2>4, <3>1, <3>2
    <2>5. CASE p # o /\ q # o
      <3>1. Placed(bs, h, p, l, i) /\ Placed(bs, h, q, l, j) /\ h2[p] = h[p] /\ h2[q] = h[q]
        BY <1>9, <1>12, <2>1, <2>5
      <3> QED  BY <1>1, <2>1, <3>1 DEF ApartInv
    <2> QED  BY <2>3, <2>4, <2>5
  <1>18. MarksInv(bs2, h2)
    <2> SUFFICES ASSUME NEW l \in 1 .. Len(bs), NEW i \in EntryIds(bs[l])
                 PROVE  bs2[l].allocated[i] = MarkOf(bs2, h2, l, i)
      BY <1>8, <1>11 DEF MarksInv
    <2>1. bs[l].allocated[i] = MarkOf(bs, h, l, i)
      BY <1>1 DEF MarksInv
    <2>2. ~Placed(bs, h, o, l, i) /\ ~Continued(bs, h, o, l, i)
      BY DEF Placed, Continued
    <2>3. CASE l = k /\ i = f
      <3>1. bs2[l].allocated[i] = "start"
        BY <1>4, <1>8, <2>3 DEF a
      <3> QED  BY <1>14, <2>3, <3>1 DEF MarkOf
    <2>4. CASE l = k /\ i # f /\ i \in f + 1 .. f + n - 1
      <3>1. bs2[l].allocated[i] = "cont"
        BY <1>8, <2>4 DEF a
      <3>2. ASSUME NEW p \in Owners, Placed(bs2, h2, p, l, i)
            PROVE  FALSE
        <4>1. p # o
          BY <1>14, <2>4, <3>2
        <4>2. Placed(bs, h, p, k, i)
          BY <1>12, <2>4, <3>2, <4>1
        <4>3. i + Count(h[p].size) <= f \/ f + n <= i
          BY <1>15, <2>4, <4>1, <4>2
        <4>4. h[p] # NoRange
          BY <4>2 DEF Placed
        <4>5. Count(h[p].size) \in Nat
          BY <1>1, <4>4, HolderFacts
        <4> QED  BY <1>3, <1>5, <2>4, <4>3, <4>5
      <3>3. Continued(bs2, h2, o, l, i)
        BY <1>14, <2>4
      <3> QED  BY <3>1, <3>2, <3>3 DEF MarkOf
    <2>5. CASE ~(l = k /\ i = f) /\ ~(l = k /\ i \in f + 1 .. f + n - 1)
      <3>1. bs2[l].allocated[i] = bs[l].allocated[i]
        BY <1>8, <2>5 DEF a
      <3>2. \A p \in Owners : Placed(bs2, h2, p, l, i) <=> Placed(bs, h, p, l, i)
        BY <1>12, <1>14, <2>2, <2>5
      <3>3. \A p \in Owners : Continued(bs2, h2, p, l, i) <=> Continued(bs, h, p, l, i)
        BY <1>12, <1>14, <2>2, <2>5
      <3> QED  BY <2>1, <3>1, <3>2, <3>3 DEF MarkOf
    <2> QED  BY <2>3, <2>4, <2>5
  <1> QED  BY <1>6, <1>8, <1>16, <1>17, <1>18 DEF HeapInv, h2, r, f
(* What free_or_panic clears is exactly what the owner had.                *)
LEMMA GiveKeeps ==
  ASSUME NEW bs, NEW h, NEW np, HeapInv(bs, h, np), NEW k \in 1 .. Len(bs),
         NEW o \in Owners, NEW f \in EntryIds(bs[k]), Placed(bs, h, o, k, f)
  PROVE  HeapInv([bs EXCEPT ![k] = Give(@, f)], [h EXCEPT ![o] = NoRange], np)
  <1> DEFINE n == Count(h[o].size)
             freed == {i \in EntryIds(bs[k]) :
                         i >= f /\ \A j \in f + 1 .. i : bs[k].allocated[j] = "cont"}
             a == [i \in EntryIds(bs[k]) |->
                     IF i \in freed THEN "free" ELSE bs[k].allocated[i]]
             bs2 == [bs EXCEPT ![k] = [@ EXCEPT !.allocated = a]]
             h2 == [h EXCEPT ![o] = NoRange]
             N == Entries(bs[k].size)
  <1>1. BlocksInv(bs, np) /\ HeldInv(bs, h) /\ ApartInv(bs, h) /\ MarksInv(bs, h)
    BY DEF HeapInv
  <1>2. BlockOK(bs[k]) /\ h[o] # NoRange
    BY <1>1 DEF BlocksInv, Placed
  <1>3. n \in Nat /\ n > 0
    BY <1>1, <1>2, HolderFacts
  <1>4. f \in Nat /\ N \in Nat /\ EntryIds(bs[k]) = 0 .. N - 1 /\ f + n <= N
    BY <1>2, Geometry DEF Placed, EntryIds
  <1>5. [bs EXCEPT ![k] = Give(@, f)] = bs2
    BY DEF Give
  <1> HIDE DEF n, N
  <1>6. a \in [EntryIds(bs[k]) -> Marks]
    <2>1. \A i \in EntryIds(bs[k]) : bs[k].allocated[i] \in Marks
      BY <1>2 DEF BlockOK
    <2> QED  BY <2>1 DEF Marks
  <1>7. /\ BlocksInv(bs2, np) /\ Len(bs2) = Len(bs)
        /\ \A l \in 1 .. Len(bs) : bs2[l].addr = bs[l].addr /\ bs2[l].size = bs[l].size
        /\ bs2[k].allocated = a
        /\ \A l \in 1 .. Len(bs) : l # k => bs2[l] = bs[l]
    BY <1>1, <1>6, Remarked, SMTT(30)
  <1>8. /\ h2 \in [Owners -> [ptr : Nat, size : Nat]]
        /\ h2[o] = NoRange
        /\ \A p \in Owners \ {o} : h2[p] = h[p]
    BY <1>1 DEF HeldInv, NoRange
  <1> HIDE DEF a, bs2, h2, freed
  <1>9. \A l \in 1 .. Len(bs) : EntryIds(bs2[l]) = EntryIds(bs[l])
    BY <1>7, SameLayout
  <1>10. ASSUME NEW p \in Owners \ {o}, NEW l \in 1 .. Len(bs)
         PROVE  /\ \A i : Placed(bs2, h2, p, l, i) <=> Placed(bs, h, p, l, i)
                /\ \A i : Continued(bs2, h2, p, l, i) <=> Continued(bs, h, p, l, i)
    BY <1>7, <1>8, SamePlaces
  <1>11. ASSUME NEW l \in 1 .. Len(bs), NEW i \in EntryIds(bs[l])
         PROVE  ~Placed(bs2, h2, o, l, i) /\ ~Continued(bs2, h2, o, l, i)
    BY <1>8 DEF Placed, Continued
  <1>12. ASSUME NEW l \in 1 .. Len(bs), NEW i \in EntryIds(bs[l])
         PROVE  /\ Placed(bs, h, o, l, i) <=> k = l /\ f = i
                /\ Continued(bs, h, o, l, i) <=> k = l /\ f < i /\ i < f + Count(h[o].size)
    <2>1. Continued(bs, h, o, l, i) <=> k = l /\ f < i /\ i < f + Count(h[o].size)
      BY <1>1, ContinuedPlace, Zenon
    <2>2. Placed(bs, h, o, l, i) => k = l /\ f = i
      BY <1>1, PlacedOnce, Zenon
    <2> QED  BY <2>1, <2>2, Zenon
  <1>13. ASSUME NEW p \in Owners \ {o}, NEW j \in EntryIds(bs[k]), Placed(bs, h, p, k, j)
         PROVE  j + Count(h[p].size) <= f \/ f + n <= j
    BY <1>1, <1>13 DEF ApartInv, n
  <1>14. ASSUME NEW i \in EntryIds(bs[k]), f <= i, i < f + n,
                NEW p \in Owners \ {o}
         PROVE  ~Placed(bs, h, p, k, i) /\ ~Continued(bs, h, p, k, i)
    <2>1. i \in Nat
      BY <1>4
    <2>2. ASSUME NEW j \in EntryIds(bs[k]), Placed(bs, h, p, k, j), j <= i
          PROVE  ~(i < j + Count(h[p].size)) /\ j # i
      <3>1. h[p] # NoRange
        BY <2>2 DEF Placed
      <3>2. Count(h[p].size) \in Nat /\ Count(h[p].size) > 0 /\ j \in Nat
        BY <1>1, <1>4, <3>1, HolderFacts
      <3>3. j + Count(h[p].size) <= f \/ f + n <= j
        BY <1>13, <2>2
      <3> QED  BY <1>3, <1>4, <1>14, <2>1, <2>2, <3>2, <3>3
    <2>3. \A j \in 0 .. i - 1 : j \in EntryIds(bs[k]) /\ j <= i
      BY <1>4, <2>1
    <2>4. i <= i
      BY <2>1
    <2> QED  BY <2>2, <2>3, <2>4 DEF Continued
  <1>15. ASSUME NEW i \in EntryIds(bs[k])
         PROVE  i \in freed <=> f <= i /\ i < f + n
    <2>1. i \in Nat
      BY <1>4
    <2>2. ASSUME f <= i, i < f + n, NEW j \in f + 1 .. i
          PROVE  bs[k].allocated[j] = "cont"
      <3>1. j \in EntryIds(bs[k]) /\ f < j /\ f <= j /\ j < f + n /\ f # j
        BY <1>3, <1>4, <2>1, <2>2
      <3>2. Continued(bs, h, o, k, j) /\ ~Placed(bs, h, o, k, j)
        BY <1>12, <3>1 DEF n
      <3>3. \A p \in Owners \ {o} : ~Placed(bs, h, p, k, j)
        BY <1>14, <3>1
      <3>4. bs[k].allocated[j] = MarkOf(bs, h, k, j)
        BY <1>1, <3>1 DEF MarksInv
      <3> QED  BY <3>2, <3>3, <3>4 DEF MarkOf
    <2>3. ASSUME f + n <= i, \A j \in f + 1 .. i : bs[k].allocated[j] = "cont"
          PROVE  FALSE
      <3> DEFINE g == f + n
      <3>1. g \in Nat /\ f < g /\ g <= i /\ g \in f + 1 .. i /\ g \in EntryIds(bs[k])
        BY <1>3, <1>4, <2>1, <2>3
      <3>2. bs[k].allocated[g] = MarkOf(bs, h, k, g) /\ bs[k].allocated[g] = "cont"
        BY <1>1, <2>3, <3>1 DEF MarksInv
      <3> HIDE DEF g
      <3>3. PICK p \in Owners : Continued(bs, h, p, k, g)
        BY <3>2 DEF MarkOf
      <3>4. PICK j \in 0 .. g - 1 : Placed(bs, h, p, k, j) /\ g < j + Count(h[p].size)
        BY <3>3 DEF Continued
      <3>5. j \in Nat /\ j < g /\ j \in EntryIds(bs[k])
        BY <1>4, <2>1, <3>1
      <3>6. p # o
        <4>1. ASSUME p = o
              PROVE  FALSE
          <5>1. Continued(bs, h, o, k, g)
            BY <3>3, <4>1
          <5>2. g < f + Count(h[o].size)
            BY <1>12, <3>1, <5>1
          <5> QED  BY <1>3, <1>4, <3>1, <5>2 DEF n, g
        <4> QED  BY <4>1
      <3>7. j + Count(h[p].size) <= f \/ f + n <= j
        BY <1>13, <3>4, <3>5, <3>6
      <3>8. Count(h[p].size) \in Nat
        BY <1>1, <3>4, HolderFacts DEF Placed
      <3> QED  BY <1>3, <1>4, <3>1, <3>4, <3>5, <3>7, <3>8 DEF g
    <2>4. i \in freed <=> i >= f /\ \A j \in f + 1 .. i : bs[k].allocated[j] = "cont"
      BY DEF freed
    <2>5. (i < f + n \/ f + n <= i) /\ (i >= f <=> f <= i)
      BY <1>3, <1>4, <2>1
    <2> QED  BY <2>2, <2>3, <2>4, <2>5
  <1>16. HeldInv(bs2, h2)
    <2>1. ASSUME NEW p \in Owners, h2[p] # NoRange
          PROVE  /\ h2[p].size \in Sizes
                 /\ \E l \in 1 .. Len(bs2) :
                      \E i \in EntryIds(bs2[l]) : Placed(bs2, h2, p, l, i)
      <3>1. p # o /\ h[p] # NoRange /\ h2[p] = h[p]
        BY <1>8, <2>1
      <3>2. PICK l \in 1 .. Len(bs) : \E i \in EntryIds(bs[l]) : Placed(bs, h, p, l, i)
        BY <1>1, <3>1 DEF HeldInv
      <3>3. \E i \in EntryIds(bs2[l]) : Placed(bs2, h2, p, l, i)
        BY <1>9, <1>10, <3>1, <3>2
      <3>4. h2[p].size \in Sizes
        BY <1>1, <3>1 DEF HeldInv
      <3> QED  BY <1>7, <3>3, <3>4
    <2> QED  BY <1>8, <2>1 DEF HeldInv
  <1>17. ApartInv(bs2, h2)
    <2> SUFFICES ASSUME NEW p \in Owners, NEW q \in Owners, p # q,
                        NEW l \in 1 .. Len(bs2),
                        NEW i \in EntryIds(bs2[l]), NEW j \in EntryIds(bs2[l]),
                        Placed(bs2, h2, p, l, i), Placed(bs2, h2, q, l, j)
                 PROVE  i + Count(h2[p].size) <= j \/ j + Count(h2[q].size) <= i
      BY DEF ApartInv
    <2>1. l \in 1 .. Len(bs) /\ i \in EntryIds(bs[l]) /\ j \in EntryIds(bs[l])
      BY <1>7, <1>9
    <2>2. p # o /\ q # o
      <3>1. ~Placed(bs2, h2, o, l, i) /\ ~Placed(bs2, h2, o, l, j)
        BY <1>11, <2>1
      <3> QED  BY <3>1
    <2>3. Placed(bs, h, p, l, i) /\ Placed(bs, h, q, l, j) /\ h2[p] = h[p] /\ h2[q] = h[q]
      BY <1>8, <1>10, <2>1, <2>2
    <2> QED  BY <1>1, <2>1, <2>3 DEF ApartInv
  <1>18. MarksInv(bs2, h2)
    <2> SUFFICES ASSUME NEW l \in 1 .. Len(bs), NEW i \in EntryIds(bs[l])
                 PROVE  bs2[l].allocated[i] = MarkOf(bs2, h2, l, i)
      BY <1>7, <1>9 DEF MarksInv
    <2>1. bs[l].allocated[i] = MarkOf(bs, h, l, i)
      BY <1>1 DEF MarksInv
    <2>2. \A p \in Owners \ {o} : /\ Placed(bs2, h2, p, l, i) <=> Placed(bs, h, p, l, i)
                                  /\ Continued(bs2, h2, p, l, i) <=> Continued(bs, h, p, l, i)
      BY <1>10
    <2>3. CASE l = k /\ i \in freed
      <3>1. bs2[l].allocated[i] = "free"
        BY <1>7, <2>3 DEF a
      <3>2. f <= i /\ i < f + n
        BY <1>15, <2>3
      <3>3. \A p \in Owners \ {o} : ~Placed(bs, h, p, l, i) /\ ~Continued(bs, h, p, l, i)
        BY <1>14, <2>3, <3>2
      <3>4. ASSUME NEW p \in Owners
            PROVE  ~Placed(bs2, h2, p, l, i) /\ ~Continued(bs2, h2, p, l, i)
        <4>1. CASE p = o
          BY <1>11, <4>1
        <4>2. CASE p # o
          BY <2>2, <3>3, <4>2
        <4> QED  BY <4>1, <4>2
      <3> QED  BY <3>1, <3>4 DEF MarkOf
    <2>4. CASE ~(l = k /\ i \in freed)
      <3>1. bs2[l].allocated[i] = bs[l].allocated[i]
        BY <1>7, <2>4 DEF a
      <3>2. i \in Nat
        BY <1>1, Geometry DEF BlocksInv
      <3>3. k = l => ~(f <= i /\ i < f + n)
        BY <1>15, <2>4
      <3>4. ~Placed(bs, h, o, l, i)
        BY <1>3, <1>4, <1>12, <3>2, <3>3
      <3>5. ~Continued(bs, h, o, l, i)
        <4>1. f < i => f <= i
          BY <1>4, <3>2
        <4> QED  BY <1>12, <3>3, <4>1 DEF n
      <3>6. ASSUME NEW p \in Owners
            PROVE  /\ Placed(bs2, h2, p, l, i) <=> Placed(bs, h, p, l, i)
                   /\ Continued(bs2, h2, p, l, i) <=> Continued(bs, h, p, l, i)
        <4>1. CASE p = o
          BY <1>11, <3>4, <3>5, <4>1
        <4>2. CASE p # o
          BY <2>2, <4>2
        <4> QED  BY <4>1, <4>2
      <3> QED  BY <2>1, <3>1, <3>6 DEF MarkOf
    <2> QED  BY <2>3, <2>4
  <1> QED  BY <1>5, <1>7, <1>16, <1>17, <1>18 DEF HeapInv, h2
-----------------------------------------------------------------------------
(* A new block. *)

LEMMA WholePages ==
  ASSUME NEW size \in Nat
  PROVE  /\ PagesFor(size) \in Nat \ {0}
         /\ NewBlockSize(size) = PagesFor(size) * PAGE_SIZE
  <1> DEFINE P == PAGE_SIZE
             B == BLOCK_ALLOC_SIZE
             mult == ENTRIES_PER_BYTE * ALLOC_ALIGN
             x == (HEADER * (mult - 1)) + (size * mult)
             q == DivCeil(x \div (mult - 1), P)
  <1>1. P \in Nat \ {0} /\ B \in Nat \ {0}
    BY Numbers
  <1>2. mult \in Nat /\ mult - 1 \in Nat \ {0}
    <2>1. 1 * ALLOC_ALIGN < ENTRIES_PER_BYTE * ALLOC_ALIGN /\ mult \in Nat
      <3>1. (1 * ALLOC_ALIGN) + ALLOC_ALIGN <= ENTRIES_PER_BYTE * ALLOC_ALIGN
        BY Numbers, Products
      <3>2. mult \in Nat
        BY Numbers, Products
      <3> QED  BY <3>1, <3>2, Numbers
    <2>2. 1 * ALLOC_ALIGN = ALLOC_ALIGN /\ ALLOC_ALIGN >= 1 /\ ALLOC_ALIGN \in Nat
      BY Numbers
    <2> HIDE DEF mult
    <2>3. ALLOC_ALIGN < mult
      BY <2>1, <2>2 DEF mult
    <2> QED  BY <2>1, <2>2, <2>3
  <1>3. x \in Nat
    <2> HIDE DEF mult
    <2>1. HEADER * (mult - 1) \in Nat /\ size * mult \in Nat
      BY <1>2, Numbers, Products
    <2> QED  BY <2>1
  <1>4. q \in Nat
    <2> HIDE DEF mult, x
    <2>1. x \div (mult - 1) \in Nat
      BY <1>2, <1>3, DivMod
    <2> QED  BY <1>1, <2>1, CeilFacts
  <1>5. BlockSizeForBigAlloc(size) = q * P
    BY DEF BlockSizeForBigAlloc
  <1> HIDE DEF q
  <1>6. \E n \in Nat \ {0} : NewBlockSize(size) = n * P
    <2>1. CASE B < q * P
      <3>1. NewBlockSize(size) = q * P
        BY <1>5, <2>1 DEF NewBlockSize
      <3>2. q # 0
        BY <1>1, <2>1
      <3> QED  BY <1>4, <3>1, <3>2
    <2>2. CASE ~(B < q * P)
      <3>1. NewBlockSize(size) = B
        BY <1>5, <2>2 DEF NewBlockSize
      <3>2. B = (B \div P) * P + (B % P) /\ B \div P \in Nat
        BY <1>1, DivMod
      <3>3. B % P = 0
        BY LayoutAssumption
      <3> DEFINE n == B \div P
      <3>4. n \in Nat /\ B = (n * P) + 0
        BY <3>2, <3>3
      <3> HIDE DEF n
      <3>5. B = n * P
        BY <1>1, <3>4, Products
      <3>6. n # 0
        BY <1>1, <3>5
      <3> QED  BY <3>1, <3>4, <3>5, <3>6
    <2> QED  BY <2>1, <2>2
  <1>7. PICK n \in Nat \ {0} : NewBlockSize(size) = n * P
    BY <1>6
  <1>8. PagesFor(size) = n
    BY <1>1, <1>7, MultipleFacts DEF PagesFor
  <1> QED  BY <1>7, <1>8

LEMMA NewBlockIsBlock ==
  ASSUME NEW page \in Nat \ {0}, NEW pages \in Nat \ {0}
  PROVE  LET b == NewBlock(page, pages * PAGE_SIZE)
         IN  /\ BlockOK(b)
             /\ b.addr = page * PAGE_SIZE /\ b.size = pages * PAGE_SIZE
             /\ b.addr + b.size = (page + pages) * PAGE_SIZE
             /\ \A i \in EntryIds(b) : b.allocated[i] = "free"
  <1> DEFINE size == pages * PAGE_SIZE
             b == NewBlock(page, size)
             free == [i \in 0 .. Entries(size) - 1 |-> "free"]
  <1>1. b.addr = page * PAGE_SIZE /\ b.size = size /\ b.allocated = free
    BY DEF NewBlock
  <1>2. page * PAGE_SIZE \in Nat /\ size \in Nat
    BY Numbers, Products
  <1>3. Entries(size) \in Nat
    BY BlockFacts
  <1>4. EntryIds(b) = 0 .. Entries(size) - 1
    BY <1>1 DEF EntryIds
  <1>5. free \in [0 .. Entries(size) - 1 -> Marks]
    BY DEF Marks
  <1>6. free \in UNION {[0 .. n - 1 -> Marks] : n \in Nat}
    BY <1>3, <1>5, Zenon
  <1>7. b = [addr |-> page * PAGE_SIZE, size |-> size, allocated |-> free]
    BY DEF NewBlock
  <1>8. b \in BlockRecords
    <2> HIDE DEF b, free, size
    <2> QED  BY <1>2, <1>6, <1>7 DEF BlockRecords
  <1>9. \A i \in EntryIds(b) : b.allocated[i] = "free"
    BY <1>1, <1>4
  <1>10. (page + pages) * PAGE_SIZE = (page * PAGE_SIZE) + size
    BY Numbers, Products
  <1>11. BlockOK(b)
    <2> HIDE DEF b, free
    <2> QED  BY <1>1, <1>4, <1>5, <1>8 DEF BlockOK, size
  <1> QED  BY <1>1, <1>9, <1>10, <1>11

(* A block at the end of the list disturbs nobody. *)
LEMMA AppendKeeps ==
  ASSUME NEW bs, NEW h, NEW np, HeapInv(bs, h, np), NEW pages \in Nat \ {0},
         np + pages <= PoolPages + 1
  PROVE  LET bs2 == Append(bs, NewBlock(np, pages * PAGE_SIZE))
         IN  HeapInv(bs2, h, np + pages) /\ Len(bs2) = Len(bs) + 1
  <1> DEFINE b == NewBlock(np, pages * PAGE_SIZE)
             bs2 == Append(bs, b)
             m == Len(bs) + 1
  <1>1. BlocksInv(bs, np) /\ HeldInv(bs, h) /\ ApartInv(bs, h) /\ MarksInv(bs, h)
    BY DEF HeapInv
  <1>2. bs \in Seq(BlockRecords) /\ np \in Nat \ {0}
    BY <1>1 DEF BlocksInv
  <1>3. /\ BlockOK(b)
        /\ b.addr = np * PAGE_SIZE /\ b.size = pages * PAGE_SIZE
        /\ b.addr + b.size = (np + pages) * PAGE_SIZE
        /\ \A i \in EntryIds(b) : b.allocated[i] = "free"
    BY <1>2, NewBlockIsBlock
  <1>4. b \in BlockRecords
    BY <1>3 DEF BlockOK
  <1> HIDE DEF b
  <1>5. /\ bs2 \in Seq(BlockRecords) /\ Len(bs2) = m /\ Len(bs) \in Nat
        /\ \A l \in 1 .. Len(bs) : bs2[l] = bs[l]
        /\ bs2[m] = b
    BY <1>2, <1>4, AppendProperties, LenProperties
  <1> HIDE DEF bs2
  <1>6. 1 .. m = (1 .. Len(bs)) \cup {m}
    BY <1>5
  <1>7. np * PAGE_SIZE <= (np + pages) * PAGE_SIZE
    BY <1>2, Numbers, Products
  <1>8. \A l \in 1 .. m :
          BlockOK(bs2[l]) /\ bs2[l].addr + bs2[l].size <= (np + pages) * PAGE_SIZE
    <2>1. ASSUME NEW l \in 1 .. Len(bs)
          PROVE  BlockOK(bs2[l]) /\ bs2[l].addr + bs2[l].size <= (np + pages) * PAGE_SIZE
      <3>1. bs2[l] = bs[l] /\ BlockOK(bs[l]) /\ bs[l].addr + bs[l].size <= np * PAGE_SIZE
        BY <1>1, <1>5 DEF BlocksInv
      <3>2. bs[l].addr + bs[l].size \in Nat
        BY <3>1, Geometry
      <3>3. np * PAGE_SIZE \in Nat /\ (np + pages) * PAGE_SIZE \in Nat
        BY <1>2, Numbers, Products
      <3> DEFINE x == bs[l].addr + bs[l].size
                 y == np * PAGE_SIZE
                 z == (np + pages) * PAGE_SIZE
      <3>4. x \in Nat /\ y \in Nat /\ z \in Nat /\ x <= y /\ y <= z
        BY <1>7, <3>1, <3>2, <3>3
      <3> HIDE DEF x, y, z
      <3>5. x <= z
        BY <3>4
      <3> QED  BY <3>1, <3>5 DEF x, z
    <2>2. BlockOK(bs2[m]) /\ bs2[m].addr + bs2[m].size <= (np + pages) * PAGE_SIZE
      <3>1. (np + pages) * PAGE_SIZE \in Nat
        BY <1>2, Numbers, Products
      <3> QED  BY <1>3, <1>5, <3>1
    <2> QED  BY <1>6, <2>1, <2>2
  <1>9. \A k \in 1 .. m : \A l \in k + 1 .. m : bs2[k].addr + bs2[k].size <= bs2[l].addr
    <2> TAKE k \in 1 .. m
    <2> TAKE l \in k + 1 .. m
    <2>1. k \in 1 .. Len(bs) /\ l \in 1 .. m
      BY <1>5
    <2>2. CASE l = m
      BY <1>1, <1>3, <1>5, <2>1, <2>2 DEF BlocksInv
    <2>3. CASE l # m
      <3>1. l \in k + 1 .. Len(bs) /\ l \in 1 .. Len(bs)
        BY <1>5, <2>1, <2>3
      <3> QED  BY <1>1, <1>5, <2>1, <3>1 DEF BlocksInv
    <2> QED  BY <2>2, <2>3
  <1>10. BlocksInv(bs2, np + pages)
    <2>1. np + pages \in Nat \ {0}
      BY <1>2
    <2> QED  BY <1>5, <1>8, <1>9, <2>1 DEF BlocksInv
  <1>11. ASSUME NEW o, NEW l \in 1 .. Len(bs)
         PROVE  /\ \A i : Placed(bs2, h, o, l, i) <=> Placed(bs, h, o, l, i)
                /\ \A i : Continued(bs2, h, o, l, i) <=> Continued(bs, h, o, l, i)
    <2>1. bs2[l].addr = bs[l].addr /\ bs2[l].size = bs[l].size
      BY <1>5
    <2> QED  BY <2>1, SamePlaces
  <1>12. ASSUME NEW o \in Owners, NEW i \in EntryIds(b)
         PROVE  ~Placed(bs2, h, o, m, i) /\ ~Continued(bs2, h, o, m, i)
    <2>1. CASE h[o] = NoRange
      BY <2>1 DEF Placed, Continued
    <2>2. CASE h[o] # NoRange
      <3>1. PICK l \in 1 .. Len(bs) : \E j \in EntryIds(bs[l]) : Placed(bs, h, o, l, j)
        BY <1>1, <2>2, HolderFacts
      <3>2. PICK j \in EntryIds(bs[l]) : Placed(bs, h, o, l, j)
        BY <3>1
      <3>3. Placed(bs2, h, o, l, j) /\ j \in EntryIds(bs2[l]) /\ i \in EntryIds(bs2[m])
        BY <1>5, <1>11, <3>2
      <3>4. l # m /\ l \in 1 .. Len(bs2) /\ m \in 1 .. Len(bs2)
        BY <1>5, <1>6
      <3>5. PICK last : BlocksInv(bs2, last)
        BY <1>10
      <3> HIDE DEF m
      <3>6. Placed(bs2, h, o, m, i) => l = m
        BY <3>3, <3>4, <3>5, PlacedOnce
      <3>7. Continued(bs2, h, o, m, i) => l = m
        BY <3>3, <3>4, <3>5, ContinuedPlace, ZenonT(30)
      <3> QED  BY <3>4, <3>6, <3>7
    <2> QED  BY <2>1, <2>2
  <1>13. HeldInv(bs2, h)
    <2> SUFFICES ASSUME NEW o \in Owners, h[o] # NoRange
                 PROVE  \E l \in 1 .. Len(bs2) :
                          \E i \in EntryIds(bs2[l]) : Placed(bs2, h, o, l, i)
      BY <1>1 DEF HeldInv
    <2>1. PICK l \in 1 .. Len(bs) : \E j \in EntryIds(bs[l]) : Placed(bs, h, o, l, j)
      BY <1>1, HolderFacts
    <2>2. \E j \in EntryIds(bs2[l]) : Placed(bs2, h, o, l, j)
      BY <1>5, <1>11, <2>1
    <2> QED  BY <1>5, <1>6, <2>2
  <1>14. ApartInv(bs2, h)
    <2> SUFFICES ASSUME NEW p \in Owners, NEW q \in Owners, p # q,
                        NEW l \in 1 .. Len(bs2),
                        NEW i \in EntryIds(bs2[l]), NEW j \in EntryIds(bs2[l]),
                        Placed(bs2, h, p, l, i), Placed(bs2, h, q, l, j)
                 PROVE  i + Count(h[p].size) <= j \/ j + Count(h[q].size) <= i
      BY DEF ApartInv
    <2>1. l # m
      BY <1>5, <1>12
    <2>2. l \in 1 .. Len(bs)
      BY <1>5, <1>6, <2>1
    <2>3. Placed(bs, h, p, l, i) /\ Placed(bs, h, q, l, j) /\ EntryIds(bs2[l]) = EntryIds(bs[l])
      BY <1>5, <1>11, <2>2
    <2> QED  BY <1>1, <2>2, <2>3 DEF ApartInv
  <1>15. MarksInv(bs2, h)
    <2>1. ASSUME NEW l \in 1 .. Len(bs), NEW i \in EntryIds(bs2[l])
          PROVE  bs2[l].allocated[i] = MarkOf(bs2, h, l, i)
      <3>1. bs2[l] = bs[l] /\ bs[l].allocated[i] = MarkOf(bs, h, l, i)
        BY <1>1, <1>5 DEF MarksInv
      <3>2. MarkOf(bs2, h, l, i) = MarkOf(bs, h, l, i)
        BY <1>11 DEF MarkOf
      <3> QED  BY <3>1, <3>2
    <2>2. ASSUME NEW i \in EntryIds(bs2[m])
          PROVE  bs2[m].allocated[i] = MarkOf(bs2, h, m, i)
      BY <1>3, <1>5, <1>12 DEF MarkOf
    <2> QED  BY <1>5, <1>6, <2>1, <2>2 DEF MarksInv
  <1> QED  BY <1>5, <1>10, <1>13, <1>14, <1>15 DEF HeapInv, bs2, b
-----------------------------------------------------------------------------
(* The invariant holds at first and every step keeps it. *)

LEMMA InitIInv == Init => IInv
  <1> SUFFICES ASSUME Init
               PROVE  IInv
    OBVIOUS
  <1> DEFINE pages == BLOCK_ALLOC_SIZE \div PAGE_SIZE
             none == [o \in Owners |-> NoRange]
  <1>1. pages \in Nat \ {0} /\ BLOCK_ALLOC_SIZE = pages * PAGE_SIZE
    <2>1. /\ BLOCK_ALLOC_SIZE = pages * PAGE_SIZE + (BLOCK_ALLOC_SIZE % PAGE_SIZE)
          /\ pages \in Nat
      BY Numbers, DivMod
    <2>2. BLOCK_ALLOC_SIZE % PAGE_SIZE = 0
      BY LayoutAssumption
    <2> HIDE DEF pages
    <2>3. BLOCK_ALLOC_SIZE = (pages * PAGE_SIZE) + 0 /\ pages * PAGE_SIZE \in Nat
      BY <2>1, <2>2, Numbers, Products
    <2>4. BLOCK_ALLOC_SIZE = pages * PAGE_SIZE
      BY <2>3
    <2>5. pages # 0
      BY <2>4, Numbers
    <2> QED  BY <2>1, <2>4, <2>5
  <1>2. /\ 1 + pages <= PoolPages + 1 /\ 1 <= PoolPages + 1
        /\ held = none /\ nextPage = 1 + pages /\ status = "running"
    <2>1. pages <= PoolPages /\ PoolPages \in Nat
      BY RequestAssumption
    <2>2. held = none /\ nextPage = 1 + pages /\ status = "running"
      BY DEF Init
    <2> HIDE DEF pages
    <2> QED  BY <1>1, <2>1, <2>2
  <1>3. blocks = Append(<<>>, NewBlock(1, BLOCK_ALLOC_SIZE))
    BY DEF Init
  <1> HIDE DEF pages
  <1>4. HeapInv(<<>>, none, 1)
    <2>1. Len(<<>>) = 0 /\ <<>> \in Seq(BlockRecords) /\ 1 .. 0 = {}
      BY EmptySeq
    <2>2. BlocksInv(<<>>, 1)
      BY <1>2, <2>1 DEF BlocksInv
    <2>3. HeldInv(<<>>, none)
      BY DEF HeldInv, NoRange
    <2>4. ApartInv(<<>>, none) /\ MarksInv(<<>>, none)
      BY <2>1 DEF ApartInv, MarksInv
    <2> QED  BY <2>2, <2>3, <2>4 DEF HeapInv
  <1>5. HeapInv(Append(<<>>, NewBlock(1, pages * PAGE_SIZE)), none, 1 + pages)
    BY <1>1, <1>2, <1>4, AppendKeeps
  <1> QED  BY <1>1, <1>2, <1>3, <1>5 DEF IInv

LEMMA BlocksDomain ==
  ASSUME IInv
  PROVE  /\ HeapInv(blocks, held, nextPage)
         /\ blocks \in Seq(BlockRecords)
         /\ DOMAIN blocks = 1 .. Len(blocks) /\ Len(blocks) \in Nat
         /\ nextPage \in Nat \ {0}
         /\ \A k \in DOMAIN blocks : BlockOK(blocks[k]) /\ blocks[k] \in BlockRecords
  <1>1. HeapInv(blocks, held, nextPage) /\ BlocksInv(blocks, nextPage)
    BY DEF IInv, HeapInv
  <1>2. blocks \in Seq(BlockRecords)
    BY <1>1 DEF BlocksInv
  <1>3. DOMAIN blocks = 1 .. Len(blocks) /\ Len(blocks) \in Nat
    BY <1>2, LenProperties
  <1> QED  BY <1>1, <1>2, <1>3 DEF BlocksInv, BlockOK

LEMMA HeapAllocateKeeps ==
  ASSUME IInv, NEW o \in Owners, NEW size \in Sizes, HeapAllocate(o, size)
  PROVE  IInv'
  <1>1. PICK k \in DOMAIN blocks :
          /\ HasRoom(blocks[k], size)
          /\ blocks' = [blocks EXCEPT ![k] = Take(@, size)]
          /\ held' = [held EXCEPT ![o] =
               [ptr |-> IndexToPtr(blocks[k], FirstRun(blocks[k], size)), size |-> size]]
    BY DEF HeapAllocate
  <1>2. held[o] = NoRange /\ nextPage' = nextPage /\ status' = status
    BY DEF HeapAllocate
  <1>3. k \in 1 .. Len(blocks) /\ HeapInv(blocks, held, nextPage)
    BY BlocksDomain
  <1>4. HeapInv(blocks', held', nextPage)
    BY <1>1, <1>2, <1>3, TakeKeeps
  <1> QED  BY <1>2, <1>4 DEF IInv

LEMMA ChangeLast ==
  ASSUME NEW S, NEW s \in Seq(S), NEW a \in S, NEW b \in S
  PROVE  [Append(s, a) EXCEPT ![Len(s) + 1] = b] = Append(s, b)
  <1> DEFINE s1 == Append(s, a)
             s2 == Append(s, b)
             m == Len(s) + 1
             s3 == [s1 EXCEPT ![m] = b]
  <1>1. /\ s1 \in Seq(S) /\ Len(s1) = m /\ s2 \in Seq(S) /\ Len(s2) = m
        /\ Len(s) \in Nat
        /\ \A i \in 1 .. Len(s) : s1[i] = s[i] /\ s2[i] = s[i]
        /\ s2[m] = b
    BY AppendProperties, LenProperties
  <1> HIDE DEF s1, s2
  <1>2. m \in 1 .. Len(s1)
    BY <1>1
  <1>3. /\ s3 \in Seq(S) /\ Len(s3) = m
        /\ \A i \in 1 .. m : s3[i] = IF i = m THEN b ELSE s1[i]
    BY <1>1, <1>2, ExceptSeq
  <1> HIDE DEF s3
  <1>4. \A i \in 1 .. m : s3[i] = s2[i]
    <2> TAKE i \in 1 .. m
    <2>1. i = m \/ i \in 1 .. Len(s)
      BY <1>1
    <2> QED  BY <1>1, <1>3, <2>1
  <1>5. s3 = s2
    BY <1>1, <1>3, <1>4, SeqEqual
  <1> QED  BY <1>5 DEF s1, s2, s3

LEMMA TakeIsBlock ==
  ASSUME NEW b, BlockOK(b), NEW size
  PROVE  /\ Take(b, size) \in BlockRecords
         /\ Take(b, size).addr = b.addr /\ Take(b, size).size = b.size
  <1> DEFINE first == FirstRun(b, size)
             last == first + DivCeil(size, ALLOC_ALIGN) - 1
             a == [i \in EntryIds(b) |->
                     IF i = first THEN "start"
                     ELSE IF i \in first + 1 .. last THEN "cont" ELSE b.allocated[i]]
  <1>1. Take(b, size) = [b EXCEPT !.allocated = a]
    BY DEF Take
  <1>2. b \in BlockRecords /\ b.allocated \in [EntryIds(b) -> Marks]
    BY DEF BlockOK
  <1>3. a \in [EntryIds(b) -> Marks]
    <2>1. \A i \in EntryIds(b) : b.allocated[i] \in Marks
      BY <1>2
    <2> HIDE DEF first, last
    <2> QED  BY <2>1 DEF Marks
  <1> HIDE DEF a
  <1>4. a \in UNION {[0 .. n - 1 -> Marks] : n \in Nat}
    <2>1. Entries(b.size) \in Nat /\ a \in [0 .. Entries(b.size) - 1 -> Marks]
      BY <1>3, Geometry DEF EntryIds
    <2> QED  BY <2>1, Zenon
  <1> QED  BY <1>1, <1>2, <1>4 DEF BlockRecords

LEMMA HeapAllocateInNewBlockKeeps ==
  ASSUME IInv, NEW o \in Owners, NEW size \in Sizes, HeapAllocateInNewBlock(o, size)
  PROVE  IInv'
  <1> DEFINE pages == PagesFor(size)
             b == NewBlock(nextPage, NewBlockSize(size))
             bs == Append(blocks, b)
             r == [ptr |-> IndexToPtr(b, FirstRun(b, size)), size |-> size]
  <1>1. /\ held[o] = NoRange
        /\ nextPage + pages - 1 <= PoolPages
        /\ nextPage' = nextPage + pages
        /\ status' = status
        /\ IF HasRoom(b, size)
           THEN /\ blocks' = Append(blocks, Take(b, size))
                /\ held' = [held EXCEPT ![o] = r]
           ELSE blocks' = bs /\ held' = held
    BY DEF HeapAllocateInNewBlock
  <1>2. size \in Nat /\ PoolPages \in Nat
    BY RequestAssumption
  <1>3. /\ HeapInv(blocks, held, nextPage) /\ blocks \in Seq(BlockRecords)
        /\ Len(blocks) \in Nat /\ nextPage \in Nat \ {0}
    BY BlocksDomain
  <1>4. pages \in Nat \ {0} /\ NewBlockSize(size) = pages * PAGE_SIZE
    BY <1>2, WholePages
  <1> HIDE DEF pages
  <1>5. nextPage + pages <= PoolPages + 1
    BY <1>1, <1>2, <1>3, <1>4
  <1>6. HeapInv(bs, held, nextPage + pages) /\ Len(bs) = Len(blocks) + 1
    BY <1>3, <1>4, <1>5, AppendKeeps
  <1>7. BlockOK(b) /\ b \in BlockRecords
    <2>1. BlockOK(NewBlock(nextPage, pages * PAGE_SIZE))
      BY <1>3, <1>4, NewBlockIsBlock
    <2>2. BlockOK(b)
      BY <1>4, <2>1
    <2> QED  BY <2>2 DEF BlockOK
  <1>8. CASE HasRoom(b, size)
    <2> DEFINE m == Len(blocks) + 1
    <2>1. m \in 1 .. Len(bs) /\ bs[m] = b
      BY <1>3, <1>6, <1>7, AppendProperties
    <2>2. Take(b, size) \in BlockRecords
      BY <1>7, TakeIsBlock
    <2>3. [bs EXCEPT ![m] = Take(b, size)] = Append(blocks, Take(b, size))
      BY <1>3, <1>7, <2>2, ChangeLast
    <2> HIDE DEF bs, b, m
    <2>4. HasRoom(bs[m], size) /\ held[o] = NoRange
      BY <1>1, <1>8, <2>1
    <2>5. HeapInv([bs EXCEPT ![m] = Take(@, size)],
                  [held EXCEPT ![o] =
                     [ptr |-> IndexToPtr(bs[m], FirstRun(bs[m], size)), size |-> size]],
                  nextPage + pages)
      BY <1>6, <2>1, <2>4, TakeKeeps
    <2>6. [bs EXCEPT ![m] = Take(@, size)] = [bs EXCEPT ![m] = Take(b, size)]
      BY <2>1
    <2>7. HeapInv(blocks', held', nextPage')
      BY <1>1, <1>8, <2>1, <2>3, <2>5, <2>6
    <2> QED  BY <1>1, <2>7 DEF IInv
  <1>9. CASE ~HasRoom(b, size)
    BY <1>1, <1>6, <1>9 DEF IInv
  <1> QED  BY <1>8, <1>9
(* A pointer that heap_free accepts is held by exactly one owner, and the  *)
(* block that contains it is the one its entry is in.                      *)
LEMMA FreedIsHeld ==
  ASSUME IInv, NEW ptr \in FreedPointers, NEW k \in DOMAIN blocks,
         Contains(blocks[k], ptr), StartsAllocation(ptr, k)
  PROVE  /\ PtrToIndex(blocks[k], ptr) \in EntryIds(blocks[k])
         /\ \E o \in Owners :
              /\ Placed(blocks, held, o, k, PtrToIndex(blocks[k], ptr))
              /\ \A p \in Owners : held[p].ptr = ptr /\ held[p] # NoRange <=> p = o
  <1>1. /\ BlocksInv(blocks, nextPage) /\ HeldInv(blocks, held)
        /\ ApartInv(blocks, held) /\ MarksInv(blocks, held)
    BY DEF IInv, HeapInv
  <1>2. /\ DOMAIN blocks = 1 .. Len(blocks) /\ Len(blocks) \in Nat
        /\ nextPage \in Nat \ {0}
        /\ \A l \in DOMAIN blocks : BlockOK(blocks[l])
    BY BlocksDomain
  <1>3. blocks[k].addr < ptr /\ ptr < blocks[k].addr + blocks[k].size
    BY DEF Contains
  <1>4. blocks[k].addr \in Nat /\ blocks[k].size \in Nat
    BY <1>2, Geometry
  <1>5. PICK l \in DOMAIN blocks : \E i \in EntryIds(blocks[l]) : ptr = IndexToPtr(blocks[l], i)
    <2>1. ASSUME ptr = nextPage * PAGE_SIZE
          PROVE  FALSE
      <3>1. nextPage * PAGE_SIZE \in Nat
        BY <1>2, Numbers, Products
      <3>2. blocks[k].addr + blocks[k].size <= nextPage * PAGE_SIZE
        BY <1>1, <1>2 DEF BlocksInv
      <3> QED  BY <1>3, <1>4, <2>1, <3>1, <3>2
    <2>2. ptr \notin {nextPage * PAGE_SIZE}
      BY <2>1
    <2> DEFINE all == UNION {{IndexToPtr(blocks[l], i) : i \in EntryIds(blocks[l])} :
                             l \in DOMAIN blocks}
    <2>3. FreedPointers = all \cup {nextPage * PAGE_SIZE}
      BY DEF FreedPointers
    <2> HIDE DEF all
    <2>4. ptr \in all
      BY <2>2, <2>3
    <2> QED  BY <2>4, Zenon DEF all
  <1>6. PICK i \in EntryIds(blocks[l]) : ptr = IndexToPtr(blocks[l], i)
    BY <1>5
  <1>7. /\ blocks[l].addr \in Nat /\ blocks[l].size \in Nat /\ ptr \in Nat
        /\ k \in Nat /\ l \in Nat
    <2>1. blocks[l].addr \in Nat /\ blocks[l].size \in Nat
      BY <1>2, Geometry
    <2>2. ptr \in Nat
      BY <1>2, <1>6, Geometry
    <2>3. k \in Nat /\ l \in Nat
      BY <1>2
    <2> QED  BY <2>1, <2>2, <2>3
  <1>8. blocks[l].addr < ptr
    <2>1. blocks[l].addr + HEADER + EntriesSize(blocks[l].size) <= ptr
      BY <1>2, <1>6, Geometry
    <2>2. EntriesSize(blocks[l].size) \in Nat
      BY <1>2, Geometry
    <2> QED  BY <1>7, <2>1, <2>2, Numbers
  <1>9. ptr <= blocks[l].addr + blocks[l].size
    <2>1. i + 0 <= Entries(blocks[l].size) /\ 0 \in Nat
      <3>1. i \in Nat /\ i < Entries(blocks[l].size) /\ Entries(blocks[l].size) \in Nat
        BY <1>2, Geometry
      <3> QED  BY <3>1
    <2>2. ptr + (0 * ALLOC_ALIGN) <= blocks[l].addr + blocks[l].size
      BY <1>2, <1>6, <2>1, Geometry
    <2>3. 0 * ALLOC_ALIGN = 0
      BY Numbers
    <2> QED  BY <1>7, <2>2, <2>3
  <1>10. ~(k < l)
    <2> SUFFICES ASSUME k < l
                 PROVE  FALSE
      OBVIOUS
    <2>1. blocks[k].addr + blocks[k].size <= blocks[l].addr
      BY <1>1, <1>2 DEF BlocksInv
    <2> QED  BY <1>3, <1>4, <1>7, <1>8, <2>1
  <1>11. ~(l < k)
    <2> SUFFICES ASSUME l < k
                 PROVE  FALSE
      OBVIOUS
    <2>1. blocks[l].addr + blocks[l].size <= blocks[k].addr
      BY <1>1, <1>2 DEF BlocksInv
    <2> QED  BY <1>3, <1>4, <1>7, <1>9, <2>1
  <1>12. k = l
    BY <1>7, <1>10, <1>11
  <1>13. PtrToIndex(blocks[k], ptr) = i
    BY <1>2, <1>6, <1>12, Geometry
  <1>14. MarkOf(blocks, held, k, i) = "start"
    BY <1>1, <1>2, <1>12, <1>13 DEF MarksInv, StartsAllocation
  <1>15. PICK o \in Owners : Placed(blocks, held, o, k, i)
    BY <1>14 DEF MarkOf
  <1>16. held[o].ptr = ptr /\ held[o] # NoRange
    BY <1>6, <1>12, <1>15 DEF Placed
  <1>17. ASSUME NEW p \in Owners, held[p].ptr = ptr, held[p] # NoRange, p # o
         PROVE  FALSE
    <2>1. PICK q \in 1 .. Len(blocks) :
            \E j \in EntryIds(blocks[q]) : Placed(blocks, held, p, q, j)
      BY <1>1, <1>17, HolderFacts
    <2>2. PICK j \in EntryIds(blocks[q]) : Placed(blocks, held, p, q, j)
      BY <2>1
    <2>3. IndexToPtr(blocks[q], j) = IndexToPtr(blocks[l], i)
      BY <1>6, <1>17, <2>2 DEF Placed
    <2>4. q = l /\ j = i
      BY <1>1, <1>2, <2>3, PointersDiffer, ZenonT(30)
    <2>5. i + Count(held[o].size) <= i \/ i + Count(held[p].size) <= i
      BY <1>1, <1>2, <1>12, <1>15, <1>17, <2>2, <2>4 DEF ApartInv
    <2>6. Count(held[o].size) \in Nat /\ Count(held[o].size) > 0
      BY <1>1, <1>16, HolderFacts
    <2>7. Count(held[p].size) \in Nat /\ Count(held[p].size) > 0
      BY <1>1, <1>17, HolderFacts
    <2>8. i \in Nat
      BY <1>2, Geometry
    <2> QED  BY <2>5, <2>6, <2>7, <2>8
  <1> QED  BY <1>12, <1>13, <1>15, <1>16, <1>17

LEMMA FreeClears ==
  ASSUME IInv, NEW ptr \in FreedPointers, HeapFree(ptr)
  PROVE  \E k \in DOMAIN blocks, o \in Owners : \E i \in EntryIds(blocks[k]) :
           /\ Placed(blocks, held, o, k, i)
           /\ blocks' = [blocks EXCEPT ![k] = Give(@, i)]
           /\ held' = [held EXCEPT ![o] = NoRange]
  <1>1. PICK k \in DOMAIN blocks :
          /\ FirstContaining(ptr, k) /\ StartsAllocation(ptr, k)
          /\ blocks' = [blocks EXCEPT ![k] = Give(@, PtrToIndex(@, ptr))]
    BY DEF HeapFree
  <1> DEFINE i == PtrToIndex(blocks[k], ptr)
  <1>2. Contains(blocks[k], ptr)
    BY <1>1 DEF FirstContaining
  <1>3. i \in EntryIds(blocks[k])
    BY <1>1, <1>2, FreedIsHeld
  <1>4. PICK o \in Owners :
          /\ Placed(blocks, held, o, k, i)
          /\ \A p \in Owners : held[p].ptr = ptr /\ held[p] # NoRange <=> p = o
    BY <1>1, <1>2, FreedIsHeld
  <1>5. held' = [p \in Owners |-> IF held[p].ptr = ptr THEN NoRange ELSE held[p]]
    BY DEF HeapFree
  <1>6. \A p \in Owners : (IF held[p].ptr = ptr THEN NoRange ELSE held[p])
                          = (IF p = o THEN NoRange ELSE held[p])
    BY <1>4
  <1>7. held \in [Owners -> [ptr : Nat, size : Nat]]
    BY DEF IInv, HeapInv, HeldInv
  <1> HIDE DEF i
  <1>8. held' = [held EXCEPT ![o] = NoRange]
    BY <1>5, <1>6, <1>7
  <1>9. blocks' = [blocks EXCEPT ![k] = Give(@, i)]
    BY <1>1 DEF i
  <1> QED  BY <1>3, <1>4, <1>8, <1>9

LEMMA HeapFreeKeeps ==
  ASSUME IInv, NEW ptr \in FreedPointers, HeapFree(ptr)
  PROVE  IInv'
  <1>1. PICK k \in DOMAIN blocks, o \in Owners :
          \E i \in EntryIds(blocks[k]) :
           /\ Placed(blocks, held, o, k, i)
           /\ blocks' = [blocks EXCEPT ![k] = Give(@, i)]
           /\ held' = [held EXCEPT ![o] = NoRange]
    BY FreeClears
  <1>2. PICK i \in EntryIds(blocks[k]) :
           /\ Placed(blocks, held, o, k, i)
           /\ blocks' = [blocks EXCEPT ![k] = Give(@, i)]
           /\ held' = [held EXCEPT ![o] = NoRange]
    BY <1>1
  <1>3. k \in 1 .. Len(blocks) /\ HeapInv(blocks, held, nextPage)
    BY BlocksDomain
  <1>4. HeapInv([blocks EXCEPT ![k] = Give(@, i)], [held EXCEPT ![o] = NoRange], nextPage)
    BY <1>2, <1>3, GiveKeeps
  <1>5. nextPage' = nextPage /\ status' = status
    BY DEF HeapFree
  <1> QED  BY <1>2, <1>4, <1>5 DEF IInv

(* Pages that others take only leave a gap before the next block. *)
LEMMA OtherAllocatePageKeeps ==
  ASSUME IInv, OtherAllocatePage
  PROVE  IInv'
  <1>1. /\ nextPage <= PoolPages /\ nextPage' = nextPage + 1
        /\ blocks' = blocks /\ status' = status /\ held' = held
    BY DEF OtherAllocatePage
  <1>2. BlocksInv(blocks, nextPage) /\ nextPage \in Nat \ {0} /\ PoolPages \in Nat
    BY RequestAssumption DEF IInv, HeapInv, BlocksInv
  <1>3. nextPage + 1 \in Nat \ {0} /\ nextPage + 1 <= PoolPages + 1
    BY <1>1, <1>2
  <1>4. nextPage * PAGE_SIZE <= (nextPage + 1) * PAGE_SIZE
    <2>1. nextPage <= nextPage + 1 /\ nextPage + 1 \in Nat
      BY <1>2
    <2> QED  BY <1>2, <2>1, Numbers, Products
  <1>5. nextPage * PAGE_SIZE \in Nat /\ (nextPage + 1) * PAGE_SIZE \in Nat
    BY <1>2, <1>3, Numbers, Products
  <1>6. \A k \in 1 .. Len(blocks) :
          blocks[k].addr + blocks[k].size <= (nextPage + 1) * PAGE_SIZE
    <2> TAKE k \in 1 .. Len(blocks)
    <2>1. BlockOK(blocks[k]) /\ blocks[k].addr + blocks[k].size <= nextPage * PAGE_SIZE
      BY <1>2 DEF BlocksInv
    <2>2. blocks[k].addr + blocks[k].size \in Nat
      BY <2>1, Geometry
    <2> QED  BY <1>4, <1>5, <2>1, <2>2
  <1>7. BlocksInv(blocks, nextPage + 1)
    BY <1>2, <1>3, <1>6 DEF BlocksInv
  <1> QED  BY <1>1, <1>7 DEF IInv, HeapInv

LEMMA NextIInv == IInv /\ [Next]_vars => IInv'
  <1> SUFFICES ASSUME IInv, [Next]_vars
               PROVE  IInv'
    OBVIOUS
  <1>1. ASSUME NEW o \in Owners, NEW size \in Sizes, HeapAllocate(o, size)
        PROVE  IInv'
    BY <1>1, HeapAllocateKeeps
  <1>2. ASSUME NEW o \in Owners, NEW size \in Sizes, HeapAllocateInNewBlock(o, size)
        PROVE  IInv'
    BY <1>2, HeapAllocateInNewBlockKeeps
  <1>3. ASSUME NEW o \in Owners, NEW size \in Sizes, HeapOutOfMemory(o, size)
        PROVE  IInv'
    BY <1>3 DEF HeapOutOfMemory, IInv
  <1>4. ASSUME NEW ptr \in FreedPointers, HeapFree(ptr)
        PROVE  IInv'
    BY <1>4, HeapFreeKeeps
  <1>5. ASSUME NEW ptr \in FreedPointers, PanicInvalidFree(ptr)
        PROVE  IInv'
    BY <1>5 DEF PanicInvalidFree, IInv
  <1>6. CASE OtherAllocatePage
    BY <1>6, OtherAllocatePageKeeps
  <1>7. CASE UNCHANGED vars
    BY <1>7 DEF vars, IInv
  <1> QED  BY <1>1, <1>2, <1>3, <1>4, <1>5, <1>6, <1>7 DEF Next

LEMMA Invariance == Spec => []IInv
  BY InitIInv, NextIInv, PTL DEF Spec
(* The bitmaps tell exactly what is held, whatever is asked for and freed, *)
(* in every order and for every layout (try_allocate, free_or_panic).      *)
THEOREM BitmapsAreExact == Spec => []BitmapMatchesHeld
  BY Invariance, MarksMatchHeld, PTL

-----------------------------------------------------------------------------
(* Types: pointers stay below the end of the memory. *)

LEMMA IInvTypeOK == IInv => TypeOK
  <1> SUFFICES ASSUME IInv
               PROVE  TypeOK
    OBVIOUS
  <1> DEFINE top == (PoolPages + 1) * PAGE_SIZE
  <1>1. /\ BlocksInv(blocks, nextPage) /\ HeldInv(blocks, held)
        /\ DOMAIN blocks = 1 .. Len(blocks) /\ nextPage \in Nat \ {0}
    BY BlocksDomain DEF IInv, HeapInv
  <1>2. top \in Nat /\ nextPage * PAGE_SIZE \in Nat /\ nextPage * PAGE_SIZE <= top
    <2>1. PoolPages + 1 \in Nat /\ nextPage <= PoolPages + 1
      BY <1>1, RequestAssumption DEF BlocksInv
    <2> QED  BY <1>1, <2>1, Numbers, Products
  <1>3. ASSUME NEW k \in 1 .. Len(blocks)
        PROVE  /\ BlockOK(blocks[k]) /\ blocks[k].addr \in Nat /\ blocks[k].size \in Nat
               /\ blocks[k].addr + blocks[k].size <= top
    <2>1. BlockOK(blocks[k]) /\ blocks[k].addr + blocks[k].size <= nextPage * PAGE_SIZE
      BY <1>1 DEF BlocksInv
    <2>2. blocks[k].addr \in Nat /\ blocks[k].size \in Nat
      BY <2>1, Geometry
    <2> DEFINE x == blocks[k].addr + blocks[k].size
               y == nextPage * PAGE_SIZE
    <2>3. x \in Nat /\ x <= y
      BY <2>1, <2>2
    <2> HIDE DEF x, y, top
    <2>4. x <= top
      BY <1>2, <2>3 DEF y
    <2> QED  BY <2>1, <2>2, <2>4 DEF x
  <1> HIDE DEF top
  <1>4. Pointers = 0 .. top
    BY DEF Pointers, top
  <1>5. \A k \in DOMAIN blocks : BlockTypeOK(blocks[k])
    <2> SUFFICES ASSUME NEW k \in 1 .. Len(blocks)
                 PROVE  BlockTypeOK(blocks[k])
      BY <1>1
    <2>1. blocks[k].addr \in Pointers /\ blocks[k].size \in Pointers
      BY <1>2, <1>3, <1>4
    <2>2. blocks[k].allocated \in [EntryIds(blocks[k]) -> Marks]
      BY <1>3 DEF BlockOK
    <2> QED  BY <2>1, <2>2 DEF BlockTypeOK, Marks
  <1>6. ASSUME NEW o \in Owners
        PROVE  held[o] \in [ptr : Pointers, size : Sizes \cup {0}]
    <2>1. CASE held[o] = NoRange
      BY <1>2, <1>4, <2>1 DEF NoRange
    <2>2. CASE held[o] # NoRange
      <3>1. held[o].size \in Sizes /\ held[o] \in [ptr : Nat, size : Nat]
        BY <1>1, <2>2 DEF HeldInv
      <3>2. PICK k \in 1 .. Len(blocks) :
              \E i \in EntryIds(blocks[k]) : Placed(blocks, held, o, k, i)
        BY <1>1, <2>2, HolderFacts
      <3>3. PICK i \in EntryIds(blocks[k]) : Placed(blocks, held, o, k, i)
        BY <3>2
      <3>4. i + 0 <= Entries(blocks[k].size) /\ 0 \in Nat
        <4>1. i \in Nat /\ i < Entries(blocks[k].size) /\ Entries(blocks[k].size) \in Nat
          BY <1>3, Geometry
        <4> QED  BY <4>1
      <3>5. IndexToPtr(blocks[k], i) + (0 * ALLOC_ALIGN) <= blocks[k].addr + blocks[k].size
        BY <1>3, <3>4, Geometry
      <3>6. held[o].ptr = IndexToPtr(blocks[k], i) /\ held[o].ptr \in Nat /\ 0 * ALLOC_ALIGN = 0
        BY <3>1, <3>3, Numbers DEF Placed
      <3>7. held[o].ptr \in Pointers
        BY <1>2, <1>3, <1>4, <3>5, <3>6
      <3> QED  BY <3>1, <3>7
    <2> QED  BY <2>1, <2>2
  <1>7. held \in [Owners -> [ptr : Pointers, size : Sizes \cup {0}]]
    BY <1>1, <1>6 DEF HeldInv
  <1>8. nextPage \in 0 .. PoolPages + 1
    BY <1>1, RequestAssumption DEF BlocksInv
  <1> QED  BY <1>5, <1>7, <1>8 DEF TypeOK, IInv

(* The heap's state is well typed: pointers and blocks lie in the pages    *)
(* that allocate_pages can hand out.                                       *)
THEOREM TypeCorrect == Spec => []TypeOK
  BY Invariance, IInvTypeOK, PTL

-----------------------------------------------------------------------------
(* The heap implements the abstract one. *)

(* A new block serves the request it was made for; true of the layout of   *)
(* the source, see NewBlockAlwaysServes.                                   *)
NewBlocksServe == \A size \in Sizes : NewBlockServes(size)

LEMMA NewBlockHasRoom ==
  ASSUME NewBlocksServe, NEW page \in Nat \ {0}, NEW size \in Sizes
  PROVE  HasRoom(NewBlock(page, NewBlockSize(size)), size)
  <1> DEFINE s == NewBlockSize(size)
             b == NewBlock(page, s)
             n == DivCeil(size, ALLOC_ALIGN)
  <1>1. size \in Nat /\ size > 0
    BY RequestAssumption
  <1>2. size < s /\ n <= Entries(s)
    BY DEF NewBlocksServe, NewBlockServes
  <1>3. b.size = s /\ EntryIds(b) = 0 .. Entries(s) - 1
        /\ \A i \in EntryIds(b) : b.allocated[i] = "free"
    BY DEF NewBlock, EntryIds
  <1>4. n \in Nat /\ n > 0
    BY <1>1, CountFacts DEF Count
  <1>5. Entries(s) \in Nat
    BY <1>1, WholePages, BlockFacts
  <1> HIDE DEF n, b, s
  <1>6. 0 \in EntryIds(b) /\ 0 + n <= Entries(b.size)
    BY <1>2, <1>3, <1>4, <1>5
  <1>7. \A j \in 0 .. 0 + n - 1 : b.allocated[j] = "free"
    <2> TAKE j \in 0 .. 0 + n - 1
    <2>1. j \in EntryIds(b)
      BY <1>2, <1>3, <1>4, <1>5
    <2> QED  BY <1>3, <2>1
  <1>8. 0 \in FreeRuns(b, size)
    BY <1>6, <1>7 DEF FreeRuns, n
  <1> QED  BY <1>2, <1>3, <1>8 DEF HasRoom, b, s

(* heap_allocate never returns null after it has added a block.            *)
THEOREM NewBlockServesItsRequest ==
  ASSUME NewBlocksServe
  PROVE  Spec => NewBlockIsEnough
  <1>1. IInv /\ [Next]_vars =>
          [\A o \in Owners, size \in Sizes :
             HeapAllocateInNewBlock(o, size) => held'[o] # NoRange]_vars
    <2> SUFFICES ASSUME IInv, NEW o \in Owners, NEW size \in Sizes,
                        HeapAllocateInNewBlock(o, size)
                 PROVE  held'[o] # NoRange
      OBVIOUS
    <2> DEFINE b == NewBlock(nextPage, NewBlockSize(size))
    <2>1. HasRoom(b, size)
      BY BlocksDomain, NewBlockHasRoom
    <2>2. held' = [held EXCEPT ![o] =
                     [ptr |-> IndexToPtr(b, FirstRun(b, size)), size |-> size]]
      BY <2>1 DEF HeapAllocateInNewBlock
    <2>3. held \in [Owners -> [ptr : Nat, size : Nat]] /\ size # 0
      BY RequestAssumption DEF IInv, HeapInv, HeldInv
    <2> HIDE DEF b
    <2> QED  BY <2>2, <2>3 DEF NoRange
  <1> QED  BY <1>1, Invariance, PTL DEF Spec, NewBlockIsEnough
(* The bytes of two holders lie one behind the other.                      *)
LEMMA RangesInOrder ==
  ASSUME NEW bs, NEW h, NEW np, HeapInv(bs, h, np),
         NEW o \in Owners, NEW p \in Owners,
         NEW k \in 1 .. Len(bs), NEW l \in 1 .. Len(bs),
         NEW i \in EntryIds(bs[k]), NEW j \in EntryIds(bs[l]),
         Placed(bs, h, o, k, i), Placed(bs, h, p, l, j),
         k < l \/ (k = l /\ i + Count(h[o].size) <= j)
  PROVE  h[o].ptr + h[o].size <= h[p].ptr
  <1> DEFINE c == Count(h[o].size)
             A == ALLOC_ALIGN
             x == h[o].ptr
             s == h[o].size
             y == h[p].ptr
             e == bs[k].addr + bs[k].size
  <1>1. BlocksInv(bs, np) /\ HeldInv(bs, h) /\ BlockOK(bs[k])
    BY DEF HeapInv, BlocksInv
  <1>2. h[o] # NoRange /\ h[p] # NoRange
    BY DEF Placed
  <1>3. /\ x \in Nat /\ s \in Nat /\ c \in Nat /\ c > 0 /\ s <= c * A
    BY <1>1, <1>2, HolderFacts
  <1>4. y \in Nat
    BY <1>1, <1>2, HolderFacts
  <1>5. /\ x = IndexToPtr(bs[k], i) /\ y = IndexToPtr(bs[l], j)
        /\ i + c <= Entries(bs[k].size)
    BY DEF Placed
  <1>6. c * A \in Nat
    BY <1>3, Numbers, Products
  <1>7. x + (c * A) <= e
    BY <1>1, <1>3, <1>5, Geometry
  <1>8. e \in Nat
    <2>1. bs[k].addr \in Nat /\ bs[k].size \in Nat
      BY <1>1, Geometry
    <2> QED  BY <2>1
  <1>9. i \in Nat /\ j \in Nat
    BY <1>1, Geometry DEF BlocksInv
  <1>10. CASE k < l
    <2>1. e < y
      BY <1>1, <1>5, <1>10, PointersApart
    <2> HIDE DEF x, s, y, e, c, A
    <2> QED  BY <1>3, <1>4, <1>6, <1>7, <1>8, <2>1, SMTT(30) DEF x, s, y
  <1>11. CASE k = l /\ i + c <= j
    <2> HIDE DEF c
    <2>1. j - i \in Nat /\ c <= j - i /\ i < j
      BY <1>3, <1>9, <1>11
    <2>2. IndexToPtr(bs[k], i) + ((j - i) * A) = IndexToPtr(bs[l], j)
      BY <1>1, <1>11, <2>1, PointersApart
    <2>3. x + ((j - i) * A) = y
      BY <1>5, <2>2
    <2>4. c * A <= (j - i) * A /\ (j - i) * A \in Nat
      BY <1>3, <2>1, Numbers, Products
    <2> HIDE DEF x, s, y, e, A
    <2> QED  BY <1>3, <1>4, <1>6, <2>3, <2>4, SMTT(30) DEF x, s, y
  <1> QED  BY <1>10, <1>11 DEF c

LEMMA BytesAre ==
  ASSUME NEW r
  PROVE  Heap!Bytes(r) = r.ptr .. r.ptr + r.size - 1
  BY DEF Heap!Bytes

LEMMA BytesApart ==
  ASSUME NEW bs, NEW h, NEW np, HeapInv(bs, h, np),
         NEW o \in Owners, NEW p \in Owners, o # p, h[o] # NoRange, h[p] # NoRange
  PROVE  Heap!Bytes(h[o]) \cap Heap!Bytes(h[p]) = {}
  <1>1. BlocksInv(bs, np) /\ HeldInv(bs, h) /\ ApartInv(bs, h)
    BY DEF HeapInv
  <1>2. /\ h[o].ptr \in Nat /\ h[o].size \in Nat
        /\ h[p].ptr \in Nat /\ h[p].size \in Nat
    BY <1>1 DEF HeldInv
  <1>3. PICK k \in 1 .. Len(bs) : \E i \in EntryIds(bs[k]) : Placed(bs, h, o, k, i)
    BY <1>1, HolderFacts
  <1>4. PICK i \in EntryIds(bs[k]) : Placed(bs, h, o, k, i)
    BY <1>3
  <1>5. PICK l \in 1 .. Len(bs) : \E j \in EntryIds(bs[l]) : Placed(bs, h, p, l, j)
    BY <1>1, HolderFacts
  <1>6. PICK j \in EntryIds(bs[l]) : Placed(bs, h, p, l, j)
    BY <1>5
  <1>7. h[o].ptr + h[o].size <= h[p].ptr \/ h[p].ptr + h[p].size <= h[o].ptr
    <2>1. CASE k < l
      BY <1>4, <1>6, <2>1, RangesInOrder
    <2>2. CASE l < k
      BY <1>4, <1>6, <2>2, RangesInOrder
    <2>3. CASE k = l
      <3>1. i + Count(h[o].size) <= j \/ j + Count(h[p].size) <= i
        BY <1>1, <1>4, <1>6, <2>3 DEF ApartInv
      <3>2. i + Count(h[o].size) <= j => h[o].ptr + h[o].size <= h[p].ptr
        BY <1>4, <1>6, <2>3, RangesInOrder
      <3>3. j + Count(h[p].size) <= i => h[p].ptr + h[p].size <= h[o].ptr
        BY <1>4, <1>6, <2>3, RangesInOrder
      <3> QED  BY <3>1, <3>2, <3>3
    <2> QED  BY <2>1, <2>2, <2>3
  <1> DEFINE x == h[o].ptr
             s == h[o].size
             y == h[p].ptr
             t == h[p].size
  <1>8. Heap!Bytes(h[o]) = x .. x + s - 1
    BY BytesAre
  <1>9. Heap!Bytes(h[p]) = y .. y + t - 1
    BY BytesAre
  <1> HIDE DEF x, s, y, t
  <1>10. /\ x \in Nat /\ s \in Nat /\ y \in Nat /\ t \in Nat
         /\ x + s <= y \/ y + t <= x
    BY <1>2, <1>7 DEF x, s, y, t
  <1>11. (x .. x + s - 1) \cap (y .. y + t - 1) = {}
    BY <1>10
  <1> QED  BY <1>8, <1>9, <1>11

(* What is held is aligned and lies in the payload of a block.             *)
LEMMA BytesInside ==
  ASSUME NEW bs, NEW h, NEW np, HeapInv(bs, h, np), NEW o \in Owners, h[o] # NoRange
  PROVE  /\ h[o].size > 0 /\ h[o].ptr % ALLOC_ALIGN = 0
         /\ \E k \in 1 .. Len(bs) : Heap!Bytes(h[o]) \subseteq Space(bs[k])
  <1>1. BlocksInv(bs, np) /\ HeldInv(bs, h)
    BY DEF HeapInv
  <1>2. PICK k \in 1 .. Len(bs) : \E i \in EntryIds(bs[k]) : Placed(bs, h, o, k, i)
    BY <1>1, HolderFacts
  <1>3. PICK i \in EntryIds(bs[k]) : Placed(bs, h, o, k, i)
    BY <1>2
  <1> DEFINE c == Count(h[o].size)
             A == ALLOC_ALIGN
             x == h[o].ptr
             s == h[o].size
             e == bs[k].addr + bs[k].size
             f == bs[k].addr + HEADER + EntriesSize(bs[k].size)
  <1>4. x \in Nat /\ s \in Nat /\ s > 0 /\ c \in Nat /\ s <= c * A
    BY <1>1, HolderFacts
  <1>5. BlockOK(bs[k])
    BY <1>1 DEF BlocksInv
  <1>6. x = IndexToPtr(bs[k], i) /\ i + c <= Entries(bs[k].size)
    BY <1>3 DEF Placed
  <1>7. x + (c * A) <= e
    BY <1>4, <1>5, <1>6, Geometry
  <1>8. f <= x
    BY <1>5, <1>6, Geometry
  <1>9. x % A = 0
    BY <1>5, <1>6, Geometry
  <1>10. bs[k].addr \in Nat /\ bs[k].size \in Nat /\ EntriesSize(bs[k].size) \in Nat
    BY <1>5, Geometry
  <1>11. e \in Nat /\ f \in Nat
    BY <1>10, Numbers, SMTT(30)
  <1>12. c * A \in Nat
    BY <1>4, Numbers, Products
  <1>13. Space(bs[k]) = f .. e - 1 /\ Heap!Bytes(h[o]) = x .. x + s - 1
    <2>1. Space(bs[k]) = f .. e - 1
      BY <1>10 DEF Space
    <2>2. Heap!Bytes(h[o]) = x .. x + s - 1
      BY BytesAre
    <2> QED  BY <2>1, <2>2
  <1> HIDE DEF c, A, x, s, e, f
  <1>14. x .. x + s - 1 \subseteq f .. e - 1
    BY <1>4, <1>7, <1>8, <1>11, <1>12
  <1>15. Heap!Bytes(h[o]) \subseteq Space(bs[k])
    BY <1>13, <1>14
  <1> QED  BY <1>4, <1>9, <1>15 DEF s, x, A
LEMMA GiveIsBlock ==
  ASSUME NEW b, BlockOK(b), NEW index
  PROVE  /\ Give(b, index) \in BlockRecords
         /\ Give(b, index).addr = b.addr /\ Give(b, index).size = b.size
  <1> DEFINE freed == {i \in EntryIds(b) :
                         i >= index /\ \A j \in index + 1 .. i : b.allocated[j] = "cont"}
             a == [i \in EntryIds(b) |-> IF i \in freed THEN "free" ELSE b.allocated[i]]
  <1>1. Give(b, index) = [b EXCEPT !.allocated = a]
    BY DEF Give
  <1>2. b \in BlockRecords /\ b.allocated \in [EntryIds(b) -> Marks]
    BY DEF BlockOK
  <1>3. a \in [EntryIds(b) -> Marks]
    <2>1. \A i \in EntryIds(b) : b.allocated[i] \in Marks
      BY <1>2
    <2>2. "free" \in Marks
      BY DEF Marks
    <2> HIDE DEF freed
    <2> QED  BY <2>1, <2>2
  <1> HIDE DEF a
  <1>4. a \in UNION {[0 .. n - 1 -> Marks] : n \in Nat}
    <2>1. Entries(b.size) \in Nat /\ a \in [0 .. Entries(b.size) - 1 -> Marks]
      BY <1>3, Geometry DEF EntryIds
    <2> QED  BY <2>1, Zenon
  <1> QED  BY <1>1, <1>2, <1>4 DEF BlockRecords

(* What the heap may hand out of a list of blocks. *)
AllSpace(bs) == UNION {Space(bs[k]) : k \in DOMAIN bs}

LEMMA SpaceStays ==
  ASSUME NEW bs \in Seq(BlockRecords), NEW bs2 \in Seq(BlockRecords),
         Len(bs) <= Len(bs2),
         \A k \in 1 .. Len(bs) : bs2[k].addr = bs[k].addr /\ bs2[k].size = bs[k].size
  PROVE  /\ AllSpace(bs) \subseteq AllSpace(bs2)
         /\ Len(bs) = Len(bs2) => AllSpace(bs2) = AllSpace(bs)
         /\ \A k \in 1 .. Len(bs) : Space(bs[k]) \subseteq AllSpace(bs)
  <1>1. DOMAIN bs = 1 .. Len(bs) /\ DOMAIN bs2 = 1 .. Len(bs2) /\ Len(bs) \in Nat /\ Len(bs2) \in Nat
    BY LenProperties
  <1>2. \A k \in DOMAIN bs : k \in DOMAIN bs2 /\ Space(bs2[k]) = Space(bs[k])
    BY <1>1 DEF Space
  <1>3. AllSpace(bs) \subseteq AllSpace(bs2)
    BY <1>2, Zenon DEF AllSpace
  <1>4. Len(bs) = Len(bs2) => DOMAIN bs = DOMAIN bs2
    BY <1>1
  <1>5. DOMAIN bs = DOMAIN bs2 => AllSpace(bs2) \subseteq AllSpace(bs)
    BY <1>2, Zenon DEF AllSpace
  <1>6. \A k \in DOMAIN bs : Space(bs[k]) \subseteq AllSpace(bs)
    BY Zenon DEF AllSpace
  <1> QED  BY <1>1, <1>3, <1>4, <1>5, <1>6, Zenon

LEMMA SpaceChanged ==
  ASSUME NEW bs \in Seq(BlockRecords), NEW k \in 1 .. Len(bs), NEW b \in BlockRecords,
         b.addr = bs[k].addr, b.size = bs[k].size
  PROVE  AllSpace([bs EXCEPT ![k] = b]) = AllSpace(bs)
  <1> DEFINE bs2 == [bs EXCEPT ![k] = b]
  <1>1. /\ bs2 \in Seq(BlockRecords) /\ Len(bs2) = Len(bs) /\ Len(bs) \in Nat
        /\ \A l \in 1 .. Len(bs) : bs2[l] = IF l = k THEN b ELSE bs[l]
    BY ExceptSeq, LenProperties
  <1> HIDE DEF bs2
  <1>2. \A l \in 1 .. Len(bs) : bs2[l].addr = bs[l].addr /\ bs2[l].size = bs[l].size
    BY <1>1
  <1>3. Len(bs) <= Len(bs2)
    BY <1>1
  <1>4. AllSpace(bs2) = AllSpace(bs)
    BY <1>1, <1>2, <1>3, SpaceStays
  <1> QED  BY <1>4 DEF bs2

(* An allocation, in any block, is one of the abstract heap: everything it *)
(* promises of the new range is what the invariant says of the next state. *)
LEMMA AllocationMaps ==
  ASSUME IInv, IInv', NEW o \in Owners, NEW r,
         status = "running", status' = status,
         held[o] = NoRange, r # NoRange, held' = [held EXCEPT ![o] = r],
         AllSpace(blocks) \subseteq AllSpace(blocks')
  PROVE  Heap!Allocate(o)
  <1>1. HeapInv(blocks', held', nextPage')
    BY DEF IInv
  <1>2. held \in [Owners -> [ptr : Nat, size : Nat]]
    BY DEF IInv, HeapInv, HeldInv
  <1>3. held'[o] = r /\ held'[o] # NoRange
    BY <1>2
  <1>4. held' = [held EXCEPT ![o] = held'[o]]
    BY <1>3
  <1>5. /\ held'[o].size > 0 /\ held'[o].ptr % ALLOC_ALIGN = 0
        /\ \E k \in 1 .. Len(blocks') : Heap!Bytes(held'[o]) \subseteq Space(blocks'[k])
    BY <1>1, <1>3, BytesInside
  <1>6. Heap!Bytes(held'[o]) \subseteq AllSpace(blocks')
    <2>1. blocks' \in Seq(BlockRecords)
      BY <1>1 DEF HeapInv, BlocksInv
    <2>2. Len(blocks') <= Len(blocks')
      BY <2>1, LenProperties
    <2>3. \A k \in 1 .. Len(blocks') : Space(blocks'[k]) \subseteq AllSpace(blocks')
      BY <2>1, <2>2, SpaceStays
    <2> QED  BY <1>5, <2>3
  <1>7. ASSUME NEW p \in Owners \ {o}, held[p] # NoRange
        PROVE  Heap!Bytes(held[p]) \cap Heap!Bytes(held'[o]) = {}
    <2>1. held'[p] = held[p] /\ held'[p] # NoRange
      BY <1>2, <1>7
    <2>2. Heap!Bytes(held'[p]) \cap Heap!Bytes(held'[o]) = {}
      BY <1>1, <1>3, <2>1, BytesApart
    <2> QED  BY <2>1, <2>2
  <1> QED  BY <1>3, <1>4, <1>5, <1>6, <1>7 DEF Heap!Allocate, AllSpace

LEMMA HeapAllocateMaps ==
  ASSUME IInv, IInv', NEW o \in Owners, NEW size \in Sizes, HeapAllocate(o, size)
  PROVE  Heap!Allocate(o)
  <1>1. PICK k \in DOMAIN blocks :
          /\ blocks' = [blocks EXCEPT ![k] = Take(@, size)]
          /\ held' = [held EXCEPT ![o] =
               [ptr |-> IndexToPtr(blocks[k], FirstRun(blocks[k], size)), size |-> size]]
    BY DEF HeapAllocate
  <1>2. held[o] = NoRange /\ status = "running" /\ status' = status
    BY DEF HeapAllocate
  <1> DEFINE r == [ptr |-> IndexToPtr(blocks[k], FirstRun(blocks[k], size)), size |-> size]
             b == Take(blocks[k], size)
  <1>3. r # NoRange
    BY RequestAssumption DEF NoRange
  <1>4. b \in BlockRecords /\ b.addr = blocks[k].addr /\ b.size = blocks[k].size
    BY BlocksDomain, TakeIsBlock
  <1>5. k \in 1 .. Len(blocks) /\ blocks \in Seq(BlockRecords)
    BY BlocksDomain
  <1>6. blocks' = [blocks EXCEPT ![k] = b]
    BY <1>1
  <1> HIDE DEF b
  <1>7. AllSpace(blocks') = AllSpace(blocks)
    BY <1>4, <1>5, <1>6, SpaceChanged
  <1>8. held' = [held EXCEPT ![o] = r]
    BY <1>1
  <1> HIDE DEF r
  <1> QED  BY <1>2, <1>3, <1>7, <1>8, AllocationMaps

LEMMA HeapAllocateInNewBlockMaps ==
  ASSUME NewBlocksServe, IInv, IInv', NEW o \in Owners, NEW size \in Sizes,
         HeapAllocateInNewBlock(o, size)
  PROVE  Heap!Allocate(o)
  <1> DEFINE b == NewBlock(nextPage, NewBlockSize(size))
             c == Take(b, size)
             r == [ptr |-> IndexToPtr(b, FirstRun(b, size)), size |-> size]
  <1>1. blocks \in Seq(BlockRecords) /\ nextPage \in Nat \ {0} /\ Len(blocks) \in Nat
    BY BlocksDomain
  <1>2. HasRoom(b, size)
    BY <1>1, NewBlockHasRoom
  <1>3. /\ status = "running" /\ status' = status /\ held[o] = NoRange
        /\ blocks' = Append(blocks, c) /\ held' = [held EXCEPT ![o] = r]
    BY <1>2 DEF HeapAllocateInNewBlock
  <1>4. BlockOK(b)
    <2>1. size \in Nat
      BY RequestAssumption
    <2>2. PICK pages \in Nat \ {0} : NewBlockSize(size) = pages * PAGE_SIZE
      BY <2>1, WholePages
    <2>3. BlockOK(NewBlock(nextPage, pages * PAGE_SIZE))
      BY <1>1, NewBlockIsBlock
    <2> QED  BY <2>2, <2>3
  <1>5. c \in BlockRecords
    BY <1>4, TakeIsBlock
  <1>6. r # NoRange
    BY RequestAssumption DEF NoRange
  <1> HIDE DEF b, c, r
  <1>7. /\ blocks' \in Seq(BlockRecords) /\ Len(blocks) <= Len(blocks')
        /\ \A k \in 1 .. Len(blocks) : blocks'[k] = blocks[k]
    BY <1>1, <1>3, <1>5, AppendProperties
  <1>8. AllSpace(blocks) \subseteq AllSpace(blocks')
    BY <1>1, <1>7, SpaceStays
  <1> QED  BY <1>3, <1>6, <1>8, AllocationMaps

LEMMA HeapFreeMaps ==
  ASSUME IInv, NEW ptr \in FreedPointers, HeapFree(ptr)
  PROVE  \E o \in Owners : Heap!Free(o)
  <1>1. PICK k \in DOMAIN blocks, o \in Owners :
          \E i \in EntryIds(blocks[k]) :
           /\ Placed(blocks, held, o, k, i)
           /\ blocks' = [blocks EXCEPT ![k] = Give(@, i)]
           /\ held' = [held EXCEPT ![o] = NoRange]
    BY FreeClears
  <1>2. PICK i \in EntryIds(blocks[k]) :
           /\ Placed(blocks, held, o, k, i)
           /\ blocks' = [blocks EXCEPT ![k] = Give(@, i)]
           /\ held' = [held EXCEPT ![o] = NoRange]
    BY <1>1
  <1>3. status = "running" /\ status' = status /\ held[o] # NoRange
    BY <1>2 DEF HeapFree, Placed
  <1> DEFINE b == Give(blocks[k], i)
  <1>4. b \in BlockRecords /\ b.addr = blocks[k].addr /\ b.size = blocks[k].size
    BY BlocksDomain, GiveIsBlock
  <1>5. k \in 1 .. Len(blocks) /\ blocks \in Seq(BlockRecords) /\ blocks' = [blocks EXCEPT ![k] = b]
    BY <1>2, BlocksDomain
  <1> HIDE DEF b
  <1>6. AllSpace(blocks') = AllSpace(blocks)
    BY <1>4, <1>5, SpaceChanged
  <1>7. Heap!Free(o)
    BY <1>2, <1>3, <1>6 DEF Heap!Free, AllSpace
  <1> QED  BY <1>7
LEMMA InitMaps == Init => Heap!Init
  BY DEF Init, Heap!Init

LEMMA NextMaps ==
  ASSUME NewBlocksServe, IInv, IInv', [Next]_vars
  PROVE  [Heap!Next]_(Heap!vars)
  <1>1. ASSUME NEW o \in Owners, NEW size \in Sizes, HeapAllocate(o, size)
        PROVE  Heap!Next
    <2>1. Heap!Allocate(o)
      BY <1>1, HeapAllocateMaps
    <2> QED  BY <2>1 DEF Heap!Next
  <1>2. ASSUME NEW o \in Owners, NEW size \in Sizes, HeapAllocateInNewBlock(o, size)
        PROVE  Heap!Next
    <2>1. Heap!Allocate(o)
      BY <1>2, HeapAllocateInNewBlockMaps
    <2> QED  BY <2>1 DEF Heap!Next
  <1>3. ASSUME NEW o \in Owners, NEW size \in Sizes, HeapOutOfMemory(o, size)
        PROVE  Heap!Next
    <2>1. Heap!Panic
      BY <1>3 DEF HeapOutOfMemory, Heap!Panic
    <2> QED  BY <2>1 DEF Heap!Next
  <1>4. ASSUME NEW ptr \in FreedPointers, HeapFree(ptr)
        PROVE  Heap!Next
    BY <1>4, HeapFreeMaps DEF Heap!Next
  <1>5. ASSUME NEW ptr \in FreedPointers, PanicInvalidFree(ptr)
        PROVE  Heap!Next
    <2>1. Heap!Panic
      BY <1>5 DEF PanicInvalidFree, Heap!Panic
    <2> QED  BY <2>1 DEF Heap!Next
  <1>6. CASE OtherAllocatePage
    BY <1>6 DEF OtherAllocatePage, Heap!vars
  <1>7. CASE UNCHANGED vars
    BY <1>7 DEF vars, Heap!vars
  <1> QED  BY <1>1, <1>2, <1>3, <1>4, <1>5, <1>6, <1>7 DEF Next

(* No two owners ever share a byte, nor anyone a byte of a block's header  *)
(* or bitmap, and what is freed is what was allocated: the heap implements *)
(* the abstract one (heap_allocate, heap_free).                            *)
THEOREM ImplementsHeap ==
  ASSUME NewBlocksServe
  PROVE  Spec => ImplementsDisjointHeap
  <1>1. IInv /\ IInv' /\ [Next]_vars => [Heap!Next]_(Heap!vars)
    BY NextMaps
  <1> QED  BY <1>1, InitMaps, Invariance, PTL DEF Spec, ImplementsDisjointHeap, Heap!Spec

(* The numbers of the source make every new block big enough, so the heap  *)
(* of the source implements the abstract one for all owners and sizes.     *)
THEOREM SourceImplementsHeap ==
  ASSUME SourceLayout
  PROVE  Spec => ImplementsDisjointHeap /\ NewBlockIsEnough
  <1>1. NewBlocksServe
    BY NewBlockAlwaysServes, RequestAssumption DEF NewBlocksServe
  <1> QED  BY <1>1, ImplementsHeap, NewBlockServesItsRequest
=============================================================================
