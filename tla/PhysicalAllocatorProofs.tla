---------------------- MODULE PhysicalAllocatorProofs -----------------------
(***************************************************************************)
(* The physical allocator never hands out a page twice, for every memory   *)
(* map and every width of word and int, although pages share flags.        *)
(*                                                                         *)
(* The argument: pages that share a flag have the same Low, and the first  *)
(* page found free is always a Low page, since the Low page of a free page *)
(* is free too and comes no later. So held pages are Low pages, each with  *)
(* a bit of its own number, and clearing the bit of one of them clears the *)
(* Low bit of no other page that belongs to somebody.                      *)
(***************************************************************************)
EXTENDS PhysicalAllocator, DataFacts

-----------------------------------------------------------------------------
(* The numbers of the pages: the first number of a region is a sum over    *)
(* the regions before it, and no page is in two regions.                   *)

LEMMA RegionTypes ==
  /\ Len(Regions) \in Nat
  /\ \A r \in RegionIds :
       /\ Regions[r].base \in Nat /\ Regions[r].pages \in Nat \ {0} /\ Regions[r].usable \in BOOLEAN
       /\ UsablePages(r) \in Nat
  <1>1. Len(Regions) \in Nat
    BY RegionAssumption
  <1>2. ASSUME NEW r \in RegionIds
        PROVE  /\ Regions[r].base \in Nat /\ Regions[r].pages \in Nat \ {0}
               /\ Regions[r].usable \in BOOLEAN
    <2>1. Regions[r] \in [base : Nat \ {0}, pages : Nat \ {0}, usable : BOOLEAN]
      BY RegionAssumption, ElementOfSeq, Zenon DEF RegionIds
    <2> QED  BY <2>1
  <1>3. ASSUME NEW r \in RegionIds PROVE UsablePages(r) \in Nat
    BY <1>2 DEF UsablePages
  <1> QED  BY <1>1, <1>2, <1>3, Zenon

LEMMA FirstIndexIs ==
  /\ FirstIndex[1] = 0
  /\ \A r \in RegionIds : FirstIndex[r + 1] = FirstIndex[r] + UsablePages(r)
  <1> DEFINE n == Len(Regions)
             g == [i \in Nat |-> [s \in Nat |-> IF i \in 1 .. n THEN s + UsablePages(i) ELSE s]]
             Defined(f) == f = [r \in 1 .. n + 1 |->
                                  IF r = 1 THEN 0 ELSE f[r - 1] + UsablePages(r - 1)]
  <1>1. n \in Nat /\ \A r \in 1 .. n : UsablePages(r) \in Nat
    BY RegionTypes, Zenon DEF RegionIds
  <1> HIDE DEF n
  <1>2. g \in [Nat -> [Nat -> Nat]]
    <2>1. ASSUME NEW i \in Nat, NEW s \in Nat
          PROVE  (IF i \in 1 .. n THEN s + UsablePages(i) ELSE s) \in Nat
      <3>1. CASE i \in 1 .. n
        <4>1. UsablePages(i) \in Nat
          BY <1>1, <3>1
        <4>2. s + UsablePages(i) \in Nat
          BY <4>1
        <4> QED  BY <3>1, <4>2
      <3> QED  BY <3>1
    <2> QED  BY <2>1, Zenon
  <1>3. ASSUME NEW i \in 1 .. n, NEW s \in Nat PROVE g[i][s] = s + UsablePages(i)
    <2>1. i \in Nat
      BY <1>1
    <2> QED  BY <2>1, Zenon
  <1> HIDE DEF g
  <1>4. PICK f : Iterates(f, n, Nat, 0, g)
    BY <1>1, <1>2, IterationExists
  <1>5. f \in [0 .. n -> Nat] /\ f[0] = 0 /\ \A i \in 1 .. n : f[i] = g[i][f[i - 1]]
    BY <1>4 DEF Iterates
  <1>6. ASSUME NEW i \in 1 .. n PROVE f[i] = f[i - 1] + UsablePages(i)
    <2>1. i - 1 \in 0 .. n
      BY <1>1
    <2> QED  BY <1>3, <1>5, <2>1
  <1> DEFINE h == [r \in 1 .. n + 1 |-> f[r - 1]]
  <1>7. Defined(h)
    <2>1. ASSUME NEW r \in 1 .. n + 1
          PROVE  h[r] = IF r = 1 THEN 0 ELSE h[r - 1] + UsablePages(r - 1)
      <3>1. CASE r = 1
        <4>1. h[r] = f[r - 1] /\ r - 1 = 0
          BY <3>1
        <4> QED  BY <1>5, <3>1, <4>1, Zenon
      <3>2. CASE r # 1
        <4>1. r - 1 \in 1 .. n /\ r - 1 \in 1 .. n + 1
          BY <1>1, <3>2
        <4>2. h[r] = f[r - 1] /\ h[r - 1] = f[(r - 1) - 1]
          BY <4>1
        <4> HIDE DEF h
        <4> QED  BY <1>6, <3>2, <4>1, <4>2, Zenon
      <3> QED  BY <3>1, <3>2, Zenon
    <2>2. h = [r \in 1 .. n + 1 |-> h[r]]
      OBVIOUS
    <2> HIDE DEF h
    <2> QED  BY <2>1, <2>2, Zenon
  <1> HIDE DEF h
  <1>8. Defined(FirstIndex)
    <2>1. FirstIndex = CHOOSE k : Defined(k)
      BY Zenon DEF FirstIndex, n
    <2> HIDE DEF Defined
    <2> QED  BY <1>7, <2>1, Zenon
  <1>9. FirstIndex[1] = 0
    <2>1. 1 \in 1 .. n + 1
      BY <1>1
    <2> QED  BY <1>8, <2>1, Zenon
  <1>10. ASSUME NEW r \in 1 .. n PROVE FirstIndex[r + 1] = FirstIndex[r] + UsablePages(r)
    <2>1. r + 1 \in 1 .. n + 1 /\ r + 1 # 1 /\ (r + 1) - 1 = r
      BY <1>1
    <2>2. FirstIndex[r + 1] = FirstIndex[(r + 1) - 1] + UsablePages((r + 1) - 1)
      BY <1>8, <2>1, Zenon
    <2> QED  BY <2>1, <2>2, Zenon
  <1> QED  BY <1>9, <1>10, Zenon DEF RegionIds, n

(* The numbers of a region are behind those of the regions before it. *)
LEMMA RegionsInOrder ==
  /\ \A q \in 1 .. Len(Regions) + 1 : FirstIndex[q] \in Nat
  /\ \A q \in 1 .. Len(Regions) + 1, r \in RegionIds :
       r < q => FirstIndex[r] + UsablePages(r) <= FirstIndex[q]
  <1> DEFINE n == Len(Regions)
             F(q) == FirstIndex[q]
             U(r) == UsablePages(r)
             S == {k \in Nat : k <= n => F(k + 1) \in Nat}
             T == {k \in Nat : k <= n => \A r \in 1 .. k : F(r) + U(r) <= F(k + 1)}
  <1>1. n \in Nat /\ (\A r \in 1 .. n : U(r) \in Nat)
        /\ F(1) = 0 /\ (\A r \in 1 .. n : F(r + 1) = F(r) + U(r))
    BY RegionTypes, FirstIndexIs, Zenon DEF RegionIds
  <1>2. RegionIds = 1 .. n
    BY DEF RegionIds
  <1> HIDE DEF n, F, U
  <1>3. \A q \in 1 .. n + 1 : F(q) \in Nat
    <2>1. 0 \in S
      BY <1>1
    <2>2. ASSUME NEW k \in Nat, k \in S PROVE k + 1 \in S
      <3> SUFFICES ASSUME k + 1 <= n PROVE F((k + 1) + 1) \in Nat
        OBVIOUS
      <3>1. k + 1 \in 1 .. n /\ k <= n
        BY <1>1
      <3>2. F(k + 1) \in Nat /\ U(k + 1) \in Nat /\ F((k + 1) + 1) = F(k + 1) + U(k + 1)
        BY <1>1, <2>2, <3>1
      <3> QED  BY <3>2
    <2> HIDE DEF S
    <2>3. \A k \in Nat : k \in S
      BY <2>1, <2>2, SetInduction
    <2>4. \A q \in 1 .. n + 1 : q - 1 \in Nat /\ q - 1 <= n /\ (q - 1) + 1 = q
      BY <1>1
    <2> QED  BY <2>3, <2>4, Zenon DEF S
  <1>4. \A k \in 0 .. n : \A r \in 1 .. k : F(r) + U(r) <= F(k + 1)
    <2>1. 0 \in T
      OBVIOUS
    <2>2. ASSUME NEW k \in Nat, k \in T PROVE k + 1 \in T
      <3> SUFFICES ASSUME k + 1 <= n, NEW r \in 1 .. k + 1 PROVE F(r) + U(r) <= F((k + 1) + 1)
        OBVIOUS
      <3>1. k + 1 \in 1 .. n /\ k <= n /\ k + 1 \in 1 .. n + 1 /\ r \in 1 .. n + 1 /\ r \in 1 .. n
        BY <1>1
      <3> DEFINE x == F(k + 1)
                 y == F((k + 1) + 1)
                 u == U(k + 1)
                 v == F(r)
                 w == U(r)
      <3>2. y = x + u /\ u \in Nat /\ x \in Nat /\ v \in Nat /\ w \in Nat
        BY <1>1, <1>3, <3>1
      <3>3. r = k + 1 \/ r \in 1 .. k
        OBVIOUS
      <3>4. (r = k + 1 => v = x /\ w = u) /\ (r \in 1 .. k => v + w <= x)
        BY <2>2, <3>1
      <3> HIDE DEF x, y, u, v, w
      <3>5. v + w <= y
        BY <3>2, <3>3, <3>4
      <3> QED  BY <3>5 DEF v, w, y
    <2> HIDE DEF T
    <2>3. \A k \in Nat : k \in T
      BY <2>1, <2>2, SetInduction
    <2>4. \A k \in 0 .. n : k \in Nat /\ k <= n
      BY <1>1
    <2> QED  BY <2>3, <2>4, Zenon DEF T
  <1>5. ASSUME NEW q \in 1 .. n + 1, NEW r \in 1 .. n, r < q PROVE F(r) + U(r) <= F(q)
    <2>1. q - 1 \in 0 .. n /\ (q - 1) + 1 = q /\ r \in 1 .. q - 1
      BY <1>1, <1>5
    <2> QED  BY <1>4, <2>1, Zenon
  <1> QED  BY <1>2, <1>3, <1>5, Zenon DEF n, F, U

(* The region of an address, and the region of a number, are the only ones. *)
LEMMA NumberOf ==
  ASSUME NEW r \in RegionIds, Regions[r].usable,
         NEW k \in 0 .. Regions[r].pages - 1
  PROVE  PageIndex(Regions[r].base + k) = FirstIndex[r] + k
  <1> DEFINE a == Regions[r].base + k
  <1>1. /\ Regions[r].base \in Nat /\ Regions[r].pages \in Nat /\ k \in Nat
        /\ FirstIndex[r] \in Nat
    <2>1. r \in 1 .. Len(Regions) + 1
      BY RegionTypes DEF RegionIds
    <2> QED  BY <2>1, RegionTypes, RegionsInOrder
  <1>2. InRegion(a, r)
    BY <1>1 DEF InRegion
  <1>3. ASSUME NEW q \in RegionIds, InRegion(a, q) PROVE q = r
    <2>1. /\ Regions[q].base <= a /\ a < Regions[q].base + Regions[q].pages
          /\ Regions[r].base <= a /\ a < Regions[r].base + Regions[r].pages
      BY <1>2, <1>3 DEF InRegion
    <2>2. q # r => \/ Regions[r].base + Regions[r].pages <= Regions[q].base
                   \/ Regions[q].base + Regions[q].pages <= Regions[r].base
      BY RegionAssumption
    <2>3. Regions[q].base \in Nat /\ Regions[q].pages \in Nat
      BY RegionTypes
    <2> QED  BY <1>1, <2>1, <2>2, <2>3
  <1> HIDE DEF a
  <1>4. (CHOOSE q \in RegionIds : InRegion(a, q)) = r
    BY <1>2, <1>3, Zenon
  <1>5. PageIndex(a) = FirstIndex[r] + (a - Regions[r].base)
    BY <1>4, Zenon DEF PageIndex
  <1>6. FirstIndex[r] + (a - Regions[r].base) = FirstIndex[r] + k
    BY <1>1 DEF a
  <1> QED  BY <1>5, <1>6, Zenon DEF a

LEMMA AddressOf ==
  ASSUME NEW r \in RegionIds, Regions[r].usable,
         NEW k \in 0 .. Regions[r].pages - 1
  PROVE  /\ FirstIndex[r] + k \in Pages
         /\ PageAddress(FirstIndex[r] + k) = Regions[r].base + k
  <1> DEFINE i == FirstIndex[r] + k
             n == Len(Regions)
             Numbered(q) == /\ Regions[q].usable
                            /\ FirstIndex[q] <= i /\ i < FirstIndex[q] + Regions[q].pages
  <1>1. n \in Nat /\ n + 1 \in 1 .. n + 1 /\ \A q \in RegionIds : q \in 1 .. n + 1 /\ q < n + 1
    BY RegionTypes DEF RegionIds
  <1>2. ASSUME NEW q \in RegionIds
        PROVE  /\ FirstIndex[q] \in Nat /\ Regions[q].pages \in Nat /\ Regions[q].base \in Nat
               /\ Regions[q].usable => UsablePages(q) = Regions[q].pages
    BY <1>1, RegionTypes, RegionsInOrder, Zenon DEF UsablePages
  <1>3. Numbered(r)
    BY <1>2
  <1>4. ASSUME NEW q \in RegionIds, Numbered(q) PROVE q = r
    <2>1. q < r => FirstIndex[q] + Regions[q].pages <= FirstIndex[r]
      BY <1>1, <1>2, <1>4, RegionsInOrder
    <2>2. r < q => FirstIndex[r] + Regions[r].pages <= FirstIndex[q]
      BY <1>1, <1>2, RegionsInOrder
    <2>3. q \in Nat /\ r \in Nat
      BY DEF RegionIds
    <2> QED  BY <1>2, <1>3, <1>4, <2>1, <2>2, <2>3
  <1>5. i \in Pages
    <2>1. FirstIndex[r] + Regions[r].pages <= PageCount /\ PageCount \in Nat
      BY <1>1, <1>2, RegionsInOrder DEF PageCount
    <2> QED  BY <1>2, <2>1 DEF Pages
  <1> HIDE DEF Numbered
  <1>6. (CHOOSE q \in RegionIds : Numbered(q)) = r
    BY <1>3, <1>4, Zenon
  <1> HIDE DEF i
  <1>7. PageAddress(i) = Regions[r].base + (i - FirstIndex[r])
    BY <1>6, Zenon DEF PageAddress, Numbered
  <1>8. Regions[r].base + (i - FirstIndex[r]) = Regions[r].base + k
    BY <1>2 DEF i
  <1> QED  BY <1>5, <1>7, <1>8, Zenon DEF i

(* Every usable page has one number and every number is that of one page:  *)
(* the two searches through the memory map, that of allocate_physical_page *)
(* for the page of a number and that of free_physical_page for the number  *)
(* of a page, undo each other for every map whose regions do not overlap.  *)
THEOREM Numbering ==
  /\ PageCount \in Nat
  /\ \A r \in RegionIds : FirstIndex[r] \in Nat
  /\ \A a \in UsableAddresses : PageIndex(a) \in Pages /\ PageAddress(PageIndex(a)) = a
  /\ \A i \in Pages : PageAddress(i) \in UsableAddresses /\ PageIndex(PageAddress(i)) = i
  <1> DEFINE n == Len(Regions)
  <1>1. n \in Nat /\ n + 1 \in 1 .. n + 1 /\ \A q \in RegionIds : q \in 1 .. n + 1
    BY RegionTypes DEF RegionIds
  <1>2. PageCount \in Nat /\ \A r \in RegionIds : FirstIndex[r] \in Nat
    BY <1>1, RegionsInOrder DEF PageCount
  <1>3. ASSUME NEW r \in RegionIds, Regions[r].usable, NEW k \in 0 .. Regions[r].pages - 1
        PROVE  Regions[r].base + k \in UsableAddresses
    <2>1. Regions[r].base + k \in Regions[r].base .. Regions[r].base + UsablePages(r) - 1
      BY <1>3, RegionTypes DEF UsablePages
    <2> QED  BY <2>1, Zenon DEF UsableAddresses
  <1>4. ASSUME NEW a \in UsableAddresses
        PROVE  PageIndex(a) \in Pages /\ PageAddress(PageIndex(a)) = a
    <2>1. PICK r \in RegionIds : a \in Regions[r].base .. Regions[r].base + UsablePages(r) - 1
      BY Zenon DEF UsableAddresses
    <2>2. Regions[r].usable
      BY <2>1, RegionTypes DEF UsablePages
    <2> DEFINE k == a - Regions[r].base
    <2>3. k \in 0 .. Regions[r].pages - 1 /\ Regions[r].base + k = a
      BY <2>1, <2>2, RegionTypes DEF UsablePages
    <2> HIDE DEF k
    <2> QED  BY <2>2, <2>3, NumberOf, AddressOf, Zenon
  <1>5. ASSUME NEW i \in Pages
        PROVE  PageAddress(i) \in UsableAddresses /\ PageIndex(PageAddress(i)) = i
    <2> DEFINE S == {q \in 1 .. n + 1 : i < FirstIndex[q]}
    <2>1. i \in Nat /\ i < PageCount
      BY <1>2 DEF Pages
    <2>2. n + 1 \in S /\ S \subseteq Nat
      BY <1>1, <2>1 DEF PageCount
    <2>3. PICK q \in S : \A p \in S : q <= p
      BY <2>2, LeastElement
    <2>4. q \in 1 .. n + 1 /\ i < FirstIndex[q] /\ q # 1
      BY <2>1, <2>3, FirstIndexIs
    <2> DEFINE r == q - 1
    <2>5. r \in RegionIds /\ r + 1 = q /\ r \in 1 .. n + 1 /\ ~(q <= r)
      BY <1>1, <2>4 DEF RegionIds
    <2>6. ~(i < FirstIndex[r])
      BY <2>3, <2>5, Zenon
    <2> HIDE DEF r, n, S
    <2>7. FirstIndex[q] = FirstIndex[r] + UsablePages(r) /\ FirstIndex[r] \in Nat
      BY <1>2, <2>5, FirstIndexIs
    <2>8. Regions[r].usable
      BY <2>1, <2>4, <2>5, <2>6, <2>7, RegionTypes DEF UsablePages
    <2> DEFINE k == i - FirstIndex[r]
    <2>9. k \in 0 .. Regions[r].pages - 1 /\ FirstIndex[r] + k = i
      BY <2>1, <2>4, <2>5, <2>6, <2>7, <2>8, RegionTypes DEF UsablePages
    <2> HIDE DEF k
    <2>10. PageAddress(i) = Regions[r].base + k /\ PageIndex(Regions[r].base + k) = i
      BY <2>5, <2>8, <2>9, NumberOf, AddressOf, Zenon
    <2> QED  BY <1>3, <2>5, <2>8, <2>9, <2>10, Zenon
  <1> QED  BY <1>2, <1>4, <1>5, Zenon

-----------------------------------------------------------------------------
(* Pages that share a flag: with s the number of the bit within an int,    *)
(* Low(i) is bit s of the word of page i.                                  *)

LEMMA Widths ==
  /\ ByteBits \in Nat \ {0} /\ WordBits \in Nat \ {0}
  /\ IntBits \in Nat \ {0} /\ PageBytes \in Nat \ {0}
  /\ WordBits = 2 * IntBits
  BY WidthAssumption

LEMMA LowFacts ==
  ASSUME NEW i \in Nat
  PROVE  /\ Low(i) \in Nat /\ Low(i) <= i
         /\ WordOf(Low(i)) = WordOf(i)
         /\ (Low(i) % WordBits) % IntBits = (i % WordBits) % IntBits
  <1> DEFINE w == i \div WordBits
             b == i % WordBits
             s == b % IntBits
  <1>1. w \in Nat /\ b \in 0 .. WordBits - 1 /\ i = (w * WordBits) + b
    BY DivMod, Widths
  <1>2. s \in 0 .. IntBits - 1 /\ s <= b
    <2> HIDE DEF b
    <2>0. b \in Nat
      BY <1>1, Widths, SMT
    <2>1. /\ b \div IntBits \in Nat
          /\ s \in 0 .. IntBits - 1
          /\ b = ((b \div IntBits) * IntBits) + s
      BY <2>0, Widths, DivMod
    <2>2. s \in 0 .. IntBits - 1 /\ b = ((b \div IntBits) * IntBits) + s
      BY <2>1
    <2> HIDE DEF s
    <2>3. (b \div IntBits) * IntBits \in Nat
      BY <2>1, Widths, SMT
    <2>4. s \in Nat
      BY <2>2, Widths, SMT
    <2>5. s <= ((b \div IntBits) * IntBits) + s
      BY <2>3, <2>4, PartAtMostSum, Zenon
    <2> QED  BY <2>2, <2>5, Zenon
  <1>3. s \in 0 .. WordBits - 1
    BY <1>2, Widths, SMT
  <1>4. Low(i) = (w * WordBits) + s
    BY DEF Low, WordOf
  <1> HIDE DEF s, b, w
  <1>5. Low(i) \div WordBits = w /\ Low(i) % WordBits = s
    <2>1. WordBits \in Nat \ {0} /\ w \in Nat
      BY <1>1, Widths
    <2>2. /\ ((w * WordBits) + s) \div WordBits = w
          /\ ((w * WordBits) + s) % WordBits = s
      BY <2>1, <1>3, DivModUnique, Zenon
    <2> QED  BY <2>2, <1>4, Zenon
  <1>6. s % IntBits = s
    BY <1>2, ModOfSmall, Widths
  <1>7. Low(i) \in Nat /\ Low(i) <= i
    <2>1. w * WordBits \in Nat
      BY <1>1, Widths, SMT
    <2> QED  BY <2>1, <1>1, <1>2, <1>3, <1>4, SMT
  <1> QED  BY <1>5, <1>6, <1>7 DEF WordOf, w, s, b

LEMMA MaskFacts ==
  ASSUME NEW i \in Nat
  PROVE  /\ Low(i) \in Mask(i)
         /\ Mask(Low(i)) = Mask(i)
         /\ Low(Low(i)) = Low(i)
  <1>1. Low(i) \in Mask(i)
    <2> DEFINE s == (i % WordBits) % IntBits
    <2>1. s \in Nat /\ s <= WordBits - 1
      <3> DEFINE b == i % WordBits
      <3>1. b \in 0 .. WordBits - 1
        BY Widths, DivMod
      <3> HIDE DEF b
      <3>2. b \in Nat
        BY <3>1, Widths, SMT
      <3>3. b % IntBits \in 0 .. IntBits - 1
        BY <3>2, Widths, DivMod
      <3> QED  BY <3>3, Widths DEF b
    <2>2. s \in ShiftedInt(i % WordBits)
      <3> HIDE DEF s
      <3>1. s \in s .. WordBits - 1
        BY <2>1, Widths, SMT
      <3>2. ShiftedInt(i % WordBits) = IF s = IntBits - 1 THEN s .. WordBits - 1 ELSE {s}
        BY DEF ShiftedInt, s
      <3> QED  BY <3>1, <3>2
    <2> QED  BY <2>2 DEF Mask, Low
  <1>2. Mask(Low(i)) = Mask(i)
    <2>1. ShiftedInt(Low(i) % WordBits) = ShiftedInt(i % WordBits)
      BY LowFacts DEF ShiftedInt
    <2> QED  BY <2>1, LowFacts DEF Mask
  <1>3. Low(Low(i)) = Low(i)
    BY LowFacts, Zenon DEF Low
  <1> QED  BY <1>1, <1>2, <1>3

LEMMA DivCeilBound ==
  ASSUME NEW a \in Nat, NEW n \in Nat \ {0}
  PROVE  DivCeil(a, n) \in Nat /\ a <= DivCeil(a, n) * n
  <1> DEFINE q == a \div n
             r == a % n
  <1>1. q \in Nat /\ r \in 0 .. n - 1 /\ a = (q * n) + r
    BY DivMod
  <1>2. DivCeil(a, n) = q + (IF r = 0 THEN 0 ELSE 1)
    BY DEF DivCeil
  <1> HIDE DEF q, r
  <1> QED  BY <1>1, <1>2, SMT

LEMMA PagesAreNumbers == Pages \subseteq Nat
  BY Numbering, SMT DEF Pages

LEMMA MaskInBitmap ==
  ASSUME NEW i \in Pages
  PROVE  Mask(i) \subseteq Bits
  <1> SUFFICES ASSUME NEW b \in ShiftedInt(i % WordBits)
               PROVE  (WordOf(i) * WordBits) + b \in Bits
    BY DEF Mask
  <1> DEFINE w == WordOf(i)
             s == (i % WordBits) % IntBits
  <1>1. i \in Nat /\ i < PageCount /\ PageCount \in Nat
    BY Numbering, SMT DEF Pages
  <1>2. w \in Nat /\ w * WordBits \in Nat /\ w * WordBits <= i
    <2>1. /\ w \in Nat /\ i % WordBits \in 0 .. WordBits - 1
          /\ i = (w * WordBits) + (i % WordBits)
      BY <1>1, DivMod, Widths DEF WordOf
    <2> HIDE DEF w
    <2> QED  BY <2>1, Widths, SMT
  <1>3. b \in 0 .. WordBits - 1
    <2>1. i % WordBits \in Nat
      BY <1>1, DivMod, Widths, SMT
    <2>2. s \in 0 .. IntBits - 1
      BY <2>1, DivMod, Widths
    <2> HIDE DEF s
    <2>3. b \in (IF s = IntBits - 1 THEN s .. WordBits - 1 ELSE {s})
      BY DEF ShiftedInt, s
    <2> QED  BY <2>2, <2>3, Widths, SMT
  <1>4. WordCount \in Nat /\ PageCount <= WordCount * WordBits
    BY <1>1, DivCeilBound, Widths DEF WordCount
  <1> HIDE DEF w
  <1>5. w * WordBits < WordCount * WordBits
    BY <1>1, <1>2, <1>4, Widths, SMT
  <1>6. (w + 1) * WordBits <= WordCount * WordBits
    BY <1>2, <1>4, <1>5, MulMonotone, Widths
  <1>7. (w + 1) * WordBits = (w * WordBits) + WordBits
    BY <1>2, Widths, SMT
  <1>8. (w * WordBits) + b \in 0 .. (WordCount * WordBits) - 1
    BY <1>2, <1>3, <1>4, <1>6, <1>7, Widths, SMT
  <1> QED  BY <1>8 DEF Bits, w

-----------------------------------------------------------------------------
(* The bitmap's own pages are usable pages, numbered from SkippedPages on. *)

LEMMA HomeIsARegion == HomeRegion \in RegionIds /\ Fits(HomeRegion)
  <1>1. HomeRegions \subseteq Nat
    BY RegionAssumption, SMT DEF HomeRegions, RegionIds
  <1>2. PICK r \in HomeRegions : \A q \in HomeRegions : r <= q
    BY <1>1, LeastElement, HomeAssumption
  <1>3. HomeRegion \in HomeRegions
    BY <1>2 DEF HomeRegion
  <1> QED  BY <1>3 DEF HomeRegions

LEMMA DivCeilLeast ==
  ASSUME NEW a \in Nat, NEW n \in Nat \ {0}, NEW p \in Nat, a <= p * n
  PROVE  DivCeil(a, n) <= p
  <1> DEFINE q == a \div n
             r == a % n
  <1>1. q \in Nat /\ r \in 0 .. n - 1 /\ a = (q * n) + r
    BY DivMod
  <1>2. DivCeil(a, n) = q + (IF r = 0 THEN 0 ELSE 1)
    BY DEF DivCeil
  <1> HIDE DEF q, r
  <1>3. q * n \in Nat /\ p * n \in Nat
    BY <1>1, SMT
  <1>4. CASE r = 0
    <2>1. ~(p * n < q * n)
      BY <1>1, <1>3, <1>4, SMT
    <2>2. q <= p
      BY <1>1, <2>1, SMT
    <2> QED  BY <1>1, <1>2, <1>4, <2>2, SMT
  <1>5. CASE r # 0
    <2>1. q * n < p * n
      BY <1>1, <1>3, <1>5, SMT
    <2>2. q < p
      BY <1>1, <2>1, SMT
    <2> QED  BY <1>1, <1>2, <1>5, <2>2, SMT
  <1> QED  BY <1>4, <1>5

LEMMA HomeFacts ==
  /\ Regions[HomeRegion].base \in Nat
  /\ Regions[HomeRegion].pages \in Nat
  /\ BitmapPages \in Nat
  /\ BitmapPages <= Regions[HomeRegion].pages
  /\ SkippedPages \in Nat
  <1>1. Regions[HomeRegion].base \in Nat /\ Regions[HomeRegion].pages \in Nat
    BY HomeIsARegion, RegionTypes
  <1>2. ArrayBytes \in Nat
    BY Numbering, Widths, DivMod DEF ArrayBytes
  <1>3. BitmapPages \in Nat
    BY <1>2, Widths, DivCeilBound DEF BitmapPages
  <1>4. ArrayBytes <= Regions[HomeRegion].pages * PageBytes
    <2>1. Regions[HomeRegion].pages * PageBytes >= ArrayBytes
      BY HomeIsARegion DEF Fits
    <2>2. Regions[HomeRegion].pages * PageBytes \in Nat
      BY <1>1, Widths, SMT
    <2> QED  BY <1>2, <2>1, <2>2, SMT
  <1>5. BitmapPages <= Regions[HomeRegion].pages
    BY <1>1, <1>2, <1>4, Widths, DivCeilLeast, Zenon DEF BitmapPages
  <1>6. SkippedPages \in Nat
    BY HomeIsARegion, Numbering DEF SkippedPages
  <1> QED  BY <1>1, <1>3, <1>5, <1>6

LEMMA OwnPageNumbers ==
  ASSUME NEW n \in 0 .. BitmapPages - 1
  PROVE  /\ Regions[HomeRegion].base + n \in UsableAddresses
         /\ PageIndex(Regions[HomeRegion].base + n) = n + SkippedPages
  <1> DEFINE h == HomeRegion
  <1>1. h \in RegionIds /\ Regions[h].usable
    BY HomeIsARegion DEF Fits
  <1>2. /\ Regions[h].base \in Nat /\ n \in Nat /\ SkippedPages \in Nat
        /\ n \in 0 .. Regions[h].pages - 1
    BY HomeFacts, SMT
  <1> HIDE DEF h
  <1>3. PageIndex(Regions[h].base + n) = FirstIndex[h] + n
    BY <1>1, <1>2, NumberOf
  <1>4. PageIndex(Regions[h].base + n) = n + SkippedPages
    BY <1>2, <1>3 DEF SkippedPages, h
  <1>5. Regions[h].base + n \in Regions[h].base .. Regions[h].base + UsablePages(h) - 1
    <2> DEFINE p == Regions[h].pages
    <2>1. UsablePages(h) = p /\ p \in Nat
      BY <1>1, RegionTypes, Zenon DEF UsablePages
    <2> HIDE DEF p
    <2>2. n <= p - 1
      BY <1>2 DEF p
    <2> QED  BY <1>2, <2>1, <2>2
  <1>6. Regions[h].base + n \in UsableAddresses
    BY <1>1, <1>5, Zenon DEF UsableAddresses
  <1> QED  BY <1>4, <1>6, Zenon DEF h

-----------------------------------------------------------------------------
(* The inductive invariant: held pages are Low pages whose own bit is one, *)
(* and the Low bits of the bitmap's pages are one and belong to no caller. *)

HeldOnce == \A a \in UsableAddresses : holders[a] \in {0, 1}

HeldAreLow ==
  \A a \in UsableAddresses : holders[a] = 1 =>
    /\ Low(PageIndex(a)) = PageIndex(a)
    /\ PageIndex(a) \in bits

OwnLowMarked == \A n \in 0 .. marked - 1 : Low(n + SkippedPages) \in bits

OwnLowNotHeld ==
  \A n \in 0 .. BitmapPages - 1 : \A a \in UsableAddresses :
    holders[a] = 1 => Low(n + SkippedPages) # PageIndex(a)

MarkedFirst ==
  /\ status = "marking" => \A a \in UsableAddresses : holders[a] = 0
  /\ status # "marking" => marked = BitmapPages

IInv ==
  /\ TypeOK
  /\ HeldOnce
  /\ HeldAreLow
  /\ OwnLowMarked
  /\ OwnLowNotHeld
  /\ MarkedFirst

LEMMA Numbers ==
  ASSUME NEW a \in UsableAddresses
  PROVE  PageIndex(a) \in Nat /\ PageIndex(a) \in Pages /\ PageAddress(PageIndex(a)) = a
  BY Numbering, PagesAreNumbers

LEMMA OwnNumbers ==
  ASSUME NEW n \in 0 .. BitmapPages - 1
  PROVE  /\ n + SkippedPages \in Nat
         /\ n + SkippedPages \in Pages
  <1>1. n + SkippedPages \in Nat
    BY HomeFacts, SMT
  <1>2. n + SkippedPages \in Pages
    BY OwnPageNumbers, Numbers
  <1> QED  BY <1>1, <1>2

(* Marking a page keeps every Low bit that is one. *)
LEMMA SetKeepsLow ==
  ASSUME NEW bm, NEW i \in Nat, NEW j \in Nat, Low(j) \in bm
  PROVE  Low(j) \in Set(bm, i, TRUE)
  <1>1. CASE Low(j) # i
    BY <1>1 DEF Set
  <1>2. CASE Low(j) = i
    <2>1. Low(i) = i
      BY <1>2, MaskFacts
    <2>2. i \in Mask(i)
      BY <2>1, MaskFacts
    <2> QED  BY <1>2, <2>2 DEF Set
  <1> QED  BY <1>1, <1>2

LEMMA SetMarksLow ==
  ASSUME NEW bm, NEW i \in Nat
  PROVE  Low(i) \in Set(bm, i, TRUE)
  BY MaskFacts DEF Set

(* The first page found free is a Low page, since its Low page is free too *)
(* and would have been found first.                                        *)
LEMMA FirstFreeIsLow ==
  ASSUME NEW i \in Pages, FirstFree(i)
  PROVE  Low(i) = i /\ i \notin bits
  <1>1. i \in Nat /\ PageCount \in Nat /\ i < PageCount
    BY Numbering, SMT DEF Pages
  <1>2. Low(i) \in Nat /\ Low(i) <= i
    BY <1>1, LowFacts
  <1>3. Low(i) \in Pages
    BY <1>1, <1>2, SMT DEF Pages
  <1>4. ~Get(bits, Low(i))
    BY <1>1, MaskFacts DEF FirstFree, Get
  <1>5. ~(Low(i) < i)
    BY <1>3, <1>4 DEF FirstFree
  <1>6. Low(i) = i
    BY <1>1, <1>2, <1>5, SMT
  <1>7. i \notin bits
    BY <1>1, <1>6, MaskFacts DEF FirstFree, Get
  <1> QED  BY <1>6, <1>7

-----------------------------------------------------------------------------

LEMMA InitImpliesIInv == Init => IInv
  <1> SUFFICES ASSUME Init
               PROVE  IInv
    OBVIOUS
  <1>1. bits \subseteq Bits
    <2>1. ArrayBytes \in Nat
      BY Numbering, Widths, DivMod DEF ArrayBytes
    <2>2. ByteBits * ArrayBytes \in Nat
      BY <2>1, Widths, SMT
    <2>3. SpanWords \in Nat
      BY <2>2, Widths, DivMod DEF SpanWords
    <2>4. SpanWords * WordBits \in Nat
      BY <2>3, Widths, SMT
    <2>5. WordCount * WordBits \in Nat
      <3>1. WordCount \in Nat
        BY Numbering, Widths, DivCeilBound DEF WordCount
      <3> QED  BY <3>1, Widths, SMT
    <2>6. UnclearedBits \subseteq Bits
      BY <2>4, <2>5, SMT DEF UnclearedBits, Bits
    <2> QED  BY <2>6 DEF Init
  <1>2. TypeOK
    BY <1>1, HomeFacts, SMT DEF Init, TypeOK
  <1>3. HeldOnce /\ HeldAreLow /\ OwnLowNotHeld /\ MarkedFirst
    BY DEF Init, HeldOnce, HeldAreLow, OwnLowNotHeld, MarkedFirst
  <1>4. OwnLowMarked
    BY SMT DEF Init, OwnLowMarked
  <1> QED  BY <1>2, <1>3, <1>4 DEF IInv

LEMMA SetInBitmap ==
  ASSUME NEW i \in Pages, NEW v \in BOOLEAN, bits \subseteq Bits
  PROVE  Set(bits, i, v) \subseteq Bits
  BY MaskInBitmap DEF Set

LEMMA MarkKeepsIInv == IInv /\ MarkOwnPage => IInv'
  <1> SUFFICES ASSUME IInv, MarkOwnPage
               PROVE  IInv'
    OBVIOUS
  <1> DEFINE i == marked + SkippedPages
  <1>1. /\ marked \in 0 .. BitmapPages - 1
        /\ marked \in Nat /\ BitmapPages \in Nat
        /\ bits' = Set(bits, i, TRUE) /\ marked' = marked + 1
        /\ UNCHANGED <<status, holders>> /\ status = "marking"
    BY HomeFacts, SMT DEF IInv, TypeOK, MarkOwnPage
  <1>2. i \in Nat /\ i \in Pages
    BY <1>1, OwnNumbers
  <1> HIDE DEF i
  <1>3. TypeOK'
    <2>1. bits' \subseteq Bits
      BY <1>1, <1>2, SetInBitmap DEF IInv, TypeOK
    <2>2. marked' \in 0 .. BitmapPages
      BY <1>1, SMT
    <2> QED  BY <1>1, <2>1, <2>2 DEF IInv, TypeOK
  <1>4. (HeldOnce /\ HeldAreLow /\ OwnLowNotHeld /\ MarkedFirst)'
    <2>1. \A a \in UsableAddresses : holders'[a] = 0
      BY <1>1 DEF IInv, MarkedFirst
    <2>2. status' = "marking"
      BY <1>1
    <2> QED  BY <2>1, <2>2 DEF HeldOnce, HeldAreLow, OwnLowNotHeld, MarkedFirst
  <1>5. OwnLowMarked'
    <2> SUFFICES ASSUME NEW n \in 0 .. marked
                 PROVE  Low(n + SkippedPages) \in bits'
      <3>1. (marked + 1) - 1 = marked
        BY <1>1, SMT
      <3>2. marked' - 1 = marked
        BY <1>1, <3>1
      <3> QED  BY <3>2 DEF OwnLowMarked
    <2>1. n + SkippedPages \in Nat
      BY <1>1, HomeFacts, SMT
    <2>2. CASE n = marked
      BY <1>1, <1>2, <2>2, SetMarksLow DEF i
    <2>3. CASE n # marked
      <3>1. n \in 0 .. marked - 1
        BY <1>1, <2>3, SMT
      <3>2. Low(n + SkippedPages) \in bits
        BY <3>1 DEF IInv, OwnLowMarked
      <3> QED  BY <1>1, <1>2, <2>1, <3>2, SetKeepsLow
    <2> QED  BY <2>2, <2>3
  <1> QED  BY <1>3, <1>4, <1>5 DEF IInv

LEMMA AllocateFacts ==
  ASSUME IInv, AllocatePhysicalPage
  PROVE  \E i \in Pages, a \in UsableAddresses :
           /\ FirstFree(i) /\ Low(i) = i /\ i \notin bits
           /\ PageIndex(a) = i /\ a = PageAddress(i)
           /\ holders[a] = 0
           /\ holders' = [holders EXCEPT ![a] = 1]
           /\ bits' = Set(bits, i, TRUE)
           /\ \A n \in 0 .. BitmapPages - 1 : Low(n + SkippedPages) # i
  <1>1. PICK i \in Pages : /\ FirstFree(i)
                           /\ bits' = Set(bits, i, TRUE)
                           /\ holders' = [holders EXCEPT ![PageAddress(i)] = @ + 1]
    BY DEF AllocatePhysicalPage
  <1>2. Low(i) = i /\ i \notin bits
    BY <1>1, FirstFreeIsLow
  <1>3. PICK a \in UsableAddresses : a = PageAddress(i) /\ PageIndex(a) = i
    BY Numbering
  <1>4. holders[a] = 0
    <2>1. holders[a] # 1
      BY <1>2, <1>3 DEF IInv, HeldAreLow
    <2> QED  BY <2>1 DEF IInv, HeldOnce
  <1>5. holders' = [holders EXCEPT ![a] = 1]
    BY <1>1, <1>3, <1>4, SMT DEF IInv, TypeOK
  <1>6. ASSUME NEW n \in 0 .. BitmapPages - 1
        PROVE  Low(n + SkippedPages) # i
    <2>1. marked = BitmapPages
      BY DEF IInv, MarkedFirst, AllocatePhysicalPage
    <2>2. Low(n + SkippedPages) \in bits
      BY <2>1 DEF IInv, OwnLowMarked
    <2> QED  BY <1>2, <2>2
  <1> QED  BY <1>1, <1>2, <1>3, <1>4, <1>5, <1>6

LEMMA AllocateKeepsIInv == IInv /\ AllocatePhysicalPage => IInv'
  <1> SUFFICES ASSUME IInv, AllocatePhysicalPage
               PROVE  IInv'
    OBVIOUS
  <1>1. PICK i \in Pages, a \in UsableAddresses :
           /\ Low(i) = i /\ i \notin bits
           /\ PageIndex(a) = i
           /\ holders' = [holders EXCEPT ![a] = 1]
           /\ bits' = Set(bits, i, TRUE)
           /\ \A n \in 0 .. BitmapPages - 1 : Low(n + SkippedPages) # i
    BY AllocateFacts
  <1>2. UNCHANGED <<marked, status>> /\ status = "running"
    BY DEF AllocatePhysicalPage
  <1>3. i \in Nat
    BY PagesAreNumbers
  <1>4. /\ holders \in [UsableAddresses -> Nat]
        /\ \A b \in UsableAddresses : holders'[b] = IF b = a THEN 1 ELSE holders[b]
    BY <1>1 DEF IInv, TypeOK
  <1>5. TypeOK'
    <2>1. bits' \subseteq Bits
      BY <1>1, SetInBitmap DEF IInv, TypeOK
    <2>2. holders' \in [UsableAddresses -> Nat]
      BY <1>1, <1>4, SMT
    <2> QED  BY <1>2, <2>1, <2>2 DEF IInv, TypeOK
  <1>6. HeldOnce'
    BY <1>4 DEF IInv, HeldOnce
  <1>7. HeldAreLow'
    <2> SUFFICES ASSUME NEW b \in UsableAddresses, holders'[b] = 1
                 PROVE  /\ Low(PageIndex(b)) = PageIndex(b)
                        /\ PageIndex(b) \in bits'
      BY DEF HeldAreLow
    <2>1. CASE b = a
      BY <1>1, <1>3, <2>1, SetMarksLow
    <2>2. CASE b # a
      <3>1. Low(PageIndex(b)) = PageIndex(b) /\ PageIndex(b) \in bits
        BY <1>4, <2>2 DEF IInv, HeldAreLow
      <3>2. PageIndex(b) \in Nat
        BY Numbers
      <3>3. Low(PageIndex(b)) \in Set(bits, i, TRUE)
        BY <1>3, <3>1, <3>2, SetKeepsLow, Zenon
      <3> QED  BY <1>1, <3>1, <3>3, Zenon
    <2> QED  BY <2>1, <2>2
  <1>8. OwnLowMarked'
    <2> SUFFICES ASSUME NEW n \in 0 .. marked - 1
                 PROVE  Low(n + SkippedPages) \in bits'
      BY <1>2 DEF OwnLowMarked
    <2>1. marked = BitmapPages
      BY <1>2 DEF IInv, MarkedFirst
    <2>2. n + SkippedPages \in Nat
      BY <2>1, OwnNumbers
    <2> QED  BY <1>1, <1>3, <2>2, SetKeepsLow DEF IInv, OwnLowMarked
  <1>9. OwnLowNotHeld'
    BY <1>1, <1>4 DEF IInv, OwnLowNotHeld
  <1>10. MarkedFirst'
    BY <1>2 DEF IInv, MarkedFirst
  <1> QED  BY <1>5, <1>6, <1>7, <1>8, <1>9, <1>10 DEF IInv

LEMMA FreeKeepsIInv ==
  ASSUME NEW a \in UsableAddresses, IInv, FreePhysicalPage(a)
  PROVE  IInv' /\ holders[a] = 1 /\ holders' = [holders EXCEPT ![a] = 0]
  <1> DEFINE i == PageIndex(a)
  <1>1. i \in Nat /\ i \in Pages
    BY Numbers
  <1>2. holders[a] = 1
    BY SMT DEF FreePhysicalPage, IInv, HeldOnce
  <1>3. /\ holders' = [holders EXCEPT ![a] = 0]
        /\ bits' = bits \ {i}
        /\ UNCHANGED <<marked, status>> /\ status = "running"
    BY <1>2, SMT DEF FreePhysicalPage, Set
  <1>4. /\ holders \in [UsableAddresses -> Nat]
        /\ \A b \in UsableAddresses : holders'[b] = IF b = a THEN 0 ELSE holders[b]
    BY <1>3 DEF IInv, TypeOK
  <1>5. TypeOK'
    <2>1. holders' \in [UsableAddresses -> Nat]
      BY <1>3, <1>4, SMT
    <2> QED  BY <1>3, <2>1 DEF IInv, TypeOK
  <1>6. HeldOnce'
    BY <1>4 DEF IInv, HeldOnce
  <1>7. HeldAreLow'
    <2> SUFFICES ASSUME NEW b \in UsableAddresses, holders'[b] = 1
                 PROVE  /\ Low(PageIndex(b)) = PageIndex(b)
                        /\ PageIndex(b) \in bits'
      BY DEF HeldAreLow
    <2>1. b # a /\ holders[b] = 1
      BY <1>4
    <2>2. PageIndex(b) # i
      BY <2>1, Numbers
    <2> QED  BY <1>3, <2>1, <2>2 DEF IInv, HeldAreLow
  <1>8. OwnLowMarked'
    <2> SUFFICES ASSUME NEW n \in 0 .. marked - 1
                 PROVE  Low(n + SkippedPages) \in bits'
      BY <1>3 DEF OwnLowMarked
    <2>1. marked = BitmapPages
      BY <1>3 DEF IInv, MarkedFirst
    <2>2. Low(n + SkippedPages) # i
      BY <1>2, <2>1 DEF IInv, OwnLowNotHeld
    <2> QED  BY <1>3, <2>2 DEF IInv, OwnLowMarked
  <1>9. OwnLowNotHeld'
    BY <1>4 DEF IInv, OwnLowNotHeld
  <1>10. MarkedFirst'
    BY <1>3 DEF IInv, MarkedFirst
  <1> QED  BY <1>2, <1>3, <1>5, <1>6, <1>7, <1>8, <1>9, <1>10 DEF IInv

LEMMA StepKeepsIInv == IInv /\ [Next]_vars => IInv'
  <1> SUFFICES ASSUME IInv, [Next]_vars
               PROVE  IInv'
    OBVIOUS
  <1>1. CASE MarkOwnPage
    BY <1>1, MarkKeepsIInv
  <1>2. CASE FinishInit
    BY <1>2 DEF FinishInit, IInv, TypeOK, HeldOnce, HeldAreLow, OwnLowMarked,
                OwnLowNotHeld, MarkedFirst
  <1>3. CASE AllocatePhysicalPage
    BY <1>3, AllocateKeepsIInv
  <1>4. CASE PanicNoPage
    BY <1>4 DEF PanicNoPage, IInv, TypeOK, HeldOnce, HeldAreLow, OwnLowMarked,
                OwnLowNotHeld, MarkedFirst
  <1>5. ASSUME NEW a \in UsableAddresses, FreePhysicalPage(a)
        PROVE  IInv'
    BY <1>5, FreeKeepsIInv
  <1>6. CASE PanicBadFree
    BY <1>6 DEF PanicBadFree, IInv, TypeOK, HeldOnce, HeldAreLow, OwnLowMarked,
                OwnLowNotHeld, MarkedFirst
  <1>7. CASE UNCHANGED vars
    BY <1>7 DEF vars, IInv, TypeOK, HeldOnce, HeldAreLow, OwnLowMarked,
                OwnLowNotHeld, MarkedFirst
  <1> QED  BY <1>1, <1>2, <1>3, <1>4, <1>5, <1>6, <1>7 DEF Next

(* The invariant behind the theorems, on every behaviour. *)
THEOREM Invariance == Spec => []IInv
  <1> QED  BY InitImpliesIInv, StepKeepsIInv, PTL DEF Spec

(* The variables keep their types, and the bitmap never gains a bit beyond *)
(* its last word (PageBitmap::set).                                        *)
THEOREM TypeCorrect == Spec => []TypeOK
  <1>1. IInv => TypeOK
    BY DEF IInv
  <1> QED  BY <1>1, Invariance, PTL

LEMMA IInvImpliesOwnedPagesMarked == IInv => OwnedPagesMarked
  <1> SUFFICES ASSUME IInv, NEW i \in Held \cup Own
               PROVE  Get(bits, i)
    BY DEF OwnedPagesMarked
  <1>1. CASE i \in Held
    <2>1. PICK a \in UsableAddresses : holders[a] > 0 /\ i = PageIndex(a)
      BY <1>1 DEF Held
    <2>2. holders[a] = 1
      BY <2>1, SMT DEF IInv, HeldOnce
    <2>3. Low(i) = i /\ i \in bits /\ i \in Nat
      BY <2>1, <2>2, Numbers DEF IInv, HeldAreLow
    <2> QED  BY <2>3, MaskFacts DEF Get
  <1>2. CASE i \in Own
    <2>1. PICK a \in BitmapAddresses(marked) : i = PageIndex(a)
      BY <1>2 DEF Own
    <2> DEFINE n == a - Regions[HomeRegion].base
    <2>2. /\ n \in 0 .. marked - 1 /\ n \in 0 .. BitmapPages - 1
          /\ a = Regions[HomeRegion].base + n
      BY HomeFacts, SMT DEF BitmapAddresses, IInv, TypeOK
    <2> HIDE DEF n
    <2>3. i = n + SkippedPages /\ i \in Nat
      BY <2>1, <2>2, OwnPageNumbers, OwnNumbers
    <2>4. Low(i) \in bits
      BY <2>2, <2>3 DEF IInv, OwnLowMarked
    <2> QED  BY <2>3, <2>4, MaskFacts DEF Get
  <1> QED  BY <1>1, <1>2

(* Whatever is allocated and freed in between, a page that belongs to a    *)
(* caller or to the bitmap reads as used (PageBitmap, free_physical_page). *)
THEOREM OwnedStayMarked == Spec => []OwnedPagesMarked
  BY Invariance, IInvImpliesOwnedPagesMarked, PTL

-----------------------------------------------------------------------------
(* No page leaks. A bit below an int's sign bit is in the masks of the two *)
(* pages it is the Low of and in no other, so marking it is done for one   *)
(* of them; and a page is freed by its Low bit, which no other holder uses. *)

LEMMA MaskBelowSign ==
  ASSUME NEW i \in Nat, i % WordBits < IntBits - 1
  PROVE  /\ Low(i) = i
         /\ Mask(i) = {i}
  <1> DEFINE b == i % WordBits
             w == WordOf(i)
  <1>1. w \in Nat /\ b \in 0 .. WordBits - 1 /\ i = (w * WordBits) + b
    BY DivMod, Widths DEF WordOf
  <1> HIDE DEF w
  <1>2. b % IntBits = b
    <2>1. b \in 0 .. IntBits - 1
      BY <1>1, Widths, SMT
    <2> HIDE DEF b
    <2> QED  BY <2>1, ModOfSmall, Widths
  <1>3. Low(i) = (w * WordBits) + b
    BY <1>2 DEF Low, w
  <1>4. Mask(i) = {(w * WordBits) + x : x \in ShiftedInt(b)}
    BY DEF Mask, w
  <1> HIDE DEF b
  <1>5. ShiftedInt(b) = {b}
    <2>1. b # IntBits - 1
      BY <1>1, Widths, SMT DEF b
    <2> QED  BY <1>2, <2>1 DEF ShiftedInt
  <1> QED  BY <1>1, <1>3, <1>4, <1>5

(* Whoever's mask has a bit below the sign bit has that bit as its Low.    *)
LEMMA MaskHitsLow ==
  ASSUME NEW m \in Nat, NEW i \in Mask(m), i \in Nat, i % WordBits < IntBits - 1
  PROVE  Low(m) = i
  <1> DEFINE s == (m % WordBits) % IntBits
             w == WordOf(m)
  <1>1. PICK b \in ShiftedInt(m % WordBits) : i = (w * WordBits) + b
    BY DEF Mask
  <1>2. w \in Nat /\ s \in 0 .. IntBits - 1
    <2>1. w \in Nat /\ m % WordBits \in 0 .. WordBits - 1
      BY DivMod, Widths DEF WordOf
    <2>2. m % WordBits \in Nat
      BY <2>1, Widths, SMT
    <2> QED  BY <2>1, <2>2, DivMod, Widths
  <1>3. b \in (IF s = IntBits - 1 THEN s .. WordBits - 1 ELSE {s})
    BY <1>1 DEF ShiftedInt
  <1>4. Low(m) = (w * WordBits) + s
    BY DEF Low
  <1> HIDE DEF s, w
  <1>5. b \in 0 .. WordBits - 1
    BY <1>2, <1>3, Widths, SMT
  <1>6. i % WordBits = b
    BY <1>1, <1>2, <1>5, DivModUnique, Widths
  <1>7. b = s
    BY <1>2, <1>3, <1>5, <1>6, Widths, SMT
  <1> QED  BY <1>1, <1>4, <1>7

LEMMA MarkingBelow ==
  ASSUME NEW bm, NEW m \in Nat, NEW i \in Nat, i % WordBits < IntBits - 1,
         Get(Set(bm, m, TRUE), i)
  PROVE  Get(bm, i) \/ Low(m) = i
  <1>1. Mask(i) = {i}
    BY MaskBelowSign
  <1>2. i \in bm \/ i \in Mask(m)
    BY <1>1 DEF Get, Set
  <1> QED  BY <1>1, <1>2, MaskHitsLow DEF Get

(* clear() has zeroed every word of the Span.                              *)
LEMMA InitNoLeak == Init => UsedPagesHaveOwner
  <1> SUFFICES ASSUME Init, NEW i \in Pages, WordOf(i) < SpanWords,
                      i % WordBits < IntBits - 1, Get(bits, i)
               PROVE  FALSE
    BY DEF UsedPagesHaveOwner
  <1>1. i \in Nat /\ Mask(i) = {i}
    BY PagesAreNumbers, MaskBelowSign
  <1>2. i \in UnclearedBits
    BY <1>1 DEF Get, Init
  <1>3. SpanWords \in Nat
    <2>1. ArrayBytes \in Nat
      BY Numbering, Widths, DivMod DEF ArrayBytes
    <2>2. ByteBits * ArrayBytes \in Nat
      BY <2>1, Widths, SMT
    <2> QED  BY <2>2, Widths, DivMod DEF SpanWords
  <1> DEFINE w == WordOf(i)
             b == i % WordBits
  <1>4. w \in Nat /\ b \in 0 .. WordBits - 1 /\ i = (w * WordBits) + b
    BY <1>1, DivMod, Widths DEF WordOf
  <1>5. w < SpanWords
    OBVIOUS
  <1> HIDE DEF w, b
  <1>6. (w + 1) * WordBits <= SpanWords * WordBits
    <2>1. w + 1 <= SpanWords
      BY <1>3, <1>4, <1>5, SMT
    <2>2. w * WordBits < SpanWords * WordBits
      BY <1>3, <1>4, <1>5, Widths, SMT
    <2> QED  BY <1>3, <1>4, <2>2, MulMonotone, Widths
  <1>7. (w + 1) * WordBits = (w * WordBits) + WordBits /\ w * WordBits \in Nat
    BY <1>4, Widths, SMT
  <1>8. SpanWords * WordBits \in Nat /\ SpanWords * WordBits <= i
    <2>1. SpanWords * WordBits \in Nat
      BY <1>3, Widths, SMT
    <2> QED  BY <1>1, <1>2, <2>1, SMT DEF UnclearedBits
  <1> QED  BY <1>4, <1>6, <1>7, <1>8, Widths, SMT

LEMMA MarkNoLeak ==
  ASSUME IInv, UsedPagesHaveOwner, MarkOwnPage
  PROVE  UsedPagesHaveOwner'
  <1> DEFINE m == marked + SkippedPages
             a == Regions[HomeRegion].base + marked
  <1>1. /\ marked \in 0 .. BitmapPages - 1 /\ marked \in Nat
        /\ bits' = Set(bits, m, TRUE) /\ marked' = marked + 1
        /\ holders' = holders
    BY HomeFacts, SMT DEF IInv, TypeOK, MarkOwnPage
  <1>2. m \in Nat /\ PageIndex(a) = m
    BY <1>1, OwnNumbers, OwnPageNumbers
  <1>3. a \in BitmapAddresses(marked + 1) /\ BitmapAddresses(marked) \subseteq BitmapAddresses(marked + 1)
    BY <1>1, HomeFacts, SMT DEF BitmapAddresses
  <1> HIDE DEF a, m
  <1>4. m \in Own' /\ Own \subseteq Own' /\ Held' = Held
    BY <1>1, <1>2, <1>3 DEF Own, Held
  <1> SUFFICES ASSUME NEW i \in Pages, WordOf(i) < SpanWords,
                      i % WordBits < IntBits - 1, Get(bits', i)
               PROVE  \E o \in (Held \cup Own)' : Low(o) = i
    BY DEF UsedPagesHaveOwner
  <1>5. Get(bits, i) \/ Low(m) = i
    BY <1>1, <1>2, PagesAreNumbers, MarkingBelow
  <1>6. CASE Get(bits, i)
    BY <1>4, <1>6 DEF UsedPagesHaveOwner
  <1>7. CASE Low(m) = i
    BY <1>4, <1>7
  <1> QED  BY <1>5, <1>6, <1>7

LEMMA AllocateNoLeak ==
  ASSUME IInv, UsedPagesHaveOwner, AllocatePhysicalPage
  PROVE  UsedPagesHaveOwner'
  <1>1. PICK m \in Pages, a \in UsableAddresses :
          /\ PageIndex(a) = m
          /\ holders' = [holders EXCEPT ![a] = 1]
          /\ bits' = Set(bits, m, TRUE)
    BY AllocateFacts
  <1>2. marked' = marked
    BY DEF AllocatePhysicalPage
  <1>3. /\ holders \in [UsableAddresses -> Nat]
        /\ \A b \in UsableAddresses : holders'[b] = IF b = a THEN 1 ELSE holders[b]
    BY <1>1 DEF IInv, TypeOK
  <1>4. m \in Held' /\ Held \subseteq Held' /\ Own' = Own
    BY <1>1, <1>2, <1>3, SMT DEF Held, Own
  <1> SUFFICES ASSUME NEW i \in Pages, WordOf(i) < SpanWords,
                      i % WordBits < IntBits - 1, Get(bits', i)
               PROVE  \E o \in (Held \cup Own)' : Low(o) = i
    BY DEF UsedPagesHaveOwner
  <1>5. Get(bits, i) \/ Low(m) = i
    BY <1>1, PagesAreNumbers, MarkingBelow
  <1>6. CASE Get(bits, i)
    BY <1>4, <1>6 DEF UsedPagesHaveOwner
  <1>7. CASE Low(m) = i
    BY <1>4, <1>7
  <1> QED  BY <1>5, <1>6, <1>7

(* The page given back was its own Low; so no other owner loses its flag.  *)
LEMMA FreeNoLeak ==
  ASSUME NEW a \in UsableAddresses, IInv, UsedPagesHaveOwner, FreePhysicalPage(a)
  PROVE  UsedPagesHaveOwner'
  <1> DEFINE m == PageIndex(a)
  <1>1. /\ holders[a] = 1 /\ holders' = [holders EXCEPT ![a] = 0]
        /\ bits' = bits \ {m} /\ marked' = marked
    BY FreeKeepsIInv DEF FreePhysicalPage, Set
  <1>2. Low(m) = m
    BY <1>1 DEF IInv, HeldAreLow
  <1>3. /\ holders \in [UsableAddresses -> Nat]
        /\ \A b \in UsableAddresses : holders'[b] = IF b = a THEN 0 ELSE holders[b]
    BY <1>1 DEF IInv, TypeOK
  <1>4. Own' = Own /\ \A o \in Held : o # m => o \in Held'
    BY <1>1, <1>3 DEF Held, Own
  <1> HIDE DEF m
  <1> SUFFICES ASSUME NEW i \in Pages, WordOf(i) < SpanWords,
                      i % WordBits < IntBits - 1, Get(bits', i)
               PROVE  \E o \in (Held \cup Own)' : Low(o) = i
    BY DEF UsedPagesHaveOwner
  <1>5. Mask(i) = {i}
    BY PagesAreNumbers, MaskBelowSign
  <1>6. Get(bits, i) /\ i # m
    BY <1>1, <1>5 DEF Get
  <1>7. PICK o \in Held \cup Own : Low(o) = i
    BY <1>6 DEF UsedPagesHaveOwner
  <1>8. o # m
    BY <1>2, <1>6, <1>7
  <1> QED  BY <1>4, <1>7, <1>8

(* No page leaks while pages share flags: in the words clear() zeroed, a   *)
(* bit below an int's sign bit is one only on behalf of an owner, so a     *)
(* page that nobody needs is found (allocate_physical_page,                *)
(* free_physical_page).                                                    *)
THEOREM NoPageLeaks == Spec => []UsedPagesHaveOwner
  <1>1. IInv /\ UsedPagesHaveOwner /\ [Next]_vars => UsedPagesHaveOwner'
    <2> SUFFICES ASSUME IInv, UsedPagesHaveOwner, [Next]_vars
                 PROVE  UsedPagesHaveOwner'
      OBVIOUS
    <2>1. CASE UNCHANGED <<bits, marked, holders>>
      BY <2>1 DEF UsedPagesHaveOwner, Held, Own
    <2>2. CASE MarkOwnPage
      BY <2>2, MarkNoLeak
    <2>3. CASE AllocatePhysicalPage
      BY <2>3, AllocateNoLeak
    <2>4. ASSUME NEW a \in UsableAddresses, FreePhysicalPage(a)
          PROVE  UsedPagesHaveOwner'
      BY <2>4, FreeNoLeak
    <2> QED  BY <2>1, <2>2, <2>3, <2>4
             DEF Next, FinishInit, PanicNoPage, PanicBadFree, vars
  <1> QED  BY <1>1, InitNoLeak, Invariance, PTL DEF Spec

-----------------------------------------------------------------------------
(* Refinement. *)

LEMMA InitImplementsPool == Init => Pool!Init
  BY DEF Init, Pool!Init

LEMMA StepImplementsPool == IInv /\ [Next]_vars => [Pool!Next]_(Pool!vars)
  <1> SUFFICES ASSUME IInv, [Next]_vars
               PROVE  [Pool!Next]_(Pool!vars)
    OBVIOUS
  <1>1. CASE AllocatePhysicalPage
    <2>1. PICK i \in Pages, a \in UsableAddresses :
           /\ Low(i) = i
           /\ PageIndex(a) = i
           /\ holders[a] = 0
           /\ holders' = [holders EXCEPT ![a] = 1]
           /\ \A n \in 0 .. BitmapPages - 1 : Low(n + SkippedPages) # i
      BY <1>1, AllocateFacts
    <2>2. a \notin BitmapAddresses(BitmapPages)
      <3> SUFFICES ASSUME a \in BitmapAddresses(BitmapPages)
                   PROVE  FALSE
        OBVIOUS
      <3> DEFINE n == a - Regions[HomeRegion].base
      <3>1. n \in 0 .. BitmapPages - 1 /\ a = Regions[HomeRegion].base + n
        BY HomeFacts, SMT DEF BitmapAddresses
      <3> HIDE DEF n
      <3>2. i = n + SkippedPages
        BY <2>1, <3>1, OwnPageNumbers
      <3> QED  BY <2>1, <3>1, <3>2
    <2>3. status = "running" /\ status' = "running"
      BY <1>1 DEF AllocatePhysicalPage
    <2>4. Pool!Allocate(a)
      BY <2>1, <2>2, <2>3 DEF Pool!Allocate
    <2> QED  BY <2>4 DEF Pool!Next
  <1>2. ASSUME NEW a \in UsableAddresses, FreePhysicalPage(a)
        PROVE  Pool!Next
    <2>1. holders[a] = 1 /\ holders' = [holders EXCEPT ![a] = 0]
      BY <1>2, FreeKeepsIInv
    <2>2. status = "running" /\ status' = "running"
      BY <1>2 DEF FreePhysicalPage
    <2>3. Pool!Release(a)
      BY <2>1, <2>2 DEF Pool!Release
    <2> QED  BY <2>3 DEF Pool!Next
  <1>3. CASE PanicNoPage \/ PanicBadFree
    BY <1>3 DEF PanicNoPage, PanicBadFree, Pool!Panic, Pool!Next
  <1>4. CASE MarkOwnPage \/ FinishInit \/ UNCHANGED vars
    <2>1. holders' = holders
      BY <1>4 DEF MarkOwnPage, FinishInit, vars
    <2>2. \/ status' = status
          \/ status = "marking" /\ status' = "running"
      BY <1>4 DEF MarkOwnPage, FinishInit, vars
    <2>3. (status' \in {"marking", "running"}) = (status \in {"marking", "running"})
      BY <2>2
    <2> QED  BY <2>1, <2>3, Zenon DEF Pool!vars
  <1> QED  BY <1>1, <1>2, <1>3, <1>4 DEF Next

(* The allocator hands out no page twice and never a page of its bitmap:   *)
(* every behaviour is one of the abstract page pool.                       *)
THEOREM Refinement == Spec => ImplementsPagePool
  <1>1. Spec => (Pool!Init /\ [][Pool!Next]_(Pool!vars))
    BY InitImplementsPool, StepImplementsPool, Invariance, PTL DEF Spec
  <1> QED  BY <1>1 DEF ImplementsPagePool, Pool!Spec
=============================================================================
